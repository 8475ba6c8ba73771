---------------------------- MODULE MCTaskQueue ----------------------------
(* Small instances of TaskQueue.  Each cfg picks the workers, the requests   *)
(* and the inputs that make one family of interleavings happen.              *)
EXTENDS TaskQueue, TLC

CONSTANTS w1, w2, w3, w4, k1, m1, m2, c1, c2

NoRequests == {}
OneChat == [l \in Lanes |-> "c"]

-----------------------------------------------------------------------------
(* Dialog: two updates of one debounce key, an edit of the first.            *)

Dialog(timeout) == [queue |-> DialogQueue, type |-> "dialog", lane |-> "l1",
                    user |-> "u1", priority |-> 0, timeout |-> timeout]

DialogWorkers == [w \in WorkerIds |-> DialogQueue]
DialogTypes == [w \in WorkerIds |-> {"dialog"}]
MixedWorkers == [w \in WorkerIds |-> CASE w = w3 -> "image-regular"
                                     [] w = w4 -> "agent-qwen"
                                     [] OTHER -> DialogQueue]
MixedTypes == [w \in WorkerIds |-> CASE w = w3 -> {"image"}
                                   [] w = w4 -> {"agent"}
                                   [] OTHER -> {"dialog"}]
AgentRequests == {[queue |-> "agent-qwen", type |-> "agent", lane |-> "l1",
                   user |-> "u1", priority |-> 0, timeout |-> 1]}
DialogUpdates ==
  {[id |-> 1, msg |-> m1, key |-> k1, request |-> Dialog(1)],
   [id |-> 2, msg |-> m2, key |-> k1, request |-> Dialog(1)]}
DialogEdits == {[id |-> n, msg |-> m1, lane |-> "l1"] : n \in {3, 4}}
OneDialogRequest == {Dialog(1)}
WorkerSymmetry == Permutations(WorkerIds)

-----------------------------------------------------------------------------
(* Accelerator: an ASR job, a regular and a VIP image job share the hardware. *)

Image(queue, timeout) == [queue |-> queue, type |-> "image", lane |-> "l1",
                          user |-> "u1", priority |-> 0, timeout |-> timeout]
AcceleratorRequests ==
  {[queue |-> "asr", type |-> "asr", lane |-> "l1", user |-> "u1",
    priority |-> AsrPriority, timeout |-> 0],
   Image("image-regular", 0), Image(ImageVipQueue, 0)}
AsrWorkers == [w \in WorkerIds |-> "asr"]
AsrTypes == [w \in WorkerIds |-> {"asr"}]

\* Asked for by two handlers of one user, or by one next to a dialog.
OneImage == {Image("image-regular", 1)}
=============================================================================
