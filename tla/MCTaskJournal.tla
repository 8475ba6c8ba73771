--------------------------- MODULE MCTaskJournal ---------------------------
(* Small instances of TaskJournal.  Each cfg picks the requests, the inputs  *)
(* and the number of faults that make one family of crashes happen.          *)
EXTENDS TaskJournal, TLC

CONSTANTS w1, w2, w3, k1, m1, m2, c1

NoRequests == {}
OneChat == [l \in Lanes |-> "c"]

-----------------------------------------------------------------------------
(* Dialog: debounced updates of one key, workers of the dialog queue.        *)

Dialog(timeout) == [queue |-> DialogQueue, type |-> "dialog", lane |-> "l1",
                    user |-> "u1", priority |-> 0, timeout |-> timeout]

DialogWorkers == [w \in WorkerIds |-> DialogQueue]
DialogTypes == [w \in WorkerIds |-> {"dialog"}]
OneUpdate == {[id |-> 1, msg |-> m1, key |-> k1, request |-> Dialog(0)]}
TwoUpdates == OneUpdate \cup {[id |-> 2, msg |-> m2, key |-> k1, request |-> Dialog(0)]}

-----------------------------------------------------------------------------
(* Agent: work that is adopted, not requeued, after a restart.               *)

AgentRequests == {[queue |-> "agent-qwen", type |-> "agent", lane |-> "l1",
                   user |-> "u1", priority |-> 0, timeout |-> 1]}
AgentOrDialog == [w \in WorkerIds |-> IF w = w1 THEN DialogQueue ELSE "agent-qwen"]
AgentOrDialogTypes == [w \in WorkerIds |-> IF w = w1 THEN {"dialog"} ELSE {"agent"}]
=============================================================================
