-------------------------- MODULE MCDialogSession --------------------------
(* Two users of one thread and the workers of its queue.                     *)
EXTENDS DialogSession, TLC

CONSTANTS w1, w2, w3

Senders == [m \in Msgs |-> IF m = 2 THEN "third party" ELSE "initiator"]
WorkerSymmetry == Permutations(Workers)
=============================================================================
