--------------------------- MODULE MCUpdateIngress ---------------------------
(* Small instances of UpdateIngress: two processes with a worker each.       *)
EXTENDS UpdateIngress, TLC

CONSTANTS p1, p2, w1, w2

OneLane == [u \in Updates |-> "l1"]
OneHome == [w \in Workers |-> p1]
=============================================================================
