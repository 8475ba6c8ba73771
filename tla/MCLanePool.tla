----------------------------- MODULE MCLanePool -----------------------------
(* Three requests of two classes for a pool of one or two lanes.             *)
EXTENDS LanePool

CONSTANTS r1, r2, r3

TwoClasses == [r \in Requests |-> IF r = r3 THEN 1 ELSE 0]
=============================================================================
