------------------------------ MODULE MCRouter ------------------------------
(* Small instances of Router: two requests of two workflows, a primary and   *)
(* an overflow that share a pool, and a fallback without one.                *)
EXTENDS Router, TLC

CONSTANTS r1, r2, a, b, c, p

OnePool == [t \in Targets |-> IF t = c THEN Nil ELSE p]
OneLane == [q \in Pools |-> 1]
First == <<a>>
Second == <<b>>
Third == <<c>>
AllAble == [r \in Requests |-> Targets]
(* One workflow opens a circuit at its first failure, the other at the third. *)
Patience == [r \in Requests |-> [t \in Targets |-> IF r = r1 THEN 3 ELSE 1]]
OneWarm == [r \in Requests |-> IF r = r1 THEN b ELSE Nil]
=============================================================================
