----------------------------- MODULE MCPayments -----------------------------
(* Two payments of a user, the control worker, the sync and one operator.    *)
EXTENDS Payments, TLC

CONSTANTS o1, o2

(* The first payment was missed, its compensation is over at the time 1.     *)
OneMissed == {[c \in Charges |-> IF c = 1 THEN -5 ELSE Nil]}
=============================================================================
