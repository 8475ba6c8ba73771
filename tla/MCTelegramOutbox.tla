-------------------------- MODULE MCTelegramOutbox --------------------------
(* A two-part answer with a trigger message, its reaction, and optionally an *)
(* edit with a TTL, all of one chat.                                         *)
EXTENDS TelegramOutbox, TLC

CONSTANT w1

TwoParts == 1..4
Batch == (1 :> "answer") @@ (2 :> "answer") @@ (3 :> "reaction1") @@ (4 :> "reaction2")
Part == [o \in Ops |-> IF o = 2 THEN 1 ELSE 0]
Key == [o \in Ops |-> "chat"]
Policy == [o \in Ops |-> IF o \in {1, 2} THEN "create" ELSE "target_idempotent"]
Reaction == (1 :> 3) @@ (2 :> 4)
=============================================================================
