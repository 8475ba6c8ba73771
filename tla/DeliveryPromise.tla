--------------------------- MODULE DeliveryPromise ---------------------------
(* What the outbox promises about messages that must not be sent twice: new  *)
(* messages and payments.  Telegram takes each at most once, and once more   *)
(* for every time an operator accepts the risk of a duplicate; "delivered"   *)
(* is said of a message Telegram has, "refused" of one whose last permission *)
(* is unused.  A step may concern several messages, each on its own terms.   *)
EXTENDS Naturals

CONSTANT Msgs

VARIABLES outcome,  \* what the outbox says of each message
          posts,    \* how often Telegram took it
          permits   \* how often it may

promiseVars == <<outcome, posts, permits>>

Outcomes == {"open", "delivered", "doubtful", "refused", "dropped"}

PromiseInit ==
  /\ outcome = [m \in Msgs |-> "open"]
  /\ posts = [m \in Msgs |-> 0]
  /\ permits = [m \in Msgs |-> 1]

SameOutcome(m) == outcome'[m] = outcome[m]
SamePosts(m) == posts'[m] = posts[m]
SamePermits(m) == permits'[m] = permits[m]

(* Telegram takes a message, perhaps long after the outbox gave it up; the   *)
(* permission of a refused attempt stays unused.                             *)
Post(m) ==
  /\ posts[m] + (IF outcome[m] = "refused" THEN 1 ELSE 0) < permits[m]
  /\ posts'[m] = posts[m] + 1
  /\ SameOutcome(m) /\ SamePermits(m)

Settle(m) ==
  /\ outcome[m] = "open"
  /\ \/ posts[m] > 0 /\ outcome'[m] = "delivered"
     \/ posts[m] < permits[m] /\ outcome'[m] = "refused"
     \/ outcome'[m] \in {"doubtful", "dropped"}
  /\ SamePosts(m) /\ SamePermits(m)

GiveUp(m) ==
  /\ outcome[m] \in {"doubtful", "refused"}
  /\ outcome'[m] = "dropped"
  /\ SamePosts(m) /\ SamePermits(m)

(* A later part, dropped with its predecessor, is wanted again.              *)
Restore(m) ==
  /\ outcome[m] = "dropped" /\ posts[m] < permits[m]
  /\ outcome'[m] = "open"
  /\ SamePosts(m) /\ SamePermits(m)

(* Only a doubtful message costs a new permission.                           *)
Again(m) ==
  /\ outcome'[m] = "open"
  /\ \/ outcome[m] = "refused" /\ SamePermits(m)
     \/ outcome[m] = "doubtful" /\ permits'[m] = permits[m] + 1
  /\ SamePosts(m)

Rest(m) == SameOutcome(m) /\ SamePosts(m) /\ SamePermits(m)

PromiseNext ==
  \A m \in Msgs :
    Post(m) \/ Settle(m) \/ GiveUp(m) \/ Restore(m) \/ Again(m) \/ Rest(m)

PromiseSpec == PromiseInit /\ [][PromiseNext]_promiseVars
=============================================================================
