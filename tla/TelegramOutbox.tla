--------------------------- MODULE TelegramOutbox ---------------------------
(* The durable outbox of Telegram operations: its table, the workers that    *)
(* lease and send, the maintenance between their rounds, the operators of    *)
(* the runtime API, and Telegram itself, which may take a request no worker  *)
(* waits for any longer.                                                     *)
(*                                                                           *)
(* One SQL statement, or one transaction, is one action.  A worker's task    *)
(* for an operation is what it holds between two of them.                    *)
EXTENDS Naturals, FiniteSets

CONSTANTS Ops,          \* the operations that may be enqueued
          Workers,      \* worker loops: one per process
          BatchOf,      \* [Ops -> batch]
          PartOf,       \* [Ops -> part index]
          KeyOf,        \* [Ops -> ordering key]
          PolicyOf,     \* [Ops -> delivery policy]
          ReactionOf,   \* creates with a trigger message -> their reaction
          Expiring,     \* operations with expires_at
          Replies,      \* operations whose payload replies to a message
          MaxAttempts,  \* config.max_attempts
          MaxFaults,    \* bound: crashes, store errors, leases lost while held
          MaxOrders     \* bound: manual retries and cancellations

Policies == {"create", "target_idempotent", "ephemeral", "financial"}
Idempotent(o) == PolicyOf[o] \in {"target_idempotent", "ephemeral"}

Once == {o \in Ops : ~ Idempotent(o)}

Triggered == DOMAIN ReactionOf
Reactions == {ReactionOf[o] : o \in Triggered}
Batches == {BatchOf[o] : o \in Ops \ Reactions}

ASSUME OutboxAssumption ==
  /\ DOMAIN BatchOf = Ops /\ DOMAIN KeyOf = Ops
  /\ PartOf \in [Ops -> Nat]
  /\ PolicyOf \in [Ops -> Policies]
  /\ Triggered \subseteq {o \in Ops : PolicyOf[o] = "create"}
  /\ Reactions \subseteq {o \in Ops \ Triggered : PolicyOf[o] = "target_idempotent"}
  /\ IsFiniteSet(Ops)
  /\ \A o, p \in Ops : /\ BatchOf[o] = BatchOf[p]
                       /\ PartOf[o] = PartOf[p] \/ o \in Reactions
                       => o = p
  /\ Expiring \subseteq Ops /\ Replies \subseteq Ops
  /\ MaxAttempts \in Nat \ {0} /\ MaxFaults \in Nat /\ MaxOrders \in Nat

States == {"absent", "pending", "leased", "retry_wait", "delivered",
           "ambiguous", "dead_letter", "expired", "cancelled"}

(* last_error_class, as far as some statement reads it: "history" is         *)
(* history_pending, "restorable" one of the three classes a manual retry     *)
(* gives back.                                                               *)
Classes == {"none", "history", "restorable"}

Rows == [state : States, class : Classes, id : Nat, attempt : Nat,
         started : BOOLEAN, live : BOOLEAN, late : BOOLEAN, bare : BOOLEAN]

Phases == {"none", "claimed", "sent", "ok", "history", "rejected", "transient",
           "reply_missing", "unknown", "reacted"}

VARIABLES op,         \* the table
          next_id,    \* the id sequence
          task,       \* [Workers -> [Ops -> phase and lease token]]
          wire,       \* <<operation, attempt>> Telegram may still take
          posted,     \* <<operation, attempt>> Telegram took
          confirmed,  \* duplicate risks accepted, per operation
          faults, orders   \* how many there were, for the bounds

sendVars == <<task, wire, posted>>
apiVars == <<confirmed, orders>>
outboxVars == <<op, next_id, sendVars, apiVars, faults>>

Unsent == {"pending", "retry_wait"}
Later(o) == {p \in Ops : BatchOf[p] = BatchOf[o] /\ PartOf[p] > PartOf[o]}
Free == [phase |-> "none", token |-> 0]
Idle(w) == \A o \in Ops : task[w][o].phase = "none"

OutboxInit ==
  /\ op = [o \in Ops |-> [state |-> "absent", class |-> "none", id |-> 0,
                          attempt |-> 0, started |-> FALSE, live |-> FALSE,
                          late |-> FALSE, bare |-> FALSE]]
  /\ next_id = 1
  /\ task = [w \in Workers |-> [o \in Ops |-> Free]]
  /\ wire = {} /\ posted = {}
  /\ confirmed = [o \in Ops |-> 0]
  /\ faults = 0 /\ orders = 0

-----------------------------------------------------------------------------
(* Enqueue.  The insert takes ids in part order; the transaction commits     *)
(* later, so a smaller id may become visible after a larger one.             *)

PartsOf(b) == {o \in Ops : BatchOf[o] = b}

InsertBatch(b) ==
  /\ \A o \in PartsOf(b) : op[o].id = 0
  /\ op' = [o \in Ops |->
              IF o \in PartsOf(b)
              THEN [op[o] EXCEPT !.id = next_id +
                      Cardinality({p \in PartsOf(b) : PartOf[p] < PartOf[o]})]
              ELSE op[o]]
  /\ next_id' = next_id + Cardinality(PartsOf(b))
  /\ UNCHANGED <<sendVars, apiVars, faults>>

CommitBatch(b) ==
  /\ \A o \in PartsOf(b) : op[o].id > 0 /\ op[o].state = "absent"
  /\ op' = [o \in Ops |-> IF o \in PartsOf(b)
                          THEN [op[o] EXCEPT !.state = "pending"] ELSE op[o]]
  /\ UNCHANGED <<next_id, sendVars, apiVars, faults>>

(* The reaction to an ambiguous create: a batch of its own, enqueued once.   *)
EnqueueReaction(o) ==
  LET r == ReactionOf[o]
  IN  IF op[r].state = "absent"
      THEN /\ op' = [op EXCEPT ![r].state = "pending", ![r].id = next_id]
           /\ next_id' = next_id + 1
      ELSE UNCHANGED <<op, next_id>>

-----------------------------------------------------------------------------
(* A worker's round: lease what may be sent, send it, record what came of it.*)

\* Mutant of Claimable: any due operation is claimed, whatever comes first.
ClaimableUnordered(o) == op[o].state \in Unsent /\ ~ op[o].late

Claimable(o) ==
  /\ op[o].state \in Unsent /\ ~ op[o].late
  /\ \A p \in Ops : /\ KeyOf[p] = KeyOf[o] /\ op[p].id < op[o].id
                    => op[p].state \notin Unsent \cup {"leased"}
  /\ \A p \in Ops : o \in Later(p) => op[p].state = "delivered"

Claim(w) ==
  LET claimed == {o \in Ops : Claimable(o)}
  IN  /\ Idle(w) /\ claimed # {}
      /\ op' = [o \in Ops |->
                  IF o \in claimed
                  THEN [op[o] EXCEPT !.state = "leased", !.attempt = @ + 1,
                                     !.started = FALSE, !.live = TRUE]
                  ELSE op[o]]
      /\ task' = [task EXCEPT ![w] = [o \in Ops |->
                    IF o \in claimed
                    THEN [phase |-> "claimed", token |-> op'[o].attempt]
                    ELSE Free]]
      /\ UNCHANGED <<next_id, wire, posted, apiVars, faults>>

(* The lease of a task is its own as long as nobody took it over.            *)
Owned(w, o) == /\ op[o].state = "leased" /\ op[o].live
               /\ op[o].attempt = task[w][o].token

Goes(w, o, phase) == task' = [task EXCEPT ![w][o].phase = phase]
Done(w, o) == task' = [task EXCEPT ![w][o] = Free]

(* Every statement that ends an attempt is refused without the lease.        *)
Record(w, o, table) ==
  /\ op' = IF Owned(w, o) THEN table ELSE op
  /\ Done(w, o)
  /\ UNCHANGED <<next_id, wire, posted, apiVars, faults>>

(* What Telegram does with the requests of idempotent operations, which it   *)
(* may take any number of times, is not followed.                            *)
Requests(w, o) == IF Idempotent(o) THEN {} ELSE {<<o, task[w][o].token>>}

StartRequest(w, o) ==
  /\ task[w][o].phase = "claimed"
  /\ \/ /\ Owned(w, o)
        /\ op' = [op EXCEPT ![o].started = TRUE]
        /\ wire' = wire \cup Requests(w, o)
        /\ Goes(w, o, "sent")
     \/ /\ ~ Owned(w, o)
        /\ Done(w, o)
        /\ UNCHANGED <<op, wire>>
  /\ UNCHANGED <<next_id, posted, apiVars, faults>>

(* Telegram takes a request whether or not anybody waits for the answer.     *)
Accept(r) ==
  /\ r \in wire
  /\ wire' = wire \ {r} /\ posted' = posted \cup {r}
  /\ UNCHANGED <<op, next_id, task, apiVars, faults>>

(* The answer: a receipt, a refusal that proves nothing was posted (the      *)
(* replied-to message is gone, 400 and 403, 429 and connect errors), or      *)
(* nothing that proves anything, the send deadline included.                 *)
Answer(w, o) ==
  LET sent == Requests(w, o)
  IN  /\ task[w][o].phase = "sent"
      /\ \/ /\ sent \subseteq posted
            /\ Goes(w, o, "ok")
            /\ UNCHANGED wire
         \/ /\ sent \subseteq wire
            /\ wire' = wire \ sent
            /\ \/ \E phase \in {"rejected", "transient"} : Goes(w, o, phase)
               \/ /\ o \in Replies /\ ~ op[o].bare
                  /\ Goes(w, o, "reply_missing")
         \/ /\ Goes(w, o, "unknown")
            /\ UNCHANGED wire
      /\ UNCHANGED <<op, next_id, posted, apiVars, faults>>

(* The renewal finds the lease gone and the request is dropped.              *)
LoseLease(w, o) ==
  /\ task[w][o].phase = "sent" /\ ~ Owned(w, o)
  /\ Done(w, o)
  /\ UNCHANGED <<op, next_id, wire, posted, apiVars, faults>>

Deliver(w, o) ==
  /\ task[w][o].phase = "ok"
  /\ IF Owned(w, o) /\ op[o].started
     THEN /\ op' = [op EXCEPT ![o].state = "delivered", ![o].class = "history",
                              ![o].live = FALSE]
          /\ Goes(w, o, "history")
     ELSE UNCHANGED op /\ Done(w, o)
  /\ UNCHANGED <<next_id, wire, posted, apiVars, faults>>

HistoryCommitted(o) ==
  IF op[o].state = "delivered" /\ op[o].class = "history"
  THEN [op EXCEPT ![o].class = "none"] ELSE op

CommitHistory(w, o) ==
  /\ task[w][o].phase = "history"
  /\ op' = HistoryCommitted(o)
  /\ Done(w, o)
  /\ UNCHANGED <<next_id, wire, posted, apiVars, faults>>

Waiting(o) == [op EXCEPT ![o].state = "retry_wait", ![o].class = "none",
                         ![o].live = FALSE]

RetryBare(w, o) ==
  /\ task[w][o].phase = "reply_missing"
  /\ Record(w, o, [Waiting(o) EXCEPT ![o].bare = TRUE])

\* Mutant of Retryable: an unknown outcome is retried for every policy.
RetryableAlways(w, o) == task[w][o].phase \in {"transient", "unknown"}

Retryable(w, o) == \/ task[w][o].phase = "transient"
                   \/ task[w][o].phase = "unknown" /\ Idempotent(o)

Retry(w, o) ==
  /\ Retryable(w, o) /\ task[w][o].token < MaxAttempts
  /\ Record(w, o, Waiting(o))

(* The unsent later parts of a batch whose predecessor ended otherwise than  *)
(* delivered are cancelled in the same statement.                            *)
WithoutLater(table, heads, class) ==
  [o \in Ops |-> IF /\ table[o].state \in Unsent
                    /\ \E h \in heads : o \in Later(h)
                 THEN [table[o] EXCEPT !.state = "cancelled", !.class = class]
                 ELSE table[o]]

Ended(o, state) ==
  WithoutLater([op EXCEPT ![o].state = state, ![o].class = "none",
                          ![o].live = FALSE], {o}, "restorable")

(* A payload that no longer decodes, a refusal, or no attempt left.          *)
DeadLetter(w, o) ==
  /\ \/ task[w][o].phase \in {"claimed", "rejected"}
     \/ Retryable(w, o) /\ task[w][o].token >= MaxAttempts
  /\ Record(w, o, Ended(o, "dead_letter"))

(* An ambiguous create first queues its reaction, then is marked.            *)
QueueReaction(w, o) ==
  /\ task[w][o].phase = "unknown" /\ o \in Triggered
  /\ EnqueueReaction(o)
  /\ Goes(w, o, "reacted")
  /\ UNCHANGED <<wire, posted, apiVars, faults>>

MarkAmbiguous(w, o) ==
  /\ \/ task[w][o].phase = "reacted"
     \/ task[w][o].phase = "unknown" /\ ~ Idempotent(o) /\ o \notin Triggered
  /\ Record(w, o, Ended(o, "ambiguous"))

-----------------------------------------------------------------------------
(* Faults.                                                                   *)

(* A statement of a task fails: the worker reports it and goes on.           *)
StoreError(w, o) ==
  /\ task[w][o].phase \notin {"none", "sent"}
  /\ faults < MaxFaults /\ faults' = faults + 1
  /\ Done(w, o)
  /\ UNCHANGED <<op, next_id, wire, posted, apiVars>>

Crash(w) ==
  /\ ~ Idle(w)
  /\ faults < MaxFaults /\ faults' = faults + 1
  /\ task' = [task EXCEPT ![w] = [o \in Ops |-> Free]]
  /\ UNCHANGED <<op, next_id, wire, posted, apiVars>>

(* Ninety seconds without a renewal: nobody renews, or the renewals fail.    *)
Held(o) == \E w \in Workers : /\ task[w][o].phase # "none"
                              /\ task[w][o].token = op[o].attempt

LeaseEnds(o) ==
  /\ op[o].state = "leased" /\ op[o].live
  /\ op' = [op EXCEPT ![o].live = FALSE]
  /\ UNCHANGED <<next_id, sendVars, apiVars>>

LeaseExpires(o) == ~ Held(o) /\ LeaseEnds(o) /\ UNCHANGED faults

RenewalsFail(o) == /\ Held(o) /\ LeaseEnds(o)
                   /\ faults < MaxFaults /\ faults' = faults + 1

GoesLate(o) ==
  /\ o \in Expiring /\ ~ op[o].late /\ op[o].id > 0
  /\ op' = [op EXCEPT ![o].late = TRUE]
  /\ UNCHANGED <<next_id, sendVars, apiVars, faults>>

-----------------------------------------------------------------------------
(* Maintenance, by a worker between two rounds.                              *)

\* Mutant of Stale: leases that ended before their request are forgotten.
StaleStarted(o) == op[o].state = "leased" /\ ~ op[o].live /\ op[o].started

Stale(o) == op[o].state = "leased" /\ ~ op[o].live

\* Mutant of RecoveredState: the policy is not asked.
RecoveredBlindly(o) == IF op[o].late THEN "expired" ELSE "retry_wait"

RecoveredState(o) ==
  CASE op[o].late -> "expired"
    [] ~ op[o].late /\ (~ op[o].started \/ Idempotent(o)) -> "retry_wait"
    [] OTHER -> "ambiguous"

\* Mutant of Recover: later parts are kept when their predecessor expired.
RecoverKeeping(w) ==
  LET stale == {o \in Ops : Stale(o)}
      moved == [o \in Ops |-> IF o \in stale
                              THEN [op[o] EXCEPT !.state = RecoveredState(o),
                                                 !.class = "none"]
                              ELSE op[o]]
  IN  /\ Idle(w) /\ stale # {}
      /\ op' = WithoutLater(moved, {o \in stale : moved[o].state = "ambiguous"},
                            "restorable")
      /\ UNCHANGED <<next_id, sendVars, apiVars, faults>>

Recover(w) ==
  LET stale == {o \in Ops : Stale(o)}
      moved == [o \in Ops |-> IF o \in stale
                              THEN [op[o] EXCEPT !.state = RecoveredState(o),
                                                 !.class = "none"]
                              ELSE op[o]]
  IN  /\ Idle(w) /\ stale # {}
      /\ op' = WithoutLater(moved, {o \in stale : moved[o].state # "retry_wait"},
                            "restorable")
      /\ UNCHANGED <<next_id, sendVars, apiVars, faults>>

(* Two due parts of one batch: the later one is updated by either half of    *)
(* the statement.                                                            *)
Expire(w) ==
  LET due == {o \in Ops : op[o].state \in Unsent /\ op[o].late}
  IN  /\ Idle(w) /\ due # {}
      /\ \E gone \in SUBSET due :
           /\ {o \in due : \A p \in due : o \notin Later(p)} \subseteq gone
           /\ op' = WithoutLater(
                      [o \in Ops |-> IF o \in gone
                                     THEN [op[o] EXCEPT !.state = "expired",
                                                        !.class = "none"]
                                     ELSE op[o]],
                      gone, "none")
      /\ UNCHANGED <<next_id, sendVars, apiVars, faults>>

RepairHistory(w, o) ==
  /\ Idle(w)
  /\ op[o].state = "delivered" /\ op[o].class = "history"
  /\ op' = HistoryCommitted(o)
  /\ UNCHANGED <<next_id, sendVars, apiVars, faults>>

ReconcileReaction(w, o) ==
  /\ Idle(w) /\ o \in Triggered
  /\ op[o].state = "ambiguous" /\ op[ReactionOf[o]].state = "absent"
  /\ EnqueueReaction(o)
  /\ UNCHANGED <<sendVars, apiVars, faults>>

-----------------------------------------------------------------------------
(* The operators.                                                            *)

RetryableManually(o) ==
  op[o].state \in {"ambiguous", "dead_letter"} /\ ~ op[o].late

(* Only a doubtful create or payment needs the risk accepted.                *)
Confirmed(o) == IF op[o].state = "ambiguous" /\ ~ Idempotent(o)
                THEN [confirmed EXCEPT ![o] = @ + 1] ELSE confirmed

Restored(o) ==
  [p \in Ops |-> IF \/ p = o
                    \/ /\ p \in Later(o) /\ op[p].state = "cancelled"
                       /\ op[p].class = "restorable"
                 THEN [op[p] EXCEPT !.state = "pending", !.class = "none"]
                 ELSE op[p]]

RetryManually(o) ==
  /\ orders < MaxOrders /\ orders' = orders + 1
  /\ RetryableManually(o)
  /\ confirmed' = Confirmed(o)
  /\ op' = Restored(o)
  /\ UNCHANGED <<next_id, sendVars, faults>>

Cancellable(o) == op[o].state \in Unsent \cup {"ambiguous", "dead_letter"} \/ Stale(o)

Cancelled(o, table) ==
  WithoutLater([table EXCEPT ![o].state = "cancelled", ![o].class = "none",
                             ![o].live = FALSE], {o}, "none")

Cancel(o) ==
  /\ orders < MaxOrders /\ orders' = orders + 1
  /\ Cancellable(o)
  /\ op' = Cancelled(o, op)
  /\ UNCHANGED <<next_id, sendVars, confirmed, faults>>

-----------------------------------------------------------------------------
Round(w) == \/ Claim(w)
            \/ \E o \in Ops : \/ StartRequest(w, o) \/ Answer(w, o)
                              \/ LoseLease(w, o) \/ Deliver(w, o)
                              \/ CommitHistory(w, o) \/ RetryBare(w, o)
                              \/ Retry(w, o) \/ DeadLetter(w, o)
                              \/ QueueReaction(w, o) \/ MarkAmbiguous(w, o)

Maintenance(w) == \/ Recover(w) \/ Expire(w)
                  \/ \E o \in Ops : RepairHistory(w, o) \/ ReconcileReaction(w, o)

Faults == \/ \E w \in Workers : Crash(w) \/ \E o \in Ops : StoreError(w, o)
          \/ \E o \in Ops : RenewalsFail(o)

Operate == \E o \in Ops : RetryManually(o) \/ Cancel(o)

OutboxNext ==
  \/ \E b \in Batches : InsertBatch(b) \/ CommitBatch(b)
  \/ \E w \in Workers : Round(w) \/ Maintenance(w)
  \/ \E r \in wire : Accept(r)
  \/ \E o \in Ops : LeaseExpires(o) \/ GoesLate(o)
  \/ Operate
  \/ Faults

OutboxSpec == OutboxInit /\ [][OutboxNext]_outboxVars

(* The loop of a worker always comes back to its maintenance; requests have  *)
(* a deadline; a lease nobody renews runs out.                               *)
FairOutboxSpec ==
  /\ OutboxSpec
  /\ \A w \in Workers : WF_outboxVars(Round(w)) /\ WF_outboxVars(Maintenance(w))
  /\ WF_outboxVars(\E o \in Ops : LeaseExpires(o))

-----------------------------------------------------------------------------
(* Type invariant of the table, the tasks and the network.                   *)
OutboxTypeOK ==
  /\ op \in [Ops -> Rows] /\ next_id \in Nat
  /\ task \in [Workers -> [Ops -> [phase : Phases, token : Nat]]]
  /\ wire \subseteq Once \X Nat /\ posted \subseteq Once \X Nat
  /\ confirmed \in [Ops -> Nat]
  /\ faults \in Nat /\ orders \in Nat

Posts(o) == Cardinality({r \in posted : r[1] = o})
Flying(o) == Cardinality({r \in wire : r[1] = o})

(* SQL_RECOVER_EXPIRED_LEASES, send_timeout_disposition, handle_send_error:  *)
(* a create or a payment that may be sent again was, as far as anybody can   *)
(* tell, never posted, or every doubtful attempt of it was accepted by an    *)
(* operator as the risk of a duplicate.                                      *)
ResendIsSafe ==
  \A o \in Ops :
    o \in Once /\ op[o].state \in Unsent
      => Posts(o) + Flying(o) <= confirmed[o]

(* SQL_CLAIM_OPERATIONS: no operation waits behind a part of its own batch   *)
(* that will never be delivered; nothing could claim it, and it would block  *)
(* every later operation of its ordering key.                                *)
NoPartIsStranded ==
  \A o, p \in Ops :
    op[p].state \in Unsent /\ p \in Later(o)
      => op[o].state \in Unsent \cup {"leased", "delivered"}

(* The parts of a message appear in their order: Telegram took every earlier *)
(* part, under whatever attempt, before it took a later one.                 *)
PostedInOrder ==
  \A r \in posted : \A o \in Once : r[1] \in Later(o) => Posts(o) > 0

(* Nothing is open: no operation is waiting or leased, every receipt has its *)
(* history, every doubtful create its reaction.                              *)
Quiet(o) ==
  /\ op[o].state \notin Unsent \cup {"leased"}
  /\ op[o].state = "delivered" => op[o].class # "history"
  /\ op[o].state = "ambiguous" /\ o \in Triggered
       => op[ReactionOf[o]].state # "absent"

(* run_outbox_maintenance and the claim: once faults and operators cease, no *)
(* lease, wait or ordering rule holds an operation forever, a history lost   *)
(* to an error or a crash is repaired, and a create that recovery, not its   *)
(* worker, found doubtful gets its reaction too.                             *)
OutboxDrains == []<>(\A o \in Ops : Quiet(o))

-----------------------------------------------------------------------------
(* The promise about messages that must not be sent twice.                   *)

OutcomeOf(state) ==
  CASE state = "delivered" -> "delivered"
    [] state = "ambiguous" -> "doubtful"
    [] state = "dead_letter" -> "refused"
    [] state \in {"expired", "cancelled"} -> "dropped"
    [] OTHER -> "open"

Promise == INSTANCE DeliveryPromise
             WITH Msgs    <- Once,
                  outcome <- [o \in Once |-> OutcomeOf(op[o].state)],
                  posts   <- [o \in Once |-> Posts(o)],
                  permits <- [o \in Once |-> 1 + confirmed[o]]

(* The outbox implements DeliveryPromise.                                    *)
KeepsPromise == Promise!PromiseSpec
=============================================================================
