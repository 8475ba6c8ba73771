--------------------------- MODULE DialogSession ---------------------------
(* The session of one (chat, thread): while a turn of it runs, the messages  *)
(* of whoever started it are merged into the turn and those of others are    *)
(* parked until it ends.  The registry keeps one slot per key and the keys   *)
(* do not meet, so one key is enough.                                        *)
(*                                                                           *)
(* The jobs are those of a queue without a lane lock ("text"): the lock of   *)
(* dialog-aifarm only takes interleavings away.  Delivery, time-outs and     *)
(* cancellation of a job are in TaskQueue; here they are what they do to a   *)
(* session.  A crash loses the registry by design and is not modelled.       *)
EXTENDS Naturals, FiniteSets, Sequences, SequencesExt

CONSTANTS Msgs,     \* message ids of the chat, in the order they are sent
          UserOf,   \* [Msgs -> their senders]
          Workers,  \* dialog workers
          Nil,
          Tries,        \* claims before a turn runs without a session
          MaxAttempts,  \* attempts of a job
          MaxFaults     \* bound: retries (a respawned job counts its own
                        \* anew), processing time-outs and cancellations

ASSUME SessionAssumption ==
  /\ Msgs \subseteq Nat /\ IsFiniteSet(Msgs) /\ IsFiniteSet(Workers)
  /\ DOMAIN UserOf = Msgs
  /\ Tries \in Nat \ {0} /\ MaxAttempts \in Nat \ {0}
  /\ MaxFaults \in Nat

(* A turn that is asked for: its message, and the older ones it will find in *)
(* the history of the chat.                                                  *)
Turns == [msg : Msgs, behind : SUBSET Msgs]
Slots == [job : Nat, user : {UserOf[m] : m \in Msgs}, box : Nat, parked : Seq(Turns)]

ASSUME NilIsNoSession == Nil \notin Slots

Statuses == {"pending", "processing", "completed", "failed", "cancelled"}
Places == {"idle", "claim", "inject", "push", "park", "absorbed",
           "run", "resolved", "release", "seal", "respawn"}

(* What a worker remembers of the job it dequeued: the claims it has left,   *)
(* the session job it found, the inbox (its own, or the one it is about to   *)
(* fill), how its turn ended, and the turns it still has to respawn.         *)
Resting == [at |-> "idle", job |-> 0, tries |-> 0, seen |-> 0, box |-> 0,
            end |-> Nil, commit |-> FALSE, todo |-> <<>>]

VARIABLES jobs,     \* the queue, in the order of its ids
          slot,     \* the session of the key: job, user, inbox, parked; or Nil
          boxes,    \* the inbox of every session there was
          worker,   \* [Workers -> what it does]
          settled,  \* messages that were answered, given up with a signal, or withdrawn
          retries, expiries, cancels

vars == <<jobs, slot, boxes, worker, settled, retries, expiries, cancels>>

SessionInit ==
  /\ jobs = <<>> /\ slot = Nil /\ boxes = <<>>
  /\ worker = [w \in Workers |-> Resting]
  /\ settled = {} /\ retries = 0 /\ expiries = 0 /\ cancels = 0

FaultsRemain == retries + expiries + cancels < MaxFaults

Ids == DOMAIN jobs
JobOf(w) == jobs[worker[w].job]
Goes(w, place) == worker' = [worker EXCEPT ![w].at = place]
Rests(w) == worker' = [worker EXCEPT ![w] = Resting]
Has(w, place) == worker[w].at = place

Turn(m, behind) == [msg |-> m, behind |-> behind]
NewJob(turn) == [msg |-> turn.msg, behind |-> turn.behind, status |-> "pending", attempt |-> 0]
Covered(j) == {jobs[j].msg} \cup jobs[j].behind

TurnOf(w) == Turn(JobOf(w).msg, JobOf(w).behind)

Closed(b) == [b EXCEPT !.injected = <<>>, !.consumed = <<>>, !.sealed = TRUE]
NewBox == [injected |-> <<>>, consumed |-> <<>>, sealed |-> FALSE]

-----------------------------------------------------------------------------
(* The queue.                                                                *)

(* An update is handled: its message gets a job.                             *)
Submit(m) ==
  /\ \A n \in Msgs : n < m => \E j \in Ids : n \in Covered(j)
  /\ \A j \in Ids : m \notin Covered(j)
  /\ jobs' = Append(jobs, NewJob(Turn(m, {})))
  /\ UNCHANGED <<slot, boxes, worker, settled, retries, expiries, cancels>>

Pending == {j \in Ids : jobs[j].status = "pending"}

Dequeue(w) ==
  /\ Has(w, "idle")
  /\ \E j \in Pending :
       /\ \A i \in Pending : j <= i
       /\ jobs' = [jobs EXCEPT ![j].status = "processing"]
       /\ worker' = [worker EXCEPT ![w] = [Resting EXCEPT !.at = "claim", !.job = j, !.tries = Tries]]
  /\ UNCHANGED <<slot, boxes, settled, retries, expiries, cancels>>

(* The processing time-out puts a job back under its worker.                 *)
Expire(j) ==
  /\ FaultsRemain
  /\ jobs[j].status = "processing"
  /\ jobs' = [jobs EXCEPT ![j].status = "pending"]
  /\ expiries' = expiries + 1
  /\ UNCHANGED <<slot, boxes, worker, settled, retries, cancels>>

Cancel(j) ==
  /\ FaultsRemain
  /\ jobs[j].status \in {"pending", "processing"}
  /\ jobs' = [jobs EXCEPT ![j].status = "cancelled"]
  /\ settled' = settled \cup Covered(j)
  /\ cancels' = cancels + 1
  /\ UNCHANGED <<slot, boxes, worker, retries, expiries>>

(* complete, fail and requeue: only a cancelled job is left as it is.        *)
Becomes(j, status) == IF jobs[j].status = "cancelled" THEN jobs
                      ELSE [jobs EXCEPT ![j].status = status]

-----------------------------------------------------------------------------
(* A worker looks for the session of its key.                                *)

Claim(w) ==
  /\ Has(w, "claim")
  /\ \/ /\ worker[w].tries = 0          \* bug containment: a parallel turn
        /\ Goes(w, "run")
        /\ UNCHANGED <<slot, boxes>>
     \/ /\ worker[w].tries > 0 /\ slot = Nil
        /\ boxes' = Append(boxes, NewBox)
        /\ slot' = [job |-> worker[w].job, user |-> UserOf[JobOf(w).msg],
                    box |-> Len(boxes) + 1, parked |-> <<>>]
        /\ worker' = [worker EXCEPT ![w].at = "run", ![w].box = Len(boxes) + 1]
     \/ /\ worker[w].tries > 0 /\ slot # Nil
        /\ worker' = [worker EXCEPT
             ![w].at = IF slot.job = worker[w].job THEN "run"
                       ELSE IF slot.user = UserOf[JobOf(w).msg] THEN "inject" ELSE "park",
             ![w].seen = IF slot.job = worker[w].job THEN 0 ELSE slot.job]
        /\ UNCHANGED <<slot, boxes>>
  /\ UNCHANGED <<jobs, settled, retries, expiries, cancels>>

(* Mutant: the session that was gone is tried again.                         *)
MissedAgain(w) ==
  worker' = [worker EXCEPT ![w].at = IF @ = "push" THEN "inject" ELSE @, ![w].box = 0]

(* Mutant: the turn starts, without another claim.                           *)
MissedRuns(w) == worker' = [worker EXCEPT ![w].at = "run", ![w].box = 0]

(* The session it saw is gone: the claim is tried again.                     *)
Missed(w) == worker' = [worker EXCEPT ![w].at = "claim", ![w].tries = @ - 1, ![w].box = 0]

(* Mutant: whatever session the key has by now.                              *)
AnySession(w) == slot # Nil

StillThere(w) == slot # Nil /\ slot.job = worker[w].seen

(* inject: the inbox is looked up under the lock of the registry and filled  *)
(* under its own.                                                            *)
FindInbox(w) ==
  /\ Has(w, "inject")
  /\ IF StillThere(w)
     THEN worker' = [worker EXCEPT ![w].at = "push", ![w].seen = 0, ![w].box = slot.box]
     ELSE Missed(w)
  /\ UNCHANGED <<jobs, slot, boxes, settled, retries, expiries, cancels>>

Push(w) ==
  /\ Has(w, "push")
  /\ LET b == worker[w].box
     IN  IF boxes[b].sealed
         THEN Missed(w) /\ UNCHANGED boxes
         ELSE /\ boxes' = [boxes EXCEPT ![b].injected = Append(@, TurnOf(w))]
              /\ Goes(w, "absorbed")
  /\ UNCHANGED <<jobs, slot, settled, retries, expiries, cancels>>

Park(w) ==
  /\ Has(w, "park")
  /\ IF StillThere(w)
     THEN /\ slot' = [slot EXCEPT !.parked = Append(@, TurnOf(w))]
          /\ Goes(w, "absorbed")
     ELSE Missed(w) /\ UNCHANGED slot
  /\ UNCHANGED <<jobs, boxes, settled, retries, expiries, cancels>>

(* The job of an absorbed message is complete.                               *)
Absorbed(w) ==
  /\ Has(w, "absorbed")
  /\ jobs' = Becomes(worker[w].job, "completed")
  /\ Rests(w)
  /\ UNCHANGED <<slot, boxes, settled, retries, expiries, cancels>>

-----------------------------------------------------------------------------
(* A turn.                                                                   *)

Box(w) == boxes[worker[w].box]
HasBox(w) == worker[w].box # 0

(* drain_open, before every step of the model.                               *)
Drain(w) ==
  /\ Has(w, "run") /\ HasBox(w)
  /\ Box(w).injected # <<>>
  /\ boxes' = [boxes EXCEPT ![worker[w].box].injected = <<>>,
                            ![worker[w].box].consumed = @ \o Box(w).injected]
  /\ UNCHANGED <<jobs, slot, worker, settled, retries, expiries, cancels>>

HasConsumed(w) == HasBox(w) /\ Box(w).consumed # <<>>

(* The turn is resolved.  A retry of a turn that took messages in would run  *)
(* without them: the job is complete and the newest of them starts over.     *)
Resolve(w, end) ==
  /\ Has(w, "run")
  /\ \/ end # "retry" /\ UNCHANGED retries
     \/ /\ end = "retry"
        /\ JobOf(w).attempt + 1 < MaxAttempts
        /\ FaultsRemain
        /\ retries' = retries + 1
  /\ LET over == end = "retry" /\ HasConsumed(w)
     IN  worker' = [worker EXCEPT ![w].at = "resolved",
                                  ![w].end = IF over THEN "over" ELSE end,
                                  ![w].commit = end = "complete"]
  /\ UNCHANGED <<jobs, slot, boxes, settled, expiries, cancels>>

Taken(b) == {b.consumed[i] : i \in DOMAIN b.consumed}
Messages(turns) == UNION {{t.msg} \cup t.behind : t \in turns}

(* finalize_turn writes the status of the job.                               *)
Finalize(w) ==
  /\ Has(w, "resolved")
  /\ LET j == worker[w].job
     IN  /\ jobs' = CASE worker[w].end \in {"complete", "over"} -> Becomes(j, "completed")
                      [] worker[w].end = "fail" -> Becomes(j, "failed")
                      [] worker[w].end = "retry" ->
                           [Becomes(j, "pending") EXCEPT ![j].attempt = @ + 1]
         /\ settled' = settled
              \cup (IF worker[w].end \in {"complete", "fail"} THEN Covered(j) ELSE {})
              \cup (IF worker[w].commit /\ HasBox(w) THEN Messages(Taken(Box(w))) ELSE {})
  /\ IF HasBox(w) THEN Goes(w, "release") ELSE Rests(w)
  /\ UNCHANGED <<slot, boxes, retries, expiries, cancels>>

-----------------------------------------------------------------------------
(* The session is released after its job is finalized: the slot first, the   *)
(* inbox once the registry is unlocked.                                      *)

Release(w) ==
  /\ Has(w, "release")
  /\ IF slot # Nil /\ slot.job = worker[w].job
     THEN /\ slot' = Nil
          /\ worker' = [worker EXCEPT ![w].at = "seal", ![w].todo = slot.parked]
     ELSE Rests(w) /\ UNCHANGED slot
  /\ UNCHANGED <<jobs, boxes, settled, retries, expiries, cancels>>

(* Mutant: what the turn took in is not handed back when it fails.           *)
LeftInjected(b, commit) == b.injected

Left(b, commit) == IF commit THEN b.injected ELSE b.consumed \o b.injected

(* The newest of the leftovers gets a turn, which finds the others in the    *)
(* history, and with them a message whose turn was started over.             *)
FollowUp(w, left) ==
  IF left = <<>> THEN <<>>
  ELSE LET older == {left[i] : i \in 1 .. Len(left) - 1}
       IN  << Turn(Last(left).msg,
                   Last(left).behind \cup Messages(older)
                     \cup IF worker[w].end = "over" THEN Covered(worker[w].job) ELSE {}) >>

Seal(w) ==
  /\ Has(w, "seal")
  /\ boxes' = [boxes EXCEPT ![worker[w].box] = Closed(@)]
  /\ worker' = [worker EXCEPT
       ![w].at = "respawn",
       ![w].todo = FollowUp(w, Left(Box(w), worker[w].commit)) \o @]
  /\ UNCHANGED <<jobs, slot, settled, retries, expiries, cancels>>

Respawn(w) ==
  /\ Has(w, "respawn")
  /\ IF worker[w].todo = <<>>
     THEN Rests(w) /\ UNCHANGED jobs
     ELSE /\ jobs' = Append(jobs, NewJob(Head(worker[w].todo)))
          /\ worker' = [worker EXCEPT ![w].todo = Tail(@)]
  /\ UNCHANGED <<slot, boxes, settled, retries, expiries, cancels>>

-----------------------------------------------------------------------------
Ends == {"complete", "fail", "retry"}

Step(w) ==
  \/ Dequeue(w) \/ Claim(w) \/ FindInbox(w) \/ Push(w) \/ Park(w) \/ Absorbed(w)
  \/ Drain(w) \/ Finalize(w) \/ Release(w) \/ Seal(w) \/ Respawn(w)
  \/ \E end \in Ends : Resolve(w, end)

Next ==
  \/ \E m \in Msgs : Submit(m)
  \/ \E j \in Ids : Expire(j) \/ Cancel(j)
  \/ \E w \in Workers : Step(w)

SessionSpec == SessionInit /\ [][Next]_vars

(* A worker that has a step takes it: its loop polls the queue, and a turn   *)
(* ends by its deadline.                                                     *)
FairSessionSpec ==
  /\ SessionSpec
  /\ \A w \in Workers : WF_vars(Step(w))

-----------------------------------------------------------------------------
(* Properties.                                                               *)

Sent == UNION {Covered(j) : j \in Ids}

(* Who carries a message: a job that is not over and whose worker has not    *)
(* handed it on, an inbox, a parked turn, or a turn about to be respawned.   *)
HandedOn(j) == \E w \in Workers : worker[w].job = j /\ Has(w, "absorbed")
ByJob(m) == {j \in Ids : /\ m \in Covered(j)
                         /\ jobs[j].status \in {"pending", "processing"}
                         /\ ~ HandedOn(j)}
InBox(m) == {b \in DOMAIN boxes : m \in Messages(ToSet(boxes[b].injected \o boxes[b].consumed))}
Parked(m) == IF slot = Nil THEN {}
             ELSE {i \in DOMAIN slot.parked : m \in Messages({slot.parked[i]})}
InHand(m) == {w \in Workers :
                \/ m \in Messages(ToSet(worker[w].todo))
                \/ worker[w].end = "over" /\ worker[w].at \in {"release", "seal"} /\ m \in Covered(worker[w].job)}
Carriers(m) == Cardinality(ByJob(m)) + Cardinality(InBox(m))
                 + Cardinality(Parked(m)) + Cardinality(InHand(m))

(* A merged or parked job is complete at once, so nothing but the session    *)
(* knows that its message wants a turn.  A message without an answer is      *)
(* still with somebody, however the turn it went into ends and whoever       *)
(* releases, seals, injects or claims in between; it is with one of them     *)
(* only, unless a time-out ran a job twice; and once it has its answer no    *)
(* turn is started for it again, unless its job was withdrawn while somebody *)
(* else had the message.                                                     *)
MessagesAreCarriedOnce ==
  /\ \A m \in Sent \ settled :
       Carriers(m) > 0 /\ (expiries = 0 => Carriers(m) = 1)
  /\ expiries + cancels = 0 =>
       \A m \in settled : ByJob(m) = {} /\ InHand(m) = {}

(* "third-party text must not steer a running loop": an inbox only ever has  *)
(* messages of the user whose turn drains it.                                *)
OwnTextOnly ==
  \A w \in Workers :
    Has(w, "run") /\ HasBox(w) =>
      \A t \in ToSet(Box(w).injected \o Box(w).consumed) : UserOf[t.msg] = UserOf[JobOf(w).msg]

(* "One active session per chat-thread": two jobs run turns at once only if  *)
(* one of them runs outside the session, because it was delivered again      *)
(* while it had one, or found three sessions gone.                           *)
TurnsAreSerial ==
  \A v, w \in Workers :
    Has(v, "run") /\ Has(w, "run") /\ worker[v].job # worker[w].job
      => \E u \in {v, w} : /\ ~ HasBox(u)
                           /\ \/ worker[u].tries = 0
                              \/ expiries > 0
                              \/ JobOf(u).attempt > 0

(* Whoever wrote gets an answer or a signal: no message stays in an inbox, a *)
(* parking lot or between two claims.                                        *)
EverybodyIsHeard == []<>(Sent \subseteq settled)
=============================================================================
