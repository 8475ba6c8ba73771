---------------------------- MODULE UpdateInbox ----------------------------
(* The Postgres inbox of Telegram updates: its rows, the head of every lane, *)
(* and the workers that claim the heads, handle them and write how they      *)
(* ended.                                                                    *)
(*                                                                           *)
(* Terminal transitions and insertions take the advisory lock of the lane    *)
(* first, so a transaction is one action.  A claim takes no such lock: the   *)
(* candidates are a snapshot, and the rows are locked one by one after it.   *)
EXTENDS Naturals, FiniteSets

CONSTANTS Updates,      \* update ids
          Lanes,        \* ordering keys
          LaneOf,       \* [Updates -> Lanes]
          Workers,      \* claim slots of all processes
          Home,         \* [Workers -> process]
          MaxAttempts,  \* MATERIALIZED_UPDATE_MAX_ATTEMPTS
          MaxFaults,    \* bound: crashes, lost replies, lapsed leases of workers
          Nil

ASSUME InboxAssumption ==
  /\ LaneOf \in [Updates -> Lanes]
  /\ DOMAIN Home = Workers
  /\ MaxAttempts \in Nat \ {0}
  /\ MaxFaults \in Nat
  /\ Nil \notin Updates

Open == {"pending", "processing", "retry_wait"}
Terminal == {"completed", "ignored", "dead_letter"}

(* pos is the place in the stream.  attempt_count and lease_token only grow  *)
(* together, so token is both.                                               *)
Rows == [pos : Nat, status : Open \cup Terminal, token : Nat, leased : BOOLEAN,
         applied : BOOLEAN]

ASSUME NilIsNoRow == Nil \notin Rows

Places == {"idle", "looking", "claimed", "handling"}
Tasks == [at : Places, update : Updates \cup {Nil}, token : Nat]

VARIABLES inbox,    \* [Updates -> row or Nil]
          heads,    \* [Lanes -> head_inbox_id or Nil]
          work,     \* [Workers -> task]
          faults    \* faults that happened

inboxVars == <<inbox, heads, work, faults>>

Present(u) == inbox[u] # Nil
IsOpen(u) == Present(u) /\ inbox[u].status \in Open
Ended(u) == Present(u) /\ inbox[u].status \in Terminal

Rest == [at |-> "idle", update |-> Nil, token |-> 0]
Free(w) == work' = [work EXCEPT ![w] = Rest]
Goes(w, place) == work' = [work EXCEPT ![w].at = place]

InboxInit ==
  /\ inbox = [u \in Updates |-> Nil]
  /\ heads = [l \in Lanes |-> Nil]
  /\ work = [w \in Workers |-> Rest]
  /\ faults = 0

Fault == faults < MaxFaults /\ faults' = faults + 1

-----------------------------------------------------------------------------
(* Materialization.                                                          *)

NewRow(pos) == [pos |-> pos, status |-> "pending", token |-> 0,
                leased |-> FALSE, applied |-> FALSE]

(* The first of the updates of a lane in a table, by place in the stream.    *)
Earliest(table, us) ==
  CHOOSE u \in us : \A v \in us : table[u].pos <= table[v].pos

Inserted(batch) == {u \in DOMAIN batch : ~ Present(u)}

(* Mutant: a redelivered update starts again.                                *)
UpsertedAgain(batch) ==
  [u \in Updates |-> IF u \in DOMAIN batch THEN NewRow(batch[u]) ELSE inbox[u]]

(* A row that is there already keeps its place and its status: only its      *)
(* delivery counters change.                                                 *)
Upserted(batch) ==
  [u \in Updates |-> IF u \in Inserted(batch) THEN NewRow(batch[u]) ELSE inbox[u]]

(* Mutant: a redelivered update may become the head of its lane.             *)
HeadAfterDelivery(table, batch, l) ==
  LET new == {u \in DOMAIN batch : LaneOf[u] = l} IN
  IF heads[l] # Nil \/ new = {} THEN heads[l] ELSE Earliest(table, new)

HeadAfterInsert(table, batch, l) ==
  LET new == {u \in Inserted(batch) : LaneOf[u] = l} IN
  IF heads[l] # Nil \/ new = {} THEN heads[l] ELSE Earliest(table, new)

(* batch: [updates -> place of their first entry].                           *)
Materialize(batch) ==
  /\ inbox' = Upserted(batch)
  /\ heads' = [l \in Lanes |-> HeadAfterInsert(inbox', batch, l)]

-----------------------------------------------------------------------------
(* Claims.                                                                   *)

(* Mutant: a row whose worker is gone is nobody's.                           *)
DueUnclaimed(u) == IsOpen(u) /\ inbox[u].status # "processing"

(* A backoff is over at any time.                                            *)
Due(u) ==
  /\ IsOpen(u)
  /\ inbox[u].status = "processing" => ~ inbox[u].leased

Candidate(u) == heads[LaneOf[u]] = u /\ Due(u)

(* A process claims for one worker at a time.                                *)
Look(w) ==
  /\ work[w].at = "idle"
  /\ \A v \in Workers : Home[v] = Home[w] => work[v].at # "looking"
  /\ \E u \in Updates :
       /\ Candidate(u)
       /\ work' = [work EXCEPT ![w] = [Rest EXCEPT !.at = "looking", !.update = u]]
  /\ UNCHANGED <<inbox, heads, faults>>

(* The statement that locks the row of the snapshot asks again whether it    *)
(* is the head, and no more.                                                 *)
StillThere(u) == heads[LaneOf[u]] = u

Claimed(row) == [row EXCEPT !.status = "processing", !.token = @ + 1, !.leased = TRUE]

Take(w) ==
  LET u == work[w].update IN
  /\ work[w].at = "looking"
  /\ IF StillThere(u)
     THEN /\ inbox' = [inbox EXCEPT ![u] = Claimed(@)]
          /\ work' = [work EXCEPT ![w] = [Rest EXCEPT !.at = "claimed", !.update = u,
                                                      !.token = inbox[u].token + 1]]
     ELSE Free(w) /\ UNCHANGED inbox
  /\ UNCHANGED <<heads, faults>>

-----------------------------------------------------------------------------
(* Handling.                                                                 *)

Busy(w) == work[w].at \in {"claimed", "handling"}

(* Mutant: the fence without its token.                                      *)
HeldByAnyone(w, u) == work[w].update = u /\ Busy(w)

Held(w, u) ==
  /\ work[w].update = u
  /\ Busy(w)
  /\ inbox[u].token = work[w].token

(* The fence of every transition.  The flag lease_lost of a worker, set by a *)
(* refused renewal, only saves it a statement that the fence refuses too.    *)
Owned(w) ==
  LET u == work[w].update IN
  Held(w, u) /\ inbox[u].status = "processing" /\ inbox[u].leased

(* mark_update_state_applied: the checkpoint before the handler.             *)
Checkpoint(w) ==
  LET u == work[w].update IN
  /\ work[w].at = "claimed"
  /\ IF inbox[u].applied
     THEN Goes(w, "handling") /\ UNCHANGED inbox
     ELSE IF Owned(w)
     THEN Goes(w, "handling") /\ inbox' = [inbox EXCEPT ![u].applied = TRUE]
     ELSE Free(w) /\ UNCHANGED inbox
  /\ UNCHANGED <<heads, faults>>

(* How a handler ends; one that does not return is timed out, a failure.  A  *)
(* payload that does not decode is broken before the checkpoint.             *)
Results(w) == IF work[w].at = "claimed" THEN {"broken"} ELSE {"handled", "unsupported", "failed"}

StatusAfter(result, attempt) ==
  CASE result = "handled" -> "completed"
    [] result = "unsupported" -> "ignored"
    [] result = "broken" -> "dead_letter"
    [] result = "failed" -> IF attempt >= MaxAttempts THEN "dead_letter" ELSE "retry_wait"

(* The next head: the first open row of the lane behind the one that ends.   *)
NextHead(u) ==
  LET behind == {v \in Updates \ {u} : IsOpen(v) /\ LaneOf[v] = LaneOf[u]} IN
  IF behind = {} THEN Nil ELSE Earliest(inbox, behind)

(* retry_update keeps the head; the three terminal statements advance it.    *)
Transition(u, status) ==
  /\ inbox' = [inbox EXCEPT ![u].status = status, ![u].leased = FALSE]
  /\ heads' = IF status \in Terminal
              THEN [heads EXCEPT ![LaneOf[u]] = NextHead(u)] ELSE heads

MayTransition(w, u, status) ==
  /\ Owned(w)
  /\ status \in Terminal => heads[LaneOf[u]] = u
  /\ status = "completed" => inbox[u].applied

Finish(w, result) ==
  LET u == work[w].update
      status == StatusAfter(result, work[w].token) IN
  /\ Busy(w) /\ result \in Results(w)
  /\ IF MayTransition(w, u, status) THEN Transition(u, status) ELSE UNCHANGED <<inbox, heads>>
  /\ Free(w)
  /\ UNCHANGED faults

(* The statement of a checkpoint or transition fails: the worker leaves the  *)
(* row to the end of its lease.                                              *)
StoreError(w) ==
  /\ Busy(w)
  /\ Fault
  /\ Free(w)
  /\ UNCHANGED <<inbox, heads>>

-----------------------------------------------------------------------------
(* Leases.                                                                   *)

Lapse(u) == inbox' = [inbox EXCEPT ![u].leased = FALSE]

Running(u) == Present(u) /\ inbox[u].status = "processing" /\ inbox[u].leased

(* Nobody renews it any more.                                                *)
LeaseEnds(u) ==
  /\ Running(u)
  /\ \A w \in Workers : ~ Held(w, u)
  /\ Lapse(u)
  /\ UNCHANGED <<heads, work, faults>>

(* Its worker is alive and its renewals are not answered in time.            *)
LeaseLapses(w) ==
  LET u == work[w].update IN
  /\ Held(w, u) /\ Running(u)
  /\ Fault
  /\ Lapse(u)
  /\ UNCHANGED <<heads, work>>

Abandoned(p) == [w \in Workers |-> IF Home[w] = p THEN Rest ELSE work[w]]

Handles(w) == work[w].at = "handling" /\ \E result \in Results(w) : Finish(w, result)
DecodeFails(w) == work[w].at = "claimed" /\ \E result \in Results(w) : Finish(w, result)

Serve(w) == Look(w) \/ Take(w) \/ Checkpoint(w) \/ Handles(w)

InboxStep ==
  \/ \E w \in Workers :
       Serve(w) \/ DecodeFails(w) \/ StoreError(w) \/ LeaseLapses(w)
  \/ \E u \in Updates : LeaseEnds(u)

-----------------------------------------------------------------------------
(* Properties of the inbox.                                                  *)

InboxTypeOK ==
  /\ inbox \in [Updates -> Rows \cup {Nil}]
  /\ heads \in [Lanes -> Updates \cup {Nil}]
  /\ work \in [Workers -> Tasks]
  /\ faults \in 0 .. MaxFaults

(* No lane is stuck or empty-handed: it has a head exactly while it has open *)
(* rows, and the head is one of them.  Insertion, the three ways to end and  *)
(* redelivery all move heads; a lane whose head ended would never be claimed *)
(* again.                                                                    *)
HeadsAreOpen ==
  \A l \in Lanes :
    IF heads[l] = Nil
    THEN \A u \in Updates : LaneOf[u] = l => ~ IsOpen(u)
    ELSE IsOpen(heads[l]) /\ LaneOf[heads[l]] = l

(* Two workers never both own work of one lane, whatever leases lapse and    *)
(* are claimed again: at most one of them can still write.                   *)
OneOwnerPerLane ==
  \A v, w \in Workers :
    Owned(v) /\ Owned(w) /\ LaneOf[work[v].update] = LaneOf[work[w].update] => v = w

(* An update that ended stays as it ended: neither a redelivered entry nor a *)
(* worker that lost its lease and reports late opens or changes it.          *)
TerminalIsFinal ==
  [][\A u \in Updates : Ended(u) => Ended(u)' /\ inbox'[u].status = inbox[u].status]_inboxVars
=============================================================================
