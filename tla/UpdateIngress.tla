--------------------------- MODULE UpdateIngress ---------------------------
(* From Telegram to the inbox: the Redis stream with its consumer group, the *)
(* lease that keeps one materializer active, and the materializers of all    *)
(* processes, above UpdateInbox, whose workers live in the same processes.   *)
(*                                                                           *)
(* An entry is named by its place in the stream.  A command to Redis and a   *)
(* transaction of Postgres are one action each; a process may die, and its   *)
(* lease may run out, between any two.                                       *)
EXTENDS UpdateInbox, Sequences

CONSTANTS Processes,   \* they host a materializer and the workers w, Home[w] = p
          Bad,         \* updates that preprocess_batch puts into quarantine
          MaxEntries   \* bound: entries appended, redeliveries included

ASSUME IngressAssumption ==
  /\ Home \in [Workers -> Processes]
  /\ Bad \subseteq Updates
  /\ MaxEntries \in Nat
  /\ Nil \notin Processes /\ "orphan" \notin Processes /\ Nil # "orphan"

Stations == {"standby", "reclaim", "stats", "read", "fill", "commit", "ack"}

VARIABLES stream,      \* entries ever appended: places -> updates
          deleted,     \* places XDEL removed
          delivered,   \* last-delivered-id of the group
          pel,         \* places delivered and not acknowledged
          lease,       \* its process, "orphan" when that one died, or Nil
          mat,         \* [Processes -> what its materializer holds]
          quarantine,  \* places in telegram_update_quarantine
          overtaken    \* a lease ran out under a process that was running

streamVars == <<stream, deleted, delivered, pel>>
matVars == <<lease, mat, quarantine, overtaken>>
vars == <<inboxVars, streamVars, matVars>>

StandBy == [at |-> "standby", pending |-> {}, batch |-> {}, startup |-> TRUE,
            lost |-> FALSE]

IngressInit ==
  /\ InboxInit
  /\ stream = <<>> /\ deleted = {} /\ delivered = 0 /\ pel = {}
  /\ lease = Nil
  /\ mat = [p \in Processes |-> StandBy]
  /\ quarantine = {}
  /\ overtaken = FALSE

Moves(p, station) == mat' = [mat EXCEPT ![p].at = station]

-----------------------------------------------------------------------------
(* Long polling and the webhook append; either appends an update again when  *)
(* the reply to the first try is lost.                                       *)
Receive(u) ==
  /\ Len(stream) < MaxEntries
  /\ stream' = Append(stream, u)
  /\ UNCHANGED <<deleted, delivered, pel, matVars, inboxVars>>

-----------------------------------------------------------------------------
(* The lease.                                                                *)

Acquire(p) ==
  /\ mat[p].at = "standby"
  /\ lease = Nil
  /\ lease' = p
  /\ Moves(p, "reclaim")
  /\ UNCHANGED <<quarantine, overtaken, streamVars, inboxVars>>

(* No renewal reached Redis for the length of the lease.                     *)
LeaseExpires ==
  /\ lease # Nil
  /\ lease' = Nil
  /\ IF lease = "orphan" THEN UNCHANGED <<overtaken, faults>>
                         ELSE Fault /\ overtaken' = TRUE
  /\ UNCHANGED <<mat, quarantine, streamVars, inbox, heads, work>>

(* The heartbeat is refused, or fails, once, and never tries again.          *)
HeartbeatFails(p) ==
  /\ mat[p].at # "standby" /\ ~ mat[p].lost
  /\ IF lease = p THEN Fault ELSE UNCHANGED faults
  /\ mat' = [mat EXCEPT ![p].lost = TRUE]
  /\ UNCHANGED <<lease, quarantine, overtaken, streamVars, inbox, heads, work>>

Release(p) == lease' = IF lease = p THEN Nil ELSE lease

(* Shutdown is looked for between two batches, the loss of the lease at      *)
(* every wait.  The supervisor starts the materializer again, under a new    *)
(* owner id.                                                                 *)
Stop(p) ==
  /\ \/ mat[p].at \in {"reclaim", "stats"} /\ (mat[p].lost \/ Fault)
     \/ mat[p].at \in {"fill", "commit", "ack"} /\ mat[p].lost
  /\ mat[p].lost => UNCHANGED faults
  /\ Release(p)
  /\ mat' = [mat EXCEPT ![p] = StandBy]
  /\ UNCHANGED <<quarantine, overtaken, streamVars, inbox, heads, work>>

(* The process dies with its materializer and its workers, and starts again. *)
Crash(p) ==
  /\ Fault
  /\ lease' = IF lease = p THEN "orphan" ELSE lease
  /\ mat' = [mat EXCEPT ![p] = StandBy]
  /\ work' = Abandoned(p)
  /\ UNCHANGED <<quarantine, overtaken, streamVars, inbox, heads>>

-----------------------------------------------------------------------------
(* Reading.                                                                  *)

(* The first entries that fit the limits of rows and bytes are the batch.    *)
Batches(pending) == {{i \in pending : i <= n} : n \in pending}

Batched(m, pending, batch) ==
  [m EXCEPT !.at = "commit", !.batch = batch, !.pending = pending \ batch, !.startup = FALSE]

(* XAUTOCLAIM adopts the whole list of a dead owner at startup; later only   *)
(* what was idle long enough.  What fits no page is adopted by the next.     *)
Adopt(p) ==
  /\ mat[p].at = "reclaim"
  /\ \E batch \in Batches(pel) : mat' = [mat EXCEPT ![p] = Batched(@, pel, batch)]
  /\ UNCHANGED <<lease, quarantine, overtaken, streamVars, inboxVars>>

AdoptNothing(p) ==
  /\ mat[p].at = "reclaim"
  /\ pel = {} \/ ~ mat[p].startup
  /\ mat' = [mat EXCEPT ![p].at = "stats", ![p].startup = FALSE]
  /\ UNCHANGED <<lease, quarantine, overtaken, streamVars, inboxVars>>

(* Mutant: the list of others is ignored.                                    *)
NextIsRead(p) == "read"

(* Nothing new is read while something is delivered and not materialized.    *)
NextStation(p) == IF pel = {} THEN "read" ELSE "reclaim"

Stats(p) ==
  /\ mat[p].at = "stats"
  /\ Moves(p, NextStation(p))
  /\ UNCHANGED <<lease, quarantine, overtaken, streamVars, inboxVars>>

(* Mutant: XREADGROUP with NOACK.                                            *)
DeliverNoAck(n) ==
  /\ n > delivered
  /\ delivered' = n
  /\ UNCHANGED <<stream, deleted, pel>>

(* XREADGROUP: the next entries, as many as it likes, enter the list in the  *)
(* same command.                                                             *)
Deliver(n) ==
  /\ n > delivered
  /\ delivered' = n
  /\ pel' = pel \cup (delivered + 1 .. n)
  /\ UNCHANGED <<stream, deleted>>

Got(p, n, station) ==
  mat' = [mat EXCEPT ![p].at = station, ![p].pending = @ \cup (delivered + 1 .. n)]

Read(p) ==
  /\ mat[p].at \in {"read", "fill"}
  /\ \E n \in delivered + 1 .. Len(stream) : Deliver(n) /\ Got(p, n, "fill")
  /\ UNCHANGED <<lease, quarantine, overtaken, inboxVars>>

(* What was read, when no more is wanted or comes.                           *)
Filled(p) ==
  /\ mat[p].at = "fill"
  /\ \E batch \in Batches(mat[p].pending) :
       mat' = [mat EXCEPT ![p] = Batched(@, mat[p].pending, batch)]
  /\ UNCHANGED <<lease, quarantine, overtaken, streamVars, inboxVars>>

(* The entries are delivered and the reply is lost: a first read starts      *)
(* over, a later one leaves what is held.                                    *)
ReadFails(p) ==
  /\ mat[p].at \in {"read", "fill"}
  /\ \E n \in delivered + 1 .. Len(stream) : Deliver(n)
  /\ Fault
  /\ IF mat[p].at = "read"
     THEN Moves(p, "reclaim")
     ELSE \E batch \in Batches(mat[p].pending) :
            mat' = [mat EXCEPT ![p] = Batched(@, mat[p].pending, batch)]
  /\ UNCHANGED <<lease, quarantine, overtaken, inbox, heads, work>>

ReadNothing(p) ==
  /\ mat[p].at = "read" /\ delivered = Len(stream)
  /\ Moves(p, "reclaim")
  /\ UNCHANGED <<lease, quarantine, overtaken, streamVars, inboxVars>>

-----------------------------------------------------------------------------
(* Writing.                                                                  *)

PlacesOf(batch, u) == {i \in batch : stream[i] = u}
Good(batch) == {stream[i] : i \in batch} \ Bad

(* Duplicates inside a batch are one row, at the first of their places.      *)
Rowed(batch) ==
  [u \in Good(batch) |-> CHOOSE i \in PlacesOf(batch, u) : \A j \in PlacesOf(batch, u) : i <= j]

Quarantined(batch) == quarantine \cup {i \in batch : stream[i] \in Bad}

(* The transaction commits; its reply may be lost, and the batch is written  *)
(* again.                                                                    *)
Commit(p) ==
  /\ mat[p].at = "commit" /\ ~ mat[p].lost
  /\ Materialize(Rowed(mat[p].batch))
  /\ quarantine' = Quarantined(mat[p].batch)
  /\ \/ Moves(p, "ack") /\ UNCHANGED faults
     \/ Fault /\ UNCHANGED mat
  /\ UNCHANGED <<lease, overtaken, streamVars, work>>

(* XACK and XDEL in one script.  The command may already be on its way when  *)
(* the loss of the lease is noticed.                                         *)
Ack(p) ==
  /\ mat[p].at = "ack"
  /\ deleted' = deleted \cup mat[p].batch
  /\ pel' = pel \ mat[p].batch
  /\ IF mat[p].pending = {}
     THEN mat' = [mat EXCEPT ![p].batch = {}, ![p].at = "reclaim"]
     ELSE \E batch \in Batches(mat[p].pending) :
            mat' = [mat EXCEPT ![p] = Batched(@, mat[p].pending, batch)]
  /\ UNCHANGED <<stream, delivered, lease, quarantine, overtaken, inboxVars>>

-----------------------------------------------------------------------------
Materializer(p) ==
  \/ Adopt(p) \/ AdoptNothing(p) \/ Stats(p)
  \/ Read(p) \/ Filled(p) \/ ReadNothing(p) \/ Commit(p) \/ Ack(p)

Next ==
  \/ \E u \in Updates : Receive(u)
  \/ InboxStep /\ UNCHANGED <<streamVars, matVars>>
  \/ LeaseExpires
  \/ \E p \in Processes :
       \/ Materializer(p) \/ ReadFails(p)
       \/ Acquire(p) \/ HeartbeatFails(p) \/ Stop(p) \/ Crash(p)

IngressSpec == IngressInit /\ [][Next]_vars

Alone(A) == A /\ UNCHANGED <<streamVars, matVars>>

(* Loops that only shutdown ends, the expiry of leases nobody renews, and    *)
(* entries that grow idle.  No producer and no fault is assumed.             *)
Fairness ==
  /\ \A p \in Processes :
       /\ WF_vars(Acquire(p)) /\ WF_vars(Materializer(p))
       /\ WF_vars(mat[p].lost /\ Stop(p))
       /\ SF_vars(Adopt(p))
       /\ WF_vars(lease # p /\ HeartbeatFails(p))
  /\ WF_vars(lease = "orphan" /\ LeaseExpires)
  /\ \A w \in Workers :
       /\ WF_vars(Alone(Serve(w)))
  /\ \A u \in Updates : WF_vars(Alone(LeaseEnds(u)))

FairIngressSpec == IngressSpec /\ Fairness

-----------------------------------------------------------------------------
(* Properties.                                                               *)

IngressTypeOK ==
  /\ InboxTypeOK
  /\ stream \in Seq(Updates)
  /\ deleted \subseteq DOMAIN stream /\ pel \subseteq DOMAIN stream
  /\ delivered \in 0 .. Len(stream)
  /\ lease \in Processes \cup {"orphan", Nil}
  /\ mat \in [Processes -> [at : Stations, pending : SUBSET DOMAIN stream,
                            batch : SUBSET DOMAIN stream, startup : BOOLEAN, lost : BOOLEAN]]
  /\ quarantine \subseteq DOMAIN stream
  /\ overtaken \in BOOLEAN

(* An entry leaves the stream only when its update is in the inbox or in     *)
(* quarantine, and an entry that was delivered and not deleted is in the     *)
(* list, where somebody will find it: crashes, lost replies and two          *)
(* materializers at once lose nothing.                                       *)
NothingIsLost ==
  /\ \A i \in deleted : i \in quarantine \/ Present(stream[i])
  /\ \A i \in 1 .. delivered : i \in deleted \/ i \in pel

FirstPlace(u) == CHOOSE i \in DOMAIN stream :
                   stream[i] = u /\ \A j \in DOMAIN stream : stream[j] = u => i <= j
Received(u) == \E i \in DOMAIN stream : stream[i] = u

(* In a lane updates end in the order in which they arrived, also those that *)
(* are still in the stream, whatever dies between them; unless a lease ran   *)
(* out under a materializer that was still running.                          *)
LaneOrder ==
  [][~ overtaken' => \A u, v \in Updates :
       (/\ ~ Ended(u) /\ Ended(u)'
        /\ v \notin Bad /\ LaneOf[v] = LaneOf[u] /\ Received(v)
        /\ FirstPlace(v) < FirstPlace(u)) => Ended(v)]_vars

(* What Telegram handed over ends: completed, ignored, in the dead letters   *)
(* or in quarantine.  Whatever fails on the way, the backlog is empty again  *)
(* and again.                                                                *)
Settled == \A i \in DOMAIN stream : i \in quarantine \/ Ended(stream[i])

BacklogDrains == []<>Settled
=============================================================================
