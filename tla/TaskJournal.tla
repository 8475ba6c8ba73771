---------------------------- MODULE TaskJournal ----------------------------
(***************************************************************************)
(* SharedTaskQueueRuntime: the shared queue, its write-behind journal and  *)
(* the taskman_jobs table (openplotva-app task_queue.rs,                   *)
(* openplotva-storage PostgresTaskQueueStore), with failing flushes,       *)
(* crashes and restarts.  The queue's steps are TaskQueue's.               *)
(***************************************************************************)
EXTENDS TaskQueue, FiniteSetsExt, Functions

CONSTANTS
  MaxFaults,     \* bound: crashes and lost or failed Postgres calls
  DbRetention,   \* retention of finished rows in Postgres
  Followed       \* bound: the updates whose durability barrier is recorded

ASSUME JournalAssumption == /\ MaxFaults \in Nat
                            /\ DbRetention \in Nat
                            /\ Followed \subseteq Updates

VARIABLES
  rows,       \* taskman_jobs: the durable record of each job, or Deleted
  seq,        \* last value of taskman_job_id_seq
  flight,     \* the holder of flush_lock: its batch and whether it committed
  up,         \* the process runs
  confirmed,  \* <<update, job>> whose handler was told the input is durable
  faults

journalVars == <<rows, seq, flight, up, confirmed, faults>>
vars == <<queueVars, journalVars>>

Idle == [batch |-> << >>, update |-> 0, written |-> FALSE]

-----------------------------------------------------------------------------
(* taskman_jobs.                                                           *)

KeyedPending(r) == /\ r # Deleted
                   /\ r.status = "Pending"
                   /\ r.debounce_key # Nil

\* What row j holds while the upsert of row i of the batch runs.
RowAt(batch, i, j) == IF j \in DOMAIN batch /\ j < i THEN batch[j]
                      ELSE IF j \in DOMAIN rows THEN rows[j]
                      ELSE Deleted

\* No upsert of the batch, run in id order, meets taskman_jobs_pending_debounce_idx.
Applicable(batch) ==
  \A i \in DOMAIN batch : KeyedPending(batch[i]) =>
    \A j \in (DOMAIN batch \cup DOMAIN rows) \ {i} :
      LET r == RowAt(batch, i, j)
      IN  KeyedPending(r) => ~ SameDebounce(r, batch[i])

\* apply_task_queue_wal_batch: upserts, soft deletes of the rows that exist, and
\* the id sequence moved past every id of the batch.
Applied(batch) ==
  LET upserts == {i \in DOMAIN batch : batch[i] # Deleted}
  IN  [i \in upserts \cup DOMAIN rows |->
         IF i \in DOMAIN batch THEN batch[i] ELSE rows[i]]

Advanced(s, batch) == Max({s} \cup DOMAIN batch)

\* Mutant of Snapshot: a job that waits for delivery is not loaded.
SnapshotToRun ==
  Restrict(rows, {i \in DOMAIN rows : /\ rows[i] # Deleted
                                      /\ rows[i].status \in {"Pending", "Processing"}})

\* The rows load_task_queue_snapshot brings back.
Snapshot ==
  LET live == {i \in DOMAIN rows : rows[i] # Deleted}
      ended == {i \in live : ~ Active(rows[i])}
      newest(i) == Cardinality({j \in ended \ {i} :
                     /\ rows[j].queue = rows[i].queue
                     /\ \/ rows[j].completed_at > rows[i].completed_at
                        \/ rows[j].completed_at = rows[i].completed_at /\ j > i})
                   < KeepPerQueue
  IN  Restrict(rows, {i \in live : \/ Active(rows[i])
                                   \/ rows[i].completed_at >= now - Retention
                                   \/ newest(i)})

-----------------------------------------------------------------------------
(* BufferedTaskQueueJournal.                                               *)

\* Mutant of Start: the buffer is emptied when the flush begins.
StartDraining(batch, u) ==
  /\ up
  /\ flight = Idle
  /\ batch # << >>
  /\ flight' = [batch |-> batch, update |-> u, written |-> FALSE]
  /\ dirty' = Restrict(dirty, DOMAIN dirty \ DOMAIN batch)
  /\ UNCHANGED <<jobs, next_id, claimVars, call, outboxVars, now, rows, seq, up,
                 confirmed, faults>>

Start(batch, u) == /\ up
                   /\ flight = Idle
                   /\ batch # << >>
                   /\ flight' = [batch |-> batch, update |-> u, written |-> FALSE]
                   /\ UNCHANGED <<queueVars, rows, seq, up, confirmed, faults>>

\* flush_dirty copies the whole buffer.
FlushDirty == Start(dirty, 0)

\* flush_job: one job's record, for a caller that waits for its durability.
FlushJob(i, u) == i \in DOMAIN dirty /\ Start(Restrict(dirty, {i}), u)

Owns(i, u) == /\ i \in Ids
              /\ jobs[i].queue = u.request.queue
              /\ jobs[i].job.type = u.request.type
              /\ jobs[i].debounce_key = u.key
              /\ u.id \in jobs[i].source_update_ids

\* The barrier of an update handler finds nothing to write.  A job that ended has
\* nothing left to lose, and Postgres may have purged its row before the queue
\* forgets it.
NothingToFlush(i, u) ==
  /\ up
  /\ flight = Idle
  /\ Owns(i, u)
  /\ i \notin DOMAIN dirty
  /\ confirmed' = confirmed \cup IF Active(jobs[i]) THEN {<<u.id, i>>} ELSE {}
  /\ UNCHANGED <<queueVars, rows, seq, flight, up, faults>>

\* The transaction commits.
Apply ==
  /\ flight.batch # << >>
  /\ ~ flight.written
  /\ Applicable(flight.batch)
  /\ rows' = Applied(flight.batch)
  /\ seq' = Advanced(seq, flight.batch)
  /\ flight' = [flight EXCEPT !.written = TRUE]
  /\ UNCHANGED <<queueVars, up, confirmed, faults>>

\* Mutant of MarkFlushed: whatever was flushed leaves the buffer.
MarkFlushedBlindly(batch) == Restrict(dirty, DOMAIN dirty \ DOMAIN batch)

\* mark_flushed, mark_job_flushed: a record that changed while the flush ran
\* stays in the buffer.
MarkFlushed(batch) ==
  Restrict(dirty, {i \in DOMAIN dirty : i \in DOMAIN batch => dirty[i] # batch[i]})

FlushOk ==
  /\ flight.written
  /\ dirty' = MarkFlushed(flight.batch)
  /\ flight' = Idle
  /\ confirmed' = confirmed \cup
       {<<flight.update, i>> : i \in IF flight.update = 0 THEN {} ELSE DOMAIN flight.batch}
  /\ UNCHANGED <<jobs, next_id, claimVars, call, outboxVars, now, rows, seq, up, faults>>

\* Mutant of FlushFails: the failing path leaves flush_lock held.
FlushFailsLocked(fault) ==
  /\ flight.batch # << >>
  /\ IF fault THEN faults < MaxFaults /\ faults' = faults + 1
              ELSE ~ flight.written /\ ~ Applicable(flight.batch) /\ UNCHANGED faults
  /\ flight' = [Idle EXCEPT !.update = 1]
  /\ UNCHANGED <<queueVars, rows, seq, up, confirmed>>

\* The transaction is refused by the index, or Postgres fails: before the commit,
\* or after it when only the reply is lost.  The buffer keeps everything.
FlushFails(fault) ==
  /\ flight.batch # << >>
  /\ IF fault THEN faults < MaxFaults /\ faults' = faults + 1
              ELSE ~ flight.written /\ ~ Applicable(flight.batch) /\ UNCHANGED faults
  /\ flight' = Idle
  /\ UNCHANGED <<queueVars, rows, seq, up, confirmed>>

-----------------------------------------------------------------------------
(* Crash and startup.                                                      *)

\* The process ends: memory is gone, the rows and the outbox stay.  next_id
\* remembers what was handed out until the next process replaces it.
Crash ==
  /\ up
  /\ faults < MaxFaults
  /\ faults' = faults + 1
  /\ up' = FALSE
  /\ jobs' = << >>
  /\ dirty' = << >>
  /\ held' = [w \in WorkerIds |-> Nil]
  /\ answered' = {}
  /\ call' = [c \in Callers |-> NoCall]
  /\ resolving' = {}
  /\ flight' = Idle
  /\ UNCHANGED <<next_id, batches, now, rows, seq, confirmed>>

\* reserve_id_high_water.
NextId == Max({seq + 1} \cup {i + 1 : i \in DOMAIN rows})

\* The records startup recovery changed: one flush_dirty writes them.
RecoveryBatch ==
  Restrict(ReleaseOrphaned(Snapshot),
           {i \in DOMAIN Snapshot : Snapshot[i].status = "Processing"})

\* load_from_postgres_with_id_allocator: startup is over once the released
\* records are durable.
Restart ==
  /\ ~ up
  /\ Applicable(RecoveryBatch)
  /\ up' = TRUE
  /\ next_id' = NextId
  /\ jobs' = ReleaseOrphaned(Snapshot)
  /\ rows' = Applied(RecoveryBatch)
  /\ seq' = Advanced(seq + 1, RecoveryBatch)
  /\ UNCHANGED <<dirty, claimVars, call, outboxVars, now, flight, confirmed, faults>>

\* purge_task_queue_terminal: rows whose retention is over.  It is counted in
\* days: no batch that wrote the row still waits for its reply.
PurgeRow(i) ==
  /\ up
  /\ i \in DOMAIN rows \ DOMAIN flight.batch
  /\ rows[i] # Deleted => ~ Active(rows[i]) /\ rows[i].completed_at < now - DbRetention
  /\ rows' = Restrict(rows, DOMAIN rows \ {i})
  /\ confirmed' = {c \in confirmed : c[2] # i}
  /\ UNCHANGED <<queueVars, seq, flight, up, faults>>

-----------------------------------------------------------------------------
QueueStep == /\ up
             /\ \/ Produce
                \/ \E w \in WorkerIds : Work(w)
                \/ Maintain
             /\ UNCHANGED journalVars

\* Agent work the last process left behind.
Adopt(w) == up /\ AdoptAgent(w) /\ UNCHANGED journalVars

\* The maintenance scan joins the outbox with the durable rows.
ScanRows(b) == /\ up
               /\ \E i \in DOMAIN rows : i = b[1] /\ rows[i] # Deleted
                                         /\ rows[i].status = "WaitingDelivery"
               /\ TakeUp(b)
               /\ UNCHANGED journalVars

Clock == Tick /\ UNCHANGED journalVars

JournalInit ==
  /\ QueueInit
  /\ rows = << >>
  /\ seq = 1
  /\ flight = Idle
  /\ up = TRUE
  /\ confirmed = {}
  /\ faults = 0

JournalNext ==
  \/ QueueStep
  \/ \E w \in WorkerIds : Adopt(w)
  \/ \E b \in DOMAIN batches : ScanRows(b)
  \/ Clock
  \/ FlushDirty
  \/ \E i \in DOMAIN dirty : \/ FlushJob(i, 0)
                             \/ \E u \in Followed : Owns(i, u) /\ FlushJob(i, u.id)
  \/ \E i \in Ids, u \in Followed : NothingToFlush(i, u)
  \/ Apply
  \/ FlushOk
  \/ \E fault \in BOOLEAN : FlushFails(fault)
  \/ Crash
  \/ Restart
  \/ \E i \in DOMAIN rows : PurgeRow(i)

JournalSpec == JournalInit /\ [][JournalNext]_vars

\* The sync worker, the supervisor that restarts the process, and the outbox
\* with its maintenance pass keep running.  While the buffer is not empty the
\* worker waits for flush_lock, a tokio mutex: it serves its waiters in order.
JournalFairness ==
  /\ SF_vars(FlushDirty) /\ WF_vars(Apply \/ FlushOk \/ FlushFails(FALSE))
  /\ WF_vars(Restart)
  /\ \A i \in 1 .. MaxId, kind \in BatchKinds :
       LET b == <<i, kind>>
       IN  /\ WF_vars(up /\ UNCHANGED journalVars
                      /\ \E o \in {"delivered", "dead"} : SettleBatch(b, o))
           /\ WF_vars(ScanRows(b))
           /\ WF_vars(up /\ UNCHANGED journalVars /\ ResolveBatch(b))

FairJournalSpec == JournalSpec /\ JournalFairness

-----------------------------------------------------------------------------
JournalTypeOK ==
  /\ rows \in [DOMAIN rows -> Records \cup {Deleted}]
  /\ DOMAIN rows \subseteq 1 .. seq
  /\ seq \in Nat
  /\ up \in BOOLEAN
  /\ faults \in 0 .. MaxFaults
  /\ ~ up => jobs = << >> /\ dirty = << >> /\ flight = Idle
  /\ flight.written => flight.batch # << >>

\* An active job is either waiting to be flushed or exactly what its row says:
\* no change is lost between a flush that was running and the buffer.
CleanIsDurable ==
  up => \A i \in Ids : Active(jobs[i]) /\ i \notin DOMAIN dirty =>
          i \in DOMAIN rows /\ rows[i] = jobs[i]

\* An update whose handler passed the durability barrier survives any crash:
\* its job is a row that names it (durability_barrier before arm_timer).
ConfirmedIsDurable ==
  \A c \in confirmed : /\ c[2] \in DOMAIN rows
                       /\ rows[c[2]] = Deleted \/ c[1] \in rows[c[2]].source_update_ids

\* Whatever half of the buffer reached Postgres before a crash, the records that
\* startup recovery requeues pass the debounce index: the process comes back up.
RecoveryApplies == ~ up => Applicable(RecoveryBatch)

Rewritten(i) == /\ i \in DOMAIN dirty \cap DOMAIN dirty'
                /\ dirty'[i] # dirty[i]

\* A job's last change does not stay in the buffer for ever: once Postgres stops
\* failing it is written, whatever crashes and refused flushes precede it and
\* however busy the barriers of other jobs keep the lock (flush_dirty,
\* mark_flush_failed).  Two exceptions are the code's: a job that keeps changing
\* while each flush runs, and a buffer the debounce index refuses again and
\* again, as a whole, because a job came back to the queue with the key of a
\* pending one (requeue_job_to_queue).
BufferDrains ==
  \A i \in 1 .. MaxId :
    <>[](i \in DOMAIN dirty /\ Applicable(dirty)) => []<><<Rewritten(i)>>_vars

\* A row that waits for the delivery of its answer does not wait for ever, also
\* when the process dies between the delivery and the completion of the job.
DurableDeliveryEnds ==
  \A i \in 1 .. MaxId :
    (i \in DOMAIN rows /\ rows[i] # Deleted /\ rows[i].status = "WaitingDelivery")
      ~> ~ (i \in DOMAIN rows /\ rows[i] # Deleted /\ rows[i].status = "WaitingDelivery")
=============================================================================
