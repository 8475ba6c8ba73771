---------------------------- MODULE TaskRecords ----------------------------
(***************************************************************************)
(* The taskman job record and the pure functions of                        *)
(* crates/openplotva-taskman over a table of records: dispatch order, the  *)
(* dialog-lane gate, the accelerator gate, debounce merging, recovery and  *)
(* eviction.  A table is a function from job ids to records; the code's    *)
(* vector is kept in id order.                                             *)
(***************************************************************************)
EXTENDS Integers, FiniteSets

CONSTANTS
  Nil,          \* Option::None
  Queues,       \* queue names in use, a set of strings
  Lanes,        \* (chat, thread) pairs
  Users,
  Keys,         \* debounce keys
  Msgs,         \* Telegram messages
  WorkerIds,
  AgeStep       \* ACCELERATOR_PRIORITY_AGING_INTERVAL_SECONDS in clock units

ASSUME AgeStepAssumption == AgeStep \in Nat \ {0}
ASSUME NilAssumption == /\ Nil \notin Int
                        /\ Nil \notin WorkerIds \cup Keys \cup Msgs

DialogQueue == "dialog-aifarm"
ImageVipQueue == "image-vip"
AsrPriority == 6
ImageVipPriority == 5
ImageVipPriorityCeiling == 7

JobTypes == {"dialog", "asr", "image", "music", "agent", "control"}
ActiveStatuses == {"Pending", "Processing", "WaitingDelivery"}
TerminalStatuses == {"Completed", "Failed", "Cancelled"}
Statuses == ActiveStatuses \cup TerminalStatuses

\* StatelessJobItem: what a caller asks to be done.  "msg" is the Telegram
\* message the job answers; "timeout" is processing_timeout_seconds.
Jobs == [type : JobTypes, lane : Lanes, user : Users, priority : Int,
         timeout : Nat, created : Nat, msg : Msgs \cup {Nil}]

\* TaskQueueRecord.  pending_dialog_inputs maps a message to the update that
\* supplied its text (0 when the message is not an input of the job).
Records ==
  [queue : Queues, status : Statuses, job : Jobs,
   available_at : Nat, debounce_key : Keys \cup {Nil},
   source_update_ids : SUBSET Nat, latest_update_id : Nat,
   pending_dialog_inputs : [Msgs -> Nat],
   worker_id : WorkerIds \cup {Nil}, started_at : Nat \cup {Nil},
   execution_started_at : Nat \cup {Nil}, completed_at : Nat \cup {Nil},
   resume_count : Nat \cup {Nil}, placeholder : BOOLEAN]

Active(r) == r.status \in ActiveStatuses
Available(r, now) == r.available_at <= now
IsAgent(r) == r.job.type = "agent"

-----------------------------------------------------------------------------
(* Dispatch order and gates.                                               *)

\* compare_go_queue_records: priority first, then age, then id.
GoBefore(t, i, j) ==
  \/ t[i].job.priority > t[j].job.priority
  \/ /\ t[i].job.priority = t[j].job.priority
     /\ \/ t[i].job.created < t[j].job.created
        \/ t[i].job.created = t[j].job.created /\ i < j

InDialogLane(r) == /\ r.queue = DialogQueue
                   /\ r.job.type = "dialog"
                   /\ Active(r)

Running(r) == r.status \in {"Processing", "WaitingDelivery"}

\* Mutant of LaneBlocked: a job that waits for delivery frees its lane.
LaneBlockedByExecution(t, i, now) ==
  /\ InDialogLane(t[i])
  /\ \E j \in DOMAIN t :
       /\ InDialogLane(t[j])
       /\ t[j].job.lane = t[i].job.lane
       /\ \/ t[j].status = "Processing"
          \/ /\ t[j].status = "Pending"
             /\ Available(t[j], now)
             /\ GoBefore(t, j, i)

\* A dialog job waits for whatever its (chat, thread) lane is running, and for
\* the better pending job of the lane.
LaneBlocked(t, i, now) ==
  /\ InDialogLane(t[i])
  /\ \E j \in DOMAIN t :
       /\ InDialogLane(t[j])
       /\ t[j].job.lane = t[i].job.lane
       /\ \/ Running(t[j])
          \/ /\ t[j].status = "Pending"
             /\ Available(t[j], now)
             /\ GoBefore(t, j, i)

IsAccelerator(r) == r.job.type \in {"asr", "image"}

VipImage(r) == r.queue = ImageVipQueue /\ r.job.type = "image"

\* Mutant of EffectivePriority: age is not capped.
UncappedPriority(r, now) ==
  LET vip  == VipImage(r)
      base == IF vip /\ r.job.priority < ImageVipPriority
                THEN ImageVipPriority ELSE r.job.priority
  IN  base + (IF now > r.job.created THEN (now - r.job.created) \div AgeStep ELSE 0)

\* accelerator_effective_priority: the base priority and the age that counts.
EffectivePriority(r, now) ==
  LET vip     == VipImage(r)
      base    == IF vip /\ r.job.priority < ImageVipPriority
                   THEN ImageVipPriority ELSE r.job.priority
      ceiling == IF vip THEN ImageVipPriorityCeiling ELSE AsrPriority
      age     == IF now > r.job.created THEN now - r.job.created ELSE 0
      room    == IF ceiling > base THEN ceiling - base ELSE 0
      earned  == age \div AgeStep
  IN  base + (IF earned < room THEN earned ELSE room)

\* Mutant of AcceleratorBefore: work of equal priority and age ties.
AcceleratorBeforeOrTied(t, i, j, now) ==
  LET pi == EffectivePriority(t[i], now)
      pj == EffectivePriority(t[j], now)
  IN  \/ pi > pj
      \/ pi = pj /\ t[i].job.created <= t[j].job.created

AcceleratorBefore(t, i, j, now) ==
  LET pi == EffectivePriority(t[i], now)
      pj == EffectivePriority(t[j], now)
  IN  \/ pi > pj
      \/ /\ pi = pj
         /\ \/ t[i].job.created < t[j].job.created
            \/ t[i].job.created = t[j].job.created /\ i < j

\* ASR and image jobs of every queue are arbitrated together: a job waits for
\* any better one that is running or could run now.
AcceleratorBlocked(t, i, now) ==
  /\ IsAccelerator(t[i])
  /\ \E j \in DOMAIN t \ {i} :
       /\ IsAccelerator(t[j])
       /\ \/ t[j].status = "Processing"
          \/ t[j].status = "Pending" /\ Available(t[j], now)
       /\ AcceleratorBefore(t, j, i, now)

Eligible(t, i, queue, types, now) ==
  /\ t[i].queue = queue
  /\ t[i].status = "Pending"
  /\ Available(t[i], now)
  /\ ~ LaneBlocked(t, i, now)
  /\ ~ AcceleratorBlocked(t, i, now)
  /\ t[i].job.type \in types

\* The record next_pending_index_matching returns, as a predicate.
NextPending(t, i, queue, types, now) ==
  /\ Eligible(t, i, queue, types, now)
  /\ \A j \in DOMAIN t \ {i} :
       Eligible(t, j, queue, types, now) => GoBefore(t, i, j)

NothingPending(t, queue, types, now) ==
  \A i \in DOMAIN t : ~ Eligible(t, i, queue, types, now)

Orphaned(r, queue) == /\ r.queue = queue
                      /\ r.status = "Processing"
                      /\ r.worker_id = Nil
                      /\ IsAgent(r)

NextOrphan(t, i, queue) ==
  /\ Orphaned(t[i], queue)
  /\ \A j \in DOMAIN t \ {i} : Orphaned(t[j], queue) => GoBefore(t, i, j)

-----------------------------------------------------------------------------
(* Record updates.                                                         *)

NewRecord(queue, job, availableAt, key, sources, latest, inputs) ==
  [queue |-> queue, status |-> "Pending", job |-> job,
   available_at |-> availableAt, debounce_key |-> key,
   source_update_ids |-> sources, latest_update_id |-> latest,
   pending_dialog_inputs |-> inputs,
   worker_id |-> Nil, started_at |-> Nil, execution_started_at |-> Nil,
   completed_at |-> Nil, resume_count |-> Nil, placeholder |-> FALSE]

\* Mutant of ScheduleIsNewer: the last writer wins.
ScheduleAlwaysApplies(existing, incoming) == TRUE

ScheduleIsNewer(existing, incoming) == existing = 0 \/ incoming > existing

\* apply_schedule_to_pending_record: the source ids are always merged, the
\* rest only when the schedule is newer than what the record already holds.
ApplySchedule(r, s) ==
  LET merged == [r EXCEPT !.source_update_ids = @ \cup s.sources]
  IN  IF ScheduleIsNewer(r.latest_update_id, s.latest)
      THEN [merged EXCEPT
              !.pending_dialog_inputs =
                 [m \in Msgs |-> IF s.inputs[m] # 0 THEN s.inputs[m] ELSE @[m]],
              !.job = s.job,
              !.available_at = s.available_at,
              !.debounce_key = s.key,
              !.latest_update_id = s.latest]
      ELSE merged

Claimed(r, w, now) ==
  [r EXCEPT !.status = "Processing", !.worker_id = w, !.started_at = now,
            !.execution_started_at = Nil, !.completed_at = Nil]

BackToPending(r) ==
  [r EXCEPT !.status = "Pending", !.worker_id = Nil, !.started_at = Nil,
            !.execution_started_at = Nil, !.completed_at = Nil]

MarkTerminal(r, status, now) ==
  [r EXCEPT !.status = status, !.completed_at = now]

-----------------------------------------------------------------------------
(* Recovery.                                                               *)

SameDebounce(r, s) == /\ r.debounce_key # Nil
                      /\ r.queue = s.queue
                      /\ r.debounce_key = s.debounce_key

\* Mutant of RequeueAll: every record keeps its debounce key.
RequeueWithKey(t, S) ==
  [i \in DOMAIN t |-> IF i \in S THEN BackToPending(t[i]) ELSE t[i]]

\* requeue_record over the records of S in id order: a record whose debounce
\* key a pending record already owns comes back without it.
RequeueAll(t, S) ==
  [i \in DOMAIN t |->
     IF i \notin S THEN t[i]
     ELSE LET owned == \E j \in DOMAIN t \ {i} :
                          /\ SameDebounce(t[i], t[j])
                          /\ t[j].status = "Pending" \/ (j \in S /\ j < i)
          IN  BackToPending(IF owned THEN [t[i] EXCEPT !.debounce_key = Nil]
                                     ELSE t[i])]

Media(r) == r.job.type \in {"asr", "image", "music"}

\* Accelerator and music work is timed from the start of execution.
TimeoutStart(r) == IF Media(r) THEN r.execution_started_at ELSE r.started_at

\* Mutant of StartedBefore: the clock of a job runs on after the handover.
StartedBeforeRunning(r, age, now) ==
  /\ Running(r)
  /\ ~ IsAgent(r)
  /\ TimeoutStart(r) # Nil
  /\ TimeoutStart(r) + age < now

StartedBefore(r, age, now) ==
  /\ r.status = "Processing"
  /\ ~ IsAgent(r)
  /\ TimeoutStart(r) # Nil
  /\ TimeoutStart(r) + age < now

Expired(r, now) == r.job.timeout > 0 /\ StartedBefore(r, r.job.timeout, now)

\* Mutant of ReleaseOrphaned: agents keep the worker of the dead process.
ReleaseOrphanedKeepingWorker(t) ==
  RequeueAll(t, {i \in DOMAIN t : t[i].status = "Processing" /\ ~ IsAgent(t[i])})

\* release_orphaned_processing_for_startup: agents keep Processing and their
\* checkpoint, everything else goes back to the queue.
ReleaseOrphaned(t) ==
  LET S == {i \in DOMAIN t : t[i].status = "Processing" /\ ~ IsAgent(t[i])}
      released == RequeueAll(t, S)
  IN  [i \in DOMAIN t |->
         IF t[i].status = "Processing" /\ IsAgent(t[i])
         THEN [t[i] EXCEPT !.worker_id = Nil] ELSE released[i]]

\* Terminal records that ended before the cutoff, outside the newest `keep` of
\* their queue and without a placeholder still to clean up.
Evictable(t, cutoff, keep) ==
  {i \in DOMAIN t :
     /\ ~ Active(t[i])
     /\ t[i].completed_at # Nil
     /\ t[i].completed_at < cutoff
     /\ ~ t[i].placeholder
     /\ Cardinality({j \in DOMAIN t \ {i} :
          /\ ~ Active(t[j])
          /\ t[j].queue = t[i].queue
          /\ \/ t[j].completed_at > t[i].completed_at
             \/ t[j].completed_at = t[i].completed_at /\ j > i}) >= keep}
=============================================================================
