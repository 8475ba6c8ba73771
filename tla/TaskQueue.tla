----------------------------- MODULE TaskQueue -----------------------------
(***************************************************************************)
(* InMemoryTaskQueue of crates/openplotva-taskman: the shared job queue.   *)
(* Every public method takes the one state mutex, so a method is one       *)
(* action; a caller that needs two methods is two actions.  A method that  *)
(* changes a record appends a write-ahead record to the journal before it  *)
(* unlocks: `dirty` is the journal's buffer, the latest record of each job *)
(* that is not flushed yet.                                                *)
(***************************************************************************)
EXTENDS TaskRecords

CONSTANTS
  Deleted,        \* the journal's delete record
  ChatOf,         \* [Lanes -> chats]
  WorkerQueue,    \* [WorkerIds -> Queues], the queue a worker polls
  WorkerTypes,    \* [WorkerIds -> SUBSET JobTypes], its dequeue predicate
  Requests,       \* work a caller may ask for: [queue, type, lane, user, priority, timeout]
  Limited,        \* the requests whose caller enforces the user limit
  Updates,        \* debounced input: [id, msg, key, request]
  Edits,          \* edits of an input: [id, msg, lane]
  Callers,        \* concurrent update handlers
  BatchKinds,     \* the outbox batches a dialog turn sends: "answer", "interim"
  UserLimit,      \* max_active_jobs of assign_with_user_limit
  DebounceDelay, StuckAge, Retention, KeepPerQueue,
  Administered,   \* bound: the ids of the jobs an operator restarts, cancels or deletes
  MaxId, MaxTime  \* bounds of the model

AnyRequest == [queue : Queues, type : JobTypes, lane : Lanes, user : Users,
               priority : Int, timeout : Nat]

ASSUME QueueAssumption ==
  /\ Deleted \notin Records
  /\ WorkerQueue \in [WorkerIds -> Queues]
  /\ WorkerTypes \in [WorkerIds -> SUBSET JobTypes]
  /\ Requests \subseteq AnyRequest
  /\ Limited \subseteq AnyRequest
  /\ Updates \subseteq [id : Nat \ {0}, msg : Msgs, key : Keys, request : AnyRequest]
  /\ Edits \subseteq [id : Nat \ {0}, msg : Msgs, lane : Lanes]
  /\ BatchKinds \subseteq {"answer", "interim"}
  /\ UserLimit \in Nat \ {0}
  /\ DebounceDelay \in Nat /\ StuckAge \in Nat /\ Retention \in Nat
  /\ KeepPerQueue \in Nat

\* A message reaches the bot in one update and its edits have updates of their
\* own; a debounce key names the jobs of one type in its queue.
ASSUME InputAssumption ==
  /\ \A u, v \in Updates : u.id = v.id \/ u.msg = v.msg => u = v
  /\ \A e \in Edits : \A u \in Updates : e.id # u.id
  /\ \A e, f \in Edits : e.id = f.id => e.msg = f.msg
  /\ \A u, v \in Updates :
       u.request.queue = v.request.queue /\ u.key = v.key => u.request.type = v.request.type

VARIABLES
  jobs,       \* TaskQueueState.records
  next_id,    \* TaskQueueIdAllocator.next_id
  dirty,      \* BufferedTaskQueueJournalState.dirty
  held,       \* the work item each worker is executing, or Nil
  answered,   \* workers that know their job's answer is in the outbox
  call,       \* what each caller remembers between two queue calls
  batches,    \* the durable Telegram outbox: the state of each job's batches
  resolving,  \* settled batches some outbox task is about to resolve
  now         \* OffsetDateTime::now_utc()

claimVars == <<held, answered>>
outboxVars == <<batches, resolving>>
queueVars == <<jobs, next_id, dirty, claimVars, call, outboxVars, now>>

NoCall == [op |-> "none"]
Ids == DOMAIN jobs

\* The end of every mutating method: write the table, append the records.
Commit(table, touched) ==
  /\ jobs' = table
  /\ dirty' = [i \in touched \cup DOMAIN dirty |->
                 IF i \in touched THEN table[i] ELSE dirty[i]]

Update(i, r) == Commit([jobs EXCEPT ![i] = r], {i})

\* next_job_id and the push of the new record.
Push(r) ==
  /\ next_id <= MaxId
  /\ Commit([i \in Ids \cup {next_id} |-> IF i = next_id THEN r ELSE jobs[i]],
            {next_id})
  /\ next_id' = next_id + 1

JobOf(q, msg) == [type |-> q.type, lane |-> q.lane, user |-> q.user,
                  priority |-> q.priority, timeout |-> q.timeout,
                  created |-> now, msg |-> msg]

NoInputs == [m \in Msgs |-> 0]
InputFrom(m, u) == [NoInputs EXCEPT ![m] = u]

-----------------------------------------------------------------------------
(* Producers.                                                              *)

Assign(q) ==
  /\ Push(NewRecord(q.queue, JobOf(q, Nil), 0, Nil, {}, 0, NoInputs))
  /\ UNCHANGED <<claimVars, call, outboxVars, now>>

UserActiveCount(queue, user) ==
  Cardinality({i \in Ids : /\ jobs[i].queue = queue
                           /\ Active(jobs[i])
                           /\ jobs[i].job.user = user})

\* assign_with_user_limit takes the lock twice: once to count, once to assign.
CountForLimit(c, q) ==
  /\ call[c] = NoCall
  /\ UserActiveCount(q.queue, q.user) < UserLimit
  /\ call' = [call EXCEPT ![c] = [op |-> "limited", request |-> q]]
  /\ UNCHANGED <<jobs, next_id, dirty, claimVars, outboxVars, now>>

AssignLimited(c) ==
  /\ call[c].op = "limited"
  /\ LET q == call[c].request
     IN  Push(NewRecord(q.queue, JobOf(q, Nil), 0, Nil, {}, 0, NoInputs))
  /\ call' = [call EXCEPT ![c] = NoCall]
  /\ UNCHANGED <<claimVars, outboxVars, now>>

\* Mutant of Accounted: only pending jobs account for an update.
AccountedPending(queue, type, key, u) ==
  \E i \in Ids : /\ jobs[i].queue = queue
                 /\ jobs[i].status = "Pending"
                 /\ jobs[i].job.type = type
                 /\ jobs[i].debounce_key = key
                 /\ u \in jobs[i].source_update_ids

Accounted(queue, type, key, u) ==
  \E i \in Ids : /\ jobs[i].queue = queue
                 /\ jobs[i].job.type = type
                 /\ jobs[i].debounce_key = key
                 /\ u \in jobs[i].source_update_ids

Debouncing(queue, key) ==
  {i \in Ids : /\ jobs[i].queue = queue
               /\ jobs[i].status = "Pending"
               /\ jobs[i].debounce_key = key}

ScheduleOf(u) == [job |-> JobOf(u.request, u.msg), key |-> u.key,
                  available_at |-> now + DebounceDelay, sources |-> {u.id},
                  latest |-> u.id, inputs |-> InputFrom(u.msg, u.id)]

\* schedule_or_replace: an update already accounted for changes nothing, a
\* pending job of the same key absorbs the input, otherwise a job is born.
ScheduleOrReplace(u) ==
  LET queue  == u.request.queue
      s      == ScheduleOf(u)
      owners == Debouncing(queue, u.key)
  IN
  /\ ~ Accounted(queue, u.request.type, u.key, u.id)
  /\ \/ /\ owners = {}
        /\ Push(NewRecord(queue, s.job, s.available_at, s.key, s.sources,
                          s.latest, s.inputs))
     \/ \E i \in owners :
          /\ \A j \in owners : i <= j
          /\ Update(i, ApplySchedule(jobs[i], s))
          /\ UNCHANGED next_id
  /\ UNCHANGED <<claimVars, call, outboxVars, now>>

PendingDialog(i, e) == /\ jobs[i].status = "Pending"
                       /\ jobs[i].job.type = "dialog"
                       /\ jobs[i].job.lane = e.lane
                       /\ jobs[i].job.msg = e.msg

\* An edited message looks its first pending job up, then updates it by id.
LookUpEdited(c, e) ==
  /\ call[c] = NoCall
  /\ \E i \in Ids :
       /\ PendingDialog(i, e)
       /\ \A j \in Ids : PendingDialog(j, e) => i <= j
       /\ jobs[i].debounce_key # Nil
       /\ call' = [call EXCEPT ![c] = [op |-> "edit", edit |-> e, id |-> i,
                                       seen |-> jobs[i]]]
  /\ UNCHANGED <<jobs, next_id, dirty, claimVars, outboxVars, now>>

EditSchedule(k) == [job |-> k.seen.job, key |-> k.seen.debounce_key,
                    available_at |-> k.seen.available_at,
                    sources |-> {k.edit.id}, latest |-> k.edit.id,
                    inputs |-> InputFrom(k.edit.msg, k.edit.id)]

UpdatePendingSchedule(c) ==
  /\ call[c].op = "edit"
  /\ LET i == call[c].id
     IN  \/ /\ i \in Ids /\ jobs[i].status = "Pending"
            /\ Update(i, ApplySchedule(jobs[i], EditSchedule(call[c])))
         \/ /\ ~ (i \in Ids /\ jobs[i].status = "Pending")
            /\ UNCHANGED <<jobs, dirty>>
  /\ call' = [call EXCEPT ![c] = NoCall]
  /\ UNCHANGED <<next_id, claimVars, outboxVars, now>>

\* restart_from: a fresh job from a record's payload.
RestartJob(i) ==
  /\ i \in Ids
  /\ Push(NewRecord(jobs[i].queue, [jobs[i].job EXCEPT !.created = now],
                    0, Nil, {}, 0, NoInputs))
  /\ UNCHANGED <<claimVars, call, outboxVars, now>>

-----------------------------------------------------------------------------
(* Workers.                                                                *)

Dequeue(w) ==
  /\ held[w] = Nil
  /\ \E i \in Ids :
       /\ NextPending(jobs, i, WorkerQueue[w], WorkerTypes[w], now)
       /\ Update(i, Claimed(jobs[i], w, now))
       /\ held' = [held EXCEPT ![w] = i]
  /\ UNCHANGED <<next_id, answered, call, outboxVars, now>>

\* dequeue_or_adopt_agent, when no fresh job is waiting.  Only the end of a
\* process leaves a job without its worker, so TaskJournal takes this step.
AdoptAgent(w) ==
  /\ held[w] = Nil
  /\ "agent" \in WorkerTypes[w]
  /\ NothingPending(jobs, WorkerQueue[w], WorkerTypes[w], now)
  /\ \E i \in Ids :
       /\ NextOrphan(jobs, i, WorkerQueue[w])
       /\ Update(i, [jobs[i] EXCEPT !.worker_id = w,
                       !.resume_count = IF @ = Nil THEN Nil ELSE @ + 1])
       /\ held' = [held EXCEPT ![w] = i]
  /\ UNCHANGED <<next_id, answered, call, outboxVars, now>>

Drop(w) == /\ held' = [held EXCEPT ![w] = Nil]
           /\ answered' = answered \ {w}

\* A worker's call on a job that is gone returns JobNotFound.
OnHeld(w, A) == \/ held[w] \in Ids /\ A
                \/ held[w] \notin Ids /\ UNCHANGED <<jobs, dirty>>

CheckpointAgent(w) ==
  /\ held[w] # Nil
  /\ held[w] \in Ids
  /\ IsAgent(jobs[held[w]])
  /\ Update(held[w], [jobs[held[w]] EXCEPT !.resume_count = IF @ = Nil THEN 0 ELSE @])
  /\ UNCHANGED <<next_id, claimVars, call, outboxVars, now>>

\* Only the accelerator and music workers report the start of execution.
SetExecutionStarted(w) ==
  /\ held[w] # Nil
  /\ held[w] \in Ids
  /\ Media(jobs[held[w]])
  /\ jobs[held[w]].execution_started_at = Nil
  /\ Update(held[w], [jobs[held[w]] EXCEPT !.execution_started_at = now])
  /\ UNCHANGED <<next_id, claimVars, call, outboxVars, now>>

\* create_job_message: image and music workers post a placeholder.
PostPlaceholder(w) ==
  /\ held[w] # Nil
  /\ held[w] \in Ids
  /\ jobs[held[w]].job.type \in {"image", "music"}
  /\ Update(held[w], [jobs[held[w]] EXCEPT !.placeholder = TRUE])
  /\ UNCHANGED <<next_id, claimVars, call, outboxVars, now>>

\* Mutant of Finalize: only a job in Processing can end.
FinalizeProcessing(i, status) ==
  \/ /\ jobs[i].status = "Processing" \/ status = "Cancelled"
     /\ Update(i, MarkTerminal(jobs[i], status, now))
  \/ /\ jobs[i].status # "Processing" /\ status # "Cancelled"
     /\ UNCHANGED <<jobs, dirty>>

\* finalize refuses to turn a cancelled job into anything else.
Finalize(i, status) ==
  \/ /\ jobs[i].status # "Cancelled" \/ status = "Cancelled"
     /\ Update(i, MarkTerminal(jobs[i], status, now))
  \/ /\ jobs[i].status = "Cancelled" /\ status # "Cancelled"
     /\ UNCHANGED <<jobs, dirty>>

\* The batches of a dialog job in the outbox.
Answer(i) == <<i, "answer">>

\* A turn whose answer is queued ends in a handover, unless it is delivered.
Finish(w, status) ==
  /\ held[w] # Nil
  /\ w \in answered => /\ status = "Completed"
                       /\ \E b \in DOMAIN batches : /\ b = Answer(held[w])
                                                    /\ batches[b] = "delivered"
  /\ OnHeld(w, Finalize(held[w], status))
  /\ Drop(w)
  /\ UNCHANGED <<next_id, call, outboxVars, now>>

\* Batch ids are derived from the job id, so a second enqueue finds the first.
Enqueue(b) == batches' = IF b \in DOMAIN batches THEN batches
                         ELSE [c \in {b} \cup DOMAIN batches |->
                                 IF c = b THEN "sending" ELSE batches[c]]

InDialog(w) == /\ held[w] # Nil
               /\ held[w] \in Ids
               /\ jobs[held[w]].job.type = "dialog"
               /\ w \notin answered

\* send_dialog_intermediate: a message of the turn before its answer.
SendInterim(w) ==
  /\ "interim" \in BatchKinds
  /\ InDialog(w)
  /\ Enqueue(<<held[w], "interim">>)
  /\ UNCHANGED <<jobs, next_id, dirty, claimVars, call, resolving, now>>

\* Mutant of EnqueueAnswer: a failed outbox transaction counts as queued.
EnqueueAnswerUnchecked(w) ==
  /\ "answer" \in BatchKinds
  /\ InDialog(w)
  /\ \/ Enqueue(Answer(held[w]))
     \/ UNCHANGED batches
  /\ answered' = answered \cup {w}
  /\ UNCHANGED <<jobs, next_id, dirty, held, call, resolving, now>>

\* send_dialog_answer, or the preflight that finds the answer of an earlier
\* attempt; the reply of the outbox transaction can be lost.
EnqueueAnswer(w) ==
  /\ "answer" \in BatchKinds
  /\ InDialog(w)
  /\ Enqueue(Answer(held[w]))
  /\ answered' \in {answered, answered \cup {w}}
  /\ UNCHANGED <<jobs, next_id, dirty, held, call, resolving, now>>

Handover(i) ==
  \/ /\ jobs[i].status = "Processing"
     /\ Update(i, [jobs[i] EXCEPT !.status = "WaitingDelivery",
                                  !.worker_id = Nil])
  \/ /\ jobs[i].status # "Processing"
     /\ UNCHANGED <<jobs, dirty>>

\* wait_for_delivery after the answer was enqueued.
WaitForDelivery(w) ==
  /\ held[w] # Nil
  /\ w \in answered
  /\ OnHeld(w, Handover(held[w]))
  /\ Drop(w)
  /\ UNCHANGED <<next_id, call, outboxVars, now>>

RequeueJob(i) ==
  \/ /\ jobs[i].status # "Cancelled"
     /\ Update(i, BackToPending(jobs[i]))
  \/ /\ jobs[i].status = "Cancelled"
     /\ UNCHANGED <<jobs, dirty>>

\* requeue_job_to_queue: the retry of a retryable provider failure, always to
\* the queue the job came from.
Requeue(w) ==
  /\ held[w] # Nil
  /\ w \notin answered
  /\ held[w] \in Ids => jobs[held[w]].job.type \in {"dialog", "image", "music"}
  /\ OnHeld(w, RequeueJob(held[w]))
  /\ Drop(w)
  /\ UNCHANGED <<next_id, call, outboxVars, now>>

-----------------------------------------------------------------------------
(* Outbox, operators and periodic workers.                                 *)

\* The last operation of a batch reaches a terminal state; the outbox task
\* that recorded it goes on to resolve the batch.
SettleBatch(b, outcome) ==
  /\ b \in DOMAIN batches
  /\ batches[b] = "sending"
  /\ batches' = [batches EXCEPT ![b] = outcome]
  /\ resolving' = resolving \cup {b}
  /\ UNCHANGED <<jobs, next_id, dirty, claimVars, call, now>>

Settled(b) == b \in DOMAIN batches /\ batches[b] # "sending"

WaitsForDelivery(t, i) == i \in DOMAIN t /\ t[i].status = "WaitingDelivery"

TakeUp(b) ==
  /\ Settled(b)
  /\ b \notin resolving
  /\ resolving' = resolving \cup {b}
  /\ UNCHANGED <<jobs, next_id, dirty, claimVars, call, batches, now>>

\* reconcile_resolved_taskman_batches: the maintenance scan takes up settled
\* batches of jobs that still wait for delivery (TaskJournal scans the durable
\* rows, as the code does).
ScanBatch(b) == WaitsForDelivery(jobs, b[1]) /\ TakeUp(b)

\* resolve_batch completes or fails the job the batch is linked to, whatever
\* the batch carried.
ResolveBatch(b) ==
  /\ b \in resolving
  /\ \/ /\ b[1] \in Ids
        /\ Finalize(b[1], IF batches[b] = "delivered" THEN "Completed" ELSE "Failed")
     \/ /\ b[1] \notin Ids
        /\ UNCHANGED <<jobs, dirty>>
  /\ resolving' = resolving \ {b}
  /\ UNCHANGED <<next_id, claimVars, call, batches, now>>

Cancel(i) ==
  /\ i \in Ids
  /\ Finalize(i, "Cancelled")
  /\ UNCHANGED <<next_id, claimVars, call, outboxVars, now>>

\* cancel_user_jobs: the user's jobs in all threads of the chat, under one lock.
CancelUserJobs(user, chat) ==
  LET S == {i \in Ids : /\ Active(jobs[i])
                        /\ jobs[i].job.user = user
                        /\ ChatOf[jobs[i].job.lane] = chat}
  IN  /\ S # {}
      /\ Commit([i \in Ids |-> IF i \in S
                               THEN MarkTerminal(jobs[i], "Cancelled", now)
                               ELSE jobs[i]], S)
      /\ UNCHANGED <<next_id, claimVars, call, outboxVars, now>>

Delete(i) ==
  /\ i \in Ids
  /\ jobs' = [j \in Ids \ {i} |-> jobs[j]]
  /\ dirty' = [j \in DOMAIN dirty \cup {i} |-> IF j = i THEN Deleted ELSE dirty[j]]
  /\ UNCHANGED <<next_id, claimVars, call, outboxVars, now>>

RequeueExpired ==
  LET S == {i \in Ids : Expired(jobs[i], now)}
  IN  /\ S # {}
      /\ Commit(RequeueAll(jobs, S), S)
      /\ UNCHANGED <<next_id, claimVars, call, outboxVars, now>>

FailStuck ==
  LET S == {i \in Ids : StartedBefore(jobs[i], StuckAge, now)}
  IN  /\ S # {}
      /\ Commit([i \in Ids |-> IF i \in S THEN MarkTerminal(jobs[i], "Failed", now)
                                          ELSE jobs[i]], S)
      /\ UNCHANGED <<next_id, claimVars, call, outboxVars, now>>

\* evict_terminal_before writes no journal record: Postgres keeps the rows.
EvictTerminal ==
  LET S == Evictable(jobs, now - Retention, KeepPerQueue)
  IN  /\ S # {}
      /\ jobs' = [i \in Ids \ S |-> jobs[i]]
      /\ UNCHANGED <<next_id, dirty, claimVars, call, outboxVars, now>>

\* delete_job_message after the placeholder was removed from the chat.
CleanPlaceholder(i) ==
  /\ i \in Ids
  /\ jobs[i].placeholder
  /\ Update(i, [jobs[i] EXCEPT !.placeholder = FALSE])
  /\ UNCHANGED <<next_id, claimVars, call, outboxVars, now>>

Tick == /\ now < MaxTime
        /\ now' = now + 1
        /\ UNCHANGED <<jobs, next_id, dirty, claimVars, call, outboxVars>>

-----------------------------------------------------------------------------
QueueInit ==
  /\ jobs = << >>
  /\ next_id = 1
  /\ dirty = << >>
  /\ held = [w \in WorkerIds |-> Nil]
  /\ answered = {}
  /\ call = [c \in Callers |-> NoCall]
  /\ batches = << >>
  /\ resolving = {}
  /\ now = 0

Produce ==
  \/ \E q \in Requests : Assign(q)
  \/ \E c \in Callers, q \in Limited : CountForLimit(c, q)
  \/ \E c \in Callers : AssignLimited(c)
  \/ \E u \in Updates : ScheduleOrReplace(u)
  \/ \E c \in Callers, e \in Edits : LookUpEdited(c, e)
  \/ \E c \in Callers : UpdatePendingSchedule(c)
  \/ \E i \in Ids \cap Administered : RestartJob(i)

Work(w) ==
  \/ Dequeue(w)
  \/ CheckpointAgent(w)
  \/ SetExecutionStarted(w)
  \/ PostPlaceholder(w)
  \/ \E s \in {"Completed", "Failed"} : Finish(w, s)
  \/ SendInterim(w)
  \/ EnqueueAnswer(w)
  \/ WaitForDelivery(w)
  \/ Requeue(w)

Maintain ==
  \/ \E b \in DOMAIN batches :
       \/ \E outcome \in {"delivered", "dead"} : SettleBatch(b, outcome)
       \/ ResolveBatch(b)
  \/ \E i \in Ids \cap Administered : Cancel(i) \/ Delete(i)
  \/ \E i \in Ids : CleanPlaceholder(i)
  \/ \E u \in Users, l \in Lanes : CancelUserJobs(u, ChatOf[l])
  \/ RequeueExpired
  \/ FailStuck
  \/ EvictTerminal

QueueNext ==
  \/ Produce
  \/ \E w \in WorkerIds : Work(w)
  \/ Maintain
  \/ \E b \in DOMAIN batches : ScanBatch(b)
  \/ Tick

QueueSpec == QueueInit /\ [][QueueNext]_queueVars

\* The outbox worker and its maintenance pass run for as long as the process
\* does, and give a Telegram operation up after a bounded number of attempts.
OutboxFairness ==
  /\ \A i \in 1 .. MaxId, kind \in BatchKinds :
       WF_queueVars(\E outcome \in {"delivered", "dead"} :
                      SettleBatch(<<i, kind>>, outcome))
  /\ \A i \in 1 .. MaxId, kind \in BatchKinds : WF_queueVars(ScanBatch(<<i, kind>>))
  /\ \A i \in 1 .. MaxId, kind \in BatchKinds : WF_queueVars(ResolveBatch(<<i, kind>>))

FairQueueSpec == QueueSpec /\ OutboxFairness

-----------------------------------------------------------------------------
Calls == {NoCall}
         \cup [op : {"limited"}, request : Limited]
         \cup [op : {"edit"}, edit : Edits, id : Nat, seen : Records]

TypeOK ==
  /\ next_id \in Nat \ {0}
  /\ Ids \subseteq 1 .. next_id - 1
  /\ jobs \in [Ids -> Records]
  /\ DOMAIN dirty \subseteq 1 .. next_id - 1
  /\ dirty \in [DOMAIN dirty -> Records \cup {Deleted}]
  /\ held \in [WorkerIds -> (1 .. next_id - 1) \cup {Nil}]
  /\ answered \subseteq WorkerIds
  /\ call \in [Callers -> Calls]
  /\ DOMAIN batches \subseteq Nat \X {"answer", "interim"}
  /\ batches \in [DOMAIN batches -> {"sending", "delivered", "dead"}]
  /\ resolving \subseteq {b \in DOMAIN batches : batches[b] # "sending"}
  /\ now \in Nat

\* Two dialog jobs of one (chat, thread) are never executing, or waiting for
\* the delivery of their answer, at the same time (dialog_lane_blocked), however
\* claims, retries, timeouts, cancellations and late deliveries interleave.
LaneExclusive ==
  \A i, j \in Ids :
    /\ InDialogLane(jobs[i]) /\ Running(jobs[i])
    /\ InDialogLane(jobs[j]) /\ Running(jobs[j])
    /\ jobs[i].job.lane = jobs[j].job.lane
    => i = j

\* What may end the wait of job i: the settlement of one of its batches, a user
\* or an operator, or the last report of a worker that lost the job to a time-out;
\* a worker that knows the answer is queued only reports it delivered.
EndsWait(i) ==
  \/ \E b \in resolving \ resolving' : b[1] = i
  \/ i \in DOMAIN jobs' /\ jobs'[i].status = "Cancelled"
  \/ i \notin DOMAIN jobs' /\ dirty'[i] = Deleted
  \/ \E w \in WorkerIds :
       /\ held[w] = i /\ held'[w] = Nil
       /\ w \in answered => batches[Answer(i)] = "delivered"

\* A job waits for delivery only with its answer in the outbox, and nothing else
\* that goes on in the process ends the wait: no time-out, stuck-job sweep, claim,
\* merge or eviction takes up a job whose answer is on its way
\* (requeue_expired_processing, fail_stuck_processing_before, evict_terminal_before).
DeliveryIsOwned ==
  [][\A i \in Ids : jobs[i].status = "WaitingDelivery" =>
       /\ Answer(i) \in DOMAIN batches
       /\ WaitsForDelivery(jobs', i) \/ EndsWait(i)]_queueVars

\* No job is left Processing by a worker that went on to other work, whatever
\* refused its last call (only an agent released at startup has no worker).
ProcessingIsWorkedOn ==
  \A i \in Ids : jobs[i].status = "Processing" =>
    \/ \E w \in WorkerIds : held[w] = i
    \/ IsAgent(jobs[i]) /\ jobs[i].worker_id = Nil

SharesInput(r, s) == /\ SameDebounce(r, s)
                     /\ r.job.type = s.job.type
                     /\ r.source_update_ids \cap s.source_update_ids # {}

\* A Telegram update does not become the work of a second job of its key, also
\* when it is replayed after the job that absorbed it was claimed or finished
\* (schedule_or_replace).  The one way is an edit that was looked up before a
\* time-out took the key from its job, and gives it back (update_pending_schedule).
InputGetsNoSecondJob ==
  [][\A i \in DOMAIN jobs' : \A j \in DOMAIN jobs' \ {i} :
       SharesInput(jobs'[i], jobs'[j]) =>
         \/ i \in Ids /\ j \in Ids /\ SharesInput(jobs[i], jobs[j])
         \/ \E k \in {i, j} \cap Ids : jobs[k].debounce_key = Nil]_queueVars

\* A job the user cancelled stays cancelled: no late completion, failure,
\* retry, timeout or delivery brings it back (finalize, requeue_job_to_queue).
CancelledIsFinal ==
  [][\A i \in Ids : jobs[i].status = "Cancelled" =>
       (i \in DOMAIN jobs' => jobs'[i].status = "Cancelled")]_queueVars

\* The text a job holds for a message never goes back to an older update, for
\* replayed, reordered and edited updates alike (apply_schedule_to_pending_record).
NewestInputWins ==
  [][\A i \in Ids \cap DOMAIN jobs' : \A m \in Msgs :
       jobs'[i].pending_dialog_inputs[m] >= jobs[i].pending_dialog_inputs[m]]_queueVars

\* Whenever work is available and the accelerator and the lanes are idle, some
\* queue has a job its workers may take: the gates never block each other.
SomethingIsEligible ==
  (/\ \E i \in Ids : jobs[i].status = "Pending" /\ Available(jobs[i], now)
   /\ \A i \in Ids : ~ Running(jobs[i]))
  => \E i \in Ids : Eligible(jobs, i, jobs[i].queue, JobTypes, now)

\* A job that waits for the delivery of its answer does not wait for ever: the
\* outbox ends the batch and the resolve or the maintenance scan ends the job.
DeliveryEnds ==
  \A i \in 1 .. MaxId :
    (i \in Ids /\ jobs[i].status = "WaitingDelivery")
      ~> ~ (i \in Ids /\ jobs[i].status = "WaitingDelivery")

\* Work that has aged to the ASR ceiling is not overtaken by work of the other
\* non-VIP classes that came later (accelerator_effective_priority).
AgedWorkIsNotOvertaken ==
  \A i, j \in Ids :
    /\ IsAccelerator(jobs[i]) /\ IsAccelerator(jobs[j])
    /\ EffectivePriority(jobs[i], now) >= AsrPriority
    /\ jobs[i].job.created < jobs[j].job.created
    /\ jobs[j].job.priority <= AsrPriority
    /\ ~ VipImage(jobs[j])
    => AcceleratorBefore(jobs, i, j, now)

\* A VIP image that waited two intervals is ahead of every other class.
VipEscapes ==
  \A i, j \in Ids :
    /\ VipImage(jobs[i]) /\ IsAccelerator(jobs[j]) /\ ~ VipImage(jobs[j])
    /\ now >= jobs[i].job.created + 2 * AgeStep
    /\ jobs[j].job.priority <= AsrPriority
    => AcceleratorBefore(jobs, i, j, now)

\* CODEBASE_MAP: "Per-(chat,thread) lane lock".  While a worker still works on
\* the answer of a dialog job nobody stopped, no other worker holds a claimed job
\* of the lane.  (What becomes of the second claim is DialogSession's: the turn
\* that runs takes its message, or it is parked.)
LaneLock ==
  \A v, w \in WorkerIds :
    /\ v # w
    /\ held[v] \in Ids /\ held[w] \in Ids
    /\ held[v] # held[w]
    /\ v \notin answered
    /\ \A i \in {held[v], held[w]} : /\ jobs[i].queue = DialogQueue
                                     /\ jobs[i].job.type = "dialog"
                                     /\ jobs[i].status \in {"Processing", "Completed"}
    => jobs[held[v]].job.lane # jobs[held[w]].job.lane
=============================================================================
