# openplotva in TLA+

TLA+ specifications of the concurrent core of openplotva (a Telegram bot in
Rust), the TLC models that check them and the TLAPS proofs about them.
References such as `taskman lib.rs:3437` name files of the repository; `T` below
is `src/crates/openplotva-taskman/src/lib.rs`.

## 1. The system

One process runs everything. Telegram updates enter through a Redis stream and
a Postgres inbox, handlers turn them into jobs of an in-memory queue (taskman)
that a write-behind journal saves to Postgres, workers per queue execute the
jobs (dialog turns, images, music, speech recognition, agents), dialog turns ask
a model through a router over shared lanes, and every message the bot sends goes
through a durable outbox in Postgres, whose workers call Telegram and report
back to the jobs.

    Telegram --> stream --> inbox --> handlers --> taskman queue --> workers --> outbox --> Telegram
                (Redis)  (Postgres)                 |         ^      |    |        |
                                                 journal      |   session router   |
                                                    v         +---- completion, ---+
                                                Postgres            retry

| component | state | operations | what is hard |
|---|---|---|---|
| update stream (`redis_stream.rs`, `update_materializer.rs`) | the stream, its consumer group and pending list, one lease | receive, acquire, adopt, read, commit, acknowledge | duplicates, redelivery, two materializers at once |
| update inbox (`telegram_delivery.rs`, `updates.rs`) | rows, lane heads, leases | materialize, claim, checkpoint, finish, retry | order inside a lane; a worker that lost its lease reports |
| taskman queue (`T`) | the record table, the id allocator | assign, schedule_or_replace, update_pending_schedule, dequeue, adopt, finalize, wait_for_delivery, requeue, cancel, delete, requeue_expired, fail_stuck, evict | every method is atomic, every caller is not: claims, retries, timeouts, edits and cancellations interleave |
| journal (`openplotva-app task_queue.rs`, `openplotva-storage lib.rs`) | dirty buffer, flush lock, taskman_jobs, id sequences | append, flush_dirty, flush_job (barrier), mark_flushed, load, purge | partial flushes, lost replies, a crash between any two rows |
| dialog execution (`dialog_turn`, `dialog_jobs`) | the claimed job, its batches | execute, interim message, answer, retry, finalize | the job is finished by somebody else: the outbox |
| turn inbox (`dialog_turn/inbox.rs`, `dialog_jobs/worker.rs`) | one slot per (chat, thread), its inbox, its parked turns | claim, inject, park, drain, release, seal, respawn | a session ends while somebody merges into it |
| outbox (`telegram_outbox.rs` in storage and app) | batches, operations, attempts, leases | enqueue, claim, renew, deliver, retry, ambiguous, dead letter, expire, recover, manual retry, cancel | a send whose result is unknown; order inside a chat |
| lane capacity (`router/capacity.rs`) | in-flight counts, waiters | acquire, hand over, release, reload | waiters that give up, pools that are resized |
| breaker (`router/breaker.rs`) | failure counts, cooldowns | record_success, record_failure, is_live | half-open probes |
| router (`router/policy.rs`, `router/triggers.rs`, `routed_attempts.rs`) | the candidates of a pass, what a run tried, its permit | select, admit, wait, attempt, re-sample, fall back | repeated passes, a dozen ways out of an attempt |
| dialog debounce (`dialog_debounce.rs`) | an index of scheduled jobs, a rate limit | schedule, arm_timer | a timer against a newer schedule |
| dispatcher (`openplotva-telegram`) | rate-limit buckets, dedup sets | send, wait, retry-after | limits per chat and global |
| payments (`payments.rs`, `control_jobs.rs`, `subscription_sync.rs`) | a row per charge, a ledger of VIP events per user | enter a payment, sync, grant, revoke, refund | four writers that read, compute and write later; money that cannot be rolled back |
| control jobs, sandbox, agent runtime | their own tables | | exactly-once effects |

Formatting, prompts, configuration, provider adapters, history and memory
shaping, the GraphQL server and the web UI hold no protocol of their own; the
component list of `PROJECT.json` names each with the reason it is left out.

What makes the core correct:

* ingress: what Telegram handed over is in the stream, the inbox or quarantine
  at every moment, is handled in the order of its lane, and ends once.
* queue: one running job per (chat, thread) lane; an update is the work of one
  job, with its newest text; a cancelled job stays cancelled; nobody strands a
  job in Processing; the accelerator always has somebody to serve, and old work
  is not overtaken.
* session: a message merged into a running turn or parked behind it is answered
  or gets a turn of its own, once.
* journal: what the buffer does not hold is in Postgres as it is in memory; what
  was acknowledged survives a crash; whatever a crash leaves behind, the
  process starts again.
* outbox: a new message is not sent twice unless an operator accepts it, parts
  go out in order, and every operation ends, with its history or its reaction.
* delivery: a job that waits for its answer to be delivered has an answer that
  will be delivered or given up, and then ends.
* router: no lane is lost or over-admitted, a healthy target is not exiled, a
  run ends, and says truly whether anything was sent.

* payments: a payment is entered in the end, once; the time paid for is given,
  kept until something is taken, and not given twice; no record says refunded
  of money that was kept.

`PROJECT.json` lists the hazards of this code, line by line, with the
properties that cover them, and a note where none does.

## 2. Modules

| module | what it is | lines it stands for |
|---|---|---|
| `TaskRecords` | the job record and the pure functions over a table of records: dispatch order, gates, schedule merging, recovery, eviction | `T` 23-122, 498-568, 3252-3638 |
| `TaskQueue` | `InMemoryTaskQueue` and its callers: one action per method, one more wherever a caller needs a second method | `T` 1053-1666, 2045-2339; edited.rs 167-262; dialog_turn/engine.rs, dialog_jobs/effects.rs, dialog_jobs/retry.rs; app telegram_outbox.rs 1581-1740 |
| `TaskJournal` | `TaskQueue` with its journal, the taskman_jobs table, crashes and restarts | app task_queue.rs 63-330, 483-528; storage lib.rs 7107-7295, 7560-7642 |
| `DialogSession` | the registry of running turns and the worker around it | dialog_turn/inbox.rs 34-223; dialog_jobs/worker.rs 198-460; dialog_turn/engine.rs 273-342 |
| `TelegramOutbox` | the operations table, its workers, maintenance, operators, and Telegram | storage telegram_outbox.rs 19-1463; app telegram_outbox.rs 430-1490; migration 163 |
| `DeliveryPromise` | what the outbox promises about one message; `TelegramOutbox` implements it | |
| `UpdateInbox` | the Postgres inbox: rows, lane heads, claims, fenced writes | storage telegram_delivery.rs; updates.rs |
| `UpdateIngress` | `UpdateInbox` fed by the stream through the materializers of all processes | redis_stream.rs; update_materializer.rs; update_startup.rs |
| `LanePool` | `PoolRegistry`: the lanes of one inference pool, its waiters, and reloads of the routing table | openplotva-llm router/capacity.rs 82-340 |
| `Router` | breakers, selection passes, admission and retry of routed attempts | openplotva-llm router/breaker.rs, policy.rs, triggers.rs; routed_attempts.rs |
| `Payments` | what a user pays, the ledger of his VIP time, the control worker, the sync and operators | payments.rs 3988-4105, 5174-5570, 5698-5885, 6498-6823; subscription_sync.rs 182-495, 639-656; control_jobs.rs 330-405; migration 99 |
| `MC...` | the instances TLC checks | |
| `...Proofs` | the theorems about a module and their proofs | |

`TaskRecords` has no variable. A table is a function from job ids to records;
the code keeps a vector in id order, so a loop over the vector is a quantifier
over ids and "the first that" is "the least such that".

`TaskQueue` has the table (`jobs`), the allocator (`next_id`), the journal's
buffer (`dirty`), what each worker holds between two calls (`held`, `answered`),
what each update handler remembers between two calls (`call`), the outbox as far
as jobs see it (`batches`, `resolving`) and the clock (`now`). Every method of
the code takes the one state mutex, so a method is one action. Where a caller
reads under the lock and writes under it again later, there are two actions and
`call` or `held` carries what was read: `assign_with_user_limit` is
`CountForLimit` and `AssignLimited`, an edit is `LookUpEdited` and
`UpdatePendingSchedule`, a dialog turn is `Dequeue`, then `SendInterim`,
`EnqueueAnswer` and `WaitForDelivery`, or `Finish`, or `Requeue`. A worker's
guard never asks whether its job is still there or still its own, because the
code does not know either: `Finalize` and the others are refused as the code
refuses them (`OnHeld`), and the worker goes on. A lane is a (chat, thread);
`ChatOf` says which lanes are of one chat, because `cancel_user_jobs` takes all
threads of a chat at once.

There the outbox is abstracted to the state of a job's two kinds of batches:
"sending", then "delivered" or "dead"; the transaction that inserts a batch
checks the job's status (`Enqueue`). `ScanBatch` is the maintenance pass over
settled batches, `ResolveBatch` the completion it decides on, which comes later
and without the lock of the scan. That a batch does settle is what
`TelegramOutbox` shows (`OutboxDrains`).

`TaskJournal` extends `TaskQueue`: every step of the queue is a step of the
process, and next to them run the flush (`FlushDirty` takes the whole buffer,
`FlushJob` one record), its application by Postgres (`Apply`, atomic: one
transaction; it fails as a whole when the debounce index refuses it), the reply
(`FlushOk`) or its loss (`FlushFails`, after the commit too), `Crash` and
`Restart`. `flight` is the holder of the flush lock and the batch it cloned;
`rows` is the table. `Restart` is `load_from_postgres_with_id_allocator`: load,
seed the allocator, release what nobody runs any more, write that back. The
maintenance scan reads rows, not memory (`ScanRows`).

`DialogSession` takes the queue as far as a session sees it: a status and a
retry count per job. A worker claims (`Claim`, under the registry's lock), and
then runs a turn, merges its message into the inbox it found (`FindInbox` under
the registry's lock, `Push` under the inbox's) or parks it (`Park`); a session
that is gone by then sends it back to the claim (`Missed`), and after `Tries`
claims it runs beside the session, as the code's containment does. A turn drains
its inbox before each step of the model, resolves, finalizes its job, gives the
slot back (`Release`), seals the inbox (`Seal`, outside the registry's lock) and
respawns what is left, one job at a time. Which older messages a new turn
answers along with its own, because it finds them in the history, is `behind`.

`TelegramOutbox` has the operations table (`op`), what each worker's task knows
of the operation it leased (`task`), the requests Telegram may still take
although nobody waits for them (`wire`) and those it took (`posted`). A SQL
statement or transaction is an action; the phases of a task are the places
between them, where a crash, a store error or a lost lease may come. An insert
and its commit are two (`InsertBatch`, `CommitBatch`), since ids become visible
out of order. Every claim takes a new attempt number, which is the fence of
every later write. `DeliveryPromise` knows three numbers of a message: what is
said of it, how often Telegram took it, how often it may; `KeepsPromise` maps the
table to it (`Promise == INSTANCE DeliveryPromise WITH ...`).

`UpdateInbox` has rows, the head of each lane and the workers' tasks. A claim is
a snapshot (`Look`) and the lock of the row (`Take`); the writes of a worker are
fenced by token, status and lease (`Owned`). `UpdateIngress` adds the stream with
its consumer group (`delivered`, `pel`), the lease of the materializer and what
each process holds between reading, writing and acknowledging. An update is named
by its id, an entry by its place in the stream.

`LanePool`: the router calls it for every attempt and it calls nobody. `cells`
are the cells ever created (requests hold an `Arc` of theirs, so a removed pool's
cell lives on), `pool` the one the registry has now. One critical section under a
cell's mutex is one action. What happens outside the mutex is a place of the
request: "handed" is a permit in the oneshot channel, "returning" the same after
the receiver was dropped, "leaving" a waiter whose `QueuedWaiter` has not yet
taken its entry out. `serve_waiters` is `ServeWaiters`, a condition on the set of
requests that get a lane, and `Served`, the cell afterwards; entries of waiters
that are gone are popped at no cost, as the failed send in the code does.

`Router` uses a pool as `LanePool` shows it to be: so many lanes, the most urgent
waiter first. A run is a record with the local variables of
`RoutedAttemptWalker::run`; the steps are the places where it awaits or takes a
lock: the selection, the fast admission, the wait, the quota gate, the attempt
and its report to the breaker. Weights, dice and clocks are choices. A circuit
belongs to a (provider, model) and is shared by all workflows, but a failure is
counted under the threshold of the assignment that led the run there
(`FailThreshold`, per request and target). Which failures count is the code's
rule: not a rejected output nor a prompt that is too long (`Charges`), and an
attempt cut at the deadline only if it had `ATTEMPT_BREAKER_MIN_SLICE`. `slice`
is that reading of the remaining time: it is drawn when an attempt starts and,
once too short, stays too short for the rest of the run. `Sick` is the
environment: a provider outside it neither fails nor needs more than a slice.

`Payments` is about one user: rows, events and the lock of `vip_create_event` are
per user. The control worker and the sync run the same
`process_subscription_payment`: `Save` the row, `Look` at the event and the
summary, `Enter` the event with the difference computed before. Two reads in a
row are one step where what comes between them cannot be told apart: a row never
goes away, and an event found too late makes `Enter` an empty step, through the
unique index of migration 99. `CreateEvent` is the SQL function, atomic under
the user's lock; `seen` records how much of the ledger its writer knew. The sync
reads Telegram's list, which is kept for ever, computes where a payment should
have begun and what of it was not covered (`SyncNext`), and enters it if nobody
has. An operator's refund is a call to Telegram, a mark and a reversal. A process
can fail between any two of these.

## 3. Runs

| run | instance | states | asks |
|---|---|---|---|
| dialog | 2 workers, 2 updates of one key, 2 edits, 2 jobs | 638,000 | lanes and inputs under every interleaving, cancellations among them |
| delivery | 2 dialog workers, 1 image worker, 1 job, 2 clock ticks, both kinds of batches, fair outbox | 122,000 | who waits for delivery has its answer in the outbox, what may end the wait, and that it ends |
| accelerator | ASR, image and VIP image work, 2 jobs, 6 aging intervals | 2,000,000 | the gates leave somebody eligible; the order that aging promises |
| journal | 2 jobs of one key, 1 worker, 1 fault, fair journal | 552,000 | recovery from any mixture of rows; the buffer drains, or why it does not |
| recovery | 1 dialog or agent job, 3 workers, 2 faults, fair | 231,000 | nothing acknowledged or clean is lost; adoption; a durable wait ends over crashes |
| session | 3 messages of 2 users, 2 workers, 1 retry, timeout or cancellation, fair | 1,200,000 | nothing merged or parked is lost or answered twice; everybody is heard |
| outbox | a two-part answer with its reactions, 1 worker, 1 fault, 1 operator's order, fair | 306,000 | no unasked duplicate, order, no stranded part, the promise, the outbox drains |
| ingress | 2 processes, 2 workers, 3 updates of a lane (one broken), 2 entries, 1 fault, fair | 518,000 | nothing is lost, lanes keep their order and their heads, the backlog drains |
| lane_pool | 3 requests of 2 classes, widths 1, 2 and unlimited, 2 reloads, fair holders | 224,000 | no lane or wake-up is lost, nobody is overtaken, urgent waits end |
| router | an interactive and a background request, 3 targets, one shared lane, one sick target, thresholds 3 and 1, fair | 779,000 | lanes come back, outcomes are true, breakers judge right, runs end |
| payments | 2 payments, the control worker, the sync, 1 operator, 1 fault, fair | 513,000 | paid time is given, once, and follows the money; every payment is entered |
| interim_completes | smallest that shows it | | see section 6 |

Bounds: `MaxId` jobs are created, the clock stops at `MaxTime`, `MaxFaults`
crashes or lost replies happen, `Followed` are the updates whose acknowledgement
is recorded, `MaxEntries` entries are appended, `MaxOrders` orders given.
`Administered` are the jobs an operator restarts, cancels or deletes: all of an
instance, but in `journal` only the first of the two, whose fate the second meets;
users cancel either.
Two jobs are the fewest that compete for a lane, a key or the accelerator and
every property relates at most two; one job is enough where the property is
about one job against its own workers, batches and rows. Two ticks expire a
timeout of one and reach the worker that claims again; six are what an image
needs to age from 0 to the ceiling. One crash suffices to mix flushed and
unflushed rows; the second one meets the rows that the first recovery wrote.
Three requests are the fewest that hold the only lane, wait, and overtake; two
reloads remove a pool under its waiters and add it again beside the old cell.
Three messages are the fewest with which one turn runs, a second merges and a
third waits; two claims (`Tries`, three in the code) let a miss be tried again
and let the containment happen. Time does not pass in the dialog run; with two
ticks, so that jobs time out, one worker and one edit (4.5 million states) its
properties hold as well. `session` bounds retries, timeouts and
cancellations together, because the code does not bound retries over respawned
jobs (section 6); with a retry and a timeout (8.3 million states) the invariants
hold as well. Two parts are the fewest that have an order; one fault leaves an
attempt in doubt and one order retries or cancels it. Two processes are what a
lease is between; two entries make one update arrive twice or two arrive in
order. In `router` the two targets behind one lane are the fewest with which a
request is busy on one and goes on to the next; the thresholds 3 and 1 are the
first with which a failed probe of one workflow leaves the circuit half open and
a failed probe of the other opens it, and failures are counted up to the larger
(`MaxFails`). `journal` follows the drain of the buffer with two jobs of one key,
since one job can never be refused by the index. In `payments` the first payment
was missed five ticks ago, so that it can still be repaired at time 0 and is over
at time 1; one fault loses a message, a reply or the process; one order of an
operator comes between the reads and the write of a payment.
Workers are symmetric in the dialog run, whose properties are safety properties.
Deadlock is not checked: when the bounds are used up and all work has ended the
instance rightly stops.

Each property of a passing run has a mutant in its module (a comment says what
the mutant breaks) and is violated by it.

## 4. Fairness

`delivery` assumes that the outbox worker settles each batch and that the
maintenance pass scans and resolves: both are loops of their own tasks that only
shutdown ends, and an operation has a bounded number of attempts. No worker,
producer or user is assumed to do anything. `recovery` also assumes that the
sync worker starts a flush when something is dirty, that Postgres answers it,
and that a process that died is started again (the container's restart policy).
`journal` assumes the same of the journal alone. A flush is started with strong
fairness: barriers may hold the flush lock whenever the worker looks, but it
waits for a tokio mutex, which serves its waiters in turn (app task_queue.rs
137 and 162).
`lane_pool` assumes that a request that was sent a permit is polled or dropped,
that a drop once begun ends, and that an attempt ends, by its answer or its
connect, idle or total timeout.
`outbox` assumes that the loop of a worker takes its rounds and comes back to its
maintenance, and that a lease nobody renews expires by the clock.
`ingress` assumes the loops of materializers and workers, which only shutdown
ends, the supervisor that starts a materializer again, that entries grow idle
enough to be adopted, and that leases of the dead expire. Strong fairness is
assumed of the adoption alone: the scan that would adopt is repeated for ever,
and an entry only gets older.
`router` assumes that an attempt ends by its timeouts, that a free lane is handed
to who waits (`lane_pool` shows it) and that the budget of a wait runs out; a
background request may wait for as long as more urgent ones keep coming, which
`RunsEnd` says.
`session` assumes that a worker with a step takes it: its loop polls the queue,
and a turn ends by its deadline.
`payments` assumes of the sync alone that it takes its steps: its loop runs once
an interval for ever and every call in it ends or fails. Nothing is assumed of
the control worker, so the sync has to make up for it.
Nothing is assumed of faults except that there are finitely many.

## 5. Proofs

`TaskQueueProofs` proves about `QueueSpec`, for all sets of queues, lanes,
users, keys, messages, workers, requests, updates and callers and all bounds,
from `AgeStepAssumption`, `NilAssumption`, `QueueAssumption` and, for the last
one, `InputAssumption`:

| theorem | statement |
|---|---|
| `TypeCorrect` | `[]TypeOK` |
| `LaneIsExclusive` | `[]LaneExclusive` |
| `CancelIsFinal` | `CancelledIsFinal` |
| `NoJobIsStranded` | `[]ProcessingIsWorkedOn` |
| `WaitingIsOwned` | `DeliveryIsOwned` |
| `AgingIsFair` | `[](AgedWorkIsNotOvertaken /\ VipEscapes)` |
| `WorkIsNotWithheld` | `[]SomethingIsEligible` |
| `InputsOnlyGetNewer` | `NewestInputWins` |
| `InputsStayWithTheirJob` | `InputGetsNoSecondJob` |

The argument: the record operators keep their types (`ClaimedType` to
`RequeueAllType`), and every action is shown once to keep the type and to be a
`NoRevival` step unless it is a claim (`ProduceKeeps`, `WorkKeeps`,
`MaintainKeeps`, `ScanKeeps`). `NoRevival` says that a job that is running after
the step was running before it, in the same queue and lane, that one handed over
had been answered by its holder, and that a cancelled one is still cancelled.
Lane exclusion and finality then need no look at single actions: a `NoRevival`
step cannot break them, and a claim (`ClaimStep`) passed the lane gate.
`DeliveryIsOwned` needs `AnswersQueued`, that a worker that knows of an answer
holds a job whose batch exists, since the handover is a later step than the
batch; `WaitingHasAnswer` follows from it. `WaitStep` then shows of each method
that it leaves a waiting job alone or is one of the ways out that `EndsWait`
names: a retry, a completion or a failure reported by a worker that still holds
the job, or its cancellation or deletion, or the outbox. Aging is
arithmetic over `EffectivePriority`; `AgedPriority` bounds it.

That somebody is eligible is a fact about orders: a set of available jobs has a
best one in the order of a lane, and one in the order of the accelerator, because
both orders compare numbers, and ids last (`SomebodyIsBest`, over
`LeastNatural`). While nothing runs, the best accelerator job passes both gates,
and without accelerator work the best of all does (`BestIsEligible`).

`Logged` says once of every action of the queue what it may do to a record and
to the buffer: whatever changed is in the buffer as it is now, and a record keeps
its inputs, its updates and its queue. `NewestInputWins` is not inductive: a
record could hold a text newer than the newest schedule it applied, and then an
older schedule would pass the comparison. `Bounded` excludes it. For
`InputGetsNoSecondJob` the invariant is `InputsKnown`: a job with a key has it,
and its type and message, from an update it absorbed; a job that absorbed an edit
absorbed the message edited; and an edit on its way remembers a job whose key is
the one it saw, or none. So a schedule finds whoever has its update under its key
(`ScheduleSharesNothing`), and what an edit adds is either its own id, which only
a job of the same message can have, or a key that was lost
(`EditSharesNothing`). `InputAssumption` is what the callers guarantee: a message
arrives in one update (dialog_messages.rs 1217 schedules the update of the
incoming message), an edit is an update with an id of its own, and a debounce key
(dialog_debounce.rs 324) is used for one type of job.

`TaskJournalProofs` proves about `JournalSpec`, for the same constants and any
number of crashes and faults, from the same assumptions and `JournalAssumption`:

| theorem | statement |
|---|---|
| `JournalTypeCorrect` | `[](TypeOK /\ JournalTypeOK)` |
| `CleanJobsAreDurable` | `[]CleanIsDurable` |
| `ConfirmedInputsAreDurable` | `[]ConfirmedIsDurable` |
| `RecoveryAlwaysApplies` | `[]RecoveryApplies` |
| `NoJobIsLostInRestart` | `[]ProcessingIsWorkedOn` |

A record has up to four versions: its row, the one on its way, the one in the
buffer, the one in memory. `JournalInv` says that each covers the one before it
(`Covers`: no update is forgotten, unless the job is gone), that a batch that
was written is its rows (`FlightOK`), that the buffer holds an active job as it
is (`Buffered`), and that no row has an id that is still to be given out
(`RowsFollow`). Steps of the queue need no look of their own: they are `Logged`
(`LoggedKeeps`). `CleanIsDurable` alone is not inductive, since a flush marks a
record clean by comparing it with what it cloned before: only a batch that was
written may be marked. `ConfirmedIsDurable` needs `Covers`, because an older
batch can be written after a newer one was confirmed only if it holds the update
too. For recovery, `KeyKept` says that a job which is requeued with its key met no
pending job and no earlier requeued one under that key; the rows the index could
refuse it for are just those, and are all in the table that startup loaded
(`RecoveryPasses`). At a restart nobody
holds a job (`Asleep`), and `RecoveredWork` shows that what is left in Processing
is an agent's.

`LanePoolProofs` proves about `LaneSpec`, for every finite set of requests, all
priorities and widths and any number of cells and reloads, from `LaneAssumption`
alone:

| theorem | statement |
|---|---|
| `NoLaneIsLost` | `[]NoLaneLeaks` |
| `NoWakeUpIsLost` | `[](NobodyIsForgotten /\ NobodyWaitsInVain)` |
| `WidthIsKept` | `WidthHolds` |
| `LanesGoInOrder` | `NobodyOvertakes` |

`LaneInv` is the inductive invariant. `QueueOK` (an entry belongs to a request of
that cell which waits or is leaving) is what makes a pop affect nobody else, and
`Numbered` makes a new cell new. `Enqueue` needs `NobodyWaitsInVain`: a request
that could not enter found either a full pool or a queue, and a queue means a
full pool. `ServeKeeps` shows once that serving keeps the queue's order, since
the served ones come before the others; `ServeStep` counts the lanes, which is
the same count for a release, a lost handoff and a resize.

`UpdateIngressProofs` proves about `IngressSpec`, for all sets of updates, lanes,
workers and processes and any number of entries and faults, from `NilIsNoRow`
and the assumptions of the bounds:

| theorem | statement |
|---|---|
| `TypeCorrect` | `[]IngressTypeOK` |
| `LanesHaveHeads` | `[]HeadsAreOpen` |
| `LanesHaveOneOwner` | `[]OneOwnerPerLane` |
| `IngressKeepsAll` | `[]NothingIsLost` |
| `EndsAreFinal` | `TerminalIsFinal` |
| `LanesKeepOrder` | `LaneOrder` |

`IngressInv` has two halves. That of the inbox, `InboxInv`, adds to the types and
`HeadsAreOpen` that a row in processing is the head of its lane
(`ProcessingIsHead`) and that no worker holds a token newer than the row's
(`TokensFence`): two owners of one lane would both work on its head, with the
token the head has now, and a token is taken once. That of the stream adds to
`NothingIsLost` that what a materializer is about to acknowledge has a row or is
in quarantine (`AckIsBacked`), which nothing undoes.

Order needs a third, `OrderInv`, which speaks of a run in which no lease ran out
under its owner (`overtaken`). Then one materializer runs, and nothing in the
stream before an entry it holds is left behind: it is held too, or deleted
(`MatsInLine`). This is why a new owner has to adopt the whole pending list
before it reads a new entry. A row therefore stands at the first place its update
has in the stream, and all before that place is in safe hands (`RowsInOrder`),
so the head of a lane is the first of its open rows (`HeadsAreFirst`).
`HowRowsMove` says of every step of a worker that rows keep their places and that
at most one ends, the head of its lane. If an update ended before an earlier one
of its lane, it would have been the head while the earlier one had no row or an
open row: the first contradicts `RowsInOrder`, the second `HeadsAreFirst`.

`RouterProofs` proves about `RouterSpec`, for any requests, targets, pools and
widths, and without asking anything of the chains the selection draws, from
`RouterAssumption` and `NilIsNoOutcome`:

| theorem | statement |
|---|---|
| `NoLaneIsKept` | `[]LanesAreReturned` |
| `OutcomesAreTrue` | `[]OutcomeIsTrue` |
| `HealthyStayLive` | `[]HealthyIsNotExiled` |
| `ThresholdsDecide` | `[]CircuitsAreJustified` |

`Sincere` relates what a run reports to what it attempted at each of its places;
one lemma for each way on or out (`OnwardsIsSincere`, `EndsIsSincere`,
`ConcludedIsSincere`) makes the actions short. The breaker theorems rest on
`ChargedIsJustified`, a failure reported under any one of the thresholds leaves a
circuit justified, and on the rule of the code about which failures are reported
(`Charges` and the slice): `HealthyStayLive` assumes of a healthy provider that
it answers and does so within the slice, and nothing of what it answers, of the
prompts it gets, or of the time other targets have used up.

`TelegramOutboxProofs` proves about `OutboxSpec`, for every finite set of
operations, all batches, keys and policies, any workers, faults and orders, from
`OutboxAssumption`, which says that part indexes are unique within a batch (the
unique constraint of migration 163, line 162) and that a reaction is a batch of
its own:

| theorem | statement |
|---|---|
| `TypeCorrect` | `[]OutboxTypeOK` |
| `PartsAreNotStranded` | `[]NoPartIsStranded` |
| `ResendingIsSafe` | `[]ResendIsSafe` |
| `PartsAppearInOrder` | `[]PostedInOrder` |
| `PromiseIsKept` | `KeepsPromise`: the outbox implements `DeliveryPromise` |

`OutboxInv` is the inductive invariant. `OrderInv` is about a batch: it becomes
visible as a whole, what was leased came after what was delivered, and what a
manual retry would give back is a run without a gap (`RestorableTogether`);
without the last one a retry could restore a part behind one that stays
cancelled. `MoneyInv` bounds, for each message that must not be sent twice, the
requests posted or under way by the permissions given, by one less while the
message can be sent without a new one (`Fresh`). `TaskInv` is what a task knows
of the operation it leased, through the fence of its token: above all, that an
attempt it saw refused is not on its way (`Knows`). The steps are shown from the
rows: `RowSteps` lists how one row may move, `RowKeepsPromise` shows once that
each such move is a step of the promise about that message and keeps its budget,
and each action is reduced to it (`EndingStep`, `KeptStep`, `QuietStep`); only
the three actions that touch the network (`StartRequest`, `Accept`, `Answer`)
count requests, by `Sent`, `Taken` and `Refused`.

`PaymentsProofs` proves about `PaymentsSpec`, for every finite set of charges, any
operators, period, gifts and pasts, and any number of ticks, faults and orders,
from `PaymentsAssumption`:

| theorem | statement |
|---|---|
| `TypeCorrect` | `[]PaymentsTypeOK` |
| `TimeIsGivenOnce` | `[]PaidTimeIsGiven` |
| `LedgerFollowsMoney` | `[]TimeFollowsMoney` |

`PaymentsInv` says of each process what its charge is entitled to (`Placed`) and
what the numbers it carries are good for until something is taken (`Aims`): a
goal reaches the end of the period and exceeds the end of VIP by no more than the
period and the delay, and so does a difference. For the sync that is
`StartIsReached`, a subscription is expected to start no later than VIP ends, and
`UncoveredBound`, no more can be missing than time has passed. Both promises
survive any event that gives, because without a taking the end of VIP only rises
(`Rising`), so `NewEventKeeps` need not know who wrote.

`DialogSessionProofs` proves about `SessionSpec`, for every finite set of messages
and of workers, any senders, claims and attempts and any number of faults, from
`SessionAssumption` and `NilIsNoSession` (no session is the `None` of its slot):

| theorem | statement |
|---|---|
| `OwnTextOnlyHolds` | `[]OwnTextOnly` |
| `TurnsAreSerialHolds` | `[]TurnsAreSerial` |
| `MessagesAreCarriedOnceHolds` | `[]MessagesAreCarriedOnce` |

`SessionInv` says what a worker may rely on at each of its places (`Placed`): the
registry hands a session out by job, the worker fills it by inbox, and both may
have changed hands in between. What holds nevertheless is that an inbox is one
user's for good, whoever is about to fill it (`InboxesAreOnesOwn`), that a slot is
owned by the worker of its job (`SlotIsOwned`), and that a turn runs without an inbox only for one of the
reasons `TurnsAreSerial` names (`OutsiderHasReason`). `CarryInv` counts. `Holds`
names every place a message can wait in: a job, a worker's hands at a place of
its round, an inbox, a parking lot, a list still to be respawned. The invariant
says of each unsettled message that it has such a place, and without a time-out
only one, and that a turn which took messages in and completed leaves them in its
inbox until it is sealed (`Spent`). An action either leaves the places of a
message alone (`Untouched`), or moves it from one to another (`Moved`,
`Shifted`, `HandedTo`); that the four sets of `Carriers` then have one element
between them is finite arithmetic, done once at the end.

Every safety property a run checks is a theorem. Only model-checked: the liveness
properties (`DeliveryEnds`, `DurableDeliveryEnds`, `BufferDrains`, `EverybodyIsHeard`,
`OutboxDrains`, `BacklogDrains`, `UrgentWaitEnds`, `RunsEnd`,
`PaymentsAreEntered`): liveness under fairness is out of this prover's reach.
`CancelledIsFinal` and `WidthHolds` are proved for every instance and have no run
any more; so are the type invariants.

## 6. What the code does and its documents deny

One run expects a violation: it checks a statement of the repository.

* `interim_completes`: an intermediate message of a dialog turn is a batch of
  the turn's job, and its delivery completes the job while the turn still runs;
  the lane is then free and a second worker claims the next job of the same chat
  and thread. The run shows the two claims, against the lane lock of
  docs/CODEBASE_MAP.md:480. It does not show two turns at once: the session
  registry, the second line of defence, answers the second worker Busy, and its
  message is merged or parked (dialog_jobs/worker.rs 255-319, `DialogSession`).

Observed while modelling, without a run of their own:

* taskman: the limit of active jobs is counted under one lock and the job
  assigned under another; the barrier of a job that took over a key is refused
  while the claim of its predecessor is not flushed; ids given out and not
  flushed before a crash are given out again. A retried dialog job becomes pending
  with a debounce key that another pending job may own by now: timeouts and
  startup clear the key, the retry does not, and the unique index of migration
  165 refuses the flush although `T` 1094 replaces atomically. The buffer is written as a
  whole, so nothing of it is written while both jobs are pending: `BufferDrains`
  names this one exception, and without it the property is false in `journal`. An edit that
  looked its job up before a time-out took the job's key can give the key back
  (`update_pending_schedule` writes the key it read): when the job's update was
  replayed in between and absorbed by the next job of the key, two pending jobs
  have one key and one update. "An update is the work of one job of its key" is
  therefore false of the code, and `InputGetsNoSecondJob` names this one way.
* session: `release` seals the inbox after it gave the registry's lock back,
  although inbox.rs:205-207 says "under the registry lock"; nothing is lost by
  it, since what slips in between is among the leftovers (`MessagesAreCarriedOnce`).
  A retried job is requeued before its session is released, so it can be claimed
  again at once, run beside its own registration and, after the release, beside
  another session; `TurnsAreSerial` names this exception to "one active session
  per chat-thread". A parked or respawned turn is a fresh job, so its retries
  are counted from zero: two turns that keep failing can park and respawn each
  other without end, which is why the run bounds retries over all jobs. The
  follow-up turn is that of the message merged last, not of the newest one.
* debounce: `arm_timer` says "Returns false when a newer schedule won the key"
  but returns false for a replayed update too; after a refused durability
  barrier the entry of the key is never released and the rate limit of the chat
  does not see the job.
* outbox: a cancellation that waits for the row a manual retry has locked looks
  for later parts in its older snapshot (READ COMMITTED) and leaves those the
  retry restored, which then block their chat.
* ingress: a claim locks its candidate by asking whether it is still the head of
  its lane, not whether its lease is free; two claiming processes can both claim
  it. One process claims for one worker at a time and cannot. The fence of the
  writes lets only the later claim report (`OneOwnerPerLane`).
* router: a disengaged overflow target is still a candidate of the last resort
  and is tried there with its circuit open; breaker.rs:75-77 speaks of exactly
  one probe, but an elapsed cooldown counts as live for everybody until one of
  them reports, and workflows with different thresholds share a circuit: a probe
  that fails under the larger one does not open it again, so it stays half open
  to all until one fails under the smaller (`CircuitsAreJustified`); whether a target was live is read before a long wait for its
  lane; and a later pass that finds no candidates hides the error of an earlier
  attempt.
* payments: the sync never looks whether a charge was refunded, so a payment
  refunded before it was entered gets its time from the next sync. A reversal
  takes thirty days whatever the payment had given; a second payment made while
  the first runs adds only what lies beyond the end. Revoked time still counts as
  covered for the sync. When the reply to a refund is lost, or the mark fails,
  Telegram refuses the second attempt and the row and the time stay, while the
  operator reads that nothing was cancelled. A revocation between the look and
  the entry of a payment leaves the payment short (`PaidTimeIsKept` counts from
  what its writer had seen). payments.rs 1594-1601 speaks of a redelivery after
  failed flushes, but the update is acknowledged all the same: a subscription is
  repaired by the sync, a donation is not.

## 7. Plan

Done: `TaskRecords`, `TaskQueue`, `TaskJournal`, `LanePool`, `TelegramOutbox`
with `DeliveryPromise`, `UpdateInbox`, `UpdateIngress`, `Router`,
`DialogSession`, `Payments`; proofs about `TaskQueue`, `TaskJournal`, `LanePool`,
`UpdateIngress`, `Router`, `Payments`, `DialogSession` and `TelegramOutbox` with
its refinement.

1. The composition of `DialogSession` with the lane lock of `TaskQueue`.
2. Dispatcher and rate limits, the other control jobs.

## 8. Not modelled

The map covers a small share of the repository's lines, and would with every
protocol of it modelled. Most of its 327,000 lines are handlers that format,
parse and call one service after another (app lib.rs, most of payments.rs,
image_jobs.rs, dialog_tools.rs), provider adapters (aifarm.rs, gemini.rs), SQL text with its row
mapping (storage lib.rs), prompts, admin screens and tests. They keep no state
between two steps but what they hand to the queue, the journal, the outbox or the
router, and those are modelled.

Within the modelled parts:

* taskman: display and statistics of the queue; text of messages; media; the
  `job_messages` rows beyond "a placeholder is attached"; history rows; admin
  requests that start from a row the queue no longer remembers.
  `dequeue_or_adopt_agent` and `checkpoint_agent_state` are modelled although at
  this commit only tests call them.
* session: a crash, which loses the registry by design (inbox.rs:10-14); the
  contents of the transcript.
* outbox: stored blobs, statistics, retention, a worker of the wrong bot.
* ingress: staged projections, startup reconciliation and the rebuild of lanes,
  the deletion of old rows, passive updates, the paging of XAUTOCLAIM, a lost
  reply to the acknowledgement (it repeats what is done).
* router: the breaker of the embedder, reloads of the routing table, wait
  forecasts, the cooldowns of OpenRouter keys.
* payments: donations, which give no time; invoices and checkout; the end of a
  renewal (`mark_subscription_canceled`), which leaves the time alone; the cache
  of the VIP status; other users.

The rest is listed in `PROJECT.json` with reasons.
