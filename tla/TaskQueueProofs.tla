-------------------------- MODULE TaskQueueProofs --------------------------
(***************************************************************************)
(* Theorems about TaskQueue, for every set of queues, workers, users, keys *)
(* and requests and for every bound.                                       *)
(***************************************************************************)
EXTENDS TaskQueue, FiniteSetTheorems, WellFoundedInduction, TLAPS

-----------------------------------------------------------------------------
(* The record operators keep the type and say what they change.            *)

LEMMA ClaimedType ==
  ASSUME NEW r \in Records, NEW w \in WorkerIds, NEW t \in Nat
  PROVE  /\ Claimed(r, w, t) \in Records
         /\ Claimed(r, w, t).status = "Processing"
         /\ Claimed(r, w, t).queue = r.queue
         /\ Claimed(r, w, t).job = r.job
  BY DEF Claimed, Records, Statuses, ActiveStatuses, TerminalStatuses

LEMMA BackToPendingType ==
  ASSUME NEW r \in Records
  PROVE  /\ BackToPending(r) \in Records
         /\ BackToPending(r).status = "Pending"
  BY DEF BackToPending, Records, Statuses, ActiveStatuses, TerminalStatuses

LEMMA MarkTerminalType ==
  ASSUME NEW r \in Records, NEW s \in TerminalStatuses, NEW t \in Nat
  PROVE  /\ MarkTerminal(r, s, t) \in Records
         /\ MarkTerminal(r, s, t).status = s
  <1>1. s \in Statuses
    BY DEF Statuses
  <1>2. [r EXCEPT !.status = s] \in Records /\ [r EXCEPT !.status = s].status = s
    BY <1>1 DEF Records
  <1>3. MarkTerminal(r, s, t) = [[r EXCEPT !.status = s] EXCEPT !.completed_at = t]
    BY DEF MarkTerminal, Records
  <1> QED BY <1>2, <1>3 DEF Records

LEMMA ApplyScheduleType ==
  ASSUME NEW r \in Records, NEW s,
         s \in [job : Jobs, key : Keys \cup {Nil}, available_at : Nat,
                sources : SUBSET Nat, latest : Nat, inputs : [Msgs -> Nat]]
  PROVE  /\ ApplySchedule(r, s) \in Records
         /\ ApplySchedule(r, s).status = r.status
         /\ ApplySchedule(r, s).queue = r.queue
  <1> DEFINE merged == [r EXCEPT !.source_update_ids = @ \cup s.sources]
             inputs == [m \in Msgs |-> IF s.inputs[m] # 0 THEN s.inputs[m]
                                       ELSE merged.pending_dialog_inputs[m]]
             newer == [merged EXCEPT !.pending_dialog_inputs = inputs,
                         !.job = s.job, !.available_at = s.available_at,
                         !.debounce_key = s.key, !.latest_update_id = s.latest]
  <1>1. /\ merged \in Records
        /\ merged.status = r.status
        /\ merged.queue = r.queue
    BY DEF Records
  <1>2. inputs \in [Msgs -> Nat]
    BY <1>1 DEF Records
  <1> HIDE DEF inputs, merged
  <1>3. /\ newer \in Records
        /\ newer.status = r.status
        /\ newer.queue = r.queue
    <2>1. /\ merged \in Records /\ merged.status = r.status /\ merged.queue = r.queue
          /\ s.job \in Jobs /\ s.available_at \in Nat /\ s.key \in Keys \cup {Nil}
          /\ s.latest \in Nat
      BY <1>1
    <2> DEFINE taken == [merged EXCEPT !.pending_dialog_inputs = inputs]
               first == [taken EXCEPT !.job = s.job]
    <2>0. taken \in Records /\ taken.status = r.status /\ taken.queue = r.queue
      BY <1>2, <2>1 DEF Records
    <2>10. newer = [[taken EXCEPT !.job = s.job] EXCEPT !.available_at = s.available_at,
                        !.debounce_key = s.key, !.latest_update_id = s.latest]
      BY <2>1 DEF Records
    <2> HIDE DEF taken, newer
    <2>2. first \in Records /\ first.status = r.status /\ first.queue = r.queue
      BY <2>0, <2>1 DEF Records
    <2>3. newer = [first EXCEPT !.available_at = s.available_at,
                                !.debounce_key = s.key, !.latest_update_id = s.latest]
      BY <2>10
    <2> HIDE DEF first
    <2> DEFINE second == [first EXCEPT !.available_at = s.available_at]
               third == [second EXCEPT !.debounce_key = s.key]
    <2>4. second \in Records /\ second.status = r.status /\ second.queue = r.queue
      BY <2>1, <2>2 DEF Records
    <2>5. newer = [[second EXCEPT !.debounce_key = s.key] EXCEPT !.latest_update_id = s.latest]
      BY <2>2, <2>3 DEF Records
    <2> HIDE DEF second
    <2>6. third \in Records /\ third.status = r.status /\ third.queue = r.queue
      BY <2>1, <2>4 DEF Records
    <2>7. newer = [third EXCEPT !.latest_update_id = s.latest]
      BY <2>5
    <2> HIDE DEF third
    <2>8. newer \in Records
      BY <2>1, <2>6, <2>7 DEF Records
    <2>9. newer.status = r.status /\ newer.queue = r.queue
      BY <2>6, <2>7 DEF Records
    <2> QED BY <2>8, <2>9
  <1>4. ApplySchedule(r, s) = IF ScheduleIsNewer(r.latest_update_id, s.latest)
                              THEN newer ELSE merged
    BY DEF ApplySchedule, inputs, merged
  <1> HIDE DEF newer
  <1> QED BY <1>1, <1>3, <1>4

LEMMA CheckpointedType ==
  ASSUME NEW r \in Records, NEW n \in Nat \cup {Nil}, NEW s,
         s = [r EXCEPT !.resume_count = n]
  PROVE  s \in Records /\ s.status = r.status /\ s.queue = r.queue /\ s.job = r.job
  BY DEF Records

LEMMA ProgressType ==
  ASSUME NEW r \in Records, NEW t \in Nat, NEW b \in BOOLEAN
  PROVE  \A s \in {[r EXCEPT !.execution_started_at = t], [r EXCEPT !.placeholder = b]} :
           s \in Records /\ s.status = r.status /\ s.queue = r.queue /\ s.job = r.job
  <1>1. /\ [r EXCEPT !.execution_started_at = t] \in Records
        /\ [r EXCEPT !.placeholder = b] \in Records
    BY DEF Records
  <1> QED BY <1>1 DEF Records

LEMMA HandoverType ==
  ASSUME NEW r \in Records
  PROVE  [r EXCEPT !.status = "WaitingDelivery", !.worker_id = Nil] \in Records
  BY DEF Records, Statuses, ActiveStatuses

LEMMA NewRecordType ==
  ASSUME NEW q \in Queues, NEW job \in Jobs, NEW at \in Nat,
         NEW key \in Keys \cup {Nil}, NEW sources \in SUBSET Nat,
         NEW latest \in Nat, NEW inputs \in [Msgs -> Nat]
  PROVE  /\ NewRecord(q, job, at, key, sources, latest, inputs) \in Records
         /\ NewRecord(q, job, at, key, sources, latest, inputs).status = "Pending"
  BY DEF NewRecord, Records, Statuses, ActiveStatuses

LEMMA RequeueAllType ==
  ASSUME NEW t, t \in [DOMAIN t -> Records], NEW S \in SUBSET DOMAIN t
  PROVE  /\ RequeueAll(t, S) \in [DOMAIN t -> Records]
         /\ \A i \in DOMAIN t \ S : RequeueAll(t, S)[i] = t[i]
         /\ \A i \in S : RequeueAll(t, S)[i].status = "Pending"
  <1>1. \A r \in Records : [r EXCEPT !.debounce_key = Nil] \in Records
    BY DEF Records
  <1>2. \A i \in S : t[i] \in Records
    OBVIOUS
  <1>3. ASSUME NEW i \in DOMAIN t
        PROVE  /\ i \in S => /\ RequeueAll(t, S)[i] \in Records
                             /\ RequeueAll(t, S)[i].status = "Pending"
               /\ i \notin S => RequeueAll(t, S)[i] = t[i]
    <2> DEFINE owned == \E j \in DOMAIN t \ {i} :
                          /\ SameDebounce(t[i], t[j])
                          /\ t[j].status = "Pending" \/ (j \in S /\ j < i)
               key == IF owned THEN [t[i] EXCEPT !.debounce_key = Nil] ELSE t[i]
    <2>1. RequeueAll(t, S)[i] = IF i \notin S THEN t[i] ELSE BackToPending(key)
      BY DEF RequeueAll
    <2>2. key \in Records
      BY <1>1
    <2> HIDE DEF key
    <2> QED BY <2>1, <2>2, BackToPendingType
  <1>4. RequeueAll(t, S) = [i \in DOMAIN t |-> RequeueAll(t, S)[i]]
    BY DEF RequeueAll
  <1> QED BY <1>3, <1>4

-----------------------------------------------------------------------------
(* The table and the journal buffer under the two ways a method writes them. *)

TableOK ==
  /\ next_id \in Nat \ {0}
  /\ Ids \subseteq 1 .. next_id - 1
  /\ jobs \in [Ids -> Records]
  /\ DOMAIN dirty \subseteq 1 .. next_id - 1
  /\ dirty \in [DOMAIN dirty -> Records \cup {Deleted}]

LEMMA CommitType ==
  ASSUME TableOK, NEW table, DOMAIN table = Ids, table \in [Ids -> Records],
         NEW touched \in SUBSET Ids, Commit(table, touched), UNCHANGED next_id
  PROVE  TableOK' /\ jobs' = table
  <1>1. jobs' = table /\ DOMAIN dirty' = touched \cup DOMAIN dirty
    BY DEF Commit
  <1>2. dirty' \in [DOMAIN dirty' -> Records \cup {Deleted}]
    BY DEF Commit, TableOK
  <1> QED BY <1>1, <1>2 DEF TableOK, Ids

LEMMA UpdateType ==
  ASSUME TableOK, NEW i \in Ids, NEW r \in Records, Update(i, r), UNCHANGED next_id
  PROVE  /\ TableOK'
         /\ jobs' = [jobs EXCEPT ![i] = r]
  <1> DEFINE table == [jobs EXCEPT ![i] = r]
  <1>1. DOMAIN table = Ids /\ table \in [Ids -> Records] /\ {i} \in SUBSET Ids
    BY DEF TableOK, Ids
  <1>2. Commit(table, {i})
    BY DEF Update
  <1> HIDE DEF table
  <1>3. TableOK' /\ jobs' = table
    BY <1>1, <1>2, CommitType
  <1> QED BY <1>3 DEF table

LEMMA PushType ==
  ASSUME TableOK, NEW r \in Records, Push(r)
  PROVE  /\ TableOK'
         /\ next_id' = next_id + 1
         /\ next_id \notin Ids
         /\ jobs' = [i \in Ids \cup {next_id} |-> IF i = next_id THEN r ELSE jobs[i]]
  <1>1. /\ jobs' = [i \in Ids \cup {next_id} |-> IF i = next_id THEN r ELSE jobs[i]]
        /\ next_id' = next_id + 1
        /\ DOMAIN dirty' = {next_id} \cup DOMAIN dirty
        /\ next_id \notin Ids
    BY DEF Push, Commit, TableOK
  <1>2. dirty' \in [DOMAIN dirty' -> Records \cup {Deleted}]
    BY DEF Push, Commit, TableOK
  <1>3. jobs' \in [Ids' -> Records]
    BY <1>1 DEF TableOK, Ids
  <1> QED BY <1>1, <1>2, <1>3 DEF TableOK, Ids

-----------------------------------------------------------------------------
(* Type correctness.  NoRevival is what every action but Dequeue keeps: a job *)
(* that runs after the step ran before it, in the same queue and lane, a job  *)
(* handed to the outbox was answered, and a cancelled job stays cancelled.    *)

ClaimOK == /\ held \in [WorkerIds -> (1 .. next_id - 1) \cup {Nil}]
           /\ answered \subseteq WorkerIds
CallOK == call \in [Callers -> Calls]
OutboxOK ==
  /\ DOMAIN batches \subseteq Nat \X {"answer", "interim"}
  /\ batches \in [DOMAIN batches -> {"sending", "delivered", "dead"}]
  /\ resolving \subseteq {b \in DOMAIN batches : batches[b] # "sending"}

NoRevival ==
  /\ \A i \in Ids' : Running(jobs'[i]) =>
       /\ i \in Ids
       /\ Running(jobs[i])
       /\ jobs'[i].queue = jobs[i].queue
       /\ jobs'[i].job = jobs[i].job
       /\ jobs'[i].status = "Processing" => jobs'[i].worker_id = jobs[i].worker_id
       /\ \/ jobs'[i].status = jobs[i].status
          \/ jobs'[i].status = "WaitingDelivery" /\ \E w \in answered : held[w] = i
  /\ \A i \in Ids \cap Ids' :
       jobs[i].status = "Cancelled" => jobs'[i].status = "Cancelled"

LEMMA TypeOKParts ==
  TypeOK <=> TableOK /\ ClaimOK /\ CallOK /\ OutboxOK /\ now \in Nat
  BY DEF TypeOK, TableOK, ClaimOK, CallOK, OutboxOK

LEMMA OthersUnchanged ==
  ASSUME TypeOK, next_id' = next_id \/ next_id' = next_id + 1
  PROVE  /\ UNCHANGED claimVars => ClaimOK'
         /\ UNCHANGED call => CallOK'
         /\ UNCHANGED outboxVars => OutboxOK'
  <1>1. 1 .. next_id - 1 \subseteq 1 .. next_id' - 1
    BY DEF TypeOK
  <1>2. UNCHANGED claimVars => ClaimOK'
    BY <1>1 DEF TypeOK, ClaimOK, claimVars
  <1>3. UNCHANGED call => CallOK'
    BY DEF TypeOK, CallOK
  <1>4. UNCHANGED outboxVars => OutboxOK'
    BY <1>1 DEF TypeOK, OutboxOK, outboxVars
  <1> QED BY <1>2, <1>3, <1>4

LEMMA UnchangedTable ==
  ASSUME TypeOK, UNCHANGED <<jobs, next_id, dirty>>
  PROVE  TableOK' /\ NoRevival
  BY DEF TypeOK, TableOK, NoRevival, Ids

LEMMA PushKeeps ==
  ASSUME TypeOK, NEW r \in Records, r.status = "Pending", Push(r)
  PROVE  TableOK' /\ NoRevival /\ next_id' = next_id + 1
  <1>1. TableOK
    BY TypeOKParts
  <1>2. /\ TableOK'
        /\ next_id' = next_id + 1
        /\ next_id \notin Ids
        /\ jobs' = [i \in Ids \cup {next_id} |-> IF i = next_id THEN r ELSE jobs[i]]
    BY <1>1, PushType
  <1>3. NoRevival
    BY <1>2 DEF NoRevival, Ids, Running
  <1> QED BY <1>2, <1>3

LEMMA UpdateKeeps ==
  ASSUME TypeOK, NEW i \in Ids, NEW r \in Records, Update(i, r), UNCHANGED next_id,
         Running(r) => /\ Running(jobs[i])
                       /\ r.queue = jobs[i].queue
                       /\ r.job = jobs[i].job
                       /\ r.status = "Processing" => r.worker_id = jobs[i].worker_id
                       /\ \/ r.status = jobs[i].status
                          \/ /\ r.status = "WaitingDelivery"
                             /\ \E w \in answered : held[w] = i,
         jobs[i].status = "Cancelled" => r.status = "Cancelled"
  PROVE  TableOK' /\ NoRevival
  <1>1. TableOK
    BY TypeOKParts
  <1>2. TableOK' /\ jobs' = [jobs EXCEPT ![i] = r]
    BY <1>1, UpdateType
  <1>3. NoRevival
    BY <1>2 DEF NoRevival, Ids
  <1> QED BY <1>2, <1>3

LEMMA ManyKeep ==
  ASSUME TypeOK, NEW S \in SUBSET Ids, NEW table, DOMAIN table = Ids,
         table \in [Ids -> Records], Commit(table, S), UNCHANGED next_id,
         \A i \in Ids \ S : table[i] = jobs[i],
         \A i \in S : ~ Running(table[i]),
         \A i \in S : jobs[i].status = "Cancelled" => table[i].status = "Cancelled"
  PROVE  TableOK' /\ NoRevival
  <1>1. TableOK
    BY TypeOKParts
  <1>2. TableOK' /\ jobs' = table
    BY <1>1, CommitType
  <1>3. NoRevival
    BY <1>2 DEF NoRevival, Ids
  <1> QED BY <1>2, <1>3

LEMMA FinalizeKeeps ==
  ASSUME TypeOK, NEW i \in Ids, NEW status \in TerminalStatuses,
         Finalize(i, status), UNCHANGED next_id
  PROVE  TableOK' /\ NoRevival
  <1>1. jobs[i] \in Records /\ now \in Nat
    BY DEF TypeOK
  <1>2. CASE /\ Update(i, MarkTerminal(jobs[i], status, now))
             /\ jobs[i].status # "Cancelled" \/ status = "Cancelled"
    <2>1. /\ MarkTerminal(jobs[i], status, now) \in Records
          /\ MarkTerminal(jobs[i], status, now).status = status
          /\ ~ Running(MarkTerminal(jobs[i], status, now))
      BY <1>1, MarkTerminalType DEF Running, TerminalStatuses
    <2> QED BY <1>2, <2>1, UpdateKeeps
  <1>3. CASE UNCHANGED <<jobs, dirty>>
    BY <1>3, UnchangedTable
  <1> QED BY <1>2, <1>3 DEF Finalize

LEMMA InputFromType ==
  ASSUME NEW m \in Msgs, NEW u \in Nat
  PROVE  InputFrom(m, u) \in [Msgs -> Nat] /\ NoInputs \in [Msgs -> Nat]
  BY DEF InputFrom, NoInputs

LEMMA JobOfType ==
  ASSUME NEW q \in AnyRequest, NEW m \in Msgs \cup {Nil}, now \in Nat
  PROVE  JobOf(q, m) \in Jobs
  BY DEF JobOf, AnyRequest, Jobs

-----------------------------------------------------------------------------
(* One lemma for each group of actions.                                      *)

LEMMA ProduceKeeps ==
  ASSUME TypeOK, Produce
  PROVE  TypeOK' /\ NoRevival
  <1>0. now \in Nat /\ call \in [Callers -> Calls] /\ jobs \in [Ids -> Records]
    BY DEF TypeOK
  <1> DEFINE fresh(q, m) == NewRecord(q.queue, JobOf(q, m), 0, Nil, {}, 0, NoInputs)
  <1>f. ASSUME NEW q \in AnyRequest
        PROVE  fresh(q, Nil) \in Records /\ fresh(q, Nil).status = "Pending"
    <2>1. q.queue \in Queues /\ NoInputs \in [Msgs -> Nat]
      BY DEF AnyRequest, NoInputs
    <2>2. JobOf(q, Nil) \in Jobs
      BY <1>0, JobOfType
    <2> QED BY <2>1, <2>2, NewRecordType
  <1>1. ASSUME NEW q \in Requests, Assign(q)
        PROVE  TypeOK' /\ NoRevival
    <2>1. q \in AnyRequest
      BY QueueAssumption
    <2>2. TableOK' /\ NoRevival /\ next_id' = next_id + 1
      BY <1>1, <1>f, <2>1, PushKeeps DEF Assign
    <2> QED BY <1>0, <1>1, <2>2, OthersUnchanged, TypeOKParts DEF Assign, TypeOK, TableOK, ClaimOK, CallOK, OutboxOK
  <1>2. ASSUME NEW c \in Callers, NEW q \in Limited, CountForLimit(c, q)
        PROVE  TypeOK' /\ NoRevival
    <2>1. TableOK' /\ NoRevival
      BY <1>2, UnchangedTable DEF CountForLimit
    <2>2. CallOK'
      BY <1>0, <1>2 DEF CountForLimit, CallOK, Calls
    <2>3. ClaimOK' /\ OutboxOK' /\ now' = now
      BY <1>2, OthersUnchanged DEF CountForLimit
    <2> QED BY <1>0, <2>1, <2>2, <2>3 DEF TypeOK, TableOK, ClaimOK, CallOK, OutboxOK
  <1>3. ASSUME NEW c \in Callers, AssignLimited(c)
        PROVE  TypeOK' /\ NoRevival
    <2>1. call[c].request \in AnyRequest
      BY <1>0, <1>3, QueueAssumption DEF AssignLimited, Calls, NoCall
    <2>2. TableOK' /\ NoRevival /\ next_id' = next_id + 1
      BY <1>3, <1>f, <2>1, PushKeeps DEF AssignLimited
    <2>3. CallOK'
      BY <1>0, <1>3 DEF AssignLimited, CallOK, Calls
    <2>4. ClaimOK' /\ OutboxOK' /\ now' = now
      BY <1>3, <2>2, OthersUnchanged DEF AssignLimited
    <2> QED BY <1>0, <2>2, <2>3, <2>4 DEF TypeOK, TableOK, ClaimOK, CallOK, OutboxOK
  <1>4. ASSUME NEW u \in Updates, ScheduleOrReplace(u)
        PROVE  TypeOK' /\ NoRevival
    <2> DEFINE sch == ScheduleOf(u)
    <2>1. /\ u.request \in AnyRequest /\ u.msg \in Msgs /\ u.id \in Nat /\ u.key \in Keys
          /\ DebounceDelay \in Nat
      BY QueueAssumption
    <2>2. sch \in [job : Jobs, key : Keys \cup {Nil}, available_at : Nat,
                   sources : SUBSET Nat, latest : Nat, inputs : [Msgs -> Nat]]
      <3>1. JobOf(u.request, u.msg) \in Jobs
        BY <1>0, <2>1, JobOfType
      <3>2. InputFrom(u.msg, u.id) \in [Msgs -> Nat]
        BY <2>1, InputFromType
      <3> QED BY <1>0, <2>1, <3>1, <3>2 DEF ScheduleOf
    <2> HIDE DEF sch
    <2> DEFINE new == NewRecord(u.request.queue, sch.job, sch.available_at, sch.key,
                                sch.sources, sch.latest, sch.inputs)
    <2>3. CASE Push(new)
      <3>1. u.request.queue \in Queues
        BY <2>1 DEF AnyRequest
      <3>2. new \in Records /\ new.status = "Pending"
        BY <2>2, <3>1, NewRecordType
      <3> HIDE DEF new
      <3>3. TableOK' /\ NoRevival /\ next_id' = next_id + 1
        BY <2>3, <3>2, PushKeeps
      <3>4. ClaimOK' /\ CallOK' /\ OutboxOK' /\ now' = now
        BY <1>4, <3>3, OthersUnchanged DEF ScheduleOrReplace
      <3> QED BY <1>0, <3>3, <3>4 DEF TypeOK, TableOK, ClaimOK, CallOK, OutboxOK
    <2>4. ASSUME NEW i \in Debouncing(u.request.queue, u.key),
                 Update(i, ApplySchedule(jobs[i], sch)), UNCHANGED next_id
          PROVE  TypeOK' /\ NoRevival
      <3>1. i \in Ids /\ jobs[i].status = "Pending"
        BY DEF Debouncing
      <3>2. /\ ApplySchedule(jobs[i], sch) \in Records
            /\ ApplySchedule(jobs[i], sch).status = "Pending"
        BY <1>0, <2>2, <3>1, ApplyScheduleType
      <3>3. TableOK' /\ NoRevival
        BY <2>4, <3>1, <3>2, UpdateKeeps DEF Running
      <3>4. ClaimOK' /\ CallOK' /\ OutboxOK' /\ now' = now
        BY <1>4, <2>4, OthersUnchanged DEF ScheduleOrReplace
      <3> QED BY <1>0, <3>3, <3>4 DEF TypeOK, TableOK, ClaimOK, CallOK, OutboxOK
    <2> QED BY <1>4, <2>3, <2>4 DEF ScheduleOrReplace, sch
  <1>5. ASSUME NEW c \in Callers, NEW e \in Edits, LookUpEdited(c, e)
        PROVE  TypeOK' /\ NoRevival
    <2>1. TableOK' /\ NoRevival
      BY <1>5, UnchangedTable DEF LookUpEdited
    <2>2. CallOK'
      <3>1. PICK i \in Ids : call' = [call EXCEPT ![c] = [op |-> "edit", edit |-> e,
                                        id |-> i, seen |-> jobs[i]]]
        BY <1>5 DEF LookUpEdited
      <3>2. i \in Nat /\ jobs[i] \in Records
        BY DEF TypeOK
      <3> QED BY <1>0, <3>1, <3>2 DEF CallOK, Calls
    <2>3. ClaimOK' /\ OutboxOK' /\ now' = now
      BY <1>5, OthersUnchanged DEF LookUpEdited
    <2> QED BY <1>0, <2>1, <2>2, <2>3 DEF TypeOK, TableOK, ClaimOK, CallOK, OutboxOK
  <1>6. ASSUME NEW c \in Callers, UpdatePendingSchedule(c)
        PROVE  TypeOK' /\ NoRevival
    <2> DEFINE i == call[c].id
               sch == EditSchedule(call[c])
    <2>1. TableOK' /\ NoRevival
      <3>1. CASE i \in Ids /\ jobs[i].status = "Pending"
        <4>1. call[c] \in [op : {"edit"}, edit : Edits, id : Nat, seen : Records]
          BY <1>0, <1>6 DEF UpdatePendingSchedule, Calls, NoCall
        <4>2. call[c].edit.id \in Nat /\ call[c].edit.msg \in Msgs
          BY <4>1, QueueAssumption
        <4>3. InputFrom(call[c].edit.msg, call[c].edit.id) \in [Msgs -> Nat]
          BY <4>2, InputFromType
        <4>4. sch \in [job : Jobs, key : Keys \cup {Nil}, available_at : Nat,
                       sources : SUBSET Nat, latest : Nat, inputs : [Msgs -> Nat]]
          BY <4>1, <4>2, <4>3 DEF EditSchedule, Records
        <4> HIDE DEF sch
        <4>5. /\ ApplySchedule(jobs[i], sch) \in Records
              /\ ApplySchedule(jobs[i], sch).status = "Pending"
          BY <1>0, <3>1, <4>4, ApplyScheduleType
        <4>6. Update(i, ApplySchedule(jobs[i], sch)) /\ UNCHANGED next_id
          BY <1>6, <3>1 DEF UpdatePendingSchedule, sch
        <4> QED BY <3>1, <4>5, <4>6, UpdateKeeps DEF Running
      <3>2. CASE ~ (i \in Ids /\ jobs[i].status = "Pending")
        BY <1>6, <3>2, UnchangedTable DEF UpdatePendingSchedule
      <3> QED BY <3>1, <3>2
    <2>2. CallOK'
      BY <1>0, <1>6 DEF UpdatePendingSchedule, CallOK, Calls
    <2>3. ClaimOK' /\ OutboxOK' /\ now' = now
      BY <1>6, OthersUnchanged DEF UpdatePendingSchedule
    <2> QED BY <1>0, <2>1, <2>2, <2>3 DEF TypeOK, TableOK, ClaimOK, CallOK, OutboxOK
  <1>7. ASSUME NEW i \in Ids, RestartJob(i)
        PROVE  TypeOK' /\ NoRevival
    <2> DEFINE job == [jobs[i].job EXCEPT !.created = now]
    <2>1. jobs[i].queue \in Queues /\ job \in Jobs /\ NoInputs \in [Msgs -> Nat]
      BY <1>0 DEF Records, Jobs, NoInputs
    <2> HIDE DEF job
    <2>2. /\ NewRecord(jobs[i].queue, job, 0, Nil, {}, 0, NoInputs) \in Records
          /\ NewRecord(jobs[i].queue, job, 0, Nil, {}, 0, NoInputs).status = "Pending"
      BY <2>1, NewRecordType
    <2>3. TableOK' /\ NoRevival /\ next_id' = next_id + 1
      BY <1>7, <2>2, PushKeeps DEF RestartJob, job
    <2>4. ClaimOK' /\ CallOK' /\ OutboxOK' /\ now' = now
      BY <1>7, <2>3, OthersUnchanged DEF RestartJob
    <2> QED BY <1>0, <2>3, <2>4 DEF TypeOK, TableOK, ClaimOK, CallOK, OutboxOK
  <1> QED BY <1>1, <1>2, <1>3, <1>4, <1>5, <1>6, <1>7 DEF Produce

\* A worker claims a job: its lane and queue stay what they were.
LEMMA ClaimKeeps ==
  ASSUME TypeOK, NEW w \in WorkerIds, Dequeue(w)
  PROVE  /\ TypeOK'
         /\ \E i \in Ids : /\ NextPending(jobs, i, WorkerQueue[w], WorkerTypes[w], now)
                           /\ jobs' = [jobs EXCEPT ![i] = Claimed(jobs[i], w, now)]
                           /\ held' = [held EXCEPT ![w] = i]
  <1>1. PICK i \in Ids : /\ NextPending(jobs, i, WorkerQueue[w], WorkerTypes[w], now)
                         /\ Update(i, Claimed(jobs[i], w, now))
                         /\ held' = [held EXCEPT ![w] = i]
    BY DEF Dequeue
  <1>2. jobs[i] \in Records /\ now \in Nat /\ i \in 1 .. next_id - 1
    BY DEF TypeOK
  <1>3. Claimed(jobs[i], w, now) \in Records
    BY <1>2, ClaimedType
  <1>4. TableOK' /\ jobs' = [jobs EXCEPT ![i] = Claimed(jobs[i], w, now)]
    BY <1>1, <1>3, UpdateType, TypeOKParts DEF Dequeue
  <1>5. ClaimOK'
    BY <1>1, <1>2 DEF Dequeue, TypeOK, ClaimOK
  <1>6. CallOK' /\ OutboxOK' /\ now' = now
    BY OthersUnchanged DEF Dequeue
  <1> QED BY <1>1, <1>2, <1>4, <1>5, <1>6 DEF TypeOK, TableOK, ClaimOK, CallOK, OutboxOK

LEMMA WorkKeeps ==
  ASSUME TypeOK, NEW w \in WorkerIds, Work(w), ~ Dequeue(w)
  PROVE  TypeOK' /\ NoRevival
  <1>0. /\ now \in Nat /\ jobs \in [Ids -> Records] /\ next_id \in Nat
        /\ held \in [WorkerIds -> (1 .. next_id - 1) \cup {Nil}]
        /\ answered \subseteq WorkerIds /\ Ids \subseteq 1 .. next_id - 1
    BY DEF TypeOK
  <1>1. ASSUME Drop(w), UNCHANGED next_id
        PROVE  ClaimOK'
    BY <1>0, <1>1 DEF Drop, ClaimOK
  <1>2. ASSUME TableOK', ClaimOK', OutboxOK', UNCHANGED <<call, now, next_id>>
        PROVE  TypeOK'
    BY <1>2, OthersUnchanged DEF TypeOK, TableOK, ClaimOK, CallOK, OutboxOK
  <1>4. ASSUME NEW r \in Records, held[w] \in Ids, Update(held[w], r),
               r.status = jobs[held[w]].status, r.queue = jobs[held[w]].queue,
               r.job = jobs[held[w]].job, r.worker_id = jobs[held[w]].worker_id,
               UNCHANGED <<next_id, claimVars, call, outboxVars, now>>
        PROVE  TypeOK' /\ NoRevival
    <2>1. TableOK' /\ NoRevival
      BY <1>4, UpdateKeeps DEF Running
    <2>2. ClaimOK' /\ OutboxOK'
      BY <1>4, OthersUnchanged
    <2> QED BY <1>2, <1>4, <2>1, <2>2
  <1>5. CASE CheckpointAgent(w)
    <2> DEFINE r == [jobs[held[w]] EXCEPT !.resume_count = IF @ = Nil THEN 0 ELSE @]
    <2>1. r \in Records /\ r.status = jobs[held[w]].status
          /\ r.queue = jobs[held[w]].queue /\ r.job = jobs[held[w]].job
          /\ r.worker_id = jobs[held[w]].worker_id
      <3> DEFINE n == IF jobs[held[w]].resume_count = Nil THEN 0
                      ELSE jobs[held[w]].resume_count
      <3>1. jobs[held[w]] \in Records /\ n \in Nat \cup {Nil}
        BY <1>0, <1>5 DEF CheckpointAgent, Records
      <3>2. r = [jobs[held[w]] EXCEPT !.resume_count = n]
        OBVIOUS
      <3>3. r.worker_id = jobs[held[w]].worker_id
        BY <3>1 DEF Records
      <3> HIDE DEF r, n
      <3> QED BY <3>1, <3>2, <3>3, CheckpointedType
    <2>2. held[w] \in Ids /\ Update(held[w], r)
      BY <1>5 DEF CheckpointAgent
    <2>3. UNCHANGED <<next_id, claimVars, call, outboxVars, now>>
      BY <1>5 DEF CheckpointAgent
    <2> HIDE DEF r
    <2> QED BY <1>4, <2>1, <2>2, <2>3
  <1>6. CASE SetExecutionStarted(w)
    <2> DEFINE r == [jobs[held[w]] EXCEPT !.execution_started_at = now]
    <2>1. r \in Records /\ r.status = jobs[held[w]].status
          /\ r.queue = jobs[held[w]].queue /\ r.job = jobs[held[w]].job
          /\ r.worker_id = jobs[held[w]].worker_id
      <3>1. jobs[held[w]] \in Records
        BY <1>0, <1>6 DEF SetExecutionStarted
      <3>2. r.worker_id = jobs[held[w]].worker_id
        BY <3>1 DEF Records
      <3> QED BY <1>0, <3>1, <3>2, ProgressType
    <2>2. held[w] \in Ids /\ Update(held[w], r)
      BY <1>6 DEF SetExecutionStarted
    <2>3. UNCHANGED <<next_id, claimVars, call, outboxVars, now>>
      BY <1>6 DEF SetExecutionStarted
    <2> HIDE DEF r
    <2> QED BY <1>4, <2>1, <2>2, <2>3
  <1>7. CASE PostPlaceholder(w)
    <2> DEFINE r == [jobs[held[w]] EXCEPT !.placeholder = TRUE]
    <2>1. r \in Records /\ r.status = jobs[held[w]].status
          /\ r.queue = jobs[held[w]].queue /\ r.job = jobs[held[w]].job
          /\ r.worker_id = jobs[held[w]].worker_id
      <3>1. jobs[held[w]] \in Records
        BY <1>0, <1>7 DEF PostPlaceholder
      <3>2. r.worker_id = jobs[held[w]].worker_id
        BY <3>1 DEF Records
      <3> QED BY <1>0, <3>1, <3>2, ProgressType
    <2>2. held[w] \in Ids /\ Update(held[w], r)
      BY <1>7 DEF PostPlaceholder
    <2>3. UNCHANGED <<next_id, claimVars, call, outboxVars, now>>
      BY <1>7 DEF PostPlaceholder
    <2> HIDE DEF r
    <2> QED BY <1>4, <2>1, <2>2, <2>3
  <1>8. ASSUME NEW s \in {"Completed", "Failed"}, Finish(w, s)
        PROVE  TypeOK' /\ NoRevival
    <2>1. TableOK' /\ NoRevival
      <3>1. CASE held[w] \in Ids /\ Finalize(held[w], s)
        BY <1>8, <3>1, FinalizeKeeps DEF Finish, TerminalStatuses
      <3>2. CASE UNCHANGED <<jobs, dirty>>
        BY <1>8, <3>2, UnchangedTable DEF Finish
      <3> QED BY <1>8, <3>1, <3>2 DEF Finish, OnHeld
    <2>2. ClaimOK' /\ OutboxOK'
      BY <1>1, <1>8, OthersUnchanged DEF Finish
    <2> QED BY <1>2, <1>8, <2>1, <2>2 DEF Finish
  <1>9. ASSUME NEW kind \in {"answer", "interim"}, held[w] \in Ids,
               Enqueue(<<held[w], kind>>), UNCHANGED <<next_id, resolving>>
        PROVE  OutboxOK'
    <2> DEFINE b == <<held[w], kind>>
    <2>1. OutboxOK /\ b \in Nat \X {"answer", "interim"}
      BY <1>0, <1>9 DEF TypeOK, OutboxOK
    <2>2. CASE b \in DOMAIN batches
      BY <1>9, <2>1, <2>2 DEF Enqueue, OutboxOK
    <2>3. CASE b \notin DOMAIN batches
      <3>1. /\ DOMAIN batches' = {b} \cup DOMAIN batches
            /\ \A c \in DOMAIN batches : batches'[c] = batches[c]
            /\ batches'[b] = "sending"
            /\ batches' = [c \in DOMAIN batches' |-> batches'[c]]
        BY <1>9, <2>3 DEF Enqueue
      <3> QED BY <1>9, <2>1, <3>1 DEF OutboxOK
    <2> QED BY <2>2, <2>3
  <1>10. CASE SendInterim(w)
    <2>1. TableOK' /\ NoRevival /\ ClaimOK'
      BY <1>10, UnchangedTable, OthersUnchanged DEF SendInterim
    <2>2. OutboxOK'
      BY <1>9, <1>10 DEF SendInterim, InDialog
    <2> QED BY <1>2, <1>10, <2>1, <2>2 DEF SendInterim
  <1>11. CASE EnqueueAnswer(w)
    <2>1. TableOK' /\ NoRevival
      BY <1>11, UnchangedTable DEF EnqueueAnswer
    <2>2. OutboxOK'
      BY <1>9, <1>11 DEF EnqueueAnswer, InDialog, Answer
    <2>3. ClaimOK'
      BY <1>0, <1>11 DEF EnqueueAnswer, ClaimOK
    <2> QED BY <1>2, <1>11, <2>1, <2>2, <2>3 DEF EnqueueAnswer
  <1>12. CASE WaitForDelivery(w)
    <2>1. TableOK' /\ NoRevival
      <3> DEFINE r == [jobs[held[w]] EXCEPT !.status = "WaitingDelivery", !.worker_id = Nil]
      <3>1. CASE held[w] \in Ids /\ jobs[held[w]].status = "Processing" /\ Update(held[w], r)
        <4>1. /\ r \in Records /\ r.status = "WaitingDelivery"
              /\ r.queue = jobs[held[w]].queue /\ r.job = jobs[held[w]].job
          <5>1. jobs[held[w]] \in Records
            BY <1>0, <3>1
          <5> QED BY <5>1, HandoverType DEF Records
        <4> HIDE DEF r
        <4>2. \E v \in answered : held[v] = held[w]
          BY <1>12 DEF WaitForDelivery
        <4> QED BY <1>12, <3>1, <4>1, <4>2, UpdateKeeps DEF WaitForDelivery, Running
      <3>2. CASE UNCHANGED <<jobs, dirty>>
        BY <1>12, <3>2, UnchangedTable DEF WaitForDelivery
      <3> QED BY <1>12, <3>1, <3>2 DEF WaitForDelivery, OnHeld, Handover
    <2>2. ClaimOK' /\ OutboxOK'
      BY <1>1, <1>12, OthersUnchanged DEF WaitForDelivery
    <2> QED BY <1>2, <1>12, <2>1, <2>2 DEF WaitForDelivery
  <1>13. CASE Requeue(w)
    <2>1. TableOK' /\ NoRevival
      <3>1. CASE /\ held[w] \in Ids /\ jobs[held[w]].status # "Cancelled"
                 /\ Update(held[w], BackToPending(jobs[held[w]]))
        <4>1. /\ BackToPending(jobs[held[w]]) \in Records
              /\ ~ Running(BackToPending(jobs[held[w]]))
          BY <1>0, <3>1, BackToPendingType DEF Running
        <4> QED BY <1>13, <3>1, <4>1, UpdateKeeps DEF Requeue
      <3>2. CASE UNCHANGED <<jobs, dirty>>
        BY <1>13, <3>2, UnchangedTable DEF Requeue
      <3> QED BY <1>13, <3>1, <3>2 DEF Requeue, OnHeld, RequeueJob
    <2>2. ClaimOK' /\ OutboxOK'
      BY <1>1, <1>13, OthersUnchanged DEF Requeue
    <2> QED BY <1>2, <1>13, <2>1, <2>2 DEF Requeue
  <1> QED BY <1>5, <1>6, <1>7, <1>8, <1>10, <1>11, <1>12, <1>13 DEF Work

\* Removing records: the table shrinks, nothing else in it changes.
LEMMA RemoveKeeps ==
  ASSUME TypeOK, NEW S \in SUBSET Ids, jobs' = [i \in Ids \ S |-> jobs[i]],
         UNCHANGED next_id, DOMAIN dirty' \subseteq DOMAIN dirty \cup S,
         dirty' \in [DOMAIN dirty' -> Records \cup {Deleted}]
  PROVE  TableOK' /\ NoRevival
  <1>1. Ids' = Ids \ S /\ \A i \in Ids' : jobs'[i] = jobs[i]
    BY DEF Ids
  <1>2. jobs' \in [Ids' -> Records]
    BY <1>1 DEF TypeOK
  <1> QED BY <1>1, <1>2 DEF TypeOK, TableOK, NoRevival

LEMMA MaintainKeeps ==
  ASSUME TypeOK, Maintain
  PROVE  TypeOK' /\ NoRevival
  <1>0. /\ now \in Nat /\ jobs \in [Ids -> Records]
        /\ \A i \in Ids : jobs[i] \in Records
        /\ dirty \in [DOMAIN dirty -> Records \cup {Deleted}]
        /\ OutboxOK
    BY DEF TypeOK, OutboxOK
  <1>1. ASSUME TableOK', OutboxOK', UNCHANGED <<next_id, claimVars, call, now>>
        PROVE  TypeOK'
    BY <1>1, OthersUnchanged DEF TypeOK, TableOK, ClaimOK, CallOK, OutboxOK
  <1>2. ASSUME UNCHANGED outboxVars, UNCHANGED next_id
        PROVE  OutboxOK'
    BY <1>2, OthersUnchanged
  <1>3. ASSUME NEW b \in DOMAIN batches, NEW o \in {"delivered", "dead"}, SettleBatch(b, o)
        PROVE  TypeOK' /\ NoRevival
    <2>1. TableOK' /\ NoRevival
      BY <1>3, UnchangedTable DEF SettleBatch
    <2>2. /\ DOMAIN batches' = DOMAIN batches /\ next_id' = next_id
          /\ \A c \in DOMAIN batches : batches'[c] = IF c = b THEN o ELSE batches[c]
      BY <1>0, <1>3 DEF SettleBatch, OutboxOK
    <2>3. batches' \in [DOMAIN batches' -> {"sending", "delivered", "dead"}]
      BY <1>0, <1>3 DEF SettleBatch, OutboxOK
    <2>4. OutboxOK'
      BY <1>0, <1>3, <2>2, <2>3 DEF SettleBatch, OutboxOK
    <2> QED BY <1>1, <1>3, <2>1, <2>4 DEF SettleBatch
  <1>5. ASSUME NEW b \in DOMAIN batches, ResolveBatch(b)
        PROVE  TypeOK' /\ NoRevival
    <2> DEFINE s == IF batches[b] = "delivered" THEN "Completed" ELSE "Failed"
    <2>1. s \in TerminalStatuses
      BY DEF TerminalStatuses
    <2> HIDE DEF s
    <2>4. TableOK' /\ NoRevival
      <3>1. CASE b[1] \in Ids /\ Finalize(b[1], s)
        BY <1>5, <2>1, <3>1, FinalizeKeeps DEF ResolveBatch
      <3>2. CASE UNCHANGED <<jobs, dirty>>
        BY <1>5, <3>2, UnchangedTable DEF ResolveBatch
      <3> QED BY <1>5, <3>1, <3>2 DEF ResolveBatch, s
    <2>5. OutboxOK'
      BY <1>0, <1>5 DEF ResolveBatch, OutboxOK
    <2> QED BY <1>1, <1>5, <2>4, <2>5 DEF ResolveBatch
  <1>6. ASSUME NEW i \in Ids, Cancel(i)
        PROVE  TypeOK' /\ NoRevival
    <2>1. TableOK' /\ NoRevival
      BY <1>6, FinalizeKeeps DEF Cancel, TerminalStatuses
    <2> QED BY <1>1, <1>2, <1>6, <2>1 DEF Cancel
  <1>7. ASSUME NEW i \in Ids, Delete(i)
        PROVE  TypeOK' /\ NoRevival
    <2>1. dirty' \in [DOMAIN dirty' -> Records \cup {Deleted}]
      BY <1>0, <1>7 DEF Delete
    <2>2. DOMAIN dirty' \subseteq DOMAIN dirty \cup {i} /\ {i} \in SUBSET Ids
      BY <1>7 DEF Delete
    <2>3. TableOK' /\ NoRevival
      BY <1>7, <2>1, <2>2, RemoveKeeps DEF Delete
    <2> QED BY <1>1, <1>2, <1>7, <2>3 DEF Delete
  <1>8. ASSUME NEW i \in Ids, CleanPlaceholder(i)
        PROVE  TypeOK' /\ NoRevival
    <2> DEFINE r == [jobs[i] EXCEPT !.placeholder = FALSE]
    <2>1. /\ r \in Records /\ r.status = jobs[i].status /\ r.queue = jobs[i].queue
          /\ r.job = jobs[i].job
      BY <1>0, ProgressType
    <2>2. r.worker_id = jobs[i].worker_id
      BY <1>0 DEF Records
    <2>3. Update(i, r) /\ UNCHANGED next_id
      BY <1>8 DEF CleanPlaceholder
    <2> HIDE DEF r
    <2>4. TableOK' /\ NoRevival
      BY <2>1, <2>2, <2>3, UpdateKeeps DEF Running
    <2> QED BY <1>1, <1>2, <1>8, <2>4 DEF CleanPlaceholder
  <1>9. ASSUME NEW S \in SUBSET Ids, NEW status \in TerminalStatuses,
               Commit([i \in Ids |-> IF i \in S THEN MarkTerminal(jobs[i], status, now)
                                                ELSE jobs[i]], S),
               \A i \in S : jobs[i].status = "Cancelled" => status = "Cancelled",
               UNCHANGED <<next_id, claimVars, call, outboxVars, now>>
        PROVE  TypeOK' /\ NoRevival
    <2> DEFINE table == [i \in Ids |-> IF i \in S THEN MarkTerminal(jobs[i], status, now)
                                                  ELSE jobs[i]]
    <2>1. DOMAIN table = Ids /\ \A i \in Ids \ S : table[i] = jobs[i]
      OBVIOUS
    <2>2. \A i \in S : /\ table[i] \in Records /\ ~ Running(table[i])
                       /\ table[i].status = status
      BY <1>0, MarkTerminalType DEF Running, TerminalStatuses
    <2>3. table \in [Ids -> Records]
      BY <1>0, <2>1, <2>2
    <2>4. Commit(table, S)
      BY <1>9
    <2> HIDE DEF table
    <2>5. TableOK' /\ NoRevival
      BY <1>9, <2>1, <2>2, <2>3, <2>4, ManyKeep
    <2> QED BY <1>1, <1>2, <1>9, <2>5
  <1>10. ASSUME NEW u \in Users, NEW l \in Lanes, CancelUserJobs(u, ChatOf[l])
         PROVE  TypeOK' /\ NoRevival
    BY <1>9, <1>10 DEF CancelUserJobs, TerminalStatuses
  <1>11. CASE RequeueExpired
    <2> DEFINE S == {i \in Ids : Expired(jobs[i], now)}
               table == RequeueAll(jobs, S)
    <2>1. S \in SUBSET DOMAIN jobs
      BY DEF Ids
    <2>2. /\ table \in [Ids -> Records] /\ DOMAIN table = Ids
          /\ \A i \in Ids \ S : table[i] = jobs[i]
          /\ \A i \in S : table[i].status = "Pending"
      BY <1>0, <2>1, RequeueAllType DEF Ids
    <2>3. Commit(table, S) /\ UNCHANGED <<next_id, claimVars, call, outboxVars, now>>
      BY <1>11 DEF RequeueExpired
    <2>s. \A i \in S : jobs[i].status = "Processing"
      BY DEF Expired, StartedBefore
    <2> HIDE DEF table, S
    <2>4. TableOK' /\ NoRevival
      BY <2>1, <2>2, <2>3, <2>s, ManyKeep DEF Running, Ids
    <2> QED BY <1>1, <1>2, <2>3, <2>4
  <1>12. CASE FailStuck
    BY <1>9, <1>12 DEF FailStuck, TerminalStatuses, StartedBefore
  <1>13. CASE EvictTerminal
    <2> DEFINE S == Evictable(jobs, now - Retention, KeepPerQueue)
    <2>1. S \in SUBSET Ids
      BY DEF Evictable, Ids
    <2>2. TableOK' /\ NoRevival
      BY <1>0, <1>13, <2>1, RemoveKeeps DEF EvictTerminal
    <2> QED BY <1>1, <1>2, <1>13, <2>2 DEF EvictTerminal
  <1> QED BY <1>3, <1>5, <1>6, <1>7, <1>8, <1>10, <1>11, <1>12, <1>13 DEF Maintain

LEMMA ScanKeeps ==
  ASSUME TypeOK, NEW b \in DOMAIN batches, ScanBatch(b)
  PROVE  TypeOK' /\ NoRevival
  <1>1. OutboxOK /\ now \in Nat
    BY DEF TypeOK, OutboxOK
  <1>2. TableOK' /\ NoRevival
    BY UnchangedTable DEF ScanBatch, TakeUp
  <1>3. OutboxOK'
    BY <1>1 DEF ScanBatch, TakeUp, Settled, OutboxOK
  <1>4. ClaimOK' /\ CallOK' /\ now' = now
    BY OthersUnchanged DEF ScanBatch, TakeUp
  <1> QED BY <1>1, <1>2, <1>3, <1>4 DEF TypeOK, TableOK, ClaimOK, CallOK, OutboxOK

LEMMA InitType == QueueInit => TypeOK
  BY QueueAssumption DEF QueueInit, TypeOK, Ids, Calls

LEMMA NextType ==
  ASSUME TypeOK, [QueueNext]_queueVars
  PROVE  TypeOK'
  <1>1. CASE Tick
    BY <1>1, UnchangedTable, OthersUnchanged DEF Tick, TypeOK, TableOK, ClaimOK, CallOK, OutboxOK
  <1>2. CASE UNCHANGED queueVars
    BY <1>2 DEF queueVars, claimVars, outboxVars, TypeOK, Ids
  <1> QED BY <1>1, <1>2, ProduceKeeps, ClaimKeeps, WorkKeeps, MaintainKeeps, ScanKeeps DEF QueueNext, Work

\* The variables keep their types, and ids in use are below the allocator's.
THEOREM TypeCorrect == QueueSpec => []TypeOK
  BY InitType, NextType, PTL DEF QueueSpec

-----------------------------------------------------------------------------
(* Safety.  Every step but a claim is a NoRevival step.                        *)

LEMMA StepKinds ==
  ASSUME TypeOK, [QueueNext]_queueVars
  PROVE  \/ NoRevival
         \/ \E w \in WorkerIds : Dequeue(w)
  <1>1. CASE Tick
    BY <1>1, UnchangedTable DEF Tick
  <1>2. CASE UNCHANGED queueVars
    BY <1>2, UnchangedTable DEF queueVars
  <1> QED BY <1>1, <1>2, ProduceKeeps, WorkKeeps, MaintainKeeps, ScanKeeps DEF QueueNext

LEMMA LaneStep ==
  ASSUME TypeOK, LaneExclusive, [QueueNext]_queueVars
  PROVE  LaneExclusive'
  <1>1. CASE NoRevival
    BY <1>1 DEF NoRevival, LaneExclusive, InDialogLane, Active, ActiveStatuses, Running
  <1>2. ASSUME NEW w \in WorkerIds, Dequeue(w)
        PROVE  LaneExclusive'
    <2>1. PICK i \in Ids :
            /\ NextPending(jobs, i, WorkerQueue[w], WorkerTypes[w], now)
            /\ jobs' = [jobs EXCEPT ![i] = Claimed(jobs[i], w, now)]
      BY <1>2, ClaimKeeps
    <2>2. jobs[i] \in Records /\ now \in Nat
      BY DEF TypeOK
    <2>3. /\ Ids' = Ids
          /\ \A j \in Ids \ {i} : jobs'[j] = jobs[j]
          /\ jobs'[i].queue = jobs[i].queue /\ jobs'[i].job = jobs[i].job
      BY <2>1, <2>2, ClaimedType DEF Ids
    <2>4. jobs[i].status = "Pending" /\ ~ LaneBlocked(jobs, i, now)
      BY <2>1 DEF NextPending, Eligible
    <2>5. ASSUME InDialogLane(jobs'[i])
          PROVE  \A j \in Ids \ {i} : ~ (/\ InDialogLane(jobs[j]) /\ Running(jobs[j])
                                         /\ jobs[j].job.lane = jobs[i].job.lane)
      <3>1. InDialogLane(jobs[i])
        BY <2>3, <2>4, <2>5 DEF InDialogLane, Active, ActiveStatuses
      <3> QED BY <2>4, <3>1 DEF LaneBlocked, Ids
    <2> QED BY <2>3, <2>5 DEF LaneExclusive
  <1> QED BY <1>1, <1>2, StepKinds

\* Two dialog jobs of one lane never run at the same time, for any number of
\* workers, lanes, producers and timeouts: a claim passes the lane gate and no
\* other step of the queue lets a job run.
THEOREM LaneIsExclusive == QueueSpec => []LaneExclusive
  <1>1. QueueInit => LaneExclusive
    BY DEF QueueInit, LaneExclusive, Ids
  <1> QED BY <1>1, InitType, NextType, LaneStep, PTL DEF QueueSpec

LEMMA ClaimStep ==
  ASSUME TypeOK, NEW w \in WorkerIds, Dequeue(w)
  PROVE  \E i \in Ids : /\ Ids' = Ids
                        /\ \A j \in Ids \ {i} : jobs'[j] = jobs[j]
                        /\ jobs[i].status = "Pending"
                        /\ jobs'[i].status = "Processing"
                        /\ held[w] = Nil
                        /\ held' = [held EXCEPT ![w] = i]
  <1>1. PICK i \in Ids :
          /\ NextPending(jobs, i, WorkerQueue[w], WorkerTypes[w], now)
          /\ jobs' = [jobs EXCEPT ![i] = Claimed(jobs[i], w, now)]
          /\ held' = [held EXCEPT ![w] = i]
    BY ClaimKeeps
  <1>2. jobs[i] \in Records /\ now \in Nat
    BY DEF TypeOK
  <1>3. /\ Ids' = Ids
        /\ \A j \in Ids \ {i} : jobs'[j] = jobs[j]
        /\ jobs'[i].status = "Processing"
    BY <1>1, <1>2, ClaimedType DEF Ids
  <1> QED BY <1>1, <1>3 DEF NextPending, Eligible, Dequeue

\* A cancelled job stays cancelled through every late completion, failure,
\* retry, timeout and delivery.
THEOREM CancelIsFinal == QueueSpec => CancelledIsFinal
  <1>1. ASSUME TypeOK, [QueueNext]_queueVars
        PROVE  [\A i \in Ids : jobs[i].status = "Cancelled" =>
                  (i \in DOMAIN jobs' => jobs'[i].status = "Cancelled")]_queueVars
    <2>1. CASE NoRevival
      BY <2>1 DEF NoRevival, Ids
    <2>2. ASSUME NEW w \in WorkerIds, Dequeue(w)
          PROVE  \A i \in Ids : jobs[i].status = "Cancelled" => jobs'[i].status = "Cancelled"
      BY <1>1, <2>2, ClaimStep
    <2> QED BY <1>1, <2>1, <2>2, StepKinds
  <1> QED BY <1>1, TypeCorrect, PTL DEF QueueSpec, CancelledIsFinal

-----------------------------------------------------------------------------
(* A job in Processing has its worker, or is an agent waiting for one.       *)

LEMMA DropEndsWork ==
  ASSUME TypeOK, NEW w \in WorkerIds, held[w] # Nil,
         \/ \E s \in {"Completed", "Failed"} : Finish(w, s)
         \/ WaitForDelivery(w)
         \/ Requeue(w)
  PROVE  /\ held' = [held EXCEPT ![w] = Nil]
         /\ held[w] \in Ids' => jobs'[held[w]].status # "Processing"
  <1>0. \A i \in Ids : jobs[i] \in Records
    BY DEF TypeOK
  <1>1. held' = [held EXCEPT ![w] = Nil]
    BY DEF Finish, WaitForDelivery, Requeue, Drop
  <1>2. ASSUME NEW r, held[w] \in Ids, Update(held[w], r)
        PROVE  jobs'[held[w]] = r
    BY <1>2 DEF Update, Commit, Ids
  <1>3. ASSUME NEW s \in {"Completed", "Failed"}, Finish(w, s), held[w] \in Ids
        PROVE  jobs'[held[w]].status # "Processing"
    <2>1. CASE Update(held[w], MarkTerminal(jobs[held[w]], s, now))
      <3>1. jobs[held[w]] \in Records /\ now \in Nat /\ s \in TerminalStatuses
        BY <1>0, <1>3 DEF TypeOK, TerminalStatuses
      <3> QED BY <1>2, <1>3, <2>1, <3>1, MarkTerminalType
    <2>2. CASE jobs[held[w]].status = "Cancelled" /\ UNCHANGED jobs
      BY <2>2
    <2> QED BY <1>3, <2>1, <2>2 DEF Finish, OnHeld, Finalize
  <1>4. ASSUME WaitForDelivery(w), held[w] \in Ids
        PROVE  jobs'[held[w]].status # "Processing"
    <2> DEFINE r == [jobs[held[w]] EXCEPT !.status = "WaitingDelivery", !.worker_id = Nil]
    <2>1. CASE Update(held[w], r)
      <3>1. r.status = "WaitingDelivery"
        BY <1>0, <1>4 DEF Records
      <3> HIDE DEF r
      <3> QED BY <1>2, <1>4, <2>1, <3>1
    <2>2. CASE jobs[held[w]].status # "Processing" /\ UNCHANGED jobs
      BY <2>2
    <2> QED BY <1>4, <2>1, <2>2 DEF WaitForDelivery, OnHeld, Handover
  <1>5. ASSUME Requeue(w), held[w] \in Ids
        PROVE  jobs'[held[w]].status # "Processing"
    <2>1. CASE Update(held[w], BackToPending(jobs[held[w]]))
      BY <1>0, <1>2, <1>5, <2>1, BackToPendingType
    <2>2. CASE jobs[held[w]].status = "Cancelled" /\ UNCHANGED jobs
      BY <2>2
    <2> QED BY <1>5, <2>1, <2>2 DEF Requeue, OnHeld, RequeueJob
  <1>6. held[w] \notin Ids => Ids' = Ids
    BY DEF Finish, WaitForDelivery, Requeue, OnHeld, Ids
  <1>7. held[w] \in Ids => jobs'[held[w]].status # "Processing"
    BY <1>3, <1>4, <1>5
  <1> QED BY <1>1, <1>6, <1>7

LEMMA WorkedStep ==
  ASSUME TypeOK, ProcessingIsWorkedOn, [QueueNext]_queueVars
  PROVE  ProcessingIsWorkedOn'
  <1>0. held \in [WorkerIds -> (1 .. next_id - 1) \cup {Nil}]
    BY DEF TypeOK
  <1>1. CASE NoRevival /\ UNCHANGED held
    BY <1>1 DEF NoRevival, ProcessingIsWorkedOn, IsAgent, Running
  <1>2. ASSUME NEW w \in WorkerIds, Dequeue(w)
        PROVE  ProcessingIsWorkedOn'
    <2>1. PICK i \in Ids : /\ Ids' = Ids
                           /\ \A j \in Ids \ {i} : jobs'[j] = jobs[j]
                           /\ held[w] = Nil
                           /\ held' = [held EXCEPT ![w] = i]
      BY <1>2, ClaimStep
    <2>2. held'[w] = i /\ \A v \in WorkerIds \ {w} : held'[v] = held[v]
      BY <1>0, <2>1
    <2>3. \A j \in Ids : j # Nil
      BY NilAssumption DEF TypeOK
    <2> QED BY <2>1, <2>2, <2>3 DEF ProcessingIsWorkedOn
  <1>4. ASSUME NEW w \in WorkerIds, Work(w), ~ Dequeue(w), held' = [held EXCEPT ![w] = Nil],
               held[w] \in Ids' => jobs'[held[w]].status # "Processing"
        PROVE  ProcessingIsWorkedOn'
    <2>1. NoRevival
      BY <1>4, WorkKeeps
    <2>2. \A v \in WorkerIds \ {w} : held'[v] = held[v]
      BY <1>0, <1>4
    <2> QED BY <1>4, <2>1, <2>2 DEF ProcessingIsWorkedOn, IsAgent, NoRevival, Running
  <1>5. ASSUME NEW w \in WorkerIds, Work(w)
        PROVE  ProcessingIsWorkedOn'
    <2>1. CASE \/ CheckpointAgent(w) \/ SetExecutionStarted(w) \/ PostPlaceholder(w)
               \/ SendInterim(w) \/ EnqueueAnswer(w)
      <3>1. held[w] # Nil /\ UNCHANGED held
        BY <2>1 DEF CheckpointAgent, SetExecutionStarted, PostPlaceholder, SendInterim,
                    EnqueueAnswer, InDialog, claimVars
      <3>2. ~ Dequeue(w)
        BY <3>1 DEF Dequeue
      <3> QED BY <1>1, <1>5, <3>1, <3>2, WorkKeeps
    <2>2. CASE \/ \E s \in {"Completed", "Failed"} : Finish(w, s)
               \/ WaitForDelivery(w) \/ Requeue(w)
      <3>1. held[w] # Nil
        BY <2>2 DEF Finish, WaitForDelivery, Requeue
      <3>2. ~ Dequeue(w)
        BY <3>1 DEF Dequeue
      <3> QED BY <1>4, <1>5, <2>2, <3>1, <3>2, DropEndsWork
    <2> QED BY <1>2, <1>5, <2>1, <2>2 DEF Work
  <1>6. CASE Produce
    <2>1. UNCHANGED held
      BY <1>6 DEF Produce, Assign, CountForLimit, AssignLimited, ScheduleOrReplace,
                  LookUpEdited, UpdatePendingSchedule, RestartJob, claimVars
    <2> QED BY <1>1, <1>6, <2>1, ProduceKeeps
  <1>7. CASE Maintain
    <2>1. UNCHANGED held
      BY <1>7 DEF Maintain, SettleBatch, ResolveBatch, Cancel, Delete,
                  CleanPlaceholder, CancelUserJobs, RequeueExpired, FailStuck,
                  EvictTerminal, claimVars
    <2> QED BY <1>1, <1>7, <2>1, MaintainKeeps
  <1>8. CASE Tick \/ UNCHANGED queueVars
    BY <1>1, <1>8, UnchangedTable DEF Tick, queueVars, claimVars
  <1>9. ASSUME NEW b \in DOMAIN batches, ScanBatch(b)
        PROVE  ProcessingIsWorkedOn'
    BY <1>1, <1>9, ScanKeeps DEF ScanBatch, TakeUp, claimVars
  <1> QED BY <1>5, <1>6, <1>7, <1>8, <1>9 DEF QueueNext

\* A job in Processing is in a worker's hands, whatever timeouts, cancels and
\* deletions refuse the worker's last call: no job is stranded.
THEOREM NoJobIsStranded == QueueSpec => []ProcessingIsWorkedOn
  <1>1. QueueInit => ProcessingIsWorkedOn
    BY DEF QueueInit, ProcessingIsWorkedOn, Ids
  <1> QED BY <1>1, InitType, NextType, WorkedStep, PTL DEF QueueSpec

-----------------------------------------------------------------------------
(* A job that waits for delivery has its answer in the outbox.  The inductive *)
(* form adds what a worker knows between the enqueue and the handover.        *)

AnswersQueued == \A w \in answered : held[w] # Nil /\ Answer(held[w]) \in DOMAIN batches

LEMMA AnswersStep ==
  ASSUME TypeOK, AnswersQueued, [QueueNext]_queueVars
  PROVE  AnswersQueued' /\ DOMAIN batches \subseteq DOMAIN batches'
  <1>0. /\ held \in [WorkerIds -> (1 .. next_id - 1) \cup {Nil}]
        /\ answered \subseteq WorkerIds
        /\ batches \in [DOMAIN batches -> {"sending", "delivered", "dead"}]
    BY DEF TypeOK
  <1>1. ASSUME UNCHANGED claimVars, DOMAIN batches \subseteq DOMAIN batches'
        PROVE  AnswersQueued'
    BY <1>1 DEF AnswersQueued, claimVars, Answer
  <1>2. CASE UNCHANGED <<claimVars, batches>>
    BY <1>1, <1>2
  <1>3. ASSUME NEW w \in WorkerIds, Drop(w), UNCHANGED batches
        PROVE  AnswersQueued'
    <2>1. answered' = answered \ {w} /\ \A v \in answered' : held'[v] = held[v]
      BY <1>0, <1>3 DEF Drop
    <2> QED BY <1>3, <2>1 DEF AnswersQueued, Answer
  <1>4. ASSUME NEW w \in WorkerIds, NEW i \in Ids, held[w] = Nil,
               held' = [held EXCEPT ![w] = i], UNCHANGED <<answered, batches>>
        PROVE  AnswersQueued'
    <2>1. w \notin answered
      BY <1>4 DEF AnswersQueued
    <2>2. \A v \in answered : held'[v] = held[v]
      BY <1>0, <1>4, <2>1
    <2> QED BY <1>4, <2>2 DEF AnswersQueued, Answer
  <1>5. ASSUME NEW b, Enqueue(b)
        PROVE  DOMAIN batches' = {b} \cup DOMAIN batches
    BY <1>5 DEF Enqueue
  <1>6. ASSUME NEW w \in WorkerIds, Work(w)
        PROVE  AnswersQueued' /\ DOMAIN batches \subseteq DOMAIN batches'
    <2>1. CASE Dequeue(w)
      BY <1>4, <2>1 DEF Dequeue, outboxVars
    <2>2. CASE CheckpointAgent(w) \/ SetExecutionStarted(w) \/ PostPlaceholder(w)
      BY <1>2, <2>2 DEF CheckpointAgent, SetExecutionStarted, PostPlaceholder, outboxVars
    <2>3. CASE \/ \E s \in {"Completed", "Failed"} : Finish(w, s)
               \/ WaitForDelivery(w) \/ Requeue(w)
      BY <1>3, <2>3 DEF Finish, WaitForDelivery, Requeue, outboxVars
    <2>4. CASE SendInterim(w)
      BY <1>1, <1>5, <2>4 DEF SendInterim
    <2>5. CASE EnqueueAnswer(w)
      <3>1. /\ DOMAIN batches' = {Answer(held[w])} \cup DOMAIN batches
            /\ held[w] # Nil /\ UNCHANGED held /\ answered' \subseteq answered \cup {w}
        BY <1>5, <2>5 DEF EnqueueAnswer, InDialog
      <3> QED BY <3>1 DEF AnswersQueued, Answer
    <2> QED BY <1>6, <2>1, <2>2, <2>3, <2>4, <2>5 DEF Work
  <1>7. CASE Produce
    BY <1>2, <1>7 DEF Produce, Assign, CountForLimit, AssignLimited, ScheduleOrReplace,
                      LookUpEdited, UpdatePendingSchedule, RestartJob, outboxVars
  <1>8. CASE Maintain
    <2>1. UNCHANGED claimVars /\ DOMAIN batches \subseteq DOMAIN batches'
      BY <1>8 DEF Maintain, SettleBatch, ResolveBatch, Cancel, Delete,
                  CleanPlaceholder, CancelUserJobs, RequeueExpired, FailStuck,
                  EvictTerminal, outboxVars
    <2> QED BY <1>1, <2>1
  <1>9. CASE Tick \/ UNCHANGED queueVars
    BY <1>2, <1>9 DEF Tick, queueVars, outboxVars
  <1>10. ASSUME NEW b \in DOMAIN batches, ScanBatch(b)
         PROVE  UNCHANGED <<claimVars, batches>>
    BY <1>10 DEF ScanBatch, TakeUp
  <1> QED BY <1>2, <1>6, <1>7, <1>8, <1>9, <1>10 DEF QueueNext

WaitingHasAnswer ==
  \A i \in Ids : jobs[i].status = "WaitingDelivery" => Answer(i) \in DOMAIN batches

LEMMA OwnedStep ==
  ASSUME TypeOK, AnswersQueued, WaitingHasAnswer, [QueueNext]_queueVars
  PROVE  WaitingHasAnswer'
  <1>1. DOMAIN batches \subseteq DOMAIN batches'
    BY AnswersStep
  <1>2. CASE NoRevival
    BY <1>1, <1>2 DEF NoRevival, WaitingHasAnswer, AnswersQueued, Running, Answer
  <1>3. ASSUME NEW w \in WorkerIds, Dequeue(w)
        PROVE  WaitingHasAnswer'
    BY <1>1, <1>3, ClaimStep DEF WaitingHasAnswer, Answer
  <1> QED BY <1>2, <1>3, StepKinds

\* A wait goes on while other jobs are written, and its own record keeps its status.
LEMMA WaitGoesOn ==
  ASSUME TypeOK, NEW i \in Ids, jobs[i].status = "WaitingDelivery",
         \/ UNCHANGED jobs
         \/ \E k \in Ids : \E r : Update(k, r) /\ (k = i => r.status = "WaitingDelivery")
         \/ \E r : Push(r)
         \/ \E table, S : /\ Commit(table, S) /\ i \in DOMAIN table
                          /\ table[i] = jobs[i]
  PROVE  WaitsForDelivery(jobs', i)
  <1>1. ASSUME NEW k \in Ids, NEW r, Update(k, r), k = i => r.status = "WaitingDelivery"
        PROVE  WaitsForDelivery(jobs', i)
    BY <1>1 DEF Update, Commit, WaitsForDelivery, Ids
  <1>2. ASSUME NEW r, Push(r)
        PROVE  WaitsForDelivery(jobs', i)
    <2>1. i # next_id
      BY DEF TypeOK
    <2> QED BY <1>2, <2>1 DEF Push, Commit, WaitsForDelivery, Ids
  <1> QED BY <1>1, <1>2 DEF Commit, WaitsForDelivery, Ids

LEMMA ProduceWaits ==
  ASSUME TypeOK, NEW i \in Ids, jobs[i].status = "WaitingDelivery", Produce
  PROVE  WaitsForDelivery(jobs', i)
  <1>1. ASSUME NEW u \in Updates, ScheduleOrReplace(u)
        PROVE  WaitsForDelivery(jobs', i)
    <2>1. \/ \E r : Push(r)
          \/ \E k \in Ids : \E r : Update(k, r) /\ jobs[k].status = "Pending"
      BY <1>1 DEF ScheduleOrReplace, Debouncing
    <2> QED BY <2>1, WaitGoesOn
  <1>2. ASSUME NEW c \in Callers, UpdatePendingSchedule(c)
        PROVE  WaitsForDelivery(jobs', i)
    <2>1. \/ UNCHANGED jobs
          \/ \E k \in Ids : \E r : Update(k, r) /\ jobs[k].status = "Pending"
      BY <1>2 DEF UpdatePendingSchedule
    <2> QED BY <2>1, WaitGoesOn
  <1>3. ASSUME NEW q, Assign(q)
        PROVE  WaitsForDelivery(jobs', i)
    BY <1>3, WaitGoesOn DEF Assign
  <1>4. ASSUME NEW c, AssignLimited(c)
        PROVE  WaitsForDelivery(jobs', i)
    BY <1>4, WaitGoesOn DEF AssignLimited
  <1>5. ASSUME NEW k, RestartJob(k)
        PROVE  WaitsForDelivery(jobs', i)
    BY <1>5, WaitGoesOn DEF RestartJob
  <1>6. ASSUME NEW c, NEW q, CountForLimit(c, q) \/ LookUpEdited(c, q)
        PROVE  WaitsForDelivery(jobs', i)
    BY <1>6, WaitGoesOn DEF CountForLimit, LookUpEdited
  <1> QED BY <1>1, <1>2, <1>3, <1>4, <1>5, <1>6 DEF Produce

LEMMA WorkWaits ==
  ASSUME TypeOK, NEW i \in Ids, jobs[i].status = "WaitingDelivery",
         NEW w \in WorkerIds, Work(w)
  PROVE  WaitsForDelivery(jobs', i) \/ EndsWait(i)
  <1>0. /\ \A k \in Ids : jobs[k] \in Records
        /\ held \in [WorkerIds -> (1 .. next_id - 1) \cup {Nil}]
    BY DEF TypeOK
  <1>1. ASSUME Drop(w), held[w] = i, w \in answered => batches[Answer(i)] = "delivered"
        PROVE  EndsWait(i)
    <2>1. held'[w] = Nil
      BY <1>0, <1>1 DEF Drop
    <2> QED BY <1>1, <2>1 DEF EndsWait
  <1>2. CASE Dequeue(w)
    <2>1. \E k \in Ids : \E r : Update(k, r) /\ jobs[k].status = "Pending"
      BY <1>2 DEF Dequeue, NextPending, Eligible
    <2> QED BY <2>1, WaitGoesOn
  <1>3. CASE CheckpointAgent(w) \/ SetExecutionStarted(w) \/ PostPlaceholder(w)
    <2>1. held[w] \in Ids /\ jobs[held[w]] \in Records
      BY <1>0, <1>3 DEF CheckpointAgent, SetExecutionStarted, PostPlaceholder
    <2>2. PICK old \in Records : old = jobs[held[w]]
      BY <2>1
    <2>3. PICK n : n = IF old.resume_count = Nil THEN 0 ELSE old.resume_count
      OBVIOUS
    <2>4. /\ [old EXCEPT !.resume_count = n].status = old.status
          /\ [old EXCEPT !.execution_started_at = now].status = old.status
          /\ [old EXCEPT !.placeholder = TRUE].status = old.status
      BY DEF Records
    <2>5. \E r : Update(held[w], r) /\ r.status = old.status
      <3>1. CASE CheckpointAgent(w)
        BY <2>2, <2>3, <2>4, <3>1 DEF CheckpointAgent
      <3>2. CASE SetExecutionStarted(w)
        BY <2>2, <2>4, <3>2 DEF SetExecutionStarted
      <3>3. CASE PostPlaceholder(w)
        BY <2>2, <2>4, <3>3 DEF PostPlaceholder
      <3> QED BY <1>3, <3>1, <3>2, <3>3
    <2> QED BY <2>1, <2>2, <2>5, WaitGoesOn
  <1>4. CASE SendInterim(w) \/ EnqueueAnswer(w)
    BY <1>4, WaitGoesOn DEF SendInterim, EnqueueAnswer
  <1>5. CASE WaitForDelivery(w)
    <2>1. \/ UNCHANGED jobs
          \/ \E k \in Ids : \E r : Update(k, r) /\ jobs[k].status = "Processing"
      BY <1>5 DEF WaitForDelivery, OnHeld, Handover
    <2> QED BY <2>1, WaitGoesOn
  <1>6. ASSUME NEW s \in {"Completed", "Failed"}, Finish(w, s)
        PROVE  WaitsForDelivery(jobs', i) \/ EndsWait(i)
    <2>1. CASE held[w] = i
      BY <1>1, <1>6, <2>1 DEF Finish
    <2>2. CASE held[w] # i
      <3>1. \/ UNCHANGED jobs
            \/ \E k \in Ids : \E r : Update(k, r) /\ k # i
        BY <1>6, <2>2 DEF Finish, OnHeld, Finalize
      <3> QED BY <3>1, WaitGoesOn
    <2> QED BY <2>1, <2>2
  <1>7. CASE Requeue(w)
    <2>1. CASE held[w] = i
      BY <1>1, <1>7, <2>1 DEF Requeue
    <2>2. CASE held[w] # i
      <3>1. \/ UNCHANGED jobs
            \/ \E k \in Ids : \E r : Update(k, r) /\ k # i
        BY <1>7, <2>2 DEF Requeue, OnHeld, RequeueJob
      <3> QED BY <3>1, WaitGoesOn
    <2> QED BY <2>1, <2>2
  <1> QED BY <1>2, <1>3, <1>4, <1>5, <1>6, <1>7 DEF Work

LEMMA MaintainWaits ==
  ASSUME TypeOK, NEW i \in Ids, jobs[i].status = "WaitingDelivery", Maintain
  PROVE  WaitsForDelivery(jobs', i) \/ EndsWait(i)
  <1>0. /\ jobs[i] \in Records /\ now \in Nat /\ "Cancelled" \in TerminalStatuses
        /\ MarkTerminal(jobs[i], "Cancelled", now).status = "Cancelled"
    BY MarkTerminalType DEF TypeOK, TerminalStatuses
  <1>1. ASSUME NEW b \in DOMAIN batches, NEW o, SettleBatch(b, o)
        PROVE  WaitsForDelivery(jobs', i)
    BY <1>1, WaitGoesOn DEF SettleBatch
  <1>2. ASSUME NEW b \in DOMAIN batches, ResolveBatch(b)
        PROVE  WaitsForDelivery(jobs', i) \/ EndsWait(i)
    <2>1. CASE b[1] = i
      BY <1>2, <2>1 DEF ResolveBatch, EndsWait
    <2>2. CASE b[1] # i
      <3>1. \/ UNCHANGED jobs
            \/ \E k \in Ids : \E r : Update(k, r) /\ k # i
        BY <1>2, <2>2 DEF ResolveBatch, Finalize
      <3> QED BY <3>1, WaitGoesOn
    <2> QED BY <2>1, <2>2
  <1>3. ASSUME NEW k \in Ids, Cancel(k)
        PROVE  WaitsForDelivery(jobs', i) \/ EndsWait(i)
    <2>1. Update(k, MarkTerminal(jobs[k], "Cancelled", now))
      BY <1>3 DEF Cancel, Finalize
    <2>2. CASE k = i
      BY <1>0, <2>1, <2>2 DEF Update, Commit, EndsWait, Ids
    <2>3. CASE k # i
      BY <2>1, <2>3, WaitGoesOn
    <2> QED BY <2>2, <2>3
  <1>4. ASSUME NEW k \in Ids, Delete(k)
        PROVE  WaitsForDelivery(jobs', i) \/ EndsWait(i)
    BY <1>4 DEF Delete, WaitsForDelivery, EndsWait, Ids
  <1>5. ASSUME NEW k \in Ids, CleanPlaceholder(k)
        PROVE  WaitsForDelivery(jobs', i)
    <2>1. PICK old \in Records : old = jobs[k]
      BY DEF TypeOK
    <2>2. [old EXCEPT !.placeholder = FALSE].status = old.status
      BY DEF Records
    <2>3. \E r : Update(k, r) /\ (k = i => r.status = "WaitingDelivery")
      BY <1>5, <2>1, <2>2 DEF CleanPlaceholder
    <2> QED BY <2>3, WaitGoesOn
  <1>6. ASSUME NEW u, NEW c, CancelUserJobs(u, c)
        PROVE  WaitsForDelivery(jobs', i) \/ EndsWait(i)
    <2>1. PICK S : jobs' = [k \in Ids |-> IF k \in S THEN MarkTerminal(jobs[k], "Cancelled", now)
                                           ELSE jobs[k]]
      BY <1>6 DEF CancelUserJobs, Commit
    <2> QED BY <1>0, <2>1 DEF WaitsForDelivery, EndsWait
  <1>7. CASE RequeueExpired
    <2> DEFINE S == {k \in Ids : Expired(jobs[k], now)}
    <2>1. i \notin S /\ S \in SUBSET DOMAIN jobs
      BY DEF Expired, StartedBefore, Ids
    <2>2. /\ DOMAIN RequeueAll(jobs, S) = Ids
          /\ RequeueAll(jobs, S)[i] = jobs[i]
      BY <2>1 DEF RequeueAll, Ids
    <2>3. Commit(RequeueAll(jobs, S), S)
      BY <1>7 DEF RequeueExpired
    <2> HIDE DEF S
    <2> QED BY <2>2, <2>3, WaitGoesOn
  <1>8. CASE FailStuck
    <2>1. PICK S : /\ i \notin S
                   /\ jobs' = [k \in Ids |-> IF k \in S THEN MarkTerminal(jobs[k], "Failed", now)
                                             ELSE jobs[k]]
      BY <1>8 DEF FailStuck, Commit, StartedBefore
    <2> QED BY <2>1 DEF WaitsForDelivery
  <1>9. CASE EvictTerminal
    <2>1. i \notin Evictable(jobs, now - Retention, KeepPerQueue)
      BY DEF Evictable, Active, ActiveStatuses
    <2> QED BY <1>9, <2>1 DEF EvictTerminal, WaitsForDelivery
  <1> QED BY <1>1, <1>2, <1>3, <1>4, <1>5, <1>6, <1>7, <1>8, <1>9 DEF Maintain

LEMMA WaitStep ==
  ASSUME TypeOK, NEW i \in Ids, jobs[i].status = "WaitingDelivery", [QueueNext]_queueVars
  PROVE  WaitsForDelivery(jobs', i) \/ EndsWait(i)
  <1>1. CASE Tick \/ UNCHANGED queueVars
    BY <1>1, WaitGoesOn DEF Tick, queueVars
  <1>2. ASSUME NEW b \in DOMAIN batches, ScanBatch(b)
        PROVE  WaitsForDelivery(jobs', i)
    BY <1>2, WaitGoesOn DEF ScanBatch, TakeUp
  <1> QED BY <1>1, <1>2, ProduceWaits, WorkWaits, MaintainWaits DEF QueueNext

\* A job that waits for delivery has its answer in the outbox, also when the
\* reply of the outbox transaction was lost and the turn ran again, and no
\* time-out, sweep, claim or merge ends its wait, for any number of workers.
THEOREM WaitingIsOwned == QueueSpec => DeliveryIsOwned
  <1>1. QueueInit => AnswersQueued /\ WaitingHasAnswer
    BY DEF QueueInit, AnswersQueued, WaitingHasAnswer, Ids
  <1>2. QueueSpec => [](TypeOK /\ AnswersQueued /\ WaitingHasAnswer)
    BY <1>1, InitType, NextType, AnswersStep, OwnedStep, PTL DEF QueueSpec
  <1>3. ASSUME TypeOK, WaitingHasAnswer, [QueueNext]_queueVars
        PROVE  [\A i \in Ids : jobs[i].status = "WaitingDelivery" =>
                  /\ Answer(i) \in DOMAIN batches
                  /\ WaitsForDelivery(jobs', i) \/ EndsWait(i)]_queueVars
    BY <1>3, WaitStep DEF WaitingHasAnswer
  <1> QED BY <1>2, <1>3, PTL DEF QueueSpec, DeliveryIsOwned

-----------------------------------------------------------------------------
(* Aging of the accelerator classes.                                          *)

LEMMA AgedPriority ==
  ASSUME NEW r \in Records, NEW t \in Nat
  PROVE  /\ EffectivePriority(r, t) \in Int
         /\ r.job.priority <= AsrPriority /\ ~ VipImage(r) =>
              EffectivePriority(r, t) <= AsrPriority
         /\ VipImage(r) /\ t >= r.job.created + 2 * AgeStep =>
              EffectivePriority(r, t) >= ImageVipPriorityCeiling
  <1> DEFINE vip     == VipImage(r)
             p       == r.job.priority
             base    == IF vip /\ p < ImageVipPriority THEN ImageVipPriority ELSE p
             ceiling == IF vip THEN ImageVipPriorityCeiling ELSE AsrPriority
             age     == IF t > r.job.created THEN t - r.job.created ELSE 0
             room    == IF ceiling > base THEN ceiling - base ELSE 0
             earned  == age \div AgeStep
  <1>1. EffectivePriority(r, t) = base + (IF earned < room THEN earned ELSE room)
    BY DEF EffectivePriority
  <1>2. vip \in BOOLEAN /\ p \in Int /\ r.job.created \in Nat
    BY DEF VipImage, Records, Jobs
  <1>3. age \in Nat
    BY <1>2
  <1>4. AgeStep \in Nat /\ AgeStep > 0
    BY AgeStepAssumption
  <1> HIDE DEF age, vip, p
  <1>5. earned \in Int
    BY <1>3, <1>4
  <1>6. age >= 2 * AgeStep => earned >= 2
    BY <1>3, <1>4
  <1> HIDE DEF earned
  <1>7. EffectivePriority(r, t) \in Int
    BY <1>1, <1>2, <1>5 DEF AsrPriority, ImageVipPriority, ImageVipPriorityCeiling
  <1>8. p <= AsrPriority /\ ~ vip => EffectivePriority(r, t) <= AsrPriority
    BY <1>1, <1>2, <1>5 DEF AsrPriority, ImageVipPriority, ImageVipPriorityCeiling
  <1>9. vip /\ age >= 2 * AgeStep => EffectivePriority(r, t) >= ImageVipPriorityCeiling
    BY <1>1, <1>2, <1>5, <1>6 DEF AsrPriority, ImageVipPriority, ImageVipPriorityCeiling
  <1>10. t >= r.job.created + 2 * AgeStep => age >= 2 * AgeStep
    BY <1>2, <1>4 DEF age
  <1> QED BY <1>7, <1>8, <1>9, <1>10 DEF vip, p

\* Aged work is served before younger work of the other non-VIP classes, and a
\* VIP image escapes them all after two intervals, for every aging interval.
THEOREM AgingIsFair == QueueSpec => [](AgedWorkIsNotOvertaken /\ VipEscapes)
  <1>1. TypeOK => AgedWorkIsNotOvertaken /\ VipEscapes
    <2> SUFFICES ASSUME TypeOK
                 PROVE  AgedWorkIsNotOvertaken /\ VipEscapes
      OBVIOUS
    <2>1. now \in Nat /\ \A i \in Ids : jobs[i] \in Records /\ jobs[i].job \in Jobs
      BY DEF TypeOK, Records
    <2>2. AsrPriority = 6 /\ ImageVipPriorityCeiling = 7
      BY DEF AsrPriority, ImageVipPriorityCeiling
    <2>3. AgedWorkIsNotOvertaken
      <3> SUFFICES ASSUME NEW i \in Ids, NEW j \in Ids,
                          EffectivePriority(jobs[i], now) >= AsrPriority,
                          jobs[i].job.created < jobs[j].job.created,
                          jobs[j].job.priority <= AsrPriority, ~ VipImage(jobs[j])
                   PROVE  AcceleratorBefore(jobs, i, j, now)
        BY DEF AgedWorkIsNotOvertaken
      <3>1. /\ EffectivePriority(jobs[i], now) \in Int
            /\ EffectivePriority(jobs[j], now) \in Int
            /\ EffectivePriority(jobs[j], now) <= AsrPriority
        BY <2>1, AgedPriority
      <3> QED BY <2>2, <3>1 DEF AcceleratorBefore
    <2>4. VipEscapes
      <3> SUFFICES ASSUME NEW i \in Ids, NEW j \in Ids,
                          VipImage(jobs[i]), ~ VipImage(jobs[j]),
                          now >= jobs[i].job.created + 2 * AgeStep,
                          jobs[j].job.priority <= AsrPriority
                   PROVE  AcceleratorBefore(jobs, i, j, now)
        BY DEF VipEscapes
      <3>1. /\ EffectivePriority(jobs[i], now) \in Int
            /\ EffectivePriority(jobs[j], now) \in Int
            /\ EffectivePriority(jobs[i], now) >= ImageVipPriorityCeiling
            /\ EffectivePriority(jobs[j], now) <= AsrPriority
        BY <2>1, AgedPriority
      <3> QED BY <2>2, <3>1 DEF AcceleratorBefore
    <2> QED BY <2>3, <2>4
  <1> QED BY <1>1, TypeCorrect, PTL

-----------------------------------------------------------------------------
(* Somebody is eligible.  Both gates look at a strict order, and a finite    *)
(* set has a best element under one.                                         *)

LEMMA LeastNatural ==
  ASSUME NEW T \in SUBSET Nat, T # {}
  PROVE  \E n \in T : \A k \in T : n <= k
  <1>1. PICK n \in T : \A k \in T : <<k, n>> \notin OpToRel(<, Nat)
    BY NatLessThanWellFounded, WFMin
  <1>2. ASSUME NEW k \in T
        PROVE  n <= k
    <2>1. ~ (k < n)
      BY <1>1 DEF OpToRel
    <2> QED BY <2>1
  <1> QED BY <1>2

\* A strict order on a finite set leaves somebody whom nobody precedes: of two
\* sets without a best element the smaller one is no counterexample.
LEMMA SomebodyIsBest ==
  ASSUME NEW S, IsFiniteSet(S), S # {}, NEW R,
         \A x \in S : <<x, x>> \notin R,
         \A x, y, z \in S : <<x, y>> \in R /\ <<y, z>> \in R => <<x, z>> \in R
  PROVE  \E x \in S : \A y \in S : <<y, x>> \notin R
  <1> DEFINE Best(A) == \E x \in A : \A y \in A : <<y, x>> \notin R
             Worse == {A \in SUBSET S : A # {} /\ ~ Best(A)}
             T == {Cardinality(A) : A \in Worse}
  <1>1. SUFFICES ASSUME Worse # {}
                 PROVE  FALSE
    OBVIOUS
  <1>2. \A A \in Worse : IsFiniteSet(A) /\ Cardinality(A) \in Nat
    BY FS_Subset, FS_CardinalityType
  <1>3. T \in SUBSET Nat /\ T # {}
    BY <1>1, <1>2
  <1>4. PICK A \in Worse : \A B \in Worse : Cardinality(A) <= Cardinality(B)
    <2> HIDE DEF Worse
    <2>1. PICK n \in T : \A k \in T : n <= k
      BY <1>3, LeastNatural
    <2> QED BY <2>1
  <1>5. PICK a \in A : TRUE
    OBVIOUS
  <1>6. A \ {a} \in SUBSET S /\ Cardinality(A \ {a}) = Cardinality(A) - 1
    BY <1>2, <1>5, FS_RemoveElement
  <1>7. A \ {a} \notin Worse
    <2> HIDE DEF Worse
    <2> QED BY <1>2, <1>4, <1>6
  <1>8. CASE A \ {a} = {}
    BY <1>5, <1>8
  <1>9. CASE A \ {a} # {}
    <2>1. PICK b \in A \ {a} : \A y \in A \ {a} : <<y, b>> \notin R
      BY <1>6, <1>7, <1>9
    <2>2. CASE <<a, b>> \in R
      <3>1. \A y \in A : <<y, a>> \notin R
        BY <1>5, <2>1, <2>2
      <3> QED BY <1>5, <3>1
    <2>3. CASE <<a, b>> \notin R
      BY <1>5, <2>1, <2>3
    <2> QED BY <2>2, <2>3
  <1> QED BY <1>8, <1>9

\* What the code needs of its two orders: nobody precedes himself, and who
\* precedes a better one precedes the others.
LEMMA GoOrder ==
  ASSUME NEW t, NEW S \in SUBSET Nat, \A i \in S : t[i] \in Records
  PROVE  /\ \A i \in S : ~ GoBefore(t, i, i)
         /\ \A i, j, k \in S : GoBefore(t, i, j) /\ GoBefore(t, j, k) => GoBefore(t, i, k)
  <1>1. \A i \in S : t[i].job.priority \in Int /\ t[i].job.created \in Nat
    BY DEF Records, Jobs
  <1> QED BY <1>1 DEF GoBefore

LEMMA AcceleratorOrder ==
  ASSUME NEW t, NEW S \in SUBSET Nat, \A i \in S : t[i] \in Records, NEW n \in Nat
  PROVE  /\ \A i \in S : ~ AcceleratorBefore(t, i, i, n)
         /\ \A i, j, k \in S : AcceleratorBefore(t, i, j, n) /\ AcceleratorBefore(t, j, k, n)
                                 => AcceleratorBefore(t, i, k, n)
  <1>1. \A i \in S : EffectivePriority(t[i], n) \in Int /\ t[i].job.created \in Nat
    <2> SUFFICES ASSUME NEW i \in S
                 PROVE  EffectivePriority(t[i], n) \in Int /\ t[i].job.created \in Nat
      OBVIOUS
    <2>1. t[i].job.priority \in Int /\ t[i].job.created \in Nat
      BY DEF Records, Jobs
    <2> DEFINE age == IF n > t[i].job.created THEN n - t[i].job.created ELSE 0
    <2>2. age \in Nat
      BY <2>1
    <2>3. age \div AgeStep \in Int
      <3> HIDE DEF age
      <3> QED BY <2>2, AgeStepAssumption
    <2> QED BY <2>1, <2>3 DEF EffectivePriority, ImageVipPriority, ImageVipPriorityCeiling, AsrPriority
  <1> QED BY <1>1 DEF AcceleratorBefore

\* While nothing runs, the best accelerator job passes both gates; without
\* accelerator work the best of all does.
LEMMA BestIsEligible ==
  ASSUME TypeOK, NEW i \in Ids, jobs[i].status = "Pending", Available(jobs[i], now),
         \A j \in Ids : ~ Running(jobs[j])
  PROVE  \E j \in Ids : Eligible(jobs, j, jobs[j].queue, JobTypes, now)
  <1> DEFINE Ready == {j \in Ids : jobs[j].status = "Pending" /\ Available(jobs[j], now)}
             Heavy == {j \in Ready : IsAccelerator(jobs[j])}
  <1>1. /\ Ids \in SUBSET Nat /\ IsFiniteSet(Ids) /\ now \in Nat
        /\ \A j \in Ids : jobs[j] \in Records
    <2>1. Ids \in SUBSET (1 .. next_id - 1) /\ next_id \in Nat
      BY DEF TypeOK
    <2>2. IsFiniteSet(1 .. next_id - 1)
      BY <2>1, FS_Interval
    <2>3. IsFiniteSet(Ids)
      BY <2>1, <2>2, FS_Subset
    <2> QED BY <2>1, <2>3 DEF TypeOK
  <1>2. /\ Ready \in SUBSET Ids /\ Heavy \in SUBSET Ids /\ i \in Ready
        /\ IsFiniteSet(Ready) /\ IsFiniteSet(Heavy)
    <2>1. Ready \in SUBSET Ids /\ Heavy \in SUBSET Ids /\ i \in Ready
      OBVIOUS
    <2> HIDE DEF Ready, Heavy
    <2> QED BY <1>1, <2>1, FS_Subset
  <1>3. \A j \in Ids : jobs[j].job.type \in JobTypes
    BY <1>1 DEF Records, Jobs
  <1>4. CASE Heavy # {}
    <2> DEFINE R == {p \in Heavy \X Heavy : AcceleratorBefore(jobs, p[1], p[2], now)}
    <2>1. /\ \A x \in Heavy : <<x, x>> \notin R
          /\ \A x, y, z \in Heavy : <<x, y>> \in R /\ <<y, z>> \in R => <<x, z>> \in R
      <3> HIDE DEF Heavy
      <3>1. /\ \A x \in Heavy : ~ AcceleratorBefore(jobs, x, x, now)
            /\ \A x, y, z \in Heavy :
                 AcceleratorBefore(jobs, x, y, now) /\ AcceleratorBefore(jobs, y, z, now)
                   => AcceleratorBefore(jobs, x, z, now)
        BY <1>1, <1>2, AcceleratorOrder
      <3> QED BY <3>1
    <2>2. PICK b \in Heavy : \A y \in Heavy : <<y, b>> \notin R
      <3> HIDE DEF Heavy, R
      <3> QED BY <1>2, <1>4, <2>1, SomebodyIsBest
    <2>3. b \in Ids /\ IsAccelerator(jobs[b]) /\ ~ InDialogLane(jobs[b])
      BY DEF IsAccelerator, InDialogLane
    <2>4. ~ AcceleratorBlocked(jobs, b, now)
      <3> SUFFICES ASSUME NEW j \in Ids, IsAccelerator(jobs[j]),
                          \/ jobs[j].status = "Processing"
                          \/ jobs[j].status = "Pending" /\ Available(jobs[j], now),
                          AcceleratorBefore(jobs, j, b, now)
                   PROVE  FALSE
        BY DEF AcceleratorBlocked, Ids
      <3>1. j \in Heavy
        BY DEF Running
      <3> QED BY <2>2, <3>1
    <2> QED BY <1>3, <2>3, <2>4 DEF Eligible, LaneBlocked
  <1>5. CASE Heavy = {}
    <2> DEFINE R == {p \in Ready \X Ready : GoBefore(jobs, p[1], p[2])}
    <2>1. /\ \A x \in Ready : <<x, x>> \notin R
          /\ \A x, y, z \in Ready : <<x, y>> \in R /\ <<y, z>> \in R => <<x, z>> \in R
      <3> HIDE DEF Ready
      <3>1. /\ \A x \in Ready : ~ GoBefore(jobs, x, x)
            /\ \A x, y, z \in Ready :
                 GoBefore(jobs, x, y) /\ GoBefore(jobs, y, z) => GoBefore(jobs, x, z)
        BY <1>1, <1>2, GoOrder
      <3> QED BY <3>1
    <2>2. PICK b \in Ready : \A y \in Ready : <<y, b>> \notin R
      <3> HIDE DEF Ready, R
      <3> QED BY <1>2, <2>1, SomebodyIsBest
    <2>3. b \in Ids /\ ~ IsAccelerator(jobs[b])
      BY <1>5
    <2>4. ~ LaneBlocked(jobs, b, now)
      <3> SUFFICES ASSUME NEW j \in Ids, jobs[j].status = "Pending",
                          Available(jobs[j], now), GoBefore(jobs, j, b)
                   PROVE  FALSE
        BY DEF LaneBlocked, Ids
      <3>1. j \in Ready
        OBVIOUS
      <3> QED BY <2>2, <3>1
    <2> QED BY <1>3, <2>3, <2>4 DEF Eligible, AcceleratorBlocked
  <1> QED BY <1>4, <1>5

\* The gates never block each other: while lanes and accelerator are idle, some
\* available job passes both, for any jobs, priorities, ages and lanes.
THEOREM WorkIsNotWithheld == QueueSpec => []SomethingIsEligible
  <1>1. TypeOK => SomethingIsEligible
    BY BestIsEligible DEF SomethingIsEligible
  <1> QED BY <1>1, TypeCorrect, PTL

-----------------------------------------------------------------------------
(* What a step leaves to the journal and to whoever reads a record later.    *)

Bounded(r) == \A m \in Msgs : r.pending_dialog_inputs[m] <= r.latest_update_id

\* The newer record knows every update the older one knew, and no older text.
KeepsInputs(r, s) ==
  /\ s.queue = r.queue
  /\ r.source_update_ids \subseteq s.source_update_ids
  /\ \A m \in Msgs : r.pending_dialog_inputs[m] <= s.pending_dialog_inputs[m]

\* The record is the same piece of work; it may have lost its key.
SameClaim(r, s) == /\ s.queue = r.queue /\ s.job = r.job
                   /\ s.debounce_key \in {r.debounce_key, Nil}
                   /\ s.source_update_ids = r.source_update_ids

SameInputs(r, s) ==
  /\ SameClaim(r, s)
  /\ s.latest_update_id = r.latest_update_id
  /\ s.pending_dialog_inputs = r.pending_dialog_inputs

InputsBounded == \A i \in Ids : Bounded(jobs[i])

\* Only two methods bring a job an input; whatever else is born has none.
Scheduling == \/ \E u \in Updates : ScheduleOrReplace(u)
              \/ \E c \in Callers : UpdatePendingSchedule(c)

Unclaimed(r) == r.debounce_key = Nil /\ r.source_update_ids = {}

Kept(r, s) == KeepsInputs(r, s) /\ (Scheduling \/ SameClaim(r, s))

\* A record that changed is in the buffer as it is now, the others are there if
\* they were; a record that left the table left its removal, or nothing new.
Logged ==
  /\ next_id <= next_id'
  /\ DOMAIN dirty \subseteq DOMAIN dirty'
  /\ \A i \in Ids' :
       \/ i \in DOMAIN dirty' /\ dirty'[i] = jobs'[i]
       \/ /\ i \in Ids /\ jobs'[i] = jobs[i]
          /\ i \in DOMAIN dirty' <=> i \in DOMAIN dirty
          /\ i \in DOMAIN dirty => dirty'[i] = dirty[i]
  /\ \A i \in DOMAIN dirty' \ Ids' :
       dirty'[i] = Deleted \/ (i \in DOMAIN dirty /\ dirty'[i] = dirty[i])
  /\ \A i \in Ids' : /\ Bounded(jobs'[i])
                     /\ \/ i >= next_id /\ (Scheduling \/ Unclaimed(jobs'[i]))
                        \/ i \in Ids /\ Kept(jobs[i], jobs'[i])

LEMMA SameInputsKept ==
  ASSUME NEW r \in Records, NEW s, SameInputs(r, s), Bounded(r)
  PROVE  Bounded(s) /\ Kept(r, s)
  <1>1. r.pending_dialog_inputs \in [Msgs -> Nat]
    BY DEF Records
  <1> QED BY <1>1 DEF SameInputs, SameClaim, Bounded, Kept, KeepsInputs

\* A schedule that is newer brings its own text, any other leaves the text.
LEMMA ScheduleKeepsInputs ==
  ASSUME NEW r \in Records, NEW s,
         s \in [job : Jobs, key : Keys \cup {Nil}, available_at : Nat,
                sources : SUBSET Nat, latest : Nat, inputs : [Msgs -> Nat]],
         \A m \in Msgs : s.inputs[m] \in {0, s.latest}, Bounded(r)
  PROVE  Bounded(ApplySchedule(r, s)) /\ KeepsInputs(r, ApplySchedule(r, s))
  <1> DEFINE q == ApplySchedule(r, s)
             inputs == [m \in Msgs |-> IF s.inputs[m] # 0 THEN s.inputs[m]
                                       ELSE r.pending_dialog_inputs[m]]
  <1>1. /\ r.pending_dialog_inputs \in [Msgs -> Nat] /\ r.latest_update_id \in Nat
        /\ s.inputs \in [Msgs -> Nat] /\ s.latest \in Nat
    BY DEF Records
  <1>2. q.source_update_ids = r.source_update_ids \cup s.sources /\ q.queue = r.queue
    BY DEF ApplySchedule, Records
  <1>3. CASE ScheduleIsNewer(r.latest_update_id, s.latest)
    <2>1. q.pending_dialog_inputs = inputs /\ q.latest_update_id = s.latest
      BY <1>3 DEF ApplySchedule, Records
    <2>2. r.latest_update_id <= s.latest
      BY <1>1, <1>3 DEF ScheduleIsNewer
    <2>3. \A m \in Msgs : /\ r.pending_dialog_inputs[m] <= inputs[m]
                          /\ inputs[m] <= s.latest
      BY <1>1, <2>2 DEF Bounded
    <2> QED BY <1>2, <2>1, <2>3 DEF Bounded, KeepsInputs
  <1>4. CASE ~ ScheduleIsNewer(r.latest_update_id, s.latest)
    <2>1. /\ q.pending_dialog_inputs = r.pending_dialog_inputs
          /\ q.latest_update_id = r.latest_update_id
      BY <1>4 DEF ApplySchedule, Records
    <2> QED BY <1>1, <1>2, <2>1 DEF Bounded, KeepsInputs
  <1> QED BY <1>3, <1>4

LEMMA UnchangedLogged ==
  ASSUME TypeOK, InputsBounded, UNCHANGED <<jobs, dirty>>, next_id <= next_id'
  PROVE  Logged
  <1>1. \A i \in Ids : Kept(jobs[i], jobs[i])
    BY DEF TypeOK, Records, Kept, KeepsInputs, SameClaim
  <1> QED BY <1>1 DEF Logged, InputsBounded, Ids

LEMMA CommitLogged ==
  ASSUME TypeOK, InputsBounded, NEW table, DOMAIN table = Ids,
         NEW S \in SUBSET Ids, Commit(table, S), UNCHANGED next_id,
         \A i \in Ids \ S : table[i] = jobs[i],
         \A i \in S : Bounded(table[i]) /\ Kept(jobs[i], table[i])
  PROVE  Logged
  <1>1. /\ jobs' = table /\ Ids' = Ids /\ DOMAIN dirty' = S \cup DOMAIN dirty
        /\ \A i \in DOMAIN dirty' : dirty'[i] = IF i \in S THEN table[i] ELSE dirty[i]
    BY DEF Commit, Ids
  <1>2. \A i \in Ids : Kept(jobs[i], jobs[i])
    BY DEF TypeOK, Records, Kept, KeepsInputs, SameClaim
  <1>3. \A i \in Ids : Bounded(jobs'[i]) /\ Kept(jobs[i], jobs'[i])
    BY <1>1, <1>2 DEF InputsBounded
  <1>4. next_id' = next_id /\ next_id \in Nat
    BY DEF TypeOK
  <1> QED BY <1>1, <1>3, <1>4 DEF Logged

LEMMA UpdateLogged ==
  ASSUME TypeOK, InputsBounded, NEW i \in Ids, NEW r, Update(i, r), UNCHANGED next_id,
         Bounded(r) /\ Kept(jobs[i], r)
  PROVE  Logged
  <1> DEFINE table == [jobs EXCEPT ![i] = r]
  <1>1. /\ DOMAIN table = Ids /\ Commit(table, {i}) /\ {i} \in SUBSET Ids
        /\ \A j \in Ids \ {i} : table[j] = jobs[j]
        /\ \A j \in {i} : Bounded(table[j]) /\ Kept(jobs[j], table[j])
    BY DEF Update, Ids
  <1> HIDE DEF table
  <1> QED BY <1>1, CommitLogged

LEMMA ProgressLogged ==
  ASSUME TypeOK, InputsBounded, NEW i \in Ids, NEW r, Update(i, r), UNCHANGED next_id,
         SameInputs(jobs[i], r)
  PROVE  Logged
  <1>1. jobs[i] \in Records /\ Bounded(jobs[i])
    BY DEF TypeOK, InputsBounded
  <1> QED BY <1>1, SameInputsKept, UpdateLogged

LEMMA PushLogged ==
  ASSUME TypeOK, InputsBounded, NEW r, Push(r), Bounded(r),
         Scheduling \/ Unclaimed(r)
  PROVE  Logged
  <1>1. /\ next_id \notin Ids /\ next_id \in Nat /\ next_id' = next_id + 1
        /\ jobs' = [i \in Ids \cup {next_id} |-> IF i = next_id THEN r ELSE jobs[i]]
        /\ DOMAIN dirty' = {next_id} \cup DOMAIN dirty
        /\ \A i \in DOMAIN dirty' : dirty'[i] = IF i = next_id THEN jobs'[i] ELSE dirty[i]
    BY DEF Push, Commit, TypeOK
  <1>2. /\ Ids' = Ids \cup {next_id}
        /\ \A i \in Ids : jobs'[i] = jobs[i]
        /\ jobs'[next_id] = r
    BY <1>1 DEF Ids
  <1>3. \A i \in Ids : Kept(jobs[i], jobs[i])
    BY DEF TypeOK, Records, Kept, KeepsInputs, SameClaim
  <1> QED BY <1>1, <1>2, <1>3 DEF Logged, InputsBounded

\* A record leaves the table: its removal is written down, or nothing is.
LEMMA RemoveLogged ==
  ASSUME TypeOK, InputsBounded, NEW S \in SUBSET Ids,
         jobs' = [i \in Ids \ S |-> jobs[i]], UNCHANGED next_id,
         DOMAIN dirty \subseteq DOMAIN dirty', DOMAIN dirty' \subseteq DOMAIN dirty \cup S,
         \A i \in DOMAIN dirty' : \/ i \in S /\ dirty'[i] = Deleted
                                  \/ i \in DOMAIN dirty /\ dirty'[i] = dirty[i]
  PROVE  Logged
  <1>1. Ids' = Ids \ S /\ \A i \in Ids' : jobs'[i] = jobs[i]
    BY DEF Ids
  <1>2. \A i \in Ids : Kept(jobs[i], jobs[i])
    BY DEF TypeOK, Records, Kept, KeepsInputs, SameClaim
  <1>3. next_id' = next_id /\ next_id \in Nat
    BY DEF TypeOK
  <1> QED BY <1>1, <1>2, <1>3 DEF Logged, InputsBounded

LEMMA ProduceLogs ==
  ASSUME TypeOK, InputsBounded, Produce
  PROVE  Logged
  <1>0. /\ next_id \in Nat /\ call \in [Callers -> Calls] /\ now \in Nat
        /\ \A i \in Ids : jobs[i] \in Records /\ Bounded(jobs[i])
    BY DEF TypeOK, InputsBounded
  <1>f. ASSUME NEW queue, NEW job
        PROVE  /\ Bounded(NewRecord(queue, job, 0, Nil, {}, 0, NoInputs))
               /\ Unclaimed(NewRecord(queue, job, 0, Nil, {}, 0, NoInputs))
    BY DEF NewRecord, NoInputs, Bounded, Unclaimed
  <1>1. ASSUME NEW q \in Requests, Assign(q)
        PROVE  Logged
    BY <1>1, <1>f, PushLogged DEF Assign
  <1>2. ASSUME NEW c \in Callers, NEW q \in Limited, CountForLimit(c, q)
        PROVE  Logged
    BY <1>0, <1>2, UnchangedLogged DEF CountForLimit
  <1>3. ASSUME NEW c \in Callers, AssignLimited(c)
        PROVE  Logged
    BY <1>3, <1>f, PushLogged DEF AssignLimited
  <1>i. ASSUME NEW m \in Msgs, NEW u \in Nat
        PROVE  \A n \in Msgs : InputFrom(m, u)[n] \in {0, u}
    BY DEF InputFrom, NoInputs
  <1>4. ASSUME NEW u \in Updates, ScheduleOrReplace(u)
        PROVE  Logged
    <2> DEFINE sch == ScheduleOf(u)
    <2>1. /\ u.request \in AnyRequest /\ u.msg \in Msgs /\ u.id \in Nat /\ u.key \in Keys
          /\ DebounceDelay \in Nat
      BY QueueAssumption
    <2>2. /\ sch \in [job : Jobs, key : Keys \cup {Nil}, available_at : Nat,
                      sources : SUBSET Nat, latest : Nat, inputs : [Msgs -> Nat]]
          /\ \A m \in Msgs : sch.inputs[m] \in {0, sch.latest}
      <3>1. JobOf(u.request, u.msg) \in Jobs
        BY <1>0, <2>1, JobOfType
      <3>2. InputFrom(u.msg, u.id) \in [Msgs -> Nat]
        BY <2>1, InputFromType
      <3>3. sch.inputs = InputFrom(u.msg, u.id) /\ sch.latest = u.id
        BY DEF ScheduleOf
      <3>4. \A m \in Msgs : sch.inputs[m] \in {0, sch.latest}
        BY <1>i, <2>1, <3>3
      <3> QED BY <1>0, <2>1, <3>1, <3>2, <3>4 DEF ScheduleOf
    <2> HIDE DEF sch
    <2> DEFINE new == NewRecord(u.request.queue, sch.job, sch.available_at, sch.key,
                                sch.sources, sch.latest, sch.inputs)
    <2>3. CASE Push(new)
      <3>1. new.pending_dialog_inputs = sch.inputs /\ new.latest_update_id = sch.latest
        BY DEF NewRecord
      <3>2. Bounded(new)
        <4>1. sch.latest \in Nat
          BY <2>2
        <4> HIDE DEF new
        <4> QED BY <2>2, <3>1, <4>1 DEF Bounded
      <3> HIDE DEF new
      <3> QED BY <1>4, <2>3, <3>2, PushLogged DEF Scheduling
    <2>4. ASSUME NEW i \in Debouncing(u.request.queue, u.key),
                 Update(i, ApplySchedule(jobs[i], sch)), UNCHANGED next_id
          PROVE  Logged
      <3>1. i \in Ids
        BY DEF Debouncing
      <3> QED BY <1>0, <1>4, <2>2, <2>4, <3>1, ScheduleKeepsInputs, UpdateLogged
           DEF Kept, Scheduling
    <2> QED BY <1>4, <2>3, <2>4 DEF ScheduleOrReplace, sch
  <1>5. ASSUME NEW c \in Callers, NEW e \in Edits, LookUpEdited(c, e)
        PROVE  Logged
    BY <1>0, <1>5, UnchangedLogged DEF LookUpEdited
  <1>6. ASSUME NEW c \in Callers, UpdatePendingSchedule(c)
        PROVE  Logged
    <2> DEFINE i == call[c].id
               sch == EditSchedule(call[c])
    <2>1. CASE i \in Ids /\ jobs[i].status = "Pending"
      <3>1. call[c] \in [op : {"edit"}, edit : Edits, id : Nat, seen : Records]
        BY <1>0, <1>6 DEF UpdatePendingSchedule, Calls, NoCall
      <3>2. call[c].edit.id \in Nat /\ call[c].edit.msg \in Msgs
        BY <3>1, QueueAssumption
      <3>3. InputFrom(call[c].edit.msg, call[c].edit.id) \in [Msgs -> Nat]
        BY <3>2, InputFromType
      <3>4. sch \in [job : Jobs, key : Keys \cup {Nil}, available_at : Nat,
                     sources : SUBSET Nat, latest : Nat, inputs : [Msgs -> Nat]]
        BY <3>1, <3>2, <3>3 DEF EditSchedule, Records
      <3>5. /\ sch.inputs = InputFrom(call[c].edit.msg, call[c].edit.id)
            /\ sch.latest = call[c].edit.id
        BY DEF EditSchedule
      <3>6. \A m \in Msgs : sch.inputs[m] \in {0, sch.latest}
        BY <1>i, <3>2, <3>5
      <3>7. Update(i, ApplySchedule(jobs[i], sch)) /\ UNCHANGED next_id
        BY <1>6, <2>1 DEF UpdatePendingSchedule
      <3> HIDE DEF sch
      <3> QED BY <1>0, <1>6, <2>1, <3>4, <3>6, <3>7, ScheduleKeepsInputs, UpdateLogged
           DEF Kept, Scheduling
    <2>2. CASE ~ (i \in Ids /\ jobs[i].status = "Pending")
      BY <1>0, <1>6, <2>2, UnchangedLogged DEF UpdatePendingSchedule
    <2> QED BY <2>1, <2>2
  <1>7. ASSUME NEW i \in Ids, RestartJob(i)
        PROVE  Logged
    BY <1>7, <1>f, PushLogged DEF RestartJob
  <1> QED BY <1>1, <1>2, <1>3, <1>4, <1>5, <1>6, <1>7 DEF Produce

\* What a worker writes into its job never touches the inputs.
LEMMA WorkerWrites ==
  ASSUME NEW r \in Records
  PROVE  /\ \A w, t : SameInputs(r, Claimed(r, w, t))
         /\ SameInputs(r, BackToPending(r))
         /\ \A s, t : SameInputs(r, MarkTerminal(r, s, t))
         /\ \A n : SameInputs(r, [r EXCEPT !.resume_count = n])
         /\ \A w, n : SameInputs(r, [r EXCEPT !.worker_id = w, !.resume_count = n])
         /\ \A t : SameInputs(r, [r EXCEPT !.execution_started_at = t])
         /\ \A p : SameInputs(r, [r EXCEPT !.placeholder = p])
         /\ SameInputs(r, [r EXCEPT !.status = "WaitingDelivery", !.worker_id = Nil])
  BY DEF SameInputs, SameClaim, Records, Claimed, BackToPending, MarkTerminal

LEMMA FinalizeLogs ==
  ASSUME TypeOK, InputsBounded, NEW i \in Ids, NEW status, Finalize(i, status),
         UNCHANGED next_id
  PROVE  Logged
  <1>1. jobs[i] \in Records /\ next_id \in Nat
    BY DEF TypeOK
  <1>2. CASE Update(i, MarkTerminal(jobs[i], status, now))
    BY <1>1, <1>2, WorkerWrites, ProgressLogged
  <1>3. CASE UNCHANGED <<jobs, dirty>>
    BY <1>1, <1>3, UnchangedLogged
  <1> QED BY <1>2, <1>3 DEF Finalize

LEMMA WorkLogs ==
  ASSUME TypeOK, InputsBounded, NEW w \in WorkerIds, Work(w) \/ AdoptAgent(w)
  PROVE  Logged
  <1>0. next_id \in Nat /\ \A i \in Ids : jobs[i] \in Records
    BY DEF TypeOK
  <1>1. CASE Dequeue(w)
    <2>1. PICK i \in Ids : Update(i, Claimed(jobs[i], w, now))
      BY <1>1 DEF Dequeue
    <2>2. SameInputs(jobs[i], Claimed(jobs[i], w, now)) /\ UNCHANGED next_id
      BY <1>0, <1>1, WorkerWrites DEF Dequeue
    <2> QED BY <2>1, <2>2, ProgressLogged
  <1>2. CASE CheckpointAgent(w)
    <2>1. /\ Update(held[w], [jobs[held[w]] EXCEPT !.resume_count = IF @ = Nil THEN 0 ELSE @])
          /\ held[w] \in Ids /\ UNCHANGED next_id
      BY <1>2 DEF CheckpointAgent
    <2>2. SameInputs(jobs[held[w]],
                     [jobs[held[w]] EXCEPT !.resume_count = IF @ = Nil THEN 0 ELSE @])
      <3> DEFINE n == IF jobs[held[w]].resume_count = Nil THEN 0 ELSE jobs[held[w]].resume_count
      <3>1. SameInputs(jobs[held[w]], [jobs[held[w]] EXCEPT !.resume_count = n])
        <4> HIDE DEF n
        <4> QED BY <1>0, <2>1, WorkerWrites
      <3> QED BY <3>1
    <2> QED BY <2>1, <2>2, ProgressLogged
  <1>3. CASE SetExecutionStarted(w)
    <2>1. /\ Update(held[w], [jobs[held[w]] EXCEPT !.execution_started_at = now])
          /\ held[w] \in Ids /\ UNCHANGED next_id
      BY <1>3 DEF SetExecutionStarted
    <2> QED BY <1>0, <2>1, WorkerWrites, ProgressLogged
  <1>4. CASE PostPlaceholder(w)
    <2>1. /\ Update(held[w], [jobs[held[w]] EXCEPT !.placeholder = TRUE])
          /\ held[w] \in Ids /\ UNCHANGED next_id
      BY <1>4 DEF PostPlaceholder
    <2> QED BY <1>0, <2>1, WorkerWrites, ProgressLogged
  <1>5. ASSUME NEW s \in {"Completed", "Failed"}, Finish(w, s)
        PROVE  Logged
    <2>1. \/ held[w] \in Ids /\ Finalize(held[w], s)
          \/ UNCHANGED <<jobs, dirty>>
      BY <1>5 DEF Finish, OnHeld
    <2>2. UNCHANGED next_id
      BY <1>5 DEF Finish
    <2> QED BY <1>0, <2>1, <2>2, FinalizeLogs, UnchangedLogged
  <1>6. CASE SendInterim(w) \/ EnqueueAnswer(w)
    BY <1>0, <1>6, UnchangedLogged DEF SendInterim, EnqueueAnswer
  <1>7. CASE WaitForDelivery(w)
    <2>1. \/ /\ held[w] \in Ids
             /\ Update(held[w], [jobs[held[w]] EXCEPT !.status = "WaitingDelivery",
                                                      !.worker_id = Nil])
          \/ UNCHANGED <<jobs, dirty>>
      BY <1>7 DEF WaitForDelivery, OnHeld, Handover
    <2>2. UNCHANGED next_id
      BY <1>7 DEF WaitForDelivery
    <2>3. CASE UNCHANGED <<jobs, dirty>>
      BY <1>0, <2>2, <2>3, UnchangedLogged
    <2>4. CASE /\ held[w] \in Ids
               /\ Update(held[w], [jobs[held[w]] EXCEPT !.status = "WaitingDelivery",
                                                        !.worker_id = Nil])
      BY <1>0, <2>2, <2>4, WorkerWrites, ProgressLogged
    <2> QED BY <2>1, <2>3, <2>4
  <1>8. CASE Requeue(w)
    <2>1. \/ held[w] \in Ids /\ Update(held[w], BackToPending(jobs[held[w]]))
          \/ UNCHANGED <<jobs, dirty>>
      BY <1>8 DEF Requeue, OnHeld, RequeueJob
    <2>2. UNCHANGED next_id
      BY <1>8 DEF Requeue
    <2>3. CASE UNCHANGED <<jobs, dirty>>
      BY <1>0, <2>2, <2>3, UnchangedLogged
    <2>4. CASE held[w] \in Ids /\ Update(held[w], BackToPending(jobs[held[w]]))
      BY <1>0, <2>2, <2>4, WorkerWrites, ProgressLogged
    <2> QED BY <2>1, <2>3, <2>4
  <1>9. CASE AdoptAgent(w)
    <2>1. PICK i \in Ids :
            Update(i, [jobs[i] EXCEPT !.worker_id = w,
                         !.resume_count = IF @ = Nil THEN Nil ELSE @ + 1])
      BY <1>9 DEF AdoptAgent
    <2> DEFINE n == IF jobs[i].resume_count = Nil THEN Nil ELSE jobs[i].resume_count + 1
    <2>2. SameInputs(jobs[i], [jobs[i] EXCEPT !.worker_id = w, !.resume_count = n])
      <3> HIDE DEF n
      <3> QED BY <1>0, WorkerWrites
    <2>3. UNCHANGED next_id
      BY <1>9 DEF AdoptAgent
    <2>4. Update(i, [jobs[i] EXCEPT !.worker_id = w, !.resume_count = n])
      BY <1>0, <2>1 DEF Records
    <2> QED BY <2>2, <2>3, <2>4, ProgressLogged
  <1> QED BY <1>1, <1>2, <1>3, <1>4, <1>5, <1>6, <1>7, <1>8, <1>9 DEF Work

LEMMA RequeueAllInputs ==
  ASSUME NEW t, NEW S \in SUBSET DOMAIN t, NEW i \in S, t[i] \in Records
  PROVE  SameInputs(t[i], RequeueAll(t, S)[i])
  <1>1. SameInputs(t[i], BackToPending([t[i] EXCEPT !.debounce_key = Nil]))
    BY DEF SameInputs, SameClaim, BackToPending, Records
  <1>2. SameInputs(t[i], BackToPending(t[i]))
    BY WorkerWrites
  <1>3. \/ RequeueAll(t, S)[i] = BackToPending([t[i] EXCEPT !.debounce_key = Nil])
        \/ RequeueAll(t, S)[i] = BackToPending(t[i])
    BY DEF RequeueAll
  <1> QED BY <1>1, <1>2, <1>3

LEMMA MaintainLogs ==
  ASSUME TypeOK, InputsBounded,
         \/ Maintain
         \/ \E b \in DOMAIN batches : ScanBatch(b) \/ TakeUp(b)
  PROVE  Logged
  <1>0. /\ next_id \in Nat
        /\ \A i \in Ids : jobs[i] \in Records /\ Bounded(jobs[i])
    BY DEF TypeOK, InputsBounded
  <1>1. ASSUME NEW b \in DOMAIN batches, NEW o \in {"delivered", "dead"},
               SettleBatch(b, o) \/ ScanBatch(b) \/ TakeUp(b)
        PROVE  Logged
    BY <1>0, <1>1, UnchangedLogged DEF SettleBatch, ScanBatch, TakeUp
  <1>2. ASSUME NEW b \in DOMAIN batches, ResolveBatch(b)
        PROVE  Logged
    <2>1. \/ \E s : b[1] \in Ids /\ Finalize(b[1], s)
          \/ UNCHANGED <<jobs, dirty>>
      BY <1>2 DEF ResolveBatch
    <2>2. UNCHANGED next_id
      BY <1>2 DEF ResolveBatch
    <2> QED BY <1>0, <2>1, <2>2, FinalizeLogs, UnchangedLogged
  <1>3. ASSUME NEW i \in Ids, Cancel(i)
        PROVE  Logged
    BY <1>3, FinalizeLogs DEF Cancel
  <1>4. ASSUME NEW i \in Ids, Delete(i)
        PROVE  Logged
    <2>1. /\ DOMAIN dirty' = DOMAIN dirty \cup {i}
          /\ \A j \in DOMAIN dirty' : dirty'[j] = IF j = i THEN Deleted ELSE dirty[j]
          /\ jobs' = [j \in Ids \ {i} |-> jobs[j]] /\ UNCHANGED next_id
          /\ {i} \in SUBSET Ids
      BY <1>4 DEF Delete
    <2> QED BY <2>1, RemoveLogged
  <1>5. ASSUME NEW i \in Ids, CleanPlaceholder(i)
        PROVE  Logged
    BY <1>0, <1>5, WorkerWrites, ProgressLogged DEF CleanPlaceholder
  <1>6. ASSUME NEW S \in SUBSET Ids, NEW status,
               Commit([i \in Ids |-> IF i \in S THEN MarkTerminal(jobs[i], status, now)
                                                ELSE jobs[i]], S),
               UNCHANGED next_id
        PROVE  Logged
    <2> DEFINE table == [i \in Ids |-> IF i \in S THEN MarkTerminal(jobs[i], status, now)
                                                  ELSE jobs[i]]
    <2>1. /\ DOMAIN table = Ids /\ Commit(table, S)
          /\ \A i \in Ids \ S : table[i] = jobs[i]
      BY <1>6
    <2>2. \A i \in S : Bounded(table[i]) /\ Kept(jobs[i], table[i])
      <3> SUFFICES ASSUME NEW i \in S
                   PROVE  Bounded(table[i]) /\ Kept(jobs[i], table[i])
        OBVIOUS
      <3>1. table[i] = MarkTerminal(jobs[i], status, now)
        OBVIOUS
      <3> QED BY <1>0, <3>1, WorkerWrites, SameInputsKept
    <2> HIDE DEF table
    <2> QED BY <1>6, <2>1, <2>2, CommitLogged
  <1>7. ASSUME NEW u \in Users, NEW l \in Lanes, CancelUserJobs(u, ChatOf[l])
        PROVE  Logged
    BY <1>6, <1>7 DEF CancelUserJobs
  <1>8. CASE RequeueExpired
    <2> DEFINE S == {i \in Ids : Expired(jobs[i], now)}
               table == RequeueAll(jobs, S)
    <2>1. /\ DOMAIN table = Ids /\ \A i \in Ids \ S : table[i] = jobs[i]
      BY DEF RequeueAll, Ids
    <2>2. S \in SUBSET Ids /\ S \in SUBSET DOMAIN jobs
      BY DEF Ids
    <2>3. Commit(table, S) /\ UNCHANGED next_id
      BY <1>8 DEF RequeueExpired
    <2>4. \A i \in S : Bounded(table[i]) /\ Kept(jobs[i], table[i])
      <3> HIDE DEF S
      <3> QED BY <1>0, <2>2, RequeueAllInputs, SameInputsKept
    <2> HIDE DEF table, S
    <2> QED BY <2>1, <2>2, <2>3, <2>4, CommitLogged
  <1>9. CASE FailStuck
    BY <1>6, <1>9 DEF FailStuck
  <1>10. CASE EvictTerminal
    <2>1. Evictable(jobs, now - Retention, KeepPerQueue) \in SUBSET Ids
      BY DEF Evictable, Ids
    <2> QED BY <1>10, <2>1, RemoveLogged DEF EvictTerminal
  <1> QED BY <1>1, <1>2, <1>3, <1>4, <1>5, <1>7, <1>8, <1>9, <1>10 DEF Maintain

LEMMA EveryStepLogs ==
  ASSUME TypeOK, InputsBounded, [QueueNext]_queueVars
  PROVE  Logged
  <1>1. CASE Tick \/ UNCHANGED queueVars
    <2>1. next_id \in Nat /\ UNCHANGED <<jobs, next_id, dirty>>
      BY <1>1 DEF TypeOK, Tick, queueVars
    <2> QED BY <2>1, UnchangedLogged
  <1> QED BY <1>1, ProduceLogs, WorkLogs, MaintainLogs DEF QueueNext

\* The text a job holds for a message is never replaced by an older update's,
\* whatever is replayed, reordered or edited: a text is never newer than the
\* newest schedule the record applied, and only a newer schedule writes one.
THEOREM InputsOnlyGetNewer == QueueSpec => NewestInputWins
  <1>1. QueueInit => InputsBounded
    BY DEF QueueInit, InputsBounded, Ids
  <1>2. TypeOK /\ InputsBounded /\ [QueueNext]_queueVars => InputsBounded'
    BY EveryStepLogs DEF Logged, InputsBounded
  <1>3. ASSUME TypeOK, InputsBounded, [QueueNext]_queueVars
        PROVE  [\A i \in Ids \cap DOMAIN jobs' : \A m \in Msgs :
                  jobs'[i].pending_dialog_inputs[m] >= jobs[i].pending_dialog_inputs[m]]_queueVars
    <2> SUFFICES ASSUME NEW i \in Ids \cap Ids', NEW m \in Msgs
                 PROVE  jobs'[i].pending_dialog_inputs[m] >= jobs[i].pending_dialog_inputs[m]
      BY DEF Ids
    <2>1. i < next_id /\ TypeOK'
      BY <1>3, NextType DEF TypeOK
    <2>2. KeepsInputs(jobs[i], jobs'[i])
      BY <1>3, <2>1, EveryStepLogs DEF Logged, TypeOK, Kept
    <2>3. /\ jobs[i].pending_dialog_inputs[m] \in Nat
          /\ jobs'[i].pending_dialog_inputs[m] \in Nat
      BY <1>3, <2>1 DEF TypeOK, Records
    <2> QED BY <2>2, <2>3 DEF KeepsInputs
  <1> QED BY <1>1, <1>2, <1>3, TypeCorrect, PTL DEF QueueSpec, NewestInputWins

-----------------------------------------------------------------------------
(* One job for an input.  A job keeps the updates that gave it its key and    *)
(* its message, and so does what an edit remembers of it.                     *)

\* A job with a key has it from an update it absorbed, with its type and message.
Known(r) ==
  r.debounce_key # Nil =>
    \E u \in Updates : /\ r.queue = u.request.queue /\ r.debounce_key = u.key
                       /\ r.job.type = u.request.type /\ r.job.msg = u.msg
                       /\ u.id \in r.source_update_ids

\* A job that absorbed an edit absorbed the message that was edited.
EditKnown(r) ==
  \A e \in Edits : e.id \in r.source_update_ids =>
    \E u \in Updates : u.msg = e.msg /\ u.id \in r.source_update_ids

\* An edit on its way knows a job as it was: the job may have lost its key since.
Remembers(k) ==
  /\ Known(k.seen)
  /\ k.seen.debounce_key # Nil
  /\ k.seen.job.msg = k.edit.msg
  /\ k.id < next_id
  /\ k.id \in Ids =>
       /\ jobs[k.id].queue = k.seen.queue
       /\ jobs[k.id].debounce_key \in {k.seen.debounce_key, Nil}
       /\ k.seen.source_update_ids \subseteq jobs[k.id].source_update_ids

InputsKnown ==
  /\ InputsBounded
  /\ \A i \in Ids : Known(jobs[i]) /\ EditKnown(jobs[i])
  /\ \A c \in Callers : call[c].op = "edit" => Remembers(call[c])
  /\ \A c, d \in Callers :
       call[c].op = "edit" /\ call[d].op = "edit" /\ call[c].id = call[d].id
       => call[c].seen.debounce_key = call[d].seen.debounce_key

LEMMA ClaimKnown ==
  ASSUME NEW r, NEW s, Known(r), EditKnown(r), SameClaim(r, s)
  PROVE  Known(s) /\ EditKnown(s)
  BY DEF Known, EditKnown, SameClaim

LEMMA NewKnown ==
  ASSUME NEW r, Unclaimed(r)
  PROVE  Known(r) /\ EditKnown(r)
  BY DEF Known, EditKnown, Unclaimed

\* What a schedule makes of a record.
LEMMA AppliedSchedule ==
  ASSUME NEW r \in Records, NEW s
  PROVE  /\ ApplySchedule(r, s).queue = r.queue
         /\ ApplySchedule(r, s).source_update_ids = r.source_update_ids \cup s.sources
         /\ \/ /\ ApplySchedule(r, s).debounce_key = s.key
               /\ ApplySchedule(r, s).job = s.job
            \/ /\ ApplySchedule(r, s).debounce_key = r.debounce_key
               /\ ApplySchedule(r, s).job = r.job
  BY DEF ApplySchedule, Records

\* A step that is not an edit's look-up leaves what the edits remember.
LEMMA EditsStay ==
  ASSUME TypeOK, [QueueNext]_queueVars,
         ~ \E c \in Callers, e \in Edits : LookUpEdited(c, e),
         NEW d \in Callers, call'[d].op = "edit"
  PROVE  call'[d] = call[d]
  <1>0. call \in [Callers -> Calls]
    BY DEF TypeOK
  <1>1. CASE UNCHANGED call
    BY <1>1
  <1>2. ASSUME NEW c \in Callers, NEW v, v.op # "edit", call' = [call EXCEPT ![c] = v]
        PROVE  call'[d] = call[d]
    BY <1>0, <1>2
  <1>3. CASE Produce
    <2>1. ASSUME NEW c \in Callers, NEW q \in Limited, CountForLimit(c, q)
          PROVE  call'[d] = call[d]
      <3> DEFINE v == [op |-> "limited", request |-> q]
      <3>1. v.op # "edit" /\ call' = [call EXCEPT ![c] = v]
        BY <2>1 DEF CountForLimit
      <3> HIDE DEF v
      <3> QED BY <1>2, <3>1
    <2>2. ASSUME NEW c \in Callers, AssignLimited(c) \/ UpdatePendingSchedule(c)
          PROVE  call'[d] = call[d]
      <3>1. NoCall.op # "edit" /\ call' = [call EXCEPT ![c] = NoCall]
        BY <2>2 DEF AssignLimited, UpdatePendingSchedule, NoCall
      <3> QED BY <1>2, <3>1
    <2>3. CASE \/ \E q \in Requests : Assign(q)
               \/ \E u \in Updates : ScheduleOrReplace(u)
               \/ \E i \in Ids : RestartJob(i)
      BY <2>3 DEF Assign, ScheduleOrReplace, RestartJob
    <2> QED BY <1>3, <2>1, <2>2, <2>3 DEF Produce
  <1>4. CASE \E w \in WorkerIds : Work(w)
    BY <1>1, <1>4 DEF Work, Dequeue, CheckpointAgent, SetExecutionStarted, PostPlaceholder,
                      Finish, SendInterim, EnqueueAnswer, WaitForDelivery, Requeue
  <1>5. CASE Maintain
    BY <1>1, <1>5 DEF Maintain, SettleBatch, ResolveBatch, Cancel, Delete, CleanPlaceholder,
                      CancelUserJobs, RequeueExpired, FailStuck, EvictTerminal
  <1>6. CASE \/ \E b \in DOMAIN batches : ScanBatch(b)
             \/ Tick
             \/ UNCHANGED queueVars
    BY <1>1, <1>6 DEF ScanBatch, TakeUp, Tick, queueVars
  <1> QED BY <1>3, <1>4, <1>5, <1>6 DEF QueueNext

\* The two ways an update enters a job.
LEMMA InputTaken ==
  ASSUME TypeOK, InputsKnown, NEW u \in Updates, ScheduleOrReplace(u)
  PROVE  \E a \in Ids' :
           /\ Ids' = Ids \cup {a} /\ \A j \in Ids \ {a} : jobs'[j] = jobs[j]
           /\ jobs'[a].queue = u.request.queue /\ jobs'[a].debounce_key = u.key
           /\ jobs'[a].job.type = u.request.type /\ u.key # Nil
           /\ Known(jobs'[a]) /\ EditKnown(jobs'[a])
           /\ \A j \in Ids : ~ (/\ jobs[j].queue = u.request.queue
                                /\ jobs[j].job.type = u.request.type
                                /\ jobs[j].debounce_key = u.key
                                /\ u.id \in jobs[j].source_update_ids)
           /\ \/ a \notin Ids /\ a = next_id /\ jobs'[a].source_update_ids = {u.id}
              \/ /\ a \in Ids
                 /\ jobs[a].queue = u.request.queue /\ jobs[a].debounce_key = u.key
                 /\ jobs[a].job.type = u.request.type
                 /\ jobs'[a].source_update_ids = jobs[a].source_update_ids \cup {u.id}
  <1> DEFINE sch == ScheduleOf(u)
             new == NewRecord(u.request.queue, sch.job, sch.available_at, sch.key,
                              sch.sources, sch.latest, sch.inputs)
  <1>0. /\ u.key \in Keys /\ u.key # Nil /\ \A e \in Edits : e.id # u.id
        /\ \A i \in Ids : jobs[i] \in Records
        /\ \A j \in Ids : ~ (/\ jobs[j].queue = u.request.queue
                             /\ jobs[j].job.type = u.request.type
                             /\ jobs[j].debounce_key = u.key
                             /\ u.id \in jobs[j].source_update_ids)
    BY QueueAssumption, InputAssumption, NilAssumption DEF TypeOK, ScheduleOrReplace, Accounted
  <1>1. /\ sch.key = u.key /\ sch.sources = {u.id} /\ sch.job.type = u.request.type
        /\ sch.job.msg = u.msg
    BY DEF ScheduleOf, JobOf
  <1>2. CASE Push(new)
    <2>1. /\ next_id \notin Ids
          /\ jobs' = [i \in Ids \cup {next_id} |-> IF i = next_id THEN new ELSE jobs[i]]
      BY <1>2 DEF Push, Commit, TypeOK
    <2>2. /\ new.queue = u.request.queue /\ new.debounce_key = sch.key /\ new.job = sch.job
          /\ new.source_update_ids = sch.sources
      BY DEF NewRecord
    <2> HIDE DEF new, sch
    <2>3. Known(new) /\ EditKnown(new)
      BY <1>0, <1>1, <2>2 DEF Known, EditKnown
    <2>4. /\ Ids' = Ids \cup {next_id} /\ next_id \in Ids' /\ jobs'[next_id] = new
          /\ \A j \in Ids \ {next_id} : jobs'[j] = jobs[j]
      BY <2>1 DEF Ids
    <2>5. /\ jobs'[next_id].queue = u.request.queue /\ jobs'[next_id].debounce_key = u.key
          /\ jobs'[next_id].job.type = u.request.type
          /\ jobs'[next_id].source_update_ids = {u.id}
      BY <1>1, <2>2, <2>4
    <2> QED BY <1>0, <2>1, <2>3, <2>4, <2>5
  <1>3. ASSUME NEW a \in Debouncing(u.request.queue, u.key),
               Update(a, ApplySchedule(jobs[a], sch))
        PROVE  /\ a \in Ids' /\ Ids' = Ids \cup {a} /\ \A j \in Ids \ {a} : jobs'[j] = jobs[j]
               /\ jobs'[a].queue = u.request.queue /\ jobs'[a].debounce_key = u.key
               /\ jobs'[a].job.type = u.request.type
               /\ Known(jobs'[a]) /\ EditKnown(jobs'[a])
               /\ a \in Ids /\ jobs[a].queue = u.request.queue /\ jobs[a].debounce_key = u.key
               /\ jobs[a].job.type = u.request.type
               /\ jobs'[a].source_update_ids = jobs[a].source_update_ids \cup {u.id}
    <2> DEFINE r == ApplySchedule(jobs[a], sch)
    <2>1. a \in Ids /\ jobs[a].queue = u.request.queue /\ jobs[a].debounce_key = u.key
      BY DEF Debouncing
    <2>2. /\ Known(jobs[a]) /\ EditKnown(jobs[a]) /\ jobs[a] \in Records
      BY <1>0, <2>1 DEF InputsKnown
    <2>3. PICK v \in Updates : /\ v.request.queue = u.request.queue /\ v.key = u.key
                               /\ jobs[a].job.type = v.request.type
                               /\ jobs[a].job.msg = v.msg
                               /\ v.id \in jobs[a].source_update_ids
      BY <1>0, <2>1, <2>2 DEF Known
    <2>4. v.request.type = u.request.type
      BY <2>3, InputAssumption
    <2>5. /\ r.queue = jobs[a].queue
          /\ r.source_update_ids = jobs[a].source_update_ids \cup {u.id}
          /\ \/ r.debounce_key = u.key /\ r.job = sch.job
             \/ r.debounce_key = jobs[a].debounce_key /\ r.job = jobs[a].job
      <3> HIDE DEF sch
      <3> QED BY <1>1, <2>2, AppliedSchedule
    <2>6. jobs' = [jobs EXCEPT ![a] = r]
      BY <1>3 DEF Update, Commit
    <2> HIDE DEF r, sch
    <2>7. Ids' = Ids /\ jobs'[a] = r /\ \A j \in Ids \ {a} : jobs'[j] = jobs[j]
      BY <2>1, <2>6 DEF Ids
    <2>8. Known(r) /\ EditKnown(r)
      <3>1. Known(r)
        BY <1>1, <2>1, <2>3, <2>5 DEF Known
      <3>2. EditKnown(r)
        BY <1>0, <2>2, <2>5 DEF EditKnown
      <3> QED BY <3>1, <3>2
    <2> QED BY <1>1, <2>1, <2>3, <2>4, <2>5, <2>7, <2>8
  <1>4. \/ Push(new)
        \/ \E a \in Debouncing(u.request.queue, u.key) : Update(a, ApplySchedule(jobs[a], sch))
    BY DEF ScheduleOrReplace
  <1> HIDE DEF new, sch
  <1> QED BY <1>0, <1>2, <1>3, <1>4

LEMMA EditTaken ==
  ASSUME TypeOK, InputsKnown, NEW c \in Callers, UpdatePendingSchedule(c)
  PROVE  \/ UNCHANGED jobs
         \/ /\ call[c].id \in Ids /\ Ids' = Ids /\ call[c].op = "edit"
            /\ call[c].edit \in Edits
            /\ \A j \in Ids \ {call[c].id} : jobs'[j] = jobs[j]
            /\ jobs'[call[c].id].queue = jobs[call[c].id].queue
            /\ jobs'[call[c].id].debounce_key \in {call[c].seen.debounce_key,
                                                   jobs[call[c].id].debounce_key}
            /\ jobs[call[c].id].debounce_key # Nil =>
                 /\ jobs'[call[c].id].debounce_key = jobs[call[c].id].debounce_key
                 /\ jobs'[call[c].id].job.type = jobs[call[c].id].job.type
            /\ jobs'[call[c].id].source_update_ids =
                 jobs[call[c].id].source_update_ids \cup {call[c].edit.id}
            /\ \E u \in Updates : /\ u.msg = call[c].edit.msg
                                  /\ u.id \in jobs[call[c].id].source_update_ids
            /\ Known(jobs'[call[c].id]) /\ EditKnown(jobs'[call[c].id])
  <1> DEFINE k == call[c]
             a == call[c].id
             e == call[c].edit
             sch == EditSchedule(call[c])
             r == ApplySchedule(jobs[a], sch)
  <1> SUFFICES ASSUME a \in Ids, Update(a, r)
               PROVE  /\ a \in Ids /\ Ids' = Ids /\ k.op = "edit" /\ e \in Edits
                      /\ \A j \in Ids \ {a} : jobs'[j] = jobs[j]
                      /\ jobs'[a].queue = jobs[a].queue
                      /\ jobs'[a].debounce_key \in {k.seen.debounce_key, jobs[a].debounce_key}
                      /\ jobs[a].debounce_key # Nil =>
                           /\ jobs'[a].debounce_key = jobs[a].debounce_key
                           /\ jobs'[a].job.type = jobs[a].job.type
                      /\ jobs'[a].source_update_ids = jobs[a].source_update_ids \cup {e.id}
                      /\ \E u \in Updates : u.msg = e.msg /\ u.id \in jobs[a].source_update_ids
                      /\ Known(jobs'[a]) /\ EditKnown(jobs'[a])
    BY DEF UpdatePendingSchedule
  <1>1. k.op = "edit" /\ call[c] \in Calls
    BY DEF UpdatePendingSchedule, TypeOK
  <1>2. e \in Edits
    BY <1>1 DEF Calls, NoCall
  <1>3. /\ Known(k.seen) /\ k.seen.debounce_key # Nil /\ k.seen.job.msg = e.msg
        /\ jobs[a].queue = k.seen.queue
        /\ jobs[a].debounce_key \in {k.seen.debounce_key, Nil}
        /\ k.seen.source_update_ids \subseteq jobs[a].source_update_ids
        /\ Known(jobs[a]) /\ EditKnown(jobs[a]) /\ jobs[a] \in Records
    BY <1>1 DEF InputsKnown, Remembers, TypeOK
  <1>4. PICK u \in Updates :
          /\ k.seen.queue = u.request.queue /\ k.seen.debounce_key = u.key
          /\ k.seen.job.type = u.request.type /\ k.seen.job.msg = u.msg
          /\ u.id \in k.seen.source_update_ids
    BY <1>3 DEF Known
  <1>5. /\ sch.key = k.seen.debounce_key /\ sch.job = k.seen.job /\ sch.sources = {e.id}
    BY DEF EditSchedule
  <1>6. /\ r.queue = jobs[a].queue
        /\ r.source_update_ids = jobs[a].source_update_ids \cup {e.id}
        /\ \/ r.debounce_key = k.seen.debounce_key /\ r.job = k.seen.job
           \/ r.debounce_key = jobs[a].debounce_key /\ r.job = jobs[a].job
    <2> HIDE DEF sch, k, a, e
    <2> QED BY <1>3, <1>5, AppliedSchedule
  <1>7. Ids' = Ids /\ jobs'[a] = r /\ \A j \in Ids \ {a} : jobs'[j] = jobs[j]
    <2>1. jobs' = [jobs EXCEPT ![a] = r]
      BY DEF Update, Commit
    <2> HIDE DEF r
    <2> QED BY <2>1 DEF Ids
  <1> HIDE DEF r, sch
  <1>8. jobs[a].debounce_key # Nil => /\ r.debounce_key = jobs[a].debounce_key
                                      /\ r.job.type = jobs[a].job.type
    <2> SUFFICES ASSUME jobs[a].debounce_key # Nil
                 PROVE  r.debounce_key = jobs[a].debounce_key /\ r.job.type = jobs[a].job.type
      OBVIOUS
    <2>1. PICK v \in Updates : /\ jobs[a].queue = v.request.queue
                               /\ jobs[a].debounce_key = v.key
                               /\ jobs[a].job.type = v.request.type
      BY <1>3 DEF Known
    <2>2. jobs[a].debounce_key = k.seen.debounce_key /\ v.request.type = u.request.type
      BY <1>3, <1>4, <2>1, InputAssumption
    <2> QED BY <1>4, <1>6, <2>1, <2>2
  <1>9. u.msg = e.msg /\ u.id \in jobs[a].source_update_ids
    BY <1>3, <1>4
  <1>10. Known(r)
    <2>1. CASE r.debounce_key = k.seen.debounce_key /\ r.job = k.seen.job
      BY <1>3, <1>4, <1>6, <1>9, <2>1 DEF Known
    <2>2. CASE r.debounce_key = jobs[a].debounce_key /\ r.job = jobs[a].job
      BY <1>3, <1>6, <2>2 DEF Known
    <2> QED BY <1>6, <2>1, <2>2
  <1>11. EditKnown(r)
    <2> SUFFICES ASSUME NEW f \in Edits, f.id \in r.source_update_ids
                 PROVE  \E v \in Updates : v.msg = f.msg /\ v.id \in r.source_update_ids
      BY DEF EditKnown
    <2>1. CASE f.id = e.id
      <3>1. f.msg = e.msg
        BY <1>2, <2>1, InputAssumption
      <3> QED BY <1>6, <1>9, <3>1
    <2>2. CASE f.id \in jobs[a].source_update_ids
      BY <1>3, <1>6, <2>2 DEF EditKnown
    <2> QED BY <1>6, <2>1, <2>2
  <1> QED BY <1>1, <1>2, <1>6, <1>7, <1>8, <1>9, <1>10, <1>11

LEMMA InputsKnownStep ==
  ASSUME TypeOK, InputsKnown, [QueueNext]_queueVars
  PROVE  InputsKnown'
  <1>0. /\ Logged /\ TypeOK' /\ InputsBounded /\ next_id \in Nat /\ next_id' \in Nat
        /\ \A i \in Ids : i < next_id /\ jobs[i] \in Records /\ i \in Nat
        /\ \A i \in Ids' : i \in Nat
    BY EveryStepLogs, NextType DEF InputsKnown, TypeOK
  <1>1. InputsBounded'
    BY <1>0 DEF Logged, InputsBounded
  <1>2. \A i \in Ids' : i < next_id => i \in Ids /\ Kept(jobs[i], jobs'[i])
    BY <1>0 DEF Logged
  <1>3. ASSUME NEW i \in Ids'
        PROVE  Known(jobs'[i]) /\ EditKnown(jobs'[i])
    <2>1. CASE ~ Scheduling
      <3>1. CASE i < next_id
        BY <1>2, <2>1, <3>1, ClaimKnown DEF Kept, InputsKnown
      <3>2. CASE ~ (i < next_id)
        <4>1. Unclaimed(jobs'[i])
          BY <1>0, <2>1, <3>2 DEF Logged
        <4> QED BY <4>1, NewKnown
      <3> QED BY <3>1, <3>2
    <2>2. ASSUME NEW u \in Updates, ScheduleOrReplace(u)
          PROVE  Known(jobs'[i]) /\ EditKnown(jobs'[i])
      BY <1>3, <2>2, InputTaken DEF InputsKnown
    <2>3. ASSUME NEW c \in Callers, UpdatePendingSchedule(c)
          PROVE  Known(jobs'[i]) /\ EditKnown(jobs'[i])
      <3>1. CASE UNCHANGED jobs
        BY <1>3, <3>1 DEF InputsKnown, Ids
      <3>2. CASE ~ UNCHANGED jobs
        BY <1>3, <2>3, <3>2, EditTaken DEF InputsKnown
      <3> QED BY <3>1, <3>2
    <2> QED BY <2>1, <2>2, <2>3 DEF Scheduling
  \* A key changes only by going, coming back, or being born.
  <1>4. ASSUME NEW i \in Ids, i \in Ids', NEW key, jobs[i].debounce_key \in {key, Nil},
               \A c \in Callers : call[c].op = "edit" /\ call[c].id = i
                 => call[c].seen.debounce_key = key
        PROVE  jobs'[i].debounce_key \in {key, Nil}
    <2>1. CASE ~ Scheduling
      <3>1. SameClaim(jobs[i], jobs'[i])
        BY <1>0, <1>2, <1>4, <2>1 DEF Kept
      <3> QED BY <1>4, <3>1 DEF SameClaim
    <2>2. ASSUME NEW u \in Updates, ScheduleOrReplace(u)
          PROVE  jobs'[i].debounce_key = jobs[i].debounce_key
      BY <2>2, InputTaken
    <2>3. ASSUME NEW c \in Callers, UpdatePendingSchedule(c)
          PROVE  jobs'[i].debounce_key \in {key, Nil}
      <3>1. CASE UNCHANGED jobs
        BY <1>4, <3>1
      <3>2. CASE ~ UNCHANGED jobs
        <4>1. CASE call[c].id = i
          BY <1>4, <2>3, <3>2, <4>1, EditTaken
        <4>2. CASE call[c].id # i
          BY <1>4, <2>3, <3>2, <4>2, EditTaken
        <4> QED BY <4>1, <4>2
      <3> QED BY <3>1, <3>2
    <2> QED BY <1>4, <2>1, <2>2, <2>3 DEF Scheduling
  <1>5. CASE ~ \E c \in Callers, e \in Edits : LookUpEdited(c, e)
    <2>1. \A d \in Callers : call'[d].op = "edit" => call'[d] = call[d]
      BY <1>5, EditsStay
    <2>2. ASSUME NEW d \in Callers, call'[d].op = "edit"
          PROVE  Remembers(call[d])'
      <3> DEFINE k == call[d]
      <3>1. call'[d] = k /\ Remembers(k)
        BY <2>1, <2>2 DEF InputsKnown
      <3>2. k.id < next_id'
        BY <1>0, <2>1, <2>2, <3>1 DEF Remembers, Logged, TypeOK, Calls, NoCall
      <3>3. ASSUME k.id \in Ids'
            PROVE  /\ jobs'[k.id].queue = k.seen.queue
                   /\ jobs'[k.id].debounce_key \in {k.seen.debounce_key, Nil}
                   /\ k.seen.source_update_ids \subseteq jobs'[k.id].source_update_ids
        <4>1. k.id \in Ids /\ KeepsInputs(jobs[k.id], jobs'[k.id])
          BY <1>2, <3>1, <3>3 DEF Remembers, Kept
        <4>2. \A c \in Callers : call[c].op = "edit" /\ call[c].id = k.id
                => call[c].seen.debounce_key = k.seen.debounce_key
          BY <2>1, <2>2 DEF InputsKnown
        <4>3. jobs'[k.id].debounce_key \in {k.seen.debounce_key, Nil}
          BY <1>4, <3>1, <3>3, <4>1, <4>2 DEF Remembers
        <4> QED BY <3>1, <4>1, <4>3 DEF Remembers, KeepsInputs
      <3> HIDE DEF k
      <3> QED BY <3>1, <3>2, <3>3 DEF Remembers
    <2>3. \A c, d \in Callers :
            call'[c].op = "edit" /\ call'[d].op = "edit" /\ call'[c].id = call'[d].id
            => call'[c].seen.debounce_key = call'[d].seen.debounce_key
      BY <2>1 DEF InputsKnown
    <2> QED BY <1>1, <1>3, <2>2, <2>3 DEF InputsKnown
  <1>6. ASSUME NEW c \in Callers, NEW e \in Edits, LookUpEdited(c, e)
        PROVE  InputsKnown'
    <2>1. PICK i \in Ids : /\ PendingDialog(i, e) /\ jobs[i].debounce_key # Nil
                           /\ call' = [call EXCEPT ![c] = [op |-> "edit", edit |-> e, id |-> i,
                                                           seen |-> jobs[i]]]
      BY <1>6 DEF LookUpEdited
    <2>2. /\ UNCHANGED <<jobs, next_id>> /\ Ids' = Ids
          /\ \A d \in Callers \ {c} : call'[d] = call[d]
          /\ call'[c] = [op |-> "edit", edit |-> e, id |-> i, seen |-> jobs[i]]
      BY <1>6, <2>1 DEF LookUpEdited, TypeOK, Ids
    <2>3. Remembers(call[c])'
      <3>1. Known(jobs[i]) /\ jobs[i].job.msg = e.msg /\ i < next_id
        BY <1>0, <2>1 DEF InputsKnown, PendingDialog
      <3> QED BY <2>1, <2>2, <3>1 DEF Remembers
    <2>4. ASSUME NEW d \in Callers, d # c, call[d].op = "edit"
          PROVE  /\ Remembers(call[d])'
                 /\ call[d].id = i => call[d].seen.debounce_key = jobs[i].debounce_key
      BY <2>1, <2>2, <2>4 DEF InputsKnown, Remembers
    <2>5. \A d \in Callers : call'[d].op = "edit" => Remembers(call[d])'
      <3> TAKE d \in Callers
      <3>1. CASE d = c
        BY <2>3, <3>1
      <3>2. CASE d # c
        <4>1. call'[d] = call[d]
          BY <2>2, <3>2
        <4> QED BY <2>4, <3>2, <4>1 DEF Remembers
      <3> QED BY <3>1, <3>2
    <2>6. \A b, d \in Callers :
            call'[b].op = "edit" /\ call'[d].op = "edit" /\ call'[b].id = call'[d].id
            => call'[b].seen.debounce_key = call'[d].seen.debounce_key
      BY <2>2, <2>4 DEF InputsKnown
    <2> QED BY <1>1, <1>3, <2>5, <2>6 DEF InputsKnown
  <1> QED BY <1>5, <1>6

\* Two jobs that share an input after a step shared one before it, or an edit
\* gave one of them its key back.
NotAnew(i, j) ==
  \/ i \in Ids /\ j \in Ids /\ SharesInput(jobs[i], jobs[j])
  \/ \E k \in {i, j} \cap Ids : jobs[k].debounce_key = Nil

LEMMA SharingIsMutual ==
  ASSUME NEW r, NEW s, SharesInput(r, s)
  PROVE  SharesInput(s, r)
  BY DEF SharesInput, SameDebounce

LEMMA ScheduleSharesNothing ==
  ASSUME TypeOK, InputsKnown, NEW u \in Updates, ScheduleOrReplace(u),
         NEW i \in Ids', NEW j \in Ids' \ {i}, SharesInput(jobs'[i], jobs'[j])
  PROVE  NotAnew(i, j)
  <1>1. PICK a \in Ids' :
          /\ Ids' = Ids \cup {a} /\ \A k \in Ids \ {a} : jobs'[k] = jobs[k]
          /\ jobs'[a].queue = u.request.queue /\ jobs'[a].debounce_key = u.key
          /\ jobs'[a].job.type = u.request.type
          /\ \A k \in Ids : ~ (/\ jobs[k].queue = u.request.queue
                               /\ jobs[k].job.type = u.request.type
                               /\ jobs[k].debounce_key = u.key
                               /\ u.id \in jobs[k].source_update_ids)
          /\ \/ a \notin Ids /\ jobs'[a].source_update_ids = {u.id}
             \/ /\ a \in Ids
                /\ jobs[a].queue = u.request.queue /\ jobs[a].debounce_key = u.key
                /\ jobs[a].job.type = u.request.type
                /\ jobs'[a].source_update_ids = jobs[a].source_update_ids \cup {u.id}
    BY InputTaken
  <1>2. ASSUME NEW k \in Ids \ {a}, SharesInput(jobs'[a], jobs'[k])
        PROVE  a \in Ids /\ SharesInput(jobs[a], jobs[k])
    <2>1. /\ jobs[k].queue = u.request.queue /\ jobs[k].debounce_key = u.key
          /\ jobs[k].job.type = u.request.type /\ u.key # Nil
          /\ u.id \notin jobs[k].source_update_ids
      BY <1>1, <1>2 DEF SharesInput, SameDebounce
    <2> QED BY <1>1, <1>2, <2>1 DEF SharesInput, SameDebounce
  <1>3. CASE i # a /\ j # a
    BY <1>1, <1>3 DEF NotAnew
  <1>4. CASE i = a
    BY <1>1, <1>2, <1>4 DEF NotAnew
  <1>5. CASE j = a
    BY <1>1, <1>2, <1>5, SharingIsMutual DEF NotAnew
  <1> QED BY <1>3, <1>4, <1>5

LEMMA EditSharesNothing ==
  ASSUME TypeOK, InputsKnown, NEW c \in Callers, UpdatePendingSchedule(c),
         NEW i \in Ids', NEW j \in Ids' \ {i}, SharesInput(jobs'[i], jobs'[j])
  PROVE  NotAnew(i, j)
  <1>1. CASE UNCHANGED jobs
    BY <1>1 DEF NotAnew, Ids
  <1>2. CASE ~ UNCHANGED jobs
    <2> DEFINE a == call[c].id
               e == call[c].edit
    <2>1. /\ a \in Ids /\ Ids' = Ids /\ e \in Edits
          /\ \A k \in Ids \ {a} : jobs'[k] = jobs[k]
          /\ jobs'[a].queue = jobs[a].queue
          /\ jobs[a].debounce_key # Nil =>
               /\ jobs'[a].debounce_key = jobs[a].debounce_key
               /\ jobs'[a].job.type = jobs[a].job.type
          /\ jobs'[a].source_update_ids = jobs[a].source_update_ids \cup {e.id}
      BY <1>2, EditTaken
    <2>2. PICK u \in Updates : u.msg = e.msg /\ u.id \in jobs[a].source_update_ids
      BY <1>2, EditTaken
    <2> HIDE DEF a, e
    <2>3. ASSUME NEW k \in Ids \ {a}, SharesInput(jobs'[a], jobs'[k]),
                 jobs[a].debounce_key # Nil
          PROVE  SharesInput(jobs[a], jobs[k])
      <3>1. e.id \in jobs[k].source_update_ids => u.id \in jobs[k].source_update_ids
        <4> SUFFICES ASSUME e.id \in jobs[k].source_update_ids
                     PROVE  u.id \in jobs[k].source_update_ids
          OBVIOUS
        <4>1. PICK v \in Updates : v.msg = e.msg /\ v.id \in jobs[k].source_update_ids
          BY <2>1 DEF InputsKnown, EditKnown
        <4>2. v = u
          BY <2>2, <4>1, InputAssumption
        <4> QED BY <4>1, <4>2
      <3>2. jobs[a].source_update_ids \cap jobs[k].source_update_ids # {}
        BY <2>1, <2>2, <2>3, <3>1 DEF SharesInput
      <3> QED BY <2>1, <2>3, <3>2 DEF SharesInput, SameDebounce
    <2>4. CASE i # a /\ j # a
      BY <2>1, <2>4 DEF NotAnew
    <2>5. CASE i = a
      BY <2>1, <2>3, <2>5 DEF NotAnew
    <2>6. CASE j = a
      BY <2>1, <2>3, <2>6, SharingIsMutual DEF NotAnew
    <2> QED BY <2>4, <2>5, <2>6
  <1> QED BY <1>1, <1>2

\* An update becomes the work of a second job of its key in one way only,
\* however replays, edits, retries, time-outs and deletions interleave: an edit
\* gives a job back the key that a time-out took from it.
THEOREM InputsStayWithTheirJob == QueueSpec => InputGetsNoSecondJob
  <1>1. QueueInit => InputsKnown
    <2> SUFFICES ASSUME QueueInit
                 PROVE  InputsKnown
      OBVIOUS
    <2>1. Ids = {}
      BY DEF QueueInit, Ids
    <2>2. \A c \in Callers : call[c].op # "edit"
      BY DEF QueueInit, NoCall
    <2> QED BY <2>1, <2>2 DEF InputsKnown, InputsBounded
  <1>2. ASSUME TypeOK, InputsKnown, [QueueNext]_queueVars
        PROVE  [\A i \in DOMAIN jobs' : \A j \in DOMAIN jobs' \ {i} :
                  SharesInput(jobs'[i], jobs'[j]) =>
                    \/ i \in Ids /\ j \in Ids /\ SharesInput(jobs[i], jobs[j])
                    \/ \E k \in {i, j} \cap Ids : jobs[k].debounce_key = Nil]_queueVars
    <2> SUFFICES ASSUME NEW i \in Ids', NEW j \in Ids' \ {i}, SharesInput(jobs'[i], jobs'[j])
                 PROVE  NotAnew(i, j)
      BY DEF NotAnew, Ids
    <2>1. CASE ~ Scheduling
      <3>0. /\ Logged /\ next_id \in Nat /\ \A k \in Ids : k < next_id
            /\ \A k \in Ids' : k \in Nat
        BY <1>2, EveryStepLogs, NextType DEF InputsKnown, TypeOK
      <3>1. ASSUME NEW k \in Ids', jobs'[k].source_update_ids # {}
            PROVE  k \in Ids /\ SameClaim(jobs[k], jobs'[k])
        BY <2>1, <3>0, <3>1 DEF Logged, Unclaimed, Kept
      <3>2. /\ i \in Ids /\ SameClaim(jobs[i], jobs'[i])
            /\ j \in Ids /\ SameClaim(jobs[j], jobs'[j])
        BY <3>1 DEF SharesInput
      <3> QED BY <3>2 DEF NotAnew, SharesInput, SameDebounce, SameClaim
    <2>2. CASE Scheduling
      BY <1>2, <2>2, ScheduleSharesNothing, EditSharesNothing DEF Scheduling
    <2> QED BY <2>1, <2>2
  <1> QED BY <1>1, <1>2, InputsKnownStep, TypeCorrect, PTL DEF QueueSpec, InputGetsNoSecondJob
=============================================================================
