-------------------------- MODULE TaskJournalProofs --------------------------
(* Theorems about TaskJournal: the queue with its write-behind journal, the  *)
(* rows in Postgres, failing flushes, crashes and restarts, for every set of *)
(* queues, workers, users, keys, requests and updates and for every bound.   *)
EXTENDS TaskJournal, TaskQueueProofs

-----------------------------------------------------------------------------
(* The invariant.  A job is in three places that lag behind each other: the  *)
(* queue, the buffer of its last change, and its row; a fourth while a batch *)
(* is on its way.                                                            *)

\* s is the removal of the record, or knows every update r does.
Covers(r, s) ==
  \/ s = Deleted
  \/ r # Deleted /\ s # Deleted /\ r.source_update_ids \subseteq s.source_update_ids

\* Everything that was ever written down had its texts in order.
AllBounded ==
  /\ InputsBounded
  /\ \A i \in DOMAIN dirty : dirty[i] # Deleted => Bounded(dirty[i])
  /\ \A i \in DOMAIN flight.batch : flight.batch[i] # Deleted => Bounded(flight.batch[i])
  /\ \A i \in DOMAIN rows : rows[i] # Deleted => Bounded(rows[i])

FlightOK ==
  /\ flight \in [batch : {flight.batch}, update : Nat, written : BOOLEAN]
  /\ flight.batch \in [DOMAIN flight.batch -> Records \cup {Deleted}]
  /\ DOMAIN flight.batch \subseteq DOMAIN dirty
  /\ \A i \in DOMAIN flight.batch : Covers(flight.batch[i], dirty[i])
  /\ flight.update # 0 => \A i \in DOMAIN flight.batch :
       flight.batch[i] # Deleted /\ flight.update \in flight.batch[i].source_update_ids
  /\ flight.written => \A i \in DOMAIN flight.batch :
       flight.batch[i] # Deleted => i \in DOMAIN rows /\ rows[i] = flight.batch[i]

\* The buffer holds the job as it is.
Buffered == \A i \in Ids \cap DOMAIN dirty : dirty[i] = jobs[i]

\* A row is never ahead of what is on its way, in the buffer or in the queue.
RowsFollow ==
  /\ DOMAIN rows \subseteq 1 .. next_id - 1
  /\ \A i \in DOMAIN rows :
       /\ i \in Ids => Covers(rows[i], jobs[i])
       /\ i \in DOMAIN dirty => Covers(rows[i], dirty[i])
       /\ i \in DOMAIN flight.batch => Covers(rows[i], flight.batch[i])

Asleep == ~ up => held = [w \in WorkerIds |-> Nil]

JournalInv ==
  /\ TypeOK /\ JournalTypeOK /\ AllBounded
  /\ FlightOK /\ Buffered /\ RowsFollow /\ Asleep
  /\ CleanIsDurable /\ ConfirmedIsDurable

LEMMA CoversItself ==
  ASSUME NEW r \in Records \cup {Deleted}
  PROVE  Covers(r, r)
  BY DEF Covers

LEMMA CoversOn ==
  ASSUME NEW r, NEW s, NEW t, Covers(r, s), Covers(s, t)
  PROVE  Covers(r, t)
  BY DEF Covers

LEMMA RecordIsThere ==
  ASSUME NEW r \in Records
  PROVE  r # Deleted
  BY QueueAssumption

LEMMA EmptyBatch ==
  ASSUME NEW f, f = << >>
  PROVE  DOMAIN f = {}
  OBVIOUS

LEMMA JournalInvInit == JournalInit => JournalInv
  <1> SUFFICES ASSUME JournalInit
               PROVE  JournalInv
    OBVIOUS
  <1>1. TypeOK
    BY InitType DEF JournalInit
  <1>2. /\ DOMAIN jobs = {} /\ DOMAIN dirty = {} /\ DOMAIN rows = {}
        /\ DOMAIN flight.batch = {} /\ confirmed = {} /\ Ids = {}
    BY EmptyBatch DEF JournalInit, QueueInit, Idle, Ids
  <1>3. rows \in [DOMAIN rows -> Records \cup {Deleted}]
    BY <1>2 DEF JournalInit
  <1>4. JournalTypeOK
    BY <1>2, <1>3, JournalAssumption DEF JournalInit, JournalTypeOK, Idle
  <1>5. FlightOK
    <2>1. flight.batch \in [DOMAIN flight.batch -> Records \cup {Deleted}]
      BY <1>2 DEF JournalInit, Idle
    <2> QED BY <1>2, <2>1 DEF JournalInit, Idle, FlightOK
  <1> QED BY <1>1, <1>2, <1>4, <1>5 DEF JournalInv, AllBounded, InputsBounded, Buffered, RowsFollow,
                           Asleep, JournalInit, CleanIsDurable, ConfirmedIsDurable

-----------------------------------------------------------------------------
(* Steps of the queue.                                                       *)

\* A step of the queue that writes down what it changes.
LEMMA LoggedKeeps ==
  ASSUME JournalInv, TypeOK', Logged, up, UNCHANGED journalVars
  PROVE  JournalInv'
  <1>0. /\ TypeOK /\ JournalTypeOK /\ AllBounded /\ FlightOK /\ Buffered /\ RowsFollow
        /\ CleanIsDurable /\ ConfirmedIsDurable
        /\ UNCHANGED <<rows, seq, flight, up, confirmed, faults>>
    BY DEF JournalInv, journalVars
  <1>1. /\ DOMAIN dirty \subseteq DOMAIN dirty' /\ DOMAIN dirty \subseteq 1 .. next_id - 1
        /\ DOMAIN rows \subseteq 1 .. next_id - 1 /\ DOMAIN flight.batch \subseteq DOMAIN dirty
        /\ next_id \in Nat /\ next_id' \in Nat /\ next_id <= next_id'
        /\ \A i \in Ids : jobs[i] \in Records
        /\ \A i \in Ids' : jobs'[i] \in Records
        /\ \A i \in DOMAIN dirty : dirty[i] \in Records \cup {Deleted}
    BY <1>0 DEF Logged, TypeOK, RowsFollow, FlightOK
  <1>2. ASSUME NEW i \in Ids', i < next_id
        PROVE  i \in Ids /\ Covers(jobs[i], jobs'[i])
    <2>1. i \in Nat
      BY DEF TypeOK
    <2>2. i \in Ids /\ KeepsInputs(jobs[i], jobs'[i])
      BY <1>1, <1>2, <2>1 DEF Logged, Kept
    <2>3. jobs[i] # Deleted /\ jobs'[i] # Deleted
      BY <1>1, <2>2, RecordIsThere
    <2> QED BY <2>2, <2>3 DEF Covers, KeepsInputs
  <1>3. Buffered'
    BY <1>0 DEF Logged, Buffered
  <1>4. ASSUME NEW i \in DOMAIN dirty
        PROVE  Covers(dirty[i], dirty'[i])
    <2>1. i \in Nat /\ i < next_id /\ dirty[i] \in Records \cup {Deleted} /\ i \in DOMAIN dirty'
      BY <1>1
    <2>2. CASE i \in Ids'
      <3>1. i \in Ids /\ Covers(jobs[i], jobs'[i])
        BY <1>2, <2>1, <2>2
      <3>2. dirty[i] = jobs[i] /\ dirty'[i] = jobs'[i]
        BY <1>0, <1>3, <2>1, <2>2, <3>1 DEF Buffered
      <3> QED BY <3>1, <3>2
    <2>3. CASE i \notin Ids'
      <3>1. dirty'[i] = Deleted \/ dirty'[i] = dirty[i]
        BY <2>1, <2>3 DEF Logged
      <3> QED BY <2>1, <3>1, CoversItself DEF Covers
    <2> QED BY <2>2, <2>3
  <1>5. JournalTypeOK' /\ Asleep'
    BY <1>0 DEF JournalTypeOK, Asleep
  <1>6. AllBounded'
    <2>1. InputsBounded'
      BY DEF Logged, InputsBounded
    <2>2. ASSUME NEW i \in DOMAIN dirty', dirty'[i] # Deleted
          PROVE  Bounded(dirty'[i])
      <3>1. CASE i \in Ids'
        BY <1>3, <2>1, <3>1 DEF Buffered, InputsBounded
      <3>2. CASE i \notin Ids'
        BY <1>0, <2>2, <3>2 DEF Logged, AllBounded
      <3> QED BY <3>1, <3>2
    <2> QED BY <1>0, <2>1, <2>2 DEF AllBounded, Bounded
  <1>7. FlightOK'
    <2>1. \A i \in DOMAIN flight.batch : Covers(flight.batch[i], dirty'[i])
      BY <1>0, <1>1, <1>4, CoversOn DEF FlightOK
    <2> QED BY <1>0, <1>1, <2>1 DEF FlightOK, Covers
  <1>8. RowsFollow'
    <2>1. DOMAIN rows \subseteq 1 .. next_id' - 1
      BY <1>1
    <2>2. ASSUME NEW i \in DOMAIN rows, i \in Ids'
          PROVE  Covers(rows[i], jobs'[i])
      <3>1. i \in Ids /\ Covers(jobs[i], jobs'[i])
        BY <1>1, <1>2, <2>2
      <3>2. Covers(rows[i], jobs[i])
        BY <1>0, <3>1 DEF RowsFollow
      <3> QED BY <3>1, <3>2, CoversOn
    <2>3. ASSUME NEW i \in DOMAIN rows, i \in DOMAIN dirty'
          PROVE  Covers(rows[i], dirty'[i])
      <3>1. CASE i \in Ids'
        BY <1>3, <2>2, <2>3, <3>1 DEF Buffered
      <3>2. CASE i \notin Ids' /\ i \in DOMAIN dirty
        BY <1>0, <1>4, <3>2, CoversOn DEF RowsFollow
      <3>3. CASE i \notin Ids' /\ i \notin DOMAIN dirty
        BY <2>3, <3>3 DEF Logged, Covers
      <3> QED BY <3>1, <3>2, <3>3
    <2> QED BY <1>0, <2>1, <2>2, <2>3 DEF RowsFollow, Covers
  <1>9. CleanIsDurable'
    <2> SUFFICES ASSUME NEW i \in Ids', Active(jobs'[i]), i \notin DOMAIN dirty'
                 PROVE  i \in DOMAIN rows /\ rows[i] = jobs'[i]
      BY <1>0 DEF CleanIsDurable, Active
    <2>1. i \in Ids /\ jobs'[i] = jobs[i] /\ i \notin DOMAIN dirty
      BY DEF Logged
    <2> QED BY <1>0, <2>1 DEF CleanIsDurable
  <1>10. ConfirmedIsDurable'
    BY <1>0 DEF ConfirmedIsDurable
  <1> QED BY <1>3, <1>5, <1>6, <1>7, <1>8, <1>9, <1>10 DEF JournalInv

\* A step that leaves the jobs and the journal as they are.
LEMMA AsideKeeps ==
  ASSUME JournalInv, TypeOK', UNCHANGED <<jobs, next_id, dirty, held>>, UNCHANGED journalVars
  PROVE  JournalInv'
  BY DEF JournalInv, journalVars, JournalTypeOK, AllBounded, InputsBounded, FlightOK, Buffered,
         RowsFollow, Asleep, CleanIsDurable, ConfirmedIsDurable, Bounded, Covers, Active, Ids

LEMMA AdoptType ==
  ASSUME TypeOK, NEW w \in WorkerIds, AdoptAgent(w)
  PROVE  TypeOK'
  <1>1. PICK i \in Ids :
          /\ Update(i, [jobs[i] EXCEPT !.worker_id = w,
                          !.resume_count = IF @ = Nil THEN Nil ELSE @ + 1])
          /\ held' = [held EXCEPT ![w] = i]
    BY DEF AdoptAgent
  <1> DEFINE n == IF jobs[i].resume_count = Nil THEN Nil ELSE jobs[i].resume_count + 1
             r == [jobs[i] EXCEPT !.worker_id = w, !.resume_count = n]
  <1>2. jobs[i] \in Records /\ i \in 1 .. next_id - 1
    BY DEF TypeOK
  <1>3. n \in Nat \cup {Nil}
    BY <1>2 DEF Records
  <1>4. Update(i, r)
    BY <1>1, <1>2 DEF Records
  <1>5. r \in Records
    <2> HIDE DEF n
    <2> QED BY <1>2, <1>3 DEF Records
  <1> HIDE DEF r
  <1>6. UNCHANGED <<next_id, answered, call, outboxVars, now>>
    BY DEF AdoptAgent
  <1>7. TableOK'
    BY <1>4, <1>5, <1>6, UpdateType, TypeOKParts
  <1>8. ClaimOK'
    BY <1>1, <1>2, <1>6 DEF TypeOK, ClaimOK
  <1>9. CallOK' /\ OutboxOK' /\ now' = now
    BY <1>6, OthersUnchanged
  <1> QED BY <1>6, <1>7, <1>8, <1>9 DEF TypeOK, TableOK, ClaimOK, CallOK, OutboxOK

LEMMA TakeUpType ==
  ASSUME TypeOK, NEW b \in DOMAIN batches, TakeUp(b)
  PROVE  TypeOK'
  <1>1. OutboxOK /\ now \in Nat
    BY DEF TypeOK, OutboxOK
  <1>2. TableOK'
    BY UnchangedTable DEF TakeUp
  <1>3. OutboxOK'
    BY <1>1 DEF TakeUp, Settled, OutboxOK
  <1>4. ClaimOK' /\ CallOK' /\ now' = now
    BY OthersUnchanged DEF TakeUp
  <1> QED BY <1>1, <1>2, <1>3, <1>4 DEF TypeOK, TableOK, ClaimOK, CallOK, OutboxOK

LEMMA QueueStepsKeep ==
  ASSUME JournalInv,
         \/ QueueStep
         \/ \E w \in WorkerIds : Adopt(w)
         \/ \E b \in DOMAIN batches : ScanRows(b)
         \/ Clock
  PROVE  JournalInv'
  <1>0. TypeOK /\ InputsBounded
    BY DEF JournalInv, AllBounded
  <1>1. CASE QueueStep
    <2>1. TypeOK'
      BY <1>0, <1>1, ProduceKeeps, ClaimKeeps, WorkKeeps, MaintainKeeps DEF QueueStep, Work
    <2>2. Logged
      BY <1>0, <1>1, ProduceLogs, WorkLogs, MaintainLogs DEF QueueStep
    <2> QED BY <1>1, <2>1, <2>2, LoggedKeeps DEF QueueStep
  <1>2. ASSUME NEW w \in WorkerIds, Adopt(w)
        PROVE  JournalInv'
    BY <1>0, <1>2, AdoptType, WorkLogs, LoggedKeeps DEF Adopt
  <1>3. ASSUME NEW b \in DOMAIN batches, ScanRows(b)
        PROVE  JournalInv'
    <2>1. TypeOK'
      BY <1>0, <1>3, TakeUpType DEF ScanRows
    <2> QED BY <1>3, <2>1, AsideKeeps DEF ScanRows, TakeUp, claimVars
  <1>4. CASE Clock
    <2>1. TypeOK'
      BY <1>0, <1>4, UnchangedTable, OthersUnchanged
         DEF Clock, Tick, TypeOK, TableOK, ClaimOK, CallOK, OutboxOK
    <2> QED BY <1>4, <2>1, AsideKeeps DEF Clock, Tick, claimVars
  <1> QED BY <1>1, <1>2, <1>3, <1>4

-----------------------------------------------------------------------------
(* Flushes.                                                                  *)

LEMMA GreatestNatural ==
  ASSUME NEW S \in SUBSET Nat, S # {}, NEW n \in Nat, \A x \in S : x <= n
  PROVE  Max(S) \in S /\ \A x \in S : x <= Max(S)
  <1> DEFINE U == {m \in Nat : \A x \in S : x <= m}
  <1>1. n \in U /\ U \in SUBSET Nat
    OBVIOUS
  <1>2. PICK m \in U : \A k \in U : m <= k
    <2> HIDE DEF U
    <2> QED BY <1>1, LeastNatural
  <1>3. m \in S
    <2> SUFFICES ASSUME m \notin S
                 PROVE  FALSE
      OBVIOUS
    <2>1. \A x \in S : x <= m /\ x # m /\ x \in Nat
      BY <1>2
    <2>2. PICK x \in S : x <= m /\ x # m /\ x \in Nat
      BY <2>1
    <2>3. m - 1 \in U
      <3>1. m - 1 \in Nat
        BY <2>2
      <3>2. \A y \in S : y <= m - 1
        BY <2>1, <3>1
      <3> QED BY <3>1, <3>2
    <2> QED BY <1>2, <2>3
  <1>4. \E x \in S : \A y \in S : x >= y
    BY <1>2, <1>3
  <1>5. Max(S) \in S /\ \A y \in S : Max(S) >= y
    BY <1>4 DEF Max
  <1> QED BY <1>5

\* The batch is a part of the buffer, copied as it is.
LEMMA StartKeeps ==
  ASSUME JournalInv, NEW D \in SUBSET DOMAIN dirty, NEW batch, NEW n \in Nat,
         batch = [i \in D |-> dirty[i]], Start(batch, n),
         n # 0 => \A i \in D : dirty[i] # Deleted /\ n \in dirty[i].source_update_ids
  PROVE  JournalInv'
  <1>0. /\ TypeOK /\ JournalTypeOK /\ AllBounded /\ FlightOK /\ Buffered /\ RowsFollow
        /\ Asleep /\ CleanIsDurable /\ ConfirmedIsDurable
        /\ up /\ flight = Idle /\ batch # << >>
        /\ flight' = [batch |-> batch, update |-> n, written |-> FALSE]
        /\ UNCHANGED <<queueVars, rows, seq, up, confirmed, faults>>
    BY DEF JournalInv, Start
  <1>1. UNCHANGED <<jobs, next_id, dirty, held, answered, call, batches, resolving, now>>
    BY <1>0 DEF queueVars, claimVars, outboxVars
  <1>2. /\ DOMAIN flight'.batch = D /\ \A i \in D : flight'.batch[i] = dirty[i]
        /\ flight'.batch = [i \in D |-> dirty[i]]
        /\ flight'.update = n /\ ~ flight'.written
    BY <1>0
  <1>3. \A i \in D : dirty[i] \in Records \cup {Deleted}
    BY <1>0 DEF TypeOK
  <1>4. TypeOK'
    BY <1>0, <1>1 DEF TypeOK, Ids
  <1>5. JournalTypeOK' /\ Asleep'
    BY <1>0, <1>1, <1>2 DEF JournalTypeOK, Asleep
  <1>6. AllBounded'
    BY <1>0, <1>1, <1>2 DEF AllBounded, InputsBounded, Bounded, Ids
  <1>7. FlightOK'
    <2>1. flight' \in [batch : {flight'.batch}, update : Nat, written : BOOLEAN]
      BY <1>0
    <2>2. flight'.batch \in [D -> Records \cup {Deleted}]
      BY <1>2, <1>3
    <2>3. \A i \in D : Covers(flight'.batch[i], dirty[i])
      BY <1>2, <1>3, CoversItself
    <2> QED BY <1>1, <1>2, <2>1, <2>2, <2>3 DEF FlightOK, Covers
  <1>8. Buffered' /\ CleanIsDurable' /\ ConfirmedIsDurable'
    BY <1>0, <1>1 DEF Buffered, CleanIsDurable, ConfirmedIsDurable, Active, Ids
  <1>9. RowsFollow'
    BY <1>0, <1>1, <1>2 DEF RowsFollow, Covers, Ids
  <1> QED BY <1>4, <1>5, <1>6, <1>7, <1>8, <1>9 DEF JournalInv

LEMMA FlushStarts ==
  ASSUME JournalInv,
         \/ FlushDirty
         \/ \E i \in DOMAIN dirty : \/ FlushJob(i, 0)
                                    \/ \E u \in Followed : Owns(i, u) /\ FlushJob(i, u.id)
  PROVE  JournalInv'
  <1>0. /\ TypeOK /\ Buffered /\ \A i \in Ids : jobs[i] # Deleted
        /\ dirty = [i \in DOMAIN dirty |-> dirty[i]]
    BY RecordIsThere DEF JournalInv, TypeOK
  <1>1. CASE FlushDirty
    BY <1>0, <1>1, StartKeeps DEF FlushDirty
  <1>2. ASSUME NEW i \in DOMAIN dirty, NEW n \in Nat, FlushJob(i, n),
               n # 0 => dirty[i] # Deleted /\ n \in dirty[i].source_update_ids
        PROVE  JournalInv'
    <2> DEFINE D == {i}
    <2>1. /\ D \in SUBSET DOMAIN dirty /\ Start([j \in D |-> dirty[j]], n)
          /\ n # 0 => \A j \in D : dirty[j] # Deleted /\ n \in dirty[j].source_update_ids
      BY <1>2 DEF FlushJob, Restrict
    <2> HIDE DEF D
    <2> QED BY <2>1, StartKeeps
  <1>3. ASSUME NEW i \in DOMAIN dirty, NEW u \in Followed, Owns(i, u), FlushJob(i, u.id)
        PROVE  JournalInv'
    <2>1. u.id \in Nat
      BY QueueAssumption, JournalAssumption
    <2>2. dirty[i] = jobs[i] /\ dirty[i] # Deleted /\ u.id \in dirty[i].source_update_ids
      BY <1>0, <1>3 DEF Owns, Buffered
    <2> QED BY <1>2, <1>3, <2>1, <2>2
  <1> QED BY <1>1, <1>2, <1>3

LEMMA NothingToFlushKeeps ==
  ASSUME JournalInv, NEW i \in Ids, NEW u \in Followed, NothingToFlush(i, u)
  PROVE  JournalInv'
  <1>0. /\ TypeOK /\ JournalTypeOK /\ CleanIsDurable /\ ConfirmedIsDurable
        /\ up /\ i \notin DOMAIN dirty /\ u.id \in jobs[i].source_update_ids
        /\ UNCHANGED <<queueVars, rows, seq, flight, up, faults>>
        /\ confirmed' = confirmed \cup IF Active(jobs[i]) THEN {<<u.id, i>>} ELSE {}
    BY DEF JournalInv, NothingToFlush, Owns
  <1>1. UNCHANGED <<jobs, next_id, dirty, held, answered, call, batches, resolving, now>>
    BY <1>0 DEF queueVars, claimVars, outboxVars
  <1>2. ConfirmedIsDurable'
    <2>1. \A c \in confirmed' : c \in confirmed \/ (Active(jobs[i]) /\ c = <<u.id, i>>)
      BY <1>0
    <2>2. Active(jobs[i]) => i \in DOMAIN rows /\ u.id \in rows[i].source_update_ids
      BY <1>0 DEF CleanIsDurable
    <2> QED BY <1>0, <2>1, <2>2 DEF ConfirmedIsDurable
  <1>3. TypeOK'
    BY <1>0, <1>1 DEF TypeOK, Ids
  <1> QED BY <1>0, <1>1, <1>2, <1>3
       DEF JournalInv, JournalTypeOK, AllBounded, InputsBounded, FlightOK, Buffered,
           RowsFollow, Asleep, CleanIsDurable, Bounded, Covers, Active, Ids

\* What a transaction leaves in the table.
LEMMA AppliedRows ==
  ASSUME NEW batch
  PROVE  /\ DOMAIN Applied(batch) = {i \in DOMAIN batch : batch[i] # Deleted} \cup DOMAIN rows
         /\ \A i \in DOMAIN Applied(batch) :
              Applied(batch)[i] = IF i \in DOMAIN batch THEN batch[i] ELSE rows[i]
         /\ Applied(batch) = [i \in DOMAIN Applied(batch) |-> Applied(batch)[i]]
  BY DEF Applied

LEMMA AdvancedPast ==
  ASSUME NEW s \in Nat, NEW batch, NEW n \in Nat, DOMAIN batch \subseteq 1 .. n
  PROVE  /\ Advanced(s, batch) \in Nat
         /\ s <= Advanced(s, batch)
         /\ \A i \in DOMAIN batch : i <= Advanced(s, batch)
  <1> DEFINE S == {s} \cup DOMAIN batch
             m == IF s <= n THEN n ELSE s
  <1>1. S \in SUBSET Nat /\ S # {} /\ m \in Nat /\ \A x \in S : x <= m
    OBVIOUS
  <1>2. Max(S) \in S /\ \A x \in S : x <= Max(S)
    <2> HIDE DEF S, m
    <2> QED BY <1>1, GreatestNatural
  <1> QED BY <1>1, <1>2 DEF Advanced

LEMMA ApplyKeeps ==
  ASSUME JournalInv, Apply
  PROVE  JournalInv'
  <1> DEFINE batch == flight.batch
  <1>0. /\ TypeOK /\ JournalTypeOK /\ AllBounded /\ FlightOK /\ Buffered /\ RowsFollow
        /\ Asleep /\ CleanIsDurable /\ ConfirmedIsDurable
        /\ rows' = Applied(batch) /\ seq' = Advanced(seq, batch) /\ batch # << >>
        /\ flight' = [flight EXCEPT !.written = TRUE]
        /\ UNCHANGED <<queueVars, up, confirmed, faults>>
    BY DEF JournalInv, Apply
  <1>1. UNCHANGED <<jobs, next_id, dirty, held, answered, call, batches, resolving, now>>
    BY <1>0 DEF queueVars, claimVars, outboxVars
  <1>2. /\ flight'.batch = batch /\ flight'.update = flight.update /\ flight'.written
        /\ flight' \in [batch : {batch}, update : Nat, written : BOOLEAN]
    BY <1>0 DEF FlightOK
  <1>3. /\ DOMAIN rows' = {i \in DOMAIN batch : batch[i] # Deleted} \cup DOMAIN rows
        /\ \A i \in DOMAIN rows' : rows'[i] = IF i \in DOMAIN batch THEN batch[i] ELSE rows[i]
        /\ rows' = [i \in DOMAIN rows' |-> rows'[i]]
    BY <1>0, AppliedRows
  <1>4. /\ DOMAIN batch \subseteq DOMAIN dirty /\ DOMAIN dirty \subseteq 1 .. next_id - 1
        /\ next_id \in Nat \ {0} /\ seq \in Nat /\ DOMAIN rows \subseteq 1 .. seq
        /\ DOMAIN rows \subseteq 1 .. next_id - 1
        /\ \A i \in DOMAIN batch : /\ batch[i] \in Records \cup {Deleted}
                                   /\ dirty[i] \in Records \cup {Deleted}
                                   /\ Covers(batch[i], dirty[i])
        /\ \A i \in DOMAIN rows : rows[i] \in Records \cup {Deleted}
    BY <1>0 DEF TypeOK, JournalTypeOK, RowsFollow, FlightOK
  <1>5. DOMAIN rows' \subseteq DOMAIN batch \cup DOMAIN rows
    BY <1>3
  <1>6. /\ seq' \in Nat /\ seq <= seq' /\ \A i \in DOMAIN batch : i <= seq'
    BY <1>0, <1>4, AdvancedPast
  <1> HIDE DEF batch
  <1>7. TypeOK'
    BY <1>0, <1>1 DEF TypeOK, Ids
  <1>8. JournalTypeOK'
    <2>1. \A i \in DOMAIN rows' : rows'[i] \in Records \cup {Deleted}
      BY <1>3, <1>4
    <2>2. DOMAIN rows' \subseteq 1 .. seq'
      BY <1>4, <1>5, <1>6
    <2>3. batch # << >> /\ (~ up => flight = Idle)
      BY <1>0 DEF JournalTypeOK
    <2>4. up
      BY <2>3 DEF Idle, batch
    <2> QED BY <1>0, <1>1, <1>2, <1>3, <1>6, <2>1, <2>2, <2>3, <2>4 DEF JournalTypeOK
  <1>9. AllBounded'
    BY <1>0, <1>1, <1>2, <1>3 DEF AllBounded, InputsBounded, Bounded, Ids, batch
  <1>10. FlightOK'
    <2>1. \A i \in DOMAIN batch : batch[i] # Deleted => i \in DOMAIN rows' /\ rows'[i] = batch[i]
      BY <1>3
    <2>2. /\ batch \in [DOMAIN batch -> Records \cup {Deleted}]
          /\ flight.update # 0 => \A i \in DOMAIN batch :
               batch[i] # Deleted /\ flight.update \in batch[i].source_update_ids
      BY <1>0 DEF FlightOK, batch
    <2> QED BY <1>1, <1>2, <1>4, <2>1, <2>2 DEF FlightOK, Covers
  <1>11. Buffered' /\ Asleep'
    BY <1>0, <1>1 DEF Buffered, Asleep, Ids
  <1>12. RowsFollow'
    <2>1. DOMAIN rows' \subseteq 1 .. next_id - 1
      BY <1>4, <1>5
    <2>2. ASSUME NEW i \in DOMAIN rows'
          PROVE  /\ i \in Ids => Covers(rows'[i], jobs[i])
                 /\ i \in DOMAIN dirty => Covers(rows'[i], dirty[i])
                 /\ i \in DOMAIN batch => Covers(rows'[i], batch[i])
      <3>1. CASE i \in DOMAIN batch
        <4>1. rows'[i] = batch[i] /\ Covers(batch[i], dirty[i]) /\ Covers(batch[i], batch[i])
          BY <1>3, <1>4, <3>1, CoversItself
        <4>2. i \in Ids => dirty[i] = jobs[i]
          BY <1>0, <1>4, <3>1 DEF Buffered
        <4> QED BY <4>1, <4>2
      <3>2. CASE i \notin DOMAIN batch
        BY <1>0, <1>3, <3>2 DEF RowsFollow
      <3> QED BY <3>1, <3>2
    <2> QED BY <1>1, <1>2, <2>1, <2>2 DEF RowsFollow, Covers, Ids
  <1>13. CleanIsDurable'
    <2> SUFFICES ASSUME up, NEW i \in Ids, Active(jobs[i]), i \notin DOMAIN dirty
                 PROVE  i \in DOMAIN rows' /\ rows'[i] = jobs[i]
      BY <1>0, <1>1 DEF CleanIsDurable, Active, Ids
    <2>1. i \in DOMAIN rows /\ rows[i] = jobs[i] /\ i \notin DOMAIN batch
      BY <1>0, <1>4 DEF CleanIsDurable
    <2> QED BY <1>3, <2>1
  <1>14. ConfirmedIsDurable'
    <2> SUFFICES ASSUME NEW c \in confirmed
                 PROVE  /\ c[2] \in DOMAIN rows'
                        /\ rows'[c[2]] = Deleted \/ c[1] \in rows'[c[2]].source_update_ids
      BY <1>0 DEF ConfirmedIsDurable
    <2>1. /\ c[2] \in DOMAIN rows
          /\ rows[c[2]] = Deleted \/ c[1] \in rows[c[2]].source_update_ids
      BY <1>0 DEF ConfirmedIsDurable
    <2>2. CASE c[2] \in DOMAIN batch
      <3>1. Covers(rows[c[2]], batch[c[2]]) /\ rows'[c[2]] = batch[c[2]]
        BY <1>0, <1>3, <2>1, <2>2 DEF RowsFollow, batch
      <3> QED BY <1>3, <2>1, <3>1 DEF Covers
    <2>3. CASE c[2] \notin DOMAIN batch
      BY <1>3, <2>1, <2>3
    <2> QED BY <2>2, <2>3
  <1> QED BY <1>7, <1>8, <1>9, <1>10, <1>11, <1>12, <1>13, <1>14 DEF JournalInv

\* The end of a flush: nobody holds the lock, and the rest stays in order.
LEMMA IdleOK ==
  ASSUME flight' = Idle
  PROVE  /\ DOMAIN flight'.batch = {} /\ ~ flight'.written /\ flight'.update = 0
         /\ FlightOK'
  <1>1. /\ DOMAIN flight'.batch = {} /\ ~ flight'.written /\ flight'.update = 0
        /\ flight' = [batch |-> flight'.batch, update |-> 0, written |-> FALSE]
    BY EmptyBatch DEF Idle
  <1>2. flight'.batch \in [DOMAIN flight'.batch -> Records \cup {Deleted}]
    BY DEF Idle
  <1>3. flight' \in [batch : {flight'.batch}, update : Nat, written : BOOLEAN]
    <2> DEFINE b == flight'.batch
    <2>1. flight' = [batch |-> b, update |-> 0, written |-> FALSE]
      BY <1>1
    <2> HIDE DEF b
    <2>2. flight' \in [batch : {b}, update : Nat, written : BOOLEAN]
      BY <2>1
    <2> QED BY <2>2 DEF b
  <1> QED BY <1>1, <1>2, <1>3 DEF FlightOK

LEMMA FlushOkKeeps ==
  ASSUME JournalInv, FlushOk
  PROVE  JournalInv'
  <1> DEFINE batch == flight.batch
             kept == {i \in DOMAIN dirty : i \in DOMAIN batch => dirty[i] # batch[i]}
  <1>0. /\ TypeOK /\ JournalTypeOK /\ AllBounded /\ FlightOK /\ Buffered /\ RowsFollow
        /\ Asleep /\ CleanIsDurable /\ ConfirmedIsDurable
        /\ flight.written /\ flight' = Idle
        /\ UNCHANGED <<jobs, next_id, claimVars, call, outboxVars, now, rows, seq, up, faults>>
    BY DEF JournalInv, FlushOk
  <1>1. UNCHANGED <<jobs, next_id, held, answered, call, batches, resolving, now>>
    BY <1>0 DEF claimVars, outboxVars
  <1>2. /\ DOMAIN dirty' = kept /\ \A i \in kept : dirty'[i] = dirty[i]
        /\ dirty' = [i \in kept |-> dirty[i]]
    BY DEF FlushOk, MarkFlushed, Restrict
  <1>3. \A i \in DOMAIN batch : batch[i] # Deleted => i \in DOMAIN rows /\ rows[i] = batch[i]
    BY <1>0 DEF FlightOK
  <1>4. up
    BY <1>0 DEF JournalTypeOK, Idle
  <1>5. TypeOK'
    <2>1. dirty' \in [kept -> Records \cup {Deleted}] /\ kept \subseteq DOMAIN dirty
      BY <1>0, <1>2 DEF TypeOK
    <2> HIDE DEF kept
    <2> QED BY <1>0, <1>1, <1>2, <2>1 DEF TypeOK, Ids
  <1>6. JournalTypeOK' /\ Asleep'
    BY <1>0, <1>4, IdleOK DEF JournalTypeOK, Asleep
  <1>7. AllBounded'
    BY <1>0, <1>1, <1>2, IdleOK DEF AllBounded, InputsBounded, Bounded, Ids
  <1>8. Buffered'
    BY <1>0, <1>1, <1>2 DEF Buffered, Ids
  <1>9. RowsFollow'
    BY <1>0, <1>1, <1>2, IdleOK DEF RowsFollow, Covers, Ids
  <1>10. CleanIsDurable'
    <2> SUFFICES ASSUME NEW i \in Ids, Active(jobs[i]), i \notin DOMAIN dirty'
                 PROVE  i \in DOMAIN rows /\ rows[i] = jobs[i]
      BY <1>0, <1>1 DEF CleanIsDurable, Active, Ids
    <2>1. CASE i \notin DOMAIN dirty
      BY <1>0, <1>4, <2>1 DEF CleanIsDurable
    <2>2. CASE i \in DOMAIN dirty
      <3>1. i \in DOMAIN batch /\ dirty[i] = batch[i]
        BY <1>2, <2>2
      <3>2. dirty[i] = jobs[i] /\ jobs[i] # Deleted
        BY <1>0, <2>2, RecordIsThere DEF Buffered, TypeOK
      <3> QED BY <1>3, <3>1, <3>2
    <2> QED BY <2>1, <2>2
  <1>11. ConfirmedIsDurable'
    <2> SUFFICES ASSUME NEW c \in confirmed'
                 PROVE  /\ c[2] \in DOMAIN rows
                        /\ rows[c[2]] = Deleted \/ c[1] \in rows[c[2]].source_update_ids
      BY <1>0 DEF ConfirmedIsDurable
    <2>1. \/ c \in confirmed
          \/ flight.update # 0 /\ \E i \in DOMAIN batch : c = <<flight.update, i>>
      BY DEF FlushOk
    <2>2. CASE c \in confirmed
      BY <1>0, <2>2 DEF ConfirmedIsDurable
    <2>3. ASSUME NEW i \in DOMAIN batch, flight.update # 0, c = <<flight.update, i>>
          PROVE  c[2] \in DOMAIN rows /\ c[1] \in rows[c[2]].source_update_ids
      BY <1>0, <1>3, <2>3 DEF FlightOK
    <2> QED BY <2>1, <2>2, <2>3
  <1> QED BY <1>0, <1>5, <1>6, <1>7, <1>8, <1>9, <1>10, <1>11, IdleOK DEF JournalInv

LEMMA FlushFailsKeeps ==
  ASSUME JournalInv, NEW fault \in BOOLEAN, FlushFails(fault)
  PROVE  JournalInv'
  <1>0. /\ TypeOK /\ JournalTypeOK /\ AllBounded /\ Buffered /\ RowsFollow
        /\ Asleep /\ CleanIsDurable /\ ConfirmedIsDurable
        /\ flight' = Idle /\ UNCHANGED <<queueVars, rows, seq, up, confirmed>>
    BY DEF JournalInv, FlushFails
  <1>1. UNCHANGED <<jobs, next_id, dirty, held, answered, call, batches, resolving, now>>
    BY <1>0 DEF queueVars, claimVars, outboxVars
  <1>2. faults' \in 0 .. MaxFaults
    BY <1>0, JournalAssumption DEF FlushFails, JournalTypeOK
  <1>3. TypeOK'
    BY <1>0, <1>1 DEF TypeOK, Ids
  <1>4. JournalTypeOK'
    BY <1>0, <1>1, <1>2, IdleOK DEF JournalTypeOK
  <1>5. AllBounded' /\ RowsFollow'
    BY <1>0, <1>1, IdleOK DEF AllBounded, InputsBounded, Bounded, RowsFollow, Covers, Ids
  <1>6. Buffered' /\ Asleep' /\ CleanIsDurable' /\ ConfirmedIsDurable'
    BY <1>0, <1>1 DEF Buffered, Asleep, CleanIsDurable, ConfirmedIsDurable, Active, Ids
  <1> QED BY <1>0, <1>3, <1>4, <1>5, <1>6, IdleOK DEF JournalInv

-----------------------------------------------------------------------------
(* Crash, startup and purge.                                                 *)

LEMMA CrashKeeps ==
  ASSUME JournalInv, Crash
  PROVE  JournalInv'
  <1>0. /\ TypeOK /\ JournalTypeOK /\ AllBounded /\ RowsFollow /\ ConfirmedIsDurable
        /\ jobs' = << >> /\ dirty' = << >> /\ held' = [w \in WorkerIds |-> Nil]
        /\ answered' = {} /\ call' = [c \in Callers |-> NoCall] /\ resolving' = {}
        /\ flight' = Idle /\ up' = FALSE /\ faults' = faults + 1 /\ faults < MaxFaults
        /\ UNCHANGED <<next_id, batches, now, rows, seq, confirmed>>
    BY DEF JournalInv, Crash
  <1>1. /\ DOMAIN jobs' = {} /\ Ids' = {} /\ DOMAIN dirty' = {}
        /\ jobs' \in [Ids' -> Records] /\ dirty' \in [DOMAIN dirty' -> Records \cup {Deleted}]
    BY <1>0, EmptyBatch DEF Ids
  <1>2. TypeOK'
    <2>1. held' \in [WorkerIds -> (1 .. next_id' - 1) \cup {Nil}]
      BY <1>0
    <2>2. call' \in [Callers -> Calls]
      BY <1>0 DEF Calls
    <2> QED BY <1>0, <1>1, <2>1, <2>2 DEF TypeOK
  <1>3. JournalTypeOK'
    <2>1. faults' \in 0 .. MaxFaults
      BY <1>0, JournalAssumption DEF JournalTypeOK
    <2>2. ~ flight'.written
      BY <1>0, IdleOK
    <2> QED BY <1>0, <2>1, <2>2 DEF JournalTypeOK
  <1>4. AllBounded'
    BY <1>0, <1>1, IdleOK DEF AllBounded, InputsBounded, Bounded
  <1>5. RowsFollow'
    BY <1>0, <1>1, IdleOK DEF RowsFollow, Covers
  <1>6. Buffered' /\ Asleep' /\ CleanIsDurable' /\ ConfirmedIsDurable'
    BY <1>0, <1>1 DEF Buffered, Asleep, CleanIsDurable, ConfirmedIsDurable
  <1> QED BY <1>0, <1>2, <1>3, <1>4, <1>5, <1>6, IdleOK DEF JournalInv

\* The table that startup loads, and what recovery makes of each of its records.
LEMMA Recovered ==
  ASSUME JournalTypeOK
  PROVE  /\ DOMAIN Snapshot \subseteq DOMAIN rows
         /\ \A i \in DOMAIN Snapshot : Snapshot[i] = rows[i] /\ rows[i] \in Records
         /\ ReleaseOrphaned(Snapshot) \in [DOMAIN Snapshot -> Records]
         /\ \A i \in DOMAIN Snapshot :
              /\ SameInputs(rows[i], ReleaseOrphaned(Snapshot)[i])
              /\ rows[i].status # "Processing" => ReleaseOrphaned(Snapshot)[i] = rows[i]
         /\ DOMAIN RecoveryBatch = {i \in DOMAIN Snapshot : rows[i].status = "Processing"}
         /\ \A i \in DOMAIN RecoveryBatch :
              RecoveryBatch[i] = ReleaseOrphaned(Snapshot)[i]
  <1> DEFINE t == Snapshot
             S == {i \in DOMAIN t : t[i].status = "Processing" /\ ~ IsAgent(t[i])}
             agent(i) == t[i].status = "Processing" /\ IsAgent(t[i])
  <1>1. /\ DOMAIN t \subseteq DOMAIN rows
        /\ \A i \in DOMAIN t : t[i] = rows[i] /\ rows[i] # Deleted
    BY DEF Snapshot, Restrict
  <1>2. \A i \in DOMAIN t : t[i] = rows[i] /\ rows[i] \in Records
    BY <1>1 DEF JournalTypeOK
  <1>3. t = [i \in DOMAIN t |-> t[i]] /\ S \in SUBSET DOMAIN t
    BY DEF Snapshot, Restrict
  <1>4. /\ ReleaseOrphaned(t) = [i \in DOMAIN t |->
             IF agent(i) THEN [t[i] EXCEPT !.worker_id = Nil] ELSE RequeueAll(t, S)[i]]
        /\ DOMAIN RecoveryBatch = {i \in DOMAIN t : t[i].status = "Processing"}
        /\ \A i \in DOMAIN RecoveryBatch : RecoveryBatch[i] = ReleaseOrphaned(t)[i]
    BY DEF ReleaseOrphaned, RecoveryBatch, Restrict
  <1> HIDE DEF t
  <1>5. t \in [DOMAIN t -> Records]
    BY <1>2, <1>3
  <1>6. /\ RequeueAll(t, S) \in [DOMAIN t -> Records]
        /\ \A i \in DOMAIN t \ S : RequeueAll(t, S)[i] = t[i]
        /\ \A i \in S : SameInputs(t[i], RequeueAll(t, S)[i])
    <2> HIDE DEF S
    <2> QED BY <1>2, <1>3, <1>5, RequeueAllType, RequeueAllInputs
  <1>7. ASSUME NEW i \in DOMAIN t
        PROVE  /\ ReleaseOrphaned(t)[i] \in Records
               /\ SameInputs(t[i], ReleaseOrphaned(t)[i])
               /\ t[i].status # "Processing" => ReleaseOrphaned(t)[i] = t[i]
    <2>1. CASE agent(i)
      <3>1. ReleaseOrphaned(t)[i] = [t[i] EXCEPT !.worker_id = Nil] /\ t[i] \in Records
        BY <1>2, <1>4, <2>1
      <3> QED BY <2>1, <3>1 DEF Records, SameInputs, SameClaim
    <2>2. CASE ~ agent(i) /\ i \in S
      BY <1>4, <1>6, <2>2
    <2>3. CASE ~ agent(i) /\ i \notin S
      BY <1>2, <1>4, <1>6, <2>3 DEF SameInputs, SameClaim
    <2> QED BY <2>1, <2>2, <2>3
  <1>8. ReleaseOrphaned(t) \in [DOMAIN t -> Records]
    BY <1>4, <1>7
  <1> QED BY <1>1, <1>2, <1>4, <1>7, <1>8 DEF t

LEMMA NextIdIsNew ==
  ASSUME JournalTypeOK
  PROVE  NextId = seq + 1
  <1> DEFINE S == {seq + 1} \cup {i + 1 : i \in DOMAIN rows}
             n == seq + 1
  <1>1. S \in SUBSET Nat /\ S # {} /\ n \in Nat /\ n \in S /\ \A x \in S : x <= n
    BY DEF JournalTypeOK
  <1>2. Max(S) \in S /\ \A x \in S : x <= Max(S)
    <2> HIDE DEF S, n
    <2> QED BY <1>1, GreatestNatural
  <1>3. Max(S) = n
    <2> HIDE DEF S, n
    <2>1. Max(S) \in Nat /\ Max(S) <= n /\ n <= Max(S)
      BY <1>1, <1>2
    <2> QED BY <1>1, <2>1
  <1> QED BY <1>3 DEF NextId

LEMMA RestartKeeps ==
  ASSUME JournalInv, Restart
  PROVE  JournalInv'
  <1> DEFINE table == ReleaseOrphaned(Snapshot)
             batch == RecoveryBatch
  <1>0. /\ TypeOK /\ JournalTypeOK /\ AllBounded /\ RowsFollow /\ Asleep /\ ConfirmedIsDurable
        /\ ~ up /\ up' = TRUE /\ next_id' = NextId /\ jobs' = table
        /\ rows' = Applied(batch) /\ seq' = Advanced(seq + 1, batch)
        /\ UNCHANGED <<dirty, claimVars, call, outboxVars, now, flight, confirmed, faults>>
    BY DEF JournalInv, Restart
  <1>1. /\ UNCHANGED <<held, answered, batches, resolving>>
        /\ dirty = << >> /\ flight = Idle /\ held = [w \in WorkerIds |-> Nil]
        /\ DOMAIN dirty = {}
    BY <1>0, EmptyBatch DEF claimVars, outboxVars, JournalTypeOK, Asleep
  <1>2. /\ DOMAIN Snapshot \subseteq DOMAIN rows
        /\ \A i \in DOMAIN Snapshot : rows[i] \in Records
        /\ table \in [DOMAIN Snapshot -> Records]
        /\ \A i \in DOMAIN Snapshot :
             /\ SameInputs(rows[i], table[i])
             /\ rows[i].status # "Processing" => table[i] = rows[i]
        /\ DOMAIN batch = {i \in DOMAIN Snapshot : rows[i].status = "Processing"}
        /\ \A i \in DOMAIN batch : batch[i] = table[i]
    BY <1>0, Recovered
  <1>3. /\ DOMAIN rows' = {i \in DOMAIN batch : batch[i] # Deleted} \cup DOMAIN rows
        /\ \A i \in DOMAIN rows' : rows'[i] = IF i \in DOMAIN batch THEN batch[i] ELSE rows[i]
        /\ rows' = [i \in DOMAIN rows' |-> rows'[i]]
    BY <1>0, AppliedRows
  <1> HIDE DEF table, batch
  <1>4. /\ seq \in Nat /\ DOMAIN rows \subseteq 1 .. seq /\ DOMAIN batch \subseteq DOMAIN rows
        /\ \A i \in DOMAIN rows : rows[i] \in Records \cup {Deleted}
        /\ rows \in [DOMAIN rows -> Records \cup {Deleted}]
    BY <1>0, <1>2 DEF JournalTypeOK
  <1>5. DOMAIN rows' = DOMAIN rows /\ Ids' = DOMAIN Snapshot /\ next_id' = seq + 1
    BY <1>0, <1>2, <1>3, <1>4, NextIdIsNew DEF Ids
  <1>6. seq' \in Nat /\ seq + 1 <= seq'
    <2>1. seq + 1 \in Nat /\ seq \in Nat /\ DOMAIN batch \subseteq 1 .. seq
      BY <1>4
    <2> QED BY <1>0, <2>1, AdvancedPast
  <1>7. \A i \in Ids' : rows'[i] = jobs'[i] /\ jobs'[i] \in Records /\ i \in DOMAIN rows'
    <2>1. ASSUME NEW i \in DOMAIN Snapshot
          PROVE  rows'[i] = table[i]
      BY <1>2, <1>3, <1>5, <2>1
    <2> QED BY <1>0, <1>2, <1>5, <2>1
  <1>8. ASSUME NEW i \in DOMAIN rows'
        PROVE  /\ rows'[i] \in Records \cup {Deleted}
               /\ Covers(rows[i], rows'[i])
               /\ rows'[i] # Deleted => Bounded(rows'[i])
    <2>1. CASE i \in DOMAIN batch
      <3>1. rows'[i] = table[i] /\ i \in DOMAIN Snapshot
        BY <1>2, <1>3, <2>1
      <3>2. /\ table[i] \in Records /\ rows[i] \in Records /\ SameInputs(rows[i], table[i])
            /\ rows[i] # Deleted /\ table[i] # Deleted
        BY <1>2, <3>1, RecordIsThere
      <3>3. Bounded(rows[i])
        BY <1>0, <1>5, <3>2 DEF AllBounded
      <3> QED BY <3>1, <3>2, <3>3, SameInputsKept DEF Covers, SameInputs, SameClaim
    <2>2. CASE i \notin DOMAIN batch
      <3>1. rows'[i] = rows[i] /\ i \in DOMAIN rows
        BY <1>3, <1>5, <2>2
      <3> QED BY <1>0, <1>4, <3>1, CoversItself DEF AllBounded
    <2> QED BY <2>1, <2>2
  <1>9. TypeOK'
    <2>1. jobs' \in [Ids' -> Records]
      BY <1>0, <1>2, <1>5
    <2>2. Ids' \subseteq 1 .. next_id' - 1 /\ next_id' \in Nat \ {0}
      BY <1>2, <1>4, <1>5
    <2>3. /\ dirty' = dirty /\ DOMAIN dirty' \subseteq 1 .. next_id' - 1
          /\ held' \in [WorkerIds -> (1 .. next_id' - 1) \cup {Nil}]
      BY <1>0, <1>1
    <2> QED BY <1>0, <1>1, <2>1, <2>2, <2>3 DEF TypeOK
  <1>10. JournalTypeOK'
    <2>1. rows' \in [DOMAIN rows' -> Records \cup {Deleted}]
      BY <1>3, <1>8
    <2>2. DOMAIN rows' \subseteq 1 .. seq'
      BY <1>4, <1>5, <1>6
    <2> QED BY <1>0, <1>6, <2>1, <2>2 DEF JournalTypeOK
  <1>11. AllBounded'
    <2>1. InputsBounded'
      BY <1>7, <1>8, RecordIsThere DEF InputsBounded
    <2> QED BY <1>0, <1>1, <1>8, <2>1, EmptyBatch DEF AllBounded, Idle
  <1>12. FlightOK' /\ Asleep'
    BY <1>0, <1>1, IdleOK DEF Asleep
  <1>13. Buffered' /\ CleanIsDurable'
    BY <1>0, <1>1, <1>7 DEF Buffered, CleanIsDurable
  <1>14. RowsFollow'
    <2>1. DOMAIN rows' \subseteq 1 .. next_id' - 1
      BY <1>4, <1>5
    <2>2. \A i \in DOMAIN rows' \cap Ids' : Covers(rows'[i], jobs'[i])
      BY <1>7, CoversItself
    <2>3. DOMAIN dirty' = {} /\ DOMAIN flight'.batch = {}
      BY <1>0, <1>1, IdleOK
    <2> QED BY <2>1, <2>2, <2>3 DEF RowsFollow
  <1>15. ConfirmedIsDurable'
    <2> SUFFICES ASSUME NEW c \in confirmed
                 PROVE  /\ c[2] \in DOMAIN rows'
                        /\ rows'[c[2]] = Deleted \/ c[1] \in rows'[c[2]].source_update_ids
      BY <1>0 DEF ConfirmedIsDurable
    <2>1. /\ c[2] \in DOMAIN rows
          /\ rows[c[2]] = Deleted \/ c[1] \in rows[c[2]].source_update_ids
      BY <1>0 DEF ConfirmedIsDurable
    <2>2. Covers(rows[c[2]], rows'[c[2]]) /\ c[2] \in DOMAIN rows'
      BY <1>5, <1>8, <2>1
    <2> QED BY <2>1, <2>2 DEF Covers
  <1> QED BY <1>9, <1>10, <1>11, <1>12, <1>13, <1>14, <1>15 DEF JournalInv

LEMMA PurgeKeeps ==
  ASSUME JournalInv, NEW i \in DOMAIN rows, PurgeRow(i)
  PROVE  JournalInv'
  <1>0. /\ TypeOK /\ JournalTypeOK /\ AllBounded /\ FlightOK /\ Buffered /\ RowsFollow
        /\ Asleep /\ CleanIsDurable /\ ConfirmedIsDurable
        /\ up /\ i \notin DOMAIN flight.batch
        /\ rows[i] # Deleted => ~ Active(rows[i])
        /\ confirmed' = {c \in confirmed : c[2] # i}
        /\ UNCHANGED <<queueVars, seq, flight, up, faults>>
    BY DEF JournalInv, PurgeRow
  <1>1. UNCHANGED <<jobs, next_id, dirty, held, answered, call, batches, resolving, now>>
    BY <1>0 DEF queueVars, claimVars, outboxVars
  <1>2. /\ DOMAIN rows' = DOMAIN rows \ {i} /\ \A j \in DOMAIN rows' : rows'[j] = rows[j]
        /\ rows' = [j \in DOMAIN rows' |-> rows'[j]]
    BY DEF PurgeRow, Restrict
  <1>3. TypeOK'
    BY <1>0, <1>1 DEF TypeOK, Ids
  <1>4. JournalTypeOK'
    <2>1. rows' \in [DOMAIN rows' -> Records \cup {Deleted}]
      BY <1>0, <1>2 DEF JournalTypeOK
    <2> QED BY <1>0, <1>1, <1>2, <2>1 DEF JournalTypeOK
  <1>5. AllBounded'
    BY <1>0, <1>1, <1>2 DEF AllBounded, InputsBounded, Bounded, Ids
  <1>6. FlightOK'
    <2>1. flight.written => \A j \in DOMAIN flight.batch :
            flight.batch[j] # Deleted => j \in DOMAIN rows' /\ rows'[j] = flight.batch[j]
      BY <1>0, <1>2 DEF FlightOK
    <2> QED BY <1>0, <1>1, <2>1 DEF FlightOK, Covers
  <1>7. Buffered' /\ Asleep'
    BY <1>0, <1>1 DEF Buffered, Asleep, Ids
  <1>8. RowsFollow'
    BY <1>0, <1>1, <1>2 DEF RowsFollow, Covers, Ids
  <1>9. CleanIsDurable'
    <2> SUFFICES ASSUME NEW j \in Ids, Active(jobs[j]), j \notin DOMAIN dirty
                 PROVE  j \in DOMAIN rows' /\ rows'[j] = jobs[j]
      BY <1>0, <1>1 DEF CleanIsDurable, Active, Ids
    <2>1. j \in DOMAIN rows /\ rows[j] = jobs[j] /\ jobs[j] # Deleted
      BY <1>0, RecordIsThere DEF CleanIsDurable, TypeOK
    <2> QED BY <1>0, <1>2, <2>1
  <1>10. ConfirmedIsDurable'
    BY <1>0, <1>2 DEF ConfirmedIsDurable
  <1> QED BY <1>3, <1>4, <1>5, <1>6, <1>7, <1>8, <1>9, <1>10 DEF JournalInv

-----------------------------------------------------------------------------
LEMMA JournalInvStep == JournalInv /\ [JournalNext]_vars => JournalInv'
  <1> SUFFICES ASSUME JournalInv, [JournalNext]_vars
               PROVE  JournalInv'
    OBVIOUS
  <1>1. CASE \/ QueueStep
             \/ \E w \in WorkerIds : Adopt(w)
             \/ \E b \in DOMAIN batches : ScanRows(b)
             \/ Clock
    BY <1>1, QueueStepsKeep
  <1>2. CASE \/ FlushDirty
             \/ \E i \in DOMAIN dirty : \/ FlushJob(i, 0)
                                        \/ \E u \in Followed : Owns(i, u) /\ FlushJob(i, u.id)
    BY <1>2, FlushStarts
  <1>3. CASE \E i \in Ids, u \in Followed : NothingToFlush(i, u)
    BY <1>3, NothingToFlushKeeps
  <1>4. CASE Apply
    BY <1>4, ApplyKeeps
  <1>5. CASE FlushOk \/ \E fault \in BOOLEAN : FlushFails(fault)
    BY <1>5, FlushOkKeeps, FlushFailsKeeps
  <1>6. CASE Crash \/ Restart
    BY <1>6, CrashKeeps, RestartKeeps
  <1>7. CASE \E i \in DOMAIN rows : PurgeRow(i)
    BY <1>7, PurgeKeeps
  <1>8. CASE UNCHANGED vars
    <2>1. UNCHANGED journalVars /\ UNCHANGED <<jobs, next_id, dirty, held>>
      BY <1>8 DEF vars, queueVars, claimVars
    <2>2. TypeOK'
      BY <1>8 DEF vars, queueVars, claimVars, outboxVars, JournalInv, TypeOK, Ids
    <2> QED BY <2>1, <2>2, AsideKeeps
  <1> QED BY <1>1, <1>2, <1>3, <1>4, <1>5, <1>6, <1>7, <1>8 DEF JournalNext

LEMMA JournalInvHolds == JournalSpec => []JournalInv
  BY JournalInvInit, JournalInvStep, PTL DEF JournalSpec

\* Whatever crashes and restarts do to the queue, the table, the buffer, the
\* rows and the batch on its way keep their shape, and the ids of the rows stay
\* behind the sequence the next process counts from (reserve_id_high_water).
THEOREM JournalTypeCorrect == JournalSpec => [](TypeOK /\ JournalTypeOK)
  BY JournalInvHolds, PTL DEF JournalInv

\* A flush loses no change made while it ran: an active job that is not in the
\* buffer is exactly its row, whatever failed, crashed or was loaded again
\* (mark_flushed, mark_job_flushed, load_from_postgres_with_id_allocator).
THEOREM CleanJobsAreDurable == JournalSpec => []CleanIsDurable
  BY JournalInvHolds, PTL DEF JournalInv

\* An update whose handler passed the durability barrier is named by its row for
\* as long as the row is kept, through every crash, restart, lost reply and
\* refused flush (durability_barrier).
THEOREM ConfirmedInputsAreDurable == JournalSpec => []ConfirmedIsDurable
  BY JournalInvHolds, PTL DEF JournalInv

\* A record that keeps its key through recovery has no pending twin in the table
\* it was loaded with, nor among the records recovered before it.
LEMMA KeyKept ==
  ASSUME NEW t, t \in [DOMAIN t -> Records], NEW S \in SUBSET DOMAIN t,
         NEW i \in S, RequeueAll(t, S)[i].debounce_key # Nil
  PROVE  /\ RequeueAll(t, S)[i].debounce_key = t[i].debounce_key
         /\ RequeueAll(t, S)[i].queue = t[i].queue
         /\ \A j \in DOMAIN t \ {i} : SameDebounce(t[i], t[j]) =>
              t[j].status # "Pending" /\ ~ (j \in S /\ j < i)
  <1> DEFINE owned == \E j \in DOMAIN t \ {i} :
                        /\ SameDebounce(t[i], t[j])
                        /\ t[j].status = "Pending" \/ (j \in S /\ j < i)
  <1>1. t[i] \in Records
    OBVIOUS
  <1>2. RequeueAll(t, S)[i] =
          BackToPending(IF owned THEN [t[i] EXCEPT !.debounce_key = Nil] ELSE t[i])
    BY DEF RequeueAll
  <1>3. ~ owned
    <2> SUFFICES ASSUME owned
                 PROVE  FALSE
      OBVIOUS
    <2> HIDE DEF owned
    <2>1. RequeueAll(t, S)[i] = BackToPending([t[i] EXCEPT !.debounce_key = Nil])
      BY <1>2
    <2> QED BY <1>1, <2>1 DEF BackToPending, Records
  <1>4. RequeueAll(t, S)[i] = BackToPending(t[i])
    <2> HIDE DEF owned
    <2> QED BY <1>2, <1>3
  <1>5. /\ BackToPending(t[i]).debounce_key = t[i].debounce_key
        /\ BackToPending(t[i]).queue = t[i].queue
    BY <1>1 DEF BackToPending, Records
  <1> QED BY <1>3, <1>4, <1>5

LEMMA RecoveryPasses ==
  ASSUME JournalTypeOK
  PROVE  Applicable(RecoveryBatch)
  <1> DEFINE t == Snapshot
             S == {k \in DOMAIN t : t[k].status = "Processing" /\ ~ IsAgent(t[k])}
             agent(k) == t[k].status = "Processing" /\ IsAgent(t[k])
             batch == RecoveryBatch
  <1>1. /\ \A k \in DOMAIN rows : rows[k] # Deleted /\ Active(rows[k]) => k \in DOMAIN t
        /\ t = [k \in DOMAIN t |-> t[k]] /\ S \in SUBSET DOMAIN t
        /\ ReleaseOrphaned(t) = [k \in DOMAIN t |->
             IF agent(k) THEN [t[k] EXCEPT !.worker_id = Nil] ELSE RequeueAll(t, S)[k]]
    BY DEF Snapshot, Restrict, ReleaseOrphaned
  <1>2. /\ DOMAIN t \subseteq DOMAIN rows
        /\ \A k \in DOMAIN t : t[k] = rows[k] /\ rows[k] \in Records
        /\ DOMAIN batch = {k \in DOMAIN t : t[k].status = "Processing"}
        /\ \A k \in DOMAIN batch : batch[k] = ReleaseOrphaned(t)[k]
    <2>1. DOMAIN batch = {k \in DOMAIN t : rows[k].status = "Processing"}
      BY Recovered
    <2>2. \A k \in DOMAIN t : t[k] = rows[k]
      BY Recovered
    <2> HIDE DEF t, batch
    <2>3. DOMAIN batch = {k \in DOMAIN t : t[k].status = "Processing"}
      BY <2>1, <2>2
    <2> QED BY <2>2, <2>3, Recovered DEF t, batch
  <1> HIDE DEF t, batch
  <1>3. t \in [DOMAIN t -> Records]
    BY <1>1, <1>2
  <1>4. ASSUME NEW k \in DOMAIN batch, KeyedPending(batch[k])
        PROVE  k \in S /\ batch[k] = RequeueAll(t, S)[k] /\ batch[k].debounce_key # Nil
    <2>1. k \in DOMAIN t /\ t[k].status = "Processing" /\ t[k] \in Records
      BY <1>2
    <2>2. ~ agent(k)
      <3> SUFFICES ASSUME agent(k)
                   PROVE  FALSE
        OBVIOUS
      <3>1. batch[k] = [t[k] EXCEPT !.worker_id = Nil]
        BY <1>1, <1>2, <2>1
      <3>2. batch[k].status = "Processing"
        BY <2>1, <3>1 DEF Records
      <3> QED BY <1>4, <3>2 DEF KeyedPending
    <2>3. batch[k] = RequeueAll(t, S)[k]
      BY <1>1, <1>2, <2>1, <2>2
    <2> QED BY <1>4, <2>1, <2>2, <2>3 DEF KeyedPending
  <1> HIDE DEF S
  <1> SUFFICES ASSUME NEW i \in DOMAIN batch, KeyedPending(batch[i]),
                      NEW j \in (DOMAIN batch \cup DOMAIN rows) \ {i},
                      KeyedPending(RowAt(batch, i, j)),
                      SameDebounce(RowAt(batch, i, j), batch[i])
               PROVE  FALSE
    BY DEF Applicable, batch
  <1>5. /\ i \in S /\ batch[i].debounce_key = t[i].debounce_key /\ batch[i].queue = t[i].queue
        /\ t[i].debounce_key # Nil
        /\ \A k \in DOMAIN t \ {i} : SameDebounce(t[i], t[k]) =>
             t[k].status # "Pending" /\ ~ (k \in S /\ k < i)
    BY <1>1, <1>3, <1>4, KeyKept
  <1>6. CASE j \in DOMAIN batch /\ j < i
    <2>1. RowAt(batch, i, j) = batch[j]
      BY <1>6 DEF RowAt
    <2>2. /\ j \in S /\ batch[j].debounce_key = t[j].debounce_key /\ batch[j].queue = t[j].queue
      BY <1>1, <1>3, <1>4, <1>6, <2>1, KeyKept
    <2>3. SameDebounce(t[i], t[j])
      BY <1>5, <2>1, <2>2 DEF SameDebounce
    <2> QED BY <1>1, <1>5, <1>6, <2>2, <2>3
  <1>7. CASE ~ (j \in DOMAIN batch /\ j < i)
    <2>1. j \in DOMAIN rows /\ RowAt(batch, i, j) = rows[j]
      BY <1>2, <1>7 DEF RowAt
    <2>2. rows[j] # Deleted /\ rows[j].status = "Pending"
      BY <2>1 DEF KeyedPending
    <2>3. j \in DOMAIN t /\ t[j] = rows[j]
      BY <1>1, <1>2, <2>1, <2>2 DEF Active, ActiveStatuses
    <2>4. SameDebounce(t[i], t[j])
      BY <1>5, <2>1, <2>3 DEF SameDebounce
    <2> QED BY <1>5, <2>2, <2>3, <2>4
  <1> QED BY <1>6, <1>7

\* Whatever part of the buffer reached Postgres before the process died, the
\* debounce index accepts every record that startup recovery writes back: the
\* process comes up again (release_orphaned_processing_for_startup).
THEOREM RecoveryAlwaysApplies == JournalSpec => []RecoveryApplies
  <1>1. JournalTypeOK => RecoveryApplies
    BY RecoveryPasses DEF RecoveryApplies
  <1> QED BY <1>1, JournalTypeCorrect, PTL

-----------------------------------------------------------------------------
(* Workers and restarts.                                                     *)

LEMMA RecoveredWork ==
  ASSUME JournalTypeOK, NEW i \in DOMAIN Snapshot,
         ReleaseOrphaned(Snapshot)[i].status = "Processing"
  PROVE  /\ IsAgent(ReleaseOrphaned(Snapshot)[i])
         /\ ReleaseOrphaned(Snapshot)[i].worker_id = Nil
  <1> DEFINE t == Snapshot
             S == {k \in DOMAIN t : t[k].status = "Processing" /\ ~ IsAgent(t[k])}
  <1>1. /\ t = [k \in DOMAIN t |-> t[k]] /\ S \in SUBSET DOMAIN t
        /\ ReleaseOrphaned(t)[i] = IF t[i].status = "Processing" /\ IsAgent(t[i])
                                   THEN [t[i] EXCEPT !.worker_id = Nil]
                                   ELSE RequeueAll(t, S)[i]
    BY DEF Snapshot, Restrict, ReleaseOrphaned
  <1>2. \A k \in DOMAIN t : t[k] \in Records
    BY Recovered
  <1> HIDE DEF t
  <1>3. /\ \A k \in DOMAIN t \ S : RequeueAll(t, S)[k] = t[k]
        /\ \A k \in S : RequeueAll(t, S)[k].status = "Pending"
    <2>1. t \in [DOMAIN t -> Records]
      BY <1>1, <1>2
    <2> HIDE DEF S
    <2> QED BY <1>1, <2>1, RequeueAllType
  <1>4. i \in DOMAIN t /\ t[i] \in Records /\ ReleaseOrphaned(t)[i].status = "Processing"
    BY <1>2 DEF t
  <1>5. t[i].status = "Processing" /\ IsAgent(t[i])
    BY <1>1, <1>3, <1>4
  <1>6. ReleaseOrphaned(t)[i] = [t[i] EXCEPT !.worker_id = Nil]
    BY <1>1, <1>5
  <1>7. IsAgent(ReleaseOrphaned(t)[i]) /\ ReleaseOrphaned(t)[i].worker_id = Nil
    BY <1>4, <1>5, <1>6 DEF IsAgent, Records
  <1> QED BY <1>7 DEF t

LEMMA JournalWorkedStep ==
  ASSUME TypeOK, JournalTypeOK, ProcessingIsWorkedOn, [JournalNext]_vars
  PROVE  ProcessingIsWorkedOn'
  <1>1. CASE QueueStep \/ Clock
    BY <1>1, WorkedStep DEF QueueStep, Clock, QueueNext
  <1>2. ASSUME NEW w \in WorkerIds, Adopt(w)
        PROVE  ProcessingIsWorkedOn'
    <2>1. PICK i \in Ids :
            /\ Update(i, [jobs[i] EXCEPT !.worker_id = w,
                            !.resume_count = IF @ = Nil THEN Nil ELSE @ + 1])
            /\ held[w] = Nil /\ held' = [held EXCEPT ![w] = i]
      BY <1>2 DEF Adopt, AdoptAgent
    <2>2. /\ Ids' = Ids /\ \A j \in Ids \ {i} : jobs'[j] = jobs[j]
          /\ held \in [WorkerIds -> (1 .. next_id - 1) \cup {Nil}]
      BY <2>1 DEF Update, Commit, Ids, TypeOK
    <2>3. held'[w] = i /\ \A v \in WorkerIds \ {w} : held'[v] = held[v]
      BY <2>1, <2>2
    <2>4. \A j \in Ids : j # Nil
      BY NilAssumption DEF TypeOK
    <2> QED BY <2>1, <2>2, <2>3, <2>4 DEF ProcessingIsWorkedOn
  <1>3. CASE Restart
    <2>1. Ids' = DOMAIN Snapshot /\ jobs' = ReleaseOrphaned(Snapshot)
      BY <1>3, Recovered DEF Restart, Ids
    <2> QED BY <2>1, RecoveredWork DEF ProcessingIsWorkedOn, IsAgent
  <1>4. CASE Crash
    <2>1. Ids' = {}
      BY <1>4, EmptyBatch DEF Crash, Ids
    <2> QED BY <2>1 DEF ProcessingIsWorkedOn
  <1>5. ASSUME UNCHANGED <<jobs, held>>
        PROVE  ProcessingIsWorkedOn'
    BY <1>5 DEF ProcessingIsWorkedOn, IsAgent, Ids
  <1>6. CASE \E b \in DOMAIN batches : ScanRows(b)
    BY <1>5, <1>6 DEF ScanRows, TakeUp, claimVars
  <1>7. CASE \/ FlushDirty
             \/ \E i \in DOMAIN dirty : \/ FlushJob(i, 0)
                                        \/ \E u \in Followed : Owns(i, u) /\ FlushJob(i, u.id)
    BY <1>5, <1>7 DEF FlushDirty, FlushJob, Start, queueVars, claimVars
  <1>8. CASE \/ \E i \in Ids, u \in Followed : NothingToFlush(i, u)
             \/ Apply \/ FlushOk
             \/ \E fault \in BOOLEAN : FlushFails(fault)
             \/ \E i \in DOMAIN rows : PurgeRow(i)
             \/ UNCHANGED vars
    BY <1>5, <1>8 DEF NothingToFlush, Apply, FlushOk, FlushFails, PurgeRow, vars, queueVars,
                      claimVars
  <1> QED BY <1>1, <1>2, <1>3, <1>4, <1>6, <1>7, <1>8 DEF JournalNext

\* Through crashes and restarts too, a job in Processing is in the hands of a
\* worker of this process, or is an agent that startup released and that a
\* worker may adopt (release_orphaned_processing_for_startup).
THEOREM NoJobIsLostInRestart == JournalSpec => []ProcessingIsWorkedOn
  <1>1. JournalInit => ProcessingIsWorkedOn
    BY DEF JournalInit, QueueInit, ProcessingIsWorkedOn, Ids
  <1> QED BY <1>1, JournalWorkedStep, JournalTypeCorrect, PTL DEF JournalSpec
=============================================================================
