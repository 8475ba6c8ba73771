------------------------- MODULE DialogSessionProofs -------------------------
(* Theorems about sessions, for every finite set of messages, any users and  *)
(* workers, and any number of retries, time-outs and cancellations.          *)
EXTENDS DialogSession, FiniteSetTheorems, TLAPS

-----------------------------------------------------------------------------
(* The messages of a turn and of a sequence of turns.                        *)

Asks(t) == {t.msg} \cup t.behind
AskedIn(s) == UNION {Asks(s[i]) : i \in DOMAIN s}

LEMMA MessagesOfSet ==
  ASSUME NEW s
  PROVE  Messages(ToSet(s)) = AskedIn(s)
BY DEF Messages, ToSet, AskedIn, Asks

LEMMA MessagesOfOne ==
  ASSUME NEW t
  PROVE  Messages({t}) = Asks(t)
BY DEF Messages, Asks

LEMMA AskedInOne ==
  ASSUME NEW s, NEW i \in DOMAIN s
  PROVE  Asks(s[i]) \subseteq AskedIn(s)
BY DEF AskedIn

LEMMA AskedInEmpty == AskedIn(<<>>) = {}
BY DEF AskedIn

LEMMA AskedInAppend ==
  ASSUME NEW s \in Seq(Turns), NEW t \in Turns
  PROVE  /\ Append(s, t) \in Seq(Turns)
         /\ AskedIn(Append(s, t)) = AskedIn(s) \cup Asks(t)
<1>1. /\ DOMAIN Append(s, t) = 1 .. Len(s) + 1 /\ DOMAIN s = 1 .. Len(s) /\ Len(s) \in Nat
      /\ \A i \in 1 .. Len(s) : Append(s, t)[i] = s[i]
      /\ Append(s, t)[Len(s) + 1] = t
  OBVIOUS
<1>2. \A i : i \in 1 .. Len(s) + 1 <=> i \in 1 .. Len(s) \/ i = Len(s) + 1
  BY <1>1
<1>3. AskedIn(Append(s, t)) \subseteq AskedIn(s) \cup Asks(t)
  BY <1>1, <1>2 DEF AskedIn
<1>4. AskedIn(s) \subseteq AskedIn(Append(s, t))
  BY <1>1, <1>2 DEF AskedIn
<1>5. Asks(t) \subseteq AskedIn(Append(s, t))
  BY <1>1, <1>2 DEF AskedIn
<1> QED
  BY <1>3, <1>4, <1>5

LEMMA AskedInConcat ==
  ASSUME NEW s \in Seq(Turns), NEW r \in Seq(Turns)
  PROVE  /\ s \o r \in Seq(Turns) /\ AskedIn(s \o r) = AskedIn(s) \cup AskedIn(r)
<1>1. /\ s \o r \in Seq(Turns)
      /\ DOMAIN (s \o r) = 1 .. Len(s) + Len(r)
      /\ DOMAIN s = 1 .. Len(s) /\ DOMAIN r = 1 .. Len(r)
      /\ Len(s) \in Nat /\ Len(r) \in Nat
      /\ \A i \in 1 .. Len(s) : (s \o r)[i] = s[i]
      /\ \A i \in 1 .. Len(r) : (s \o r)[Len(s) + i] = r[i]
  OBVIOUS
<1>2. AskedIn(s) \subseteq AskedIn(s \o r)
  <2>1. \A i \in 1 .. Len(s) : i \in 1 .. Len(s) + Len(r)
    BY <1>1
  <2> QED
    BY <1>1, <2>1 DEF AskedIn
<1>3. AskedIn(r) \subseteq AskedIn(s \o r)
  <2>1. \A i \in 1 .. Len(r) : Len(s) + i \in 1 .. Len(s) + Len(r)
    BY <1>1
  <2> QED
    BY <1>1, <2>1 DEF AskedIn
<1>4. AskedIn(s \o r) \subseteq AskedIn(s) \cup AskedIn(r)
  <2> SUFFICES ASSUME NEW i \in 1 .. Len(s) + Len(r)
               PROVE  Asks((s \o r)[i]) \subseteq AskedIn(s) \cup AskedIn(r)
    BY <1>1 DEF AskedIn
  <2>1. CASE i \in 1 .. Len(s)
    BY <1>1, <2>1 DEF AskedIn
  <2>2. CASE i \notin 1 .. Len(s)
    <3>1. PICK k \in 1 .. Len(r) : i = Len(s) + k
      <4>1. i - Len(s) \in 1 .. Len(r) /\ i = Len(s) + (i - Len(s))
        BY <1>1, <2>2
      <4> QED
        BY <4>1
    <3> QED
      BY <1>1, <3>1 DEF AskedIn
  <2> QED
    BY <2>1, <2>2
<1> QED
  BY <1>1, <1>2, <1>3, <1>4

LEMMA AskedInTail ==
  ASSUME NEW s \in Seq(Turns), s # <<>>
  PROVE  /\ Head(s) \in Turns /\ Tail(s) \in Seq(Turns)
         /\ AskedIn(s) = Asks(Head(s)) \cup AskedIn(Tail(s))
         /\ DOMAIN Tail(s) = 1 .. Len(s) - 1 /\ DOMAIN s = 1 .. Len(s)
         /\ Len(s) \in Nat /\ Len(s) > 0 /\ Head(s) = s[1]
         /\ \A i \in 1 .. Len(s) - 1 : Tail(s)[i] = s[i + 1]
<1>1. /\ Head(s) \in Turns /\ Tail(s) \in Seq(Turns) /\ Head(s) = s[1]
      /\ DOMAIN Tail(s) = 1 .. Len(s) - 1 /\ DOMAIN s = 1 .. Len(s)
      /\ Len(s) \in Nat /\ Len(s) > 0
      /\ \A i \in 1 .. Len(s) - 1 : Tail(s)[i] = s[i + 1]
  OBVIOUS
<1>2. AskedIn(Tail(s)) \subseteq AskedIn(s)
  <2>1. \A i \in 1 .. Len(s) - 1 : i + 1 \in 1 .. Len(s)
    BY <1>1
  <2> QED
    BY <1>1, <2>1 DEF AskedIn
<1>3. Asks(Head(s)) \subseteq AskedIn(s)
  <2>1. 1 \in 1 .. Len(s)
    BY <1>1
  <2> QED
    BY <1>1, <2>1 DEF AskedIn
<1>4. AskedIn(s) \subseteq Asks(Head(s)) \cup AskedIn(Tail(s))
  <2> SUFFICES ASSUME NEW i \in 1 .. Len(s)
               PROVE  Asks(s[i]) \subseteq Asks(Head(s)) \cup AskedIn(Tail(s))
    BY <1>1 DEF AskedIn
  <2>1. CASE i # 1
    <3>1. i - 1 \in 1 .. Len(s) - 1 /\ (i - 1) + 1 = i
      BY <1>1, <2>1
    <3>2. Tail(s)[i - 1] = s[i]
      BY <1>1, <3>1
    <3> QED
      BY <1>1, <3>1, <3>2 DEF AskedIn
  <2> QED
    BY <1>1, <2>1
<1> QED
  BY <1>1, <1>2, <1>3, <1>4

LEMMA AppendFacts ==
  ASSUME NEW S, NEW s \in Seq(S), NEW e \in S
  PROVE  /\ Append(s, e) \in Seq(S)
         /\ DOMAIN s = 1 .. Len(s) /\ Len(s) \in Nat
         /\ Len(Append(s, e)) = Len(s) + 1
         /\ DOMAIN Append(s, e) = 1 .. Len(s) + 1
         /\ \A i \in 1 .. Len(s) : Append(s, e)[i] = s[i]
         /\ Append(s, e)[Len(s) + 1] = e
OBVIOUS

LEMMA UpdateFacts ==
  ASSUME NEW S, NEW s \in Seq(S), NEW i \in DOMAIN s, NEW e \in S
  PROVE  /\ [s EXCEPT ![i] = e] \in Seq(S)
         /\ DOMAIN [s EXCEPT ![i] = e] = DOMAIN s
         /\ [s EXCEPT ![i] = e][i] = e
         /\ \A k \in DOMAIN s : k # i => [s EXCEPT ![i] = e][k] = s[k]
OBVIOUS

-----------------------------------------------------------------------------
(* Types.                                                                    *)

JobRecords == [msg : Msgs, behind : SUBSET Msgs, status : Statuses, attempt : Nat]
BoxRecords == [injected : Seq(Turns), consumed : Seq(Turns), sealed : BOOLEAN]
Memories == [at : Places, job : Nat, tries : Nat, seen : Nat, box : Nat,
             end : {Nil, "complete", "fail", "retry", "over"},
             commit : BOOLEAN, todo : Seq(Turns)]

SessionTypeOK ==
  /\ jobs \in Seq(JobRecords) /\ boxes \in Seq(BoxRecords)
  /\ slot \in Slots \cup {Nil}
  /\ worker \in [Workers -> Memories]
  /\ settled \subseteq Msgs
  /\ retries \in Nat /\ expiries \in Nat /\ cancels \in Nat

(* The inductive invariant in parts.  Where a worker may be, and what it     *)
(* knows there.                                                              *)
Placed(w) ==
  LET r == worker[w]
  IN  /\ r.at # "idle" => r.job \in DOMAIN jobs
      /\ r.box # 0 => r.box \in DOMAIN boxes
      /\ r.at \in {"idle", "claim", "inject", "park"} => r.box = 0
      /\ r.at \in {"push", "release", "seal", "respawn"} => r.box # 0
      /\ r.at \in {"inject", "push", "park"} => r.tries > 0
      /\ r.at = "inject" =>
           r.seen \in DOMAIN jobs /\ UserOf[jobs[r.seen].msg] = UserOf[jobs[r.job].msg]
      /\ r.at = "resolved" => r.end \in {"complete", "fail", "retry", "over"}

(* The session belongs to the one worker that opened it, until it releases   *)
(* it.                                                                       *)
Owns(w) == worker[w].at \in {"run", "resolved", "release"} /\ worker[w].box # 0

SlotIsOwned ==
  /\ slot # Nil =>
       /\ slot.job \in DOMAIN jobs /\ slot.box \in DOMAIN boxes
       /\ slot.user = UserOf[jobs[slot.job].msg]
       /\ \E w \in Workers : Owns(w)
  /\ \A w \in Workers : Owns(w) => /\ slot # Nil
                                   /\ slot.job = worker[w].job
                                   /\ slot.box = worker[w].box
  /\ \A v, w \in Workers : Owns(v) /\ Owns(w) => v = w

(* Whatever is in an inbox, or about to be, is of one user.                  *)
ForUser(b, u) ==
  /\ \A t \in ToSet(boxes[b].injected) \cup ToSet(boxes[b].consumed) : UserOf[t.msg] = u
  /\ \A w \in Workers : worker[w].box = b => UserOf[jobs[worker[w].job].msg] = u
  /\ slot # Nil /\ slot.box = b => slot.user = u

InboxesAreOnesOwn == \A b \in DOMAIN boxes : \E u : ForUser(b, u)

(* Without a time-out a job is with one worker until it is finalized, and    *)
(* comes back only as a retry.                                               *)
Before(w) ==
  worker[w].at \in {"claim", "inject", "push", "park", "absorbed", "run", "resolved"}
After(w) == worker[w].at \in {"release", "seal", "respawn"}
Retried(w) == jobs[worker[w].job].attempt > 0

JobsRunOnce ==
  expiries = 0 =>
    /\ \A v, w \in Workers : Before(v) /\ Before(w) /\ v # w => worker[v].job # worker[w].job
    /\ \A w \in Workers :
         Before(w) => jobs[worker[w].job].status \in {"processing", "cancelled"}
    /\ \A w \in Workers :
         After(w) => \/ jobs[worker[w].job].status \notin {"pending", "processing"}
                     \/ Retried(w)
    /\ \A v, w \in Workers :
         Before(v) /\ After(w) /\ worker[v].job = worker[w].job => Retried(w)

(* Who runs without an inbox has a reason to.                                *)
Outside(w) == worker[w].tries = 0 \/ expiries > 0 \/ Retried(w)
OutsiderHasReason == \A w \in Workers : worker[w].at = "run" /\ worker[w].box = 0 => Outside(w)

SessionInv ==
  /\ SessionTypeOK
  /\ \A w \in Workers : Placed(w)
  /\ SlotIsOwned /\ InboxesAreOnesOwn /\ JobsRunOnce /\ OutsiderHasReason

-----------------------------------------------------------------------------
(* What the steps do to the queue.  Jobs are appended, and change their      *)
(* status and attempt only.                                                  *)

JobsKept ==
  /\ jobs' \in Seq(JobRecords) /\ DOMAIN jobs \subseteq DOMAIN jobs'
  /\ \A j \in DOMAIN jobs : /\ jobs'[j].msg = jobs[j].msg /\ jobs'[j].behind = jobs[j].behind
                            /\ jobs'[j].attempt >= jobs[j].attempt

LEMMA JobsTyped ==
  ASSUME NEW js \in Seq(JobRecords)
  PROVE  \A k \in DOMAIN js : /\ js[k].msg \in Msgs /\ js[k].behind \in SUBSET Msgs
                              /\ js[k].status \in Statuses /\ js[k].attempt \in Nat
<1>1. \A k \in DOMAIN js : js[k] \in JobRecords
  OBVIOUS
<1> QED
  BY <1>1 DEF JobRecords

LEMMA JobsSame ==
  ASSUME SessionTypeOK, UNCHANGED jobs
  PROVE  JobsKept
<1>1. jobs \in Seq(JobRecords) /\ \A k \in DOMAIN jobs : jobs[k] \in JobRecords
  BY DEF SessionTypeOK
<1>2. \A k \in DOMAIN jobs : jobs[k].attempt \in Nat
  BY <1>1 DEF JobRecords
<1> QED
  BY <1>1, <1>2 DEF JobsKept

LEMMA JobsAppended ==
  ASSUME SessionTypeOK, NEW t \in Turns, jobs' = Append(jobs, NewJob(t))
  PROVE  /\ JobsKept
         /\ DOMAIN jobs' = DOMAIN jobs \cup {Len(jobs) + 1}
         /\ Len(jobs) + 1 \notin DOMAIN jobs
         /\ jobs'[Len(jobs) + 1] = NewJob(t)
         /\ \A j \in DOMAIN jobs : jobs'[j] = jobs[j]
<1>1. jobs \in Seq(JobRecords) /\ NewJob(t) \in JobRecords
  BY DEF SessionTypeOK, NewJob, JobRecords, Turns, Statuses
<1>2. /\ jobs' \in Seq(JobRecords)
      /\ DOMAIN jobs = 1 .. Len(jobs) /\ Len(jobs) \in Nat
      /\ DOMAIN jobs' = 1 .. Len(jobs) + 1
      /\ \A i \in 1 .. Len(jobs) : jobs'[i] = jobs[i]
      /\ jobs'[Len(jobs) + 1] = NewJob(t)
  BY <1>1, AppendFacts
<1>3. 1 .. Len(jobs) + 1 = 1 .. Len(jobs) \cup {Len(jobs) + 1} /\ Len(jobs) + 1 \notin 1 .. Len(jobs)
  BY <1>2
<1>4. \A j \in DOMAIN jobs : jobs[j].attempt \in Nat
  <2>1. \A j \in DOMAIN jobs : jobs[j] \in JobRecords
    BY <1>1
  <2> QED
    BY <2>1 DEF JobRecords
<1> QED
  BY <1>2, <1>3, <1>4 DEF JobsKept

LEMMA JobsRestated ==
  ASSUME SessionTypeOK, NEW j \in DOMAIN jobs, NEW status \in Statuses,
         jobs' = [jobs EXCEPT ![j].status = status]
  PROVE  /\ JobsKept /\ DOMAIN jobs' = DOMAIN jobs
         /\ jobs'[j].status = status /\ jobs'[j].attempt = jobs[j].attempt
         /\ \A k \in DOMAIN jobs : k # j => jobs'[k] = jobs[k]
<1> DEFINE e == [jobs[j] EXCEPT !.status = status]
<1>1. jobs \in Seq(JobRecords) /\ \A k \in DOMAIN jobs : jobs[k] \in JobRecords
  BY DEF SessionTypeOK
<1>2. e \in JobRecords /\ e.status = status /\ e.attempt = jobs[j].attempt
      /\ e.msg = jobs[j].msg /\ e.behind = jobs[j].behind
  BY <1>1 DEF JobRecords
<1>3. jobs' = [jobs EXCEPT ![j] = e]
  OBVIOUS
<1> HIDE DEF e
<1>4. /\ jobs' \in Seq(JobRecords) /\ DOMAIN jobs' = DOMAIN jobs /\ jobs'[j] = e
      /\ \A k \in DOMAIN jobs : k # j => jobs'[k] = jobs[k]
  BY <1>1, <1>2, <1>3, UpdateFacts
<1>5. \A k \in DOMAIN jobs : jobs[k].attempt \in Nat
  BY <1>1 DEF JobRecords
<1> QED
  BY <1>2, <1>4, <1>5 DEF JobsKept

LEMMA JobsBecome ==
  ASSUME SessionTypeOK, NEW j \in DOMAIN jobs, NEW status \in Statuses,
         jobs' = Becomes(j, status)
  PROVE  /\ JobsKept /\ DOMAIN jobs' = DOMAIN jobs
         /\ jobs'[j].status = IF jobs[j].status = "cancelled" THEN "cancelled" ELSE status
         /\ jobs'[j].attempt = jobs[j].attempt
         /\ \A k \in DOMAIN jobs : k # j => jobs'[k] = jobs[k]
<1>1. CASE jobs[j].status = "cancelled"
  <2>1. jobs' = jobs
    BY <1>1 DEF Becomes
  <2> QED
    BY <1>1, <2>1, JobsSame
<1>2. CASE jobs[j].status # "cancelled"
  <2>1. jobs' = [jobs EXCEPT ![j].status = status]
    BY <1>2 DEF Becomes
  <2> QED
    BY <1>2, <2>1, JobsRestated
<1> QED
  BY <1>1, <1>2

LEMMA AttemptRaised ==
  ASSUME NEW r \in Seq(JobRecords), NEW j \in DOMAIN r, NEW s,
         s = [r EXCEPT ![j].attempt = @ + 1]
  PROVE  /\ s \in Seq(JobRecords) /\ DOMAIN s = DOMAIN r
         /\ s[j].status = r[j].status /\ s[j].attempt = r[j].attempt + 1
         /\ s[j].msg = r[j].msg /\ s[j].behind = r[j].behind
         /\ \A k \in DOMAIN r : k # j => s[k] = r[k]
<1> DEFINE e == [r[j] EXCEPT !.attempt = @ + 1]
<1>1. r[j] \in JobRecords
  OBVIOUS
<1>2. e \in JobRecords /\ e.status = r[j].status /\ e.attempt = r[j].attempt + 1
      /\ e.msg = r[j].msg /\ e.behind = r[j].behind
  <2>1. /\ r[j].attempt \in Nat /\ r[j].msg \in Msgs /\ r[j].behind \in SUBSET Msgs
        /\ r[j].status \in Statuses
    BY <1>1 DEF JobRecords
  <2>2. e = [msg |-> r[j].msg, behind |-> r[j].behind,
             status |-> r[j].status, attempt |-> r[j].attempt + 1]
    BY <1>1 DEF JobRecords
  <2>3. r[j].attempt + 1 \in Nat
    BY <2>1
  <2> QED
    BY <2>1, <2>2, <2>3 DEF JobRecords
<1>3. s = [r EXCEPT ![j] = e]
  OBVIOUS
<1> HIDE DEF e
<1> QED
  BY <1>2, <1>3, UpdateFacts

LEMMA JobsRetried ==
  ASSUME SessionTypeOK, NEW j \in DOMAIN jobs,
         jobs' = [Becomes(j, "pending") EXCEPT ![j].attempt = @ + 1]
  PROVE  /\ JobsKept /\ DOMAIN jobs' = DOMAIN jobs
         /\ jobs'[j].status = IF jobs[j].status = "cancelled" THEN "cancelled" ELSE "pending"
         /\ jobs'[j].attempt > 0
         /\ \A k \in DOMAIN jobs : k # j => jobs'[k] = jobs[k]
<1> DEFINE st == IF jobs[j].status = "cancelled" THEN "cancelled" ELSE "pending"
           r == Becomes(j, "pending")
<1>1. jobs \in Seq(JobRecords) /\ \A k \in DOMAIN jobs : jobs[k] \in JobRecords
  BY DEF SessionTypeOK
<1>2. /\ r \in Seq(JobRecords) /\ DOMAIN r = DOMAIN jobs
      /\ r[j] \in JobRecords /\ r[j].status = st
      /\ r[j].attempt = jobs[j].attempt /\ r[j].msg = jobs[j].msg /\ r[j].behind = jobs[j].behind
      /\ \A k \in DOMAIN jobs : k # j => r[k] = jobs[k]
  <2>1. CASE jobs[j].status = "cancelled"
    BY <1>1, <2>1 DEF Becomes
  <2>2. CASE jobs[j].status # "cancelled"
    <3> DEFINE p == [jobs[j] EXCEPT !.status = "pending"]
    <3>1. p \in JobRecords /\ p.status = "pending" /\ p.attempt = jobs[j].attempt
          /\ p.msg = jobs[j].msg /\ p.behind = jobs[j].behind
      BY <1>1 DEF JobRecords, Statuses
    <3>2. r = [jobs EXCEPT ![j] = p]
      BY <2>2 DEF Becomes
    <3> HIDE DEF p
    <3>3. /\ r \in Seq(JobRecords) /\ DOMAIN r = DOMAIN jobs /\ r[j] = p
          /\ \A k \in DOMAIN jobs : k # j => r[k] = jobs[k]
      BY <1>1, <3>1, <3>2, UpdateFacts
    <3> QED
      BY <2>2, <3>1, <3>3
  <2> QED
    BY <2>1, <2>2
<1>3. jobs' = [r EXCEPT ![j].attempt = @ + 1]
  OBVIOUS
<1> HIDE DEF r
<1>4. /\ jobs' \in Seq(JobRecords) /\ DOMAIN jobs' = DOMAIN jobs
      /\ jobs'[j].status = st /\ jobs'[j].attempt = jobs[j].attempt + 1
      /\ jobs'[j].msg = jobs[j].msg /\ jobs'[j].behind = jobs[j].behind
      /\ \A k \in DOMAIN jobs : k # j => jobs'[k] = jobs[k]
  <2>1. PICK q, s : q = r /\ s = jobs'
    OBVIOUS
  <2>2. q \in Seq(JobRecords) /\ j \in DOMAIN q
    BY <1>2, <2>1
  <2>3. s = [q EXCEPT ![j].attempt = @ + 1]
    BY <1>3, <2>1
  <2>4. /\ s \in Seq(JobRecords) /\ DOMAIN s = DOMAIN q
        /\ s[j].status = q[j].status /\ s[j].attempt = q[j].attempt + 1
        /\ s[j].msg = q[j].msg /\ s[j].behind = q[j].behind
        /\ \A k \in DOMAIN q : k # j => s[k] = q[k]
    BY <2>2, <2>3, AttemptRaised, SMTT(20)
  <2> QED
    BY <1>2, <2>1, <2>4
<1>5. \A k \in DOMAIN jobs : jobs[k].attempt \in Nat
  BY <1>1 DEF JobRecords
<1> HIDE DEF st
<1>6. JobsKept
  BY <1>4, <1>5 DEF JobsKept
<1>7. jobs'[j].attempt > 0
  BY <1>4, <1>5
<1> QED
  BY <1>4, <1>6, <1>7 DEF st

(* A worker that stands where it stood, over jobs that only changed their    *)
(* status, is still where it may be.                                         *)
LEMMA PlacedStill ==
  ASSUME JobsKept, DOMAIN boxes \subseteq DOMAIN boxes',
         NEW w \in Workers, Placed(w), worker'[w] = worker[w]
  PROVE  Placed(w)'
BY DEF JobsKept, Placed

-----------------------------------------------------------------------------
(* What most steps leave alone.                                              *)

(* The owner and its slot, but for what is parked in it.                     *)
LEMMA SlotKept ==
  ASSUME SlotIsOwned, JobsKept, DOMAIN boxes \subseteq DOMAIN boxes',
         slot' # Nil <=> slot # Nil,
         slot # Nil => slot'.job = slot.job /\ slot'.box = slot.box /\ slot'.user = slot.user,
         \A w \in Workers : /\ Owns(w)' <=> Owns(w)
                            /\ Owns(w) => /\ worker'[w].job = worker[w].job
                                          /\ worker'[w].box = worker[w].box
  PROVE  SlotIsOwned'
<1>1. slot' # Nil => /\ slot'.job \in DOMAIN jobs' /\ slot'.box \in DOMAIN boxes'
                     /\ slot'.user = UserOf[jobs'[slot'.job].msg]
  BY DEF SlotIsOwned, JobsKept
<1>2. slot' # Nil => \E w \in Workers : Owns(w)'
  BY DEF SlotIsOwned
<1>3. \A w \in Workers : Owns(w)' => /\ slot' # Nil /\ slot'.job = worker'[w].job
                                     /\ slot'.box = worker'[w].box
  BY DEF SlotIsOwned
<1>4. \A v, w \in Workers : Owns(v)' /\ Owns(w)' => v = w
  BY DEF SlotIsOwned
<1> QED
  BY <1>1, <1>2, <1>3, <1>4 DEF SlotIsOwned

(* Whose an inbox is.                                                        *)
LEMMA InboxesKept ==
  ASSUME InboxesAreOnesOwn, JobsKept, DOMAIN boxes' = DOMAIN boxes,
         \A w \in Workers : Placed(w),
         \A b \in DOMAIN boxes :
           ToSet(boxes'[b].injected) \cup ToSet(boxes'[b].consumed)
             \subseteq ToSet(boxes[b].injected) \cup ToSet(boxes[b].consumed),
         slot' # Nil => slot # Nil /\ slot'.box = slot.box /\ slot'.user = slot.user,
         \A w \in Workers : worker'[w].box # 0 => /\ worker'[w].box = worker[w].box
                                                  /\ worker'[w].job = worker[w].job,
         0 \notin DOMAIN boxes
  PROVE  InboxesAreOnesOwn'
<1> SUFFICES ASSUME NEW b \in DOMAIN boxes PROVE \E u : ForUser(b, u)'
  BY DEF InboxesAreOnesOwn
<1>1. PICK u : ForUser(b, u)
  BY DEF InboxesAreOnesOwn
<1>2. \A t \in ToSet(boxes'[b].injected) \cup ToSet(boxes'[b].consumed) : UserOf[t.msg] = u
  BY <1>1 DEF ForUser
<1>3. ASSUME NEW w \in Workers, worker'[w].box = b
      PROVE  UserOf[jobs'[worker'[w].job].msg] = u
  <2>1. worker[w].box = b /\ worker'[w].job = worker[w].job
    BY <1>3
  <2>2. worker[w].job \in DOMAIN jobs
    BY <2>1 DEF Placed
  <2> QED
    BY <1>1, <2>1, <2>2 DEF ForUser, JobsKept
<1>4. slot' # Nil /\ slot'.box = b => slot'.user = u
  BY <1>1 DEF ForUser
<1> QED
  BY <1>2, <1>3, <1>4 DEF ForUser

(* Who runs which job.                                                       *)
LEMMA OnceKept ==
  ASSUME SessionTypeOK, JobsRunOnce, JobsKept, expiries' = 0 => expiries = 0,
         \A w \in Workers : Placed(w),
         \A j \in DOMAIN jobs : jobs'[j].status \in {jobs[j].status, "cancelled"},
         \A w \in Workers :
           /\ Before(w)' => Before(w) /\ worker'[w].job = worker[w].job
           /\ After(w)' => After(w) /\ worker'[w].job = worker[w].job
  PROVE  JobsRunOnce'
<1> SUFFICES ASSUME expiries' = 0 PROVE JobsRunOnce'
  BY DEF JobsRunOnce
<1>1. \A w \in Workers : Before(w) \/ After(w) => worker[w].job \in DOMAIN jobs
  BY DEF Placed, Before, After
<1>2. \A v, w \in Workers : Before(v)' /\ Before(w)' /\ v # w => worker'[v].job # worker'[w].job
  BY DEF JobsRunOnce
<1>3. \A w \in Workers : Before(w)' => jobs'[worker'[w].job].status \in {"processing", "cancelled"}
  BY <1>1 DEF JobsRunOnce
<1>4. ASSUME NEW w \in Workers, worker[w].job \in DOMAIN jobs, Retried(w),
             worker'[w].job = worker[w].job
      PROVE  Retried(w)'
  <2>1. /\ jobs[worker[w].job].attempt \in Nat /\ jobs'[worker[w].job].attempt \in Nat
        /\ jobs'[worker[w].job].attempt >= jobs[worker[w].job].attempt
    BY <1>4, JobsTyped DEF JobsKept, SessionTypeOK
  <2> QED
    BY <1>4, <2>1 DEF Retried
<1>5. \A w \in Workers :
        After(w)' => \/ jobs'[worker'[w].job].status \notin {"pending", "processing"}
                     \/ Retried(w)'
  BY <1>1, <1>4 DEF JobsRunOnce
<1>6. \A v, w \in Workers :
        Before(v)' /\ After(w)' /\ worker'[v].job = worker'[w].job => Retried(w)'
  BY <1>1, <1>4 DEF JobsRunOnce
<1> QED
  BY <1>2, <1>3, <1>5, <1>6 DEF JobsRunOnce

(* Who runs outside the session.                                             *)
LEMMA OutsidersKept ==
  ASSUME SessionTypeOK, OutsiderHasReason, JobsKept,
         expiries > 0 => expiries' > 0,
         \A w \in Workers : Placed(w),
         \A w \in Workers :
           worker'[w].at = "run" /\ worker'[w].box = 0
             => /\ worker[w].at = "run" /\ worker[w].box = 0
                /\ worker'[w].job = worker[w].job /\ worker'[w].tries = worker[w].tries
  PROVE  OutsiderHasReason'
<1> SUFFICES ASSUME NEW w \in Workers, worker'[w].at = "run", worker'[w].box = 0
             PROVE  Outside(w)'
  BY DEF OutsiderHasReason
<1>1. /\ worker[w].at = "run" /\ worker[w].box = 0 /\ worker[w].job \in DOMAIN jobs
      /\ worker'[w].job = worker[w].job /\ worker'[w].tries = worker[w].tries
  BY DEF Placed
<1>2. Outside(w)
  BY <1>1 DEF OutsiderHasReason
<1>3. Retried(w) => Retried(w)'
  <2>1. jobs[worker[w].job].attempt \in Nat /\ jobs'[worker[w].job].attempt \in Nat
    BY <1>1, JobsTyped DEF SessionTypeOK, JobsKept
  <2> QED
    BY <1>1, <2>1 DEF Retried, JobsKept
<1> QED
  BY <1>1, <1>2, <1>3 DEF Outside

LEMMA BoxesTyped ==
  ASSUME SessionTypeOK
  PROVE  /\ DOMAIN boxes = 1 .. Len(boxes) /\ Len(boxes) \in Nat /\ 0 \notin DOMAIN boxes
         /\ \A b \in DOMAIN boxes :
              /\ boxes[b] \in BoxRecords
              /\ boxes[b].injected \in Seq(Turns) /\ boxes[b].consumed \in Seq(Turns)
<1>1. DOMAIN boxes = 1 .. Len(boxes) /\ Len(boxes) \in Nat
      /\ \A b \in DOMAIN boxes : boxes[b] \in BoxRecords
  BY DEF SessionTypeOK
<1> QED
  BY <1>1 DEF BoxRecords

LEMMA TurnsTyped ==
  ASSUME NEW m \in Msgs, NEW behind \in SUBSET Msgs
  PROVE  Turn(m, behind) \in Turns
BY DEF Turn, Turns

(* The steps that only change the queue.                                     *)
LEMMA QueueStepKeeps ==
  ASSUME SessionInv, JobsKept, UNCHANGED <<slot, boxes, worker>>,
         \A j \in DOMAIN jobs : jobs'[j].status \in {jobs[j].status, "cancelled"} \/ expiries' > 0,
         expiries' \in Nat, expiries' >= expiries,
         settled' \subseteq Msgs, retries' \in Nat, cancels' \in Nat
  PROVE  SessionInv'
<1>1. SessionTypeOK'
  BY DEF SessionInv, SessionTypeOK, JobsKept
<1>2. \A w \in Workers : Placed(w)'
  BY PlacedStill DEF SessionInv
<1>3. SlotIsOwned'
  <2>1. \A w \in Workers : /\ Owns(w)' <=> Owns(w)
                           /\ Owns(w) => /\ worker'[w].job = worker[w].job
                                         /\ worker'[w].box = worker[w].box
    BY DEF Owns
  <2> QED
    BY <2>1, SlotKept DEF SessionInv
<1>4. InboxesAreOnesOwn'
  BY InboxesKept, BoxesTyped DEF SessionInv
<1>5. JobsRunOnce'
  <2>1. CASE expiries' > 0
    BY <2>1 DEF JobsRunOnce
  <2>2. CASE expiries' = 0
    <3>1. expiries = 0 /\ \A j \in DOMAIN jobs : jobs'[j].status \in {jobs[j].status, "cancelled"}
      BY <2>2 DEF SessionInv, SessionTypeOK
    <3>2. \A w \in Workers :
            /\ Before(w)' => Before(w) /\ worker'[w].job = worker[w].job
            /\ After(w)' => After(w) /\ worker'[w].job = worker[w].job
      BY DEF Before, After
    <3> QED
      BY <3>1, <3>2, OnceKept DEF SessionInv
  <2> QED
    BY <2>1, <2>2
<1>6. OutsiderHasReason'
  <2>1. expiries > 0 => expiries' > 0
    BY DEF SessionInv, SessionTypeOK
  <2> QED
    BY <2>1, OutsidersKept DEF SessionInv
<1> QED
  BY <1>1, <1>2, <1>3, <1>4, <1>5, <1>6 DEF SessionInv

LEMMA QueueStepsKeep ==
  ASSUME SessionAssumption, SessionInv,
         (\E m \in Msgs : Submit(m)) \/ (\E j \in Ids : Expire(j) \/ Cancel(j))
  PROVE  SessionInv'
<1>1. ASSUME NEW m \in Msgs, Submit(m) PROVE SessionInv'
  <2>1. Turn(m, {}) \in Turns
    BY TurnsTyped
  <2>2. JobsKept /\ \A j \in DOMAIN jobs : jobs'[j] = jobs[j]
    BY <1>1, <2>1, JobsAppended DEF Submit, SessionInv
  <2> QED
    BY <1>1, <2>2, QueueStepKeeps DEF Submit, SessionInv, SessionTypeOK
<1>2. ASSUME NEW j \in DOMAIN jobs, Expire(j) PROVE SessionInv'
  <2>1. JobsKept
    BY <1>2, JobsRestated DEF Expire, SessionInv, Statuses
  <2>2. expiries' > 0 /\ expiries' \in Nat /\ expiries' >= expiries
    BY <1>2 DEF Expire, SessionInv, SessionTypeOK
  <2> QED
    BY <1>2, <2>1, <2>2, QueueStepKeeps DEF Expire, SessionInv, SessionTypeOK
<1>3. ASSUME NEW j \in DOMAIN jobs, Cancel(j) PROVE SessionInv'
  <2>1. JobsKept /\ \A k \in DOMAIN jobs : jobs'[k].status \in {jobs[k].status, "cancelled"}
    BY <1>3, JobsRestated DEF Cancel, SessionInv, Statuses
  <2>2. Covered(j) \subseteq Msgs
    BY JobsTyped DEF Covered, SessionInv, SessionTypeOK
  <2> QED
    BY <1>3, <2>1, <2>2, QueueStepKeeps DEF Cancel, SessionInv, SessionTypeOK
<1> QED
  BY <1>1, <1>2, <1>3 DEF Ids

-----------------------------------------------------------------------------
(* The steps of a worker.                                                    *)

Alone(w) == \A v \in Workers : v # w => worker'[v] = worker[v]

LEMMA MemoriesTyped ==
  ASSUME SessionTypeOK, NEW w \in Workers
  PROVE  /\ worker[w] \in Memories
         /\ worker[w].at \in Places /\ worker[w].job \in Nat /\ worker[w].tries \in Nat
         /\ worker[w].seen \in Nat /\ worker[w].box \in Nat
         /\ worker[w].end \in {Nil, "complete", "fail", "retry", "over"}
         /\ worker[w].commit \in BOOLEAN /\ worker[w].todo \in Seq(Turns)
<1>1. worker[w] \in Memories
  BY DEF SessionTypeOK
<1> QED
  BY <1>1 DEF Memories

LEMMA WorkerMoves ==
  ASSUME SessionTypeOK, NEW w \in Workers, NEW r \in Memories,
         worker' = [worker EXCEPT ![w] = r]
  PROVE  worker' \in [Workers -> Memories] /\ worker'[w] = r /\ Alone(w)
BY DEF SessionTypeOK, Alone

LEMMA WorkerGoes ==
  ASSUME SessionTypeOK, NEW w \in Workers, NEW place \in Places, Goes(w, place)
  PROVE  /\ worker' \in [Workers -> Memories] /\ Alone(w)
         /\ worker'[w] = [worker[w] EXCEPT !.at = place]
         /\ worker'[w].at = place /\ worker'[w].job = worker[w].job
         /\ worker'[w].tries = worker[w].tries /\ worker'[w].seen = worker[w].seen
         /\ worker'[w].box = worker[w].box /\ worker'[w].end = worker[w].end
         /\ worker'[w].commit = worker[w].commit /\ worker'[w].todo = worker[w].todo
<1> DEFINE r == [worker[w] EXCEPT !.at = place]
<1>1. worker[w] \in Memories
  BY MemoriesTyped
<1>2. /\ r \in Memories /\ r.at = place /\ r.job = worker[w].job /\ r.tries = worker[w].tries
      /\ r.seen = worker[w].seen /\ r.box = worker[w].box /\ r.end = worker[w].end
      /\ r.commit = worker[w].commit /\ r.todo = worker[w].todo
  BY <1>1 DEF Memories
<1>3. worker' = [worker EXCEPT ![w] = r]
  BY DEF Goes
<1> HIDE DEF r
<1>4. worker' \in [Workers -> Memories] /\ worker'[w] = r /\ Alone(w)
  BY <1>2, <1>3, WorkerMoves
<1> QED
  BY <1>2, <1>4 DEF r

LEMMA WorkerRests ==
  ASSUME SessionTypeOK, NEW w \in Workers, Rests(w)
  PROVE  worker' \in [Workers -> Memories] /\ Alone(w) /\ worker'[w] = Resting
<1>1. Resting \in Memories
  <2>1. <<>> \in Seq(Turns)
    OBVIOUS
  <2> QED
    BY <2>1 DEF Resting, Memories, Places
<1> QED
  BY <1>1, WorkerMoves DEF Rests

LEMMA WorkerMisses ==
  ASSUME SessionTypeOK, NEW w \in Workers, worker[w].tries > 0, Missed(w)
  PROVE  /\ worker' \in [Workers -> Memories] /\ Alone(w)
         /\ worker'[w].at = "claim" /\ worker'[w].job = worker[w].job
         /\ worker'[w].box = 0 /\ worker'[w].end = worker[w].end
         /\ worker'[w].todo = worker[w].todo
<1> DEFINE a == [worker[w] EXCEPT !.at = "claim"]
           t == [a EXCEPT !.tries = @ - 1]
           r == [t EXCEPT !.box = 0]
<1>1. worker[w] \in Memories /\ worker[w].tries \in Nat
  BY MemoriesTyped
<1>2. /\ a \in Memories /\ a.at = "claim" /\ a.tries = worker[w].tries
      /\ a.job = worker[w].job /\ a.end = worker[w].end /\ a.todo = worker[w].todo
  BY <1>1 DEF Memories, Places
<1>3. worker' = [worker EXCEPT ![w] = r]
  BY <1>1 DEF Missed, SessionTypeOK
<1> HIDE DEF a
<1>4. /\ t \in Memories /\ t.at = "claim" /\ t.job = worker[w].job
      /\ t.end = worker[w].end /\ t.todo = worker[w].todo
  <2>1. a.tries - 1 \in Nat
    BY <1>1, <1>2
  <2> QED
    BY <1>2, <2>1 DEF Memories
<1> HIDE DEF t
<1>5. /\ r \in Memories /\ r.at = "claim" /\ r.job = worker[w].job /\ r.box = 0
      /\ r.end = worker[w].end /\ r.todo = worker[w].todo
  BY <1>4 DEF Memories
<1> HIDE DEF r
<1>6. worker' \in [Workers -> Memories] /\ worker'[w] = r /\ Alone(w)
  BY <1>3, <1>5, WorkerMoves
<1> QED
  BY <1>5, <1>6

(* A step of one worker that opens and releases no session, and takes no job *)
(* from the queue.                                                           *)
LEMMA WorkerStepKeeps ==
  ASSUME SessionInv, NEW w \in Workers, Alone(w), SessionTypeOK', JobsKept,
         Placed(w)', JobsRunOnce', expiries' = expiries,
         DOMAIN boxes' = DOMAIN boxes,
         \A b \in DOMAIN boxes :
           ToSet(boxes'[b].injected) \cup ToSet(boxes'[b].consumed)
             \subseteq ToSet(boxes[b].injected) \cup ToSet(boxes[b].consumed),
         slot' # Nil <=> slot # Nil,
         slot # Nil => slot'.job = slot.job /\ slot'.box = slot.box /\ slot'.user = slot.user,
         Owns(w)' <=> Owns(w),
         worker'[w].box # 0 => worker'[w].box = worker[w].box /\ worker'[w].job = worker[w].job,
         Owns(w) => worker'[w].box = worker[w].box /\ worker'[w].job = worker[w].job,
         worker'[w].at = "run" /\ worker'[w].box = 0
           => /\ worker[w].at = "run" /\ worker[w].box = 0
              /\ worker'[w].job = worker[w].job /\ worker'[w].tries = worker[w].tries
  PROVE  SessionInv'
<1>1. \A v \in Workers : Placed(v)'
  BY PlacedStill DEF SessionInv, Alone
<1>2. SlotIsOwned'
  <2>1. \A v \in Workers : /\ Owns(v)' <=> Owns(v)
                           /\ Owns(v) => /\ worker'[v].job = worker[v].job
                                         /\ worker'[v].box = worker[v].box
    BY DEF Owns, Alone
  <2> QED
    BY <2>1, SlotKept DEF SessionInv
<1>3. InboxesAreOnesOwn'
  <2>1. \A v \in Workers : worker'[v].box # 0 => /\ worker'[v].box = worker[v].box
                                                 /\ worker'[v].job = worker[v].job
    BY DEF Alone
  <2> QED
    BY <2>1, InboxesKept, BoxesTyped DEF SessionInv
<1>4. OutsiderHasReason'
  <2>1. \A v \in Workers :
          worker'[v].at = "run" /\ worker'[v].box = 0
            => /\ worker[v].at = "run" /\ worker[v].box = 0
               /\ worker'[v].job = worker[v].job /\ worker'[v].tries = worker[v].tries
    BY DEF Alone
  <2> QED
    BY <2>1, OutsidersKept DEF SessionInv
<1> QED
  BY <1>1, <1>2, <1>3, <1>4 DEF SessionInv

(* A step that leaves the queue as it is, for the same.                      *)
LEMMA QuietStepKeepsOnce ==
  ASSUME SessionInv, NEW w \in Workers, Alone(w), UNCHANGED <<jobs, expiries>>,
         Before(w)' => Before(w) /\ worker'[w].job = worker[w].job,
         After(w)' => After(w) /\ worker'[w].job = worker[w].job
  PROVE  JobsRunOnce'
<1>1. \A v \in Workers :
        /\ Before(v)' => Before(v) /\ worker'[v].job = worker[v].job
        /\ After(v)' => After(v) /\ worker'[v].job = worker[v].job
  BY DEF Alone, Before, After
<1> QED
  BY <1>1, OnceKept, JobsSame DEF SessionInv

LEMMA SlotTyped ==
  ASSUME SessionTypeOK, slot # Nil
  PROVE  slot \in Slots /\ slot.job \in Nat /\ slot.box \in Nat /\ slot.parked \in Seq(Turns)
<1>1. slot \in Slots
  BY DEF SessionTypeOK
<1> QED
  BY <1>1 DEF Slots

LEMMA TurnOfTyped ==
  ASSUME SessionInv, NEW w \in Workers, worker[w].at # "idle"
  PROVE  /\ worker[w].job \in DOMAIN jobs /\ TurnOf(w) \in Turns
         /\ TurnOf(w).msg = jobs[worker[w].job].msg
         /\ Asks(TurnOf(w)) = Covered(worker[w].job)
<1>1. worker[w].job \in DOMAIN jobs
  BY DEF SessionInv, Placed
<1>2. jobs[worker[w].job].msg \in Msgs /\ jobs[worker[w].job].behind \in SUBSET Msgs
  BY <1>1, JobsTyped DEF SessionInv, SessionTypeOK
<1> QED
  BY <1>1, <1>2, TurnsTyped DEF TurnOf, JobOf, Turn, Asks, Covered

LEMMA FindInboxKeeps ==
  ASSUME SessionInv, NEW w \in Workers, FindInbox(w)
  PROVE  SessionInv'
<1>1. /\ SessionTypeOK /\ Has(w, "inject") /\ worker[w].job \in DOMAIN jobs
      /\ worker[w].box = 0 /\ worker[w].tries > 0
      /\ UserOf[jobs[worker[w].seen].msg] = UserOf[jobs[worker[w].job].msg]
      /\ UNCHANGED <<jobs, slot, boxes, settled, retries, expiries, cancels>>
  BY DEF SessionInv, FindInbox, Placed, Has
<1>2. JobsKept
  BY <1>1, JobsSame
<1>3. CASE ~ StillThere(w)
  <2>1. /\ worker' \in [Workers -> Memories] /\ Alone(w)
        /\ worker'[w].at = "claim" /\ worker'[w].job = worker[w].job /\ worker'[w].box = 0
    BY <1>1, <1>3, WorkerMisses DEF FindInbox
  <2>2. SessionTypeOK' /\ Placed(w)'
    BY <1>1, <2>1 DEF SessionTypeOK, Placed
  <2>3. JobsRunOnce'
    BY <1>1, <2>1, QuietStepKeepsOnce DEF Before, After, Has
  <2>4. ~ Owns(w) /\ ~ Owns(w)'
    BY <1>1, <2>1 DEF Owns
  <2> QED
    BY <1>1, <1>2, <2>1, <2>2, <2>3, <2>4, WorkerStepKeeps
<1>4. CASE StillThere(w)
  <2> DEFINE a == [worker[w] EXCEPT !.at = "push"]
             c == [a EXCEPT !.seen = 0]
             r == [c EXCEPT !.box = slot.box]
  <2>1. /\ slot # Nil /\ slot.job = worker[w].seen /\ slot.box \in Nat
        /\ slot.box \in DOMAIN boxes /\ slot.user = UserOf[jobs[slot.job].msg]
    BY <1>1, <1>4, SlotTyped DEF StillThere, SessionInv, SlotIsOwned
  <2>2. a \in Memories /\ a.at = "push" /\ a.job = worker[w].job /\ a.tries = worker[w].tries
    BY <1>1, MemoriesTyped DEF Memories, Places
  <2>3. worker' = [worker EXCEPT ![w] = r]
    BY <1>1, <1>4 DEF FindInbox, SessionTypeOK
  <2> HIDE DEF a
  <2>4. c \in Memories /\ c.at = "push" /\ c.job = worker[w].job /\ c.tries = worker[w].tries
    BY <2>2 DEF Memories
  <2> HIDE DEF c
  <2>5. /\ r \in Memories /\ r.at = "push" /\ r.job = worker[w].job /\ r.box = slot.box
        /\ r.tries = worker[w].tries
    BY <2>1, <2>4 DEF Memories
  <2> HIDE DEF r
  <2>6. /\ worker' \in [Workers -> Memories] /\ Alone(w)
        /\ worker'[w].at = "push" /\ worker'[w].job = worker[w].job /\ worker'[w].box = slot.box
        /\ worker'[w].tries = worker[w].tries
    BY <1>1, <2>3, <2>5, WorkerMoves
  <2>7. 0 \notin DOMAIN boxes
    BY <1>1, BoxesTyped
  <2>8. SessionTypeOK'
    BY <1>1, <2>6 DEF SessionTypeOK
  <2>9. \A v \in Workers : Placed(v)'
    <3>1. Placed(w)'
      BY <1>1, <2>1, <2>6, <2>7 DEF Placed
    <3> QED
      BY <1>1, <1>2, <2>6, <3>1, PlacedStill DEF SessionInv, Alone
  <2>10. SlotIsOwned'
    <3>1. ~ Owns(w) /\ ~ Owns(w)'
      BY <1>1, <2>6 DEF Owns
    <3>2. \A v \in Workers : /\ Owns(v)' <=> Owns(v)
                             /\ Owns(v) => /\ worker'[v].job = worker[v].job
                                           /\ worker'[v].box = worker[v].box
      BY <2>6, <3>1 DEF Owns, Alone
    <3> QED
      BY <1>1, <1>2, <3>2, SlotKept DEF SessionInv
  <2>11. InboxesAreOnesOwn'
    <3> SUFFICES ASSUME NEW b \in DOMAIN boxes PROVE \E u : ForUser(b, u)'
      BY <1>1 DEF InboxesAreOnesOwn
    <3>1. PICK u : ForUser(b, u)
      BY DEF SessionInv, InboxesAreOnesOwn
    <3>2. \A v \in Workers : worker'[v].box = b => UserOf[jobs[worker'[v].job].msg] = u
      <4>1. CASE slot.box = b
        <5>1. slot.user = u
          BY <2>1, <3>1, <4>1 DEF ForUser
        <5> QED
          BY <1>1, <2>1, <2>6, <3>1, <5>1 DEF ForUser, Alone
      <4>2. CASE slot.box # b
        BY <2>6, <3>1, <4>2 DEF ForUser, Alone
      <4> QED
        BY <4>1, <4>2
    <3> QED
      BY <1>1, <3>1, <3>2 DEF ForUser
  <2>12. JobsRunOnce'
    BY <1>1, <2>6, QuietStepKeepsOnce DEF Before, After, Has
  <2>13. OutsiderHasReason'
    <3>1. \A v \in Workers :
            worker'[v].at = "run" /\ worker'[v].box = 0
              => /\ worker[v].at = "run" /\ worker[v].box = 0
                 /\ worker'[v].job = worker[v].job /\ worker'[v].tries = worker[v].tries
      BY <2>6 DEF Alone
    <3> QED
      BY <1>1, <1>2, <3>1, OutsidersKept DEF SessionInv
  <2> QED
    BY <2>8, <2>9, <2>10, <2>11, <2>12, <2>13 DEF SessionInv
<1> QED
  BY <1>3, <1>4

LEMMA ParkKeeps ==
  ASSUME SessionInv, NEW w \in Workers, Park(w)
  PROVE  SessionInv'
<1>1. /\ SessionTypeOK /\ Has(w, "park") /\ worker[w].at = "park" /\ worker[w].job \in DOMAIN jobs
      /\ worker[w].box = 0 /\ worker[w].tries > 0
      /\ UNCHANGED <<jobs, boxes, settled, retries, expiries, cancels>>
  BY DEF SessionInv, Park, Placed, Has
<1>2. JobsKept
  BY <1>1, JobsSame
<1>3. /\ slot' \in Slots \cup {Nil}
      /\ slot' # Nil <=> slot # Nil
      /\ slot # Nil => slot'.job = slot.job /\ slot'.box = slot.box /\ slot'.user = slot.user
  <2>1. CASE StillThere(w)
    <3>1. slot # Nil /\ slot \in Slots /\ slot.parked \in Seq(Turns)
      BY <1>1, <2>1, SlotTyped DEF StillThere
    <3>2. Append(slot.parked, TurnOf(w)) \in Seq(Turns)
      BY <1>1, <3>1, TurnOfTyped, AskedInAppend
    <3>3. /\ slot' \in Slots
          /\ slot'.job = slot.job /\ slot'.box = slot.box /\ slot'.user = slot.user
      BY <2>1, <3>1, <3>2 DEF Park, Slots
    <3> QED
      BY <3>1, <3>3, NilIsNoSession
  <2>2. CASE ~ StillThere(w)
    BY <1>1, <2>2 DEF Park, SessionTypeOK
  <2> QED
    BY <2>1, <2>2
<1>4. /\ worker' \in [Workers -> Memories] /\ Alone(w)
      /\ worker'[w].at \in {"absorbed", "claim"}
      /\ worker'[w].job = worker[w].job /\ worker'[w].box = 0
  <2>1. CASE StillThere(w)
    BY <1>1, <2>1, WorkerGoes DEF Park, Places
  <2>2. CASE ~ StillThere(w)
    BY <1>1, <2>2, WorkerMisses DEF Park
  <2> QED
    BY <2>1, <2>2
<1>5. SessionTypeOK' /\ Placed(w)'
  BY <1>1, <1>3, <1>4 DEF SessionTypeOK, Placed
<1>6. JobsRunOnce'
  BY <1>1, <1>4, QuietStepKeepsOnce DEF Before, After
<1>7. ~ Owns(w) /\ ~ Owns(w)'
  BY <1>1, <1>4 DEF Owns
<1> QED
  BY <1>1, <1>2, <1>3, <1>4, <1>5, <1>6, <1>7, WorkerStepKeeps

(* What is in a sequence of turns.                                           *)
LEMMA TurnsInAppend ==
  ASSUME NEW s \in Seq(Turns), NEW t \in Turns
  PROVE  ToSet(Append(s, t)) = ToSet(s) \cup {t}
<1>1. /\ DOMAIN s = 1 .. Len(s) /\ Len(s) \in Nat
      /\ DOMAIN Append(s, t) = 1 .. Len(s) + 1
      /\ \A i \in 1 .. Len(s) : Append(s, t)[i] = s[i]
      /\ Append(s, t)[Len(s) + 1] = t
  BY AppendFacts
<1>2. 1 .. Len(s) + 1 = 1 .. Len(s) \cup {Len(s) + 1}
  BY <1>1
<1> QED
  BY <1>1, <1>2 DEF ToSet

LEMMA TurnsInConcat ==
  ASSUME NEW s \in Seq(Turns), NEW r \in Seq(Turns)
  PROVE  ToSet(s \o r) \subseteq ToSet(s) \cup ToSet(r)
<1>1. /\ DOMAIN (s \o r) = 1 .. Len(s) + Len(r)
      /\ DOMAIN s = 1 .. Len(s) /\ DOMAIN r = 1 .. Len(r)
      /\ Len(s) \in Nat /\ Len(r) \in Nat
      /\ \A i \in 1 .. Len(s) : (s \o r)[i] = s[i]
      /\ \A i \in 1 .. Len(r) : (s \o r)[Len(s) + i] = r[i]
  OBVIOUS
<1> SUFFICES ASSUME NEW i \in 1 .. Len(s) + Len(r)
             PROVE  (s \o r)[i] \in ToSet(s) \cup ToSet(r)
  BY <1>1 DEF ToSet
<1>2. CASE i \in 1 .. Len(s)
  BY <1>1, <1>2 DEF ToSet
<1>3. CASE i \notin 1 .. Len(s)
  <2>1. i - Len(s) \in 1 .. Len(r) /\ Len(s) + (i - Len(s)) = i
    BY <1>1, <1>3
  <2>2. (s \o r)[i] = r[i - Len(s)]
    BY <1>1, <2>1
  <2> QED
    BY <1>1, <2>1, <2>2 DEF ToSet
<1> QED
  BY <1>2, <1>3

LEMMA BoxUpdated ==
  ASSUME SessionTypeOK, NEW b \in DOMAIN boxes, NEW e \in BoxRecords,
         boxes' = [boxes EXCEPT ![b] = e]
  PROVE  /\ boxes' \in Seq(BoxRecords) /\ DOMAIN boxes' = DOMAIN boxes /\ boxes'[b] = e
         /\ \A k \in DOMAIN boxes : k # b => boxes'[k] = boxes[k]
BY UpdateFacts DEF SessionTypeOK

LEMMA PushKeeps ==
  ASSUME SessionInv, NEW w \in Workers, Push(w)
  PROVE  SessionInv'
<1> DEFINE b == worker[w].box
<1>1. /\ SessionTypeOK /\ worker[w].at = "push" /\ worker[w].job \in DOMAIN jobs
      /\ b # 0 /\ b \in DOMAIN boxes /\ worker[w].tries > 0
      /\ UNCHANGED <<jobs, slot, settled, retries, expiries, cancels>>
  BY DEF SessionInv, Push, Placed, Has
<1>2. JobsKept
  BY <1>1, JobsSame
<1>3. CASE boxes[b].sealed
  <2>1. /\ worker' \in [Workers -> Memories] /\ Alone(w) /\ boxes' = boxes
        /\ worker'[w].at = "claim" /\ worker'[w].job = worker[w].job /\ worker'[w].box = 0
    BY <1>1, <1>3, WorkerMisses DEF Push
  <2>2. SessionTypeOK' /\ Placed(w)'
    BY <1>1, <2>1 DEF SessionTypeOK, Placed
  <2>3. JobsRunOnce'
    BY <1>1, <2>1, QuietStepKeepsOnce DEF Before, After
  <2>4. ~ Owns(w) /\ ~ Owns(w)'
    BY <1>1, <2>1 DEF Owns
  <2> QED
    BY <1>1, <1>2, <2>1, <2>2, <2>3, <2>4, WorkerStepKeeps
<1>4. CASE ~ boxes[b].sealed
  <2> DEFINE e == [boxes[b] EXCEPT !.injected = Append(@, TurnOf(w))]
  <2>1. /\ worker' \in [Workers -> Memories] /\ Alone(w)
        /\ worker'[w].at = "absorbed" /\ worker'[w].job = worker[w].job
        /\ worker'[w].box = b
    BY <1>1, <1>4, WorkerGoes DEF Push, Places
  <2>2. /\ TurnOf(w) \in Turns /\ TurnOf(w).msg = jobs[worker[w].job].msg
        /\ boxes[b] \in BoxRecords /\ boxes[b].injected \in Seq(Turns)
    BY <1>1, TurnOfTyped, BoxesTyped
  <2>3. Append(boxes[b].injected, TurnOf(w)) \in Seq(Turns)
    BY <2>2, AskedInAppend
  <2>4. /\ e \in BoxRecords /\ e.consumed = boxes[b].consumed
        /\ e.injected = Append(boxes[b].injected, TurnOf(w))
    BY <2>2, <2>3 DEF BoxRecords
  <2>5. boxes' = [boxes EXCEPT ![b] = e]
    BY <1>1, <1>4 DEF Push
  <2> HIDE DEF e
  <2>6. /\ boxes' \in Seq(BoxRecords) /\ DOMAIN boxes' = DOMAIN boxes /\ boxes'[b] = e
        /\ \A k \in DOMAIN boxes : k # b => boxes'[k] = boxes[k]
    BY <1>1, <2>4, <2>5, BoxUpdated
  <2>7. SessionTypeOK'
    BY <1>1, <2>1, <2>6 DEF SessionTypeOK
  <2>8. \A v \in Workers : Placed(v)'
    <3>1. Placed(w)'
      BY <1>1, <2>1, <2>6 DEF Placed
    <3> QED
      BY <1>1, <1>2, <2>1, <2>6, <3>1, PlacedStill DEF SessionInv, Alone
  <2>9. SlotIsOwned'
    <3>1. ~ Owns(w) /\ ~ Owns(w)'
      BY <1>1, <2>1 DEF Owns
    <3>2. \A v \in Workers : /\ Owns(v)' <=> Owns(v)
                             /\ Owns(v) => /\ worker'[v].job = worker[v].job
                                           /\ worker'[v].box = worker[v].box
      BY <2>1, <3>1 DEF Owns, Alone
    <3> QED
      BY <1>1, <1>2, <2>6, <3>2, SlotKept DEF SessionInv
  <2>10. InboxesAreOnesOwn'
    <3> SUFFICES ASSUME NEW k \in DOMAIN boxes PROVE \E u : ForUser(k, u)'
      BY <2>6 DEF InboxesAreOnesOwn
    <3>1. PICK u : ForUser(k, u)
      BY DEF SessionInv, InboxesAreOnesOwn
    <3>2. \A v \in Workers : worker'[v].box = k => UserOf[jobs[worker'[v].job].msg] = u
      BY <2>1, <3>1 DEF ForUser, Alone
    <3>3. \A t \in ToSet(boxes'[k].injected) \cup ToSet(boxes'[k].consumed) : UserOf[t.msg] = u
      <4>1. CASE k = b
        <5>1. ToSet(boxes'[k].injected) = ToSet(boxes[k].injected) \cup {TurnOf(w)}
          BY <2>2, <2>4, <2>6, <4>1, TurnsInAppend
        <5>2. UserOf[TurnOf(w).msg] = u
          BY <2>2, <3>1, <4>1 DEF ForUser
        <5> QED
          BY <2>4, <2>6, <3>1, <4>1, <5>1, <5>2 DEF ForUser
      <4>2. CASE k # b
        BY <2>6, <3>1, <4>2 DEF ForUser
      <4> QED
        BY <4>1, <4>2
    <3> QED
      BY <1>1, <3>1, <3>2, <3>3 DEF ForUser
  <2>11. JobsRunOnce'
    BY <1>1, <2>1, QuietStepKeepsOnce DEF Before, After
  <2>12. OutsiderHasReason'
    <3>1. \A v \in Workers :
            worker'[v].at = "run" /\ worker'[v].box = 0
              => /\ worker[v].at = "run" /\ worker[v].box = 0
                 /\ worker'[v].job = worker[v].job /\ worker'[v].tries = worker[v].tries
      BY <2>1 DEF Alone
    <3> QED
      BY <1>1, <1>2, <3>1, OutsidersKept DEF SessionInv
  <2> QED
    BY <2>7, <2>8, <2>9, <2>10, <2>11, <2>12 DEF SessionInv
<1> QED
  BY <1>3, <1>4

LEMMA DrainKeeps ==
  ASSUME SessionInv, NEW w \in Workers, Drain(w)
  PROVE  /\ SessionInv'
         /\ DOMAIN boxes' = DOMAIN boxes
         /\ boxes'[worker[w].box].injected = <<>>
         /\ boxes'[worker[w].box].consumed
              = boxes[worker[w].box].consumed \o boxes[worker[w].box].injected
         /\ \A k \in DOMAIN boxes : k # worker[w].box => boxes'[k] = boxes[k]
<1> DEFINE b == worker[w].box
           c == [boxes[b] EXCEPT !.injected = <<>>]
           e == [c EXCEPT !.consumed = @ \o boxes[b].injected]
<1>1. /\ SessionTypeOK /\ worker[w].at = "run" /\ b # 0 /\ b \in DOMAIN boxes
      /\ UNCHANGED <<jobs, slot, worker, settled, retries, expiries, cancels>>
  BY DEF SessionInv, Drain, Placed, Has, HasBox
<1>2. JobsKept
  BY <1>1, JobsSame
<1>3. /\ boxes[b] \in BoxRecords
      /\ boxes[b].injected \in Seq(Turns) /\ boxes[b].consumed \in Seq(Turns)
  BY <1>1, BoxesTyped
<1>4. boxes[b].consumed \o boxes[b].injected \in Seq(Turns) /\ <<>> \in Seq(Turns)
  BY <1>3, AskedInConcat
<1>5. /\ e \in BoxRecords /\ e.injected = <<>>
      /\ e.consumed = boxes[b].consumed \o boxes[b].injected
  <2>1. c \in BoxRecords /\ c.injected = <<>> /\ c.consumed = boxes[b].consumed
    BY <1>3, <1>4 DEF BoxRecords
  <2> HIDE DEF c
  <2> QED
    BY <1>4, <2>1 DEF BoxRecords
<1>6. boxes' = [boxes EXCEPT ![b] = e]
  BY <1>1 DEF Drain, Box, SessionTypeOK
<1> HIDE DEF e
<1>7. /\ boxes' \in Seq(BoxRecords) /\ DOMAIN boxes' = DOMAIN boxes /\ boxes'[b] = e
      /\ \A k \in DOMAIN boxes : k # b => boxes'[k] = boxes[k]
  BY <1>1, <1>5, <1>6, BoxUpdated
<1>8. SessionTypeOK'
  BY <1>1, <1>7 DEF SessionTypeOK
<1>9. Alone(w) /\ Placed(w)'
  BY <1>1, <1>2, <1>7, PlacedStill DEF Alone, SessionInv
<1>10. \A k \in DOMAIN boxes :
         ToSet(boxes'[k].injected) \cup ToSet(boxes'[k].consumed)
           \subseteq ToSet(boxes[k].injected) \cup ToSet(boxes[k].consumed)
  <2>1. ToSet(<<>>) = {}
    BY DEF ToSet
  <2>2. ToSet(boxes[b].consumed \o boxes[b].injected)
          \subseteq ToSet(boxes[b].consumed) \cup ToSet(boxes[b].injected)
    BY <1>3, TurnsInConcat
  <2> QED
    BY <1>5, <1>7, <2>1, <2>2
<1>11. JobsRunOnce'
  BY <1>1, <1>9, QuietStepKeepsOnce DEF Before, After
<1>12. SessionInv'
  <2>1. Owns(w)' <=> Owns(w)
    BY <1>1 DEF Owns
  <2> QED
    BY <1>1, <1>2, <1>7, <1>8, <1>9, <1>10, <1>11, <2>1, WorkerStepKeeps
<1> QED
  BY <1>5, <1>7, <1>12

LEMMA ResolveMoves ==
  ASSUME SessionTypeOK, NEW w \in Workers, NEW end \in Ends, Resolve(w, end)
  PROVE  /\ worker' \in [Workers -> Memories] /\ Alone(w)
         /\ worker[w].at = "run" /\ worker'[w].at = "resolved"
         /\ worker'[w].job = worker[w].job /\ worker'[w].box = worker[w].box
         /\ worker'[w].todo = worker[w].todo /\ worker'[w].commit = (end = "complete")
         /\ worker'[w].end = IF end = "retry" /\ HasConsumed(w) THEN "over" ELSE end
<1> DEFINE x == IF end = "retry" /\ HasConsumed(w) THEN "over" ELSE end
           a == [worker[w] EXCEPT !.at = "resolved"]
           c == [a EXCEPT !.end = x]
           r == [c EXCEPT !.commit = (end = "complete")]
<1>1. worker[w] \in Memories /\ worker[w].at = "run"
  BY MemoriesTyped DEF Resolve, Has
<1>2. x \in {Nil, "complete", "fail", "retry", "over"} /\ (end = "complete") \in BOOLEAN
  BY DEF Ends
<1>3. worker' = [worker EXCEPT ![w] = r]
  <2>1. worker' = [worker EXCEPT ![w].at = "resolved", ![w].end = x,
                                 ![w].commit = (end = "complete")]
    BY DEF Resolve
  <2> HIDE DEF x
  <2> QED
    BY <1>1, <2>1 DEF SessionTypeOK
<1> HIDE DEF x
<1>4. /\ a \in Memories /\ a.at = "resolved" /\ a.job = worker[w].job /\ a.box = worker[w].box
      /\ a.todo = worker[w].todo
  BY <1>1 DEF Memories, Places
<1> HIDE DEF a
<1>5. /\ c \in Memories /\ c.at = "resolved" /\ c.job = worker[w].job /\ c.box = worker[w].box
      /\ c.todo = worker[w].todo /\ c.end = x
  BY <1>2, <1>4 DEF Memories
<1> HIDE DEF c
<1>6. /\ r \in Memories /\ r.at = "resolved" /\ r.job = worker[w].job /\ r.box = worker[w].box
      /\ r.todo = worker[w].todo /\ r.end = x /\ r.commit = (end = "complete")
  BY <1>2, <1>5 DEF Memories
<1> HIDE DEF r
<1>7. worker' \in [Workers -> Memories] /\ worker'[w] = r /\ Alone(w)
  BY <1>3, <1>6, WorkerMoves
<1> QED
  BY <1>1, <1>6, <1>7 DEF x

LEMMA ResolveKeeps ==
  ASSUME SessionInv, NEW w \in Workers, NEW end \in Ends, Resolve(w, end)
  PROVE  SessionInv'
<1>1. /\ SessionTypeOK /\ worker[w].job \in DOMAIN jobs
      /\ worker[w].at = "run" /\ Placed(w)
      /\ UNCHANGED <<jobs, slot, boxes, settled, expiries, cancels>>
      /\ retries' \in {retries, retries + 1}
  BY DEF SessionInv, Resolve, Has, Placed
<1>2. JobsKept
  BY <1>1, JobsSame
<1>3. /\ worker' \in [Workers -> Memories] /\ Alone(w) /\ worker'[w].at = "resolved"
      /\ worker'[w].job = worker[w].job /\ worker'[w].box = worker[w].box
      /\ worker'[w].end \in {"complete", "fail", "retry", "over"}
  BY <1>1, ResolveMoves DEF Ends
<1>4. SessionTypeOK' /\ Placed(w)'
  BY <1>1, <1>3 DEF SessionTypeOK, Placed
<1>5. JobsRunOnce'
  BY <1>1, <1>3, QuietStepKeepsOnce DEF Before, After
<1>6. Owns(w)' <=> Owns(w)
  BY <1>1, <1>3 DEF Owns
<1> QED
  BY <1>1, <1>2, <1>3, <1>4, <1>5, <1>6, WorkerStepKeeps

LEMMA AbsorbedKeeps ==
  ASSUME SessionInv, NEW w \in Workers, Absorbed(w)
  PROVE  SessionInv'
<1> DEFINE j == worker[w].job
<1>1. /\ SessionTypeOK /\ j \in DOMAIN jobs /\ worker[w].at = "absorbed"
      /\ UNCHANGED <<slot, boxes, settled, retries, expiries, cancels>>
  BY DEF SessionInv, Absorbed, Has, Placed
<1>2. /\ JobsKept /\ DOMAIN jobs' = DOMAIN jobs
      /\ jobs'[j].status \in {"completed", "cancelled"}
      /\ jobs'[j].attempt = jobs[j].attempt
      /\ \A k \in DOMAIN jobs : k # j => jobs'[k] = jobs[k]
  BY <1>1, JobsBecome DEF Absorbed, Statuses
<1>3. worker' \in [Workers -> Memories] /\ Alone(w) /\ worker'[w] = Resting
  BY <1>1, WorkerRests DEF Absorbed
<1>4. SessionTypeOK' /\ Placed(w)'
  BY <1>1, <1>2, <1>3 DEF SessionTypeOK, Placed, JobsKept, Resting
<1>5. JobsRunOnce'
  <2> SUFFICES ASSUME expiries = 0 PROVE JobsRunOnce'
    BY <1>1 DEF JobsRunOnce
  <2>1. Before(w) /\ ~ Before(w)' /\ ~ After(w)'
    BY <1>1, <1>3 DEF Before, After, Resting
  <2>2. \A v \in Workers : /\ Before(v)' => v # w /\ Before(v) /\ worker'[v].job = worker[v].job
                           /\ After(v)' => v # w /\ After(v) /\ worker'[v].job = worker[v].job
    BY <1>3, <2>1 DEF Before, After, Alone
  <2>3. \A v \in Workers : Before(v)' => worker[v].job # j /\ worker[v].job \in DOMAIN jobs
    BY <2>1, <2>2 DEF SessionInv, JobsRunOnce, Placed, Before
  <2>4. \A v, u \in Workers : Before(v)' /\ Before(u)' /\ v # u => worker'[v].job # worker'[u].job
    BY <2>2 DEF SessionInv, JobsRunOnce
  <2>5. \A v \in Workers : Before(v)' => jobs'[worker'[v].job].status \in {"processing", "cancelled"}
    BY <1>2, <2>2, <2>3 DEF SessionInv, JobsRunOnce
  <2>6. \A v \in Workers : After(v) => worker[v].job \in DOMAIN jobs
    BY DEF After, SessionInv, Placed
  <2>7. \A v \in Workers : After(v)' /\ Retried(v) => Retried(v)'
    BY <1>2, <2>2, <2>6 DEF Retried
  <2>8. \A v \in Workers :
          After(v)' => \/ jobs'[worker'[v].job].status \notin {"pending", "processing"}
                       \/ Retried(v)'
    BY <1>2, <2>2, <2>6, <2>7 DEF SessionInv, JobsRunOnce
  <2>9. \A v, u \in Workers :
          Before(v)' /\ After(u)' /\ worker'[v].job = worker'[u].job => Retried(u)'
    BY <2>2, <2>7 DEF SessionInv, JobsRunOnce
  <2> QED
    BY <2>4, <2>5, <2>8, <2>9 DEF JobsRunOnce
<1>6. ~ Owns(w) /\ ~ Owns(w)' /\ worker'[w].box = 0 /\ worker'[w].at # "run"
  BY <1>1, <1>3 DEF Owns, Resting
<1> QED
  BY <1>1, <1>2, <1>3, <1>4, <1>5, <1>6, WorkerStepKeeps

(* What finalizing does to the job: it is over, or pending once more.        *)
LEMMA FinalizeMoves ==
  ASSUME SessionInv, NEW w \in Workers, Finalize(w)
  PROVE  /\ JobsKept /\ DOMAIN jobs' = DOMAIN jobs
         /\ worker[w].job \in DOMAIN jobs
         /\ \A k \in DOMAIN jobs : k # worker[w].job => jobs'[k] = jobs[k]
         /\ worker[w].end # "retry" =>
              /\ jobs'[worker[w].job].attempt = jobs[worker[w].job].attempt
              /\ jobs'[worker[w].job].status \notin {"pending", "processing"}
         /\ worker[w].end = "retry" =>
              /\ jobs'[worker[w].job].attempt > 0
              /\ jobs'[worker[w].job].status
                   = IF jobs[worker[w].job].status = "cancelled" THEN "cancelled" ELSE "pending"
         /\ worker' \in [Workers -> Memories] /\ Alone(w)
         /\ worker[w].box # 0 => /\ worker'[w].at = "release" /\ worker'[w].job = worker[w].job
                                 /\ worker'[w].box = worker[w].box
                                 /\ worker'[w].end = worker[w].end
                                 /\ worker'[w].commit = worker[w].commit
                                 /\ worker'[w].todo = worker[w].todo
         /\ worker[w].box = 0 => worker'[w] = Resting
<1>1. /\ SessionTypeOK /\ worker[w].at = "resolved" /\ worker[w].job \in DOMAIN jobs
      /\ worker[w].end \in {"complete", "fail", "retry", "over"}
  BY DEF SessionInv, Finalize, Has, Placed
<1>2. CASE worker[w].end = "retry"
  <2>1. jobs' = [Becomes(worker[w].job, "pending") EXCEPT ![worker[w].job].attempt = @ + 1]
    BY <1>2 DEF Finalize
  <2>2. /\ JobsKept /\ DOMAIN jobs' = DOMAIN jobs
        /\ jobs'[worker[w].job].attempt > 0
        /\ jobs'[worker[w].job].status
             = IF jobs[worker[w].job].status = "cancelled" THEN "cancelled" ELSE "pending"
        /\ \A k \in DOMAIN jobs : k # worker[w].job => jobs'[k] = jobs[k]
    BY <1>1, <2>1, JobsRetried
  <2>3. /\ worker[w].box # 0 => Goes(w, "release")
        /\ worker[w].box = 0 => Rests(w)
    BY DEF Finalize, HasBox
  <2> QED
    BY <1>1, <1>2, <2>2, <2>3, WorkerGoes, WorkerRests DEF Places
<1>3. CASE worker[w].end # "retry"
  <2>1. \E st \in {"completed", "failed"} : jobs' = Becomes(worker[w].job, st)
    BY <1>1, <1>3 DEF Finalize
  <2>2. /\ JobsKept /\ DOMAIN jobs' = DOMAIN jobs
        /\ jobs'[worker[w].job].attempt = jobs[worker[w].job].attempt
        /\ jobs'[worker[w].job].status \notin {"pending", "processing"}
        /\ \A k \in DOMAIN jobs : k # worker[w].job => jobs'[k] = jobs[k]
    BY <1>1, <2>1, JobsBecome DEF Statuses
  <2>3. /\ worker[w].box # 0 => Goes(w, "release")
        /\ worker[w].box = 0 => Rests(w)
    BY DEF Finalize, HasBox
  <2> QED
    BY <1>1, <1>3, <2>2, <2>3, WorkerGoes, WorkerRests DEF Places
<1> QED
  BY <1>2, <1>3

LEMMA FinalizeKeeps ==
  ASSUME SessionAssumption, SessionInv, NEW w \in Workers, Finalize(w)
  PROVE  SessionInv'
<1> DEFINE j == worker[w].job
<1>1. /\ SessionTypeOK /\ worker[w].at = "resolved" /\ j \in DOMAIN jobs /\ Placed(w)
      /\ UNCHANGED <<slot, boxes, retries, expiries, cancels>>
  BY DEF SessionInv, Finalize, Has, Placed
<1>2. /\ JobsKept /\ DOMAIN jobs' = DOMAIN jobs
      /\ \A k \in DOMAIN jobs : k # j => jobs'[k] = jobs[k]
      /\ jobs'[j].status \notin {"pending", "processing"} \/ jobs'[j].attempt > 0
      /\ jobs'[j].attempt > 0 \/ jobs'[j].attempt = jobs[j].attempt
      /\ worker' \in [Workers -> Memories] /\ Alone(w)
      /\ worker[w].box # 0 => /\ worker'[w].at = "release" /\ worker'[w].job = j
                              /\ worker'[w].box = worker[w].box
      /\ worker[w].box = 0 => worker'[w] = Resting
  BY FinalizeMoves
<1>3. settled' \subseteq Msgs
  <2>1. Covered(j) \subseteq Msgs
    BY <1>1, JobsTyped DEF Covered, SessionTypeOK
  <2>2. HasBox(w) => Messages(Taken(Box(w))) \subseteq Msgs
    <3> SUFFICES ASSUME HasBox(w) PROVE Messages(Taken(Box(w))) \subseteq Msgs
      OBVIOUS
    <3>1. Box(w).consumed \in Seq(Turns)
      BY <1>1, BoxesTyped DEF Box, HasBox, Placed
    <3>2. \A t \in Taken(Box(w)) : t \in Turns
      BY <3>1 DEF Taken
    <3> QED
      BY <3>2 DEF Messages, Turns
  <2> QED
    BY <1>1, <2>1, <2>2 DEF Finalize, SessionTypeOK
<1>4. SessionTypeOK' /\ Placed(w)'
  BY <1>1, <1>2, <1>3 DEF SessionTypeOK, JobsKept, Placed, Resting
<1>5. JobsRunOnce'
  <2> SUFFICES ASSUME expiries = 0 PROVE JobsRunOnce'
    BY <1>1 DEF JobsRunOnce
  <2>1. Before(w) /\ ~ Before(w)' /\ (After(w)' => worker'[w].job = j)
    BY <1>1, <1>2 DEF Before, After, Resting
  <2>2. \A v \in Workers : /\ Before(v)' => v # w /\ Before(v) /\ worker'[v].job = worker[v].job
                           /\ After(v)' /\ v # w => After(v) /\ worker'[v].job = worker[v].job
    BY <1>2, <2>1 DEF Before, After, Alone
  <2>3. \A v \in Workers : Before(v)' => worker[v].job # j /\ worker[v].job \in DOMAIN jobs
    BY <2>1, <2>2 DEF SessionInv, JobsRunOnce, Placed, Before
  <2>4. \A v, u \in Workers : Before(v)' /\ Before(u)' /\ v # u => worker'[v].job # worker'[u].job
    BY <2>2 DEF SessionInv, JobsRunOnce
  <2>5. \A v \in Workers : Before(v)' => jobs'[worker'[v].job].status \in {"processing", "cancelled"}
    BY <1>2, <2>2, <2>3 DEF SessionInv, JobsRunOnce
  <2>6. \A v \in Workers : After(v) => worker[v].job \in DOMAIN jobs
    BY DEF After, SessionInv, Placed
  <2>7. \A v \in Workers : After(v)' /\ v # w /\ Retried(v) => Retried(v)'
    BY <1>2, <2>2, <2>6 DEF Retried
  <2>8. \A v \in Workers :
          After(v)' => \/ jobs'[worker'[v].job].status \notin {"pending", "processing"}
                       \/ Retried(v)'
    <3>1. After(w)' => \/ jobs'[worker'[w].job].status \notin {"pending", "processing"}
                       \/ Retried(w)'
      BY <1>2, <2>1 DEF Retried
    <3>2. ASSUME NEW v \in Workers, After(v)', v # w, worker[v].job = j
          PROVE  \/ jobs'[worker'[v].job].status \notin {"pending", "processing"}
                 \/ Retried(v)'
      BY <1>2, <2>2, <3>2 DEF Retried
    <3>3. ASSUME NEW v \in Workers, After(v)', v # w, worker[v].job # j
          PROVE  \/ jobs'[worker'[v].job].status \notin {"pending", "processing"}
                 \/ Retried(v)'
      BY <1>2, <2>2, <2>6, <2>7, <3>3 DEF SessionInv, JobsRunOnce
    <3> QED
      BY <3>1, <3>2, <3>3
  <2>9. \A v, u \in Workers :
          Before(v)' /\ After(u)' /\ worker'[v].job = worker'[u].job => Retried(u)'
    <3> SUFFICES ASSUME NEW v \in Workers, NEW u \in Workers, Before(v)', After(u)',
                        worker'[v].job = worker'[u].job
                 PROVE  Retried(u)'
      OBVIOUS
    <3>1. worker[v].job # j /\ worker'[v].job = worker[v].job /\ Before(v)
      BY <2>2, <2>3
    <3>2. u # w /\ After(u) /\ worker'[u].job = worker[u].job
      BY <2>1, <2>2, <3>1
    <3> QED
      BY <2>7, <3>1, <3>2 DEF SessionInv, JobsRunOnce
  <2> QED
    BY <2>4, <2>5, <2>8, <2>9 DEF JobsRunOnce
<1>6. /\ Owns(w)' <=> Owns(w)
      /\ Owns(w) => worker'[w].box = worker[w].box /\ worker'[w].job = worker[w].job
      /\ worker'[w].at # "run"
      /\ worker'[w].box # 0 => worker'[w].box = worker[w].box /\ worker'[w].job = worker[w].job
  BY <1>1, <1>2 DEF Owns, Resting
<1> QED
  BY <1>1, <1>2, <1>4, <1>5, <1>6, WorkerStepKeeps

LEMMA ReleaseMoves ==
  ASSUME SessionInv, NEW w \in Workers, Release(w)
  PROVE  /\ slot # Nil /\ slot.job = worker[w].job /\ slot.box = worker[w].box
         /\ slot' = Nil
         /\ worker' \in [Workers -> Memories] /\ Alone(w)
         /\ worker'[w].at = "seal" /\ worker'[w].todo = slot.parked
         /\ worker'[w].job = worker[w].job /\ worker'[w].box = worker[w].box
         /\ worker'[w].end = worker[w].end /\ worker'[w].commit = worker[w].commit
<1> DEFINE a == [worker[w] EXCEPT !.at = "seal"]
           r == [a EXCEPT !.todo = slot.parked]
<1>1. SessionTypeOK /\ worker[w].at = "release" /\ worker[w].box # 0 /\ worker[w] \in Memories
  BY MemoriesTyped DEF SessionInv, Release, Has, Placed
<1>2. slot # Nil /\ slot.job = worker[w].job /\ slot.box = worker[w].box
  BY <1>1 DEF SessionInv, SlotIsOwned, Owns
<1>3. slot.parked \in Seq(Turns)
  BY <1>1, <1>2, SlotTyped
<1>4. worker' = [worker EXCEPT ![w] = r] /\ slot' = Nil
  BY <1>1, <1>2 DEF Release, SessionTypeOK
<1>5. /\ a \in Memories /\ a.at = "seal" /\ a.job = worker[w].job /\ a.box = worker[w].box
      /\ a.end = worker[w].end /\ a.commit = worker[w].commit
  BY <1>1 DEF Memories, Places
<1> HIDE DEF a
<1>6. /\ r \in Memories /\ r.at = "seal" /\ r.job = worker[w].job /\ r.box = worker[w].box
      /\ r.end = worker[w].end /\ r.commit = worker[w].commit /\ r.todo = slot.parked
  BY <1>3, <1>5 DEF Memories
<1> HIDE DEF r
<1>7. worker' \in [Workers -> Memories] /\ worker'[w] = r /\ Alone(w)
  BY <1>1, <1>4, <1>6, WorkerMoves
<1> QED
  BY <1>2, <1>4, <1>6, <1>7

LEMMA ReleaseKeeps ==
  ASSUME SessionInv, NEW w \in Workers, Release(w)
  PROVE  SessionInv'
<1>1. /\ SessionTypeOK /\ worker[w].at = "release" /\ worker[w].box # 0 /\ Placed(w)
      /\ UNCHANGED <<jobs, boxes, settled, retries, expiries, cancels>>
  BY DEF SessionInv, Release, Has, Placed
<1>2. /\ slot # Nil /\ slot' = Nil
      /\ worker' \in [Workers -> Memories] /\ Alone(w) /\ worker'[w].at = "seal"
      /\ worker'[w].job = worker[w].job /\ worker'[w].box = worker[w].box
  BY ReleaseMoves
<1>3. JobsKept
  BY <1>1, JobsSame
<1>4. SessionTypeOK'
  BY <1>1, <1>2 DEF SessionTypeOK
<1>5. \A v \in Workers : Placed(v)'
  <2>1. Placed(w)'
    BY <1>1, <1>2 DEF Placed
  <2> QED
    BY <1>1, <1>2, <1>3, <2>1, PlacedStill DEF SessionInv, Alone
<1>6. SlotIsOwned'
  <2>1. Owns(w) /\ ~ Owns(w)'
    BY <1>1, <1>2 DEF Owns
  <2>2. \A v \in Workers : ~ Owns(v)'
    BY <1>2, <2>1 DEF SessionInv, SlotIsOwned, Owns, Alone
  <2> QED
    BY <1>2, <2>2 DEF SlotIsOwned
<1>7. InboxesAreOnesOwn'
  <2>1. \A v \in Workers : worker'[v].box # 0 => /\ worker'[v].box = worker[v].box
                                                 /\ worker'[v].job = worker[v].job
    BY <1>2 DEF Alone
  <2> QED
    BY <1>1, <1>2, <1>3, <2>1, InboxesKept, BoxesTyped DEF SessionInv
<1>8. JobsRunOnce'
  BY <1>1, <1>2, QuietStepKeepsOnce DEF Before, After
<1>9. OutsiderHasReason'
  <2>1. \A v \in Workers :
          worker'[v].at = "run" /\ worker'[v].box = 0
            => /\ worker[v].at = "run" /\ worker[v].box = 0
               /\ worker'[v].job = worker[v].job /\ worker'[v].tries = worker[v].tries
    BY <1>2 DEF Alone
  <2> QED
    BY <1>1, <1>3, <2>1, OutsidersKept DEF SessionInv
<1> QED
  BY <1>4, <1>5, <1>6, <1>7, <1>8, <1>9 DEF SessionInv

(* The turn that is started over, if there is one.                           *)
LEMMA FollowUpTyped ==
  ASSUME SessionInv, NEW w \in Workers, worker[w].job \in DOMAIN jobs, NEW left \in Seq(Turns)
  PROVE  /\ FollowUp(w, left) \in Seq(Turns)
         /\ left = <<>> => FollowUp(w, left) = <<>>
         /\ left # <<>> =>
              /\ FollowUp(w, left) = <<FollowUp(w, left)[1]>>
              /\ FollowUp(w, left)[1] \in Turns
              /\ Asks(FollowUp(w, left)[1])
                   = AskedIn(left) \cup (IF worker[w].end = "over" THEN Covered(worker[w].job) ELSE {})
<1>1. CASE left = <<>>
  BY <1>1 DEF FollowUp
<1>2. CASE left # <<>>
  <2> DEFINE n == Len(left)
             older == {left[i] : i \in 1 .. Len(left) - 1}
             extra == IF worker[w].end = "over" THEN Covered(worker[w].job) ELSE {}
             t == Turn(left[n].msg, left[n].behind \cup Messages(older) \cup extra)
  <2>1. /\ n \in Nat /\ n > 0 /\ n \in 1 .. n /\ DOMAIN left = 1 .. n
        /\ \A i \in 1 .. n : left[i] \in Turns
        /\ 1 .. n = 1 .. n - 1 \cup {n}
    <3>1. /\ n \in Nat /\ n > 0 /\ DOMAIN left = 1 .. n
          /\ \A i \in 1 .. n : left[i] \in Turns
      BY <1>2
    <3> QED
      BY <3>1
  <2>2. \A i \in 1 .. n : left[i].msg \in Msgs /\ left[i].behind \in SUBSET Msgs
    BY <2>1 DEF Turns
  <2>3. extra \subseteq Msgs
    BY JobsTyped DEF Covered, SessionInv, SessionTypeOK
  <2>4. Messages(older) = UNION {Asks(left[i]) : i \in 1 .. n - 1}
    BY DEF Messages, Asks
  <2>5. Messages(older) \subseteq Msgs
    BY <2>1, <2>2, <2>4 DEF Asks
  <2>6. FollowUp(w, left) = <<t>>
    BY <1>2 DEF FollowUp, Last
  <2>7. t \in Turns
    BY <2>1, <2>2, <2>3, <2>5, TurnsTyped
  <2>8. Asks(t) = AskedIn(left) \cup extra
    <3>1. Asks(t) = Asks(left[n]) \cup Messages(older) \cup extra
      BY DEF Asks, Turn
    <3>2. AskedIn(left) = (UNION {Asks(left[i]) : i \in 1 .. n - 1}) \cup Asks(left[n])
      <4>1. AskedIn(left) = UNION {Asks(left[i]) : i \in 1 .. n - 1 \cup {n}}
        BY <2>1 DEF AskedIn
      <4> HIDE DEF n
      <4> QED
        BY <4>1
    <3> HIDE DEF extra, older, n
    <3> QED
      BY <2>4, <3>1, <3>2
  <2> HIDE DEF t
  <2>9. <<t>> \in Seq(Turns) /\ <<t>>[1] = t
    BY <2>7
  <2> QED
    BY <1>2, <2>6, <2>7, <2>8, <2>9
<1> QED
  BY <1>1, <1>2

(* What is left of an inbox, and what becomes of it.                         *)
LEMMA SealMoves ==
  ASSUME SessionInv, NEW w \in Workers, Seal(w)
  PROVE  LET b == worker[w].box
             left == Left(boxes[b], worker[w].commit)
         IN  /\ b \in DOMAIN boxes /\ left \in Seq(Turns) /\ worker[w].job \in DOMAIN jobs
             /\ worker[w].todo \in Seq(Turns) /\ FollowUp(w, left) \in Seq(Turns)
             /\ boxes' \in Seq(BoxRecords) /\ DOMAIN boxes' = DOMAIN boxes
             /\ boxes'[b].injected = <<>> /\ boxes'[b].consumed = <<>>
             /\ \A k \in DOMAIN boxes : k # b => boxes'[k] = boxes[k]
             /\ worker' \in [Workers -> Memories] /\ Alone(w)
             /\ worker'[w].at = "respawn" /\ worker'[w].job = worker[w].job
             /\ worker'[w].box = b /\ worker'[w].end = worker[w].end
             /\ worker'[w].commit = worker[w].commit
             /\ worker'[w].todo = FollowUp(w, left) \o worker[w].todo
<1> DEFINE b == worker[w].box
           left == Left(boxes[b], worker[w].commit)
           a == [worker[w] EXCEPT !.at = "respawn"]
           r == [a EXCEPT !.todo = FollowUp(w, left) \o @]
           e == Closed(boxes[b])
<1>1. /\ SessionTypeOK /\ worker[w].at = "seal" /\ b # 0 /\ b \in DOMAIN boxes
      /\ worker[w].job \in DOMAIN jobs /\ worker[w] \in Memories /\ worker[w].todo \in Seq(Turns)
  BY MemoriesTyped DEF SessionInv, Seal, Has, Placed
<1>2. /\ boxes[b] \in BoxRecords /\ boxes[b].injected \in Seq(Turns)
      /\ boxes[b].consumed \in Seq(Turns)
  BY <1>1, BoxesTyped
<1>3. left \in Seq(Turns)
  BY <1>2, AskedInConcat DEF Left
<1>4. FollowUp(w, left) \in Seq(Turns)
  BY <1>1, <1>3, FollowUpTyped
<1>5. FollowUp(w, left) \o worker[w].todo \in Seq(Turns)
  BY <1>1, <1>4, AskedInConcat
<1>6. e \in BoxRecords /\ e.injected = <<>> /\ e.consumed = <<>>
  <2>1. <<>> \in Seq(Turns)
    OBVIOUS
  <2>2. e = [[[boxes[b] EXCEPT !.injected = <<>>] EXCEPT !.consumed = <<>>] EXCEPT !.sealed = TRUE]
    BY <1>2 DEF Closed, BoxRecords
  <2>3. e = [injected |-> <<>>, consumed |-> <<>>, sealed |-> TRUE]
    BY <1>2, <2>2 DEF BoxRecords
  <2> QED
    BY <2>1, <2>3 DEF BoxRecords
<1>7. boxes' = [boxes EXCEPT ![b] = e]
  BY DEF Seal
<1> HIDE DEF e
<1>8. /\ boxes' \in Seq(BoxRecords) /\ DOMAIN boxes' = DOMAIN boxes /\ boxes'[b] = e
      /\ \A k \in DOMAIN boxes : k # b => boxes'[k] = boxes[k]
  BY <1>1, <1>6, <1>7, BoxUpdated
<1>9. worker' = [worker EXCEPT ![w] = r]
  <2>1. worker' = [worker EXCEPT ![w].at = "respawn", ![w].todo = FollowUp(w, left) \o @]
    BY DEF Seal, Box
  <2> HIDE DEF left
  <2> QED
    BY <1>1, <2>1 DEF SessionTypeOK
<1> HIDE DEF left
<1>10. /\ a \in Memories /\ a.at = "respawn" /\ a.job = worker[w].job /\ a.box = b
       /\ a.end = worker[w].end /\ a.commit = worker[w].commit /\ a.todo = worker[w].todo
  BY <1>1 DEF Memories, Places
<1> HIDE DEF a
<1>11. /\ r \in Memories /\ r.at = "respawn" /\ r.job = worker[w].job /\ r.box = b
       /\ r.end = worker[w].end /\ r.commit = worker[w].commit
       /\ r.todo = FollowUp(w, left) \o worker[w].todo
  BY <1>5, <1>10 DEF Memories
<1> HIDE DEF r
<1>12. worker' \in [Workers -> Memories] /\ worker'[w] = r /\ Alone(w)
  BY <1>1, <1>9, <1>11, WorkerMoves
<1> QED
  BY <1>1, <1>3, <1>4, <1>6, <1>8, <1>11, <1>12 DEF left

LEMMA SealKeeps ==
  ASSUME SessionInv, NEW w \in Workers, Seal(w)
  PROVE  SessionInv'
<1> DEFINE b == worker[w].box
<1>1. /\ SessionTypeOK /\ worker[w].at = "seal" /\ b # 0 /\ Placed(w)
      /\ UNCHANGED <<jobs, slot, settled, retries, expiries, cancels>>
  BY DEF SessionInv, Seal, Has, Placed
<1>2. /\ b \in DOMAIN boxes
      /\ boxes' \in Seq(BoxRecords) /\ DOMAIN boxes' = DOMAIN boxes
      /\ boxes'[b].injected = <<>> /\ boxes'[b].consumed = <<>>
      /\ \A k \in DOMAIN boxes : k # b => boxes'[k] = boxes[k]
      /\ worker' \in [Workers -> Memories] /\ Alone(w)
      /\ worker'[w].at = "respawn" /\ worker'[w].job = worker[w].job /\ worker'[w].box = b
  BY SealMoves
<1>3. JobsKept
  BY <1>1, JobsSame
<1>4. SessionTypeOK' /\ Placed(w)'
  BY <1>1, <1>2 DEF SessionTypeOK, Placed
<1>5. JobsRunOnce'
  BY <1>1, <1>2, QuietStepKeepsOnce DEF Before, After
<1>6. ~ Owns(w) /\ ~ Owns(w)'
  BY <1>1, <1>2 DEF Owns
<1>7. \A k \in DOMAIN boxes :
        ToSet(boxes'[k].injected) \cup ToSet(boxes'[k].consumed)
          \subseteq ToSet(boxes[k].injected) \cup ToSet(boxes[k].consumed)
  <2>1. ToSet(<<>>) = {}
    BY DEF ToSet
  <2> QED
    BY <1>2, <2>1
<1> QED
  BY <1>1, <1>2, <1>3, <1>4, <1>5, <1>6, <1>7, WorkerStepKeeps

LEMMA RespawnMoves ==
  ASSUME SessionInv, NEW w \in Workers, Respawn(w)
  PROVE  /\ worker' \in [Workers -> Memories] /\ Alone(w)
         /\ worker[w].todo \in Seq(Turns)
         /\ worker[w].todo = <<>> => worker'[w] = Resting /\ jobs' = jobs
         /\ worker[w].todo # <<>> =>
              /\ jobs' = Append(jobs, NewJob(Head(worker[w].todo)))
              /\ worker'[w].at = "respawn" /\ worker'[w].job = worker[w].job
              /\ worker'[w].box = worker[w].box /\ worker'[w].end = worker[w].end
              /\ worker'[w].commit = worker[w].commit
              /\ worker'[w].todo = Tail(worker[w].todo)
<1>1. /\ SessionTypeOK /\ worker[w] \in Memories /\ worker[w].todo \in Seq(Turns)
      /\ worker[w].at = "respawn"
  BY MemoriesTyped DEF SessionInv, Respawn, Has
<1>2. CASE worker[w].todo = <<>>
  BY <1>1, <1>2, WorkerRests DEF Respawn
<1>3. CASE worker[w].todo # <<>>
  <2> DEFINE r == [worker[w] EXCEPT !.todo = Tail(@)]
  <2>1. Tail(worker[w].todo) \in Seq(Turns)
    BY <1>1, <1>3, AskedInTail
  <2>2. /\ r \in Memories /\ r.at = "respawn" /\ r.job = worker[w].job /\ r.box = worker[w].box
        /\ r.end = worker[w].end /\ r.commit = worker[w].commit
        /\ r.todo = Tail(worker[w].todo)
    BY <1>1, <2>1 DEF Memories
  <2>3. worker' = [worker EXCEPT ![w] = r]
    BY <1>3 DEF Respawn
  <2> HIDE DEF r
  <2>4. worker' \in [Workers -> Memories] /\ worker'[w] = r /\ Alone(w)
    BY <1>1, <2>2, <2>3, WorkerMoves
  <2> QED
    BY <1>1, <1>3, <2>2, <2>4 DEF Respawn
<1> QED
  BY <1>2, <1>3

LEMMA RespawnKeeps ==
  ASSUME SessionInv, NEW w \in Workers, Respawn(w)
  PROVE  SessionInv'
<1>1. /\ SessionTypeOK /\ worker[w].at = "respawn" /\ Placed(w) /\ worker[w].box # 0
      /\ UNCHANGED <<slot, boxes, settled, retries, expiries, cancels>>
  BY DEF SessionInv, Respawn, Has, Placed
<1>2. /\ worker' \in [Workers -> Memories] /\ Alone(w)
      /\ \/ worker'[w] = Resting
         \/ /\ worker'[w].at = "respawn" /\ worker'[w].job = worker[w].job
            /\ worker'[w].box = worker[w].box
  BY RespawnMoves
<1>3. JobsKept /\ \A j \in DOMAIN jobs : jobs'[j] = jobs[j]
  <2>1. CASE worker[w].todo = <<>>
    BY <1>1, <2>1, RespawnMoves, JobsSame
  <2>2. CASE worker[w].todo # <<>>
    <3>1. Head(worker[w].todo) \in Turns
      BY <2>2, RespawnMoves, AskedInTail
    <3> QED
      BY <1>1, <2>2, <3>1, RespawnMoves, JobsAppended
  <2> QED
    BY <2>1, <2>2
<1>4. SessionTypeOK' /\ Placed(w)'
  BY <1>1, <1>2, <1>3 DEF SessionTypeOK, Placed, JobsKept, Resting
<1>5. JobsRunOnce'
  <2>1. \A v \in Workers :
          /\ Before(v)' => Before(v) /\ worker'[v].job = worker[v].job
          /\ After(v)' => After(v) /\ worker'[v].job = worker[v].job
    BY <1>1, <1>2 DEF Alone, Before, After, Resting
  <2> QED
    BY <1>1, <1>3, <2>1, OnceKept DEF SessionInv
<1>6. /\ ~ Owns(w) /\ ~ Owns(w)' /\ worker'[w].at # "run"
      /\ worker'[w].box # 0 => worker'[w].box = worker[w].box /\ worker'[w].job = worker[w].job
  BY <1>1, <1>2 DEF Owns, Resting
<1> QED
  BY <1>1, <1>2, <1>3, <1>4, <1>5, <1>6, WorkerStepKeeps

LEMMA DequeueMoves ==
  ASSUME SessionAssumption, SessionTypeOK, NEW w \in Workers, NEW j \in DOMAIN jobs,
         worker' = [worker EXCEPT ![w] = [Resting EXCEPT !.at = "claim", !.job = j, !.tries = Tries]]
  PROVE  /\ worker' \in [Workers -> Memories] /\ Alone(w)
         /\ worker'[w].at = "claim" /\ worker'[w].job = j /\ worker'[w].box = 0
         /\ worker'[w].todo = <<>> /\ worker'[w].end = Nil
<1> DEFINE a == [Resting EXCEPT !.at = "claim"]
           c == [a EXCEPT !.job = j]
           r == [c EXCEPT !.tries = Tries]
<1>1. Resting \in Memories /\ Resting.box = 0 /\ Resting.todo = <<>> /\ Resting.end = Nil
  <2>1. <<>> \in Seq(Turns)
    OBVIOUS
  <2> QED
    BY <2>1 DEF Resting, Memories, Places
<1>2. j \in Nat /\ Tries \in Nat
  BY DEF SessionTypeOK, SessionAssumption
<1>3. worker' = [worker EXCEPT ![w] = r]
  BY <1>1 DEF Memories
<1>4. a \in Memories /\ a.at = "claim" /\ a.box = 0 /\ a.todo = <<>> /\ a.end = Nil
  BY <1>1 DEF Memories, Places
<1> HIDE DEF a
<1>5. c \in Memories /\ c.at = "claim" /\ c.job = j /\ c.box = 0 /\ c.todo = <<>> /\ c.end = Nil
  BY <1>2, <1>4 DEF Memories
<1> HIDE DEF c
<1>6. r \in Memories /\ r.at = "claim" /\ r.job = j /\ r.box = 0 /\ r.todo = <<>> /\ r.end = Nil
  BY <1>2, <1>5 DEF Memories
<1> HIDE DEF r
<1>7. worker' \in [Workers -> Memories] /\ worker'[w] = r /\ Alone(w)
  BY <1>3, <1>6, WorkerMoves
<1> QED
  BY <1>6, <1>7

LEMMA DequeueKeeps ==
  ASSUME SessionAssumption, SessionInv, NEW w \in Workers, Dequeue(w)
  PROVE  SessionInv'
<1>1. /\ SessionTypeOK /\ worker[w].at = "idle" /\ Placed(w)
      /\ UNCHANGED <<slot, boxes, settled, retries, expiries, cancels>>
  BY DEF SessionInv, Dequeue, Has
<1>2. PICK j \in DOMAIN jobs :
        /\ jobs[j].status = "pending"
        /\ jobs' = [jobs EXCEPT ![j].status = "processing"]
        /\ worker' = [worker EXCEPT ![w] = [Resting EXCEPT !.at = "claim", !.job = j, !.tries = Tries]]
  BY DEF Dequeue, Pending, Ids
<1>3. /\ JobsKept /\ DOMAIN jobs' = DOMAIN jobs
      /\ jobs'[j].status = "processing" /\ jobs'[j].attempt = jobs[j].attempt
      /\ \A k \in DOMAIN jobs : k # j => jobs'[k] = jobs[k]
  BY <1>1, <1>2, JobsRestated DEF Statuses
<1>4. /\ worker' \in [Workers -> Memories] /\ Alone(w)
      /\ worker'[w].at = "claim" /\ worker'[w].job = j /\ worker'[w].box = 0
  BY <1>1, <1>2, DequeueMoves
<1>5. SessionTypeOK' /\ Placed(w)'
  BY <1>1, <1>3, <1>4 DEF SessionTypeOK, Placed, JobsKept
<1>6. JobsRunOnce'
  <2> SUFFICES ASSUME expiries = 0 PROVE JobsRunOnce'
    BY <1>1 DEF JobsRunOnce
  <2>1. /\ ~ Before(w) /\ Before(w)' /\ ~ After(w)'
    BY <1>1, <1>4 DEF Before, After
  <2>2. \A v \in Workers : v # w => /\ Before(v)' => Before(v) /\ worker'[v].job = worker[v].job
                                    /\ After(v)' => After(v) /\ worker'[v].job = worker[v].job
    BY <1>4 DEF Before, After, Alone
  <2>3. \A v \in Workers : Before(v) => worker[v].job # j /\ worker[v].job \in DOMAIN jobs
    BY <1>2 DEF SessionInv, JobsRunOnce, Placed, Before
  <2>4. \A v, u \in Workers : Before(v)' /\ Before(u)' /\ v # u => worker'[v].job # worker'[u].job
    BY <1>4, <2>2, <2>3 DEF SessionInv, JobsRunOnce
  <2>5. \A v \in Workers : Before(v)' => jobs'[worker'[v].job].status \in {"processing", "cancelled"}
    BY <1>3, <1>4, <2>2, <2>3 DEF SessionInv, JobsRunOnce
  <2>6. \A v \in Workers : After(v) => worker[v].job \in DOMAIN jobs
    BY DEF After, SessionInv, Placed
  <2>7. \A v \in Workers : After(v)' /\ Retried(v) => Retried(v)'
    BY <1>3, <2>1, <2>2, <2>6 DEF Retried
  <2>8. \A v \in Workers : After(v) /\ worker[v].job = j => Retried(v)
    BY <1>2 DEF SessionInv, JobsRunOnce
  <2>9. \A v \in Workers :
          After(v)' => \/ jobs'[worker'[v].job].status \notin {"pending", "processing"}
                       \/ Retried(v)'
    BY <1>3, <2>1, <2>2, <2>6, <2>7, <2>8 DEF SessionInv, JobsRunOnce
  <2>10. \A v, u \in Workers :
          Before(v)' /\ After(u)' /\ worker'[v].job = worker'[u].job => Retried(u)'
    BY <1>4, <2>1, <2>2, <2>7, <2>8 DEF SessionInv, JobsRunOnce
  <2> QED
    BY <2>4, <2>5, <2>9, <2>10 DEF JobsRunOnce
<1>7. ~ Owns(w) /\ ~ Owns(w)'
  BY <1>1, <1>4 DEF Owns
<1> QED
  BY <1>1, <1>3, <1>4, <1>5, <1>6, <1>7, WorkerStepKeeps

(* A session is opened: the slot is taken, with an inbox nobody has seen.    *)
LEMMA OpenMoves ==
  ASSUME SessionAssumption, SessionInv, NEW w \in Workers, worker[w].at = "claim",
         boxes' = Append(boxes, NewBox),
         slot' = [job |-> worker[w].job, user |-> UserOf[JobOf(w).msg],
                  box |-> Len(boxes) + 1, parked |-> <<>>],
         worker' = [worker EXCEPT ![w].at = "run", ![w].box = Len(boxes) + 1]
  PROVE  /\ slot' # Nil /\ slot' \in Slots
         /\ slot'.job = worker[w].job /\ slot'.user = UserOf[jobs[worker[w].job].msg]
         /\ slot'.box = Len(boxes) + 1 /\ slot'.parked = <<>>
         /\ boxes' \in Seq(BoxRecords) /\ DOMAIN boxes' = DOMAIN boxes \cup {Len(boxes) + 1}
         /\ Len(boxes) + 1 \notin DOMAIN boxes /\ Len(boxes) + 1 # 0
         /\ boxes'[Len(boxes) + 1] = NewBox
         /\ \A k \in DOMAIN boxes : boxes'[k] = boxes[k]
         /\ worker' \in [Workers -> Memories] /\ Alone(w)
         /\ worker'[w].at = "run" /\ worker'[w].job = worker[w].job
         /\ worker'[w].box = Len(boxes) + 1 /\ worker'[w].end = worker[w].end
         /\ worker'[w].todo = worker[w].todo /\ worker'[w].commit = worker[w].commit
<1> DEFINE n == Len(boxes) + 1
           a == [worker[w] EXCEPT !.at = "run"]
           r == [a EXCEPT !.box = n]
<1>1. /\ SessionTypeOK /\ worker[w] \in Memories /\ worker[w].job \in DOMAIN jobs
      /\ worker[w].job \in Nat /\ n \in Nat /\ n # 0
  BY MemoriesTyped, BoxesTyped DEF SessionInv, Placed
<1>2. NewBox \in BoxRecords /\ <<>> \in Seq(Turns)
  BY DEF NewBox, BoxRecords
<1>3. /\ boxes' \in Seq(BoxRecords)
      /\ DOMAIN boxes = 1 .. Len(boxes) /\ DOMAIN boxes' = 1 .. n
      /\ \A i \in 1 .. Len(boxes) : boxes'[i] = boxes[i]
      /\ boxes'[n] = NewBox
  BY <1>1, <1>2, AppendFacts DEF SessionTypeOK
<1>4. 1 .. n = 1 .. Len(boxes) \cup {n} /\ n \notin 1 .. Len(boxes)
  BY <1>1, BoxesTyped
<1>5. JobOf(w).msg \in Msgs
  BY <1>1, JobsTyped DEF JobOf, SessionTypeOK
<1>6. slot' \in Slots
  BY <1>1, <1>2, <1>5 DEF Slots
<1>7. slot' # Nil
  BY <1>6, NilIsNoSession
<1>8. a \in Memories /\ a.at = "run" /\ a.job = worker[w].job /\ a.end = worker[w].end
      /\ a.todo = worker[w].todo /\ a.commit = worker[w].commit
  BY <1>1 DEF Memories, Places
<1>9. worker' = [worker EXCEPT ![w] = r]
  BY <1>1 DEF SessionTypeOK
<1> HIDE DEF a
<1>10. r \in Memories /\ r.at = "run" /\ r.job = worker[w].job /\ r.end = worker[w].end
       /\ r.todo = worker[w].todo /\ r.box = n /\ r.commit = worker[w].commit
  BY <1>1, <1>8 DEF Memories
<1> HIDE DEF r
<1>11. worker' \in [Workers -> Memories] /\ worker'[w] = r /\ Alone(w)
  BY <1>1, <1>9, <1>10, WorkerMoves
<1> QED
  BY <1>1, <1>3, <1>4, <1>6, <1>7, <1>10, <1>11 DEF JobOf

(* The other claims: the key has a session, or the worker has none left to   *)
(* try.                                                                      *)
LEMMA JoinMoves ==
  ASSUME SessionInv, NEW w \in Workers, Claim(w), worker[w].tries = 0 \/ slot # Nil
  PROVE  /\ UNCHANGED <<slot, boxes>> /\ worker[w].box = 0
         /\ worker' \in [Workers -> Memories] /\ Alone(w)
         /\ worker'[w].job = worker[w].job /\ worker'[w].tries = worker[w].tries
         /\ worker'[w].box = 0 /\ worker'[w].end = worker[w].end
         /\ worker'[w].todo = worker[w].todo
         /\ \/ worker'[w].at = "run" /\ worker[w].tries = 0
            \/ /\ worker'[w].at = "run" /\ worker[w].tries > 0
               /\ slot # Nil /\ slot.job = worker[w].job
            \/ /\ worker'[w].at \in {"inject", "park"} /\ worker[w].tries > 0
               /\ slot # Nil /\ slot.job # worker[w].job
               /\ worker'[w].seen = slot.job
               /\ worker'[w].at = "inject" => slot.user = UserOf[jobs[worker[w].job].msg]
<1>1. /\ SessionTypeOK /\ worker[w].at = "claim" /\ worker[w].box = 0
      /\ worker[w] \in Memories /\ worker[w].tries \in Nat
  BY MemoriesTyped DEF SessionInv, Claim, Has, Placed
<1>2. CASE worker[w].tries = 0
  <2>1. Goes(w, "run") /\ UNCHANGED <<slot, boxes>>
    BY <1>2 DEF Claim
  <2> QED
    BY <1>1, <1>2, <2>1, WorkerGoes DEF Places
<1>3. CASE worker[w].tries > 0
  <2> DEFINE place == IF slot.job = worker[w].job THEN "run"
                      ELSE IF slot.user = UserOf[JobOf(w).msg] THEN "inject" ELSE "park"
             seen == IF slot.job = worker[w].job THEN 0 ELSE slot.job
             a == [worker[w] EXCEPT !.at = place]
             r == [a EXCEPT !.seen = seen]
  <2>1. /\ worker[w].tries # 0 /\ slot # Nil
        /\ UNCHANGED <<slot, boxes>>
        /\ worker' = [worker EXCEPT ![w].at = place, ![w].seen = seen]
    BY <1>1, <1>3 DEF Claim
  <2>2. seen \in Nat /\ place \in Places
    BY <1>1, <2>1, SlotTyped DEF Places
  <2>3. worker' = [worker EXCEPT ![w] = r]
    <3> HIDE DEF place, seen
    <3> QED
      BY <1>1, <2>1 DEF SessionTypeOK
  <2>4. /\ place = "run" => slot.job = worker[w].job
        /\ place # "run" => slot.job # worker[w].job /\ seen = slot.job
        /\ place \in {"run", "inject", "park"}
        /\ place = "inject" => slot.user = UserOf[jobs[worker[w].job].msg]
    BY DEF JobOf
  <2> HIDE DEF place, seen
  <2>5. /\ a \in Memories /\ a.at = place /\ a.job = worker[w].job /\ a.tries = worker[w].tries
        /\ a.box = 0 /\ a.end = worker[w].end /\ a.todo = worker[w].todo
    BY <1>1, <2>2 DEF Memories
  <2> HIDE DEF a
  <2>6. /\ r \in Memories /\ r.at = place /\ r.job = worker[w].job /\ r.tries = worker[w].tries
        /\ r.box = 0 /\ r.end = worker[w].end /\ r.todo = worker[w].todo /\ r.seen = seen
    BY <2>2, <2>5 DEF Memories
  <2> HIDE DEF r
  <2>7. worker' \in [Workers -> Memories] /\ worker'[w] = r /\ Alone(w)
    BY <1>1, <2>3, <2>6, WorkerMoves
  <2> QED
    BY <1>1, <1>3, <2>1, <2>4, <2>6, <2>7
<1> QED
  BY <1>1, <1>2, <1>3

LEMMA JoinKeeps ==
  ASSUME SessionInv, NEW w \in Workers, Claim(w), worker[w].tries = 0 \/ slot # Nil
  PROVE  SessionInv'
<1>1. /\ SessionTypeOK /\ worker[w].at = "claim" /\ worker[w].job \in DOMAIN jobs
      /\ UNCHANGED <<jobs, settled, retries, expiries, cancels>>
  BY DEF SessionInv, Claim, Has, Placed
<1>2. /\ UNCHANGED <<slot, boxes>> /\ worker[w].box = 0
      /\ worker' \in [Workers -> Memories] /\ Alone(w)
      /\ worker'[w].job = worker[w].job /\ worker'[w].tries = worker[w].tries
      /\ worker'[w].box = 0
      /\ \/ worker'[w].at = "run" /\ worker[w].tries = 0
         \/ /\ worker'[w].at = "run" /\ worker[w].tries > 0
            /\ slot # Nil /\ slot.job = worker[w].job
         \/ /\ worker'[w].at \in {"inject", "park"} /\ worker[w].tries > 0
            /\ slot # Nil /\ slot.job # worker[w].job
            /\ worker'[w].seen = slot.job
            /\ worker'[w].at = "inject" => slot.user = UserOf[jobs[worker[w].job].msg]
  BY JoinMoves
<1>3. JobsKept
  BY <1>1, JobsSame
<1>4. SessionTypeOK'
  BY <1>1, <1>2 DEF SessionTypeOK
<1>5. \A v \in Workers : Placed(v)'
  <2>1. slot # Nil => slot.job \in DOMAIN jobs /\ slot.user = UserOf[jobs[slot.job].msg]
    BY DEF SessionInv, SlotIsOwned
  <2>2. Placed(w)'
    BY <1>1, <1>2, <2>1 DEF Placed
  <2> QED
    BY <1>2, <1>3, <2>2, PlacedStill DEF SessionInv, Alone
<1>6. SlotIsOwned'
  <2>1. ~ Owns(w) /\ ~ Owns(w)'
    BY <1>1, <1>2 DEF Owns
  <2>2. \A v \in Workers : /\ Owns(v)' <=> Owns(v)
                           /\ Owns(v) => /\ worker'[v].job = worker[v].job
                                         /\ worker'[v].box = worker[v].box
    BY <1>2, <2>1 DEF Owns, Alone
  <2> QED
    BY <1>2, <1>3, <2>2, SlotKept DEF SessionInv
<1>7. InboxesAreOnesOwn'
  <2>1. \A v \in Workers : worker'[v].box # 0 => /\ worker'[v].box = worker[v].box
                                                 /\ worker'[v].job = worker[v].job
    BY <1>2 DEF Alone
  <2> QED
    BY <1>1, <1>2, <1>3, <2>1, InboxesKept, BoxesTyped DEF SessionInv
<1>8. JobsRunOnce'
  BY <1>1, <1>2, QuietStepKeepsOnce DEF Before, After
<1>9. OutsiderHasReason'
  <2>1. worker'[w].at = "run" => Outside(w)
    <3> SUFFICES ASSUME worker'[w].at = "run", worker[w].tries > 0, expiries = 0
                 PROVE  Retried(w)
      BY <1>1, <1>2, MemoriesTyped DEF Outside, SessionTypeOK
    <3>1. slot # Nil /\ slot.job = worker[w].job
      BY <1>2
    <3>2. PICK v \in Workers : Owns(v) /\ worker[v].job = worker[w].job
      BY <3>1 DEF SessionInv, SlotIsOwned
    <3>3. v # w /\ Before(w) /\ (Before(v) \/ After(v))
      BY <1>1, <3>2 DEF Owns, Before, After
    <3>4. ~ Before(v)
      BY <3>2, <3>3 DEF SessionInv, JobsRunOnce
    <3>5. Retried(v)
      BY <3>2, <3>3, <3>4 DEF SessionInv, JobsRunOnce
    <3> QED
      BY <3>2, <3>5 DEF Retried
  <2>2. \A v \in Workers : worker'[v].at = "run" /\ worker'[v].box = 0 => Outside(v)
    BY <1>2, <2>1 DEF Alone, SessionInv, OutsiderHasReason
  <2>3. \A v \in Workers : worker'[v].at = "run" /\ worker'[v].box = 0 /\ Outside(v) => Outside(v)'
    BY <1>1, <1>2 DEF Alone, Outside, Retried
  <2> QED
    BY <2>2, <2>3 DEF OutsiderHasReason
<1> QED
  BY <1>4, <1>5, <1>6, <1>7, <1>8, <1>9 DEF SessionInv

LEMMA OpenKeeps ==
  ASSUME SessionAssumption, SessionInv, NEW w \in Workers, Claim(w),
         worker[w].tries > 0, slot = Nil
  PROVE  SessionInv'
<1> DEFINE n == Len(boxes) + 1
<1>1. /\ SessionTypeOK /\ worker[w].at = "claim" /\ worker[w].job \in DOMAIN jobs
      /\ worker[w].tries # 0
      /\ UNCHANGED <<jobs, settled, retries, expiries, cancels>>
  BY DEF SessionInv, Claim, Has, Placed
<1>2. /\ slot' # Nil /\ slot' \in Slots
      /\ slot'.job = worker[w].job /\ slot'.user = UserOf[jobs[worker[w].job].msg]
      /\ slot'.box = n
      /\ boxes' \in Seq(BoxRecords) /\ DOMAIN boxes' = DOMAIN boxes \cup {n}
      /\ n \notin DOMAIN boxes /\ n # 0
      /\ boxes'[n] = NewBox
      /\ \A k \in DOMAIN boxes : boxes'[k] = boxes[k]
      /\ worker' \in [Workers -> Memories] /\ Alone(w)
      /\ worker'[w].at = "run" /\ worker'[w].job = worker[w].job
      /\ worker'[w].box = n
  <2>1. /\ boxes' = Append(boxes, NewBox)
        /\ slot' = [job |-> worker[w].job, user |-> UserOf[JobOf(w).msg],
                    box |-> Len(boxes) + 1, parked |-> <<>>]
        /\ worker' = [worker EXCEPT ![w].at = "run", ![w].box = Len(boxes) + 1]
    BY <1>1 DEF Claim
  <2> QED
    BY <1>1, <2>1, OpenMoves
<1>3. JobsKept
  BY <1>1, JobsSame
<1>4. SessionTypeOK'
  BY <1>1, <1>2 DEF SessionTypeOK
<1>5. \A v \in Workers : Placed(v)'
  <2>1. Placed(w)'
    BY <1>1, <1>2 DEF Placed
  <2> QED
    BY <1>2, <1>3, <2>1, PlacedStill DEF SessionInv, Alone
<1>6. SlotIsOwned'
  <2>1. Owns(w)' /\ \A v \in Workers : v # w => ~ Owns(v)'
    BY <1>2 DEF Owns, Alone, SessionInv, SlotIsOwned
  <2> QED
    BY <1>1, <1>2, <2>1 DEF SlotIsOwned
<1>7. InboxesAreOnesOwn'
  <2>1. \A v \in Workers : v # w => worker'[v].box # n /\ worker'[v] = worker[v]
    BY <1>2 DEF Alone, SessionInv, Placed
  <2>2. ASSUME NEW b, b = n PROVE \E u : ForUser(b, u)'
    <3>1. ToSet(boxes'[b].injected) = {} /\ ToSet(boxes'[b].consumed) = {}
      BY <1>2, <2>2 DEF NewBox, ToSet
    <3>2. PICK u : u = UserOf[jobs[worker[w].job].msg]
      OBVIOUS
    <3> QED
      BY <1>1, <1>2, <2>1, <2>2, <3>1, <3>2 DEF ForUser
  <2>3. ASSUME NEW b \in DOMAIN boxes PROVE \E u : ForUser(b, u)'
    <3>1. PICK u : ForUser(b, u)
      BY DEF SessionInv, InboxesAreOnesOwn
    <3>2. \A v \in Workers : worker'[v].box = b => UserOf[jobs'[worker'[v].job].msg] = u
      BY <1>1, <1>2, <2>1, <3>1 DEF ForUser
    <3>3. \A t \in ToSet(boxes'[b].injected) \cup ToSet(boxes'[b].consumed) : UserOf[t.msg] = u
      BY <1>2, <3>1 DEF ForUser
    <3>4. slot'.box # b
      BY <1>2
    <3> QED
      BY <3>2, <3>3, <3>4 DEF ForUser
  <2> QED
    BY <1>2, <2>2, <2>3 DEF InboxesAreOnesOwn
<1>8. JobsRunOnce'
  BY <1>1, <1>2, QuietStepKeepsOnce DEF Before, After
<1>9. OutsiderHasReason'
  <2>1. \A v \in Workers :
          worker'[v].at = "run" /\ worker'[v].box = 0
            => /\ worker[v].at = "run" /\ worker[v].box = 0
               /\ worker'[v].job = worker[v].job /\ worker'[v].tries = worker[v].tries
    BY <1>2 DEF Alone
  <2> QED
    BY <1>1, <1>3, <2>1, OutsidersKept DEF SessionInv
<1> QED
  BY <1>4, <1>5, <1>6, <1>7, <1>8, <1>9 DEF SessionInv

-----------------------------------------------------------------------------
(* The invariant is inductive.                                               *)

LEMMA SessionInvInit ==
  ASSUME SessionAssumption, SessionInit
  PROVE  SessionInv
<1>1. Resting \in Memories /\ Resting.at = "idle" /\ Resting.box = 0
  <2>1. <<>> \in Seq(Turns)
    OBVIOUS
  <2> QED
    BY <2>1 DEF Resting, Memories, Places
<1>2. /\ jobs = <<>> /\ boxes = <<>> /\ slot = Nil /\ settled = {}
      /\ retries = 0 /\ expiries = 0 /\ cancels = 0
      /\ worker \in [Workers -> Memories]
      /\ \A w \in Workers : worker[w] = Resting
  BY <1>1 DEF SessionInit
<1>3. SessionTypeOK
  <2>1. <<>> \in Seq(JobRecords) /\ <<>> \in Seq(BoxRecords)
    OBVIOUS
  <2> QED
    BY <1>2, <2>1 DEF SessionTypeOK
<1>4. \A w \in Workers : Placed(w)
  BY <1>1, <1>2 DEF Placed
<1>5. SlotIsOwned
  BY <1>1, <1>2 DEF SlotIsOwned, Owns
<1>6. InboxesAreOnesOwn
  BY <1>2 DEF InboxesAreOnesOwn
<1>7. JobsRunOnce
  BY <1>1, <1>2 DEF JobsRunOnce, Before, After
<1>8. OutsiderHasReason
  BY <1>1, <1>2 DEF OutsiderHasReason
<1> QED
  BY <1>3, <1>4, <1>5, <1>6, <1>7, <1>8 DEF SessionInv

LEMMA SessionInvStep ==
  ASSUME SessionAssumption, SessionInv, [Next]_vars
  PROVE  SessionInv'
<1>1. CASE (\E m \in Msgs : Submit(m)) \/ (\E j \in Ids : Expire(j) \/ Cancel(j))
  BY <1>1, QueueStepsKeep
<1>2. ASSUME NEW w \in Workers, Step(w) PROVE SessionInv'
  <2>1. CASE Dequeue(w)
    BY <2>1, DequeueKeeps
  <2>2. CASE Claim(w)
    <3>1. worker[w].tries \in Nat
      BY MemoriesTyped DEF SessionInv
    <3> QED
      BY <2>2, <3>1, JoinKeeps, OpenKeeps
  <2>3. CASE FindInbox(w)
    BY <2>3, FindInboxKeeps
  <2>4. CASE Push(w)
    BY <2>4, PushKeeps
  <2>5. CASE Park(w)
    BY <2>5, ParkKeeps
  <2>6. CASE Absorbed(w)
    BY <2>6, AbsorbedKeeps
  <2>7. CASE Drain(w)
    BY <2>7, DrainKeeps
  <2>8. CASE Finalize(w)
    BY <2>8, FinalizeKeeps
  <2>9. CASE Release(w)
    BY <2>9, ReleaseKeeps
  <2>10. CASE Seal(w)
    BY <2>10, SealKeeps
  <2>11. CASE Respawn(w)
    BY <2>11, RespawnKeeps
  <2>12. CASE \E end \in Ends : Resolve(w, end)
    BY <2>12, ResolveKeeps
  <2> QED
    BY <1>2, <2>1, <2>2, <2>3, <2>4, <2>5, <2>6, <2>7, <2>8, <2>9, <2>10, <2>11, <2>12 DEF Step
<1>3. CASE UNCHANGED vars
  <2>1. JobsKept /\ UNCHANGED <<jobs, slot, boxes, worker, settled, retries, expiries, cancels>>
    BY <1>3, JobsSame DEF vars, SessionInv
  <2> QED
    BY <2>1, QueueStepKeeps DEF SessionInv, SessionTypeOK
<1> QED
  BY <1>1, <1>2, <1>3 DEF Next

(* Every reachable state satisfies it.                                       *)
THEOREM SessionInvHolds == SessionSpec => []SessionInv
<1>1. SessionInit => SessionInv
  BY SessionAssumption, SessionInvInit
<1>2. SessionInv /\ [Next]_vars => SessionInv'
  BY SessionAssumption, SessionInvStep
<1> QED
  BY <1>1, <1>2, PTL DEF SessionSpec

-----------------------------------------------------------------------------
(* A turn that drains its inbox finds its own user's messages only: whatever *)
(* the order in which workers look a session up, inject into it, release it  *)
(* and open the next, nobody's text gets into somebody else's loop.          *)
THEOREM OwnTextOnlyHolds == SessionSpec => []OwnTextOnly
<1>1. SessionInv => OwnTextOnly
  <2> SUFFICES ASSUME SessionInv, NEW w \in Workers, Has(w, "run"), HasBox(w),
                      NEW t \in ToSet(Box(w).injected \o Box(w).consumed)
               PROVE  UserOf[t.msg] = UserOf[JobOf(w).msg]
    BY DEF OwnTextOnly
  <2>1. worker[w].box \in DOMAIN boxes
    BY DEF SessionInv, Placed, HasBox
  <2>2. Box(w).injected \in Seq(Turns) /\ Box(w).consumed \in Seq(Turns)
    BY <2>1, BoxesTyped DEF SessionInv, Box
  <2>3. t \in ToSet(boxes[worker[w].box].injected) \cup ToSet(boxes[worker[w].box].consumed)
    BY <2>2, TurnsInConcat DEF Box
  <2>4. PICK u : ForUser(worker[w].box, u)
    BY <2>1 DEF SessionInv, InboxesAreOnesOwn
  <2> QED
    BY <2>3, <2>4 DEF ForUser, JobOf
<1> QED
  BY <1>1, SessionInvHolds, PTL

(* One turn at a time: of two jobs that run turns at once, one runs outside  *)
(* the session, and for one of the reasons the code has for it.              *)
THEOREM TurnsAreSerialHolds == SessionSpec => []TurnsAreSerial
<1>1. SessionInv => TurnsAreSerial
  <2> SUFFICES ASSUME SessionInv, NEW v \in Workers, NEW w \in Workers,
                      Has(v, "run"), Has(w, "run"), worker[v].job # worker[w].job
               PROVE  \E u \in {v, w} : /\ ~ HasBox(u)
                                        /\ \/ worker[u].tries = 0
                                           \/ expiries > 0
                                           \/ JobOf(u).attempt > 0
    BY DEF TurnsAreSerial
  <2>1. ~ Owns(v) \/ ~ Owns(w)
    BY DEF SessionInv, SlotIsOwned
  <2>2. PICK u \in {v, w} : ~ Owns(u)
    BY <2>1
  <2>3. worker[u].at = "run" /\ worker[u].box = 0
    BY <2>2 DEF Owns, Has
  <2>4. Outside(u)
    BY <2>3 DEF SessionInv, OutsiderHasReason
  <2> QED
    BY <2>3, <2>4 DEF Outside, Retried, JobOf, HasBox
<1> QED
  BY <1>1, SessionInvHolds, PTL

-----------------------------------------------------------------------------
(* Messages.  To count who carries a message, every place a turn can wait in *)
(* is told apart: a job, a position in an inbox or among what was taken from *)
(* it, a position among the parked turns or among those to respawn, and a    *)
(* turn that starts over.                                                    *)

JobHas(j, m) == j \in ByJob(m)
InjectedHas(b, i, m) ==
  b \in DOMAIN boxes /\ i \in DOMAIN boxes[b].injected /\ m \in Asks(boxes[b].injected[i])
ConsumedHas(b, i, m) ==
  b \in DOMAIN boxes /\ i \in DOMAIN boxes[b].consumed /\ m \in Asks(boxes[b].consumed[i])
ParkedHas(i, m) == slot # Nil /\ i \in DOMAIN slot.parked /\ m \in Asks(slot.parked[i])
TodoHas(w, i, m) ==
  w \in Workers /\ i \in DOMAIN worker[w].todo /\ m \in Asks(worker[w].todo[i])
OverHas(w, m) == /\ w \in Workers /\ worker[w].end = "over"
                 /\ worker[w].at \in {"release", "seal"} /\ m \in Covered(worker[w].job)

Holds(kind, x, i, m) ==
  \/ kind = "job" /\ i = 0 /\ JobHas(x, m)
  \/ kind = "injected" /\ InjectedHas(x, i, m)
  \/ kind = "consumed" /\ ConsumedHas(x, i, m)
  \/ kind = "parked" /\ x = 0 /\ ParkedHas(i, m)
  \/ kind = "todo" /\ TodoHas(x, i, m)
  \/ kind = "over" /\ i = 0 /\ OverHas(x, m)

(* What a turn took in stays in its inbox until it is sealed, also when the  *)
(* turn is complete and the message has its answer.                          *)
Spent(kind, x) ==
  /\ kind = "consumed"
  /\ \E w \in Workers : /\ worker[w].at \in {"release", "seal"}
                        /\ worker[w].commit /\ worker[w].box = x

CarriedOK(m) ==
  /\ m \notin Sent => m \notin settled /\ \A kind, x, i : ~ Holds(kind, x, i, m)
  /\ m \in Sent \ settled =>
       /\ \E kind, x, i : Holds(kind, x, i, m)
       /\ expiries = 0 =>
            \A k1, x1, i1, k2, x2, i2 :
              Holds(k1, x1, i1, m) /\ Holds(k2, x2, i2, m) => k1 = k2 /\ x1 = x2 /\ i1 = i2
  /\ m \in settled /\ expiries = 0 /\ cancels = 0 =>
       \A kind, x, i : Holds(kind, x, i, m) => Spent(kind, x)

(* How a turn ends, and what it still has in its hands.                      *)
EndsSane(w) ==
  LET r == worker[w]
  IN  /\ r.todo # <<>> => r.at \in {"seal", "respawn"}
      /\ r.at \in {"resolved", "release", "seal"} /\ r.end = "over"
           => r.box # 0 /\ boxes[r.box].consumed # <<>> /\ ~ r.commit
      /\ r.at \in {"release", "seal"} /\ r.commit
           => AskedIn(boxes[r.box].consumed) \subseteq settled

(* No two turns have the same inbox.                                         *)
HoldsBox(w) == worker[w].at \in {"run", "resolved", "release", "seal"} /\ worker[w].box # 0
BoxesApart == \A v, w \in Workers : HoldsBox(v) /\ HoldsBox(w) /\ v # w => worker[v].box # worker[w].box

(* A withdrawn message has its answer.                                       *)
WithdrawnSettled ==
  \A j \in DOMAIN jobs : jobs[j].status = "cancelled" => cancels > 0 /\ Covered(j) \subseteq settled

CarryInv ==
  /\ \A w \in Workers : EndsSane(w)
  /\ BoxesApart /\ WithdrawnSettled
  /\ \A m \in Msgs : CarriedOK(m)

(* A step that does not touch the message.                                   *)
LEMMA Untouched ==
  ASSUME NEW m, CarriedOK(m),
         \A kind, x, i : Holds(kind, x, i, m)' <=> Holds(kind, x, i, m),
         m \in Sent' <=> m \in Sent, m \in settled' <=> m \in settled,
         expiries' = 0 => expiries = 0, cancels' = 0 => cancels = 0,
         \A kind, x, i : Holds(kind, x, i, m) /\ Spent(kind, x) => Spent(kind, x)'
  PROVE  CarriedOK(m)'
<1>1. m \notin Sent' => m \notin settled' /\ \A kind, x, i : ~ Holds(kind, x, i, m)'
  BY DEF CarriedOK
<1>2. m \in Sent' \ settled' =>
        /\ \E kind, x, i : Holds(kind, x, i, m)'
        /\ expiries' = 0 =>
             \A k1, x1, i1, k2, x2, i2 :
               Holds(k1, x1, i1, m)' /\ Holds(k2, x2, i2, m)' => k1 = k2 /\ x1 = x2 /\ i1 = i2
  BY DEF CarriedOK
<1>3. m \in settled' /\ expiries' = 0 /\ cancels' = 0 =>
        \A kind, x, i : Holds(kind, x, i, m)' => Spent(kind, x)'
  BY DEF CarriedOK
<1> QED
  BY <1>1, <1>2, <1>3 DEF CarriedOK

(* A step that moves it from one place to another.                           *)
LEMMA Moved ==
  ASSUME NEW m, CarriedOK(m), m \in Sent', m \in settled' <=> m \in settled,
         NEW k2, NEW x2, NEW i2, Holds(k2, x2, i2, m)',
         expiries' = 0 =>
           \E k1, x1, i1 :
             /\ Holds(k1, x1, i1, m) /\ ~ Spent(k1, x1)
             /\ \A kind, x, i :
                  Holds(kind, x, i, m)' =>
                    \/ kind = k2 /\ x = x2 /\ i = i2
                    \/ Holds(kind, x, i, m) /\ ~ (kind = k1 /\ x = x1 /\ i = i1),
         expiries' = 0 => expiries = 0, cancels' = 0 => cancels = 0
  PROVE  CarriedOK(m)'
<1>1. CASE expiries' # 0
  BY <1>1 DEF CarriedOK
<1>2. CASE expiries' = 0
  <2>1. PICK k1, x1, i1 :
          /\ Holds(k1, x1, i1, m) /\ ~ Spent(k1, x1)
          /\ \A kind, x, i :
               Holds(kind, x, i, m)' =>
                 \/ kind = k2 /\ x = x2 /\ i = i2
                 \/ Holds(kind, x, i, m) /\ ~ (kind = k1 /\ x = x1 /\ i = i1)
    BY <1>2
  <2>2. m \in Sent
    BY <2>1 DEF CarriedOK
  <2>3. CASE m \in settled
    <3>1. cancels' # 0
      BY <1>2, <2>1, <2>3 DEF CarriedOK
    <3> QED
      BY <2>3, <3>1 DEF CarriedOK
  <2>4. CASE m \notin settled
    <3>1. \A kind, x, i : Holds(kind, x, i, m) => kind = k1 /\ x = x1 /\ i = i1
      BY <1>2, <2>1, <2>2, <2>4 DEF CarriedOK
    <3>2. \A kind, x, i : Holds(kind, x, i, m)' => kind = k2 /\ x = x2 /\ i = i2
      BY <2>1, <3>1
    <3> QED
      BY <2>4, <3>2 DEF CarriedOK
  <2> QED
    BY <2>3, <2>4
<1> QED
  BY <1>1, <1>2

(* Until its turn starts, a worker has nothing in its hands.                 *)
LEMMA EarlyMoves ==
  ASSUME SessionAssumption, SessionInv, NEW w \in Workers,
         Dequeue(w) \/ Claim(w) \/ FindInbox(w) \/ Push(w) \/ Park(w) \/ Absorbed(w)
  PROVE  /\ Alone(w) /\ UNCHANGED <<settled, expiries, cancels>>
         /\ worker[w].at \in {"idle", "claim", "inject", "push", "park", "absorbed"}
         /\ worker'[w].at \in {"idle", "claim", "inject", "push", "park", "absorbed", "run"}
         /\ worker'[w].todo \in {worker[w].todo, <<>>}
         /\ DOMAIN boxes \subseteq DOMAIN boxes'
         /\ \A b \in DOMAIN boxes : boxes'[b].consumed = boxes[b].consumed
         /\ worker'[w].at = "run" /\ worker'[w].box # 0 => worker'[w].box \notin DOMAIN boxes
<1>1. SessionTypeOK /\ Placed(w) /\ worker[w].tries \in Nat
  BY MemoriesTyped DEF SessionInv
<1>2. CASE Dequeue(w)
  <2>1. PICK j \in DOMAIN jobs :
          worker' = [worker EXCEPT ![w] = [Resting EXCEPT !.at = "claim", !.job = j, !.tries = Tries]]
    BY <1>2 DEF Dequeue, Pending, Ids
  <2> QED
    BY <1>1, <1>2, <2>1, DequeueMoves DEF Dequeue, Has
<1>3. CASE Claim(w)
  <2>1. CASE worker[w].tries = 0 \/ slot # Nil
    BY <1>3, <2>1, JoinMoves DEF Claim, Has
  <2>2. CASE ~ (worker[w].tries = 0 \/ slot # Nil)
    <3>1. /\ worker[w].at = "claim" /\ boxes' = Append(boxes, NewBox)
          /\ slot' = [job |-> worker[w].job, user |-> UserOf[JobOf(w).msg],
                      box |-> Len(boxes) + 1, parked |-> <<>>]
          /\ worker' = [worker EXCEPT ![w].at = "run", ![w].box = Len(boxes) + 1]
          /\ UNCHANGED <<settled, expiries, cancels>>
      BY <1>3, <2>2 DEF Claim, Has
    <3> QED
      BY <3>1, OpenMoves
  <2> QED
    BY <2>1, <2>2
<1>4. CASE FindInbox(w)
  <2>1. worker[w].at = "inject" /\ worker[w].tries > 0 /\ UNCHANGED <<boxes, settled, expiries, cancels>>
    BY <1>1, <1>4 DEF FindInbox, Has, Placed
  <2>2. CASE StillThere(w)
    <3>1. worker' = [worker EXCEPT ![w].at = "push", ![w].seen = 0, ![w].box = slot.box]
      BY <1>4, <2>2 DEF FindInbox
    <3>2. Alone(w) /\ worker'[w].at = "push" /\ worker'[w].todo = worker[w].todo
      BY <1>1, <3>1, MemoriesTyped DEF Alone, SessionTypeOK, Memories
    <3> QED
      BY <2>1, <3>2
  <2>3. CASE ~ StillThere(w)
    BY <1>1, <1>4, <2>1, <2>3, WorkerMisses DEF FindInbox
  <2> QED
    BY <2>2, <2>3
<1>5. CASE Push(w)
  <2>1. /\ worker[w].at = "push" /\ worker[w].tries > 0 /\ UNCHANGED <<settled, expiries, cancels>>
        /\ worker[w].box \in DOMAIN boxes
    BY <1>1, <1>5 DEF Push, Has, Placed
  <2>2. CASE boxes[worker[w].box].sealed
    BY <1>1, <1>5, <2>1, <2>2, WorkerMisses DEF Push
  <2>3. CASE ~ boxes[worker[w].box].sealed
    <3>1. /\ boxes' = [boxes EXCEPT ![worker[w].box].injected = Append(@, TurnOf(w))]
          /\ Goes(w, "absorbed")
      BY <1>5, <2>3 DEF Push
    <3>2. DOMAIN boxes' = DOMAIN boxes /\ \A b \in DOMAIN boxes : boxes'[b].consumed = boxes[b].consumed
      BY <2>1, <3>1, <1>1, BoxesTyped DEF BoxRecords
    <3> QED
      BY <1>1, <2>1, <3>1, <3>2, WorkerGoes DEF Places
  <2> QED
    BY <2>2, <2>3
<1>6. CASE Park(w)
  <2>1. worker[w].at = "park" /\ worker[w].tries > 0 /\ UNCHANGED <<boxes, settled, expiries, cancels>>
    BY <1>1, <1>6 DEF Park, Has, Placed
  <2>2. CASE StillThere(w)
    BY <1>1, <1>6, <2>1, <2>2, WorkerGoes DEF Park, Places
  <2>3. CASE ~ StillThere(w)
    BY <1>1, <1>6, <2>1, <2>3, WorkerMisses DEF Park
  <2> QED
    BY <2>2, <2>3
<1>7. CASE Absorbed(w)
  BY <1>1, <1>7, WorkerRests DEF Absorbed, Has, Resting
<1> QED
  BY <1>2, <1>3, <1>4, <1>5, <1>6, <1>7

(* A worker that stands still keeps what is true of its end, over inboxes    *)
(* that keep what was taken from them.                                       *)
LEMMA EndKept ==
  ASSUME NEW v \in Workers, EndsSane(v), worker'[v] = worker[v],
         settled \subseteq settled',
         worker[v].at \in {"resolved", "release", "seal"} /\ worker[v].box # 0
           => boxes'[worker[v].box].consumed = boxes[worker[v].box].consumed,
         Placed(v)
  PROVE  EndsSane(v)'
BY DEF EndsSane, Placed

LEMMA EndsSaneStep ==
  ASSUME SessionAssumption, SessionInv, CarryInv, Next
  PROVE  \A v \in Workers : EndsSane(v)'
<1> SUFFICES ASSUME NEW v \in Workers PROVE EndsSane(v)'
  OBVIOUS
<1>1. EndsSane(v) /\ Placed(v) /\ SessionTypeOK
  BY DEF SessionInv, CarryInv
<1>2. CASE (\E m \in Msgs : Submit(m)) \/ (\E j \in Ids : Expire(j) \/ Cancel(j))
  <2>1. UNCHANGED <<boxes, worker>> /\ settled \subseteq settled'
    BY <1>2 DEF Submit, Expire, Cancel
  <2> QED
    BY <1>1, <2>1, EndKept
<1>3. ASSUME NEW w \in Workers,
             Dequeue(w) \/ Claim(w) \/ FindInbox(w) \/ Push(w) \/ Park(w) \/ Absorbed(w)
      PROVE  EndsSane(v)'
  <2>1. /\ Alone(w) /\ UNCHANGED settled
        /\ worker[w].at \in {"idle", "claim", "inject", "push", "park", "absorbed"}
        /\ worker'[w].at \in {"idle", "claim", "inject", "push", "park", "absorbed", "run"}
        /\ worker'[w].todo \in {worker[w].todo, <<>>}
        /\ \A b \in DOMAIN boxes : boxes'[b].consumed = boxes[b].consumed
    BY <1>3, EarlyMoves
  <2>2. CASE v = w
    BY <1>1, <2>1, <2>2 DEF EndsSane
  <2>3. CASE v # w
    <3>1. worker'[v] = worker[v]
      BY <2>1, <2>3 DEF Alone
    <3>2. worker[v].box # 0 => boxes'[worker[v].box].consumed = boxes[worker[v].box].consumed
      BY <1>1, <2>1 DEF Placed
    <3> QED
      BY <1>1, <2>1, <3>1, <3>2, EndKept
  <2> QED
    BY <2>2, <2>3
<1>4. ASSUME NEW w \in Workers, Drain(w) PROVE EndsSane(v)'
  <2>1. /\ worker[w].at = "run" /\ worker[w].box # 0 /\ UNCHANGED <<worker, settled>>
        /\ \A k \in DOMAIN boxes : k # worker[w].box => boxes'[k] = boxes[k]
    BY <1>4, DrainKeeps DEF Drain, Has, HasBox
  <2>2. CASE v = w
    BY <1>1, <2>1, <2>2 DEF EndsSane
  <2>3. CASE v # w
    <3>1. worker[v].at \in {"resolved", "release", "seal"} /\ worker[v].box # 0
            => worker[v].box # worker[w].box /\ worker[v].box \in DOMAIN boxes
      BY <1>1, <2>1, <2>3 DEF CarryInv, BoxesApart, HoldsBox, Placed
    <3> QED
      BY <1>1, <2>1, <3>1, EndKept
  <2> QED
    BY <2>2, <2>3
<1>5. ASSUME NEW w \in Workers, NEW end \in Ends, Resolve(w, end) PROVE EndsSane(v)'
  <2>1. /\ Alone(w) /\ UNCHANGED <<boxes, settled>>
        /\ worker[w].at = "run" /\ worker'[w].at = "resolved"
        /\ worker'[w].job = worker[w].job /\ worker'[w].box = worker[w].box
        /\ worker'[w].todo = worker[w].todo /\ worker'[w].commit = (end = "complete")
        /\ worker'[w].end = IF end = "retry" /\ HasConsumed(w) THEN "over" ELSE end
    <3>1. UNCHANGED <<boxes, settled>>
      BY <1>5 DEF Resolve
    <3> QED
      BY <1>1, <1>5, <3>1, ResolveMoves
  <2>2. CASE v = w
    <3>1. worker[w].todo = <<>>
      BY <1>1, <2>1, <2>2 DEF EndsSane
    <3>2. worker'[w].end = "over" => HasConsumed(w) /\ ~ worker'[w].commit
      BY <2>1 DEF Ends
    <3> QED
      BY <2>1, <2>2, <3>1, <3>2 DEF EndsSane, HasConsumed, HasBox, Box
  <2>3. CASE v # w
    BY <1>1, <2>1, <2>3, EndKept DEF Alone
  <2> QED
    BY <2>2, <2>3
<1>6. ASSUME NEW w \in Workers, Finalize(w) PROVE EndsSane(v)'
  <2>1. /\ Alone(w) /\ UNCHANGED boxes /\ settled \subseteq settled' /\ worker[w].at = "resolved"
        /\ worker[w].box # 0 => /\ worker'[w].at = "release" /\ worker'[w].job = worker[w].job
                                /\ worker'[w].box = worker[w].box
                                /\ worker'[w].end = worker[w].end
                                /\ worker'[w].commit = worker[w].commit
                                /\ worker'[w].todo = worker[w].todo
        /\ worker[w].box = 0 => worker'[w] = Resting
    BY <1>6, FinalizeMoves DEF Finalize, Has
  <2>2. CASE v = w /\ worker[w].box # 0
    <3>1. worker[w].commit => AskedIn(boxes[worker[w].box].consumed) \subseteq settled'
      <4> SUFFICES ASSUME worker[w].commit
                   PROVE  AskedIn(boxes[worker[w].box].consumed) \subseteq settled'
        OBVIOUS
      <4>1. Messages(Taken(Box(w))) \subseteq settled'
        BY <1>6, <2>2 DEF Finalize, HasBox
      <4>2. Messages(Taken(Box(w))) = AskedIn(boxes[worker[w].box].consumed)
        BY DEF Messages, Taken, AskedIn, Asks, Box
      <4> QED
        BY <4>1, <4>2
    <3>2. worker[w].todo = <<>>
      BY <1>1, <2>1, <2>2 DEF EndsSane
    <3> QED
      BY <1>1, <2>1, <2>2, <3>1, <3>2 DEF EndsSane
  <2>3. CASE v = w /\ worker[w].box = 0
    BY <2>1, <2>3 DEF EndsSane, Resting
  <2>4. CASE v # w
    BY <1>1, <2>1, <2>4, EndKept DEF Alone
  <2> QED
    BY <2>2, <2>3, <2>4
<1>7. ASSUME NEW w \in Workers, Release(w) PROVE EndsSane(v)'
  <2>1. /\ Alone(w) /\ UNCHANGED <<boxes, settled>> /\ worker[w].at = "release"
        /\ worker'[w].at = "seal" /\ worker'[w].box = worker[w].box
        /\ worker'[w].end = worker[w].end /\ worker'[w].commit = worker[w].commit
    BY <1>7, ReleaseMoves DEF Release, Has
  <2>2. CASE v = w
    BY <1>1, <2>1, <2>2 DEF EndsSane
  <2>3. CASE v # w
    BY <1>1, <2>1, <2>3, EndKept DEF Alone
  <2> QED
    BY <2>2, <2>3
<1>8. ASSUME NEW w \in Workers, Seal(w) PROVE EndsSane(v)'
  <2>1. /\ Alone(w) /\ UNCHANGED settled /\ worker[w].at = "seal" /\ worker'[w].at = "respawn"
        /\ worker[w].box \in DOMAIN boxes
        /\ \A k \in DOMAIN boxes : k # worker[w].box => boxes'[k] = boxes[k]
    BY <1>8, SealMoves DEF Seal, Has
  <2>2. CASE v = w
    BY <2>1, <2>2 DEF EndsSane
  <2>3. CASE v # w
    <3>1. worker[w].box # 0
      BY <1>1, <2>1, BoxesTyped
    <3>2. worker[v].at \in {"resolved", "release", "seal"} /\ worker[v].box # 0
            => worker[v].box # worker[w].box /\ worker[v].box \in DOMAIN boxes
      BY <1>1, <2>1, <2>3, <3>1 DEF CarryInv, BoxesApart, HoldsBox, Placed
    <3>3. worker'[v] = worker[v]
      BY <2>1, <2>3 DEF Alone
    <3> QED
      BY <1>1, <2>1, <3>2, <3>3, EndKept
  <2> QED
    BY <2>2, <2>3
<1>9. ASSUME NEW w \in Workers, Respawn(w) PROVE EndsSane(v)'
  <2>1. /\ Alone(w) /\ UNCHANGED <<boxes, settled>>
        /\ worker'[w] = Resting \/ worker'[w].at = "respawn"
    BY <1>9, RespawnMoves DEF Respawn
  <2>2. CASE v = w
    BY <2>1, <2>2 DEF EndsSane, Resting
  <2>3. CASE v # w
    BY <1>1, <2>1, <2>3, EndKept DEF Alone
  <2> QED
    BY <2>2, <2>3
<1> QED
  BY <1>2, <1>3, <1>4, <1>5, <1>6, <1>7, <1>8, <1>9 DEF Next, Step

LEMMA BoxesApartStep ==
  ASSUME SessionAssumption, SessionInv, CarryInv, Next
  PROVE  BoxesApart'
<1>1. SessionTypeOK /\ BoxesApart
  BY DEF SessionInv, CarryInv
<1>2. CASE (\E m \in Msgs : Submit(m)) \/ (\E j \in Ids : Expire(j) \/ Cancel(j))
  <2>1. UNCHANGED worker
    BY <1>2 DEF Submit, Expire, Cancel
  <2> QED
    BY <1>1, <2>1 DEF BoxesApart, HoldsBox
<1>3. ASSUME NEW w \in Workers, Alone(w),
             HoldsBox(w)' => HoldsBox(w) /\ worker'[w].box = worker[w].box
      PROVE  BoxesApart'
  <2>1. \A v \in Workers : HoldsBox(v)' => HoldsBox(v) /\ worker'[v].box = worker[v].box
    BY <1>3 DEF Alone, HoldsBox
  <2> QED
    BY <1>1, <2>1 DEF BoxesApart
<1>4. ASSUME NEW w \in Workers,
             Dequeue(w) \/ Claim(w) \/ FindInbox(w) \/ Push(w) \/ Park(w) \/ Absorbed(w)
      PROVE  BoxesApart'
  <2>1. /\ Alone(w)
        /\ worker'[w].at \in {"idle", "claim", "inject", "push", "park", "absorbed", "run"}
        /\ worker'[w].at = "run" /\ worker'[w].box # 0 => worker'[w].box \notin DOMAIN boxes
    BY <1>4, EarlyMoves
  <2>2. \A v \in Workers : v # w /\ HoldsBox(v)'
          => /\ HoldsBox(v) /\ worker'[v].box = worker[v].box
             /\ worker[v].box \in DOMAIN boxes
    BY <2>1 DEF Alone, HoldsBox, SessionInv, Placed
  <2>3. HoldsBox(w)' => worker'[w].box \notin DOMAIN boxes
    BY <2>1 DEF HoldsBox
  <2> QED
    BY <1>1, <2>2, <2>3 DEF BoxesApart
<1>5. ASSUME NEW w \in Workers, Drain(w) PROVE BoxesApart'
  BY <1>1, <1>5 DEF Drain, BoxesApart, HoldsBox
<1>6. ASSUME NEW w \in Workers, NEW end \in Ends, Resolve(w, end) PROVE BoxesApart'
  BY <1>1, <1>3, <1>6, ResolveMoves DEF HoldsBox
<1>7. ASSUME NEW w \in Workers, Finalize(w) PROVE BoxesApart'
  <2>1. worker[w].at = "resolved"
    BY <1>7 DEF Finalize, Has
  <2> QED
    BY <1>3, <1>7, <2>1, FinalizeMoves DEF HoldsBox, Resting
<1>8. ASSUME NEW w \in Workers, Release(w) PROVE BoxesApart'
  <2>1. worker[w].at = "release"
    BY <1>8 DEF Release, Has
  <2> QED
    BY <1>3, <1>8, <2>1, ReleaseMoves DEF HoldsBox
<1>9. ASSUME NEW w \in Workers, Seal(w) PROVE BoxesApart'
  BY <1>3, <1>9, SealMoves DEF HoldsBox
<1>10. ASSUME NEW w \in Workers, Respawn(w) PROVE BoxesApart'
  BY <1>3, <1>10, RespawnMoves DEF HoldsBox, Resting
<1> QED
  BY <1>2, <1>4, <1>5, <1>6, <1>7, <1>8, <1>9, <1>10 DEF Next, Step

(* Messages of a job do not change, and a withdrawn job stays withdrawn.     *)
LEMMA CoveredKept ==
  ASSUME JobsKept
  PROVE  \A j \in DOMAIN jobs : Covered(j)' = Covered(j)
BY DEF JobsKept, Covered

LEMMA SentGrows ==
  ASSUME JobsKept
  PROVE  /\ Sent \subseteq Sent'
         /\ DOMAIN jobs' = DOMAIN jobs => Sent' = Sent
BY CoveredKept DEF JobsKept, Sent, Ids

(* What the steps of a worker do to the status of a job.                     *)
LEMMA StatusMoves ==
  ASSUME SessionAssumption, SessionInv, NEW w \in Workers, Step(w)
  PROVE  /\ JobsKept /\ settled \subseteq settled' /\ cancels' = cancels
         /\ \A j \in DOMAIN jobs' :
              jobs'[j].status = "cancelled" => j \in DOMAIN jobs /\ jobs[j].status = "cancelled"
<1>1. SessionTypeOK
  BY DEF SessionInv
<1>2. CASE Dequeue(w)
  <2>1. PICK j \in DOMAIN jobs : jobs' = [jobs EXCEPT ![j].status = "processing"]
    BY <1>2 DEF Dequeue, Pending, Ids
  <2> QED
    BY <1>1, <1>2, <2>1, JobsRestated DEF Statuses, Dequeue
<1>3. CASE UNCHANGED <<jobs, settled, cancels>>
  BY <1>1, <1>3, JobsSame
<1>4. CASE Absorbed(w)
  <2>1. worker[w].job \in DOMAIN jobs /\ jobs' = Becomes(worker[w].job, "completed")
    BY <1>4 DEF Absorbed, SessionInv, Placed, Has
  <2> QED
    BY <1>1, <1>4, <2>1, JobsBecome DEF Statuses, Absorbed
<1>5. CASE Finalize(w)
  <2>1. settled \subseteq settled' /\ cancels' = cancels
    BY <1>5 DEF Finalize
  <2>2. \A j \in DOMAIN jobs : jobs'[j].status = "cancelled" => jobs[j].status = "cancelled"
    <3>1. worker[w].job \in DOMAIN jobs /\ worker[w].end \in {"complete", "fail", "retry", "over"}
      BY <1>5 DEF Finalize, SessionInv, Placed, Has
    <3>2. CASE worker[w].end = "retry"
      BY <1>5, <3>2, FinalizeMoves
    <3>3. CASE worker[w].end # "retry"
      <4>1. \E st \in {"completed", "failed"} : jobs' = Becomes(worker[w].job, st)
        BY <1>5, <3>1, <3>3 DEF Finalize
      <4> QED
        BY <1>1, <3>1, <4>1, JobsBecome DEF Statuses
    <3> QED
      BY <3>2, <3>3
  <2> QED
    BY <1>5, <2>1, <2>2, FinalizeMoves
<1>6. CASE Respawn(w)
  <2>1. UNCHANGED <<settled, cancels>>
    BY <1>6 DEF Respawn
  <2>2. CASE worker[w].todo = <<>>
    BY <1>3, <1>6, <2>1, <2>2, RespawnMoves
  <2>3. CASE worker[w].todo # <<>>
    <3>1. Head(worker[w].todo) \in Turns
      BY <1>6, <2>3, RespawnMoves, AskedInTail
    <3>2. jobs' = Append(jobs, NewJob(Head(worker[w].todo)))
      BY <1>6, <2>3, RespawnMoves
    <3> QED
      BY <1>1, <2>1, <3>1, <3>2, JobsAppended DEF NewJob
  <2> QED
    BY <2>2, <2>3
<1> QED
  BY <1>2, <1>3, <1>4, <1>5, <1>6
    DEF Step, Claim, FindInbox, Push, Park, Drain, Release, Seal, Resolve

LEMMA WithdrawnSettledStep ==
  ASSUME SessionAssumption, SessionInv, CarryInv, Next
  PROVE  WithdrawnSettled'
<1>1. SessionTypeOK /\ WithdrawnSettled
  BY DEF SessionInv, CarryInv
<1>2. ASSUME NEW w \in Workers, Step(w) PROVE WithdrawnSettled'
  <2>1. /\ JobsKept /\ settled \subseteq settled' /\ cancels' = cancels
        /\ \A j \in DOMAIN jobs' :
             jobs'[j].status = "cancelled" => j \in DOMAIN jobs /\ jobs[j].status = "cancelled"
    BY <1>2, StatusMoves
  <2> QED
    BY <1>1, <2>1, CoveredKept DEF WithdrawnSettled
<1>3. ASSUME NEW m \in Msgs, Submit(m) PROVE WithdrawnSettled'
  <2>1. Turn(m, {}) \in Turns /\ jobs' = Append(jobs, NewJob(Turn(m, {})))
        /\ UNCHANGED <<settled, cancels>>
    BY <1>3, TurnsTyped DEF Submit
  <2>2. \A j \in DOMAIN jobs' :
          jobs'[j].status = "cancelled" => j \in DOMAIN jobs /\ jobs[j].status = "cancelled"
    BY <1>1, <2>1, JobsAppended DEF NewJob
  <2> QED
    BY <1>1, <2>1, <2>2, JobsAppended, CoveredKept DEF WithdrawnSettled
<1>4. ASSUME NEW j \in DOMAIN jobs, Expire(j) PROVE WithdrawnSettled'
  <2>1. jobs' = [jobs EXCEPT ![j].status = "pending"] /\ UNCHANGED <<settled, cancels>>
    BY <1>4 DEF Expire
  <2>2. /\ JobsKept
        /\ \A k \in DOMAIN jobs' :
             jobs'[k].status = "cancelled" => k \in DOMAIN jobs /\ jobs[k].status = "cancelled"
    BY <1>1, <2>1, JobsRestated DEF Statuses
  <2> QED
    BY <1>1, <2>1, <2>2, CoveredKept DEF WithdrawnSettled
<1>5. ASSUME NEW j \in DOMAIN jobs, Cancel(j) PROVE WithdrawnSettled'
  <2>1. /\ jobs' = [jobs EXCEPT ![j].status = "cancelled"]
        /\ settled' = settled \cup Covered(j) /\ cancels' = cancels + 1
    BY <1>5 DEF Cancel
  <2>2. cancels' > 0
    BY <1>1, <2>1 DEF SessionTypeOK
  <2>3. /\ JobsKept /\ DOMAIN jobs' = DOMAIN jobs
        /\ \A k \in DOMAIN jobs : k # j => jobs'[k] = jobs[k]
    BY <1>1, <2>1, JobsRestated DEF Statuses
  <2>4. \A k \in DOMAIN jobs : jobs'[k].status = "cancelled" => Covered(k) \subseteq settled'
    BY <1>1, <2>1, <2>3 DEF WithdrawnSettled
  <2> QED
    BY <2>2, <2>3, <2>4, CoveredKept DEF WithdrawnSettled
<1> QED
  BY <1>2, <1>3, <1>4, <1>5 DEF Next, Ids

-----------------------------------------------------------------------------
(* Which places a step leaves alone.                                         *)

LEMMA HoldsKept ==
  ASSUME NEW m,
         \A x : JobHas(x, m)' <=> JobHas(x, m),
         \A x, i : InjectedHas(x, i, m)' <=> InjectedHas(x, i, m),
         \A x, i : ConsumedHas(x, i, m)' <=> ConsumedHas(x, i, m),
         \A i : ParkedHas(i, m)' <=> ParkedHas(i, m),
         \A x, i : TodoHas(x, i, m)' <=> TodoHas(x, i, m),
         \A x : OverHas(x, m)' <=> OverHas(x, m)
  PROVE  \A kind, x, i : Holds(kind, x, i, m)' <=> Holds(kind, x, i, m)
BY DEF Holds

LEMMA HandedKept ==
  ASSUME NEW w \in Workers, Alone(w), NEW j,
         worker'[w].at = "absorbed" /\ worker'[w].job = j
           <=> worker[w].at = "absorbed" /\ worker[w].job = j
  PROVE  HandedOn(j)' <=> HandedOn(j)
<1>1. HandedOn(j) <=> \/ worker[w].at = "absorbed" /\ worker[w].job = j
                      \/ \E v \in Workers \ {w} : worker[v].at = "absorbed" /\ worker[v].job = j
  BY DEF HandedOn, Has
<1>2. HandedOn(j)' <=> \/ worker'[w].at = "absorbed" /\ worker'[w].job = j
                       \/ \E v \in Workers \ {w} : worker'[v].at = "absorbed" /\ worker'[v].job = j
  BY DEF HandedOn, Has
<1>3. \A v \in Workers \ {w} : worker'[v] = worker[v]
  BY DEF Alone
<1> QED
  BY <1>1, <1>2, <1>3

LEMMA JobHasIs ==
  ASSUME NEW j, NEW m
  PROVE  JobHas(j, m) <=> /\ j \in DOMAIN jobs /\ m \in Covered(j)
                          /\ jobs[j].status \in {"pending", "processing"}
                          /\ ~ HandedOn(j)
BY DEF JobHas, ByJob, Ids

LEMMA JobHasKept ==
  ASSUME NEW m, NEW j, JobsKept,
         j \in DOMAIN jobs' => j \in DOMAIN jobs,
         j \in DOMAIN jobs =>
           /\ jobs'[j].status \in {"pending", "processing"}
                <=> jobs[j].status \in {"pending", "processing"}
           /\ HandedOn(j)' <=> HandedOn(j)
  PROVE  JobHas(j, m)' <=> JobHas(j, m)
<1>1. JobHas(j, m)' <=> /\ j \in DOMAIN jobs' /\ m \in Covered(j)'
                        /\ jobs'[j].status \in {"pending", "processing"}
                        /\ ~ HandedOn(j)'
  BY DEF JobHas, ByJob, Ids
<1>2. j \in DOMAIN jobs' <=> j \in DOMAIN jobs
  BY DEF JobsKept
<1>3. j \in DOMAIN jobs => Covered(j)' = Covered(j)
  BY CoveredKept
<1> QED
  BY <1>1, <1>2, <1>3, JobHasIs

LEMMA BoxesHaveKept ==
  ASSUME NEW m, DOMAIN boxes \subseteq DOMAIN boxes',
         \A b \in DOMAIN boxes : /\ boxes'[b].injected = boxes[b].injected
                                 /\ boxes'[b].consumed = boxes[b].consumed,
         \A b \in DOMAIN boxes' \ DOMAIN boxes :
           boxes'[b].injected = <<>> /\ boxes'[b].consumed = <<>>
  PROVE  /\ \A x, i : InjectedHas(x, i, m)' <=> InjectedHas(x, i, m)
         /\ \A x, i : ConsumedHas(x, i, m)' <=> ConsumedHas(x, i, m)
BY DEF InjectedHas, ConsumedHas, Asks

LEMMA OthersInHandKept ==
  ASSUME SessionInv, NEW m, NEW w \in Workers, Alone(w), JobsKept
  PROVE  \A v : v # w => /\ \A i : TodoHas(v, i, m)' <=> TodoHas(v, i, m)
                         /\ OverHas(v, m)' <=> OverHas(v, m)
<1> SUFFICES ASSUME NEW v \in Workers, v # w
             PROVE  /\ \A i : TodoHas(v, i, m)' <=> TodoHas(v, i, m)
                    /\ OverHas(v, m)' <=> OverHas(v, m)
  BY DEF TodoHas, OverHas
<1>1. worker'[v] = worker[v]
  BY DEF Alone
<1>2. worker[v].at \in {"release", "seal"} => Covered(worker[v].job)' = Covered(worker[v].job)
  <2>1. worker[v].at \in {"release", "seal"} => worker[v].job \in DOMAIN jobs
    BY DEF SessionInv, Placed
  <2> QED
    BY <1>1, <2>1 DEF JobsKept, Covered
<1> QED
  BY <1>1, <1>2 DEF TodoHas, OverHas, Asks

LEMMA SpentKept ==
  ASSUME NEW w \in Workers, Alone(w),
         worker[w].at \in {"release", "seal"} /\ worker[w].commit
           => /\ worker'[w].at \in {"release", "seal"} /\ worker'[w].commit
              /\ worker'[w].box = worker[w].box
  PROVE  \A kind, x : Spent(kind, x) => Spent(kind, x)'
<1> SUFFICES ASSUME NEW kind, NEW x, Spent(kind, x) PROVE Spent(kind, x)'
  OBVIOUS
<1>1. PICK v \in Workers : /\ worker[v].at \in {"release", "seal"}
                           /\ worker[v].commit /\ worker[v].box = x
  BY DEF Spent
<1>2. worker'[v].at \in {"release", "seal"} /\ worker'[v].commit /\ worker'[v].box = x
  BY <1>1 DEF Alone
<1> QED
  BY <1>2 DEF Spent

(* A step that moves nothing, of a worker with empty hands.                  *)
LEMMA QuietCarries ==
  ASSUME SessionInv, NEW m, CarriedOK(m), NEW w \in Workers, Alone(w), JobsKept,
         DOMAIN jobs' = DOMAIN jobs,
         \A x : JobHas(x, m)' <=> JobHas(x, m),
         DOMAIN boxes \subseteq DOMAIN boxes',
         \A b \in DOMAIN boxes : /\ boxes'[b].injected = boxes[b].injected
                                 /\ boxes'[b].consumed = boxes[b].consumed,
         \A b \in DOMAIN boxes' \ DOMAIN boxes :
           boxes'[b].injected = <<>> /\ boxes'[b].consumed = <<>>,
         \A i : ParkedHas(i, m)' <=> ParkedHas(i, m),
         worker'[w].todo = worker[w].todo,
         worker[w].at \notin {"release", "seal"}, worker'[w].at \notin {"release", "seal"},
         UNCHANGED <<settled, expiries, cancels>>
  PROVE  CarriedOK(m)'
<1>1. /\ \A x, i : TodoHas(x, i, m)' <=> TodoHas(x, i, m)
      /\ \A x : OverHas(x, m)' <=> OverHas(x, m)
  <2>1. /\ \A i : TodoHas(w, i, m)' <=> TodoHas(w, i, m)
        /\ OverHas(w, m)' <=> OverHas(w, m)
    BY DEF TodoHas, OverHas, Asks
  <2> QED
    BY <2>1, OthersInHandKept
<1>2. \A kind, x, i : Holds(kind, x, i, m)' <=> Holds(kind, x, i, m)
  BY <1>1, BoxesHaveKept, HoldsKept
<1>3. \A kind, x : Spent(kind, x) => Spent(kind, x)'
  BY SpentKept
<1>4. m \in Sent' <=> m \in Sent
  BY SentGrows
<1> QED
  BY <1>2, <1>3, <1>4, Untouched

-----------------------------------------------------------------------------
(* What each step does to a message.                                         *)

LEMMA NothingDone ==
  ASSUME NEW m, CarriedOK(m), UNCHANGED vars
  PROVE  CarriedOK(m)'
<1>1. UNCHANGED <<jobs, slot, boxes, worker, settled, expiries, cancels>>
  BY DEF vars
<1>2. \A kind, x, i : Holds(kind, x, i, m)' <=> Holds(kind, x, i, m)
  BY <1>1, HoldsKept DEF JobHas, ByJob, Ids, Covered, HandedOn, Has,
     InjectedHas, ConsumedHas, ParkedHas, TodoHas, OverHas, Asks
<1>3. \A kind, x : Spent(kind, x) => Spent(kind, x)'
  BY <1>1 DEF Spent
<1>4. Sent' = Sent
  BY <1>1 DEF Sent, Ids, Covered
<1> QED
  BY <1>1, <1>2, <1>3, <1>4, Untouched

LEMMA DequeueCarries ==
  ASSUME SessionAssumption, SessionInv, CarryInv, NEW m \in Msgs, NEW w \in Workers, Dequeue(w)
  PROVE  CarriedOK(m)'
<1>1. SessionTypeOK /\ CarriedOK(m) /\ EndsSane(w) /\ worker[w].at = "idle"
      /\ UNCHANGED <<slot, boxes, settled, expiries, cancels>>
  BY DEF SessionInv, CarryInv, Dequeue, Has
<1>2. PICK j \in DOMAIN jobs :
        /\ jobs[j].status = "pending"
        /\ jobs' = [jobs EXCEPT ![j].status = "processing"]
        /\ worker' = [worker EXCEPT ![w] = [Resting EXCEPT !.at = "claim", !.job = j, !.tries = Tries]]
  BY DEF Dequeue, Pending, Ids
<1>3. /\ Alone(w) /\ worker'[w].at = "claim" /\ worker'[w].todo = <<>>
  BY <1>1, <1>2, DequeueMoves
<1>4. /\ JobsKept /\ DOMAIN jobs' = DOMAIN jobs /\ jobs'[j].status = "processing"
      /\ \A k \in DOMAIN jobs : k # j => jobs'[k] = jobs[k]
  BY <1>1, <1>2, JobsRestated DEF Statuses
<1>5. \A k : HandedOn(k)' <=> HandedOn(k)
  BY <1>1, <1>3, HandedKept
<1>6. \A k : JobHas(k, m)' <=> JobHas(k, m)
  BY <1>2, <1>4, <1>5, JobHasKept
<1>7. worker[w].todo = <<>>
  BY <1>1 DEF EndsSane
<1>8. \A i : ParkedHas(i, m)' <=> ParkedHas(i, m)
  BY <1>1 DEF ParkedHas, Asks
<1> QED
  BY <1>1, <1>3, <1>4, <1>6, <1>7, <1>8, QuietCarries

(* A worker that goes on from where it is not handed on to where it is not.  *)
LEMMA JobsHaveStill ==
  ASSUME SessionTypeOK, NEW m, NEW w \in Workers, Alone(w), UNCHANGED jobs,
         worker[w].at # "absorbed", worker'[w].at # "absorbed"
  PROVE  /\ JobsKept /\ \A j : JobHas(j, m)' <=> JobHas(j, m)
<1>1. \A j : HandedOn(j)' <=> HandedOn(j)
  BY HandedKept
<1> QED
  BY <1>1, JobsSame, JobHasKept

LEMMA ClaimCarries ==
  ASSUME SessionAssumption, SessionInv, CarryInv, NEW m \in Msgs, NEW w \in Workers, Claim(w)
  PROVE  CarriedOK(m)'
<1>1. SessionTypeOK /\ CarriedOK(m) /\ worker[w].at = "claim"
      /\ UNCHANGED <<jobs, settled, expiries, cancels>>
  BY DEF SessionInv, CarryInv, Claim, Has
<1>2. CASE worker[w].tries = 0 \/ slot # Nil
  <2>1. /\ UNCHANGED <<slot, boxes>> /\ Alone(w)
        /\ worker'[w].todo = worker[w].todo /\ worker'[w].at \in {"run", "inject", "park"}
    BY <1>2, JoinMoves
  <2>2. /\ JobsKept /\ \A j : JobHas(j, m)' <=> JobHas(j, m)
    BY <1>1, <2>1, JobsHaveStill
  <2>3. \A i : ParkedHas(i, m)' <=> ParkedHas(i, m)
    BY <2>1 DEF ParkedHas, Asks
  <2> QED
    BY <1>1, <2>1, <2>2, <2>3, QuietCarries
<1>3. CASE ~ (worker[w].tries = 0 \/ slot # Nil)
  <2>1. /\ boxes' = Append(boxes, NewBox) /\ slot = Nil
        /\ slot' = [job |-> worker[w].job, user |-> UserOf[JobOf(w).msg],
                    box |-> Len(boxes) + 1, parked |-> <<>>]
        /\ worker' = [worker EXCEPT ![w].at = "run", ![w].box = Len(boxes) + 1]
    BY <1>3 DEF Claim
  <2>2. /\ slot'.parked = <<>> /\ DOMAIN boxes' = DOMAIN boxes \cup {Len(boxes) + 1}
        /\ boxes'[Len(boxes) + 1] = NewBox
        /\ \A k \in DOMAIN boxes : boxes'[k] = boxes[k]
        /\ Alone(w) /\ worker'[w].at = "run" /\ worker'[w].todo = worker[w].todo
    BY <1>1, <2>1, OpenMoves
  <2>3. /\ JobsKept /\ \A j : JobHas(j, m)' <=> JobHas(j, m)
    BY <1>1, <2>2, JobsHaveStill
  <2>4. \A i : ParkedHas(i, m)' <=> ParkedHas(i, m)
    BY <2>1, <2>2 DEF ParkedHas
  <2>5. \A b \in DOMAIN boxes' \ DOMAIN boxes :
          boxes'[b].injected = <<>> /\ boxes'[b].consumed = <<>>
    BY <2>2 DEF NewBox
  <2> QED
    BY <1>1, <2>2, <2>3, <2>4, <2>5, QuietCarries
<1> QED
  BY <1>2, <1>3

(* A claim that is tried again.                                              *)
LEMMA MissCarries ==
  ASSUME SessionInv, CarryInv, NEW m \in Msgs, NEW w \in Workers, Missed(w),
         worker[w].at \in {"inject", "push", "park"},
         UNCHANGED <<jobs, slot, boxes, settled, expiries, cancels>>
  PROVE  CarriedOK(m)'
<1>1. SessionTypeOK /\ CarriedOK(m) /\ worker[w].tries > 0
  BY DEF SessionInv, CarryInv, Placed
<1>2. Alone(w) /\ worker'[w].at = "claim" /\ worker'[w].todo = worker[w].todo
  BY <1>1, WorkerMisses
<1>3. /\ JobsKept /\ \A j : JobHas(j, m)' <=> JobHas(j, m)
  BY <1>1, <1>2, JobsHaveStill
<1>4. \A i : ParkedHas(i, m)' <=> ParkedHas(i, m)
  BY DEF ParkedHas, Asks
<1> QED
  BY <1>1, <1>2, <1>3, <1>4, QuietCarries

LEMMA FindInboxCarries ==
  ASSUME SessionInv, CarryInv, NEW m \in Msgs, NEW w \in Workers, FindInbox(w)
  PROVE  CarriedOK(m)'
<1>1. SessionTypeOK /\ CarriedOK(m) /\ worker[w].at = "inject"
      /\ UNCHANGED <<jobs, slot, boxes, settled, expiries, cancels>>
  BY DEF SessionInv, CarryInv, FindInbox, Has
<1>2. CASE StillThere(w)
  <2>1. worker' = [worker EXCEPT ![w].at = "push", ![w].seen = 0, ![w].box = slot.box]
    BY <1>2 DEF FindInbox
  <2>2. Alone(w) /\ worker'[w].at = "push" /\ worker'[w].todo = worker[w].todo
    BY <1>1, <2>1, MemoriesTyped DEF Alone, SessionTypeOK, Memories
  <2>3. /\ JobsKept /\ \A j : JobHas(j, m)' <=> JobHas(j, m)
    BY <1>1, <2>2, JobsHaveStill
  <2>4. \A i : ParkedHas(i, m)' <=> ParkedHas(i, m)
    BY <1>1 DEF ParkedHas, Asks
  <2> QED
    BY <1>1, <2>2, <2>3, <2>4, QuietCarries
<1>3. CASE ~ StillThere(w)
  BY <1>1, <1>3, MissCarries DEF FindInbox
<1> QED
  BY <1>2, <1>3

LEMMA ResolveCarries ==
  ASSUME SessionInv, CarryInv, NEW m \in Msgs, NEW w \in Workers, NEW end \in Ends, Resolve(w, end)
  PROVE  CarriedOK(m)'
<1>1. SessionTypeOK /\ CarriedOK(m)
      /\ UNCHANGED <<jobs, slot, boxes, settled, expiries, cancels>>
  BY DEF SessionInv, CarryInv, Resolve
<1>2. Alone(w) /\ worker[w].at = "run" /\ worker'[w].at = "resolved" /\ worker'[w].todo = worker[w].todo
  BY <1>1, ResolveMoves
<1>3. /\ JobsKept /\ \A j : JobHas(j, m)' <=> JobHas(j, m)
  BY <1>1, <1>2, JobsHaveStill
<1>4. \A i : ParkedHas(i, m)' <=> ParkedHas(i, m)
  BY <1>1 DEF ParkedHas, Asks
<1> QED
  BY <1>1, <1>2, <1>3, <1>4, QuietCarries

(* The job of a message that somebody else carries by now is complete.       *)
LEMMA AbsorbedCarries ==
  ASSUME SessionInv, CarryInv, NEW m \in Msgs, NEW w \in Workers, Absorbed(w)
  PROVE  CarriedOK(m)'
<1> DEFINE j == worker[w].job
<1>1. SessionTypeOK /\ CarriedOK(m) /\ EndsSane(w) /\ worker[w].at = "absorbed"
      /\ j \in DOMAIN jobs /\ jobs' = Becomes(j, "completed") /\ Rests(w)
      /\ UNCHANGED <<slot, boxes, settled, expiries, cancels>>
  BY DEF SessionInv, CarryInv, Absorbed, Has, Placed
<1>2. Alone(w) /\ worker'[w] = Resting
  BY <1>1, WorkerRests
<1>3. worker[w].todo = <<>> /\ worker'[w].todo = <<>> /\ worker'[w].at = "idle"
  BY <1>1, <1>2 DEF EndsSane, Resting
<1>4. /\ JobsKept /\ DOMAIN jobs' = DOMAIN jobs
      /\ jobs'[j].status \notin {"pending", "processing"}
      /\ \A k \in DOMAIN jobs : k # j => jobs'[k] = jobs[k]
  BY <1>1, JobsBecome DEF Statuses
<1>5. \A k : JobHas(k, m)' <=> JobHas(k, m)
  <2> SUFFICES ASSUME NEW k PROVE JobHas(k, m)' <=> JobHas(k, m)
    OBVIOUS
  <2>1. CASE k = j
    <3>1. HandedOn(j)
      BY <1>1 DEF HandedOn, Has
    <3>2. ~ JobHas(j, m)
      BY <3>1 DEF JobHas, ByJob
    <3>3. ~ JobHas(k, m)'
      BY <1>4, <2>1 DEF JobHas, ByJob
    <3> QED
      BY <2>1, <3>2, <3>3
  <2>2. CASE k # j
    <3>1. HandedOn(k)' <=> HandedOn(k)
      BY <1>2, <1>3, <2>2, HandedKept
    <3> QED
      BY <1>4, <2>2, <3>1, JobHasKept
  <2> QED
    BY <2>1, <2>2
<1>6. \A i : ParkedHas(i, m)' <=> ParkedHas(i, m)
  BY <1>1 DEF ParkedHas, Asks
<1> QED
  BY <1>1, <1>2, <1>3, <1>4, <1>5, <1>6, QuietCarries

(* A message that was withdrawn, or that a time-out may have doubled, and    *)
(* has its answer.                                                           *)
LEMMA Aside ==
  ASSUME NEW m, m \in Sent', m \in settled', expiries' # 0 \/ cancels' # 0
  PROVE  CarriedOK(m)'
BY DEF CarriedOK

LEMMA JobsGained ==
  ASSUME SessionInv, NEW m, NEW t \in Turns, jobs' = Append(jobs, NewJob(t)),
         NEW n, n = Len(jobs) + 1,
         \A v \in Workers : worker'[v].at = "absorbed" => worker'[v] = worker[v]
  PROVE  /\ Sent' = Sent \cup Asks(t)
         /\ JobHas(n, m)' <=> m \in Asks(t)
         /\ \A k : k # n /\ (HandedOn(k)' <=> HandedOn(k)) => (JobHas(k, m)' <=> JobHas(k, m))
         /\ ~ JobHas(n, m)
<1>1. /\ JobsKept /\ DOMAIN jobs' = DOMAIN jobs \cup {n} /\ n \notin DOMAIN jobs
      /\ jobs'[n] = NewJob(t) /\ \A j \in DOMAIN jobs : jobs'[j] = jobs[j]
  BY JobsAppended DEF SessionInv
<1>2. Covered(n)' = Asks(t) /\ jobs'[n].status = "pending"
  BY <1>1 DEF Covered, Asks, NewJob
<1>3. \A j \in DOMAIN jobs : Covered(j)' = Covered(j)
  BY <1>1, CoveredKept
<1>4. Sent' = Sent \cup Asks(t)
  <2>1. Sent' = UNION {Covered(j)' : j \in DOMAIN jobs'}
    BY DEF Sent, Ids
  <2>2. Sent = UNION {Covered(j) : j \in DOMAIN jobs}
    BY DEF Sent, Ids
  <2> QED
    BY <1>1, <1>2, <1>3, <2>1, <2>2
<1>5. ~ HandedOn(n)'
  <2>1. \A v \in Workers : worker[v].at = "absorbed" => worker[v].job \in DOMAIN jobs
    BY DEF SessionInv, Placed
  <2>2. \A v \in Workers : worker'[v].at = "absorbed" => worker'[v].job # n
    BY <1>1, <2>1
  <2>3. HandedOn(n)' <=> \E v \in Workers : worker'[v].job = n /\ worker'[v].at = "absorbed"
    BY DEF HandedOn, Has
  <2> QED
    BY <2>2, <2>3
<1>6. JobHas(n, m)' <=> m \in Asks(t)
  <2>1. JobHas(n, m)' <=> /\ n \in DOMAIN jobs' /\ m \in Covered(n)'
                          /\ jobs'[n].status \in {"pending", "processing"}
                          /\ ~ HandedOn(n)'
    BY DEF JobHas, ByJob, Ids
  <2> QED
    BY <1>1, <1>2, <1>5, <2>1
<1>7. ~ JobHas(n, m)
  BY <1>1, JobHasIs
<1>8. \A k : k # n /\ (HandedOn(k)' <=> HandedOn(k)) => (JobHas(k, m)' <=> JobHas(k, m))
  BY <1>1, JobHasKept
<1> QED
  BY <1>4, <1>6, <1>7, <1>8

LEMMA ElsewhereKept ==
  ASSUME SessionInv, NEW m, UNCHANGED <<slot, boxes, worker>>, JobsKept
  PROVE  /\ \A x, i : InjectedHas(x, i, m)' <=> InjectedHas(x, i, m)
         /\ \A x, i : ConsumedHas(x, i, m)' <=> ConsumedHas(x, i, m)
         /\ \A i : ParkedHas(i, m)' <=> ParkedHas(i, m)
         /\ \A x, i : TodoHas(x, i, m)' <=> TodoHas(x, i, m)
         /\ \A x : OverHas(x, m)' <=> OverHas(x, m)
         /\ \A kind, x : Spent(kind, x)' <=> Spent(kind, x)
         /\ \A k : HandedOn(k)' <=> HandedOn(k)
<1>1. \A x : x \in Workers /\ worker[x].at \in {"release", "seal"} => worker[x].job \in DOMAIN jobs
  BY DEF SessionInv, Placed
<1>2. \A x : OverHas(x, m)' <=> OverHas(x, m)
  BY <1>1, CoveredKept DEF OverHas
<1> QED
  BY <1>2 DEF InjectedHas, ConsumedHas, ParkedHas, TodoHas, Spent, HandedOn, Has, Asks

LEMMA SubmitCarries ==
  ASSUME SessionAssumption, SessionInv, CarryInv, NEW m \in Msgs, NEW n \in Msgs, Submit(n)
  PROVE  CarriedOK(m)'
<1> DEFINE t == Turn(n, {})
<1>0. PICK j : j = Len(jobs) + 1
  OBVIOUS
<1>1. SessionTypeOK /\ CarriedOK(m) /\ t \in Turns /\ Asks(t) = {n}
      /\ jobs' = Append(jobs, NewJob(t))
      /\ UNCHANGED <<slot, boxes, worker, settled, expiries, cancels>>
  BY TurnsTyped DEF SessionInv, CarryInv, Submit, Asks, Turn
<1>2. JobsKept
  BY <1>1, JobsAppended
<1>3. /\ Sent' = Sent \cup {n}
      /\ JobHas(j, m)' <=> m = n
      /\ \A k : k # j => (JobHas(k, m)' <=> JobHas(k, m))
      /\ ~ JobHas(j, m)
  BY <1>0, <1>1, <1>2, JobsGained, ElsewhereKept
<1>4. n \notin Sent
  BY DEF Submit, Sent
<1> HIDE DEF t
<1>5. \A kind, x : Spent(kind, x)' <=> Spent(kind, x)
  BY <1>1, <1>2, ElsewhereKept
<1>6. CASE m # n
  <2>1. \A x : JobHas(x, m)' <=> JobHas(x, m)
    BY <1>3, <1>6
  <2>2. \A kind, x, i : Holds(kind, x, i, m)' <=> Holds(kind, x, i, m)
    BY <1>1, <1>2, <2>1, ElsewhereKept, HoldsKept
  <2>3. m \in Sent' <=> m \in Sent
    BY <1>3, <1>6
  <2> QED
    BY <1>1, <1>5, <2>2, <2>3, Untouched
<1>7. CASE m = n
  <2>1. m \notin settled /\ \A kind, x, i : ~ Holds(kind, x, i, m)
    BY <1>1, <1>4, <1>7 DEF CarriedOK
  <2>2. \A kind, x, i : Holds(kind, x, i, m)' <=> kind = "job" /\ x = j /\ i = 0
    BY <1>1, <1>2, <1>3, <1>7, <2>1, ElsewhereKept DEF Holds
  <2>3. m \in Sent' /\ m \notin settled'
    BY <1>1, <1>3, <1>7, <2>1
  <2> QED
    BY <2>2, <2>3 DEF CarriedOK
<1> QED
  BY <1>6, <1>7

LEMMA ExpireCarries ==
  ASSUME SessionInv, CarryInv, NEW m \in Msgs, NEW j \in DOMAIN jobs, Expire(j)
  PROVE  CarriedOK(m)'
<1>1. SessionTypeOK /\ CarriedOK(m) /\ jobs[j].status = "processing"
      /\ jobs' = [jobs EXCEPT ![j].status = "pending"] /\ expiries' = expiries + 1
      /\ UNCHANGED <<slot, boxes, worker, settled, cancels>>
  BY DEF SessionInv, CarryInv, Expire
<1>2. /\ JobsKept /\ DOMAIN jobs' = DOMAIN jobs /\ jobs'[j].status = "pending"
      /\ \A k \in DOMAIN jobs : k # j => jobs'[k] = jobs[k]
  BY <1>1, JobsRestated DEF Statuses
<1>3. \A k : JobHas(k, m)' <=> JobHas(k, m)
  BY <1>1, <1>2, ElsewhereKept, JobHasKept
<1>4. \A kind, x, i : Holds(kind, x, i, m)' <=> Holds(kind, x, i, m)
  BY <1>1, <1>2, <1>3, ElsewhereKept, HoldsKept
<1>5. \A kind, x : Spent(kind, x)' <=> Spent(kind, x)
  BY <1>1, <1>2, ElsewhereKept
<1>6. expiries' # 0
  BY <1>1 DEF SessionTypeOK
<1>7. m \in Sent' <=> m \in Sent
  BY <1>2, SentGrows
<1> QED
  BY <1>1, <1>4, <1>5, <1>6, <1>7, Untouched

LEMMA CancelCarries ==
  ASSUME SessionInv, CarryInv, NEW m \in Msgs, NEW j \in DOMAIN jobs, Cancel(j)
  PROVE  CarriedOK(m)'
<1>1. SessionTypeOK /\ CarriedOK(m)
      /\ jobs' = [jobs EXCEPT ![j].status = "cancelled"]
      /\ settled' = settled \cup Covered(j) /\ cancels' = cancels + 1
      /\ UNCHANGED <<slot, boxes, worker, expiries>>
  BY DEF SessionInv, CarryInv, Cancel
<1>2. /\ JobsKept /\ DOMAIN jobs' = DOMAIN jobs /\ jobs'[j].status = "cancelled"
      /\ \A k \in DOMAIN jobs : k # j => jobs'[k] = jobs[k]
  BY <1>1, JobsRestated DEF Statuses
<1>3. cancels' # 0 /\ Sent' = Sent
  BY <1>1, <1>2, SentGrows DEF SessionTypeOK
<1>4. CASE m \in Covered(j)
  <2>1. m \in Sent
    BY <1>4 DEF Sent, Ids
  <2> QED
    BY <1>1, <1>3, <1>4, <2>1, Aside
<1>5. CASE m \notin Covered(j)
  <2>1. \A k : JobHas(k, m)' <=> JobHas(k, m)
    <3> SUFFICES ASSUME NEW k PROVE JobHas(k, m)' <=> JobHas(k, m)
      OBVIOUS
    <3>1. CASE k = j
      <4>1. ~ JobHas(j, m)
        BY <1>5, JobHasIs
      <4>2. ~ JobHas(j, m)'
        BY <1>2 DEF JobHas, ByJob
      <4> QED
        BY <3>1, <4>1, <4>2
    <3>2. CASE k # j
      <4>1. HandedOn(k)' <=> HandedOn(k)
        BY <1>1, <1>2, ElsewhereKept
      <4> QED
        BY <1>2, <3>2, <4>1, JobHasKept
    <3> QED
      BY <3>1, <3>2
  <2>2. \A kind, x, i : Holds(kind, x, i, m)' <=> Holds(kind, x, i, m)
    BY <1>1, <1>2, <2>1, ElsewhereKept, HoldsKept
  <2>3. \A kind, x : Spent(kind, x)' <=> Spent(kind, x)
    BY <1>1, <1>2, ElsewhereKept
  <2>4. m \in settled' <=> m \in settled
    BY <1>1, <1>5
  <2> QED
    BY <1>1, <1>3, <2>2, <2>3, <2>4, Untouched
<1> QED
  BY <1>4, <1>5

(* A step that moves the turns of one sequence, in their order, to another.  *)
ShiftsTo(m, k1, x1, k2, x2, d) ==
  \A kind, x, i : Holds(kind, x, i, m)' =>
    \/ Holds(kind, x, i, m) /\ ~ (kind = k1 /\ x = x1)
    \/ kind = k2 /\ x = x2 /\ i \in Nat /\ Holds(k1, x1, i - d, m)

LEMMA Shifted ==
  ASSUME NEW m, CarriedOK(m), NEW k1, NEW x1, NEW k2, NEW x2, NEW d \in Nat,
         k1 # "consumed",
         ShiftsTo(m, k1, x1, k2, x2, d),
         (\E kind, x, i : Holds(kind, x, i, m)) => \E kind, x, i : Holds(kind, x, i, m)',
         m \in Sent' <=> m \in Sent, m \in settled' <=> m \in settled,
         expiries' = 0 => expiries = 0, cancels' = 0 => cancels = 0,
         \A kind, x : Spent(kind, x) => Spent(kind, x)'
  PROVE  CarriedOK(m)'
<1>1. m \notin Sent' => m \notin settled' /\ \A kind, x, i : ~ Holds(kind, x, i, m)'
  BY DEF CarriedOK, ShiftsTo
<1>2. m \in Sent' \ settled' => \E kind, x, i : Holds(kind, x, i, m)'
  BY DEF CarriedOK
<1>3. ASSUME m \in Sent' \ settled', expiries' = 0
      PROVE  \A ka, xa, ia, kb, xb, ib :
               Holds(ka, xa, ia, m)' /\ Holds(kb, xb, ib, m)' => ka = kb /\ xa = xb /\ ia = ib
  <2>1. \A ka, xa, ia, kb, xb, ib :
          Holds(ka, xa, ia, m) /\ Holds(kb, xb, ib, m) => ka = kb /\ xa = xb /\ ia = ib
    BY <1>3 DEF CarriedOK
  <2> SUFFICES ASSUME NEW ka, NEW xa, NEW ia, NEW kb, NEW xb, NEW ib,
                      Holds(ka, xa, ia, m)', Holds(kb, xb, ib, m)'
               PROVE  ka = kb /\ xa = xb /\ ia = ib
    OBVIOUS
  <2>2. CASE Holds(ka, xa, ia, m) /\ ~ (ka = k1 /\ xa = x1)
    BY <2>1, <2>2 DEF ShiftsTo
  <2>3. CASE ~ (Holds(ka, xa, ia, m) /\ ~ (ka = k1 /\ xa = x1))
    <3>1. ka = k2 /\ xa = x2 /\ ia \in Nat /\ Holds(k1, x1, ia - d, m)
      BY <2>3 DEF ShiftsTo
    <3>2. kb = k2 /\ xb = x2 /\ ib \in Nat /\ Holds(k1, x1, ib - d, m)
      BY <2>1, <3>1 DEF ShiftsTo
    <3>3. ia - d = ib - d
      BY <2>1, <3>1, <3>2
    <3> QED
      BY <3>1, <3>2, <3>3
  <2> QED
    BY <2>2, <2>3
<1>4. m \in settled' /\ expiries' = 0 /\ cancels' = 0 =>
        \A kind, x, i : Holds(kind, x, i, m)' => Spent(kind, x)'
  <2>1. ~ Spent(k1, x1)
    BY DEF Spent
  <2> QED
    BY <2>1 DEF CarriedOK, ShiftsTo
<1> QED
  BY <1>1, <1>2, <1>3, <1>4 DEF CarriedOK

LEMMA HeldInConcat ==
  ASSUME NEW m, NEW s \in Seq(Turns), NEW r \in Seq(Turns)
  PROVE  \A i : i \in DOMAIN (s \o r) /\ m \in Asks((s \o r)[i])
           <=> \/ i \in DOMAIN s /\ m \in Asks(s[i])
               \/ i \in Nat /\ i - Len(s) \in DOMAIN r /\ m \in Asks(r[i - Len(s)])
<1>1. /\ DOMAIN (s \o r) = 1 .. Len(s) + Len(r)
      /\ DOMAIN s = 1 .. Len(s) /\ DOMAIN r = 1 .. Len(r)
      /\ Len(s) \in Nat /\ Len(r) \in Nat
      /\ \A i \in 1 .. Len(s) : (s \o r)[i] = s[i]
      /\ \A i \in 1 .. Len(r) : (s \o r)[Len(s) + i] = r[i]
  OBVIOUS
<1> SUFFICES ASSUME NEW i
             PROVE  i \in 1 .. Len(s) + Len(r) /\ m \in Asks((s \o r)[i])
                      <=> \/ i \in 1 .. Len(s) /\ m \in Asks(s[i])
                          \/ i \in Nat /\ i - Len(s) \in 1 .. Len(r) /\ m \in Asks(r[i - Len(s)])
  BY <1>1
<1>2. CASE i \in 1 .. Len(s)
  <2>1. i \in 1 .. Len(s) + Len(r) /\ (s \o r)[i] = s[i] /\ i - Len(s) \notin 1 .. Len(r)
    BY <1>1, <1>2
  <2> QED
    BY <1>2, <2>1
<1>3. CASE i \in Nat /\ i - Len(s) \in 1 .. Len(r)
  <2>0. Len(s) \in Nat /\ Len(r) \in Nat
    BY <1>1
  <2>1. i \in 1 .. Len(s) + Len(r) /\ i \notin 1 .. Len(s) /\ Len(s) + (i - Len(s)) = i
    BY <1>3, <2>0
  <2>2. (s \o r)[i] = r[i - Len(s)]
    <3>1. (s \o r)[Len(s) + (i - Len(s))] = r[i - Len(s)]
      BY <1>1, <1>3
    <3> QED
      BY <2>1, <3>1
  <2> QED
    BY <1>3, <2>1, <2>2
<1>4. CASE i \notin 1 .. Len(s) /\ ~ (i \in Nat /\ i - Len(s) \in 1 .. Len(r))
  <2>1. i \notin 1 .. Len(s) + Len(r)
    BY <1>1, <1>4
  <2> QED
    BY <1>4, <2>1
<1> QED
  BY <1>2, <1>3, <1>4

LEMMA DrainCarries ==
  ASSUME SessionInv, CarryInv, NEW m \in Msgs, NEW w \in Workers, Drain(w)
  PROVE  CarriedOK(m)'
<1>0. PICK b, s, r, d : /\ b = worker[w].box /\ s = boxes[b].consumed
                        /\ r = boxes[b].injected /\ d = Len(s)
  OBVIOUS
<1>1. /\ SessionTypeOK /\ CarriedOK(m)
      /\ b \in DOMAIN boxes
      /\ s \in Seq(Turns) /\ r \in Seq(Turns)
      /\ UNCHANGED <<jobs, slot, worker, settled, expiries, cancels>>
  <2>1. SessionTypeOK /\ CarriedOK(m) /\ b \in DOMAIN boxes
    BY <1>0 DEF SessionInv, CarryInv, Placed, Drain, HasBox
  <2> QED
    BY <1>0, <2>1, BoxesTyped DEF Drain
<1>2. /\ DOMAIN boxes' = DOMAIN boxes
      /\ boxes'[b].injected = <<>> /\ boxes'[b].consumed = s \o r
      /\ \A k \in DOMAIN boxes : k # b => boxes'[k] = boxes[k]
  BY <1>0, DrainKeeps
<1>3. d \in Nat
  BY <1>0, <1>1
<1>4. \A x, i : InjectedHas(x, i, m)' <=> InjectedHas(x, i, m) /\ x # b
  BY <1>2 DEF InjectedHas, Asks
<1>5. \A x, i : ConsumedHas(x, i, m)' <=>
                  \/ ConsumedHas(x, i, m)
                  \/ x = b /\ i \in Nat /\ InjectedHas(b, i - d, m)
  <2> SUFFICES ASSUME NEW x, NEW i
               PROVE  ConsumedHas(x, i, m)' <=>
                        \/ ConsumedHas(x, i, m)
                        \/ x = b /\ i \in Nat /\ InjectedHas(b, i - d, m)
    OBVIOUS
  <2>1. CASE x # b
    BY <1>2, <2>1 DEF ConsumedHas, Asks
  <2>2. CASE x = b
    <3>1. ConsumedHas(b, i, m)' <=> i \in DOMAIN (s \o r) /\ m \in Asks((s \o r)[i])
      BY <1>1, <1>2 DEF ConsumedHas, Asks
    <3>2. ConsumedHas(b, i, m) <=> i \in DOMAIN s /\ m \in Asks(s[i])
      BY <1>0, <1>1 DEF ConsumedHas
    <3>3. InjectedHas(b, i - d, m) <=> i - d \in DOMAIN r /\ m \in Asks(r[i - d])
      BY <1>0, <1>1 DEF InjectedHas
    <3> QED
      BY <1>0, <1>1, <2>2, <3>1, <3>2, <3>3, HeldInConcat
  <2> QED
    BY <2>1, <2>2
<1>6. /\ \A j : JobHas(j, m)' <=> JobHas(j, m)
      /\ \A i : ParkedHas(i, m)' <=> ParkedHas(i, m)
      /\ \A x, i : TodoHas(x, i, m)' <=> TodoHas(x, i, m)
      /\ \A x : OverHas(x, m)' <=> OverHas(x, m)
      /\ \A kind, x : Spent(kind, x)' <=> Spent(kind, x)
      /\ Sent' = Sent
  BY <1>1 DEF JobHas, ByJob, HandedOn, Has, Covered, ParkedHas, TodoHas, OverHas, Asks, Spent, Sent, Ids
<1>7. ShiftsTo(m, "injected", b, "consumed", b, d)
  BY <1>4, <1>5, <1>6 DEF Holds, ShiftsTo
<1>8. ASSUME NEW kind, NEW x, NEW i, Holds(kind, x, i, m)
      PROVE  \E ka, xa, ia : Holds(ka, xa, ia, m)'
  <2>1. CASE kind = "injected" /\ x = b
    <3>1. InjectedHas(b, i, m) /\ i \in DOMAIN r
      BY <1>0, <1>8, <2>1 DEF Holds, InjectedHas
    <3>2. i \in Nat /\ i + d \in Nat /\ (i + d) - d = i
      BY <1>1, <1>3, <3>1
    <3>3. ConsumedHas(b, i + d, m)'
      BY <1>5, <3>1, <3>2
    <3> QED
      BY <3>3 DEF Holds
  <2>2. CASE ~ (kind = "injected" /\ x = b)
    <3>1. Holds(kind, x, i, m)'
      BY <1>4, <1>5, <1>6, <1>8, <2>2 DEF Holds
    <3> QED
      BY <3>1
  <2> QED
    BY <2>1, <2>2
<1>9. (\E kind, x, i : Holds(kind, x, i, m)) => \E kind, x, i : Holds(kind, x, i, m)'
  BY <1>8
<1>10. \A kind, x : Spent(kind, x) => Spent(kind, x)'
  BY <1>6
<1>11. m \in Sent' <=> m \in Sent
  BY <1>6
<1>12. /\ CarriedOK(m) /\ (m \in settled' <=> m \in settled)
       /\ (expiries' = 0 => expiries = 0) /\ (cancels' = 0 => cancels = 0)
  BY <1>1
<1> QED
  BY <1>3, <1>7, <1>9, <1>10, <1>11, <1>12, Shifted

LEMMA ReleaseCarries ==
  ASSUME SessionInv, CarryInv, NEW m \in Msgs, NEW w \in Workers, Release(w)
  PROVE  CarriedOK(m)'
<1>1. /\ SessionTypeOK /\ CarriedOK(m) /\ EndsSane(w) /\ worker[w].at = "release"
      /\ UNCHANGED <<jobs, boxes, settled, expiries, cancels>>
  BY DEF SessionInv, CarryInv, Release, Has
<1>2. /\ slot # Nil /\ slot' = Nil /\ Alone(w)
      /\ worker'[w].at = "seal" /\ worker'[w].todo = slot.parked
      /\ worker'[w].job = worker[w].job /\ worker'[w].box = worker[w].box
      /\ worker'[w].end = worker[w].end /\ worker'[w].commit = worker[w].commit
  BY ReleaseMoves
<1>3. worker[w].todo = <<>> /\ slot.parked \in Seq(Turns)
  BY <1>1, <1>2, SlotTyped DEF EndsSane
<1>4. /\ JobsKept /\ \A j : JobHas(j, m)' <=> JobHas(j, m)
  BY <1>1, <1>2, JobsHaveStill
<1>5. /\ \A x, i : InjectedHas(x, i, m)' <=> InjectedHas(x, i, m)
      /\ \A x, i : ConsumedHas(x, i, m)' <=> ConsumedHas(x, i, m)
      /\ Sent' = Sent
  BY <1>1 DEF InjectedHas, ConsumedHas, Asks, Sent, Ids, Covered
<1>6. /\ \A i : ~ ParkedHas(i, m)'
      /\ \A i : ~ TodoHas(w, i, m)
      /\ \A i : TodoHas(w, i, m)' <=> ParkedHas(i, m)
      /\ OverHas(w, m)' <=> OverHas(w, m)
  BY <1>1, <1>2, <1>3 DEF ParkedHas, TodoHas, OverHas, Covered, Asks
<1>7. \A v : v # w => /\ \A i : TodoHas(v, i, m)' <=> TodoHas(v, i, m)
                      /\ OverHas(v, m)' <=> OverHas(v, m)
  BY <1>2, <1>4, OthersInHandKept
<1>8. \A kind, x : Spent(kind, x) => Spent(kind, x)'
  BY <1>2, SpentKept
<1>9. \A i : ParkedHas(i, m) => i \in Nat /\ i - 0 = i
  BY <1>3 DEF ParkedHas
<1>10. ShiftsTo(m, "parked", 0, "todo", w, 0)
  BY <1>4, <1>5, <1>6, <1>7, <1>9 DEF Holds, ShiftsTo
<1>11. ASSUME NEW kind, NEW x, NEW i, Holds(kind, x, i, m)
       PROVE  \E ka, xa, ia : Holds(ka, xa, ia, m)'
  <2>1. CASE kind = "parked"
    <3>1. Holds("todo", w, i, m)'
      BY <1>6, <1>11, <2>1 DEF Holds
    <3> QED
      BY <3>1
  <2>2. CASE kind # "parked"
    <3>1. Holds(kind, x, i, m)'
      BY <1>4, <1>5, <1>6, <1>7, <1>11, <2>2 DEF Holds
    <3> QED
      BY <3>1
  <2> QED
    BY <2>1, <2>2
<1> QED
  BY <1>1, <1>5, <1>8, <1>10, <1>11, Shifted

(* Without a time-out, the job of a worker that has not handed its message   *)
(* on still has it, unless it was withdrawn.                                 *)
LEMMA StillCarries ==
  ASSUME SessionInv, CarryInv, NEW m, NEW w \in Workers, Before(w), worker[w].at # "absorbed",
         expiries = 0, NEW j, j = worker[w].job, m \in Covered(j)
  PROVE  JobHas(j, m) \/ (m \in settled /\ cancels # 0)
<1>1. SessionTypeOK /\ j \in DOMAIN jobs
  BY DEF SessionInv, Placed, Before
<1>2. ~ HandedOn(j)
  <2>1. \A v \in Workers : worker[v].at = "absorbed" => worker[v].job # j
    BY DEF SessionInv, JobsRunOnce, Before
  <2> QED
    BY <2>1 DEF HandedOn, Has
<1>3. jobs[j].status \in {"processing", "cancelled"}
  BY DEF SessionInv, JobsRunOnce
<1>4. jobs[j].status = "cancelled" => m \in settled /\ cancels # 0
  BY <1>1 DEF CarryInv, WithdrawnSettled, SessionTypeOK
<1>5. jobs[j].status = "processing" => JobHas(j, m)
  BY <1>1, <1>2, JobHasIs
<1> QED
  BY <1>3, <1>4, <1>5

(* A worker hands the message of its job on.                                 *)
LEMMA JobsHandedOn ==
  ASSUME SessionInv, CarryInv, NEW m, NEW w \in Workers, Alone(w), UNCHANGED jobs,
         worker[w].at \in {"push", "park"}, worker'[w].at = "absorbed",
         worker'[w].job = worker[w].job
  PROVE  /\ JobsKept /\ worker[w].job \in DOMAIN jobs
         /\ \A k : JobHas(k, m)' <=> JobHas(k, m) /\ k # worker[w].job
         /\ JobHas(worker[w].job, m) => m \in Covered(worker[w].job)
         /\ expiries = 0 /\ m \in Covered(worker[w].job)
              => JobHas(worker[w].job, m) \/ (m \in settled /\ cancels # 0)
<1>0. PICK j : j = worker[w].job
  OBVIOUS
<1>1. SessionTypeOK /\ JobsKept /\ j \in DOMAIN jobs
  BY <1>0, JobsSame DEF SessionInv, Placed
<1>2. \A k : k # j => (HandedOn(k)' <=> HandedOn(k))
  BY <1>0, HandedKept
<1>3. HandedOn(j)'
  BY <1>0 DEF HandedOn, Has
<1>4. ~ JobHas(j, m)'
  BY <1>3 DEF JobHas, ByJob
<1>5. \A k : k # j => (JobHas(k, m)' <=> JobHas(k, m))
  BY <1>1, <1>2, JobHasKept
<1>6. JobHas(j, m) => m \in Covered(j)
  BY JobHasIs
<1>7. expiries = 0 /\ m \in Covered(j) => JobHas(j, m) \/ (m \in settled /\ cancels # 0)
  BY <1>0, StillCarries DEF Before
<1> QED
  BY <1>0, <1>1, <1>4, <1>5, <1>6, <1>7

HandsTo(w, m, k2, x2, i2) ==
  \A kind, x, i : Holds(kind, x, i, m)' <=>
    \/ kind = "job" /\ i = 0 /\ JobHas(x, m)'
    \/ kind # "job" /\ Holds(kind, x, i, m)
    \/ kind = k2 /\ x = x2 /\ i = i2 /\ m \in Covered(worker[w].job)

LEMMA HandedTo ==
  ASSUME SessionInv, CarryInv, NEW m \in Msgs, NEW w \in Workers, Alone(w),
         UNCHANGED <<jobs, settled, expiries, cancels>>,
         worker[w].at \in {"push", "park"}, worker'[w].at = "absorbed",
         worker'[w].job = worker[w].job,
         NEW k2, NEW x2, NEW i2, k2 # "job",
         HandsTo(w, m, k2, x2, i2)
  PROVE  CarriedOK(m)'
<1>0. PICK j : j = worker[w].job
  OBVIOUS
<1>1. /\ CarriedOK(m) /\ JobsKept /\ j \in DOMAIN jobs
      /\ \A k : JobHas(k, m)' <=> JobHas(k, m) /\ k # j
      /\ JobHas(j, m) => m \in Covered(j)
      /\ expiries = 0 /\ m \in Covered(j) => JobHas(j, m) \/ (m \in settled /\ cancels # 0)
  BY <1>0, JobsHandedOn DEF CarryInv
<1>2. Sent' = Sent
  BY <1>1, SentGrows
<1>3. \A kind, x : Spent(kind, x) => Spent(kind, x)'
  BY SpentKept
<1>6. \A kind, x, i : Holds(kind, x, i, m) <=>
        \/ kind = "job" /\ i = 0 /\ JobHas(x, m)
        \/ kind # "job" /\ Holds(kind, x, i, m)
  BY DEF Holds
<1>4. CASE m \notin Covered(j)
  <2>1. \A k : JobHas(k, m)' <=> JobHas(k, m)
    BY <1>1, <1>4
  <2>2. \A kind, x, i : Holds(kind, x, i, m)' <=> Holds(kind, x, i, m)
    BY <1>0, <1>4, <1>6, <2>1 DEF HandsTo
  <2> QED
    BY <1>1, <1>2, <1>3, <2>2, Untouched
<1>5. CASE m \in Covered(j)
  <2>1. m \in Sent' /\ Holds(k2, x2, i2, m)'
    BY <1>0, <1>1, <1>2, <1>5 DEF Sent, Ids, HandsTo
  <2>2. CASE expiries = 0 /\ m \in settled /\ cancels # 0
    BY <2>1, <2>2, Aside
  <2>3. CASE ~ (expiries = 0 /\ m \in settled /\ cancels # 0)
    <3>1. ASSUME expiries = 0
          PROVE  \E k1, x1, i1 :
                   /\ Holds(k1, x1, i1, m) /\ ~ Spent(k1, x1)
                   /\ \A kind, x, i :
                        Holds(kind, x, i, m)' =>
                          \/ kind = k2 /\ x = x2 /\ i = i2
                          \/ Holds(kind, x, i, m) /\ ~ (kind = k1 /\ x = x1 /\ i = i1)
      <4>1. JobHas(j, m)
        BY <1>1, <1>5, <2>3, <3>1
      <4>2. Holds("job", j, 0, m) /\ ~ Spent("job", j)
        BY <4>1 DEF Holds, Spent
      <4>3. \A kind, x, i : Holds(kind, x, i, m)' =>
              \/ kind = k2 /\ x = x2 /\ i = i2
              \/ Holds(kind, x, i, m) /\ ~ (kind = "job" /\ x = j /\ i = 0)
        BY <1>1, <1>6 DEF HandsTo
      <4> QED
        BY <4>2, <4>3
    <3> QED
      BY <1>1, <2>1, <3>1, Moved
  <2> QED
    BY <2>2, <2>3
<1> QED
  BY <1>4, <1>5

LEMMA HeldInAppend ==
  ASSUME NEW m, NEW s \in Seq(Turns), NEW t \in Turns
  PROVE  \A i : i \in DOMAIN Append(s, t) /\ m \in Asks(Append(s, t)[i])
           <=> \/ i \in DOMAIN s /\ m \in Asks(s[i])
               \/ i = Len(s) + 1 /\ m \in Asks(t)
<1>1. /\ DOMAIN s = 1 .. Len(s) /\ Len(s) \in Nat
      /\ DOMAIN Append(s, t) = 1 .. Len(s) + 1
      /\ \A i \in 1 .. Len(s) : Append(s, t)[i] = s[i]
      /\ Append(s, t)[Len(s) + 1] = t
  BY AppendFacts
<1>2. \A i : i \in 1 .. Len(s) + 1 <=> i \in 1 .. Len(s) \/ i = Len(s) + 1
  BY <1>1
<1> QED
  BY <1>1, <1>2

LEMMA PushCarries ==
  ASSUME SessionInv, CarryInv, NEW m \in Msgs, NEW w \in Workers, Push(w)
  PROVE  CarriedOK(m)'
<1>0. PICK b, s : b = worker[w].box /\ s = boxes[b].injected
  OBVIOUS
<1>1. /\ SessionTypeOK /\ worker[w].at = "push" /\ b \in DOMAIN boxes
      /\ UNCHANGED <<jobs, slot, settled, expiries, cancels>>
  BY <1>0 DEF SessionInv, Push, Has, Placed
<1>2. CASE boxes[b].sealed
  BY <1>0, <1>1, <1>2, MissCarries DEF Push
<1>3. CASE ~ boxes[b].sealed
  <2>1. /\ boxes' = [boxes EXCEPT ![b].injected = Append(@, TurnOf(w))]
        /\ Goes(w, "absorbed")
    BY <1>0, <1>3 DEF Push
  <2>2. /\ Alone(w) /\ worker'[w].at = "absorbed" /\ worker'[w].job = worker[w].job
        /\ worker'[w].todo = worker[w].todo
    BY <1>1, <2>1, WorkerGoes DEF Places
  <2>3. TurnOf(w) \in Turns /\ Asks(TurnOf(w)) = Covered(worker[w].job)
    BY <1>1, TurnOfTyped
  <2>4. s \in Seq(Turns) /\ boxes[b] \in BoxRecords
    BY <1>0, <1>1, BoxesTyped
  <2>5. /\ DOMAIN boxes' = DOMAIN boxes
        /\ boxes'[b].injected = Append(s, TurnOf(w)) /\ boxes'[b].consumed = boxes[b].consumed
        /\ \A k \in DOMAIN boxes : k # b => boxes'[k] = boxes[k]
    BY <1>0, <1>1, <2>1, <2>4 DEF BoxRecords
  <2>6. JobsKept
    BY <1>1, JobsSame
  <2>7. \A x, i : InjectedHas(x, i, m)' <=>
                    \/ InjectedHas(x, i, m)
                    \/ x = b /\ i = Len(s) + 1 /\ m \in Covered(worker[w].job)
    <3> SUFFICES ASSUME NEW x, NEW i
                 PROVE  InjectedHas(x, i, m)' <=>
                          \/ InjectedHas(x, i, m)
                          \/ x = b /\ i = Len(s) + 1 /\ m \in Covered(worker[w].job)
      OBVIOUS
    <3>1. CASE x # b
      BY <2>5, <3>1 DEF InjectedHas, Asks
    <3>2. CASE x = b
      <4>1. InjectedHas(b, i, m)' <=>
              i \in DOMAIN Append(s, TurnOf(w)) /\ m \in Asks(Append(s, TurnOf(w))[i])
        BY <1>1, <2>5 DEF InjectedHas, Asks
      <4>2. InjectedHas(b, i, m) <=> i \in DOMAIN s /\ m \in Asks(s[i])
        BY <1>0, <1>1 DEF InjectedHas
      <4> QED
        BY <2>3, <2>4, <3>2, <4>1, <4>2, HeldInAppend
    <3> QED
      BY <3>1, <3>2
  <2>8. /\ \A x, i : ConsumedHas(x, i, m)' <=> ConsumedHas(x, i, m)
        /\ \A i : ParkedHas(i, m)' <=> ParkedHas(i, m)
    BY <1>1, <2>5 DEF ConsumedHas, ParkedHas, Asks
  <2>9. \A x : /\ \A i : TodoHas(x, i, m)' <=> TodoHas(x, i, m)
               /\ OverHas(x, m)' <=> OverHas(x, m)
    <3>1. /\ \A i : TodoHas(w, i, m)' <=> TodoHas(w, i, m)
          /\ OverHas(w, m)' <=> OverHas(w, m)
      BY <1>1, <2>2 DEF TodoHas, OverHas, Asks
    <3> QED
      BY <2>2, <2>6, <3>1, OthersInHandKept
  <2>10. PICK n : n = Len(s) + 1
    OBVIOUS
  <2>11. HandsTo(w, m, "injected", b, n)
    BY <2>7, <2>8, <2>9, <2>10 DEF Holds, HandsTo
  <2> QED
    BY <1>1, <2>2, <2>11, HandedTo
<1> QED
  BY <1>2, <1>3

LEMMA ParkCarries ==
  ASSUME SessionInv, CarryInv, NEW m \in Msgs, NEW w \in Workers, Park(w)
  PROVE  CarriedOK(m)'
<1>1. /\ SessionTypeOK /\ worker[w].at = "park"
      /\ UNCHANGED <<jobs, boxes, settled, expiries, cancels>>
  BY DEF SessionInv, Park, Has
<1>2. CASE ~ StillThere(w)
  BY <1>1, <1>2, MissCarries DEF Park
<1>3. CASE StillThere(w)
  <2>0. PICK s : s = slot.parked
    OBVIOUS
  <2>1. /\ slot' = [slot EXCEPT !.parked = Append(@, TurnOf(w))]
        /\ Goes(w, "absorbed") /\ slot # Nil
    BY <1>3 DEF Park, StillThere
  <2>2. /\ Alone(w) /\ worker'[w].at = "absorbed" /\ worker'[w].job = worker[w].job
        /\ worker'[w].todo = worker[w].todo
    BY <1>1, <2>1, WorkerGoes DEF Places
  <2>3. TurnOf(w) \in Turns /\ Asks(TurnOf(w)) = Covered(worker[w].job)
    BY <1>1, TurnOfTyped
  <2>4. s \in Seq(Turns) /\ slot \in Slots
    BY <1>1, <2>0, <2>1, SlotTyped
  <2>5. slot'.parked = Append(s, TurnOf(w)) /\ slot' # Nil
    <3>1. SessionInv' /\ slot'.parked = Append(s, TurnOf(w)) /\ slot' \in Slots
      <4>1. slot'.parked = Append(s, TurnOf(w)) /\ slot'.parked \in Seq(Turns)
        BY <2>0, <2>1, <2>3, <2>4, AppendFacts DEF Slots
      <4>2. slot' \in Slots
        BY <2>1, <2>4, <4>1 DEF Slots
      <4> QED
        BY <4>1, <4>2, ParkKeeps
    <3> QED
      BY <3>1, NilIsNoSession
  <2>6. JobsKept
    BY <1>1, JobsSame
  <2>7. \A i : ParkedHas(i, m)' <=>
                 ParkedHas(i, m) \/ (i = Len(s) + 1 /\ m \in Covered(worker[w].job))
    <3> SUFFICES ASSUME NEW i
                 PROVE  ParkedHas(i, m)' <=>
                          ParkedHas(i, m) \/ (i = Len(s) + 1 /\ m \in Covered(worker[w].job))
      OBVIOUS
    <3>1. ParkedHas(i, m)' <=>
            i \in DOMAIN Append(s, TurnOf(w)) /\ m \in Asks(Append(s, TurnOf(w))[i])
      BY <2>5 DEF ParkedHas, Asks
    <3>2. ParkedHas(i, m) <=> i \in DOMAIN s /\ m \in Asks(s[i])
      BY <2>0, <2>1 DEF ParkedHas
    <3> QED
      BY <2>3, <2>4, <3>1, <3>2, HeldInAppend
  <2>8. /\ \A x, i : ConsumedHas(x, i, m)' <=> ConsumedHas(x, i, m)
        /\ \A x, i : InjectedHas(x, i, m)' <=> InjectedHas(x, i, m)
    BY <1>1 DEF ConsumedHas, InjectedHas, Asks
  <2>9. \A x : /\ \A i : TodoHas(x, i, m)' <=> TodoHas(x, i, m)
               /\ OverHas(x, m)' <=> OverHas(x, m)
    <3>1. /\ \A i : TodoHas(w, i, m)' <=> TodoHas(w, i, m)
          /\ OverHas(w, m)' <=> OverHas(w, m)
      BY <1>1, <2>2 DEF TodoHas, OverHas, Asks
    <3> QED
      BY <2>2, <2>6, <3>1, OthersInHandKept
  <2>10. PICK n : n = Len(s) + 1
    OBVIOUS
  <2>11. HandsTo(w, m, "parked", 0, n)
    BY <2>7, <2>8, <2>9, <2>10 DEF Holds, HandsTo
  <2> QED
    BY <1>1, <2>2, <2>11, HandedTo
<1> QED
  BY <1>2, <1>3

LEMMA FinalizeCarries ==
  ASSUME SessionInv, CarryInv, NEW m \in Msgs, NEW w \in Workers, Finalize(w)
  PROVE  CarriedOK(m)'
<1>0. PICK j, b : j = worker[w].job /\ b = worker[w].box
  OBVIOUS
<1>1. /\ SessionTypeOK /\ CarriedOK(m) /\ EndsSane(w) /\ worker[w].at = "resolved"
      /\ worker[w].end \in {"complete", "fail", "retry", "over"}
      /\ UNCHANGED <<slot, boxes, expiries, cancels>>
  BY DEF SessionInv, CarryInv, Finalize, Has, Placed
<1>2. /\ JobsKept /\ DOMAIN jobs' = DOMAIN jobs /\ j \in DOMAIN jobs /\ Alone(w)
      /\ \A k \in DOMAIN jobs : k # j => jobs'[k] = jobs[k]
      /\ worker[w].end # "retry" => jobs'[j].status \notin {"pending", "processing"}
      /\ worker[w].end = "retry" =>
           jobs'[j].status = IF jobs[j].status = "cancelled" THEN "cancelled" ELSE "pending"
  BY <1>0, FinalizeMoves
<1>3. /\ b # 0 => /\ worker'[w].at = "release" /\ worker'[w].job = j /\ worker'[w].box = b
                  /\ worker'[w].end = worker[w].end /\ worker'[w].commit = worker[w].commit
                  /\ worker'[w].todo = worker[w].todo
      /\ b = 0 => worker'[w].at = "idle" /\ worker'[w].todo = <<>>
      /\ worker[w].todo = <<>>
  BY <1>0, <1>1, FinalizeMoves DEF Resting, EndsSane
<1>4. /\ worker[w].end = "over" => b # 0 /\ ~ worker[w].commit
      /\ Covered(j)' = Covered(j) /\ Sent' = Sent
      /\ m \in Covered(j) => m \in Sent
  BY <1>0, <1>1, <1>2, CoveredKept, SentGrows DEF EndsSane, Sent, Ids
(* Where the message is held.                                                *)
<1>5. \A k : HandedOn(k)' <=> HandedOn(k)
  BY <1>1, <1>2, <1>3, HandedKept
<1>6. \A k : k # j => (JobHas(k, m)' <=> JobHas(k, m))
  BY <1>2, <1>5, JobHasKept
<1>7. /\ JobHas(j, m)' => m \in Covered(j) /\ worker[w].end = "retry"
      /\ JobHas(j, m) /\ worker[w].end = "retry" => JobHas(j, m)'
      /\ expiries = 0 /\ JobHas(j, m)' => JobHas(j, m)
  <2>1. JobHas(j, m)' <=> /\ j \in DOMAIN jobs' /\ m \in Covered(j)'
                          /\ jobs'[j].status \in {"pending", "processing"}
                          /\ ~ HandedOn(j)'
    BY DEF JobHas, ByJob, Ids
  <2>2. JobHas(j, m) <=> /\ j \in DOMAIN jobs /\ m \in Covered(j)
                         /\ jobs[j].status \in {"pending", "processing"}
                         /\ ~ HandedOn(j)
    BY JobHasIs
  <2>3. expiries = 0 => jobs[j].status \in {"processing", "cancelled"}
    BY <1>0, <1>1 DEF SessionInv, JobsRunOnce, Before
  <2> QED
    BY <1>2, <1>4, <1>5, <2>1, <2>2, <2>3
<1>8. expiries = 0 /\ m \in Covered(j) => JobHas(j, m) \/ (m \in settled /\ cancels # 0)
  BY <1>0, <1>1, StillCarries DEF Before
<1>9. /\ \A x, i : InjectedHas(x, i, m)' <=> InjectedHas(x, i, m)
      /\ \A x, i : ConsumedHas(x, i, m)' <=> ConsumedHas(x, i, m)
      /\ \A i : ParkedHas(i, m)' <=> ParkedHas(i, m)
  BY <1>1 DEF InjectedHas, ConsumedHas, ParkedHas, Asks
<1>10. /\ \A x, i : TodoHas(x, i, m)' <=> TodoHas(x, i, m)
       /\ \A x : x # w => (OverHas(x, m)' <=> OverHas(x, m))
       /\ ~ OverHas(w, m)
       /\ OverHas(w, m)' <=> worker[w].end = "over" /\ m \in Covered(j)
  <2>1. \A v : v # w => /\ \A i : TodoHas(v, i, m)' <=> TodoHas(v, i, m)
                        /\ OverHas(v, m)' <=> OverHas(v, m)
    BY <1>2, OthersInHandKept
  <2>2. \A i : TodoHas(w, i, m)' <=> TodoHas(w, i, m)
    BY <1>3 DEF TodoHas
  <2>3. ~ OverHas(w, m)
    BY <1>1 DEF OverHas
  <2>4. OverHas(w, m)' <=> worker[w].end = "over" /\ m \in Covered(j)
    <3>1. CASE b = 0
      BY <1>3, <1>4, <3>1 DEF OverHas
    <3>2. CASE b # 0
      <4>1. OverHas(w, m)' <=> worker'[w].end = "over" /\ m \in {jobs'[j].msg} \cup jobs'[j].behind
        BY <1>3, <3>2 DEF OverHas, Covered
      <4>2. {jobs'[j].msg} \cup jobs'[j].behind = Covered(j)
        BY <1>4 DEF Covered
      <4> QED
        BY <1>3, <1>4, <3>2, <4>1, <4>2
    <3> QED
      BY <3>1, <3>2
  <2> QED
    BY <2>1, <2>2, <2>3, <2>4
<1>11. /\ \A kind, x, i : Holds(kind, x, i, m)' =>
            \/ Holds(kind, x, i, m) /\ ~ (kind = "job" /\ x = j /\ i = 0)
            \/ kind = "job" /\ x = j /\ i = 0 /\ JobHas(j, m)'
            \/ kind = "over" /\ x = w /\ i = 0 /\ worker[w].end = "over" /\ m \in Covered(j)
       /\ \A kind, x, i : Holds(kind, x, i, m) /\ ~ (kind = "job" /\ x = j /\ i = 0)
            => Holds(kind, x, i, m)'
       /\ JobHas(j, m)' <=> Holds("job", j, 0, m)'
       /\ JobHas(j, m) <=> Holds("job", j, 0, m)
       /\ Holds("over", w, 0, m)' <=> worker[w].end = "over" /\ m \in Covered(j)
  BY <1>6, <1>9, <1>10 DEF Holds
<1>12. \A kind, x : Spent(kind, x) => Spent(kind, x)'
  BY <1>1, <1>2, SpentKept
(* What is settled.                                                          *)
<1>13. /\ settled \subseteq settled'
       /\ worker[w].end \in {"complete", "fail"} => Covered(j) \subseteq settled'
       /\ m \in settled' \ settled =>
            \/ m \in Covered(j) /\ worker[w].end \in {"complete", "fail"}
            \/ worker[w].commit /\ b # 0 /\ m \in AskedIn(boxes[b].consumed)
  <2>1. settled' = settled
          \cup (IF worker[w].end \in {"complete", "fail"} THEN Covered(j) ELSE {})
          \cup (IF worker[w].commit /\ HasBox(w) THEN Messages(Taken(Box(w))) ELSE {})
    BY <1>0 DEF Finalize
  <2>2. Messages(Taken(Box(w))) = AskedIn(boxes[b].consumed)
    BY <1>0 DEF Messages, Taken, AskedIn, Asks, Box
  <2> QED
    BY <1>0, <2>1, <2>2 DEF HasBox
<1>14. CASE m \notin settled' \ settled
  <2>1. m \in settled' <=> m \in settled
    BY <1>13, <1>14
  <2>2. CASE m \notin Covered(j)
    <3>1. \A kind, x, i : Holds(kind, x, i, m)' <=> Holds(kind, x, i, m)
      <4>1. ~ JobHas(j, m)
        BY <2>2, JobHasIs
      <4> QED
        BY <1>7, <1>11, <2>2, <4>1
    <3> QED
      BY <1>1, <1>4, <1>12, <2>1, <3>1, Untouched
  <2>3. CASE m \in Covered(j) /\ worker[w].end \in {"complete", "fail"}
    <3>1. m \in settled /\ m \in settled'
      BY <1>13, <2>1, <2>3
    <3>2. \A kind, x, i : Holds(kind, x, i, m)' => Holds(kind, x, i, m)
      BY <1>7, <1>11, <2>3
    <3> QED
      BY <1>1, <1>4, <1>12, <2>3, <3>1, <3>2 DEF CarriedOK
  <2>4. CASE m \in Covered(j) /\ worker[w].end = "retry"
    <3>1. \A kind, x, i : Holds(kind, x, i, m) => Holds(kind, x, i, m)'
      BY <1>7, <1>11, <2>4
    <3>2. CASE expiries = 0
      <4>1. \A kind, x, i : Holds(kind, x, i, m)' => Holds(kind, x, i, m)
        BY <1>7, <1>11, <2>4, <3>2
      <4> QED
        BY <1>1, <1>4, <1>12, <2>1, <3>1, <4>1, Untouched
    <3>3. CASE expiries # 0
      BY <1>1, <1>4, <2>1, <2>4, <3>1, <3>3 DEF CarriedOK
    <3> QED
      BY <3>2, <3>3
  <2>5. CASE m \in Covered(j) /\ worker[w].end = "over"
    <3>1. Holds("over", w, 0, m)' /\ m \in Sent'
      BY <1>4, <1>11, <2>5
    <3>2. CASE expiries = 0 /\ m \in settled /\ cancels # 0
      BY <1>1, <2>1, <3>1, <3>2, Aside
    <3>3. CASE ~ (expiries = 0 /\ m \in settled /\ cancels # 0)
      <4>1. ASSUME expiries' = 0
            PROVE  \E k1, x1, i1 :
                     /\ Holds(k1, x1, i1, m) /\ ~ Spent(k1, x1)
                     /\ \A kind, x, i :
                          Holds(kind, x, i, m)' =>
                            \/ kind = "over" /\ x = w /\ i = 0
                            \/ Holds(kind, x, i, m) /\ ~ (kind = k1 /\ x = x1 /\ i = i1)
        <5>1. Holds("job", j, 0, m) /\ ~ Spent("job", j)
          BY <1>1, <1>8, <1>11, <2>5, <3>3, <4>1 DEF Spent
        <5>2. \A kind, x, i : Holds(kind, x, i, m)' =>
                \/ kind = "over" /\ x = w /\ i = 0
                \/ Holds(kind, x, i, m) /\ ~ (kind = "job" /\ x = j /\ i = 0)
          BY <1>7, <1>11, <2>5
        <5> QED
          BY <5>1, <5>2
      <4> QED
        BY <1>1, <2>1, <3>1, <4>1, Moved
    <3> QED
      BY <3>2, <3>3
  <2> QED
    BY <1>1, <2>2, <2>3, <2>4, <2>5
<1>15. CASE m \in settled' \ settled
  <2>1. m \in Sent' /\ m \in settled'
    <3>1. CASE m \in Covered(j)
      BY <1>4, <1>15, <3>1
    <3>2. CASE b # 0 /\ m \in AskedIn(boxes[b].consumed)
      <4>1. PICK i : Holds("consumed", b, i, m)
        BY <1>0, <3>2 DEF Holds, ConsumedHas, AskedIn, SessionInv, Placed
      <4> QED
        BY <1>1, <1>4, <1>15, <4>1 DEF CarriedOK
    <3> QED
      BY <1>13, <1>15, <3>1, <3>2
  <2>2. CASE expiries # 0 \/ cancels # 0
    BY <1>1, <2>1, <2>2, Aside
  <2>3. CASE expiries = 0 /\ cancels = 0
    <3>1. \A k1, x1, i1, k2, x2, i2 :
            Holds(k1, x1, i1, m) /\ Holds(k2, x2, i2, m) => k1 = k2 /\ x1 = x2 /\ i1 = i2
      BY <1>1, <1>4, <1>15, <2>1, <2>3 DEF CarriedOK
    <3>2. ASSUME NEW kind, NEW x, NEW i, Holds(kind, x, i, m)'
          PROVE  Spent(kind, x)'
      <4>1. CASE m \in Covered(j)
        <5>1. Holds("job", j, 0, m)
          BY <1>8, <1>11, <1>15, <2>3, <4>1
        <5>2. ~ (Holds(kind, x, i, m) /\ ~ (kind = "job" /\ x = j /\ i = 0))
          BY <3>1, <5>1
        <5>3. CASE worker[w].end \in {"complete", "fail"}
          BY <1>7, <1>11, <3>2, <5>2, <5>3
        <5>4. CASE worker[w].end \notin {"complete", "fail"}
          <6>1. b # 0 /\ m \in AskedIn(boxes[b].consumed)
            BY <1>13, <1>15, <5>4
          <6>2. PICK k : Holds("consumed", b, k, m)
            BY <1>0, <6>1 DEF Holds, ConsumedHas, AskedIn, SessionInv, Placed
          <6> QED
            BY <3>1, <5>1, <6>2
        <5> QED
          BY <5>3, <5>4
      <4>2. CASE m \notin Covered(j)
        <5>1. worker[w].commit /\ b # 0 /\ m \in AskedIn(boxes[b].consumed)
          BY <1>13, <1>15, <4>2
        <5>2. PICK k : Holds("consumed", b, k, m)
          BY <1>0, <5>1 DEF Holds, ConsumedHas, AskedIn, SessionInv, Placed
        <5>3. Holds(kind, x, i, m)
          BY <1>7, <1>11, <3>2, <4>2
        <5>4. kind = "consumed" /\ x = b
          BY <3>1, <5>2, <5>3
        <5> QED
          BY <1>3, <5>1, <5>4 DEF Spent
      <4> QED
        BY <4>1, <4>2
    <3> QED
      BY <2>1, <3>2 DEF CarriedOK
  <2> QED
    BY <2>2, <2>3
<1> QED
  BY <1>14, <1>15

(* A step after which every turn is held where one was, and no two are held  *)
(* where one was.                                                            *)
HoldsOne(m) ==
  \A k1, x1, i1, k2, x2, i2 :
    Holds(k1, x1, i1, m) /\ Holds(k2, x2, i2, m) => k1 = k2 /\ x1 = x2 /\ i1 = i2
HoldsSome(m) == \E kind, x, i : Holds(kind, x, i, m)
HeldBefore(m) ==
  \A kind, x, i : Holds(kind, x, i, m)' =>
    \E ka, xa, ia : Holds(ka, xa, ia, m) /\ (Spent(ka, xa) => Spent(kind, x)')

LEMMA Rearranged ==
  ASSUME NEW m, CarriedOK(m), HeldBefore(m),
         m \notin settled /\ HoldsSome(m) => HoldsSome(m)',
         expiries = 0 /\ HoldsOne(m) => HoldsOne(m)',
         m \in Sent' <=> m \in Sent, m \in settled' <=> m \in settled,
         UNCHANGED <<expiries, cancels>>
  PROVE  CarriedOK(m)'
<1>1. m \notin Sent' => m \notin settled' /\ \A kind, x, i : ~ Holds(kind, x, i, m)'
  BY DEF CarriedOK, HeldBefore
<1>2. m \in Sent' \ settled' => \E kind, x, i : Holds(kind, x, i, m)'
  BY DEF CarriedOK, HoldsSome
<1>3. m \in Sent' \ settled' /\ expiries' = 0 => HoldsOne(m)'
  BY DEF CarriedOK, HoldsOne
<1>4. m \in settled' /\ expiries' = 0 /\ cancels' = 0 =>
        \A kind, x, i : Holds(kind, x, i, m)' => Spent(kind, x)'
  <2> SUFFICES ASSUME m \in settled, expiries = 0, cancels = 0,
                      NEW kind, NEW x, NEW i, Holds(kind, x, i, m)'
               PROVE  Spent(kind, x)'
    OBVIOUS
  <2>1. PICK ka, xa, ia : Holds(ka, xa, ia, m) /\ (Spent(ka, xa) => Spent(kind, x)')
    BY DEF HeldBefore
  <2> QED
    BY <2>1 DEF CarriedOK
<1> QED
  BY <1>1, <1>2, <1>3, <1>4 DEF CarriedOK, HoldsOne

LEMMA RespawnCarries ==
  ASSUME SessionInv, CarryInv, NEW m \in Msgs, NEW w \in Workers, Respawn(w)
  PROVE  CarriedOK(m)'
<1>0. PICK s, n : s = worker[w].todo /\ n = Len(jobs) + 1
  OBVIOUS
<1>1. /\ SessionTypeOK /\ CarriedOK(m) /\ worker[w].at = "respawn" /\ s \in Seq(Turns)
      /\ UNCHANGED <<slot, boxes, settled, expiries, cancels>>
  BY <1>0, RespawnMoves DEF SessionInv, CarryInv, Respawn, Has
<1>2. CASE s = <<>>
  <2>1. worker'[w] = Resting /\ jobs' = jobs /\ Alone(w)
    BY <1>0, <1>2, RespawnMoves
  <2>2. worker'[w].todo = worker[w].todo /\ worker'[w].at = "idle"
    BY <1>0, <1>2, <2>1 DEF Resting
  <2>3. /\ JobsKept /\ \A j : JobHas(j, m)' <=> JobHas(j, m)
    BY <1>1, <2>1, <2>2, JobsHaveStill
  <2>4. \A i : ParkedHas(i, m)' <=> ParkedHas(i, m)
    BY <1>1 DEF ParkedHas, Asks
  <2> QED
    BY <1>1, <2>1, <2>2, <2>3, <2>4, QuietCarries
<1>3. CASE s # <<>>
  <2>1. /\ Alone(w) /\ jobs' = Append(jobs, NewJob(Head(s)))
        /\ worker'[w].at = "respawn" /\ worker'[w].todo = Tail(s)
    BY <1>0, <1>3, RespawnMoves
  <2>2. /\ Head(s) \in Turns /\ Head(s) = s[1]
        /\ DOMAIN s = 1 .. Len(s) /\ Len(s) \in Nat /\ Len(s) > 0
        /\ DOMAIN Tail(s) = 1 .. Len(s) - 1
        /\ \A i \in 1 .. Len(s) - 1 : Tail(s)[i] = s[i + 1]
    BY <1>1, <1>3, AskedInTail
  <2>3. JobsKept
    BY <1>1, <2>1, <2>2, JobsAppended
  <2>4. /\ Sent' = Sent \cup Asks(Head(s))
        /\ JobHas(n, m)' <=> m \in Asks(Head(s))
        /\ \A k : k # n /\ (HandedOn(k)' <=> HandedOn(k)) => (JobHas(k, m)' <=> JobHas(k, m))
        /\ ~ JobHas(n, m)
    <3>1. \A v \in Workers : worker'[v].at = "absorbed" => worker'[v] = worker[v]
      BY <2>1 DEF Alone
    <3> QED
      BY <1>0, <2>1, <2>2, <3>1, JobsGained
  <2>5. \A k : HandedOn(k)' <=> HandedOn(k)
    BY <1>1, <2>1, HandedKept
  <2>6. TodoHas(w, 1, m) <=> m \in Asks(Head(s))
    BY <1>0, <2>2 DEF TodoHas
  <2>7. \A i : TodoHas(w, i, m)' <=> i \in Nat /\ i # 0 /\ TodoHas(w, i + 1, m)
    <3> SUFFICES ASSUME NEW i
                 PROVE  TodoHas(w, i, m)' <=> i \in Nat /\ i # 0 /\ TodoHas(w, i + 1, m)
      OBVIOUS
    <3>1. TodoHas(w, i, m)' <=> i \in 1 .. Len(s) - 1 /\ m \in Asks(Tail(s)[i])
      BY <2>1, <2>2 DEF TodoHas, Asks
    <3>2. TodoHas(w, i + 1, m) <=> i + 1 \in 1 .. Len(s) /\ m \in Asks(s[i + 1])
      BY <1>0, <2>2 DEF TodoHas
    <3>3. i \in 1 .. Len(s) - 1 <=> i \in Nat /\ i # 0 /\ i + 1 \in 1 .. Len(s)
      <4>1. Len(s) \in Nat
        BY <2>2
      <4> QED
        BY <4>1
    <3>4. i \in 1 .. Len(s) - 1 => Tail(s)[i] = s[i + 1]
      BY <2>2
    <3> QED
      BY <3>1, <3>2, <3>3, <3>4
  <2>8. \A v : v # w => /\ \A i : TodoHas(v, i, m)' <=> TodoHas(v, i, m)
                        /\ OverHas(v, m)' <=> OverHas(v, m)
    BY <2>1, <2>3, OthersInHandKept
  <2>9. ~ OverHas(w, m) /\ ~ OverHas(w, m)'
    BY <1>1, <2>1 DEF OverHas
  <2>10. /\ \A x, i : InjectedHas(x, i, m)' <=> InjectedHas(x, i, m)
         /\ \A x, i : ConsumedHas(x, i, m)' <=> ConsumedHas(x, i, m)
         /\ \A i : ParkedHas(i, m)' <=> ParkedHas(i, m)
    BY <1>1 DEF InjectedHas, ConsumedHas, ParkedHas, Asks
  <2>11. \A k : k # n => (JobHas(k, m)' <=> JobHas(k, m))
    BY <2>4, <2>5
  <2>12. /\ ~ Holds("job", n, 0, m)
         /\ \A kind, x, i : Holds(kind, x, i, m)' <=>
              \/ kind = "job" /\ x = n /\ i = 0 /\ Holds("todo", w, 1, m)
              \/ kind = "todo" /\ x = w /\ i \in Nat /\ i # 0 /\ Holds("todo", w, i + 1, m)
              \/ ~ (kind = "todo" /\ x = w) /\ Holds(kind, x, i, m)
    <3>1. ~ Holds("job", n, 0, m)
      BY <2>4 DEF Holds
    <3>2. \A i : Holds("todo", w, i, m) <=> TodoHas(w, i, m)
      BY DEF Holds
    <3> SUFFICES ASSUME NEW kind, NEW x, NEW i
                 PROVE  Holds(kind, x, i, m)' <=>
                          \/ kind = "job" /\ x = n /\ i = 0 /\ Holds("todo", w, 1, m)
                          \/ kind = "todo" /\ x = w /\ i \in Nat /\ i # 0 /\ Holds("todo", w, i + 1, m)
                          \/ ~ (kind = "todo" /\ x = w) /\ Holds(kind, x, i, m)
      BY <3>1
    <3>3. CASE kind = "todo"
      <4>1. Holds(kind, x, i, m)' <=> TodoHas(x, i, m)'
        BY <3>3 DEF Holds
      <4>2. Holds(kind, x, i, m) <=> TodoHas(x, i, m)
        BY <3>3 DEF Holds
      <4> QED
        BY <2>7, <2>8, <3>2, <3>3, <4>1, <4>2
    <3>4. CASE kind = "job"
      <4>1. Holds(kind, x, i, m)' <=> i = 0 /\ JobHas(x, m)'
        BY <3>4 DEF Holds
      <4>2. Holds(kind, x, i, m) <=> i = 0 /\ JobHas(x, m)
        BY <3>4 DEF Holds
      <4> QED
        BY <2>4, <2>6, <2>11, <3>2, <3>4, <4>1, <4>2
    <3>5. CASE kind \notin {"todo", "job"}
      BY <2>8, <2>9, <2>10, <3>5 DEF Holds
    <3> QED
      BY <3>3, <3>4, <3>5
  <2>13. m \in Sent' <=> m \in Sent
    <3>1. m \in Asks(Head(s)) => Holds("todo", w, 1, m)
      BY <2>6 DEF Holds
    <3>2. Holds("todo", w, 1, m) => m \in Sent
      BY <1>1 DEF CarriedOK
    <3> QED
      BY <2>4, <3>1, <3>2
  <2>14. \A kind, x : Spent(kind, x) => Spent(kind, x)'
    BY <1>1, <2>1, SpentKept
  <2>15. ~ Spent("todo", w)
    BY DEF Spent
  <2>16. HeldBefore(m)
    BY <2>12, <2>14, <2>15 DEF HeldBefore
  <2>17. HoldsSome(m) => HoldsSome(m)'
    <3> SUFFICES ASSUME NEW kind, NEW x, NEW i, Holds(kind, x, i, m)
                 PROVE  \E ka, xa, ia : Holds(ka, xa, ia, m)'
      BY DEF HoldsSome
    <3>1. CASE ~ (kind = "todo" /\ x = w)
      BY <2>12, <3>1
    <3>2. CASE kind = "todo" /\ x = w /\ i = 1
      <4>1. Holds("job", n, 0, m)'
        BY <2>12, <3>2
      <4> QED
        BY <4>1
    <3>3. CASE kind = "todo" /\ x = w /\ i # 1
      <4>1. i \in 1 .. Len(s)
        BY <1>0, <2>2, <3>3 DEF Holds, TodoHas
      <4>2. i - 1 \in Nat /\ i - 1 # 0 /\ (i - 1) + 1 = i
        BY <2>2, <3>3, <4>1
      <4>3. Holds("todo", w, i - 1, m)'
        BY <2>12, <3>3, <4>2
      <4> QED
        BY <4>3
    <3> QED
      BY <3>1, <3>2, <3>3
  <2>18. HoldsOne(m) => HoldsOne(m)'
    <3> SUFFICES ASSUME HoldsOne(m),
                        NEW ka, NEW xa, NEW ia, NEW kb, NEW xb, NEW ib,
                        Holds(ka, xa, ia, m)', Holds(kb, xb, ib, m)'
                 PROVE  ka = kb /\ xa = xb /\ ia = ib
      BY DEF HoldsOne
    <3>1. CASE Holds("todo", w, 1, m)
      <4>1. \A ja \in Nat : ja # 0 => ja + 1 # 1
        OBVIOUS
      <4> QED
        BY <2>12, <3>1, <4>1 DEF HoldsOne
    <3>2. CASE ~ Holds("todo", w, 1, m)
      <4>1. \A ja, jb \in Nat : ja + 1 = jb + 1 => ja = jb
        OBVIOUS
      <4> QED
        BY <2>12, <3>2, <4>1 DEF HoldsOne
    <3> QED
      BY <3>1, <3>2
  <2> QED
    BY <1>1, <2>13, <2>16, <2>17, <2>18, Rearranged
<1> QED
  BY <1>2, <1>3

(* The leftovers and a turn that starts over become one turn.                *)
LEMMA SealCarries ==
  ASSUME SessionInv, CarryInv, NEW m \in Msgs, NEW w \in Workers, Seal(w)
  PROVE  CarriedOK(m)'
<1>0. PICK b, j, s, left, f, L :
        /\ b = worker[w].box /\ j = worker[w].job /\ s = worker[w].todo
        /\ left = Left(boxes[b], worker[w].commit)
        /\ f = FollowUp(w, left) /\ L = Len(f)
  OBVIOUS
<1>1. /\ SessionTypeOK /\ CarriedOK(m) /\ EndsSane(w) /\ worker[w].at = "seal" /\ Placed(w)
      /\ UNCHANGED <<jobs, slot, settled, expiries, cancels>>
  BY DEF SessionInv, CarryInv, Seal, Has
<1>2. /\ b \in DOMAIN boxes /\ left \in Seq(Turns) /\ j \in DOMAIN jobs
      /\ s \in Seq(Turns) /\ f \in Seq(Turns)
      /\ DOMAIN boxes' = DOMAIN boxes
      /\ boxes'[b].injected = <<>> /\ boxes'[b].consumed = <<>>
      /\ \A k \in DOMAIN boxes : k # b => boxes'[k] = boxes[k]
      /\ Alone(w) /\ worker'[w].at = "respawn" /\ worker'[w].todo = f \o s
  BY <1>0, SealMoves
<1> DEFINE Gathered == m \in AskedIn(left) \/ (worker[w].end = "over" /\ m \in Covered(j))
           Source(kind, x) == \/ kind \in {"injected", "consumed"} /\ x = b
                              \/ kind = "over" /\ x = w
(* What is gathered was held by the inbox, or by the turn that starts over.  *)
<1>3. /\ boxes[b].injected \in Seq(Turns) /\ boxes[b].consumed \in Seq(Turns)
      /\ left = IF worker[w].commit THEN boxes[b].injected
                ELSE boxes[b].consumed \o boxes[b].injected
  BY <1>0, <1>1, <1>2, BoxesTyped DEF Left
<1>4. Gathered => \E kind, x, i : /\ Holds(kind, x, i, m) /\ Source(kind, x)
                                  /\ ~ Spent(kind, x)
  <2> SUFFICES ASSUME Gathered
               PROVE  \E kind, x, i : Holds(kind, x, i, m) /\ Source(kind, x) /\ ~ Spent(kind, x)
    OBVIOUS
  <2>1. CASE m \in AskedIn(boxes[b].injected)
    <3>1. PICK i \in DOMAIN boxes[b].injected : m \in Asks(boxes[b].injected[i])
      BY <2>1 DEF AskedIn
    <3>2. Holds("injected", b, i, m) /\ ~ Spent("injected", b)
      BY <1>2, <3>1 DEF Holds, InjectedHas, Spent
    <3> QED
      BY <3>2
  <2>2. CASE ~ worker[w].commit /\ m \in AskedIn(boxes[b].consumed)
    <3>1. PICK i \in DOMAIN boxes[b].consumed : m \in Asks(boxes[b].consumed[i])
      BY <2>2 DEF AskedIn
    <3>2. Holds("consumed", b, i, m)
      BY <1>2, <3>1 DEF Holds, ConsumedHas
    <3>3. ~ Spent("consumed", b)
      <4>1. \A v \in Workers : worker[v].at \in {"release", "seal"} /\ worker[v].commit
                               => worker[v].box # b
        <5> SUFFICES ASSUME NEW v \in Workers, worker[v].at \in {"release", "seal"},
                            worker[v].commit, worker[v].box = b
                     PROVE  FALSE
          OBVIOUS
        <5>1. v # w
          BY <2>2
        <5>2. b # 0
          BY <1>1, <1>2, BoxesTyped
        <5>3. HoldsBox(v) /\ HoldsBox(w)
          BY <1>0, <1>1, <5>2 DEF HoldsBox
        <5> QED
          BY <1>0, <5>1, <5>3 DEF CarryInv, BoxesApart
      <4> QED
        BY <4>1 DEF Spent
    <3> QED
      BY <3>2, <3>3
  <2>3. CASE worker[w].end = "over" /\ m \in Covered(j)
    <3>1. Holds("over", w, 0, m) /\ ~ Spent("over", w)
      BY <1>0, <1>1, <2>3 DEF Holds, OverHas, Spent
    <3> QED
      BY <3>1
  <2>4. m \in AskedIn(left) =>
          \/ m \in AskedIn(boxes[b].injected)
          \/ ~ worker[w].commit /\ m \in AskedIn(boxes[b].consumed)
    BY <1>3, AskedInConcat
  <2> QED
    BY <2>1, <2>2, <2>3, <2>4
<1>5. m \notin settled =>
        \A kind, x, i : Holds(kind, x, i, m) /\ Source(kind, x) => Gathered
  <2> SUFFICES ASSUME m \notin settled, NEW kind, NEW x, NEW i,
                      Holds(kind, x, i, m), Source(kind, x)
               PROVE  Gathered
    OBVIOUS
  <2>1. CASE kind = "injected" /\ x = b
    <3>1. m \in AskedIn(boxes[b].injected)
      BY <2>1 DEF Holds, InjectedHas, AskedIn
    <3> QED
      BY <1>3, <3>1, AskedInConcat
  <2>2. CASE kind = "consumed" /\ x = b
    <3>1. m \in AskedIn(boxes[b].consumed)
      BY <2>2 DEF Holds, ConsumedHas, AskedIn
    <3>2. ~ worker[w].commit
      BY <1>0, <1>1, <3>1 DEF EndsSane
    <3> QED
      BY <1>3, <3>1, <3>2, AskedInConcat
  <2>3. CASE kind = "over" /\ x = w
    BY <1>0, <2>3 DEF Holds, OverHas
  <2> QED
    BY <2>1, <2>2, <2>3
(* They are in the one turn that is respawned first.                         *)
<1>6. /\ L \in Nat
      /\ \A i : i \in DOMAIN f /\ m \in Asks(f[i]) <=> i = 1 /\ Gathered
  <2>1. CASE left = <<>>
    <3>1. f = <<>>
      BY <1>0, <1>2, <2>1, FollowUpTyped
    <3>2. ~ Gathered
      <4>1. worker[w].end # "over"
        <5>1. worker[w].end = "over" => boxes[b].consumed # <<>> /\ ~ worker[w].commit
          BY <1>0, <1>1 DEF EndsSane
        <5>2. ~ worker[w].commit => boxes[b].consumed = <<>>
          <6>1. \A p, r \in Seq(Turns) : p \o r = <<>> => p = <<>>
            <7> SUFFICES ASSUME NEW p \in Seq(Turns), NEW r \in Seq(Turns), p # <<>>
                         PROVE  p \o r # <<>>
              OBVIOUS
            <7>1. Len(p) > 0 /\ Len(p) \in Nat /\ Len(r) \in Nat
              OBVIOUS
            <7>2. Len(p \o r) = Len(p) + Len(r)
              OBVIOUS
            <7>3. Len(p \o r) # 0
              BY <7>1, <7>2
            <7> QED
              BY <7>3
          <6> QED
            BY <1>3, <2>1, <6>1
        <5> QED
          BY <5>1, <5>2
      <4> QED
        BY <2>1, <4>1, AskedInEmpty
    <3> QED
      BY <1>0, <3>1, <3>2
  <2>2. CASE left # <<>>
    <3>1. /\ f = <<f[1]>> /\ f[1] \in Turns
          /\ Asks(f[1]) = AskedIn(left)
               \cup (IF worker[w].end = "over" THEN Covered(worker[w].job) ELSE {})
      BY <1>0, <1>2, <2>2, FollowUpTyped
    <3>2. DOMAIN f = {1} /\ L \in Nat
      <4>1. PICK t : f = <<t>>
        BY <3>1
      <4> QED
        BY <1>0, <1>2, <4>1
    <3>3. m \in Asks(f[1]) <=> Gathered
      BY <1>0, <3>1
    <3> HIDE DEF Gathered
    <3> QED
      BY <3>2, <3>3
  <2> QED
    BY <2>1, <2>2
<1> HIDE DEF Gathered
(* Where the message is held.                                                *)
<1>7. \A i : TodoHas(w, i, m)' <=>
        \/ i = 1 /\ Gathered
        \/ i \in Nat /\ TodoHas(w, i - L, m)
  <2> SUFFICES ASSUME NEW i
               PROVE  TodoHas(w, i, m)' <=>
                        \/ i = 1 /\ Gathered
                        \/ i \in Nat /\ TodoHas(w, i - L, m)
    OBVIOUS
  <2>1. TodoHas(w, i, m)' <=> i \in DOMAIN (f \o s) /\ m \in Asks((f \o s)[i])
    BY <1>2 DEF TodoHas, Asks
  <2>2. TodoHas(w, i - L, m) <=> i - L \in DOMAIN s /\ m \in Asks(s[i - L])
    BY <1>0 DEF TodoHas
  <2>3. i \in DOMAIN (f \o s) /\ m \in Asks((f \o s)[i])
          <=> \/ i \in DOMAIN f /\ m \in Asks(f[i])
              \/ i \in Nat /\ i - L \in DOMAIN s /\ m \in Asks(s[i - L])
    <3>1. f \in Seq(Turns) /\ s \in Seq(Turns)
      BY <1>2
    <3>2. \A k : k \in DOMAIN (f \o s) /\ m \in Asks((f \o s)[k])
                 <=> \/ k \in DOMAIN f /\ m \in Asks(f[k])
                     \/ k \in Nat /\ k - Len(f) \in DOMAIN s /\ m \in Asks(s[k - Len(f)])
      BY <3>1, HeldInConcat
    <3>3. L = Len(f)
      BY <1>0
    <3> QED
      BY <3>2, <3>3
  <2> QED
    BY <1>6, <2>1, <2>2, <2>3
<1>8. /\ JobsKept /\ \A k : JobHas(k, m)' <=> JobHas(k, m)
  BY <1>1, <1>2, JobsHaveStill
<1>9. /\ \A v : v # w => /\ \A i : TodoHas(v, i, m)' <=> TodoHas(v, i, m)
                         /\ OverHas(v, m)' <=> OverHas(v, m)
      /\ ~ OverHas(w, m)'
  BY <1>2, <1>8, OthersInHandKept DEF OverHas
<1>10. /\ \A x, i : InjectedHas(x, i, m)' <=> InjectedHas(x, i, m) /\ x # b
       /\ \A x, i : ConsumedHas(x, i, m)' <=> ConsumedHas(x, i, m) /\ x # b
       /\ \A i : ParkedHas(i, m)' <=> ParkedHas(i, m)
  BY <1>1, <1>2 DEF InjectedHas, ConsumedHas, ParkedHas, Asks
<1>11. \A kind, x, i : Holds(kind, x, i, m)' <=>
         \/ kind = "todo" /\ x = w /\ i = 1 /\ Gathered
         \/ kind = "todo" /\ x = w /\ i \in Nat /\ Holds("todo", w, i - L, m)
         \/ ~ (kind = "todo" /\ x = w) /\ ~ Source(kind, x) /\ Holds(kind, x, i, m)
  <2> SUFFICES ASSUME NEW kind, NEW x, NEW i
               PROVE  Holds(kind, x, i, m)' <=>
                        \/ kind = "todo" /\ x = w /\ i = 1 /\ Gathered
                        \/ kind = "todo" /\ x = w /\ i \in Nat /\ Holds("todo", w, i - L, m)
                        \/ ~ (kind = "todo" /\ x = w) /\ ~ Source(kind, x) /\ Holds(kind, x, i, m)
    OBVIOUS
  <2>1. CASE kind = "todo"
    <3>1. Holds(kind, x, i, m)' <=> TodoHas(x, i, m)'
      BY <2>1 DEF Holds
    <3>2. Holds(kind, x, i, m) <=> TodoHas(x, i, m)
      BY <2>1 DEF Holds
    <3>3. Holds("todo", w, i - L, m) <=> TodoHas(w, i - L, m)
      BY DEF Holds
    <3> QED
      BY <1>7, <1>9, <2>1, <3>1, <3>2, <3>3
  <2>2. CASE kind # "todo"
    BY <1>8, <1>9, <1>10, <2>2 DEF Holds
  <2> QED
    BY <2>1, <2>2
<1>12. \A kind, x : ~ Source(kind, x) /\ Spent(kind, x) => Spent(kind, x)'
  <2> SUFFICES ASSUME NEW kind, NEW x, ~ Source(kind, x), Spent(kind, x)
               PROVE  Spent(kind, x)'
    OBVIOUS
  <2>1. PICK v \in Workers : /\ worker[v].at \in {"release", "seal"}
                             /\ worker[v].commit /\ worker[v].box = x
    BY DEF Spent
  <2>2. kind = "consumed" /\ v # w
    BY <1>0, <2>1 DEF Spent
  <2> QED
    BY <1>2, <2>1, <2>2 DEF Spent, Alone
<1>13. Sent' = Sent
  BY <1>1 DEF Sent, Ids, Covered
<1>14. \A kind, x : Source(kind, x) => ~ (kind = "todo" /\ x = w)
  OBVIOUS
<1> HIDE DEF Source
<1>15. HeldBefore(m)
  <2> SUFFICES ASSUME NEW kind, NEW x, NEW i, Holds(kind, x, i, m)'
               PROVE  \E ka, xa, ia : Holds(ka, xa, ia, m) /\ (Spent(ka, xa) => Spent(kind, x)')
    BY DEF HeldBefore
  <2>1. CASE kind = "todo" /\ x = w /\ i = 1 /\ Gathered
    BY <1>4, <2>1
  <2>2. CASE kind = "todo" /\ x = w /\ i \in Nat /\ Holds("todo", w, i - L, m)
    <3>1. ~ Spent("todo", w)
      BY DEF Spent
    <3> QED
      BY <2>2, <3>1
  <2>3. CASE ~ (kind = "todo" /\ x = w) /\ ~ Source(kind, x) /\ Holds(kind, x, i, m)
    BY <1>12, <2>3
  <2> QED
    BY <1>11, <2>1, <2>2, <2>3
<1>16. m \notin settled /\ HoldsSome(m) => HoldsSome(m)'
  <2> SUFFICES ASSUME m \notin settled, NEW kind, NEW x, NEW i, Holds(kind, x, i, m)
               PROVE  \E ka, xa, ia : Holds(ka, xa, ia, m)'
    BY DEF HoldsSome
  <2>1. CASE Source(kind, x)
    <3>1. Holds("todo", w, 1, m)'
      BY <1>5, <1>11, <2>1
    <3> QED
      BY <3>1
  <2>2. CASE kind = "todo" /\ x = w
    <3>1. i \in Nat
      BY <1>0, <1>2, <2>2 DEF Holds, TodoHas
    <3>2. i + L \in Nat /\ (i + L) - L = i
      BY <1>6, <3>1
    <3>3. Holds("todo", w, i + L, m)'
      BY <1>11, <2>2, <3>2
    <3> QED
      BY <3>3
  <2>3. CASE ~ (kind = "todo" /\ x = w) /\ ~ Source(kind, x)
    <3>1. Holds(kind, x, i, m)'
      BY <1>11, <2>3
    <3> QED
      BY <3>1
  <2> QED
    BY <2>1, <2>2, <2>3
<1>17. HoldsOne(m) => HoldsOne(m)'
  <2> SUFFICES ASSUME HoldsOne(m),
                      NEW ka, NEW xa, NEW ia, NEW kb, NEW xb, NEW ib,
                      Holds(ka, xa, ia, m)', Holds(kb, xb, ib, m)'
               PROVE  ka = kb /\ xa = xb /\ ia = ib
    BY DEF HoldsOne
  <2>1. CASE Gathered
    <3>1. PICK k, x, i : Holds(k, x, i, m) /\ Source(k, x)
      BY <1>4, <2>1
    <3>2. \A ku, xu, iu : Holds(ku, xu, iu, m) => Source(ku, xu) /\ ~ (ku = "todo" /\ xu = w)
      BY <1>14, <3>1 DEF HoldsOne
    <3>3. \A ku, xu, iu : Holds(ku, xu, iu, m)' => ku = "todo" /\ xu = w /\ iu = 1
      BY <1>11, <3>2
    <3> QED
      BY <3>3
  <2>2. CASE ~ Gathered
    <3>1. \A ja, jb \in Nat : ja - L = jb - L => ja = jb
      BY <1>6
    <3> QED
      BY <1>11, <2>2, <3>1 DEF HoldsOne
  <2> QED
    BY <2>1, <2>2
<1> QED
  BY <1>1, <1>13, <1>15, <1>16, <1>17, Rearranged

LEMMA CarryInvInit ==
  ASSUME SessionAssumption, SessionInit
  PROVE  CarryInv
<1>1. jobs = <<>> /\ slot = Nil /\ boxes = <<>> /\ settled = {}
      /\ \A w \in Workers : worker[w] = Resting
  BY DEF SessionInit
<1>2. \A w \in Workers : EndsSane(w)
  BY <1>1 DEF EndsSane, Resting
<1>3. BoxesApart /\ WithdrawnSettled
  BY <1>1 DEF BoxesApart, WithdrawnSettled, HoldsBox, Resting
<1>4. ASSUME NEW m \in Msgs PROVE CarriedOK(m)
  <2>1. Sent = {}
    BY <1>1 DEF Sent, Ids
  <2>2. \A kind, x, i : ~ Holds(kind, x, i, m)
    BY <1>1 DEF Holds, JobHas, ByJob, Ids, InjectedHas, ConsumedHas, ParkedHas, TodoHas, OverHas,
                Resting
  <2> QED
    BY <1>1, <2>1, <2>2 DEF CarriedOK
<1> QED
  BY <1>2, <1>3, <1>4 DEF CarryInv

LEMMA CarryInvStep ==
  ASSUME SessionAssumption, SessionInv, CarryInv, [Next]_vars
  PROVE  CarryInv'
<1>1. CASE Next
  <2>1. (\A w \in Workers : EndsSane(w)') /\ BoxesApart' /\ WithdrawnSettled'
    BY <1>1, EndsSaneStep, BoxesApartStep, WithdrawnSettledStep
  <2>2. ASSUME NEW m \in Msgs PROVE CarriedOK(m)'
    <3>1. ASSUME NEW n \in Msgs, Submit(n) PROVE CarriedOK(m)'
      BY <3>1, SubmitCarries
    <3>2. ASSUME NEW j \in Ids, Expire(j) \/ Cancel(j) PROVE CarriedOK(m)'
      BY <3>2, ExpireCarries, CancelCarries DEF Ids
    <3>3. ASSUME NEW w \in Workers, Step(w) PROVE CarriedOK(m)'
      BY <3>3, DequeueCarries, ClaimCarries, FindInboxCarries, PushCarries, ParkCarries,
         AbsorbedCarries, DrainCarries, FinalizeCarries, ReleaseCarries, SealCarries,
         RespawnCarries, ResolveCarries
         DEF Step
    <3> QED
      BY <1>1, <3>1, <3>2, <3>3 DEF Next
  <2> QED
    BY <2>1, <2>2 DEF CarryInv
<1>2. CASE UNCHANGED vars
  <2>1. UNCHANGED <<jobs, boxes, worker, settled, cancels>>
    BY <1>2 DEF vars
  <2>2. /\ \A w \in Workers : EndsSane(w)'
        /\ BoxesApart' /\ WithdrawnSettled'
    BY <2>1 DEF CarryInv, EndsSane, AskedIn, Asks, BoxesApart, HoldsBox, WithdrawnSettled, Covered
  <2>3. \A m \in Msgs : CarriedOK(m)'
    BY <1>2, NothingDone DEF CarryInv
  <2> QED
    BY <2>2, <2>3 DEF CarryInv
<1> QED
  BY <1>1, <1>2

(* In every reachable state a message has its answer or is held, and without *)
(* a time-out it is held in one place.                                       *)
THEOREM CarryInvHolds == SessionSpec => [](SessionInv /\ CarryInv)
<1> USE SessionAssumption
<1>1. SessionInit => SessionInv /\ CarryInv
  BY SessionInvInit, CarryInvInit
<1>2. SessionInv /\ CarryInv /\ [Next]_vars => (SessionInv /\ CarryInv)'
  BY SessionInvStep, CarryInvStep
<1> QED
  BY <1>1, <1>2, PTL DEF SessionSpec

-----------------------------------------------------------------------------
(* The carriers, counted.                                                    *)

LEMMA AtMostOne ==
  ASSUME NEW S, \A x, y \in S : x = y
  PROVE  /\ IsFiniteSet(S)
         /\ Cardinality(S) = IF S = {} THEN 0 ELSE 1
<1>1. CASE S = {}
  BY <1>1, FS_EmptySet
<1>2. CASE S # {}
  <2>1. PICK x : x \in S
    BY <1>2
  <2>2. S = {x}
    BY <2>1
  <2> QED
    BY <1>2, <2>2, FS_Singleton
<1> QED
  BY <1>1, <1>2

LEMMA CarriersFinite ==
  ASSUME SessionAssumption, SessionInv, NEW m
  PROVE  /\ IsFiniteSet(ByJob(m)) /\ IsFiniteSet(InBox(m))
         /\ IsFiniteSet(Parked(m)) /\ IsFiniteSet(InHand(m))
<1>1. SessionTypeOK
  BY DEF SessionInv
<1>2. DOMAIN jobs = 1 .. Len(jobs) /\ Len(jobs) \in Nat
  BY <1>1 DEF SessionTypeOK
<1>3. IsFiniteSet(DOMAIN jobs) /\ IsFiniteSet(DOMAIN boxes)
  BY <1>1, <1>2, BoxesTyped, FS_Interval
<1>4. ByJob(m) \subseteq DOMAIN jobs /\ InBox(m) \subseteq DOMAIN boxes /\ InHand(m) \subseteq Workers
  BY DEF ByJob, InBox, InHand, Ids
<1>5. IsFiniteSet(Parked(m))
  <2>1. CASE slot = Nil
    BY <2>1, FS_EmptySet DEF Parked
  <2>2. CASE slot # Nil
    <3>1. DOMAIN slot.parked = 1 .. Len(slot.parked) /\ Len(slot.parked) \in Nat
      BY <1>1, <2>2, SlotTyped
    <3>2. IsFiniteSet(DOMAIN slot.parked)
      BY <3>1, FS_Interval
    <3>3. Parked(m) \subseteq DOMAIN slot.parked
      BY <2>2 DEF Parked
    <3> QED
      BY <3>2, <3>3, FS_Subset
  <2> QED
    BY <2>1, <2>2
<1> QED
  BY <1>3, <1>4, <1>5, FS_Subset DEF SessionAssumption

(* The members of the four sets are the places.                              *)
LEMMA CarriersAre ==
  ASSUME SessionInv, NEW m
  PROVE  /\ \A x : x \in ByJob(m) <=> Holds("job", x, 0, m)
         /\ \A x : x \in InBox(m) <=>
              \E i : Holds("injected", x, i, m) \/ Holds("consumed", x, i, m)
         /\ \A i : i \in Parked(m) <=> Holds("parked", 0, i, m)
         /\ \A x : x \in InHand(m) <=>
              Holds("over", x, 0, m) \/ \E i : Holds("todo", x, i, m)
<1>1. SessionTypeOK
  BY DEF SessionInv
<1>2. \A x : x \in ByJob(m) <=> Holds("job", x, 0, m)
  BY DEF Holds, JobHas
<1>3. \A x : x \in InBox(m) <=>
         \E i : Holds("injected", x, i, m) \/ Holds("consumed", x, i, m)
  <2> SUFFICES ASSUME NEW x \in DOMAIN boxes
               PROVE  x \in InBox(m) <=>
                        \E i : Holds("injected", x, i, m) \/ Holds("consumed", x, i, m)
    BY DEF InBox, Holds, InjectedHas, ConsumedHas
  <2>1. boxes[x].injected \in Seq(Turns) /\ boxes[x].consumed \in Seq(Turns)
    BY <1>1, BoxesTyped
  <2>2. x \in InBox(m) <=> m \in AskedIn(boxes[x].injected) \cup AskedIn(boxes[x].consumed)
    BY <2>1, MessagesOfSet, AskedInConcat DEF InBox
  <2>3. /\ m \in AskedIn(boxes[x].injected) <=> \E i : Holds("injected", x, i, m)
        /\ m \in AskedIn(boxes[x].consumed) <=> \E i : Holds("consumed", x, i, m)
    BY DEF AskedIn, Holds, InjectedHas, ConsumedHas
  <2> QED
    BY <2>2, <2>3
<1>4. \A i : i \in Parked(m) <=> Holds("parked", 0, i, m)
  <2>1. \A i : Holds("parked", 0, i, m) <=> ParkedHas(i, m)
    BY DEF Holds
  <2> QED
    BY <2>1, MessagesOfOne DEF Parked, ParkedHas
<1>5. \A x : x \in InHand(m) <=>
         Holds("over", x, 0, m) \/ \E i : Holds("todo", x, i, m)
  <2> SUFFICES ASSUME NEW x \in Workers
               PROVE  x \in InHand(m) <=>
                        Holds("over", x, 0, m) \/ \E i : Holds("todo", x, i, m)
    BY DEF InHand, Holds, OverHas, TodoHas
  <2>1. Messages(ToSet(worker[x].todo)) = AskedIn(worker[x].todo)
    BY MessagesOfSet
  <2>2. m \in AskedIn(worker[x].todo) <=> \E i : Holds("todo", x, i, m)
    BY DEF AskedIn, Holds, TodoHas
  <2>3. Holds("over", x, 0, m) <=> OverHas(x, m)
    BY DEF Holds
  <2> QED
    BY <2>1, <2>2, <2>3 DEF InHand, OverHas
<1> QED
  BY <1>2, <1>3, <1>4, <1>5

LEMMA CarriersCounted ==
  ASSUME SessionAssumption, SessionInv, NEW m
  PROVE  /\ Carriers(m) \in Nat
         /\ HoldsSome(m) => Carriers(m) > 0
         /\ HoldsSome(m) /\ HoldsOne(m) => Carriers(m) = 1
<1> DEFINE A == ByJob(m)
           B == InBox(m)
           C == Parked(m)
           D == InHand(m)
<1>1. /\ IsFiniteSet(A) /\ IsFiniteSet(B) /\ IsFiniteSet(C) /\ IsFiniteSet(D)
      /\ Cardinality(A) \in Nat /\ Cardinality(B) \in Nat
      /\ Cardinality(C) \in Nat /\ Cardinality(D) \in Nat
  BY CarriersFinite, FS_CardinalityType
<1>2. Carriers(m) = Cardinality(A) + Cardinality(B) + Cardinality(C) + Cardinality(D)
  BY DEF Carriers
<1>3. HoldsSome(m) => A # {} \/ B # {} \/ C # {} \/ D # {}
  <2> SUFFICES ASSUME NEW kind, NEW x, NEW i, Holds(kind, x, i, m)
               PROVE  A # {} \/ B # {} \/ C # {} \/ D # {}
    BY DEF HoldsSome
  <2>1. \/ kind \in {"job", "over"} /\ i = 0
        \/ kind \in {"injected", "consumed", "todo"}
        \/ kind = "parked" /\ x = 0
    BY DEF Holds
  <2> QED
    BY <2>1, CarriersAre
<1>4. HoldsSome(m) => Carriers(m) > 0
  <2>1. /\ A # {} => Cardinality(A) # 0
        /\ B # {} => Cardinality(B) # 0
        /\ C # {} => Cardinality(C) # 0
        /\ D # {} => Cardinality(D) # 0
    BY <1>1, FS_EmptySet
  <2> HIDE DEF A, B, C, D
  <2> QED
    BY <1>1, <1>2, <1>3, <2>1
<1>5. HoldsSome(m) /\ HoldsOne(m) => Carriers(m) = 1
  <2> SUFFICES ASSUME HoldsSome(m), HoldsOne(m) PROVE Carriers(m) = 1
    OBVIOUS
  <2>1. /\ \A x, y \in A : x = y
        /\ \A x, y \in B : x = y
        /\ \A x, y \in C : x = y
        /\ \A x, y \in D : x = y
    BY CarriersAre DEF HoldsOne
  <2>2. /\ A # {} => B = {} /\ C = {} /\ D = {}
        /\ B # {} => C = {} /\ D = {}
        /\ C # {} => D = {}
    BY CarriersAre DEF HoldsOne
  <2>3. /\ Cardinality(A) = IF A = {} THEN 0 ELSE 1
        /\ Cardinality(B) = IF B = {} THEN 0 ELSE 1
        /\ Cardinality(C) = IF C = {} THEN 0 ELSE 1
        /\ Cardinality(D) = IF D = {} THEN 0 ELSE 1
    BY <2>1, AtMostOne
  <2> HIDE DEF A, B, C, D
  <2> QED
    BY <1>2, <1>3, <2>2, <2>3
<1> QED
  BY <1>1, <1>2, <1>4, <1>5

(* MessagesAreCarriedOnce: whoever merges, parks, seals, hands back or       *)
(* respawns, a message without an answer is never lost and never doubled.    *)
THEOREM MessagesAreCarriedOnceHolds == SessionSpec => []MessagesAreCarriedOnce
<1>1. SessionAssumption /\ SessionInv /\ CarryInv => MessagesAreCarriedOnce
  <2> SUFFICES ASSUME SessionAssumption, SessionInv, CarryInv
               PROVE  MessagesAreCarriedOnce
    OBVIOUS
  <2>1. Sent \subseteq Msgs /\ settled \subseteq Msgs
    <3>1. SessionTypeOK /\ \A j \in DOMAIN jobs : Covered(j) \subseteq Msgs
      BY JobsTyped DEF SessionInv, SessionTypeOK, Covered
    <3> QED
      BY <3>1 DEF Sent, Ids, SessionTypeOK
  <2>2. ASSUME NEW m \in Sent \ settled
        PROVE  Carriers(m) > 0 /\ (expiries = 0 => Carriers(m) = 1)
    <3>1. HoldsSome(m) /\ (expiries = 0 => HoldsOne(m))
      BY <2>1, <2>2 DEF CarryInv, CarriedOK, HoldsSome, HoldsOne
    <3> QED
      BY <3>1, CarriersCounted
  <2>3. ASSUME expiries + cancels = 0, NEW m \in settled
        PROVE  ByJob(m) = {} /\ InHand(m) = {}
    <3>1. expiries = 0 /\ cancels = 0
      BY <2>3 DEF SessionInv, SessionTypeOK
    <3>2. \A kind, x, i : Holds(kind, x, i, m) => kind = "consumed"
      BY <2>1, <2>3, <3>1 DEF CarryInv, CarriedOK, Spent
    <3> QED
      BY <3>2, CarriersAre
  <2> QED
    BY <2>2, <2>3 DEF MessagesAreCarriedOnce
<1> QED
  BY <1>1, CarryInvHolds, SessionAssumption, PTL

=============================================================================
