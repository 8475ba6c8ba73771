------------------------------- MODULE Router -------------------------------
(* Requests that walk the targets of their route: the circuit breakers, the  *)
(* order of a selection pass, admission through the lanes of the pools, and  *)
(* the retry budget.                                                         *)
(*                                                                           *)
(* Time is a choice: a cooldown, a deadline, a wall clock or a lane budget   *)
(* may be over whenever the code asks.  A pool is what LanePool promises of  *)
(* it: so many lanes, and the most urgent waiter first.                      *)
EXTENDS Naturals, FiniteSets, SequencesExt

CONSTANTS Requests,    \* walkers: one run at a time each
          Targets,     \* (provider, model) pairs
          Pools,
          Nil,
          PoolOf,      \* [Targets -> Pools or Nil, a model without a pool]
          Width,       \* [Pools -> lanes]
          Primaries, Overflows, Fallbacks,  \* the candidates of a route, in its order
          Canaries,    \* its canaries
          Full,        \* requests of workflows with full_routing
          Timed,       \* requests whose caller set a deadline
          Background,  \* requests of background priority
          Able,        \* [Requests -> targets with the capabilities they need]
          Preferred,   \* [Requests -> target of their previous step or Nil]
          Gated,       \* targets behind the quota of the free pool
          Sick,        \* targets whose provider fails, or needs more than the slice
          FailThreshold, \* [Requests -> [Targets -> failures that open the circuit]],
                         \* of the assignment that leads the request to the target
          MaxFails,    \* bound on the failures counted
          MaxHops, Resamples

ASSUME RouterAssumption ==
  /\ Nil \notin Pools /\ Nil \notin Targets
  /\ PoolOf \in [Targets -> Pools \cup {Nil}]
  /\ Width \in [Pools -> Nat \ {0}]
  /\ Primaries \in Seq(Targets) /\ Overflows \in Seq(Targets) /\ Fallbacks \in Seq(Targets)
  /\ Canaries \subseteq Targets
  /\ Able \in [Requests -> SUBSET Targets]
  /\ Preferred \in [Requests -> Targets \cup {Nil}]
  /\ IsFiniteSet(Requests) /\ IsFiniteSet(Targets)
  /\ MaxHops \in Nat \ {0} /\ Resamples \in Nat /\ MaxFails \in Nat
  /\ FailThreshold \in [Requests -> [Targets -> 1 .. MaxFails]]

(* A circuit belongs to (provider, model), whichever workflow reports to it.  *)
Circuits == [fails : 0 .. MaxFails, state : {"closed", "open", "cooled"}]

(* What one run remembers: attempted_targets, started_attempts, busy_skips,  *)
(* executed_this_pass, last_error, model_output_retry, first_execution, the  *)
(* liveness read before admission, and whether at least                      *)
(* ATTEMPT_BREAKER_MIN_SLICE was left when its attempt started.              *)
Places == {"idle", "select", "walk", "admit", "waiting", "gate", "running", "done"}
Outcomes == {"ok", "attempt_error", "no_candidates", "capacity_wait_timeout",
             "deadline_exceeded", "exhausted"}

ASSUME NilIsNoOutcome == Nil \notin Outcomes

Idle == [at |-> "idle", chain |-> <<>>, attempted |-> {}, hops |-> 0, samples |-> 0,
         busy |-> FALSE, ran |-> FALSE, failed |-> FALSE, first |-> FALSE,
         live |-> FALSE, slice |-> TRUE, outcome |-> Nil]

VARIABLES circuits,  \* [Targets -> circuit]
          engaged,   \* overflow targets whose trigger is engaged
          lanes,     \* [Requests -> the pool whose permit it holds or Nil]
          runs       \* [Requests -> run]

vars == <<circuits, engaged, lanes, runs>>

RouterInit ==
  /\ circuits = [t \in Targets |-> [fails |-> 0, state |-> "closed"]]
  /\ engaged = {}
  /\ lanes = [r \in Requests |-> Nil]
  /\ runs = [r \in Requests |-> Idle]

-----------------------------------------------------------------------------
(* The breaker.                                                              *)

(* An elapsed cooldown counts as live.                                       *)
Live(t) == circuits[t].state # "open"

RecordSuccess(t) ==
  circuits' = [circuits EXCEPT ![t] = [fails |-> 0, state |-> "closed"]]

(* Mutant: opening a circuit starts the count again.                         *)
ChargedAndReset(c, n) ==
  IF c.fails + 1 >= n THEN [fails |-> 0, state |-> "open"] ELSE [c EXCEPT !.fails = @ + 1]

(* n is the threshold of whoever reports: below it a circuit stays what it   *)
(* is, a cooled one too.  Failures above the largest threshold change        *)
(* nothing more, so the count may stop there.                                *)
Charged(c, n) ==
  [fails |-> IF c.fails < MaxFails THEN c.fails + 1 ELSE c.fails,
   state |-> IF c.fails + 1 >= n THEN "open" ELSE c.state]

RecordFailure(r, t) ==
  circuits' = [circuits EXCEPT ![t] = Charged(@, FailThreshold[r][t])]

Cool(t) ==
  /\ circuits[t].state = "open"
  /\ circuits' = [circuits EXCEPT ![t].state = "cooled"]
  /\ UNCHANGED <<engaged, lanes, runs>>

-----------------------------------------------------------------------------
(* The lanes of the pools.                                                   *)

Holders(p) == {r \in Requests : lanes[r] = p}
Target(r) == Head(runs[r].chain)
Waits(r, p) == runs[r].at = "waiting" /\ PoolOf[Target(r)] = p

HasLane(p) == p # Nil => Cardinality(Holders(p)) < Width[p]

(* try_acquire does not pass those who wait.                                 *)
HasFreeLane(t) ==
  HasLane(PoolOf[t]) /\ \A q \in Requests : PoolOf[t] # Nil => ~ Waits(q, PoolOf[t])

-----------------------------------------------------------------------------
(* A selection pass.                                                         *)

Alive(s) == SelectSeq(s, Live)
Dead(s) == SelectSeq(s, LAMBDA t : ~ Live(t))

(* weighted_permutation may draw any order; prefer_free_lanes then moves     *)
(* targets with a free lane to the front of it.                              *)
Orders(S) ==
  {s \in SetToSeqs(S) : \A i, j \in DOMAIN s :
      i < j /\ HasFreeLane(s[j]) => HasFreeLane(s[i])}

Pooled == {t \in ToSet(Primaries) : Live(t)} \cup {t \in engaged : Live(t)}

(* At most one canary, when its die falls so; no dead one.                   *)
Rolls == {<<>>} \cup {<<t>> : t \in {c \in Canaries : Live(c)}}

Once(s) ==
  FoldLeft(LAMBDA seen, t : IF Contains(seen, t) THEN seen ELSE Append(seen, t), <<>>, s)

(* select_chain: those that are live first, then, without a look at the      *)
(* triggers, every dead target as a last resort.                             *)
Chains(r) ==
  IF r \in Full
  THEN {Once(roll \o order \o Alive(Fallbacks) \o Dead(Primaries \o Overflows \o Fallbacks)) :
          roll \in Rolls, order \in Orders(Pooled)}
  ELSE {Once(Alive(Primaries \o Fallbacks) \o Dead(Primaries \o Fallbacks))}

Capable(r, chain) == SelectSeq(chain, LAMBDA t : t \in Able[r])

(* The warm cache of the last step, only while its lane is free.             *)
Warm(r, chain) ==
  LET t == Preferred[r] IN
  IF Contains(chain, t) /\ Live(t) /\ HasFreeLane(t)
  THEN <<t>> \o Remove(chain, t) ELSE chain

-----------------------------------------------------------------------------
(* A run.                                                                    *)

Becomes(r, run) == runs' = [runs EXCEPT ![r] = run]
Drop(r) == lanes' = [lanes EXCEPT ![r] = Nil]

Ends(run, outcome) ==
  [Idle EXCEPT !.at = "done", !.attempted = run.attempted, !.outcome = outcome]

(* What the loop tells its caller when it is left.                           *)
Concluded(run, cut) ==
  Ends(run, IF run.failed THEN "attempt_error"
            ELSE IF cut THEN "deadline_exceeded" ELSE "exhausted")

(* The next candidate of the pass.                                           *)
Onwards(run) == [run EXCEPT !.at = "walk", !.chain = Tail(@), !.first = FALSE, !.live = FALSE]

(* Only the first admission of a candidate counts as passed over.            *)
PassedOver(run) == Onwards([run EXCEPT !.busy = @ \/ run.first])

(* The caller's deadline, or five minutes for whoever is not in the          *)
(* background: time that admission may use.                                  *)
Bounded(r) == r \in Timed \/ r \notin Background

Begin(r) ==
  /\ runs[r].at \in {"idle", "done"}
  /\ Becomes(r, [Idle EXCEPT !.at = "select"])
  /\ UNCHANGED <<circuits, engaged, lanes>>

Select(r) ==
  /\ runs[r].at = "select"
  /\ \E chain \in Chains(r) :
       LET attempts == Warm(r, Capable(r, chain)) IN
       Becomes(r, IF attempts = <<>> THEN Ends(runs[r], "no_candidates")
                  ELSE [runs[r] EXCEPT !.at = "walk", !.chain = attempts,
                                       !.busy = FALSE, !.ran = FALSE])
  /\ UNCHANGED <<circuits, engaged, lanes>>

Walking(r) == runs[r].at = "walk" /\ runs[r].chain # <<>>

Attempted(r) == Target(r) \in runs[r].attempted

Skip(r) ==
  /\ Walking(r) /\ Attempted(r)
  /\ Becomes(r, Onwards(runs[r]))
  /\ UNCHANGED <<circuits, engaged, lanes>>

(* The wall clock, the deadline or the hops are used up.                     *)
GiveUp(r) ==
  /\ Walking(r) /\ ~ Attempted(r)
  /\ Becomes(r, Concluded(runs[r], FALSE))
  /\ UNCHANGED <<circuits, engaged, lanes>>

(* Liveness is read once for a candidate; minutes may pass in its queue.     *)
Consider(r) ==
  /\ Walking(r) /\ ~ Attempted(r) /\ runs[r].hops < MaxHops
  /\ Becomes(r, [runs[r] EXCEPT !.at = "admit", !.first = TRUE, !.live = Live(Target(r))])
  /\ UNCHANGED <<circuits, engaged, lanes>>

Admitted(r) ==
  /\ lanes' = [lanes EXCEPT ![r] = PoolOf[Target(r)]]
  /\ runs' = [runs EXCEPT ![r].at = "gate"]

Enter(r) ==
  /\ runs[r].at = "admit" /\ HasFreeLane(Target(r))
  /\ Admitted(r)
  /\ UNCHANGED <<circuits, engaged>>

(* A dead candidate is not waited for, nor one whose queue is too long.      *)
PassOver(r) ==
  /\ runs[r].at = "admit" /\ ~ HasFreeLane(Target(r))
  /\ runs[r].live => Bounded(r)
  /\ Becomes(r, PassedOver(runs[r]))
  /\ UNCHANGED <<circuits, engaged, lanes>>

Queue(r) ==
  /\ runs[r].at = "admit" /\ ~ HasFreeLane(Target(r)) /\ runs[r].live
  /\ runs' = [runs EXCEPT ![r].at = "waiting"]
  /\ UNCHANGED <<circuits, engaged, lanes>>

(* Somebody more urgent waits for the same pool.                             *)
Outranked(r) ==
  \E q \in Requests \ Background :
    r \in Background /\ runs[r].at = "waiting" /\ Waits(q, PoolOf[Target(r)])

Handed(r) ==
  /\ runs[r].at = "waiting" /\ HasLane(PoolOf[Target(r)]) /\ ~ Outranked(r)
  /\ Admitted(r)
  /\ UNCHANGED <<circuits, engaged>>

WaitEnds(r) ==
  /\ runs[r].at = "waiting" /\ Bounded(r)
  /\ Becomes(r, PassedOver(runs[r]))
  /\ UNCHANGED <<circuits, engaged, lanes>>

(* Mutant: the permit outlives the candidate that was denied.                *)
KeepDenied(r) == Becomes(r, Onwards(runs[r])) /\ UNCHANGED lanes

Denied(r) == Becomes(r, Onwards(runs[r])) /\ Drop(r)

QuotaDenied(r) ==
  /\ runs[r].at = "gate" /\ Target(r) \in Gated
  /\ Denied(r)
  /\ UNCHANGED <<circuits, engaged>>

(* What is left of the caller's deadline only gets shorter from attempt to   *)
(* attempt; without a deadline there is no slice to be too short.            *)
Start(r) ==
  /\ runs[r].at = "gate"
  /\ LET run == runs[r] IN
     \E slice \in IF r \in Timed /\ run.slice THEN BOOLEAN ELSE {run.slice} :
       Becomes(r, [run EXCEPT !.at = "running", !.attempted = @ \cup {Target(r)},
                              !.hops = IF run.first THEN @ + 1 ELSE @,
                              !.ran = @ \/ run.first, !.first = FALSE, !.slice = slice])
  /\ UNCHANGED <<circuits, engaged, lanes>>

-----------------------------------------------------------------------------
(* How an attempt ends.  The permit is dropped before anything is reported.  *)

Answers(r) ==
  /\ runs[r].at = "running"
  /\ Drop(r)
  /\ RecordSuccess(Target(r))
  /\ Becomes(r, Ends(runs[r], "ok"))
  /\ UNCHANGED engaged

(* The caller does not retry this error.                                     *)
Refuses(r) ==
  /\ runs[r].at = "running"
  /\ Drop(r)
  /\ Becomes(r, Ends(runs[r], "attempt_error"))
  /\ UNCHANGED <<circuits, engaged>>

(* ModelOutputRejected: the same model is asked again while the turn has     *)
(* samples and time left for it.                                             *)
Resample(r) ==
  /\ runs[r].at = "running" /\ runs[r].samples < Resamples
  /\ Drop(r)
  /\ Becomes(r, [runs[r] EXCEPT !.at = "admit", !.samples = @ + 1, !.failed = TRUE])
  /\ UNCHANGED <<circuits, engaged>>

(* Mutant: every failure counts against its model.                           *)
ReportAny(r, charged) == RecordFailure(r, Target(r))

Report(r, charged) == IF charged THEN RecordFailure(r, Target(r)) ELSE UNCHANGED circuits

(* The caller's FailureReason; "provider" stands for all that are about the  *)
(* provider: a transport, a status, an empty answer.                         *)
Reasons == {"model_output_rejected", "context_length_exceeded", "provider"}

(* Neither says anything of the provider, which answered in time.            *)
Charges(reason) == reason \notin {"model_output_rejected", "context_length_exceeded"}

Fails(r, reason) ==
  /\ runs[r].at = "running"
  /\ reason = "provider" => Target(r) \in Sick  \* the environment: only those fail
  /\ Drop(r)
  /\ Report(r, Charges(reason))
  /\ Becomes(r, Onwards([runs[r] EXCEPT !.failed = TRUE]))
  /\ UNCHANGED engaged

(* The attempt is aborted at the deadline; it counts if it had the slice.    *)
Cut(r) ==
  /\ runs[r].at = "running" /\ r \in Timed
  /\ runs[r].slice => Target(r) \in Sick        \* the environment: others answer within it
  /\ Drop(r)
  /\ Report(r, runs[r].slice)
  /\ Becomes(r, Concluded(runs[r], TRUE))
  /\ UNCHANGED engaged

-----------------------------------------------------------------------------
(* Mutant: a pass that ran nothing is repeated.                              *)
AfterBusyPass(run) == [run EXCEPT !.at = "select"]

(* Mutant: the errors of earlier passes are forgotten.                       *)
AfterLastPass(run) ==
  IF run.ran THEN [run EXCEPT !.at = "select"] ELSE Ends(run, "capacity_wait_timeout")

(* Somebody was passed over: select again after something ran, else answer.  *)
AfterPass(run) ==
  IF run.ran THEN [run EXCEPT !.at = "select"]
  ELSE IF run.failed THEN Concluded(run, FALSE)
  ELSE Ends(run, "capacity_wait_timeout")

PassEnds(r) ==
  /\ runs[r].at = "walk" /\ runs[r].chain = <<>>
  /\ Becomes(r, IF ~ runs[r].busy \/ runs[r].hops >= MaxHops
                THEN Concluded(runs[r], FALSE) ELSE AfterPass(runs[r]))
  /\ UNCHANGED <<circuits, engaged, lanes>>

(* The poller evaluates the conditions of the triggers, ProviderCapacity and *)
(* error rates included.                                                     *)
Poll(t) ==
  /\ \/ t \in engaged /\ engaged' = engaged \ {t}
     \/ t \notin engaged /\ engaged' = engaged \cup {t}
  /\ UNCHANGED <<circuits, lanes, runs>>

Attempt(r) ==
  \/ Answers(r) \/ Refuses(r) \/ Resample(r) \/ Cut(r)
  \/ \E reason \in Reasons : Fails(r, reason)

Step(r) ==
  \/ Select(r) \/ Skip(r) \/ GiveUp(r) \/ Consider(r)
  \/ Enter(r) \/ PassOver(r) \/ Queue(r)
  \/ QuotaDenied(r) \/ Start(r) \/ PassEnds(r)

Next ==
  \/ \E r \in Requests :
       Begin(r) \/ Step(r) \/ Handed(r) \/ WaitEnds(r) \/ Attempt(r)
  \/ \E t \in Targets : Cool(t)
  \/ \E t \in ToSet(Overflows) : Poll(t)

RouterSpec == RouterInit /\ [][Next]_vars

(* A walker runs on, an attempt ends by its answer or a time-out of its      *)
(* provider, a lane that stays free is handed over and the budget of a wait  *)
(* runs out.  Nothing is assumed of requests, cooldowns and triggers.        *)
Fairness ==
  \A r \in Requests : WF_vars(Step(r) \/ Handed(r) \/ WaitEnds(r) \/ Attempt(r))

FairRouterSpec == RouterSpec /\ Fairness

-----------------------------------------------------------------------------
(* Properties.                                                               *)

Runs == [at : Places, chain : Seq(Targets), attempted : SUBSET Targets,
         hops : 0 .. MaxHops, samples : 0 .. Resamples, busy : BOOLEAN, ran : BOOLEAN,
         failed : BOOLEAN, first : BOOLEAN, live : BOOLEAN, slice : BOOLEAN,
         outcome : Outcomes \cup {Nil}]

RouterTypeOK ==
  /\ circuits \in [Targets -> Circuits]
  /\ engaged \subseteq Targets
  /\ lanes \in [Requests -> Pools \cup {Nil}]
  /\ runs \in [Requests -> Runs]
  /\ \A r \in Requests :
       runs[r].at \in {"admit", "waiting", "gate", "running"} => runs[r].chain # <<>>

(* A permit is held only between admission and the end of the attempt it     *)
(* was for, whichever of the many ways out is taken, and no pool is over its *)
(* width: a lane that leaked would be gone until the process restarts.       *)
LanesAreReturned ==
  /\ \A r \in Requests :
       lanes[r] # Nil => /\ runs[r].at \in {"gate", "running"}
                         /\ lanes[r] = PoolOf[Target(r)]
  /\ \A p \in Pools : Cardinality(Holders(p)) <= Width[p]

(* "capacity unavailable" and "exhausted" are said only of a run that sent   *)
(* nothing (its caller puts the job back as if it had not been tried), and   *)
(* an attempt's error or a cut deadline only of a run that did.              *)
OutcomeIsTrue ==
  \A r \in Requests :
    /\ runs[r].outcome \in {"capacity_wait_timeout", "exhausted"} => runs[r].attempted = {}
    /\ runs[r].outcome \in {"attempt_error", "deadline_exceeded", "ok"} => runs[r].attempted # {}

(* A target whose provider does not fail and answers within the slice is     *)
(* never exiled, however many of its outputs are rejected or prompts are too *)
(* long for it, and however little of a deadline an earlier, hung target of  *)
(* the same run leaves it.                                                   *)
HealthyIsNotExiled == \A t \in Targets \ Sick : Live(t)

(* Workflows of different patience share one circuit.  It is never open or   *)
(* half open without the failures in a row that the least patient of them    *)
(* asks for: a cooldown does not forget them, and the next failure that one  *)
(* reports opens it again, whoever else probed and failed meanwhile.  It is  *)
(* closed only while somebody would bear more failures than it has counted.  *)
CircuitsAreJustified ==
  \A t \in Targets :
    LET fails == circuits[t].fails IN
    IF circuits[t].state = "closed"
    THEN fails = 0 \/ \E r \in Requests : fails < FailThreshold[r][t]
    ELSE \E r \in Requests : FailThreshold[r][t] <= fails

(* Every run ends: no pass is repeated without a new attempt, and nobody     *)
(* waits for ever; background work only while more urgent requests keep      *)
(* coming for its lane.                                                      *)
RunsEnd ==
  \A r \in Requests :
    []<>(runs[r].at \in {"idle", "done"}) \/ []<>Outranked(r)
=============================================================================
