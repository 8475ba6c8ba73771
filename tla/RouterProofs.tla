---------------------------- MODULE RouterProofs ----------------------------
(* Theorems about the router, for every set of requests, targets, pools,     *)
(* routes and widths.  Nothing is asked of the chains: whatever order a pass *)
(* draws, the theorems hold.                                                 *)
EXTENDS Router, FiniteSetTheorems, TLAPS

-----------------------------------------------------------------------------
(* A run is a record, whatever its chain is made of.                         *)

RunsOver(c, tried) ==
  [at : Places, chain : {c}, attempted : {tried}, hops : Nat, samples : Nat,
   busy : BOOLEAN, ran : BOOLEAN, failed : BOOLEAN, first : BOOLEAN, live : BOOLEAN,
   slice : BOOLEAN, outcome : Outcomes \cup {Nil}]

(* What a run knows when it ends is what it needs to say the truth.          *)
Sincere(run) ==
  /\ run.at \in {"select", "walk", "admit", "waiting", "gate"}
       => (run.failed <=> run.attempted # {})
  /\ run.at = "running" => run.attempted # {}
  /\ run.at # "done" => run.outcome = Nil
  /\ run.outcome \in {"capacity_wait_timeout", "exhausted"} => run.attempted = {}
  /\ run.outcome \in {"attempt_error", "deadline_exceeded", "ok"} => run.attempted # {}

RunOK(run) == (\E c, tried : run \in RunsOver(c, tried)) /\ Sincere(run)

LEMMA IdleIsSincere ==
  ASSUME NEW place \in {"idle", "select"}
  PROVE  /\ RunOK([Idle EXCEPT !.at = place])
         /\ [Idle EXCEPT !.at = place].at = place
<1>1. PICK run : run = [Idle EXCEPT !.at = place]
  OBVIOUS
<1>2. /\ run \in RunsOver(<<>>, {}) /\ run.at = place
      /\ run.attempted = {} /\ run.outcome = Nil /\ run.failed = FALSE
  BY <1>1 DEF Idle, RunsOver, Places
<1>3. Sincere(run)
  BY <1>2, NilIsNoOutcome DEF Sincere, Outcomes
<1> QED
  BY <1>1, <1>2, <1>3 DEF RunOK

(* A run that goes on after what it could not use.                           *)
LEMMA OnwardsIsSincere ==
  ASSUME NEW run, RunOK(run), run.failed <=> run.attempted # {}, run.at # "done"
  PROVE  RunOK(Onwards(run)) /\ Onwards(run).at = "walk"
<1>1. PICK c, tried : run \in RunsOver(c, tried)
  BY DEF RunOK
<1>2. PICK t : t = Tail(run.chain)
  OBVIOUS
<1>3. PICK next : next = [run EXCEPT !.at = "walk", !.chain = t, !.first = FALSE, !.live = FALSE]
  OBVIOUS
<1>4. next = Onwards(run)
  BY <1>2, <1>3 DEF Onwards
<1>5. next \in RunsOver(t, tried)
  BY <1>1, <1>3 DEF RunsOver, Places
<1>6. /\ next.at = "walk" /\ next.attempted = run.attempted
      /\ next.failed = run.failed /\ next.outcome = run.outcome
  BY <1>1, <1>3 DEF RunsOver
<1>7. Sincere(next)
  BY <1>6 DEF RunOK, Sincere
<1> QED
  BY <1>4, <1>5, <1>6, <1>7 DEF RunOK

LEMMA EndsIsSincere ==
  ASSUME NEW run, RunOK(run), NEW outcome \in Outcomes,
         outcome \in {"capacity_wait_timeout", "exhausted"} => run.attempted = {},
         outcome \in {"attempt_error", "deadline_exceeded", "ok"} => run.attempted # {}
  PROVE  RunOK(Ends(run, outcome)) /\ Ends(run, outcome).at = "done"
<1>1. PICK c, tried : run \in RunsOver(c, tried)
  BY DEF RunOK
<1>2. tried = run.attempted
  BY <1>1 DEF RunsOver
<1>3. PICK next : next = [Idle EXCEPT !.at = "done", !.attempted = tried, !.outcome = outcome]
  OBVIOUS
<1>4. next = Ends(run, outcome)
  BY <1>2, <1>3 DEF Ends
<1>5. /\ next \in RunsOver(<<>>, tried)
      /\ next.at = "done" /\ next.attempted = tried /\ next.outcome = outcome
  BY <1>3 DEF Idle, RunsOver, Places
<1>6. Sincere(next)
  BY <1>2, <1>5 DEF Sincere
<1> QED
  BY <1>4, <1>5, <1>6 DEF RunOK

LEMMA ConcludedIsSincere ==
  ASSUME NEW run, RunOK(run), NEW cut \in BOOLEAN,
         run.failed => run.attempted # {},
         ~ run.failed /\ ~ cut => run.attempted = {},
         cut => run.attempted # {}
  PROVE  RunOK(Concluded(run, cut)) /\ Concluded(run, cut).at = "done"
<1>1. PICK outcome \in Outcomes :
        outcome = IF run.failed THEN "attempt_error"
                  ELSE IF cut THEN "deadline_exceeded" ELSE "exhausted"
  BY DEF Outcomes
<1>2. /\ outcome \in {"capacity_wait_timeout", "exhausted"} => run.attempted = {}
      /\ outcome \in {"attempt_error", "deadline_exceeded", "ok"} => run.attempted # {}
  BY <1>1
<1> QED
  BY <1>1, <1>2, EndsIsSincere DEF Concluded

(* Written in one or a few fields, a run stays a run.                        *)
LEMMA PlaceIsSincere ==
  ASSUME NEW run, RunOK(run), run.failed <=> run.attempted # {}, run.at # "done",
         NEW place \in {"walk", "select", "admit", "waiting", "gate"}
  PROVE  /\ RunOK([run EXCEPT !.at = place])
         /\ [run EXCEPT !.at = place].at = place
         /\ [run EXCEPT !.at = place].chain = run.chain
<1>1. PICK c, tried : run \in RunsOver(c, tried)
  BY DEF RunOK
<1>2. PICK next : next = [run EXCEPT !.at = place]
  OBVIOUS
<1>3. next \in RunsOver(c, tried)
  BY <1>1, <1>2 DEF RunsOver, Places
<1>4. /\ next.at = place /\ next.attempted = run.attempted /\ next.chain = run.chain
      /\ next.failed = run.failed /\ next.outcome = run.outcome
  BY <1>1, <1>2 DEF RunsOver
<1>5. Sincere(next)
  BY <1>4 DEF RunOK, Sincere
<1> QED
  BY <1>2, <1>3, <1>4, <1>5 DEF RunOK

-----------------------------------------------------------------------------
(* The invariant.                                                            *)

RouterInv ==
  /\ DOMAIN runs = Requests /\ DOMAIN lanes = Requests
  /\ circuits \in [Targets -> Circuits]
  /\ \A r \in Requests : RunOK(runs[r])
  /\ LanesAreReturned
  /\ HealthyIsNotExiled /\ CircuitsAreJustified

(* One run moves on and the others stay.                                     *)
OneRun(r, run) == runs' = [runs EXCEPT ![r] = run] /\ RunOK(run)

(* The circuits keep their types and what is promised of them.               *)
CircuitsOK ==
  /\ circuits' \in [Targets -> Circuits]
  /\ HealthyIsNotExiled' /\ CircuitsAreJustified'

LEMMA HoldersFinite ==
  ASSUME NEW S \in SUBSET Requests
  PROVE  IsFiniteSet(S) /\ Cardinality(S) \in Nat
<1> QED
  BY FS_Subset, FS_CardinalityType, RouterAssumption

(* No lane is taken: the request holds none, or goes on with the one it has, *)
(* or gives it back.                                                         *)
LEMMA NoLaneTaken ==
  ASSUME RouterInv, CircuitsOK, NEW r \in Requests, NEW run, OneRun(r, run),
         \/ lanes' = lanes /\ runs[r].at \notin {"gate", "running"}
         \/ /\ lanes' = lanes /\ run.at \in {"gate", "running"}
            /\ run.chain = runs[r].chain
         \/ Drop(r)
  PROVE  RouterInv'
<1>1. /\ DOMAIN runs' = Requests /\ DOMAIN lanes' = Requests
      /\ runs'[r] = run
      /\ \A q \in Requests \ {r} : runs'[q] = runs[q]
  BY DEF RouterInv, OneRun, Drop
<1>2. \A q \in Requests : RunOK(runs'[q])
  BY <1>1 DEF RouterInv, OneRun
<1>3. \A q \in Requests \ {r} : lanes'[q] = lanes[q]
  BY DEF RouterInv, Drop
<1>4. lanes'[r] = Nil \/ (lanes'[r] = lanes[r] /\ run.at \in {"gate", "running"} /\ run.chain = runs[r].chain)
  BY DEF RouterInv, LanesAreReturned, Drop
<1>5. ASSUME NEW q \in Requests, lanes'[q] # Nil
      PROVE  /\ runs'[q].at \in {"gate", "running"}
             /\ lanes'[q] = PoolOf[Head(runs'[q].chain)]
  <2>1. CASE q = r
    BY <1>1, <1>4, <1>5, <2>1 DEF RouterInv, LanesAreReturned, Target
  <2>2. CASE q # r
    BY <1>1, <1>3, <1>5, <2>2 DEF RouterInv, LanesAreReturned, Target
  <2> QED
    BY <2>1, <2>2
<1>6. ASSUME NEW p \in Pools
      PROVE  Cardinality(Holders(p)') <= Width[p]
  <2>1. \A q \in Requests : lanes'[q] = p => lanes[q] = p
    BY <1>3, <1>4, RouterAssumption
  <2>2. PICK old \in SUBSET Requests, new \in SUBSET Requests :
          old = Holders(p) /\ new = Holders(p)'
    BY DEF Holders
  <2>3. Cardinality(new) <= Cardinality(old)
    <3>1. new \subseteq old
      BY <2>1, <2>2 DEF Holders
    <3> QED
      BY <3>1, HoldersFinite, FS_Subset
  <2>4. Cardinality(old) <= Width[p] /\ Width[p] \in Nat
    BY <2>2, RouterAssumption DEF RouterInv, LanesAreReturned
  <2> QED
    BY <2>2, <2>3, <2>4, HoldersFinite
<1>7. LanesAreReturned'
  BY <1>5, <1>6 DEF LanesAreReturned, Target
<1> QED
  BY <1>1, <1>2, <1>7 DEF RouterInv, CircuitsOK

(* A lane is taken that was free.                                            *)
LEMMA LaneTaken ==
  ASSUME RouterInv, CircuitsOK, NEW r \in Requests, NEW run, OneRun(r, run),
         run.at = "gate", run.chain = runs[r].chain,
         HasLane(PoolOf[Target(r)]),
         lanes' = [lanes EXCEPT ![r] = PoolOf[Target(r)]]
  PROVE  RouterInv'
<1>1. /\ DOMAIN runs' = Requests /\ DOMAIN lanes' = Requests
      /\ runs'[r] = run
      /\ \A q \in Requests \ {r} : runs'[q] = runs[q]
      /\ lanes'[r] = PoolOf[Target(r)]
      /\ \A q \in Requests \ {r} : lanes'[q] = lanes[q]
  BY DEF RouterInv, OneRun
<1>2. \A q \in Requests : RunOK(runs'[q])
  BY <1>1 DEF RouterInv, OneRun
<1>3. ASSUME NEW q \in Requests, lanes'[q] # Nil
      PROVE  /\ runs'[q].at \in {"gate", "running"}
             /\ lanes'[q] = PoolOf[Head(runs'[q].chain)]
  <2>1. CASE q = r
    BY <1>1, <2>1 DEF Target
  <2>2. CASE q # r
    BY <1>1, <1>3, <2>2 DEF RouterInv, LanesAreReturned, Target
  <2> QED
    BY <2>1, <2>2
<1>4. ASSUME NEW p \in Pools
      PROVE  Cardinality(Holders(p)') <= Width[p]
  <2>1. PICK old \in SUBSET Requests, new \in SUBSET Requests :
          old = Holders(p) /\ new = Holders(p)'
    BY DEF Holders
  <2>2. Cardinality(old) <= Width[p] /\ Width[p] \in Nat /\ p # Nil
    BY <2>1, RouterAssumption DEF RouterInv, LanesAreReturned
  <2>3. CASE PoolOf[Target(r)] = p
    <3>1. Cardinality(old) < Width[p]
      BY <2>1, <2>2, <2>3 DEF HasLane
    <3>2. new \subseteq old \cup {r}
      BY <1>1, <2>1 DEF Holders
    <3>3. Cardinality(old \cup {r}) <= Cardinality(old) + 1
      BY HoldersFinite, FS_AddElement
    <3>4. Cardinality(new) <= Cardinality(old \cup {r})
      BY <3>2, HoldersFinite, FS_Subset
    <3>5. Cardinality(old \cup {r}) \in Nat
      BY HoldersFinite
    <3> QED
      BY <2>1, <2>2, <3>1, <3>3, <3>4, <3>5, HoldersFinite
  <2>4. CASE PoolOf[Target(r)] # p
    <3>1. new \subseteq old
      BY <1>1, <2>1, <2>4 DEF Holders
    <3>2. Cardinality(new) <= Cardinality(old)
      BY <3>1, HoldersFinite, FS_Subset
    <3> QED
      BY <2>1, <2>2, <3>2, HoldersFinite
  <2> QED
    BY <2>3, <2>4
<1>5. LanesAreReturned'
  BY <1>3, <1>4 DEF LanesAreReturned, Target
<1> QED
  BY <1>1, <1>2, <1>5 DEF RouterInv, CircuitsOK

-----------------------------------------------------------------------------
(* The breaker.                                                              *)

(* What CircuitsAreJustified says of one target.                             *)
Justified(t, c) ==
  IF c.state = "closed"
  THEN c.fails = 0 \/ \E r \in Requests : c.fails < FailThreshold[r][t]
  ELSE \E r \in Requests : FailThreshold[r][t] <= c.fails

LEMMA SameCircuits ==
  ASSUME RouterInv, circuits' = circuits
  PROVE  CircuitsOK
<1> QED
  BY DEF RouterInv, CircuitsOK, HealthyIsNotExiled, CircuitsAreJustified, Live

(* One circuit is written.                                                   *)
LEMMA OneCircuit ==
  ASSUME RouterInv, NEW t, NEW c \in Circuits,
         circuits' = [circuits EXCEPT ![t] = c],
         c.state = "open" => t \in Sick \/ circuits[t].state = "open",
         t \in Targets => Justified(t, c)
  PROVE  CircuitsOK
<1>1. /\ circuits' \in [Targets -> Circuits]
      /\ \A q \in Targets \ {t} : circuits'[q] = circuits[q]
      /\ t \in Targets => circuits'[t] = c
  BY DEF RouterInv
<1>2. HealthyIsNotExiled'
  BY <1>1 DEF RouterInv, HealthyIsNotExiled, Live
<1>3. ASSUME NEW q \in Targets
      PROVE  Justified(q, circuits'[q])
  <2>1. CASE q = t
    BY <1>1, <2>1
  <2>2. CASE q # t
    BY <1>1, <2>2 DEF RouterInv, CircuitsAreJustified, Justified
  <2> QED
    BY <2>1, <2>2
<1>4. CircuitsAreJustified'
  BY <1>3 DEF CircuitsAreJustified, Justified
<1> QED
  BY <1>1, <1>2, <1>4 DEF CircuitsOK

LEMMA ClosedCircuit ==
  [fails |-> 0, state |-> "closed"] \in Circuits
<1>1. 0 \in 0 .. MaxFails
  BY RouterAssumption
<1> QED
  BY <1>1 DEF Circuits

LEMMA SuccessKeeps ==
  ASSUME RouterInv, NEW t, RecordSuccess(t)
  PROVE  CircuitsOK
<1>1. PICK c \in Circuits : c = [fails |-> 0, state |-> "closed"]
  BY ClosedCircuit
<1>2. c.state = "closed" /\ Justified(t, c)
  BY <1>1 DEF Justified
<1>3. circuits' = [circuits EXCEPT ![t] = c]
  BY <1>1 DEF RecordSuccess
<1> QED
  BY <1>2, <1>3, OneCircuit

(* One failure more, whoever reports it: a circuit that was closed stays     *)
(* so only while the reporter bears more, and what opened a circuit still is *)
(* enough to.                                                                *)
LEMMA ChargedIsJustified ==
  ASSUME NEW r \in Requests, NEW t \in Targets, NEW c \in Circuits, Justified(t, c)
  PROVE  /\ Charged(c, FailThreshold[r][t]) \in Circuits
         /\ Justified(t, Charged(c, FailThreshold[r][t]))
<1>1. PICK n \in 1 .. MaxFails : n = FailThreshold[r][t]
  BY RouterAssumption
<1>2. c.fails \in 0 .. MaxFails /\ c.state \in {"closed", "open", "cooled"} /\ MaxFails \in Nat
  BY RouterAssumption DEF Circuits
<1>3. PICK k \in 0 .. MaxFails : /\ k = IF c.fails < MaxFails THEN c.fails + 1 ELSE c.fails
                                 /\ c.fails <= k
                                 /\ c.fails + 1 >= n => n <= k
                                 /\ ~ (c.fails + 1 >= n) => k < n
  <2>1. CASE c.fails < MaxFails
    <3>1. c.fails + 1 \in 0 .. MaxFails
      BY <1>2, <2>1
    <3> QED
      BY <1>1, <1>2, <2>1, <3>1
  <2>2. CASE ~ (c.fails < MaxFails)
    BY <1>1, <1>2, <2>2
  <2> QED
    BY <2>1, <2>2
<1>4. PICK new : new = [fails |-> k, state |-> IF c.fails + 1 >= n THEN "open" ELSE c.state]
  OBVIOUS
<1>5. new = Charged(c, FailThreshold[r][t])
  BY <1>1, <1>3, <1>4 DEF Charged
<1>6. new \in Circuits
  BY <1>2, <1>3, <1>4 DEF Circuits
<1>7. new.fails = k /\ new.state = IF c.fails + 1 >= n THEN "open" ELSE c.state
  BY <1>4
<1>8. Justified(t, new)
  <2>1. CASE c.fails + 1 >= n
    BY <1>1, <1>3, <1>7, <2>1 DEF Justified
  <2>2. CASE ~ (c.fails + 1 >= n) /\ c.state = "closed"
    BY <1>1, <1>3, <1>7, <2>2 DEF Justified
  <2>3. CASE ~ (c.fails + 1 >= n) /\ c.state # "closed"
    <3>1. PICK q \in Requests : FailThreshold[q][t] <= c.fails
      BY <2>3 DEF Justified
    <3>2. FailThreshold[q][t] \in 1 .. MaxFails
      BY RouterAssumption
    <3>3. FailThreshold[q][t] <= k
      BY <1>2, <1>3, <3>1, <3>2
    <3> QED
      BY <1>7, <2>3, <3>3 DEF Justified
  <2> QED
    BY <2>1, <2>2, <2>3
<1> QED
  BY <1>5, <1>6, <1>8

LEMMA ReportKeeps ==
  ASSUME RouterInv, NEW r \in Requests, NEW charged, Report(r, charged),
         charged => Target(r) \in Sick
  PROVE  CircuitsOK
<1>1. CASE circuits' = circuits
  BY <1>1, SameCircuits
<1>2. CASE Target(r) \in Targets /\ Target(r) \in Sick /\ RecordFailure(r, Target(r))
  <2>1. PICK t \in Targets, c \in Circuits : t = Target(r) /\ c = circuits[t] /\ Justified(t, c)
    BY <1>2 DEF RouterInv, CircuitsAreJustified, Justified
  <2>2. PICK new \in Circuits : new = Charged(c, FailThreshold[r][t]) /\ Justified(t, new)
    BY <2>1, ChargedIsJustified
  <2>3. circuits' = [circuits EXCEPT ![t] = new]
    BY <1>2, <2>1, <2>2 DEF RecordFailure, RouterInv
  <2> QED
    BY <1>2, <2>1, <2>2, <2>3, OneCircuit
<1>3. CASE Target(r) \notin Targets /\ RecordFailure(r, Target(r))
  <2>1. circuits' = circuits
    BY <1>3 DEF RecordFailure, RouterInv
  <2> QED
    BY <2>1, SameCircuits
<1> QED
  BY <1>1, <1>2, <1>3 DEF Report

LEMMA CoolKeeps ==
  ASSUME RouterInv, NEW t \in Targets, Cool(t)
  PROVE  RouterInv'
<1>1. circuits[t] \in Circuits /\ circuits[t].state = "open" /\ Justified(t, circuits[t])
  BY DEF RouterInv, Cool, CircuitsAreJustified, Justified
<1>2. PICK old \in Circuits : old = circuits[t]
  BY <1>1
<1>3. PICK c \in Circuits : /\ c = [old EXCEPT !.state = "cooled"]
                            /\ c.state = "cooled" /\ c.fails = old.fails
  <2>1. /\ [old EXCEPT !.state = "cooled"] \in Circuits
        /\ [old EXCEPT !.state = "cooled"].state = "cooled"
        /\ [old EXCEPT !.state = "cooled"].fails = old.fails
    BY DEF Circuits
  <2> QED
    BY <2>1
<1>4. circuits' = [circuits EXCEPT ![t] = c]
  BY <1>2, <1>3 DEF Cool, RouterInv
<1>5. Justified(t, c)
  BY <1>1, <1>2, <1>3 DEF Justified
<1>6. CircuitsOK
  BY <1>3, <1>4, <1>5, OneCircuit
<1>7. lanes' = lanes /\ runs' = runs
  BY DEF Cool
<1> QED
  BY <1>6, <1>7 DEF RouterInv, CircuitsOK, LanesAreReturned, Holders, Target

-----------------------------------------------------------------------------
(* The steps of a run.                                                       *)

(* A step that touches neither circuits nor lanes, outside an admission.     *)
LEMMA QuietStep ==
  ASSUME RouterInv, NEW r \in Requests, NEW run, RunOK(run),
         runs' = [runs EXCEPT ![r] = run],
         UNCHANGED <<circuits, engaged, lanes>>,
         \/ runs[r].at \notin {"gate", "running"}
         \/ run.at \in {"gate", "running"} /\ run.chain = runs[r].chain
  PROVE  RouterInv'
<1>1. CircuitsOK
  BY SameCircuits
<1>2. OneRun(r, run)
  BY DEF OneRun
<1> QED
  BY <1>1, <1>2, NoLaneTaken

LEMMA BeginKeeps ==
  ASSUME RouterInv, NEW r \in Requests, Begin(r)
  PROVE  RouterInv'
<1>1. PICK run : run = [Idle EXCEPT !.at = "select"]
  OBVIOUS
<1>2. RunOK(run)
  BY <1>1, IdleIsSincere
<1> QED
  BY <1>1, <1>2, QuietStep DEF Begin, Becomes

LEMMA SelectKeeps ==
  ASSUME RouterInv, NEW r \in Requests, Select(r)
  PROVE  RouterInv'
<1>1. PICK run : run = runs[r]
  OBVIOUS
<1>2. RunOK(run) /\ run.at = "select"
  BY <1>1 DEF RouterInv, Select
<1>3. PICK attempts : Becomes(r, IF attempts = <<>> THEN Ends(run, "no_candidates")
                                 ELSE [run EXCEPT !.at = "walk", !.chain = attempts,
                                                  !.busy = FALSE, !.ran = FALSE])
  BY <1>1 DEF Select
<1>4. CASE attempts = <<>>
  <2>1. RunOK(Ends(run, "no_candidates"))
    BY <1>2, EndsIsSincere DEF Outcomes
  <2> QED
    BY <1>1, <1>2, <1>3, <1>4, <2>1, QuietStep DEF Select, Becomes
<1>5. CASE attempts # <<>>
  <2>1. PICK c, tried : run \in RunsOver(c, tried)
    BY <1>2 DEF RunOK
  <2>2. PICK new : new = [run EXCEPT !.at = "walk", !.chain = attempts, !.busy = FALSE, !.ran = FALSE]
    OBVIOUS
  <2>3. /\ new \in RunsOver(attempts, tried) /\ new.at = "walk"
        /\ new.attempted = run.attempted /\ new.failed = run.failed /\ new.outcome = run.outcome
    BY <2>1, <2>2 DEF RunsOver, Places
  <2>4. RunOK(new)
    BY <1>2, <2>3 DEF RunOK, Sincere
  <2> QED
    BY <1>1, <1>2, <1>3, <1>5, <2>2, <2>4, QuietStep DEF Select, Becomes
<1> QED
  BY <1>4, <1>5

LEMMA WalkKeeps ==
  ASSUME RouterInv, NEW r \in Requests, Skip(r) \/ GiveUp(r) \/ Consider(r)
  PROVE  RouterInv'
<1>1. PICK run : run = runs[r]
  OBVIOUS
<1>2. /\ RunOK(run) /\ run.at = "walk"
      /\ run.failed <=> run.attempted # {}
  BY <1>1 DEF RouterInv, Skip, GiveUp, Consider, Walking, RunOK, Sincere
<1>3. UNCHANGED <<circuits, engaged, lanes>>
  BY DEF Skip, GiveUp, Consider
<1>4. CASE Skip(r)
  <2>1. RunOK(Onwards(run))
    BY <1>2, OnwardsIsSincere
  <2> QED
    BY <1>1, <1>2, <1>3, <1>4, <2>1, QuietStep DEF Skip, Becomes
<1>5. CASE GiveUp(r)
  <2>1. RunOK(Concluded(run, FALSE))
    BY <1>2, ConcludedIsSincere
  <2> QED
    BY <1>1, <1>2, <1>3, <1>5, <2>1, QuietStep DEF GiveUp, Becomes
<1>6. CASE Consider(r)
  <2>1. PICK c, tried : run \in RunsOver(c, tried)
    BY <1>2 DEF RunOK
  <2>2. PICK live \in BOOLEAN : live = Live(Target(r))
    BY DEF Live
  <2>3. PICK new : new = [run EXCEPT !.at = "admit", !.first = TRUE, !.live = live]
    OBVIOUS
  <2>4. /\ new \in RunsOver(c, tried) /\ new.at = "admit"
        /\ new.attempted = run.attempted /\ new.failed = run.failed /\ new.outcome = run.outcome
    BY <2>1, <2>3 DEF RunsOver, Places
  <2>5. RunOK(new)
    BY <1>2, <2>4 DEF RunOK, Sincere
  <2>6. runs' = [runs EXCEPT ![r] = new]
    BY <1>1, <1>6, <2>2, <2>3 DEF Consider, Becomes
  <2> QED
    BY <1>1, <1>2, <1>3, <2>5, <2>6, QuietStep
<1> QED
  BY <1>4, <1>5, <1>6

LEMMA PassedOverIsSincere ==
  ASSUME NEW run, RunOK(run), run.at \in {"admit", "waiting"}
  PROVE  RunOK(PassedOver(run))
<1>1. PICK c, tried : run \in RunsOver(c, tried)
  BY DEF RunOK
<1>2. PICK busy \in BOOLEAN : busy = (run.busy \/ run.first)
  BY <1>1 DEF RunsOver
<1>3. PICK new : new = [run EXCEPT !.busy = busy]
  OBVIOUS
<1>4. /\ new \in RunsOver(c, tried) /\ new.at = run.at
      /\ new.attempted = run.attempted /\ new.failed = run.failed /\ new.outcome = run.outcome
  BY <1>1, <1>3 DEF RunsOver
<1>5. RunOK(new) /\ (new.failed <=> new.attempted # {}) /\ new.at # "done"
  BY <1>4 DEF RunOK, Sincere
<1>6. PassedOver(run) = Onwards(new)
  BY <1>1, <1>2, <1>3 DEF PassedOver
<1> QED
  BY <1>5, <1>6, OnwardsIsSincere

LEMMA AdmissionKeeps ==
  ASSUME RouterInv, NEW r \in Requests,
         Enter(r) \/ PassOver(r) \/ Queue(r) \/ Handed(r) \/ WaitEnds(r)
  PROVE  RouterInv'
<1>1. PICK run : run = runs[r]
  OBVIOUS
<1>2. /\ RunOK(run) /\ run.at \in {"admit", "waiting"} /\ run.at # "done"
      /\ run.failed <=> run.attempted # {}
  BY <1>1 DEF RouterInv, Enter, PassOver, Queue, Handed, WaitEnds, RunOK, Sincere
<1>3. CASE PassOver(r) \/ WaitEnds(r)
  <2>1. RunOK(PassedOver(run))
    BY <1>2, PassedOverIsSincere
  <2>2. runs' = [runs EXCEPT ![r] = PassedOver(run)] /\ UNCHANGED <<circuits, engaged, lanes>>
    BY <1>1, <1>3 DEF PassOver, WaitEnds, Becomes
  <2> QED
    BY <1>1, <1>2, <2>1, <2>2, QuietStep
<1>4. CASE Queue(r)
  <2>1. PICK new : new = [run EXCEPT !.at = "waiting"]
    OBVIOUS
  <2>2. RunOK(new)
    BY <1>2, <2>1, PlaceIsSincere
  <2>3. runs' = [runs EXCEPT ![r] = new] /\ UNCHANGED <<circuits, engaged, lanes>>
    BY <1>1, <1>4, <2>1 DEF Queue
  <2> QED
    BY <1>1, <1>2, <2>2, <2>3, QuietStep
<1>5. CASE Enter(r) \/ Handed(r)
  <2>1. PICK new : new = [run EXCEPT !.at = "gate"]
    OBVIOUS
  <2>2. RunOK(new) /\ new.at = "gate" /\ new.chain = run.chain
    BY <1>2, <2>1, PlaceIsSincere
  <2>3. OneRun(r, new)
    BY <1>1, <1>5, <2>1, <2>2 DEF Enter, Handed, Admitted, OneRun
  <2>4. CircuitsOK
    BY <1>5, SameCircuits DEF Enter, Handed
  <2>5. HasLane(PoolOf[Target(r)]) /\ lanes' = [lanes EXCEPT ![r] = PoolOf[Target(r)]]
    BY <1>5 DEF Enter, Handed, HasFreeLane, Admitted
  <2> QED
    BY <1>1, <2>2, <2>3, <2>4, <2>5, LaneTaken
<1> QED
  BY <1>3, <1>4, <1>5

LEMMA GateKeeps ==
  ASSUME RouterInv, NEW r \in Requests, QuotaDenied(r) \/ Start(r)
  PROVE  RouterInv'
<1>1. PICK run : run = runs[r]
  OBVIOUS
<1>2. /\ RunOK(run) /\ run.at = "gate"
      /\ run.failed <=> run.attempted # {}
  BY <1>1 DEF RouterInv, QuotaDenied, Start, RunOK, Sincere
<1>3. CASE QuotaDenied(r)
  <2>1. RunOK(Onwards(run))
    BY <1>2, OnwardsIsSincere
  <2>2. OneRun(r, Onwards(run)) /\ Drop(r)
    BY <1>1, <1>3, <2>1 DEF QuotaDenied, Denied, Becomes, OneRun
  <2>3. CircuitsOK
    BY <1>3, SameCircuits DEF QuotaDenied
  <2> QED
    BY <2>2, <2>3, NoLaneTaken
<1>4. CASE Start(r)
  <2>1. PICK c, old : run \in RunsOver(c, old)
    BY <1>2 DEF RunOK
  <2>2. lanes' = lanes /\ UNCHANGED <<circuits, engaged>>
    BY <1>4 DEF Start
  <2>3. PICK tried : tried = run.attempted \cup {Target(r)}
    OBVIOUS
  <2>4. PICK hops \in Nat : hops = IF run.first THEN run.hops + 1 ELSE run.hops
    BY <2>1 DEF RunsOver
  <2>5. PICK ran \in BOOLEAN : ran = (run.ran \/ run.first)
    BY <2>1 DEF RunsOver
  <2>10. PICK slice \in BOOLEAN :
           Becomes(r, [run EXCEPT !.at = "running", !.attempted = @ \cup {Target(r)},
                                  !.hops = IF run.first THEN @ + 1 ELSE @,
                                  !.ran = @ \/ run.first, !.first = FALSE, !.slice = slice])
    <3>1. run.slice \in BOOLEAN
      BY <2>1 DEF RunsOver
    <3> QED
      BY <1>1, <1>4, <3>1 DEF Start
  <2>6. PICK new : new = [run EXCEPT !.at = "running", !.attempted = tried, !.hops = hops,
                                     !.ran = ran, !.first = FALSE, !.slice = slice]
    OBVIOUS
  <2>7. /\ new \in RunsOver(c, tried) /\ new.at = "running" /\ new.attempted = tried
        /\ new.chain = run.chain /\ new.outcome = run.outcome
    BY <2>1, <2>6 DEF RunsOver, Places
  <2>8. RunOK(new)
    <3>1. new.attempted # {}
      BY <2>3, <2>7
    <3>2. new.outcome = Nil
      BY <1>2, <2>7 DEF RunOK, Sincere
    <3>3. Sincere(new)
      BY <2>7, <3>1, <3>2, NilIsNoOutcome DEF Sincere, Outcomes
    <3> QED
      BY <2>7, <3>3 DEF RunOK
  <2>9. runs' = [runs EXCEPT ![r] = new]
    BY <2>1, <2>3, <2>4, <2>5, <2>10, <2>6 DEF Becomes, RunsOver
  <2> QED
    BY <1>1, <2>2, <2>7, <2>8, <2>9, QuietStep
<1> QED
  BY <1>3, <1>4

(* An attempt ends: the lane goes back, and the run knows what to say.       *)
LEMMA AttemptKeeps ==
  ASSUME RouterInv, NEW r \in Requests, Attempt(r)
  PROVE  RouterInv'
<1>1. PICK run : run = runs[r]
  OBVIOUS
<1>2. /\ RunOK(run) /\ run.at = "running" /\ run.attempted # {}
      /\ Drop(r)
  BY <1>1 DEF RouterInv, Attempt, Answers, Refuses, Resample, Fails, Cut, RunOK, Sincere
<1>3. CASE Answers(r)
  <2>1. RunOK(Ends(run, "ok"))
    BY <1>2, EndsIsSincere DEF Outcomes
  <2>2. OneRun(r, Ends(run, "ok"))
    BY <1>1, <1>3, <2>1 DEF Answers, Becomes, OneRun
  <2>3. CircuitsOK
    BY <1>3, SuccessKeeps DEF Answers
  <2> QED
    BY <1>2, <2>2, <2>3, NoLaneTaken
<1>4. CASE Refuses(r)
  <2>1. RunOK(Ends(run, "attempt_error"))
    BY <1>2, EndsIsSincere DEF Outcomes
  <2>2. OneRun(r, Ends(run, "attempt_error"))
    BY <1>1, <1>4, <2>1 DEF Refuses, Becomes, OneRun
  <2>3. CircuitsOK
    BY <1>4, SameCircuits DEF Refuses
  <2> QED
    BY <1>2, <2>2, <2>3, NoLaneTaken
<1>5. PICK c, tried : run \in RunsOver(c, tried)
  BY <1>2 DEF RunOK
<1>6. PICK failed : failed = [run EXCEPT !.failed = TRUE]
  OBVIOUS
<1>7. /\ failed \in RunsOver(c, tried) /\ failed.at = "running" /\ failed.attempted = run.attempted
      /\ failed.failed = TRUE /\ failed.outcome = run.outcome
  BY <1>2, <1>5, <1>6 DEF RunsOver
<1>8. RunOK(failed)
  BY <1>2, <1>7 DEF RunOK, Sincere
<1>9. CASE Resample(r)
  <2>1. PICK samples \in Nat : samples = run.samples + 1
    BY <1>5 DEF RunsOver
  <2>2. PICK new : new = [run EXCEPT !.at = "admit", !.samples = samples, !.failed = TRUE]
    OBVIOUS
  <2>3. /\ new \in RunsOver(c, tried) /\ new.at = "admit" /\ new.attempted = run.attempted
        /\ new.failed = TRUE /\ new.outcome = run.outcome
    BY <1>5, <2>2 DEF RunsOver, Places
  <2>4. RunOK(new)
    BY <1>2, <2>3 DEF RunOK, Sincere
  <2>5. OneRun(r, new)
    BY <1>1, <1>9, <2>1, <2>2, <2>4 DEF Resample, Becomes, OneRun
  <2>6. CircuitsOK
    BY <1>9, SameCircuits DEF Resample
  <2> QED
    BY <1>2, <2>5, <2>6, NoLaneTaken
<1>10. ASSUME NEW reason \in Reasons, Fails(r, reason)
       PROVE  RouterInv'
  <2>1. RunOK(Onwards(failed))
    BY <1>2, <1>7, <1>8, OnwardsIsSincere
  <2>2. OneRun(r, Onwards(failed))
    BY <1>1, <1>6, <1>10, <2>1 DEF Fails, Becomes, OneRun
  <2>3. CircuitsOK
    BY <1>10, ReportKeeps DEF Fails, Charges, Reasons
  <2> QED
    BY <1>2, <2>2, <2>3, NoLaneTaken
<1>11. CASE Cut(r)
  <2>1. RunOK(Concluded(run, TRUE))
    BY <1>2, ConcludedIsSincere
  <2>2. OneRun(r, Concluded(run, TRUE))
    BY <1>1, <1>11, <2>1 DEF Cut, Becomes, OneRun
  <2>3. CircuitsOK
    BY <1>11, ReportKeeps DEF Cut
  <2> QED
    BY <1>2, <2>2, <2>3, NoLaneTaken
<1> QED
  BY <1>3, <1>4, <1>9, <1>10, <1>11 DEF Attempt

LEMMA PassKeeps ==
  ASSUME RouterInv, NEW r \in Requests, PassEnds(r)
  PROVE  RouterInv'
<1>1. PICK run : run = runs[r]
  OBVIOUS
<1>2. /\ RunOK(run) /\ run.at = "walk" /\ run.at # "done"
      /\ run.failed <=> run.attempted # {}
  BY <1>1 DEF RouterInv, PassEnds, RunOK, Sincere
<1>3. /\ RunOK(Concluded(run, FALSE)) /\ RunOK([run EXCEPT !.at = "select"])
      /\ run.attempted = {} => RunOK(Ends(run, "capacity_wait_timeout"))
  BY <1>2, ConcludedIsSincere, PlaceIsSincere, EndsIsSincere DEF Outcomes
<1>4. PICK new : new = IF ~ run.busy \/ run.hops >= MaxHops
                       THEN Concluded(run, FALSE) ELSE AfterPass(run)
  OBVIOUS
<1>5. RunOK(new)
  BY <1>2, <1>3, <1>4 DEF AfterPass
<1>6. runs' = [runs EXCEPT ![r] = new] /\ UNCHANGED <<circuits, engaged, lanes>>
  BY <1>1, <1>4 DEF PassEnds, Becomes
<1> QED
  BY <1>1, <1>2, <1>5, <1>6, QuietStep

-----------------------------------------------------------------------------
(* The specification.                                                        *)

LEMMA NothingMoves ==
  ASSUME RouterInv, UNCHANGED <<circuits, lanes, runs>>
  PROVE  RouterInv'
<1>1. CircuitsOK
  BY SameCircuits
<1> QED
  BY <1>1 DEF RouterInv, CircuitsOK, LanesAreReturned, Holders, Target

LEMMA InitInv ==
  ASSUME RouterInit
  PROVE  RouterInv
<1>1. DOMAIN runs = Requests /\ DOMAIN lanes = Requests
  BY DEF RouterInit
<1>2. RunOK(Idle)
  <2>1. Idle \in RunsOver(<<>>, {}) /\ Sincere(Idle)
    BY NilIsNoOutcome DEF Idle, RunsOver, Places, Sincere, Outcomes
  <2> QED
    BY <2>1 DEF RunOK
<1>3. \A r \in Requests : RunOK(runs[r])
  BY <1>2 DEF RouterInit
<1>4. \A t \in Targets : circuits[t].fails = 0 /\ circuits[t].state = "closed"
  BY DEF RouterInit
<1>5. circuits \in [Targets -> Circuits]
  BY ClosedCircuit DEF RouterInit
<1>6. HealthyIsNotExiled /\ CircuitsAreJustified
  BY <1>4 DEF HealthyIsNotExiled, CircuitsAreJustified, Live
<1>7. LanesAreReturned
  <2>1. \A r \in Requests : lanes[r] = Nil
    BY DEF RouterInit
  <2>2. ASSUME NEW p \in Pools
        PROVE  Cardinality(Holders(p)) <= Width[p]
    <3>1. Holders(p) = {}
      BY <2>1, RouterAssumption DEF Holders
    <3>2. Width[p] \in Nat
      BY RouterAssumption
    <3> QED
      BY <3>1, <3>2, FS_EmptySet
  <2> QED
    BY <2>1, <2>2 DEF LanesAreReturned
<1> QED
  BY <1>1, <1>3, <1>5, <1>6, <1>7 DEF RouterInv

LEMMA StepKeeps ==
  ASSUME RouterInv, [Next]_vars
  PROVE  RouterInv'
<1>1. ASSUME NEW r \in Requests, Step(r)
      PROVE  RouterInv'
  BY <1>1, SelectKeeps, WalkKeeps, AdmissionKeeps, GateKeeps, PassKeeps DEF Step
<1>2. ASSUME NEW t, Poll(t)
      PROVE  RouterInv'
  BY <1>2, NothingMoves DEF Poll
<1>3. CASE UNCHANGED vars
  BY <1>3, NothingMoves DEF vars
<1> QED
  BY <1>1, <1>2, <1>3, BeginKeeps, AdmissionKeeps, AttemptKeeps, CoolKeeps DEF Next

(* The inductive invariant: what each run says of itself is true, circuits   *)
(* are counted as the breaker counts them, and permits come back.            *)
THEOREM RouterInvariance == RouterSpec => []RouterInv
<1>1. RouterInit => RouterInv
  BY InitInv
<1>2. RouterInv /\ [Next]_vars => RouterInv'
  BY StepKeeps
<1> QED
  BY <1>1, <1>2, PTL DEF RouterSpec

(* A permit is held only around the attempt it was for, and no pool is over  *)
(* its width, for any number of requests and any routes.                     *)
THEOREM NoLaneIsKept == RouterSpec => []LanesAreReturned
<1>1. RouterInv => LanesAreReturned
  BY DEF RouterInv
<1> QED
  BY <1>1, RouterInvariance, PTL

(* What a run tells its caller is what happened: "exhausted" and "capacity"  *)
(* only of a run that sent nothing.                                          *)
THEOREM OutcomesAreTrue == RouterSpec => []OutcomeIsTrue
<1>1. RouterInv => OutcomeIsTrue
  BY DEF RouterInv, RunOK, Sincere, OutcomeIsTrue
<1> QED
  BY <1>1, RouterInvariance, PTL

(* No circuit of a target whose provider does not fail and answers within    *)
(* the slice is ever open, for any mix of deadlines, rejections and retries. *)
THEOREM HealthyStayLive == RouterSpec => []HealthyIsNotExiled
<1>1. RouterInv => HealthyIsNotExiled
  BY DEF RouterInv
<1> QED
  BY <1>1, RouterInvariance, PTL

(* Whatever thresholds the workflows have that share a circuit and in        *)
(* whatever order their probes report, it is open or half open only with the *)
(* failures that one of them asks for, and closed only while one bears more. *)
THEOREM ThresholdsDecide == RouterSpec => []CircuitsAreJustified
<1>1. RouterInv => CircuitsAreJustified
  BY DEF RouterInv
<1> QED
  BY <1>1, RouterInvariance, PTL

=============================================================================
