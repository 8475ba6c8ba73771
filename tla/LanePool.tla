------------------------------ MODULE LanePool ------------------------------
(***************************************************************************)
(* PoolRegistry of crates/openplotva-llm router/capacity.rs: the lanes of  *)
(* one inference pool, the queue of requests that wait for one, and the    *)
(* reloads that resize, remove or add the pool.  A cell's lock makes a     *)
(* critical section one action; what a request does between two of them    *)
(* (its permit sits in a channel, its receiver is gone but its queue entry *)
(* is not) is a state of the request.                                      *)
(***************************************************************************)
EXTENDS Integers, FiniteSets

CONSTANTS
  Requests,
  Priority,    \* [Requests -> Nat], LanePriority: lower first
  Unlimited,   \* max_concurrency NULL
  Widths,      \* the widths a reload may set
  MaxSeq, MaxCells, MaxReloads  \* bounds of the model

ASSUME LaneAssumption ==
  /\ IsFiniteSet(Requests)
  /\ Priority \in [Requests -> Nat]
  /\ Unlimited \notin Nat
  /\ Widths \subseteq (Nat \ {0}) \cup {Unlimited}

VARIABLES
  cells,    \* [max, in_flight, waiters, next_seq] of every cell ever created
  pool,     \* the cell the registry maps the pool to, or 0
  at,       \* where a request is
  cell,     \* the cell a request holds an Arc of, or 0
  seq,      \* the arrival number in its queue key
  reloads

vars == <<cells, pool, at, cell, seq, reloads>>

\* "handed": the permit is in the channel.  "returning": the receiver was
\* dropped with the permit in it.  "leaving": QueuedWaiter is about to drop.
Places == {"idle", "arrived", "waiting", "handed", "holding", "returning", "leaving"}
HasPermit == {"handed", "holding", "returning"}

HasFreeLane(s) == s.max # Unlimited => s.in_flight < s.max

\* Mutant of Before: arrival order only.
ArrivedBefore(q, r) == seq[q] < seq[r]

\* The order of WaiterKey.
Before(q, r) == \/ Priority[q] < Priority[r]
                \/ Priority[q] = Priority[r] /\ seq[q] < seq[r]

\* Waiters whose receiver still listens.
Open(s) == {r \in s.waiters : at[r] = "waiting"}

Handed(s, H) == [s EXCEPT !.in_flight = @ + Cardinality(H)]

\* serve_waiters: entries are popped in order while a lane is free; a closed one
\* costs nothing, an open one takes the lane.  H are those that take one.
ServeWaiters(s, H) ==
  /\ H \subseteq Open(s)
  /\ \A r \in H, q \in Open(s) \ H : Before(r, q)
  /\ H # {} => ~ HasFreeLane(Handed(s, H)) \/ H = Open(s)
  /\ H # {} /\ s.max # Unlimited => s.in_flight + Cardinality(H) <= s.max
  /\ H = {} /\ HasFreeLane(s) => Open(s) = {}

Served(s, H) ==
  [Handed(s, H) EXCEPT
     !.waiters = IF HasFreeLane(Handed(s, H)) THEN {}
                 ELSE {r \in @ : r \notin H /\ \A h \in H : ~ Before(r, h)}]

SendPermits(c, s, H) ==
  /\ ServeWaiters(s, H)
  /\ cells' = [cells EXCEPT ![c] = Served(s, H)]

Move(r, place) == at' = [at EXCEPT ![r] = place]

-----------------------------------------------------------------------------
(* Requests.                                                               *)

\* PoolRegistry::cell.  Without a cell the request runs with a no-op permit.
LookUp(r) ==
  /\ at[r] = "idle"
  /\ pool # 0
  /\ Move(r, "arrived")
  /\ cell' = [cell EXCEPT ![r] = pool]
  /\ UNCHANGED <<cells, pool, seq, reloads>>

\* A request never jumps the queue.
MayEnter(s) == s.waiters = {} /\ HasFreeLane(s)

Admit(r) ==
  LET s == cells[cell[r]]
  IN  /\ at[r] = "arrived"
      /\ MayEnter(s)
      /\ cells' = [cells EXCEPT ![cell[r]].in_flight = @ + 1]
      /\ Move(r, "holding")
      /\ UNCHANGED <<pool, cell, seq, reloads>>

\* try_acquire without a free lane.
TryFails(r) ==
  /\ at[r] = "arrived"
  /\ ~ MayEnter(cells[cell[r]])
  /\ Move(r, "idle")
  /\ UNCHANGED <<cells, pool, cell, seq, reloads>>

\* acquire without a free lane.
Enqueue(r) ==
  LET s == cells[cell[r]]
  IN  /\ at[r] = "arrived"
      /\ ~ MayEnter(s)
      /\ s.next_seq < MaxSeq
      /\ cells' = [cells EXCEPT ![cell[r]] =
                     [s EXCEPT !.waiters = @ \cup {r}, !.next_seq = @ + 1]]
      /\ seq' = [seq EXCEPT ![r] = s.next_seq]
      /\ Move(r, "waiting")
      /\ UNCHANGED <<pool, cell, reloads>>

Take(r) ==
  /\ at[r] = "handed"
  /\ Move(r, "holding")
  /\ UNCHANGED <<cells, pool, cell, seq, reloads>>

\* Mutant of CloseReceiver: a permit in the channel is forgotten.
CloseAndForget(r) ==
  /\ at[r] \in {"waiting", "handed"}
  /\ Move(r, "leaving")
  /\ UNCHANGED <<cells, pool, cell, seq, reloads>>

\* The budget ends or the request is cancelled: the receiver is dropped, with
\* the permit if one was just sent.
CloseReceiver(r) ==
  /\ at[r] \in {"waiting", "handed"}
  /\ Move(r, IF at[r] = "handed" THEN "returning" ELSE "leaving")
  /\ UNCHANGED <<cells, pool, cell, seq, reloads>>

\* QueuedWaiter::drop.
Leave(r) ==
  /\ at[r] = "leaving"
  /\ Move(r, "idle")
  /\ cells' = [cells EXCEPT ![cell[r]].waiters = @ \ {r}]
  /\ UNCHANGED <<pool, cell, seq, reloads>>

Released(s) == [s EXCEPT !.in_flight = IF @ > 0 THEN @ - 1 ELSE 0]

\* Mutant of DropPermit: the lane is not handed on.
DropPermitOnly(r) ==
  /\ at[r] \in {"holding", "returning"}
  /\ cells' = [cells EXCEPT ![cell[r]] = Released(@)]
  /\ Move(r, IF at[r] = "holding" THEN "idle" ELSE "leaving")
  /\ UNCHANGED <<pool, cell, seq, reloads>>

\* PoolPermit::drop, at the end of the request or of a handoff nobody took.
DropPermit(r) ==
  /\ at[r] \in {"holding", "returning"}
  /\ \E H \in SUBSET Requests :
       /\ SendPermits(cell[r], Released(cells[cell[r]]), H)
       /\ at' = [q \in Requests |->
                   IF q \in H THEN "handed"
                   ELSE IF q # r THEN at[q]
                   ELSE IF at[r] = "holding" THEN "idle" ELSE "leaving"]
  /\ UNCHANGED <<pool, cell, seq, reloads>>

-----------------------------------------------------------------------------
(* Reloads of the routing table (apply).                                   *)

Reload == reloads < MaxReloads /\ reloads' = reloads + 1

\* Mutant of Resize: the new width waits for the next release.
ResizeOnly(m) ==
  /\ Reload
  /\ pool # 0
  /\ cells' = [cells EXCEPT ![pool].max = m]
  /\ UNCHANGED <<pool, at, cell, seq>>

Resize(m) ==
  /\ Reload
  /\ pool # 0
  /\ \E H \in SUBSET Requests :
       /\ SendPermits(pool, [cells[pool] EXCEPT !.max = m], H)
       /\ at' = [q \in Requests |-> IF q \in H THEN "handed" ELSE at[q]]
  /\ UNCHANGED <<pool, cell, seq>>

\* The cell lives on in the permits and the requests that hold its Arc.
Remove ==
  /\ Reload
  /\ pool # 0
  /\ pool' = 0
  /\ UNCHANGED <<cells, at, cell, seq>>

NewCell(m) == [max |-> m, in_flight |-> 0, waiters |-> {}, next_seq |-> 0]

Add(m) ==
  /\ Reload
  /\ pool = 0
  /\ LET c == Cardinality(DOMAIN cells) + 1
     IN  /\ c <= MaxCells
         /\ cells' = [d \in DOMAIN cells \cup {c} |-> IF d = c THEN NewCell(m) ELSE cells[d]]
         /\ pool' = c
  /\ UNCHANGED <<at, cell, seq>>

LaneInit ==
  /\ \E m \in Widths : cells = [c \in {1} |-> NewCell(m)]
  /\ pool = 1
  /\ at = [r \in Requests |-> "idle"]
  /\ cell = [r \in Requests |-> 0]
  /\ seq = [r \in Requests |-> 0]
  /\ reloads = 0

RequestStep(r) ==
  \/ LookUp(r)
  \/ Admit(r)
  \/ TryFails(r)
  \/ Enqueue(r)
  \/ Take(r)
  \/ CloseReceiver(r)
  \/ Leave(r)
  \/ DropPermit(r)

LaneNext ==
  \/ \E r \in Requests : RequestStep(r)
  \/ \E m \in Widths : Resize(m) \/ Add(m)
  \/ Remove

LaneSpec == LaneInit /\ [][LaneNext]_vars

\* A task that was handed a permit is polled, a dropped future finishes its
\* drop, and every attempt that holds a lane ends (its timeout or its answer).
LaneFairness ==
  \A r \in Requests : /\ WF_vars(at[r] = "handed" /\ (Take(r) \/ CloseReceiver(r)))
                      /\ WF_vars(Leave(r))
                      /\ WF_vars(DropPermit(r))

FairLaneSpec == LaneSpec /\ LaneFairness

-----------------------------------------------------------------------------
CellStates == [max : Widths, in_flight : Nat, waiters : SUBSET Requests, next_seq : Nat]

LaneTypeOK ==
  /\ cells \in [DOMAIN cells -> CellStates]
  /\ pool \in DOMAIN cells \cup {0}
  /\ at \in [Requests -> Places]
  /\ cell \in [Requests -> DOMAIN cells \cup {0}]
  /\ \A r \in Requests : at[r] # "idle" => cell[r] # 0
  /\ seq \in [Requests -> Nat]
  /\ reloads \in Nat

Out(c) == {r \in Requests : cell[r] = c /\ at[r] \in HasPermit}

\* Every lane that counts as taken is in somebody's hands, and every permit is
\* counted once: whatever a waiter that gives up, a handoff and a reload do
\* between their critical sections, "no lane can leak" (PoolPermit::drop,
\* serve_waiters).
NoLaneLeaks == \A c \in DOMAIN cells : cells[c].in_flight = Cardinality(Out(c))

\* Who waits is in the queue of its cell until it is served: no pop, reload or
\* removal drops the sender of a request that still listens (serve_waiters).
NobodyIsForgotten ==
  \A r \in Requests : at[r] = "waiting" => r \in cells[cell[r]].waiters

\* Nobody waits beside a free lane: no release, handoff to a waiter that is gone
\* or reload loses a wake-up.
NobodyWaitsInVain ==
  \A c \in DOMAIN cells : HasFreeLane(cells[c]) => cells[c].waiters = {}

\* No admission takes a pool over its width, also after it was made narrower.
WidthHolds ==
  [][\A c \in DOMAIN cells :
       cells'[c].in_flight > cells[c].in_flight =>
         cells'[c].max = Unlimited \/ cells'[c].in_flight <= cells'[c].max]_vars

\* A request that gets a lane overtakes nobody who waits for one: neither a more
\* urgent request nor an equally urgent one that came first.
NobodyOvertakes ==
  [][\A r, q \in Requests :
       /\ at[r] \notin HasPermit /\ at'[r] \in HasPermit
       /\ at[q] = "waiting" /\ at'[q] = "waiting"
       /\ cell[r] = cell[q]
       => /\ at[r] = "waiting"
          /\ Priority[r] <= Priority[q]
          /\ Priority[r] = Priority[q] => seq[r] < seq[q]]_vars

\* A request of the most urgent class that waits gets a lane or gives up, in a
\* pool that is reloaded, and in one that was removed under it.
UrgentWaitEnds ==
  \A r \in Requests : Priority[r] = 0 => (at[r] = "waiting" ~> at[r] # "waiting")
=============================================================================
