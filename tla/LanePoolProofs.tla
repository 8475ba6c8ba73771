--------------------------- MODULE LanePoolProofs ---------------------------
(***************************************************************************)
(* The safety properties of LanePool, for every finite set of requests,    *)
(* every width and every number of reloads.                                *)
(***************************************************************************)
EXTENDS LanePool, FiniteSetTheorems, TLAPS

\* A queue entry belongs to a request of that cell that waits or is leaving.
QueueOK ==
  \A c \in DOMAIN cells : \A r \in cells[c].waiters :
    cell[r] = c /\ at[r] \in {"waiting", "leaving"}

\* The domain of cells is an initial segment, so a new cell takes a new number.
Numbered == \E n \in Nat : DOMAIN cells = 1 .. n

\* The inductive invariant.
LaneInv ==
  /\ LaneTypeOK
  /\ Numbered
  /\ QueueOK
  /\ NobodyIsForgotten
  /\ NoLaneLeaks
  /\ NobodyWaitsInVain

LEMMA CellFields ==
  ASSUME NEW s \in CellStates, NEW n \in Nat, NEW W \in SUBSET Requests,
         NEW m \in Widths, NEW k \in Nat
  PROVE  /\ [s EXCEPT !.in_flight = n] \in CellStates
         /\ [s EXCEPT !.max = m] \in CellStates
         /\ [s EXCEPT !.waiters = W] \in CellStates
         /\ [s EXCEPT !.waiters = W, !.next_seq = k] \in CellStates
  BY DEF CellStates

LEMMA RequestsFinite ==
  ASSUME NEW S \in SUBSET Requests
  PROVE  IsFiniteSet(S) /\ Cardinality(S) \in Nat
  BY LaneAssumption, FS_Subset, FS_CardinalityType

LEMMA ServedFields ==
  ASSUME NEW s \in CellStates, NEW H \in SUBSET Requests
  PROVE  /\ Served(s, H) \in CellStates
         /\ Served(s, H).in_flight = s.in_flight + Cardinality(H)
         /\ Served(s, H).max = s.max
         /\ HasFreeLane(Served(s, H)) => Served(s, H).waiters = {}
         /\ ~ HasFreeLane(Served(s, H)) =>
              Served(s, H).waiters =
                {r \in s.waiters : r \notin H /\ \A h \in H : ~ Before(r, h)}
  <1> DEFINE n == s.in_flight + Cardinality(H)
             W == IF HasFreeLane(Handed(s, H)) THEN {}
                  ELSE {r \in s.waiters : r \notin H /\ \A h \in H : ~ Before(r, h)}
  <1>1. n \in Nat /\ W \in SUBSET Requests
    BY RequestsFinite DEF CellStates
  <1>2. /\ Handed(s, H) \in CellStates
        /\ Handed(s, H).in_flight = n
        /\ Handed(s, H).max = s.max
        /\ Handed(s, H).waiters = s.waiters
    <2>1. Handed(s, H) = [s EXCEPT !.in_flight = n]
      BY DEF Handed
    <2> HIDE DEF n
    <2> QED BY <1>1, <2>1 DEF CellStates
  <1>3. Served(s, H) = [Handed(s, H) EXCEPT !.waiters = W]
    BY <1>2 DEF Served
  <1> HIDE DEF W, n
  <1>4. /\ Served(s, H) \in CellStates
        /\ Served(s, H).in_flight = n
        /\ Served(s, H).max = s.max
        /\ Served(s, H).waiters = W
    BY <1>1, <1>2, <1>3 DEF CellStates
  <1>5. HasFreeLane(Served(s, H)) <=> HasFreeLane(Handed(s, H))
    BY <1>2, <1>4 DEF HasFreeLane
  <1> QED BY <1>4, <1>5 DEF W, n

\* Serving a queue keeps its entries in order: who is served leaves the queue,
\* who still waits stays in it.
LEMMA ServeKeeps ==
  ASSUME LaneTypeOK, QueueOK, NobodyIsForgotten, NobodyWaitsInVain,
         NEW c \in DOMAIN cells, NEW s \in CellStates, s.waiters = cells[c].waiters,
         NEW H \in SUBSET Requests, SendPermits(c, s, H), UNCHANGED <<cell, seq>>,
         \A q \in H : at'[q] = "handed",
         \A q \in Requests \ H : \/ at'[q] = at[q]
                                 \/ at[q] \in HasPermit /\ at'[q] \in {"idle", "leaving"}
  PROVE  /\ cells' \in [DOMAIN cells -> CellStates]
         /\ cells'[c].in_flight = s.in_flight + Cardinality(H)
         /\ \A d \in DOMAIN cells \ {c} : cells'[d] = cells[d]
         /\ \A q \in H : at[q] = "waiting" /\ cell[q] = c
         /\ QueueOK' /\ NobodyIsForgotten' /\ NobodyWaitsInVain'
  <1> DEFINE t == Served(s, H)
  <1>1. /\ cells \in [DOMAIN cells -> CellStates]
        /\ cells' = [cells EXCEPT ![c] = t]
        /\ ServeWaiters(s, H)
    BY DEF LaneTypeOK, SendPermits
  <1>2. /\ t \in CellStates
        /\ t.in_flight = s.in_flight + Cardinality(H)
        /\ t.max = s.max
        /\ HasFreeLane(t) => t.waiters = {}
        /\ ~ HasFreeLane(t) =>
             t.waiters = {r \in s.waiters : r \notin H /\ \A h \in H : ~ Before(r, h)}
    BY ServedFields
  <1> HIDE DEF t
  <1>3. /\ cells' \in [DOMAIN cells -> CellStates]
        /\ DOMAIN cells' = DOMAIN cells
        /\ cells'[c] = t
        /\ \A d \in DOMAIN cells \ {c} : cells'[d] = cells[d]
    BY <1>1, <1>2
  <1>4. \A q \in H : q \in cells[c].waiters /\ at[q] = "waiting" /\ cell[q] = c
    BY <1>1 DEF ServeWaiters, Open, QueueOK
  <1>5. t.waiters \subseteq s.waiters \ H
    BY <1>2
  <1>6. QueueOK'
    <2> SUFFICES ASSUME NEW d \in DOMAIN cells, NEW r \in cells'[d].waiters
                 PROVE  cell[r] = d /\ at'[r] \in {"waiting", "leaving"}
      BY <1>3 DEF QueueOK
    <2>1. r \in Requests
      BY <1>3 DEF CellStates
    <2>2. r \in cells[d].waiters
      BY <1>3, <1>5
    <2>3. cell[r] = d /\ at[r] \in {"waiting", "leaving"}
      BY <2>2 DEF QueueOK
    <2>4. r \notin H
      BY <1>3, <1>4, <1>5, <2>3
    <2> QED BY <2>1, <2>3, <2>4 DEF HasPermit
  <1>7. NobodyIsForgotten'
    <2> SUFFICES ASSUME NEW r \in Requests, at'[r] = "waiting"
                 PROVE  r \in cells'[cell[r]].waiters
      BY DEF NobodyIsForgotten
    <2>1. r \notin H /\ at[r] = "waiting"
      BY DEF HasPermit
    <2>2. r \in cells[cell[r]].waiters /\ cell[r] \in DOMAIN cells
      <3>1. cell[r] \in DOMAIN cells
        BY <2>1 DEF LaneTypeOK
      <3> QED BY <2>1, <3>1 DEF NobodyIsForgotten
    <2>3. CASE cell[r] = c
      <3>1. r \in Open(s) \ H
        BY <2>1, <2>2, <2>3 DEF Open
      <3>2. HasFreeLane(t) => FALSE
        <4> SUFFICES ASSUME HasFreeLane(t)
                     PROVE  FALSE
          OBVIOUS
        <4>1. HasFreeLane(Handed(s, H))
          BY <1>2 DEF HasFreeLane, Handed, CellStates
        <4>2. H = {} => Handed(s, H).in_flight = s.in_flight /\ Handed(s, H).max = s.max
          BY FS_EmptySet DEF Handed, CellStates
        <4>3. H = {} => HasFreeLane(s)
          BY <4>1, <4>2 DEF HasFreeLane
        <4> QED BY <1>1, <3>1, <4>1, <4>3 DEF ServeWaiters
      <3>3. \A h \in H : ~ Before(r, h)
        <4> SUFFICES ASSUME NEW h \in H
                     PROVE  ~ Before(r, h)
          OBVIOUS
        <4>1. Before(h, r)
          BY <1>1, <3>1 DEF ServeWaiters
        <4>2. Priority[h] \in Nat /\ Priority[r] \in Nat /\ seq[h] \in Nat /\ seq[r] \in Nat
          BY LaneAssumption DEF LaneTypeOK
        <4> QED BY <4>1, <4>2 DEF Before
      <3> QED BY <1>2, <1>3, <2>1, <2>2, <2>3, <3>2, <3>3
    <2>4. CASE cell[r] # c
      BY <1>3, <2>2, <2>4
    <2> QED BY <2>3, <2>4
  <1>8. NobodyWaitsInVain'
    BY <1>2, <1>3 DEF NobodyWaitsInVain, HasFreeLane
  <1> QED BY <1>2, <1>3, <1>4, <1>6, <1>7, <1>8

-----------------------------------------------------------------------------
(* One lemma for each kind of step.                                        *)

WidthStep ==
  \A c \in DOMAIN cells :
    cells'[c].in_flight > cells[c].in_flight =>
      cells'[c].max = Unlimited \/ cells'[c].in_flight <= cells'[c].max

OvertakeStep ==
  \A r, q \in Requests :
    /\ at[r] \notin HasPermit /\ at'[r] \in HasPermit
    /\ at[q] = "waiting" /\ at'[q] = "waiting"
    /\ cell[r] = cell[q]
    => /\ at[r] = "waiting"
       /\ Priority[r] <= Priority[q]
       /\ Priority[r] = Priority[q] => seq[r] < seq[q]

\* A request changes its place; the cells stay as they are.
LEMMA MoveKeeps ==
  ASSUME LaneInv, NEW r \in Requests, NEW p \in Places,
         Move(r, p), UNCHANGED <<cells, seq, reloads>>, pool' = pool,
         \/ cell' = cell
         \/ at[r] = "idle" /\ pool # 0 /\ cell' = [cell EXCEPT ![r] = pool],
         p \in HasPermit <=> at[r] \in HasPermit,
         p # "waiting",
         at[r] \in {"waiting", "leaving"} => p = "leaving",
         at[r] = "idle" => cell' # cell \/ cell[r] # 0
  PROVE  LaneInv' /\ WidthStep /\ OvertakeStep
  <1>1. /\ LaneTypeOK /\ QueueOK /\ NobodyIsForgotten /\ NoLaneLeaks
        /\ NobodyWaitsInVain /\ Numbered
    BY DEF LaneInv
  <1>2. /\ at' \in [Requests -> Places] /\ at'[r] = p
        /\ \A q \in Requests \ {r} : at'[q] = at[q]
    BY <1>1 DEF Move, LaneTypeOK
  <1>3. /\ cell' \in [Requests -> DOMAIN cells \cup {0}]
        /\ \A q \in Requests \ {r} : cell'[q] = cell[q]
        /\ at[r] # "idle" => cell'[r] = cell[r]
        /\ cell'[r] # 0
    BY <1>1 DEF LaneTypeOK
  <1>4. LaneTypeOK'
    BY <1>1, <1>2, <1>3 DEF LaneTypeOK
  <1>5. QueueOK'
    <2> SUFFICES ASSUME NEW c \in DOMAIN cells, NEW q \in cells[c].waiters
                 PROVE  cell'[q] = c /\ at'[q] \in {"waiting", "leaving"}
      BY DEF QueueOK
    <2>1. q \in Requests /\ cell[q] = c /\ at[q] \in {"waiting", "leaving"}
      BY <1>1 DEF QueueOK, LaneTypeOK, CellStates
    <2> QED BY <1>2, <1>3, <2>1
  <1>6. NobodyIsForgotten'
    BY <1>1, <1>2, <1>3 DEF NobodyIsForgotten
  <1>7. \A c \in DOMAIN cells : Out(c)' = Out(c)
    BY <1>2, <1>3 DEF Out, HasPermit
  <1>8. NoLaneLeaks' /\ NobodyWaitsInVain' /\ Numbered'
    BY <1>1, <1>7 DEF NoLaneLeaks, NobodyWaitsInVain, Numbered, HasFreeLane
  <1>9. WidthStep
    BY <1>1 DEF WidthStep, LaneTypeOK, CellStates
  <1>10. OvertakeStep
    BY <1>2 DEF OvertakeStep
  <1> QED BY <1>4, <1>5, <1>6, <1>8, <1>9, <1>10 DEF LaneInv

LEMMA LookUpStep ==
  ASSUME LaneInv, NEW r \in Requests, LookUp(r)
  PROVE  LaneInv' /\ WidthStep /\ OvertakeStep
  <1>1. pool \in DOMAIN cells /\ cell \in [Requests -> DOMAIN cells \cup {0}]
    BY DEF LaneInv, LaneTypeOK, LookUp
  <1>2. cell'[r] = pool /\ pool # 0
    BY <1>1 DEF LookUp
  <1> QED BY <1>2, MoveKeeps DEF LookUp, Places, HasPermit

LEMMA PlaceStep ==
  ASSUME LaneInv, NEW r \in Requests, TryFails(r) \/ Take(r) \/ CloseReceiver(r)
  PROVE  LaneInv' /\ WidthStep /\ OvertakeStep
  <1>1. CASE TryFails(r)
    BY <1>1, MoveKeeps DEF TryFails, Places, HasPermit
  <1>2. CASE Take(r)
    BY <1>2, MoveKeeps DEF Take, Places, HasPermit
  <1>3. CASE CloseReceiver(r) /\ at[r] = "handed"
    BY <1>3, MoveKeeps DEF CloseReceiver, Places, HasPermit
  <1>4. CASE CloseReceiver(r) /\ at[r] = "waiting"
    BY <1>4, MoveKeeps DEF CloseReceiver, Places, HasPermit
  <1> QED BY <1>1, <1>2, <1>3, <1>4 DEF CloseReceiver

LEMMA AdmitStep ==
  ASSUME LaneInv, NEW r \in Requests, Admit(r)
  PROVE  LaneInv' /\ WidthStep /\ OvertakeStep
  <1>1. /\ LaneTypeOK /\ QueueOK /\ NobodyIsForgotten /\ NoLaneLeaks
        /\ NobodyWaitsInVain /\ Numbered
    BY DEF LaneInv
  <1>0. PICK c \in DOMAIN cells : c = cell[r]
    BY <1>1 DEF Admit, LaneTypeOK
  <1> DEFINE n == cells[c].in_flight + 1
  <1>2. cells[c] \in CellStates /\ n \in Nat
    BY <1>1 DEF LaneTypeOK, CellStates
  <1>3. /\ at' \in [Requests -> Places] /\ at'[r] = "holding"
        /\ \A q \in Requests \ {r} : at'[q] = at[q]
        /\ UNCHANGED <<pool, cell, seq, reloads>> /\ at[r] = "arrived"
    BY <1>1 DEF Admit, Move, LaneTypeOK, Places
  <1>4. cells' = [cells EXCEPT ![c] = [cells[c] EXCEPT !.in_flight = n]]
    BY <1>0 DEF Admit
  <1>5. /\ cells[c].waiters = {}
        /\ cells[c].max # Unlimited => n <= cells[c].max
    <2>1. cells[c].max \in (Nat \ {0}) \cup {Unlimited} /\ cells[c].in_flight \in Nat
      BY <1>2, LaneAssumption DEF CellStates
    <2>2. MayEnter(cells[c])
      BY <1>0 DEF Admit
    <2> QED BY <2>1, <2>2 DEF MayEnter, HasFreeLane
  <1>6. /\ cells' \in [DOMAIN cells -> CellStates]
        /\ \A d \in DOMAIN cells : /\ cells'[d].waiters = cells[d].waiters
                                   /\ cells'[d].max = cells[d].max
        /\ cells'[c].in_flight = n
        /\ \A d \in DOMAIN cells \ {c} : cells'[d] = cells[d]
    BY <1>1, <1>2, <1>4 DEF LaneTypeOK, CellStates
  <1> HIDE DEF n
  <1>7. LaneTypeOK' /\ Numbered'
    BY <1>1, <1>3, <1>6 DEF LaneTypeOK, Numbered
  <1>8. QueueOK' /\ NobodyIsForgotten'
    <2>1. \A d \in DOMAIN cells : \A q \in cells[d].waiters : q \in Requests /\ q # r
      BY <1>1, <1>3 DEF QueueOK, LaneTypeOK, CellStates
    <2>2. QueueOK'
      BY <1>1, <1>3, <1>6, <2>1 DEF QueueOK
    <2>3. \A q \in Requests : at[q] = "waiting" => cell[q] \in DOMAIN cells
      BY <1>1 DEF LaneTypeOK
    <2>4. NobodyIsForgotten'
      BY <1>1, <1>3, <1>6, <2>3 DEF NobodyIsForgotten
    <2> QED BY <2>2, <2>4
  <1>9. NobodyWaitsInVain'
    BY <1>1, <1>5, <1>6 DEF NobodyWaitsInVain, HasFreeLane
  <1>10. NoLaneLeaks'
    <2>1. /\ Out(c)' = Out(c) \cup {r} /\ r \notin Out(c)
          /\ \A d \in DOMAIN cells \ {c} : Out(d)' = Out(d)
      BY <1>0, <1>3 DEF Out, HasPermit
    <2>2. Cardinality(Out(c) \cup {r}) = Cardinality(Out(c)) + 1
      BY <2>1, RequestsFinite, FS_AddElement DEF Out
    <2>3. cells'[c].in_flight = Cardinality(Out(c)')
      BY <1>1, <1>2, <1>6, <2>1, <2>2 DEF NoLaneLeaks, n
    <2>4. \A d \in DOMAIN cells \ {c} : cells'[d].in_flight = Cardinality(Out(d)')
      BY <1>1, <1>6, <2>1 DEF NoLaneLeaks
    <2>5. DOMAIN cells' = DOMAIN cells
      BY <1>6
    <2> QED BY <2>3, <2>4, <2>5 DEF NoLaneLeaks
  <1>11. WidthStep
    BY <1>1, <1>5, <1>6 DEF WidthStep, LaneTypeOK, CellStates
  <1>12. OvertakeStep
    <2> SUFFICES ASSUME NEW q \in Requests, at[q] = "waiting", cell[q] = cell[r]
                 PROVE  FALSE
      BY <1>3 DEF OvertakeStep
    <2> QED BY <1>0, <1>1, <1>5 DEF NobodyIsForgotten
  <1> QED BY <1>7, <1>8, <1>9, <1>10, <1>11, <1>12 DEF LaneInv

\* A request enters or leaves the queue of its cell; no lane changes hands.
LEMMA QueueEditKeeps ==
  ASSUME LaneInv, NEW r \in Requests, NEW c \in DOMAIN cells, cell[r] = c,
         NEW p \in Places \ HasPermit, at[r] \notin HasPermit, Move(r, p),
         NEW W, NEW k \in Nat,
         cells' = [cells EXCEPT ![c] = [cells[c] EXCEPT !.waiters = W, !.next_seq = k]],
         UNCHANGED <<pool, cell, reloads>>, seq' \in [Requests -> Nat],
         \/ p = "waiting" /\ W = cells[c].waiters \cup {r} /\ ~ HasFreeLane(cells[c])
         \/ p = "idle" /\ W = cells[c].waiters \ {r}
  PROVE  LaneInv' /\ WidthStep /\ OvertakeStep
  <1>1. /\ LaneTypeOK /\ QueueOK /\ NobodyIsForgotten /\ NoLaneLeaks
        /\ NobodyWaitsInVain /\ Numbered
    BY DEF LaneInv
  <1>2. cells[c] \in CellStates /\ cells[c].waiters \subseteq Requests
    BY <1>1 DEF LaneTypeOK, CellStates
  <1>3. /\ at' \in [Requests -> Places] /\ at'[r] = p
        /\ \A q \in Requests \ {r} : at'[q] = at[q]
    BY <1>1 DEF Move, LaneTypeOK
  <1>4. W \in SUBSET Requests
    BY <1>2
  <1>5. [cells[c] EXCEPT !.waiters = W, !.next_seq = k] \in CellStates
    BY <1>2, <1>4, CellFields DEF CellStates
  <1>6. /\ cells' \in [DOMAIN cells -> CellStates] /\ DOMAIN cells' = DOMAIN cells
        /\ \A d \in DOMAIN cells : /\ cells'[d].in_flight = cells[d].in_flight
                                   /\ cells'[d].max = cells[d].max
        /\ cells'[c].waiters = W
        /\ \A d \in DOMAIN cells \ {c} : cells'[d] = cells[d]
    BY <1>1, <1>2, <1>5 DEF LaneTypeOK, CellStates
  <1>7. LaneTypeOK' /\ Numbered'
    BY <1>1, <1>3, <1>6 DEF LaneTypeOK, Numbered
  <1>8. QueueOK'
    <2> SUFFICES ASSUME NEW d \in DOMAIN cells, NEW q \in cells'[d].waiters
                 PROVE  cell[q] = d /\ at'[q] \in {"waiting", "leaving"}
      BY <1>6 DEF QueueOK
    <2>1. CASE q = r
      <3>1. d # c => cell[r] = d
        BY <1>1, <1>6, <2>1 DEF QueueOK
      <3> QED BY <1>3, <1>6, <2>1, <3>1
    <2>2. CASE q # r
      <3>1. q \in cells[d].waiters
        BY <1>6, <2>2
      <3>2. q \in Requests
        BY <1>1, <3>1 DEF LaneTypeOK, CellStates
      <3> QED BY <1>1, <1>3, <2>2, <3>1, <3>2 DEF QueueOK
    <2> QED BY <2>1, <2>2
  <1>9. NobodyIsForgotten'
    <2> SUFFICES ASSUME NEW q \in Requests, at'[q] = "waiting"
                 PROVE  q \in cells'[cell[q]].waiters
      BY DEF NobodyIsForgotten
    <2>1. CASE q = r
      BY <1>3, <1>6, <2>1
    <2>2. CASE q # r
      <3>1. cell[q] \in DOMAIN cells /\ q \in cells[cell[q]].waiters
        BY <1>1, <1>3, <2>2 DEF NobodyIsForgotten, LaneTypeOK
      <3> QED BY <1>6, <2>2, <3>1
    <2> QED BY <2>1, <2>2
  <1>10. NoLaneLeaks'
    <2>1. \A d \in DOMAIN cells : Out(d)' = Out(d)
      BY <1>3 DEF Out
    <2> QED BY <1>1, <1>6, <2>1 DEF NoLaneLeaks
  <1>11. NobodyWaitsInVain'
    BY <1>1, <1>6 DEF NobodyWaitsInVain, HasFreeLane
  <1>12. WidthStep
    BY <1>1, <1>6 DEF WidthStep, LaneTypeOK, CellStates
  <1>13. OvertakeStep
    BY <1>3 DEF OvertakeStep
  <1> QED BY <1>7, <1>8, <1>9, <1>10, <1>11, <1>12, <1>13 DEF LaneInv

LEMMA EnqueueStep ==
  ASSUME LaneInv, NEW r \in Requests, Enqueue(r)
  PROVE  LaneInv' /\ WidthStep /\ OvertakeStep
  <1>1. LaneTypeOK /\ NobodyWaitsInVain
    BY DEF LaneInv
  <1>2. PICK c \in DOMAIN cells : c = cell[r]
    BY <1>1 DEF Enqueue, LaneTypeOK
  <1>3. cells[c].next_seq \in Nat /\ cells[c].next_seq + 1 \in Nat
    BY <1>1 DEF LaneTypeOK, CellStates
  <1>4. /\ cells' = [cells EXCEPT ![c] = [cells[c] EXCEPT
                       !.waiters = cells[c].waiters \cup {r},
                       !.next_seq = cells[c].next_seq + 1]]
        /\ at[r] = "arrived" /\ Move(r, "waiting") /\ ~ MayEnter(cells[c])
        /\ UNCHANGED <<pool, cell, reloads>>
    BY <1>2 DEF Enqueue
  <1>5. seq' \in [Requests -> Nat]
    BY <1>1, <1>2, <1>3 DEF Enqueue, LaneTypeOK
  <1>6. ~ HasFreeLane(cells[c])
    BY <1>1, <1>4 DEF NobodyWaitsInVain, MayEnter
  <1>7. "waiting" \in Places \ HasPermit /\ at[r] \notin HasPermit
    BY <1>4 DEF Places, HasPermit
  <1> QED BY <1>2, <1>3, <1>4, <1>5, <1>6, <1>7, QueueEditKeeps

LEMMA LeaveStep ==
  ASSUME LaneInv, NEW r \in Requests, Leave(r)
  PROVE  LaneInv' /\ WidthStep /\ OvertakeStep
  <1>1. LaneTypeOK
    BY DEF LaneInv
  <1>2. PICK c \in DOMAIN cells : c = cell[r]
    BY <1>1 DEF Leave, LaneTypeOK
  <1>3. cells[c] \in CellStates /\ cells[c].next_seq \in Nat
    BY <1>1 DEF LaneTypeOK, CellStates
  <1>4. [cells[c] EXCEPT !.waiters = @ \ {r}]
          = [cells[c] EXCEPT !.waiters = cells[c].waiters \ {r}, !.next_seq = cells[c].next_seq]
    BY <1>3 DEF CellStates
  <1>5. /\ cells' = [cells EXCEPT ![c] = [cells[c] EXCEPT
                       !.waiters = cells[c].waiters \ {r}, !.next_seq = cells[c].next_seq]]
        /\ at[r] = "leaving" /\ Move(r, "idle")
        /\ UNCHANGED <<pool, cell, seq, reloads>>
    BY <1>2, <1>4 DEF Leave
  <1>6. seq' \in [Requests -> Nat]
    BY <1>1, <1>5 DEF LaneTypeOK
  <1>7. "idle" \in Places \ HasPermit /\ at[r] \notin HasPermit
    BY <1>5 DEF Places, HasPermit
  <1> QED BY <1>2, <1>3, <1>5, <1>6, <1>7, QueueEditKeeps

\* The requests of R give their lanes of cell c up, those of H get one.
LEMMA ServeStep ==
  ASSUME LaneInv, NEW c \in DOMAIN cells, NEW s \in CellStates,
         s.waiters = cells[c].waiters,
         NEW H \in SUBSET Requests, SendPermits(c, s, H),
         NEW R \in SUBSET Out(c), s.in_flight + Cardinality(R) = cells[c].in_flight,
         UNCHANGED <<pool, cell, seq>>, reloads' \in Nat, at' \in [Requests -> Places],
         \A q \in H : at'[q] = "handed",
         \A q \in Requests \ H : IF q \in R THEN at'[q] \in {"idle", "leaving"}
                                  ELSE at'[q] = at[q]
  PROVE  LaneInv' /\ WidthStep /\ OvertakeStep
  <1>1. /\ LaneTypeOK /\ QueueOK /\ NobodyIsForgotten /\ NoLaneLeaks
        /\ NobodyWaitsInVain /\ Numbered
    BY DEF LaneInv
  <1>2. \A q \in Requests \ H : \/ at'[q] = at[q]
                                \/ at[q] \in HasPermit /\ at'[q] \in {"idle", "leaving"}
    <2>1. \A q \in R : at[q] \in HasPermit
      BY DEF Out
    <2> QED BY <2>1
  <1>3. /\ cells' \in [DOMAIN cells -> CellStates] /\ DOMAIN cells' = DOMAIN cells
        /\ cells'[c].in_flight = s.in_flight + Cardinality(H)
        /\ \A d \in DOMAIN cells \ {c} : cells'[d] = cells[d]
        /\ \A q \in H : at[q] = "waiting" /\ cell[q] = c
        /\ QueueOK' /\ NobodyIsForgotten' /\ NobodyWaitsInVain'
    BY <1>1, <1>2, ServeKeeps
  <1>4. LaneTypeOK' /\ Numbered'
    <2>1. \A q \in Requests : at'[q] # "idle" => at[q] # "idle"
      BY <1>2, <1>3 DEF HasPermit
    <2> QED BY <1>1, <1>3, <2>1 DEF LaneTypeOK, Numbered
  <1>5. Cardinality(R) \in Nat /\ Cardinality(H) \in Nat /\ s.in_flight \in Nat
    BY RequestsFinite DEF CellStates, Out
  <1>6. NoLaneLeaks'
    <2>1. Out(c)' = (Out(c) \ R) \cup H
      BY <1>2, <1>3 DEF Out, HasPermit
    <2>2. \A d \in DOMAIN cells \ {c} : Out(d)' = Out(d)
      BY <1>3 DEF Out, HasPermit
    <2>3. IsFiniteSet(Out(c)) /\ IsFiniteSet(Out(c) \ R) /\ IsFiniteSet(R) /\ IsFiniteSet(H)
      BY RequestsFinite DEF Out
    <2>4. Cardinality(Out(c) \ R) = Cardinality(Out(c)) - Cardinality(R)
      <3>1. Out(c) \cap R = R
        OBVIOUS
      <3>2. Cardinality(Out(c) \ R) = Cardinality(Out(c)) - Cardinality(Out(c) \cap R)
        BY <2>3, FS_Difference
      <3> QED BY <3>1, <3>2
    <2>5. Cardinality((Out(c) \ R) \cup H) = Cardinality(Out(c) \ R) + Cardinality(H)
      <3>1. (Out(c) \ R) \cap H = {}
        BY <1>3 DEF Out, HasPermit
      <3>2. Cardinality((Out(c) \ R) \cap H) = 0
        BY <3>1, FS_EmptySet
      <3>3. Cardinality(Out(c) \ R) \in Nat
        BY <2>3, FS_CardinalityType
      <3>4. Cardinality((Out(c) \ R) \cup H)
              = Cardinality(Out(c) \ R) + Cardinality(H) - Cardinality((Out(c) \ R) \cap H)
        BY <2>3, FS_Union
      <3> QED BY <1>5, <3>2, <3>3, <3>4
    <2>6. cells[c].in_flight = Cardinality(Out(c)) /\ Cardinality(Out(c)) \in Nat
      BY <1>1, <2>3, FS_CardinalityType DEF NoLaneLeaks
    <2>7. cells'[c].in_flight = Cardinality((Out(c) \ R) \cup H)
      BY <1>3, <1>5, <2>4, <2>5, <2>6
    <2>8. cells'[c].in_flight = Cardinality(Out(c)')
      BY <2>1, <2>7
    <2>9. \A d \in DOMAIN cells \ {c} : cells'[d].in_flight = Cardinality(Out(d)')
      BY <1>1, <1>3, <2>2 DEF NoLaneLeaks
    <2> QED BY <1>3, <2>8, <2>9 DEF NoLaneLeaks
  <1>7. WidthStep
    <2>1. H = {} => Cardinality(H) = 0
      BY FS_EmptySet
    <2>2. H # {} /\ s.max # Unlimited => s.in_flight + Cardinality(H) <= s.max
      BY DEF SendPermits, ServeWaiters
    <2>3. cells'[c].max = s.max
      BY <1>1, ServedFields DEF SendPermits, LaneTypeOK
    <2>4. \A d \in DOMAIN cells : cells[d].in_flight \in Nat
      BY <1>1 DEF LaneTypeOK, CellStates
    <2>5. cells'[c].in_flight > cells[c].in_flight => H # {}
      BY <1>3, <1>5, <2>1, <2>4
    <2>6. \A d \in DOMAIN cells \ {c} : ~ (cells'[d].in_flight > cells[d].in_flight)
      BY <1>3, <2>4
    <2> QED BY <1>3, <2>2, <2>3, <2>5, <2>6 DEF WidthStep
  <1>8. OvertakeStep
    <2> SUFFICES ASSUME NEW r \in Requests, NEW q \in Requests,
                        at[r] \notin HasPermit, at'[r] \in HasPermit,
                        at[q] = "waiting", at'[q] = "waiting", cell[r] = cell[q]
                 PROVE  /\ at[r] = "waiting"
                        /\ Priority[r] <= Priority[q]
                        /\ Priority[r] = Priority[q] => seq[r] < seq[q]
      BY DEF OvertakeStep
    <2>1. r \in H /\ q \notin H
      BY <1>2 DEF HasPermit
    <2>2. cell[q] = c /\ at[r] = "waiting"
      BY <1>3, <2>1
    <2>3. q \in Open(s)
      BY <1>1, <2>2 DEF Open, NobodyIsForgotten
    <2>4. Before(r, q)
      BY <2>1, <2>3 DEF SendPermits, ServeWaiters
    <2>5. Priority[r] \in Nat /\ Priority[q] \in Nat
      BY LaneAssumption
    <2> QED BY <2>2, <2>4, <2>5 DEF Before
  <1> QED BY <1>3, <1>4, <1>6, <1>7, <1>8 DEF LaneInv

LEMMA DropPermitStep ==
  ASSUME LaneInv, NEW r \in Requests, DropPermit(r)
  PROVE  LaneInv' /\ WidthStep /\ OvertakeStep
  <1>1. LaneTypeOK /\ NoLaneLeaks
    BY DEF LaneInv
  <1>2. PICK c \in DOMAIN cells : c = cell[r]
    BY <1>1 DEF DropPermit, LaneTypeOK
  <1>3. PICK H \in SUBSET Requests :
          /\ SendPermits(c, Released(cells[c]), H)
          /\ at' = [q \in Requests |->
                      IF q \in H THEN "handed"
                      ELSE IF q # r THEN at[q]
                      ELSE IF at[r] = "holding" THEN "idle" ELSE "leaving"]
    BY <1>2 DEF DropPermit
  <1>4. r \in Out(c)
    BY <1>2 DEF DropPermit, Out, HasPermit
  <1>5. cells[c] \in CellStates /\ cells[c].in_flight = Cardinality(Out(c))
    BY <1>1 DEF LaneTypeOK, NoLaneLeaks
  <1>6. cells[c].in_flight \in Nat \ {0}
    BY <1>4, <1>5, RequestsFinite, FS_EmptySet DEF Out
  <1> DEFINE s == [cells[c] EXCEPT !.in_flight = cells[c].in_flight - 1]
  <1>7. Released(cells[c]) = s
    BY <1>6 DEF Released
  <1>8. s \in CellStates /\ s.waiters = cells[c].waiters
        /\ s.in_flight = cells[c].in_flight - 1
    BY <1>5, <1>6 DEF CellStates
  <1>9. s.in_flight + Cardinality({r}) = cells[c].in_flight
    <2>1. Cardinality({r}) = 1
      BY FS_Singleton
    <2> QED BY <1>6, <1>8, <2>1
  <1>10. at' \in [Requests -> Places] /\ reloads' \in Nat
    BY <1>1, <1>3 DEF DropPermit, LaneTypeOK, Places
  <1>11. SendPermits(c, s, H) /\ UNCHANGED <<pool, cell, seq>> /\ {r} \in SUBSET Out(c)
    BY <1>3, <1>4, <1>7 DEF DropPermit
  <1>12. /\ \A q \in H : at'[q] = "handed"
         /\ \A q \in Requests \ H : IF q \in {r} THEN at'[q] \in {"idle", "leaving"}
                                     ELSE at'[q] = at[q]
    BY <1>3
  <1> HIDE DEF s
  <1> QED BY <1>8, <1>9, <1>10, <1>11, <1>12, ServeStep

LEMMA ResizeStep ==
  ASSUME LaneInv, NEW m \in Widths, Resize(m)
  PROVE  LaneInv' /\ WidthStep /\ OvertakeStep
  <1>1. LaneTypeOK
    BY DEF LaneInv
  <1>2. PICK c \in DOMAIN cells : c = pool
    BY <1>1 DEF Resize, LaneTypeOK
  <1>3. PICK H \in SUBSET Requests :
          /\ SendPermits(c, [cells[c] EXCEPT !.max = m], H)
          /\ at' = [q \in Requests |-> IF q \in H THEN "handed" ELSE at[q]]
    BY <1>2 DEF Resize
  <1> DEFINE s == [cells[c] EXCEPT !.max = m]
  <1>4. s \in CellStates /\ s.waiters = cells[c].waiters
        /\ s.in_flight = cells[c].in_flight /\ cells[c].in_flight \in Nat
    BY <1>1 DEF CellStates, LaneTypeOK
  <1>5. s.in_flight + Cardinality({}) = cells[c].in_flight
    BY <1>4, FS_EmptySet
  <1>6. at' \in [Requests -> Places] /\ reloads' \in Nat
    BY <1>1, <1>3 DEF Resize, Reload, LaneTypeOK, Places
  <1>7. SendPermits(c, s, H) /\ UNCHANGED <<pool, cell, seq>> /\ {} \in SUBSET Out(c)
    BY <1>3 DEF Resize
  <1>8. /\ \A q \in H : at'[q] = "handed"
        /\ \A q \in Requests \ H : IF q \in {} THEN at'[q] \in {"idle", "leaving"}
                                    ELSE at'[q] = at[q]
    BY <1>3
  <1> HIDE DEF s
  <1> QED BY <1>4, <1>5, <1>6, <1>7, <1>8, ServeStep

LEMMA ReloadStep ==
  ASSUME LaneInv, Remove \/ \E m \in Widths : Add(m)
  PROVE  LaneInv' /\ WidthStep /\ OvertakeStep
  <1>1. /\ LaneTypeOK /\ QueueOK /\ NobodyIsForgotten /\ NoLaneLeaks
        /\ NobodyWaitsInVain /\ Numbered
    BY DEF LaneInv
  <1>2. CASE Remove
    <2>1. LaneTypeOK'
      BY <1>1, <1>2 DEF Remove, Reload, LaneTypeOK
    <2>2. \A c \in DOMAIN cells : Out(c)' = Out(c)
      BY <1>2 DEF Remove, Out
    <2>3. NoLaneLeaks'
      BY <1>1, <1>2, <2>2 DEF NoLaneLeaks, Remove
    <2>4. QueueOK' /\ NobodyIsForgotten' /\ NobodyWaitsInVain' /\ Numbered'
      BY <1>1, <1>2
      DEF Remove, QueueOK, NobodyIsForgotten, NobodyWaitsInVain, Numbered, HasFreeLane
    <2>5. WidthStep /\ OvertakeStep
      BY <1>1, <1>2 DEF Remove, WidthStep, OvertakeStep, LaneTypeOK, CellStates
    <2> QED BY <2>1, <2>3, <2>4, <2>5 DEF LaneInv
  <1>3. ASSUME NEW m \in Widths, Add(m)
        PROVE  LaneInv' /\ WidthStep /\ OvertakeStep
    <2>1. PICK n \in Nat : DOMAIN cells = 1 .. n
      BY <1>1 DEF Numbered
    <2>2. Cardinality(DOMAIN cells) = n
      <3>1. Cardinality(1 .. n) = IF 1 > n THEN 0 ELSE n - 1 + 1
        BY FS_Interval
      <3> QED BY <2>1, <3>1
    <2> DEFINE k == n + 1
    <2>3. /\ k \notin DOMAIN cells /\ k # 0 /\ 0 \notin DOMAIN cells
          /\ DOMAIN cells \cup {k} = 1 .. k
      BY <2>1
    <2>4. NewCell(m) \in CellStates
      BY DEF NewCell, CellStates
    <2>5. /\ cells' = [d \in DOMAIN cells \cup {k} |->
                         IF d = k THEN NewCell(m) ELSE cells[d]]
          /\ pool' = k /\ UNCHANGED <<at, cell, seq>> /\ reloads' = reloads + 1
      BY <1>3, <2>2 DEF Add, Reload
    <2>6. k \in Nat
      BY <2>1
    <2> HIDE DEF k
    <2>7. /\ DOMAIN cells' = DOMAIN cells \cup {k}
          /\ cells'[k] = NewCell(m)
          /\ \A d \in DOMAIN cells : cells'[d] = cells[d]
      BY <2>3, <2>5
    <2>8. LaneTypeOK'
      <3>1. cells' \in [DOMAIN cells' -> CellStates]
        BY <1>1, <2>4, <2>5, <2>7 DEF LaneTypeOK
      <3> QED BY <1>1, <2>5, <2>7, <3>1 DEF LaneTypeOK
    <2>9. Numbered'
      BY <2>3, <2>6, <2>7 DEF Numbered
    <2>10. QueueOK'
      BY <1>1, <2>5, <2>7 DEF QueueOK, NewCell
    <2>11. NobodyIsForgotten'
      <3>1. \A r \in Requests : at[r] = "waiting" => cell[r] \in DOMAIN cells
        BY <1>1 DEF LaneTypeOK
      <3> QED BY <1>1, <2>5, <2>7, <3>1 DEF NobodyIsForgotten
    <2>12. NoLaneLeaks'
      <3>1. Out(k)' = {}
        BY <1>1, <2>3, <2>5 DEF Out, LaneTypeOK
      <3>2. cells'[k].in_flight = Cardinality(Out(k)')
        BY <2>7, <3>1, FS_EmptySet DEF NewCell
      <3>3. \A d \in DOMAIN cells : Out(d)' = Out(d)
        BY <2>5 DEF Out
      <3>4. \A d \in DOMAIN cells : cells'[d].in_flight = Cardinality(Out(d)')
        BY <1>1, <2>7, <3>3 DEF NoLaneLeaks
      <3> QED BY <2>7, <3>2, <3>4 DEF NoLaneLeaks
    <2>13. NobodyWaitsInVain'
      BY <1>1, <2>7 DEF NobodyWaitsInVain, HasFreeLane, NewCell
    <2>14. WidthStep /\ OvertakeStep
      BY <1>1, <2>5, <2>7 DEF WidthStep, OvertakeStep, LaneTypeOK, CellStates
    <2> QED BY <2>8, <2>9, <2>10, <2>11, <2>12, <2>13, <2>14 DEF LaneInv
  <1> QED BY <1>2, <1>3

-----------------------------------------------------------------------------
LEMMA InitLaneInv == LaneInit => LaneInv
  <1> SUFFICES ASSUME LaneInit
               PROVE  LaneInv
    OBVIOUS
  <1>1. PICK m \in Widths : cells = [c \in {1} |-> NewCell(m)]
    BY DEF LaneInit
  <1>2. DOMAIN cells = {1} /\ cells[1] = NewCell(m) /\ NewCell(m) \in CellStates
    BY <1>1 DEF NewCell, CellStates
  <1>3. LaneTypeOK
    BY <1>1, <1>2 DEF LaneInit, LaneTypeOK, Places
  <1>4. Numbered
    <2>1. {1} = 1 .. 1
      OBVIOUS
    <2> QED BY <1>2, <2>1 DEF Numbered
  <1>5. QueueOK /\ NobodyIsForgotten /\ NobodyWaitsInVain
    BY <1>2 DEF LaneInit, QueueOK, NobodyIsForgotten, NobodyWaitsInVain, NewCell
  <1>6. NoLaneLeaks
    <2>1. Out(1) = {}
      BY DEF LaneInit, Out
    <2>2. cells[1].in_flight = Cardinality(Out(1))
      BY <1>2, <2>1, FS_EmptySet DEF NewCell
    <2> QED BY <1>2, <2>2 DEF NoLaneLeaks
  <1> QED BY <1>3, <1>4, <1>5, <1>6 DEF LaneInv

LEMMA StutterKeeps ==
  ASSUME LaneInv, UNCHANGED vars
  PROVE  LaneInv' /\ WidthStep /\ OvertakeStep
  <1>1. UNCHANGED <<cells, pool, at, cell, seq, reloads>>
    BY DEF vars
  <1>2. /\ LaneTypeOK /\ QueueOK /\ NobodyIsForgotten /\ NoLaneLeaks
        /\ NobodyWaitsInVain /\ Numbered
    BY DEF LaneInv
  <1>3. \A c \in DOMAIN cells : Out(c)' = Out(c)
    BY <1>1 DEF Out
  <1>4. NoLaneLeaks'
    BY <1>1, <1>2, <1>3 DEF NoLaneLeaks
  <1>5. LaneTypeOK' /\ QueueOK' /\ NobodyIsForgotten'
    BY <1>1, <1>2 DEF LaneTypeOK, QueueOK, NobodyIsForgotten
  <1>6. NobodyWaitsInVain' /\ Numbered'
    BY <1>1, <1>2 DEF NobodyWaitsInVain, Numbered, HasFreeLane
  <1>7. WidthStep /\ OvertakeStep
    BY <1>1, <1>2 DEF WidthStep, OvertakeStep, LaneTypeOK, CellStates
  <1> QED BY <1>4, <1>5, <1>6, <1>7 DEF LaneInv

LEMMA NextKeeps ==
  ASSUME LaneInv, [LaneNext]_vars
  PROVE  LaneInv' /\ WidthStep /\ OvertakeStep
  <1>1. ASSUME NEW r \in Requests, RequestStep(r)
        PROVE  LaneInv' /\ WidthStep /\ OvertakeStep
    <2>1. CASE LookUp(r)
      BY <2>1, LookUpStep
    <2>2. CASE Admit(r)
      BY <2>2, AdmitStep
    <2>3. CASE TryFails(r) \/ Take(r) \/ CloseReceiver(r)
      BY <2>3, PlaceStep
    <2>4. CASE Enqueue(r)
      BY <2>4, EnqueueStep
    <2>5. CASE Leave(r)
      BY <2>5, LeaveStep
    <2>6. CASE DropPermit(r)
      BY <2>6, DropPermitStep
    <2> QED BY <1>1, <2>1, <2>2, <2>3, <2>4, <2>5, <2>6 DEF RequestStep
  <1>2. CASE \E m \in Widths : Resize(m)
    BY <1>2, ResizeStep
  <1>3. CASE Remove \/ \E m \in Widths : Add(m)
    BY <1>3, ReloadStep
  <1>4. CASE UNCHANGED vars
    BY <1>4, StutterKeeps
  <1> QED BY <1>1, <1>2, <1>3, <1>4 DEF LaneNext

-----------------------------------------------------------------------------
\* The invariant the theorems rest on.
THEOREM LanesAreConsistent == LaneSpec => []LaneInv
  <1>1. LaneInv /\ [LaneNext]_vars => LaneInv'
    BY NextKeeps
  <1> QED BY InitLaneInv, <1>1, PTL DEF LaneSpec

\* No lane leaks: PoolPermit::drop and serve_waiters give back or pass on every
\* lane that was taken, whatever timeouts, lost handoffs and reloads come between.
THEOREM NoLaneIsLost == LaneSpec => []NoLaneLeaks
  <1>1. LaneInv => NoLaneLeaks
    BY DEF LaneInv
  <1> QED BY LanesAreConsistent, <1>1, PTL

\* No wake-up is lost: whoever waits is in the queue of its cell, and no cell has
\* both a queue and a free lane (acquire, serve_waiters, apply).
THEOREM NoWakeUpIsLost == LaneSpec => [](NobodyIsForgotten /\ NobodyWaitsInVain)
  <1>1. LaneInv => NobodyIsForgotten /\ NobodyWaitsInVain
    BY DEF LaneInv
  <1> QED BY LanesAreConsistent, <1>1, PTL

\* No step of acquire, serve_waiters or apply takes a pool over its width.
THEOREM WidthIsKept == LaneSpec => WidthHolds
  <1>1. LaneInv /\ [LaneNext]_vars => [WidthStep]_vars
    BY NextKeeps
  <1>2. [WidthStep]_vars => [\A c \in DOMAIN cells :
          cells'[c].in_flight > cells[c].in_flight =>
            cells'[c].max = Unlimited \/ cells'[c].in_flight <= cells'[c].max]_vars
    BY DEF WidthStep
  <1> QED BY LanesAreConsistent, <1>1, <1>2, PTL DEF LaneSpec, WidthHolds

\* A lane goes to the most urgent waiter, and among equals to the first: the order
\* of WaiterKey holds through handoffs, timeouts and reloads.
THEOREM LanesGoInOrder == LaneSpec => NobodyOvertakes
  <1>1. LaneInv /\ [LaneNext]_vars => [OvertakeStep]_vars
    BY NextKeeps
  <1>2. [OvertakeStep]_vars =>
          [\A r, q \in Requests :
             /\ at[r] \notin HasPermit /\ at'[r] \in HasPermit
             /\ at[q] = "waiting" /\ at'[q] = "waiting"
             /\ cell[r] = cell[q]
             => /\ at[r] = "waiting"
                /\ Priority[r] <= Priority[q]
                /\ Priority[r] = Priority[q] => seq[r] < seq[q]]_vars
    BY DEF OvertakeStep
  <1> QED BY LanesAreConsistent, <1>1, <1>2, PTL DEF LaneSpec, NobodyOvertakes

=============================================================================
