------------------------- MODULE UpdateIngressProofs -------------------------
(* Theorems about the update ingress, for every set of updates, lanes,       *)
(* workers and processes, any number of entries and of faults.               *)
EXTENDS UpdateIngress, TLAPS, WellFoundedInduction

-----------------------------------------------------------------------------
(* The first of a set of rows exists.                                        *)

LEMMA LeastNat ==
  ASSUME NEW T \in SUBSET Nat, T # {}
  PROVE  \E x \in T : \A y \in T : x <= y
<1>1. PICK x \in T : \A y \in T : ~ (<<y, x>> \in OpToRel(<, Nat))
  BY NatLessThanWellFounded, WFMin
<1>2. \A y \in T : x <= y
  <2> TAKE y \in T
  <2>1. ~ (y < x)
    BY <1>1 DEF OpToRel
  <2> QED
    BY <2>1
<1> QED
  BY <1>2

LEMMA EarliestIsOne ==
  ASSUME NEW table, NEW us, us # {}, \A u \in us : table[u].pos \in Nat
  PROVE  Earliest(table, us) \in us
<1> DEFINE places == {table[u].pos : u \in us}
<1>1. PICK x \in places : \A y \in places : x <= y
  BY LeastNat
<1>2. PICK u \in us : table[u].pos = x
  OBVIOUS
<1>3. \A v \in us : table[u].pos <= table[v].pos
  BY <1>1, <1>2
<1> QED
  BY <1>3 DEF Earliest

-----------------------------------------------------------------------------
(* The inbox.                                                                *)

(* A row that is worked on is the head of its lane.                          *)
ProcessingIsHead ==
  \A u \in Updates :
    Present(u) /\ inbox[u].status = "processing" => heads[LaneOf[u]] = u

(* A worker holds a token its row has had, and no two hold the same.         *)
TokensFence ==
  /\ \A w \in Workers : work[w].at # "idle" => Present(work[w].update) /\ work[w].update \in Updates
  /\ \A w \in Workers : Busy(w) => work[w].token <= inbox[work[w].update].token
  /\ \A v, w \in Workers :
       /\ Busy(v) /\ Busy(w)
       /\ work[v].update = work[w].update /\ work[v].token = work[w].token
       => v = w

InboxInv == InboxTypeOK /\ HeadsAreOpen /\ ProcessingIsHead /\ TokensFence

(* What no step may do to a row: take it away, or touch it once it ended.    *)
RowsStay ==
  \A u \in Updates :
    /\ Present(u) => Present(u)'
    /\ Ended(u) => Ended(u)' /\ inbox'[u].status = inbox[u].status

(* The row of u, typed.                                                      *)
LEMMA RowTyped ==
  ASSUME InboxTypeOK, NEW u \in Updates, Present(u)
  PROVE  /\ inbox[u] \in Rows
         /\ inbox[u].pos \in Nat /\ inbox[u].token \in Nat
         /\ inbox[u].status \in Open \cup Terminal
         /\ inbox[u].leased \in BOOLEAN /\ inbox[u].applied \in BOOLEAN
<1> QED
  BY DEF InboxTypeOK, Present, Rows

LEMMA TaskTyped ==
  ASSUME InboxTypeOK, NEW w \in Workers
  PROVE  /\ work[w] \in Tasks
         /\ work[w].at \in Places /\ work[w].token \in Nat
         /\ work[w].update \in Updates \cup {Nil}
<1> QED
  BY DEF InboxTypeOK, Tasks

(* Steps that leave the heads alone and change a row in its lease and its    *)
(* checkpoint at most, or send it back to wait.                              *)
SameRows ==
  /\ heads' = heads
  /\ inbox' \in [Updates -> Rows \cup {Nil}]
  /\ \A u \in Updates : /\ Present(u) <=> Present(u)'
                        /\ Present(u) =>
                             /\ inbox'[u].token = inbox[u].token
                             /\ \/ inbox'[u].status = inbox[u].status
                                \/ /\ inbox[u].status = "processing"
                                   /\ inbox'[u].status = "retry_wait"

(* Workers go on with what they hold, or let it go.                          *)
SameOrFree ==
  /\ work' \in [Workers -> Tasks]
  /\ \A w \in Workers :
       \/ work'[w] = Rest
       \/ /\ work'[w].update = work[w].update /\ work'[w].token = work[w].token
          /\ work[w].at # "idle"
          /\ work'[w].at \in {"claimed", "handling"} => Busy(w)
       \/ work'[w] = work[w]

FaultsStay == faults' \in 0 .. MaxFaults

LEMMA QuietKeeps ==
  ASSUME InboxInv, SameRows, SameOrFree, FaultsStay
  PROVE  InboxInv' /\ RowsStay
<1> USE DEF Open, Terminal
<1>1. InboxTypeOK'
  BY DEF InboxInv, InboxTypeOK, SameRows, SameOrFree, FaultsStay
<1>2. HeadsAreOpen'
  BY DEF InboxInv, InboxTypeOK, HeadsAreOpen, SameRows, IsOpen, Present
<1>3. ProcessingIsHead'
  BY DEF InboxInv, ProcessingIsHead, SameRows, Present
<1>4. TokensFence'
  BY DEF InboxInv, InboxTypeOK, TokensFence, SameRows, SameOrFree, Busy, Present, Rest
<1>5. RowsStay
  BY DEF SameRows, RowsStay, Ended, Present
<1> QED
  BY <1>1, <1>2, <1>3, <1>4, <1>5 DEF InboxInv

(* A task of a worker that is busy has a row of its own.                     *)
LEMMA BusyTask ==
  ASSUME InboxInv, NEW w \in Workers, work[w].at # "idle"
  PROVE  /\ work[w].update \in Updates /\ Present(work[w].update)
         /\ inbox[work[w].update] \in Rows
<1> QED
  BY RowTyped DEF InboxInv, TokensFence

LEMMA LookKeeps ==
  ASSUME InboxInv, NEW w \in Workers, Look(w)
  PROVE  InboxInv' /\ RowsStay
<1>1. PICK u \in Updates :
        /\ Candidate(u)
        /\ work' = [work EXCEPT ![w] = [Rest EXCEPT !.at = "looking", !.update = u]]
  BY DEF Look
<1>2. UNCHANGED <<inbox, heads, faults>>
  BY DEF Look
<1>3. Present(u)
  BY <1>1 DEF Candidate, Due, IsOpen
<1>4. InboxTypeOK'
  BY <1>1, <1>2 DEF InboxInv, InboxTypeOK, Tasks, Rest, Places
<1>5. HeadsAreOpen' /\ ProcessingIsHead'
  BY <1>2 DEF InboxInv, HeadsAreOpen, ProcessingIsHead, IsOpen, Present
<1>6. TokensFence'
  BY <1>1, <1>2, <1>3 DEF InboxInv, InboxTypeOK, TokensFence, Busy, Rest, Present
<1>7. RowsStay
  BY <1>2 DEF RowsStay, Ended, Present
<1> QED
  BY <1>4, <1>5, <1>6, <1>7 DEF InboxInv

LEMMA ClaimedTyped ==
  ASSUME NEW r \in Rows
  PROVE  /\ Claimed(r) \in Rows /\ Claimed(r) # Nil
         /\ Claimed(r).status = "processing"
         /\ Claimed(r).token = r.token + 1
         /\ Claimed(r).pos = r.pos
<1>1. Claimed(r) \in Rows
  <2>1. r.token + 1 \in Nat
    BY DEF Rows
  <2>2. PICK n \in Nat : n = r.token + 1
    BY <2>1
  <2>3. Claimed(r) = [r EXCEPT !.status = "processing", !.token = n, !.leased = TRUE]
    BY <2>2 DEF Claimed
  <2>4. [r EXCEPT !.status = "processing", !.token = n, !.leased = TRUE] \in Rows
    BY DEF Rows, Open
  <2> QED
    BY <2>3, <2>4
<1>2. Claimed(r) # Nil
  BY <1>1, NilIsNoRow
<1>3. Claimed(r).status = "processing" /\ Claimed(r).pos = r.pos
  BY DEF Claimed, Rows
<1>4. Claimed(r).token = r.token + 1
  BY DEF Claimed, Rows
<1> QED
  BY <1>1, <1>2, <1>3, <1>4

(* A worker that goes from the snapshot to the row.                          *)
LEMMA RestWith ==
  ASSUME NEW u \in Updates \cup {Nil}, NEW n \in Nat
  PROVE  [Rest EXCEPT !.at = "claimed", !.update = u, !.token = n]
           = [at |-> "claimed", update |-> u, token |-> n]
<1>1. Rest \in Tasks
  BY DEF Rest, Tasks, Places
<1> DEFINE t == [Rest EXCEPT !.at = "claimed", !.update = u, !.token = n]
<1>2. t \in Tasks
  BY <1>1 DEF Tasks, Places
<1>3. t.at = "claimed" /\ t.update = u /\ t.token = n
  BY <1>1 DEF Tasks, Places
<1>4. ASSUME NEW task \in Tasks, task.at = "claimed", task.update = u, task.token = n
      PROVE  task = [at |-> "claimed", update |-> u, token |-> n]
  BY <1>4 DEF Tasks
<1> HIDE DEF t
<1>5. t = [at |-> "claimed", update |-> u, token |-> n]
  BY <1>2, <1>3, <1>4
<1> QED
  BY <1>5 DEF t

(* A claim: the row was open, being a head, and gets a token nobody has.     *)
LEMMA TakeKeeps ==
  ASSUME InboxInv, NEW w \in Workers, Take(w)
  PROVE  InboxInv' /\ RowsStay
<1>0. PICK u \in Updates :
        /\ u = work[w].update /\ Present(u)
        /\ inbox[u] \in Rows /\ inbox[u].token \in Nat
  BY BusyTask, RowTyped DEF Take, InboxInv
<1>t. /\ inbox \in [Updates -> Rows \cup {Nil}]
      /\ heads \in [Lanes -> Updates \cup {Nil}]
      /\ work \in [Workers -> Tasks]
      /\ faults \in 0 .. MaxFaults
  BY DEF InboxInv, InboxTypeOK
<1>1. CASE ~ StillThere(u)
  <2>1. work' = [work EXCEPT ![w] = Rest] /\ UNCHANGED <<inbox, heads, faults>>
    BY <1>0, <1>1 DEF Take, Free
  <2>2. Rest \in Tasks
    BY DEF Rest, Tasks, Places
  <2>3. SameRows /\ FaultsStay
    BY <1>t, <2>1 DEF SameRows, FaultsStay, Present
  <2>4. SameOrFree
    BY <1>t, <2>1, <2>2 DEF SameOrFree
  <2> QED
    BY <2>3, <2>4, QuietKeeps
<1>2. CASE StillThere(u)
  <2>1. /\ inbox' = [inbox EXCEPT ![u] = Claimed(@)]
        /\ work' = [work EXCEPT ![w] = [Rest EXCEPT !.at = "claimed", !.update = u,
                                                    !.token = inbox[u].token + 1]]
        /\ heads' = heads /\ faults' = faults
    BY <1>0, <1>2 DEF Take
  <2>2. heads[LaneOf[u]] = u /\ LaneOf[u] \in Lanes /\ u # Nil
    BY <1>0, <1>2, InboxAssumption DEF StillThere
  <2>3. IsOpen(u)
    BY <2>2 DEF InboxInv, HeadsAreOpen
  <2>4. PICK n \in Nat : n = inbox[u].token + 1 /\ n > inbox[u].token
    <3>1. inbox[u].token + 1 \in Nat /\ inbox[u].token + 1 > inbox[u].token
      BY <1>0
    <3> QED
      BY <3>1
  <2>5. PICK r \in Rows : /\ r = Claimed(inbox[u]) /\ r # Nil
                          /\ r.status = "processing" /\ r.token = n
    BY <1>0, <2>4, ClaimedTyped
  <2>6. PICK t \in Tasks : t = [at |-> "claimed", update |-> u, token |-> n]
    BY <1>0 DEF Tasks, Places
  <2>7. t.at = "claimed" /\ t.update = u /\ t.token = n
    BY <2>6
  <2>8. inbox' = [inbox EXCEPT ![u] = r]
    BY <1>0, <1>t, <2>1, <2>5
  <2>9. work' = [work EXCEPT ![w] = t]
    <3>1. work' = [work EXCEPT ![w] = [Rest EXCEPT !.at = "claimed", !.update = u, !.token = n]]
      BY <2>1, <2>4
    <3>2. [Rest EXCEPT !.at = "claimed", !.update = u, !.token = n] = t
      BY <1>0, <2>6, RestWith
    <3> QED
      BY <3>1, <3>2
  <2>10. /\ inbox' \in [Updates -> Rows \cup {Nil}]
         /\ inbox'[u] = r
         /\ \A v \in Updates \ {u} : inbox'[v] = inbox[v]
    BY <1>0, <1>t, <2>8
  <2>11. /\ work' \in [Workers -> Tasks]
         /\ work'[w] = t
         /\ \A x \in Workers \ {w} : work'[x] = work[x]
    BY <1>t, <2>9
  <2>12. InboxTypeOK'
    BY <1>t, <2>1, <2>10, <2>11 DEF InboxTypeOK
  <2>13. \A v \in Updates : /\ Present(v)' <=> Present(v)
                            /\ IsOpen(v)' <=> IsOpen(v)
    <3> TAKE v \in Updates
    <3>1. CASE v = u
      BY <1>0, <2>3, <2>5, <2>10, <3>1 DEF Present, IsOpen, Open
    <3>2. CASE v # u
      <4>1. inbox'[v] = inbox[v]
        BY <2>10, <3>2
      <4> QED
        BY <4>1 DEF Present, IsOpen, Open
    <3> QED
      BY <3>1, <3>2
  <2>14. HeadsAreOpen'
    BY <1>t, <2>1, <2>13 DEF InboxInv, HeadsAreOpen, IsOpen, Present
  <2>15. ProcessingIsHead'
    BY <2>1, <2>2, <2>10, <2>13 DEF InboxInv, ProcessingIsHead, Present
  <2>16. TokensFence'
    <3>1. \A x \in Workers \ {w} : Busy(x)' => Busy(x)
      BY <2>11 DEF Busy
    <3>2. \A x \in Workers : Busy(x) /\ work[x].update = u => work[x].token < n
      <4> TAKE x \in Workers
      <4> HAVE Busy(x) /\ work[x].update = u
      <4>1. work[x].token <= inbox[u].token
        BY DEF InboxInv, TokensFence
      <4>2. work[x].token \in Nat
        BY TaskTyped DEF InboxInv
      <4> QED
        BY <1>0, <2>4, <4>1, <4>2
    <3>3. \A x \in Workers : work'[x].at # "idle" => (Present(work[x].update))' /\ work'[x].update \in Updates
      BY <1>0, <2>7, <2>11, <2>13 DEF InboxInv, TokensFence, Present
    <3>4. ASSUME NEW x \in Workers, Busy(x)'
          PROVE  work'[x].token <= inbox'[work'[x].update].token
      <4>1. CASE x = w
        BY <2>5, <2>7, <2>10, <2>11, <4>1
      <4>2. CASE x # w /\ work[x].update = u
        <5>1. work'[x] = work[x] /\ work[x].token < n
          BY <2>11, <3>1, <3>2, <3>4, <4>2
        <5>2. work[x].token \in Nat
          BY TaskTyped DEF InboxInv
        <5> QED
          BY <2>5, <2>10, <4>2, <5>1, <5>2
      <4>3. CASE x # w /\ work[x].update # u
        <5>1. work'[x] = work[x] /\ Busy(x)
          BY <2>11, <3>1, <3>4, <4>3
        <5>2. work[x].update \in Updates /\ work[x].token <= inbox[work[x].update].token
          BY <5>1 DEF InboxInv, TokensFence, Busy
        <5> QED
          BY <2>10, <4>3, <5>1, <5>2
      <4> QED
        BY <4>1, <4>2, <4>3
    <3>5. ASSUME NEW x \in Workers, NEW y \in Workers, Busy(x)', Busy(y)',
                 work'[x].update = work'[y].update, work'[x].token = work'[y].token
          PROVE  x = y
      <4>1. \A z \in Workers \ {w} : Busy(z)' /\ work'[z].update = u => work'[z].token # n
        <5> TAKE z \in Workers \ {w}
        <5> HAVE Busy(z)' /\ work'[z].update = u
        <5>1. work[z].token < n /\ work[z].token \in Nat /\ work'[z] = work[z]
          BY <2>11, <3>1, <3>2, TaskTyped DEF InboxInv
        <5> QED
          BY <5>1
      <4>2. CASE x = w \/ y = w
        BY <2>7, <2>11, <3>5, <4>1, <4>2
      <4>3. CASE x # w /\ y # w
        BY <2>11, <3>1, <3>5, <4>3 DEF InboxInv, TokensFence
      <4> QED
        BY <4>2, <4>3
    <3> QED
      BY <3>3, <3>4, <3>5 DEF TokensFence, Busy, Present
  <2>17. RowsStay
    <3>1. ~ Ended(u)
      BY <2>3 DEF Ended, IsOpen, Open, Terminal
    <3>2. ASSUME NEW v \in Updates
          PROVE  /\ Present(v) => Present(v)'
                 /\ Ended(v) => Ended(v)' /\ inbox'[v].status = inbox[v].status
      <4>1. CASE v = u
        BY <2>13, <3>1, <4>1 DEF Present, Ended
      <4>2. CASE v # u
        BY <2>10, <2>13, <4>2 DEF Ended, Present
      <4> QED
        BY <4>1, <4>2
    <3> QED
      BY <3>2 DEF RowsStay
  <2> QED
    BY <2>12, <2>14, <2>15, <2>16, <2>17 DEF InboxInv
<1> QED
  BY <1>1, <1>2

-----------------------------------------------------------------------------
(* The steps that move no head.                                              *)

LEMMA FreeKeeps ==
  ASSUME InboxInv, NEW w \in Workers, Free(w)
  PROVE  SameOrFree
<1>1. Rest \in Tasks
  BY DEF Rest, Tasks, Places
<1>2. work \in [Workers -> Tasks]
  BY DEF InboxInv, InboxTypeOK
<1> QED
  BY <1>1, <1>2 DEF Free, SameOrFree

LEMMA GoesKeeps ==
  ASSUME InboxInv, NEW w \in Workers, Busy(w), Goes(w, "handling")
  PROVE  SameOrFree
<1>1. work \in [Workers -> Tasks] /\ work[w].at # "idle"
  BY DEF InboxInv, InboxTypeOK, Busy
<1>2. PICK t \in Tasks : /\ t = [work[w] EXCEPT !.at = "handling"]
                         /\ t.update = work[w].update /\ t.token = work[w].token
  <2>1. [work[w] EXCEPT !.at = "handling"] \in Tasks
    BY <1>1 DEF Tasks, Places
  <2>2. /\ [work[w] EXCEPT !.at = "handling"].update = work[w].update
        /\ [work[w] EXCEPT !.at = "handling"].token = work[w].token
    BY <1>1 DEF Tasks
  <2> QED
    BY <2>1, <2>2
<1>3. work' = [work EXCEPT ![w] = t]
  BY <1>1, <1>2 DEF Goes
<1> QED
  BY <1>1, <1>2, <1>3 DEF SameOrFree

LEMMA SameWork ==
  ASSUME InboxInv, work' = work
  PROVE  SameOrFree
<1> QED
  BY DEF InboxInv, InboxTypeOK, SameOrFree

LEMMA SameInbox ==
  ASSUME InboxInv, inbox' = inbox, heads' = heads
  PROVE  SameRows
<1> QED
  BY DEF InboxInv, InboxTypeOK, SameRows, Present

(* One row changes, and keeps what SameRows asks.                            *)
LEMMA OneRow ==
  ASSUME InboxInv, NEW u \in Updates, Present(u), heads' = heads,
         NEW row \in Rows, row.token = inbox[u].token,
         \/ row.status = inbox[u].status
         \/ inbox[u].status = "processing" /\ row.status = "retry_wait",
         inbox' = [inbox EXCEPT ![u] = row]
  PROVE  SameRows
<1>1. inbox \in [Updates -> Rows \cup {Nil}] /\ row # Nil
  BY NilIsNoRow DEF InboxInv, InboxTypeOK
<1>2. /\ inbox' \in [Updates -> Rows \cup {Nil}]
      /\ inbox'[u] = row
      /\ \A v \in Updates \ {u} : inbox'[v] = inbox[v]
  BY <1>1
<1>3. ASSUME NEW v \in Updates
      PROVE  /\ Present(v) <=> Present(v)'
             /\ Present(v) =>
                  /\ inbox'[v].token = inbox[v].token
                  /\ \/ inbox'[v].status = inbox[v].status
                     \/ /\ inbox[v].status = "processing"
                        /\ inbox'[v].status = "retry_wait"
  <2>1. CASE v = u
    BY <1>1, <1>2, <2>1 DEF Present
  <2>2. CASE v # u
    <3>1. inbox'[v] = inbox[v]
      BY <1>2, <2>2
    <3> QED
      BY <3>1 DEF Present
  <2> QED
    BY <2>1, <2>2
<1> QED
  BY <1>2, <1>3 DEF SameRows

(* What the statements make of a row.                                        *)
LEMMA RowWritten ==
  ASSUME NEW old \in Rows, NEW status \in Open \cup Terminal
  PROVE  /\ [old EXCEPT !.leased = FALSE] \in Rows
         /\ [old EXCEPT !.leased = FALSE].token = old.token
         /\ [old EXCEPT !.leased = FALSE].status = old.status
         /\ [old EXCEPT !.applied = TRUE] \in Rows
         /\ [old EXCEPT !.applied = TRUE].token = old.token
         /\ [old EXCEPT !.applied = TRUE].status = old.status
         /\ [old EXCEPT !.status = status] \in Rows
         /\ [old EXCEPT !.status = status].token = old.token
         /\ [old EXCEPT !.status = status].status = status
<1>1. /\ [old EXCEPT !.leased = FALSE] \in Rows
      /\ [old EXCEPT !.applied = TRUE] \in Rows
      /\ [old EXCEPT !.status = status] \in Rows
  BY DEF Rows
<1>2. /\ [old EXCEPT !.leased = FALSE].token = old.token
      /\ [old EXCEPT !.leased = FALSE].status = old.status
  BY DEF Rows
<1>3. /\ [old EXCEPT !.applied = TRUE].token = old.token
      /\ [old EXCEPT !.applied = TRUE].status = old.status
  BY DEF Rows
<1>4. /\ [old EXCEPT !.status = status].token = old.token
      /\ [old EXCEPT !.status = status].status = status
  BY DEF Rows
<1> QED
  BY <1>1, <1>2, <1>3, <1>4

LEMMA LapseKeeps ==
  ASSUME InboxInv, NEW u \in Updates, Present(u), heads' = heads, Lapse(u)
  PROVE  SameRows
<1>1. inbox[u] \in Rows /\ inbox \in [Updates -> Rows \cup {Nil}]
  BY RowTyped DEF InboxInv, InboxTypeOK
<1>2. PICK row \in Rows : /\ row = [inbox[u] EXCEPT !.leased = FALSE]
                          /\ row.token = inbox[u].token /\ row.status = inbox[u].status
  BY <1>1, RowWritten DEF Open
<1>3. inbox' = [inbox EXCEPT ![u] = row]
  BY <1>1, <1>2 DEF Lapse
<1> QED
  BY <1>2, <1>3, OneRow

LEMMA CheckpointKeeps ==
  ASSUME InboxInv, NEW w \in Workers, Checkpoint(w)
  PROVE  InboxInv' /\ RowsStay
<1>0. PICK u \in Updates : u = work[w].update /\ Present(u) /\ inbox[u] \in Rows
  BY BusyTask DEF Checkpoint
<1>t. inbox \in [Updates -> Rows \cup {Nil}] /\ faults \in 0 .. MaxFaults
  BY DEF InboxInv, InboxTypeOK
<1>1. /\ Busy(w) /\ heads' = heads /\ faults' = faults
  BY DEF Checkpoint, Busy
<1>2. FaultsStay
  BY <1>t, <1>1 DEF FaultsStay
<1>3. CASE Goes(w, "handling") /\ inbox' = inbox
  BY <1>1, <1>2, <1>3, GoesKeeps, SameInbox, QuietKeeps
<1>4. CASE Free(w) /\ inbox' = inbox
  BY <1>1, <1>2, <1>4, FreeKeeps, SameInbox, QuietKeeps
<1>5. CASE Goes(w, "handling") /\ inbox' = [inbox EXCEPT ![u].applied = TRUE]
  <2>1. PICK row \in Rows : /\ row = [inbox[u] EXCEPT !.applied = TRUE]
                            /\ row.token = inbox[u].token /\ row.status = inbox[u].status
    BY <1>0, RowWritten DEF Open
  <2>2. inbox' = [inbox EXCEPT ![u] = row]
    BY <1>0, <1>t, <1>5, <2>1
  <2>3. SameRows
    BY <1>0, <1>1, <2>1, <2>2, OneRow
  <2> QED
    BY <1>1, <1>2, <1>5, <2>3, GoesKeeps, QuietKeeps
<1> QED
  BY <1>0, <1>3, <1>4, <1>5 DEF Checkpoint

LEMMA StoreErrorKeeps ==
  ASSUME InboxInv, NEW w \in Workers, StoreError(w)
  PROVE  InboxInv' /\ RowsStay
<1>1. FaultsStay
  BY InboxAssumption DEF InboxInv, InboxTypeOK, StoreError, Fault, FaultsStay
<1>2. SameRows /\ SameOrFree
  BY FreeKeeps, SameInbox DEF StoreError
<1> QED
  BY <1>1, <1>2, QuietKeeps

LEMMA LeaseEndsKeeps ==
  ASSUME InboxInv, NEW u \in Updates, LeaseEnds(u)
  PROVE  InboxInv' /\ RowsStay
<1>1. FaultsStay
  BY DEF InboxInv, InboxTypeOK, LeaseEnds, FaultsStay
<1>2. SameRows /\ SameOrFree
  BY LapseKeeps, SameWork DEF LeaseEnds, Running
<1> QED
  BY <1>1, <1>2, QuietKeeps

LEMMA LeaseLapsesKeeps ==
  ASSUME InboxInv, NEW w \in Workers, LeaseLapses(w)
  PROVE  InboxInv' /\ RowsStay
<1>1. FaultsStay
  BY InboxAssumption DEF InboxInv, InboxTypeOK, LeaseLapses, Fault, FaultsStay
<1>2. PICK u \in Updates : u = work[w].update /\ Present(u)
  BY BusyTask DEF LeaseLapses, Held, Busy
<1>3. SameRows /\ SameOrFree
  BY <1>2, LapseKeeps, SameWork DEF LeaseLapses
<1> QED
  BY <1>1, <1>3, QuietKeeps

-----------------------------------------------------------------------------
(* The steps that move a head.                                               *)

LEMMA NextHeadIsBehind ==
  ASSUME InboxInv, NEW u \in Updates
  PROVE  \/ /\ NextHead(u) = Nil
            /\ \A v \in Updates \ {u} : LaneOf[v] = LaneOf[u] => ~ IsOpen(v)
         \/ /\ NextHead(u) \in Updates \ {u}
            /\ IsOpen(NextHead(u)) /\ LaneOf[NextHead(u)] = LaneOf[u]
<1>1. PICK behind : behind = {v \in Updates \ {u} : IsOpen(v) /\ LaneOf[v] = LaneOf[u]}
  OBVIOUS
<1>2. PICK table : table = inbox
  OBVIOUS
<1>3. NextHead(u) = IF behind = {} THEN Nil ELSE Earliest(table, behind)
  BY <1>1, <1>2 DEF NextHead
<1>4. CASE behind = {}
  BY <1>1, <1>3, <1>4
<1>5. CASE behind # {}
  <2>1. \A v \in behind : table[v].pos \in Nat
    BY <1>1, <1>2, RowTyped DEF InboxInv, IsOpen
  <2>2. Earliest(table, behind) \in behind
    BY <1>5, <2>1, EarliestIsOne
  <2> QED
    BY <1>1, <1>3, <1>5, <2>2
<1> QED
  BY <1>4, <1>5

(* A row of its lane's head ends and the lane moves on.                      *)
LEMMA EndKeeps ==
  ASSUME InboxInv, NEW u \in Updates, Present(u), inbox[u].status = "processing",
         NEW status \in Terminal, Transition(u, status), SameOrFree, FaultsStay
  PROVE  InboxInv' /\ RowsStay
<1> USE DEF Terminal
<1>t. /\ inbox \in [Updates -> Rows \cup {Nil}] /\ inbox[u] \in Rows
      /\ heads \in [Lanes -> Updates \cup {Nil}]
      /\ LaneOf[u] \in Lanes
  BY RowTyped, InboxAssumption DEF InboxInv, InboxTypeOK
<1>1. PICK row \in Rows : /\ row = [[inbox[u] EXCEPT !.status = status] EXCEPT !.leased = FALSE]
                          /\ row.token = inbox[u].token /\ row.status = status
  <2>1. PICK new \in Rows : /\ new = [inbox[u] EXCEPT !.status = status]
                            /\ new.token = inbox[u].token /\ new.status = status
    BY <1>t, RowWritten
  <2>2. /\ [new EXCEPT !.leased = FALSE] \in Rows
        /\ [new EXCEPT !.leased = FALSE].token = new.token
        /\ [new EXCEPT !.leased = FALSE].status = new.status
    BY RowWritten
  <2> QED
    BY <2>1, <2>2
<1>2. /\ inbox' \in [Updates -> Rows \cup {Nil}]
      /\ inbox'[u] = row
      /\ \A v \in Updates \ {u} : inbox'[v] = inbox[v]
  BY <1>t, <1>1 DEF Transition
<1>3. PICK next : next = NextHead(u)
  OBVIOUS
<1>4. heads' = [heads EXCEPT ![LaneOf[u]] = next]
  BY <1>3 DEF Transition
<1>5. \/ next = Nil /\ \A v \in Updates \ {u} : LaneOf[v] = LaneOf[u] => ~ IsOpen(v)
      \/ next \in Updates \ {u} /\ IsOpen(next) /\ LaneOf[next] = LaneOf[u]
  BY <1>3, NextHeadIsBehind
<1>6. /\ heads' \in [Lanes -> Updates \cup {Nil}]
      /\ heads'[LaneOf[u]] = next
      /\ \A l \in Lanes \ {LaneOf[u]} : heads'[l] = heads[l]
  BY <1>t, <1>4, <1>5
<1>7. InboxTypeOK'
  BY <1>2, <1>6 DEF InboxTypeOK, SameOrFree, FaultsStay
<1>8. \A v \in Updates : Present(v)' <=> Present(v)
  <2> TAKE v \in Updates
  <2>1. CASE v = u
    BY <1>1, <1>2, <2>1, NilIsNoRow DEF Present
  <2>2. CASE v # u
    BY <1>2, <2>2 DEF Present
  <2> QED
    BY <2>1, <2>2
<1>9. /\ ~ IsOpen(u)'
      /\ \A v \in Updates \ {u} : IsOpen(v)' <=> IsOpen(v)
  <2>1. ~ IsOpen(u)'
    BY <1>1, <1>2 DEF IsOpen, Open
  <2>2. ASSUME NEW v \in Updates \ {u}
        PROVE  IsOpen(v)' <=> IsOpen(v)
    <3>1. inbox'[v] = inbox[v]
      BY <1>2
    <3> QED
      BY <3>1 DEF IsOpen, Present, Open
  <2> QED
    BY <2>1, <2>2
<1>10. heads[LaneOf[u]] = u
  BY DEF InboxInv, ProcessingIsHead
<1>11. HeadsAreOpen'
  <2>1. ASSUME NEW l \in Lanes
        PROVE  IF heads'[l] = Nil
               THEN \A v \in Updates : LaneOf[v] = l => ~ IsOpen(v)'
               ELSE (IsOpen(heads[l]))' /\ LaneOf[heads'[l]] = l
    <3>1. CASE l = LaneOf[u] /\ next = Nil
      BY <1>5, <1>6, <1>9, <3>1, InboxAssumption
    <3>2. CASE l = LaneOf[u] /\ next # Nil
      <4>1. next \in Updates \ {u} /\ IsOpen(next)' /\ LaneOf[next] = l
        BY <1>5, <1>9, <3>2
      <4> QED
        BY <1>6, <3>2, <4>1 DEF IsOpen, Present
    <3>3. CASE l # LaneOf[u] /\ heads[l] = Nil
      BY <1>6, <1>9, <3>3 DEF InboxInv, HeadsAreOpen
    <3>4. CASE l # LaneOf[u] /\ heads[l] # Nil
      <4>1. PICK h \in Updates : h = heads[l] /\ h # u /\ IsOpen(h) /\ LaneOf[h] = l
        BY <1>t, <3>4 DEF InboxInv, HeadsAreOpen
      <4>2. heads'[l] = h /\ IsOpen(h)'
        BY <1>6, <1>9, <3>4, <4>1
      <4> QED
        BY <3>4, <4>1, <4>2 DEF IsOpen, Present
    <3> QED
      BY <3>1, <3>2, <3>3, <3>4
  <2> QED
    BY <2>1 DEF HeadsAreOpen, IsOpen, Present
<1>12. ProcessingIsHead'
  <2>1. ASSUME NEW v \in Updates, inbox'[v] # Nil, inbox'[v].status = "processing"
        PROVE  heads'[LaneOf[v]] = v
    <3>1. v # u
      BY <1>1, <1>2, <2>1
    <3>2. heads[LaneOf[v]] = v
      BY <1>2, <2>1, <3>1 DEF InboxInv, ProcessingIsHead, Present
    <3> QED
      BY <1>6, <1>10, <3>1, <3>2, InboxAssumption
  <2> QED
    BY <2>1 DEF ProcessingIsHead, Present
<1>13. \A v \in Updates : Present(v) => inbox'[v].token = inbox[v].token
  BY <1>1, <1>2
<1>14. TokensFence'
  BY <1>8, <1>13 DEF InboxInv, InboxTypeOK, TokensFence, SameOrFree, Busy, Present, Rest
<1>15. RowsStay
  <2>1. ~ Ended(u)
    BY DEF Ended
  <2>2. ASSUME NEW v \in Updates
        PROVE  /\ Present(v) => Present(v)'
               /\ Ended(v) => Ended(v)' /\ inbox'[v].status = inbox[v].status
    <3>1. CASE v = u
      BY <1>8, <2>1, <3>1 DEF Present, Ended
    <3>2. CASE v # u
      <4>1. inbox'[v] = inbox[v]
        BY <1>2, <3>2
      <4> QED
        BY <4>1 DEF Ended, Present
    <3> QED
      BY <3>1, <3>2
  <2> QED
    BY <2>2 DEF RowsStay
<1> QED
  BY <1>7, <1>11, <1>12, <1>14, <1>15 DEF InboxInv

LEMMA FinishKeeps ==
  ASSUME InboxInv, NEW w \in Workers, NEW result \in Results(w), Finish(w, result)
  PROVE  InboxInv' /\ RowsStay
<1>0. PICK u \in Updates : u = work[w].update /\ Present(u) /\ inbox[u] \in Rows
  BY BusyTask DEF Finish, Busy
<1>1. PICK status \in Terminal \cup {"retry_wait"} : status = StatusAfter(result, work[w].token)
  BY DEF Results, StatusAfter, Terminal
<1>2. SameOrFree /\ FaultsStay
  BY FreeKeeps DEF Finish, FaultsStay, InboxInv, InboxTypeOK
<1>3. CASE ~ MayTransition(w, u, status)
  <2>1. SameRows
    BY <1>0, <1>1, <1>3, SameInbox DEF Finish
  <2> QED
    BY <1>2, <2>1, QuietKeeps
<1>4. CASE MayTransition(w, u, status)
  <2>1. Transition(u, status) /\ inbox[u].status = "processing"
    BY <1>0, <1>1, <1>4 DEF Finish, MayTransition, Owned
  <2>2. CASE status \in Terminal
    BY <1>0, <1>2, <2>1, <2>2, EndKeeps
  <2>3. CASE status = "retry_wait"
    <3>1. PICK new \in Rows : /\ new = [inbox[u] EXCEPT !.status = status]
                              /\ new.token = inbox[u].token /\ new.status = status
      <4>1. status \in Open \cup Terminal
        BY <2>3 DEF Open
      <4> QED
        BY <1>0, <4>1, RowWritten
    <3>2. PICK row \in Rows : /\ row = [new EXCEPT !.leased = FALSE]
                              /\ row.token = new.token /\ row.status = new.status
      BY RowWritten DEF Open
    <3>3. inbox' = [inbox EXCEPT ![u] = row] /\ heads' = heads
      BY <1>0, <2>1, <2>3, <3>1, <3>2 DEF Transition, Terminal, InboxInv, InboxTypeOK
    <3>4. SameRows
      BY <1>0, <2>1, <2>3, <3>1, <3>2, <3>3, OneRow
    <3> QED
      BY <1>2, <3>4, QuietKeeps
  <2> QED
    BY <2>2, <2>3
<1> QED
  BY <1>3, <1>4

(* An insertion: every update not seen before gets a row, and a lane without *)
(* a head gets one of them.                                                  *)
LEMMA MaterializeKeeps ==
  ASSUME InboxInv, NEW batch, DOMAIN batch \subseteq Updates,
         \A u \in DOMAIN batch : batch[u] \in Nat,
         Materialize(batch), work' = work, FaultsStay
  PROVE  /\ InboxInv' /\ RowsStay
         /\ \A u \in DOMAIN batch : Present(u)'
<1>t. /\ inbox \in [Updates -> Rows \cup {Nil}]
      /\ heads \in [Lanes -> Updates \cup {Nil}]
      /\ work \in [Workers -> Tasks]
  BY DEF InboxInv, InboxTypeOK
<1>1. ASSUME NEW pos \in Nat
      PROVE  NewRow(pos) \in Rows /\ NewRow(pos) # Nil /\ NewRow(pos).status = "pending"
  <2>1. NewRow(pos) \in Rows /\ NewRow(pos).status = "pending"
    BY DEF NewRow, Rows, Open
  <2> QED
    BY <2>1, NilIsNoRow
<1>2. PICK new : new = Inserted(batch)
  OBVIOUS
<1>3. new \subseteq DOMAIN batch /\ \A u \in Updates : u \in new <=> u \in DOMAIN batch /\ ~ Present(u)
  BY <1>2 DEF Inserted
<1>4. inbox' = [u \in Updates |-> IF u \in new THEN NewRow(batch[u]) ELSE inbox[u]]
  BY <1>2 DEF Materialize, Upserted
<1>5. /\ inbox' \in [Updates -> Rows \cup {Nil}]
      /\ \A u \in new : inbox'[u] \in Rows /\ inbox'[u] # Nil /\ inbox'[u].status = "pending"
      /\ \A u \in Updates \ new : inbox'[u] = inbox[u]
  BY <1>t, <1>1, <1>3, <1>4
<1>6. ASSUME NEW u \in Updates, Present(u)
      PROVE  inbox'[u] = inbox[u] /\ Present(u)'
  <2>1. inbox'[u] = inbox[u]
    BY <1>3, <1>5, <1>6
  <2> QED
    BY <1>6, <2>1 DEF Present
<1>7. \A u \in new : IsOpen(u)' /\ ~ Present(u)
  BY <1>3, <1>5 DEF IsOpen, Present, Open
<1>8. PICK table : table = inbox'
  OBVIOUS
<1>9. ASSUME NEW l \in Lanes
      PROVE  \/ heads[l] # Nil /\ heads'[l] = heads[l]
             \/ heads[l] = Nil /\ heads'[l] = Nil /\ \A u \in new : LaneOf[u] # l
             \/ heads[l] = Nil /\ heads'[l] \in new /\ LaneOf[heads'[l]] = l
  <2>1. PICK us : us = {u \in new : LaneOf[u] = l}
    OBVIOUS
  <2>2. heads'[l] = IF heads[l] # Nil \/ us = {} THEN heads[l] ELSE Earliest(table, us)
    BY <1>2, <1>8, <2>1 DEF Materialize, HeadAfterInsert
  <2>3. CASE us = {}
    BY <2>1, <2>2, <2>3
  <2>4. CASE us # {}
    <3>1. \A u \in us : table[u].pos \in Nat
      BY <1>5, <1>8, <2>1 DEF Rows
    <3>2. Earliest(table, us) \in us
      BY <2>4, <3>1, EarliestIsOne
    <3> QED
      BY <2>1, <2>2, <2>4, <3>2
  <2> QED
    BY <2>3, <2>4
<1>10. heads' \in [Lanes -> Updates \cup {Nil}]
  <2>1. \A l \in Lanes : heads'[l] \in Updates \cup {Nil}
    BY <1>t, <1>3, <1>9
  <2>2. PICK f : f = [l \in Lanes |-> heads'[l]]
    OBVIOUS
  <2>3. heads' = f
    BY <2>2 DEF Materialize
  <2> QED
    BY <2>1, <2>2, <2>3
<1>11. InboxTypeOK'
  BY <1>t, <1>5, <1>10 DEF InboxTypeOK, FaultsStay
<1>12. ASSUME NEW u \in Updates \ new
       PROVE  IsOpen(u)' <=> IsOpen(u)
  <2>1. inbox'[u] = inbox[u]
    BY <1>5
  <2> QED
    BY <2>1 DEF IsOpen, Present, Open
<1>13. HeadsAreOpen'
  <2>1. ASSUME NEW l \in Lanes
        PROVE  IF heads'[l] = Nil
               THEN \A v \in Updates : LaneOf[v] = l => ~ IsOpen(v)'
               ELSE (IsOpen(heads[l]))' /\ LaneOf[heads'[l]] = l
    <3>1. CASE heads[l] # Nil /\ heads'[l] = heads[l]
      <4>1. PICK h \in Updates : h = heads[l] /\ IsOpen(h) /\ LaneOf[h] = l
        BY <1>t, <3>1 DEF InboxInv, HeadsAreOpen
      <4>2. h \notin new /\ IsOpen(h)'
        BY <1>7, <1>12, <4>1 DEF IsOpen
      <4> QED
        BY <3>1, <4>1, <4>2 DEF IsOpen, Present
    <3>2. CASE heads[l] = Nil /\ heads'[l] = Nil /\ \A u \in new : LaneOf[u] # l
      BY <1>12, <3>2 DEF InboxInv, HeadsAreOpen
    <3>3. CASE heads[l] = Nil /\ heads'[l] \in new /\ LaneOf[heads'[l]] = l
      <4>1. PICK h \in new : h = heads'[l] /\ LaneOf[h] = l
        BY <3>3
      <4>2. IsOpen(h)' /\ h # Nil
        BY <1>3, <1>7, InboxAssumption
      <4> QED
        BY <4>1, <4>2 DEF IsOpen, Present
    <3> QED
      BY <1>9, <3>1, <3>2, <3>3
  <2> QED
    BY <2>1 DEF HeadsAreOpen, IsOpen, Present
<1>14. ProcessingIsHead'
  <2>1. ASSUME NEW v \in Updates, inbox'[v] # Nil, inbox'[v].status = "processing"
        PROVE  heads'[LaneOf[v]] = v
    <3>1. v \notin new /\ inbox'[v] = inbox[v]
      BY <1>5, <2>1
    <3>2. heads[LaneOf[v]] = v
      BY <2>1, <3>1 DEF InboxInv, ProcessingIsHead, Present
    <3> QED
      BY <1>9, <3>2, InboxAssumption
  <2> QED
    BY <2>1 DEF ProcessingIsHead, Present
<1>15. TokensFence'
  BY <1>6 DEF InboxInv, TokensFence, Busy, Present, Materialize
<1>16. RowsStay
  <2>1. ASSUME NEW u \in Updates, Present(u)
        PROVE  /\ Present(u)'
               /\ Ended(u) => Ended(u)' /\ inbox'[u].status = inbox[u].status
    <3>1. inbox'[u] = inbox[u]
      BY <1>6, <2>1
    <3> QED
      BY <2>1, <3>1 DEF Ended, Present
  <2> QED
    BY <2>1 DEF RowsStay, Ended
<1>17. \A u \in DOMAIN batch : Present(u)'
  <2> TAKE u \in DOMAIN batch
  <2>1. CASE u \in new
    BY <1>5, <2>1 DEF Present
  <2>2. CASE u \notin new
    BY <1>3, <1>6, <2>2
  <2> QED
    BY <2>1, <2>2
<1> QED
  BY <1>11, <1>13, <1>14, <1>15, <1>16, <1>17 DEF InboxInv

(* A process dies: its workers let go.                                       *)
LEMMA CrashKeeps ==
  ASSUME InboxInv, NEW p, work' = Abandoned(p), inbox' = inbox, heads' = heads, FaultsStay
  PROVE  InboxInv' /\ RowsStay
<1>1. SameOrFree
  BY DEF InboxInv, InboxTypeOK, Abandoned, SameOrFree, Rest, Tasks, Places
<1> QED
  BY <1>1, SameInbox, QuietKeeps

LEMMA InboxStepKeeps ==
  ASSUME InboxInv, InboxStep
  PROVE  InboxInv' /\ RowsStay
<1>1. ASSUME NEW w \in Workers, Serve(w) \/ DecodeFails(w)
      PROVE  InboxInv' /\ RowsStay
  BY <1>1, LookKeeps, TakeKeeps, CheckpointKeeps, FinishKeeps DEF Serve, Handles, DecodeFails
<1> QED
  BY <1>1, StoreErrorKeeps, LeaseLapsesKeeps, LeaseEndsKeeps DEF InboxStep

LEMMA InboxInitInv ==
  ASSUME InboxInit
  PROVE  InboxInv
<1>1. InboxTypeOK
  BY InboxAssumption DEF InboxInit, InboxTypeOK, Rest, Tasks, Places
<1>2. HeadsAreOpen /\ ProcessingIsHead /\ TokensFence
  BY DEF InboxInit, HeadsAreOpen, ProcessingIsHead, TokensFence, IsOpen, Present, Busy, Rest
<1> QED
  BY <1>1, <1>2 DEF InboxInv

-----------------------------------------------------------------------------
(* The stream.                                                               *)

StreamTypeOK ==
  /\ stream \in Seq(Updates)
  /\ deleted \subseteq DOMAIN stream /\ pel \subseteq DOMAIN stream
  /\ delivered \in 0 .. Len(stream)

Mats == [at : Stations, pending : SUBSET DOMAIN stream,
         batch : SUBSET DOMAIN stream, startup : BOOLEAN, lost : BOOLEAN]

MatTypeOK ==
  /\ lease \in Processes \cup {"orphan", Nil}
  /\ mat \in [Processes -> Mats]
  /\ quarantine \subseteq DOMAIN stream
  /\ overtaken \in BOOLEAN

(* An entry is in safe hands: its update has a row, or it is in quarantine.  *)
Safe(i) == i \in quarantine \/ Present(stream[i])

(* What is about to be acknowledged is safe.                                 *)
AckIsBacked ==
  \A p \in Processes : mat[p].at = "ack" => \A i \in mat[p].batch : Safe(i)

IngressInv ==
  /\ InboxInv /\ StreamTypeOK /\ MatTypeOK
  /\ NothingIsLost /\ AckIsBacked

(* What is safe stays safe.                                                  *)
SafeStays == \A i \in DOMAIN stream : Safe(i) => Safe(i)'

(* A step that appends nothing.                                              *)
LEMMA StaysSafe ==
  ASSUME IngressInv, RowsStay, UNCHANGED stream, quarantine \subseteq quarantine'
  PROVE  SafeStays
<1>1. \A i \in DOMAIN stream : stream[i] \in Updates
  BY DEF IngressInv, StreamTypeOK
<1>2. ASSUME NEW i \in DOMAIN stream, Safe(i)
      PROVE  i \in quarantine' \/ (Present(stream[i]))'
  <2>1. PICK u \in Updates : u = stream[i] /\ u = stream'[i]
    BY <1>1
  <2>2. Present(u) => Present(u)'
    BY DEF RowsStay
  <2> QED
    BY <1>2, <2>1, <2>2 DEF Safe, Present
<1> QED
  BY <1>2 DEF SafeStays, Safe, Present

(* A step in which nothing new is acknowledged.                              *)
LEMMA NothingNewLost ==
  ASSUME IngressInv, SafeStays,
         UNCHANGED <<stream, deleted>>,
         delivered' \in 0 .. Len(stream), pel \subseteq pel',
         delivered + 1 .. delivered' \subseteq pel'
  PROVE  NothingIsLost'
<1>1. \A i \in deleted : Safe(i)'
  BY DEF IngressInv, NothingIsLost, StreamTypeOK, SafeStays, Safe
<1>2. ASSUME NEW i \in 1 .. delivered'
      PROVE  i \in deleted' \/ i \in pel'
  <2>1. CASE i \in 1 .. delivered
    BY <2>1 DEF IngressInv, NothingIsLost
  <2>2. CASE i \notin 1 .. delivered
    BY <2>2 DEF IngressInv, StreamTypeOK
  <2> QED
    BY <2>1, <2>2
<1> QED
  BY <1>1, <1>2 DEF NothingIsLost, Safe, Present

(* One materializer moves, and does not become ready to acknowledge.         *)
LEMMA OneMoves ==
  ASSUME IngressInv, SafeStays, UNCHANGED stream, NEW p \in Processes,
         NEW m \in Mats,
         m.at = "ack" => \A i \in m.batch : Safe(i)',
         mat' = [mat EXCEPT ![p] = m],
         lease' \in Processes \cup {"orphan", Nil}, overtaken' \in BOOLEAN,
         quarantine' \subseteq DOMAIN stream
  PROVE  MatTypeOK' /\ AckIsBacked'
<1>1. mat \in [Processes -> Mats]
  BY DEF IngressInv, MatTypeOK
<1>2. /\ mat' \in [Processes -> Mats]
      /\ mat'[p] = m
      /\ \A q \in Processes \ {p} : mat'[q] = mat[q]
  BY <1>1
<1>3. MatTypeOK'
  BY <1>2 DEF MatTypeOK, Mats
<1>4. ASSUME NEW q \in Processes, mat'[q].at = "ack", NEW i \in mat'[q].batch
      PROVE  Safe(i)'
  <2>1. CASE q = p
    BY <1>2, <1>4, <2>1
  <2>2. CASE q # p
    <3>1. mat'[q] = mat[q]
      BY <1>2, <2>2
    <3>2. i \in DOMAIN stream /\ Safe(i)
      BY <1>1, <1>4, <3>1 DEF IngressInv, AckIsBacked, Mats
    <3> QED
      BY <3>2 DEF SafeStays
  <2> QED
    BY <2>1, <2>2
<1> QED
  BY <1>3, <1>4 DEF AckIsBacked, Safe, Present

(* No materializer moves.                                                    *)
LEMMA NoneMoves ==
  ASSUME IngressInv, SafeStays, UNCHANGED <<stream, mat, quarantine>>,
         lease' \in Processes \cup {"orphan", Nil}, overtaken' \in BOOLEAN
  PROVE  MatTypeOK' /\ AckIsBacked'
<1>1. MatTypeOK'
  BY DEF IngressInv, MatTypeOK, Mats
<1>2. AckIsBacked'
  BY DEF IngressInv, MatTypeOK, Mats, AckIsBacked, SafeStays, Safe, Present
<1> QED
  BY <1>1, <1>2

(* What the steps make of a materializer.                                    *)
LEMMA MatAt ==
  ASSUME NEW m \in Mats, NEW station \in Stations
  PROVE  /\ [m EXCEPT !.at = station] \in Mats
         /\ [m EXCEPT !.at = station].at = station
         /\ [m EXCEPT !.at = station].batch = m.batch
<1> QED
  BY DEF Mats

LEMMA MatMoves ==
  ASSUME NEW m \in Mats, NEW station \in Stations
  PROVE  \E n \in Mats : /\ n = [m EXCEPT !.at = station] /\ n.at = station
                         /\ n.pending = m.pending /\ n.batch = m.batch
<1> DEFINE n == [m EXCEPT !.at = station]
<1>1. n \in Mats /\ n.at = station /\ n.batch = m.batch
  BY MatAt
<1>2. n.pending = m.pending
  BY DEF Mats
<1> QED
  BY <1>1, <1>2

LEMMA MatLost ==
  ASSUME NEW m \in Mats
  PROVE  /\ [m EXCEPT !.lost = TRUE] \in Mats
         /\ [m EXCEPT !.lost = TRUE].at = m.at
         /\ [m EXCEPT !.lost = TRUE].batch = m.batch
         /\ [m EXCEPT !.startup = FALSE] \in Mats
         /\ [m EXCEPT !.startup = FALSE].at = m.at
<1>1. /\ [m EXCEPT !.lost = TRUE] \in Mats /\ [m EXCEPT !.lost = TRUE].at = m.at
      /\ [m EXCEPT !.lost = TRUE].batch = m.batch
  BY DEF Mats
<1>2. [m EXCEPT !.startup = FALSE] \in Mats /\ [m EXCEPT !.startup = FALSE].at = m.at
  BY DEF Mats
<1> QED
  BY <1>1, <1>2

LEMMA MatHolds ==
  ASSUME NEW m \in Mats, NEW places \in SUBSET DOMAIN stream
  PROVE  /\ [m EXCEPT !.pending = places] \in Mats
         /\ [m EXCEPT !.pending = places].at = m.at
         /\ [m EXCEPT !.batch = places] \in Mats
         /\ [m EXCEPT !.batch = places].at = m.at
<1>1. [m EXCEPT !.pending = places] \in Mats /\ [m EXCEPT !.pending = places].at = m.at
  BY DEF Mats
<1>2. [m EXCEPT !.batch = places] \in Mats /\ [m EXCEPT !.batch = places].at = m.at
  BY DEF Mats
<1> QED
  BY <1>1, <1>2

LEMMA BatchedTyped ==
  ASSUME NEW m \in Mats, NEW pending \in SUBSET DOMAIN stream, NEW batch \in Batches(pending)
  PROVE  Batched(m, pending, batch) \in Mats /\ Batched(m, pending, batch).at = "commit"
<1>1. PICK rest \in SUBSET DOMAIN stream : rest = pending \ batch
  OBVIOUS
<1>2. batch \in SUBSET DOMAIN stream
  BY DEF Batches
<1>3. Batched(m, pending, batch)
        = [m EXCEPT !.at = "commit", !.batch = batch, !.pending = rest, !.startup = FALSE]
  BY <1>1 DEF Batched
<1>4. /\ [m EXCEPT !.at = "commit", !.batch = batch, !.pending = rest, !.startup = FALSE] \in Mats
      /\ [m EXCEPT !.at = "commit", !.batch = batch, !.pending = rest, !.startup = FALSE].at = "commit"
  BY <1>2 DEF Mats, Stations
<1> QED
  BY <1>3, <1>4

LEMMA StandByTyped ==
  StandBy \in Mats /\ StandBy.at = "standby"
<1> QED
  BY DEF StandBy, Mats, Stations

LEMMA FaultKeeps ==
  ASSUME InboxInv, Fault \/ faults' = faults
  PROVE  FaultsStay
<1> QED
  BY InboxAssumption DEF InboxInv, InboxTypeOK, Fault, FaultsStay

LEMMA InboxRests ==
  ASSUME InboxInv, UNCHANGED <<inbox, heads, work>>, Fault \/ faults' = faults
  PROVE  InboxInv' /\ RowsStay
<1> QED
  BY FaultKeeps, SameInbox, SameWork, QuietKeeps

(* Steps of one materializer that neither write rows nor acknowledge.        *)
MatStep(p, m) ==
  /\ m.at # "ack" \/ (m.at = mat[p].at /\ m.batch = mat[p].batch)
  /\ mat' = [mat EXCEPT ![p] = m]
  /\ lease' \in Processes \cup {"orphan", Nil} /\ overtaken' \in BOOLEAN
  /\ UNCHANGED <<inbox, heads, work, quarantine, stream, deleted>>
  /\ Fault \/ faults' = faults
  /\ \/ UNCHANGED <<delivered, pel>>
     \/ \E n \in delivered + 1 .. Len(stream) : Deliver(n)

LEMMA MatStepKeeps ==
  ASSUME IngressInv, NEW p \in Processes, NEW m \in Mats, MatStep(p, m)
  PROVE  IngressInv' /\ RowsStay
<1> USE DEF MatStep
<1>1. InboxInv' /\ RowsStay
  BY InboxRests DEF IngressInv
<1>2. SafeStays
  BY <1>1, StaysSafe
<1>3. MatTypeOK' /\ AckIsBacked'
  <2>1. m.at = "ack" => \A i \in m.batch : Safe(i)'
    <3>1. m.at = "ack" => \A i \in m.batch : i \in DOMAIN stream /\ Safe(i)
      BY DEF IngressInv, AckIsBacked, Mats
    <3> QED
      BY <1>2, <3>1 DEF SafeStays
  <2>2. quarantine' \subseteq DOMAIN stream
    BY DEF IngressInv, MatTypeOK
  <2> QED
    BY <1>2, <2>1, <2>2, OneMoves
<1>4. /\ delivered' \in 0 .. Len(stream) /\ pel \subseteq pel' /\ pel' \subseteq DOMAIN stream
      /\ delivered + 1 .. delivered' \subseteq pel'
  BY DEF IngressInv, StreamTypeOK, Deliver
<1>5. StreamTypeOK'
  BY <1>4 DEF IngressInv, StreamTypeOK
<1>6. NothingIsLost'
  BY <1>2, <1>4, NothingNewLost
<1> QED
  BY <1>1, <1>3, <1>5, <1>6 DEF IngressInv

-----------------------------------------------------------------------------
(* The steps of the ingress.                                                 *)

LEMMA ReceiveKeeps ==
  ASSUME IngressInv, NEW u \in Updates, Receive(u)
  PROVE  IngressInv' /\ RowsStay
<1>1. /\ stream' = Append(stream, u)
      /\ UNCHANGED <<deleted, delivered, pel, lease, mat, quarantine, overtaken>>
      /\ UNCHANGED <<inbox, heads, work, faults>>
  BY DEF Receive, matVars, inboxVars
<1>2. InboxInv' /\ RowsStay
  BY <1>1, InboxRests DEF IngressInv
<1>3. /\ stream' \in Seq(Updates) /\ Len(stream') = Len(stream) + 1
      /\ DOMAIN stream \subseteq DOMAIN stream'
      /\ \A i \in DOMAIN stream : stream'[i] = stream[i]
  BY <1>1 DEF IngressInv, StreamTypeOK
<1>4. StreamTypeOK'
  BY <1>1, <1>3 DEF IngressInv, StreamTypeOK
<1>5. MatTypeOK'
  BY <1>1, <1>3 DEF IngressInv, MatTypeOK, Mats
<1>6. SafeStays
  BY <1>1, <1>3 DEF SafeStays, Safe, Present
<1>7. NothingIsLost'
  BY <1>1, <1>6 DEF IngressInv, StreamTypeOK, NothingIsLost, SafeStays, Safe, Present
<1>8. AckIsBacked'
  BY <1>1, <1>6 DEF IngressInv, MatTypeOK, Mats, AckIsBacked, SafeStays, Safe, Present
<1> QED
  BY <1>2, <1>4, <1>5, <1>7, <1>8 DEF IngressInv

LEMMA LeaseExpiresKeeps ==
  ASSUME IngressInv, LeaseExpires
  PROVE  IngressInv' /\ RowsStay
<1>1. /\ UNCHANGED <<inbox, heads, work, stream, deleted, delivered, pel, mat, quarantine>>
      /\ Fault \/ faults' = faults
      /\ lease' = Nil /\ overtaken' \in BOOLEAN
  BY DEF LeaseExpires, streamVars, IngressInv, MatTypeOK
<1>2. InboxInv' /\ RowsStay
  BY <1>1, InboxRests DEF IngressInv
<1>3. SafeStays
  BY <1>1, <1>2, StaysSafe
<1>4. MatTypeOK' /\ AckIsBacked'
  BY <1>1, <1>3, NoneMoves
<1>5. StreamTypeOK'
  BY <1>1 DEF IngressInv, StreamTypeOK
<1>6. NothingIsLost'
  BY <1>1, <1>2 DEF IngressInv, NothingIsLost, Present
<1> QED
  BY <1>2, <1>4, <1>5, <1>6 DEF IngressInv

(* The lease and the station of one process.                                 *)
LEMMA LeaseStepKeeps ==
  ASSUME IngressInv, NEW p \in Processes,
         Acquire(p) \/ HeartbeatFails(p) \/ Stop(p)
  PROVE  IngressInv' /\ RowsStay
<1>t. /\ mat \in [Processes -> Mats] /\ mat[p] \in Mats
      /\ lease \in Processes \cup {"orphan", Nil} /\ overtaken \in BOOLEAN
  BY DEF IngressInv, MatTypeOK
<1>1. CASE Acquire(p)
  <2>1. PICK m \in Mats : m = [mat[p] EXCEPT !.at = "reclaim"] /\ m.at = "reclaim"
    <3>1. "reclaim" \in Stations
      BY DEF Stations
    <3> QED
      BY <1>t, <3>1, MatMoves
  <2>2. mat' = [mat EXCEPT ![p] = m]
    BY <1>t, <1>1, <2>1 DEF Acquire, Moves
  <2>3. /\ UNCHANGED <<inbox, heads, work, quarantine, stream, deleted>>
        /\ UNCHANGED <<delivered, pel>>
        /\ faults' = faults
        /\ lease' \in Processes \cup {"orphan", Nil} /\ overtaken' \in BOOLEAN
    BY <1>t, <1>1 DEF Acquire, streamVars, inboxVars
  <2>4. m.at # "ack"
    BY <2>1
  <2>5. MatStep(p, m)
    BY <2>2, <2>3, <2>4 DEF MatStep
  <2> QED
    BY <2>5, MatStepKeeps
<1>2. CASE HeartbeatFails(p)
  <2>1. PICK m \in Mats : /\ m = [mat[p] EXCEPT !.lost = TRUE]
                          /\ m.at = mat[p].at /\ m.batch = mat[p].batch
    BY <1>t, MatLost
  <2>2. mat' = [mat EXCEPT ![p] = m]
    BY <1>t, <1>2, <2>1 DEF HeartbeatFails
  <2>3. Fault \/ faults' = faults
    BY <1>2 DEF HeartbeatFails
  <2>4. MatStep(p, m)
    BY <1>t, <1>2, <2>1, <2>2, <2>3 DEF MatStep, HeartbeatFails, streamVars
  <2> QED
    BY <2>4, MatStepKeeps
<1>3. CASE Stop(p)
  <2>1. PICK m \in Mats : m = StandBy /\ m.at = "standby"
    BY StandByTyped
  <2>2. mat' = [mat EXCEPT ![p] = m]
    BY <1>3, <2>1 DEF Stop
  <2>3. Fault \/ faults' = faults
    BY <1>3 DEF Stop
  <2>4. lease' \in Processes \cup {"orphan", Nil}
    BY <1>t, <1>3 DEF Stop, Release
  <2>5. /\ UNCHANGED <<inbox, heads, work, quarantine, stream, deleted>>
        /\ UNCHANGED <<delivered, pel>>
        /\ overtaken' \in BOOLEAN
    BY <1>t, <1>3 DEF Stop, streamVars
  <2>6. m.at # "ack"
    BY <2>1
  <2>7. MatStep(p, m)
    BY <2>2, <2>3, <2>4, <2>5, <2>6 DEF MatStep
  <2> QED
    BY <2>7, MatStepKeeps
<1> QED
  BY <1>1, <1>2, <1>3

LEMMA CrashStepKeeps ==
  ASSUME IngressInv, NEW p \in Processes, Crash(p)
  PROVE  IngressInv' /\ RowsStay
<1>t. /\ mat \in [Processes -> Mats]
      /\ lease \in Processes \cup {"orphan", Nil} /\ overtaken \in BOOLEAN
      /\ quarantine \subseteq DOMAIN stream
  BY DEF IngressInv, MatTypeOK
<1>1. InboxInv' /\ RowsStay
  BY FaultKeeps, CrashKeeps DEF IngressInv, Crash
<1>2. /\ UNCHANGED <<inbox, stream, deleted, delivered, pel, quarantine, overtaken>>
      /\ mat' = [mat EXCEPT ![p] = StandBy]
      /\ lease' \in Processes \cup {"orphan", Nil}
  BY <1>t DEF Crash, streamVars
<1>3. SafeStays
  BY <1>1, <1>2, StaysSafe
<1>4. MatTypeOK' /\ AckIsBacked'
  BY <1>t, <1>2, <1>3, StandByTyped, OneMoves
<1>5. StreamTypeOK'
  BY <1>2 DEF IngressInv, StreamTypeOK
<1>6. NothingIsLost'
  BY <1>2 DEF IngressInv, NothingIsLost, Present
<1> QED
  BY <1>1, <1>4, <1>5, <1>6 DEF IngressInv

(* What a step that moves one materializer and the stream leaves alone.      *)
Around ==
  /\ UNCHANGED <<inbox, heads, work, quarantine, stream, deleted, lease, overtaken>>
  /\ Fault \/ faults' = faults
  /\ \/ UNCHANGED <<delivered, pel>>
     \/ \E n \in delivered + 1 .. Len(stream) : Deliver(n)

LEMMA AroundKeeps ==
  ASSUME IngressInv, NEW p \in Processes, Around,
         NEW m \in Mats, m.at # "ack", mat' = [mat EXCEPT ![p] = m]
  PROVE  IngressInv' /\ RowsStay
<1>1. lease' \in Processes \cup {"orphan", Nil} /\ overtaken' \in BOOLEAN
  BY DEF Around, IngressInv, MatTypeOK
<1>2. MatStep(p, m)
  BY <1>1 DEF Around, MatStep
<1> QED
  BY <1>2, MatStepKeeps

LEMMA MovesKeeps ==
  ASSUME IngressInv, NEW p \in Processes, Around,
         NEW station \in Stations \ {"ack"}, Moves(p, station)
  PROVE  IngressInv' /\ RowsStay
<1>1. mat \in [Processes -> Mats]
  BY DEF IngressInv, MatTypeOK
<1>2. PICK m \in Mats : m = [mat[p] EXCEPT !.at = station] /\ m.at = station
  BY <1>1, MatAt
<1>3. mat' = [mat EXCEPT ![p] = m] /\ m.at # "ack"
  BY <1>1, <1>2 DEF Moves
<1> QED
  BY <1>3, AroundKeeps

LEMMA BatchKeeps ==
  ASSUME IngressInv, NEW p \in Processes, Around,
         NEW pending \in SUBSET DOMAIN stream, NEW batch \in Batches(pending),
         mat' = [mat EXCEPT ![p] = Batched(@, pending, batch)]
  PROVE  IngressInv' /\ RowsStay
<1>1. mat \in [Processes -> Mats]
  BY DEF IngressInv, MatTypeOK
<1>2. PICK m \in Mats : m = Batched(mat[p], pending, batch) /\ m.at = "commit"
  BY <1>1, BatchedTyped
<1>3. mat' = [mat EXCEPT ![p] = m] /\ m.at # "ack"
  BY <1>1, <1>2
<1> QED
  BY <1>3, AroundKeeps

LEMMA ReadStepKeeps ==
  ASSUME IngressInv, NEW p \in Processes,
         \/ Adopt(p) \/ AdoptNothing(p) \/ Stats(p)
         \/ Read(p) \/ Filled(p) \/ ReadFails(p) \/ ReadNothing(p)
  PROVE  IngressInv' /\ RowsStay
<1>t. /\ mat \in [Processes -> Mats] /\ mat[p] \in Mats
      /\ mat[p].pending \in SUBSET DOMAIN stream
      /\ pel \in SUBSET DOMAIN stream
      /\ delivered \in Nat /\ DOMAIN stream = 1 .. Len(stream) /\ Len(stream) \in Nat
  BY DEF IngressInv, MatTypeOK, StreamTypeOK, Mats
<1>1. CASE Adopt(p)
  <2>1. Around
    BY <1>1 DEF Adopt, Around, streamVars, inboxVars
  <2>2. PICK batch \in Batches(pel) : mat' = [mat EXCEPT ![p] = Batched(@, pel, batch)]
    BY <1>1 DEF Adopt
  <2>3. PICK pending \in SUBSET DOMAIN stream : pending = pel
    BY <1>t
  <2>4. batch \in Batches(pending) /\ mat' = [mat EXCEPT ![p] = Batched(@, pending, batch)]
    BY <2>2, <2>3
  <2> QED
    BY <2>1, <2>4, BatchKeeps
<1>2. CASE AdoptNothing(p)
  <2>1. Around
    BY <1>2 DEF AdoptNothing, Around, streamVars, inboxVars
  <2>2. PICK n \in Mats : n = [mat[p] EXCEPT !.at = "stats"] /\ n.at = "stats"
    <3>1. "stats" \in Stations
      BY DEF Stations
    <3> QED
      BY <1>t, <3>1, MatMoves
  <2>3. PICK m \in Mats : m = [n EXCEPT !.startup = FALSE] /\ m.at = "stats"
    BY <2>2, MatLost
  <2>4. mat' = [mat EXCEPT ![p] = m] /\ m.at # "ack"
    BY <1>t, <1>2, <2>2, <2>3 DEF AdoptNothing
  <2> QED
    BY <2>1, <2>4, AroundKeeps
<1>3. CASE Stats(p)
  <2>1. Around
    BY <1>3 DEF Stats, Around, streamVars, inboxVars
  <2>2. PICK station \in Stations \ {"ack"} : station = NextStation(p)
    BY DEF NextStation, Stations
  <2>3. Moves(p, station)
    BY <1>3, <2>2 DEF Stats
  <2> QED
    BY <2>1, <2>3, MovesKeeps
<1>4. CASE Read(p)
  <2>1. PICK n \in delivered + 1 .. Len(stream) : Deliver(n) /\ Got(p, n, "fill")
    BY <1>4 DEF Read
  <2>2. Around
    BY <1>4, <2>1 DEF Read, Deliver, Around, inboxVars
  <2>3. PICK places \in SUBSET DOMAIN stream : places = mat[p].pending \cup (delivered + 1 .. n)
    <3>1. mat[p].pending \cup (delivered + 1 .. n) \in SUBSET DOMAIN stream
      BY <1>t, <2>1
    <3> QED
      BY <3>1
  <2>4. PICK q \in Mats : q = [mat[p] EXCEPT !.at = "fill"] /\ q.at = "fill"
    <3>1. "fill" \in Stations
      BY DEF Stations
    <3> QED
      BY <1>t, <3>1, MatMoves
  <2>5. q.pending = mat[p].pending
    BY <1>t, <2>4 DEF Mats
  <2>6. PICK m \in Mats : m = [q EXCEPT !.pending = places] /\ m.at = "fill"
    <3>1. /\ [q EXCEPT !.pending = places] \in Mats
          /\ [q EXCEPT !.pending = places].at = q.at
      BY MatHolds
    <3> QED
      BY <2>4, <3>1
  <2>7. mat' = [mat EXCEPT ![p] = m] /\ m.at # "ack"
    BY <1>t, <2>1, <2>3, <2>4, <2>5, <2>6 DEF Got
  <2> QED
    BY <2>2, <2>7, AroundKeeps
<1>5. CASE Filled(p)
  <2>1. Around
    BY <1>5 DEF Filled, Around, streamVars, inboxVars
  <2>2. PICK pending \in SUBSET DOMAIN stream : pending = mat[p].pending
    BY <1>t
  <2>3. PICK batch \in Batches(pending) : mat' = [mat EXCEPT ![p] = Batched(@, pending, batch)]
    BY <1>5, <2>2 DEF Filled
  <2> QED
    BY <2>1, <2>3, BatchKeeps
<1>6. CASE ReadFails(p)
  <2>1. Around
    BY <1>6 DEF ReadFails, Deliver, Around
  <2>2. CASE mat[p].at = "read"
    <3>1. Moves(p, "reclaim") /\ "reclaim" \in Stations \ {"ack"}
      BY <1>6, <2>2 DEF ReadFails, Stations
    <3> QED
      BY <2>1, <3>1, MovesKeeps
  <2>3. CASE mat[p].at # "read"
    <3>1. PICK pending \in SUBSET DOMAIN stream : pending = mat[p].pending
      BY <1>t
    <3>2. PICK batch \in Batches(pending) : mat' = [mat EXCEPT ![p] = Batched(@, pending, batch)]
      BY <1>6, <2>3, <3>1 DEF ReadFails
    <3> QED
      BY <2>1, <3>2, BatchKeeps
  <2> QED
    BY <2>2, <2>3
<1>7. CASE ReadNothing(p)
  <2>1. Around
    BY <1>7 DEF ReadNothing, Around, streamVars, inboxVars
  <2>2. Moves(p, "reclaim") /\ "reclaim" \in Stations \ {"ack"}
    BY <1>7 DEF ReadNothing, Stations
  <2> QED
    BY <2>1, <2>2, MovesKeeps
<1> QED
  BY <1>1, <1>2, <1>3, <1>4, <1>5, <1>6, <1>7

LEMMA RowedTyped ==
  ASSUME StreamTypeOK, NEW batch \in SUBSET DOMAIN stream
  PROVE  /\ DOMAIN Rowed(batch) = Good(batch) /\ Good(batch) \subseteq Updates
         /\ \A u \in Good(batch) : Rowed(batch)[u] \in Nat
<1>1. DOMAIN stream \subseteq Nat /\ \A i \in DOMAIN stream : stream[i] \in Updates
  BY DEF StreamTypeOK
<1>2. Good(batch) \subseteq Updates
  BY <1>1 DEF Good
<1>3. DOMAIN Rowed(batch) = Good(batch)
  BY DEF Rowed
<1>4. ASSUME NEW u \in Good(batch)
      PROVE  Rowed(batch)[u] \in Nat
  <2>1. PICK places : places = PlacesOf(batch, u)
    OBVIOUS
  <2>2. places \in SUBSET Nat /\ places # {}
    BY <1>1, <2>1 DEF PlacesOf, Good
  <2>3. PICK x \in places : \A y \in places : x <= y
    BY <2>2, LeastNat
  <2>4. Rowed(batch)[u] = CHOOSE i \in places : \A j \in places : i <= j
    BY <2>1 DEF Rowed
  <2>5. (CHOOSE i \in places : \A j \in places : i <= j) \in places
    BY <2>3
  <2> QED
    BY <2>2, <2>4, <2>5
<1> QED
  BY <1>2, <1>3, <1>4

(* A batch is written: after it every entry of the batch is in safe hands.   *)
LEMMA CommitKeeps ==
  ASSUME IngressInv, NEW p \in Processes, Commit(p)
  PROVE  IngressInv' /\ RowsStay
<1>t. /\ mat \in [Processes -> Mats] /\ mat[p] \in Mats
      /\ mat[p].batch \in SUBSET DOMAIN stream
      /\ lease \in Processes \cup {"orphan", Nil} /\ overtaken \in BOOLEAN
      /\ quarantine \subseteq DOMAIN stream
      /\ \A i \in DOMAIN stream : stream[i] \in Updates
  BY DEF IngressInv, MatTypeOK, Mats, StreamTypeOK
<1>1. /\ UNCHANGED <<lease, overtaken, stream, deleted, delivered, pel, work>>
      /\ quarantine' = Quarantined(mat[p].batch)
      /\ mat[p].at = "commit"
  BY DEF Commit, streamVars
<1>2. PICK batch : batch = Rowed(mat[p].batch)
  OBVIOUS
<1>3. /\ DOMAIN batch = Good(mat[p].batch) /\ DOMAIN batch \subseteq Updates
      /\ \A u \in DOMAIN batch : batch[u] \in Nat
  BY <1>t, <1>2, RowedTyped DEF IngressInv
<1>4. Materialize(batch) /\ FaultsStay
  BY <1>2, FaultKeeps DEF Commit, IngressInv
<1>5. /\ InboxInv' /\ RowsStay
      /\ \A u \in DOMAIN batch : Present(u)'
  BY <1>1, <1>3, <1>4, MaterializeKeeps DEF IngressInv
<1>6. quarantine \subseteq quarantine' /\ quarantine' \subseteq DOMAIN stream
  BY <1>t, <1>1 DEF Quarantined
<1>7. SafeStays
  BY <1>1, <1>5, <1>6, StaysSafe
<1>8. \A i \in mat[p].batch : Safe(i)'
  <2> TAKE i \in mat[p].batch
  <2>1. PICK u \in Updates : u = stream[i] /\ u = stream'[i]
    BY <1>t, <1>1
  <2>2. CASE u \in Bad
    BY <1>1, <2>1, <2>2 DEF Quarantined, Safe
  <2>3. CASE u \notin Bad
    <3>1. Present(u)'
      BY <1>3, <1>5, <2>1, <2>3 DEF Good
    <3> QED
      BY <2>1, <3>1 DEF Safe, Present
  <2> QED
    BY <2>2, <2>3
<1>9. MatTypeOK' /\ AckIsBacked'
  <2>1. CASE Moves(p, "ack")
    <3>1. PICK m \in Mats : m = [mat[p] EXCEPT !.at = "ack"] /\ m.batch = mat[p].batch
      <4>1. "ack" \in Stations
        BY DEF Stations
      <4> QED
        BY <1>t, <4>1, MatMoves
    <3>2. mat' = [mat EXCEPT ![p] = m]
      BY <1>t, <2>1, <3>1 DEF Moves
    <3> QED
      BY <1>t, <1>1, <1>6, <1>7, <1>8, <3>1, <3>2, OneMoves
  <2>2. CASE UNCHANGED mat
    <3>1. mat' = [mat EXCEPT ![p] = mat[p]]
      BY <1>t, <2>2
    <3> QED
      BY <1>t, <1>1, <1>6, <1>7, <3>1, OneMoves
  <2> QED
    BY <2>1, <2>2 DEF Commit
<1>10. StreamTypeOK'
  BY <1>1 DEF IngressInv, StreamTypeOK
<1>11. NothingIsLost'
  <2>1. /\ delivered' \in 0 .. Len(stream) /\ pel \subseteq pel'
        /\ delivered + 1 .. delivered' \subseteq pel'
    BY <1>1 DEF IngressInv, StreamTypeOK
  <2> QED
    BY <1>1, <1>7, <2>1, NothingNewLost
<1> QED
  BY <1>5, <1>9, <1>10, <1>11 DEF IngressInv

(* A batch is acknowledged and deleted.                                      *)
LEMMA AckKeeps ==
  ASSUME IngressInv, NEW p \in Processes, Ack(p)
  PROVE  IngressInv' /\ RowsStay
<1>t. /\ mat \in [Processes -> Mats] /\ mat[p] \in Mats
      /\ mat[p].batch \in SUBSET DOMAIN stream
      /\ mat[p].pending \in SUBSET DOMAIN stream
      /\ lease \in Processes \cup {"orphan", Nil} /\ overtaken \in BOOLEAN
      /\ quarantine \subseteq DOMAIN stream
  BY DEF IngressInv, MatTypeOK, Mats
<1>1. /\ UNCHANGED <<stream, delivered, lease, quarantine, overtaken>>
      /\ UNCHANGED <<inbox, heads, work, faults>>
      /\ deleted' = deleted \cup mat[p].batch /\ pel' = pel \ mat[p].batch
      /\ mat[p].at = "ack"
  BY DEF Ack, inboxVars
<1>2. InboxInv' /\ RowsStay
  BY <1>1, InboxRests DEF IngressInv
<1>3. SafeStays
  BY <1>1, <1>2, StaysSafe
<1>4. MatTypeOK' /\ AckIsBacked'
  <2>1. CASE mat[p].pending = {}
    <3>1. PICK n \in Mats : n = [mat[p] EXCEPT !.batch = {}]
      <4>1. [mat[p] EXCEPT !.batch = {}] \in Mats
        BY <1>t, MatHolds
      <4> QED
        BY <4>1
    <3>2. PICK m \in Mats : m = [n EXCEPT !.at = "reclaim"] /\ m.at = "reclaim"
      <4>1. "reclaim" \in Stations
        BY DEF Stations
      <4> QED
        BY <4>1, MatAt
    <3>3. mat' = [mat EXCEPT ![p] = m] /\ m.at # "ack"
      BY <1>t, <2>1, <3>1, <3>2 DEF Ack
    <3> QED
      BY <1>t, <1>1, <1>3, <3>3, OneMoves
  <2>2. CASE mat[p].pending # {}
    <3>1. PICK pending \in SUBSET DOMAIN stream : pending = mat[p].pending
      BY <1>t
    <3>2. PICK batch \in Batches(pending) : mat' = [mat EXCEPT ![p] = Batched(@, pending, batch)]
      BY <2>2, <3>1 DEF Ack
    <3>3. PICK m \in Mats : m = Batched(mat[p], pending, batch) /\ m.at = "commit"
      BY <1>t, BatchedTyped
    <3>4. mat' = [mat EXCEPT ![p] = m] /\ m.at # "ack"
      BY <1>t, <3>2, <3>3
    <3> QED
      BY <1>t, <1>1, <1>3, <3>4, OneMoves
  <2> QED
    BY <2>1, <2>2
<1>5. StreamTypeOK'
  BY <1>t, <1>1 DEF IngressInv, StreamTypeOK
<1>6. NothingIsLost'
  <2>1. \A i \in deleted' : Safe(i)
    BY <1>1 DEF IngressInv, NothingIsLost, AckIsBacked, Safe
  <2>2. \A i \in 1 .. delivered : i \in deleted' \/ i \in pel'
    BY <1>1 DEF IngressInv, NothingIsLost
  <2> QED
    BY <1>1, <2>1, <2>2 DEF NothingIsLost, Safe, Present
<1> QED
  BY <1>2, <1>4, <1>5, <1>6 DEF IngressInv

-----------------------------------------------------------------------------
(* The specification.                                                        *)

LEMMA StepKeeps ==
  ASSUME IngressInv, [Next]_vars
  PROVE  IngressInv' /\ (RowsStay \/ UNCHANGED inboxVars)
<1>1. ASSUME NEW p \in Processes, Materializer(p)
      PROVE  IngressInv' /\ RowsStay
  BY <1>1, ReadStepKeeps, CommitKeeps, AckKeeps DEF Materializer
<1>2. CASE InboxStep /\ UNCHANGED <<streamVars, matVars>>
  <2>1. InboxInv' /\ RowsStay
    BY <1>2, InboxStepKeeps DEF IngressInv
  <2>2. UNCHANGED <<stream, deleted, delivered, pel, lease, mat, quarantine, overtaken>>
    BY <1>2 DEF streamVars, matVars
  <2>3. SafeStays
    BY <2>1, <2>2, StaysSafe
  <2>4. MatTypeOK' /\ AckIsBacked'
    BY <2>2, <2>3, NoneMoves DEF IngressInv, MatTypeOK
  <2>5. StreamTypeOK'
    BY <2>2 DEF IngressInv, StreamTypeOK
  <2>6. NothingIsLost'
    <3>1. /\ delivered' \in 0 .. Len(stream) /\ pel \subseteq pel'
          /\ delivered + 1 .. delivered' \subseteq pel'
      BY <2>2 DEF IngressInv, StreamTypeOK
    <3> QED
      BY <2>2, <2>3, <3>1, NothingNewLost
  <2> QED
    BY <2>1, <2>4, <2>5, <2>6 DEF IngressInv
<1>3. CASE UNCHANGED vars
  BY <1>3 DEF vars, inboxVars, streamVars, matVars, IngressInv, InboxInv, InboxTypeOK,
     HeadsAreOpen, ProcessingIsHead, TokensFence, IsOpen, Present, Busy, StreamTypeOK,
     MatTypeOK, Mats, NothingIsLost, AckIsBacked, Safe
<1> QED
  BY <1>1, <1>2, <1>3, ReceiveKeeps, LeaseExpiresKeeps, ReadStepKeeps, LeaseStepKeeps,
     CrashStepKeeps DEF Next

LEMMA InitInv ==
  ASSUME IngressInit
  PROVE  IngressInv
<1>1. InboxInv
  BY InboxInitInv DEF IngressInit
<1>2. StreamTypeOK
  BY DEF IngressInit, StreamTypeOK
<1>3. MatTypeOK /\ AckIsBacked
  BY StandByTyped DEF IngressInit, MatTypeOK, AckIsBacked
<1>4. NothingIsLost
  BY DEF IngressInit, NothingIsLost
<1> QED
  BY <1>1, <1>2, <1>3, <1>4 DEF IngressInv

(* The inductive invariant of the inbox, its stream and its materializers.   *)
THEOREM Invariance == IngressSpec => []IngressInv
<1>1. IngressInit => IngressInv
  BY InitInv
<1>2. IngressInv /\ [Next]_vars => IngressInv'
  BY StepKeeps
<1> QED
  BY <1>1, <1>2, PTL DEF IngressSpec

(* The ingress stays in its types.                                           *)
THEOREM TypeCorrect == IngressSpec => []IngressTypeOK
<1>1. IngressInv => IngressTypeOK
  BY DEF IngressInv, InboxInv, StreamTypeOK, MatTypeOK, Mats, IngressTypeOK
<1> QED
  BY <1>1, Invariance, PTL

(* No lane is stuck on a head that ended, and none with open rows is without *)
(* a head, for any lanes, workers and faults.                                *)
THEOREM LanesHaveHeads == IngressSpec => []HeadsAreOpen
<1>1. IngressInv => HeadsAreOpen
  BY DEF IngressInv, InboxInv
<1> QED
  BY <1>1, Invariance, PTL

(* At most one worker of all processes can write about a lane.               *)
THEOREM LanesHaveOneOwner == IngressSpec => []OneOwnerPerLane
<1>1. IngressInv => OneOwnerPerLane
  <2> SUFFICES ASSUME IngressInv, NEW v \in Workers, NEW w \in Workers,
                      Owned(v), Owned(w), LaneOf[work[v].update] = LaneOf[work[w].update]
               PROVE  v = w
    BY DEF OneOwnerPerLane
  <2>1. Busy(v) /\ Busy(w)
    BY DEF Owned, Held
  <2>2. /\ work[v].update \in Updates /\ Present(work[v].update)
        /\ work[w].update \in Updates /\ Present(work[w].update)
    BY <2>1, BusyTask DEF IngressInv, Busy
  <2>3. work[v].update = work[w].update
    BY <2>2 DEF Owned, IngressInv, InboxInv, ProcessingIsHead
  <2>4. work[v].token = work[w].token
    BY <2>3 DEF Owned, Held
  <2> QED
    BY <2>1, <2>3, <2>4 DEF IngressInv, InboxInv, TokensFence
<1> QED
  BY <1>1, Invariance, PTL

(* An entry leaves the stream only when its update has a row or is in        *)
(* quarantine, and is in the pending list until then.                        *)
THEOREM IngressKeepsAll == IngressSpec => []NothingIsLost
<1>1. IngressInv => NothingIsLost
  BY DEF IngressInv
<1> QED
  BY <1>1, Invariance, PTL

(* How an update ended is never changed.                                     *)
THEOREM EndsAreFinal == IngressSpec => TerminalIsFinal
<1>1. IngressInv /\ [Next]_vars
        => [\A u \in Updates : Ended(u) => Ended(u)' /\ inbox'[u].status = inbox[u].status]_inboxVars
  BY StepKeeps DEF RowsStay
<1> QED
  BY <1>1, Invariance, PTL DEF IngressSpec, TerminalIsFinal

-----------------------------------------------------------------------------
(* How rows move: they keep their place, and end at the head of their lane.  *)

PlaceStays(u) ==
  /\ Present(u)' <=> Present(u)
  /\ Present(u) => inbox'[u].pos = inbox[u].pos

NobodyEnds ==
  /\ heads' = heads
  /\ \A u \in Updates : PlaceStays(u) /\ (IsOpen(u)' <=> IsOpen(u))

HeadEnds(u) ==
  /\ heads[LaneOf[u]] = u /\ IsOpen(u) /\ ~ IsOpen(u)'
  /\ heads' = [heads EXCEPT ![LaneOf[u]] = NextHead(u)]
  /\ \A v \in Updates : PlaceStays(v)
  /\ \A v \in Updates \ {u} : IsOpen(v)' <=> IsOpen(v)

(* One row is written anew, in its place.                                    *)
LEMMA RowStaysPut ==
  ASSUME InboxInv, NEW u \in Updates, Present(u),
         NEW row \in Rows, row.pos = inbox[u].pos,
         inbox' = [inbox EXCEPT ![u] = row]
  PROVE  /\ \A v \in Updates : PlaceStays(v)
         /\ IsOpen(u)' <=> row.status \in Open
         /\ \A v \in Updates \ {u} : IsOpen(v)' <=> IsOpen(v)
<1>1. inbox \in [Updates -> Rows \cup {Nil}] /\ row # Nil
  BY NilIsNoRow DEF InboxInv, InboxTypeOK
<1>2. inbox'[u] = row /\ \A v \in Updates \ {u} : inbox'[v] = inbox[v]
  BY <1>1
<1>3. ASSUME NEW v \in Updates
      PROVE  PlaceStays(v)
  <2>1. CASE v = u
    BY <1>1, <1>2, <2>1 DEF PlaceStays, Present
  <2>2. CASE v # u
    BY <1>2, <2>2 DEF PlaceStays, Present
  <2> QED
    BY <2>1, <2>2
<1>4. IsOpen(u)' <=> row.status \in Open
  BY <1>1, <1>2 DEF IsOpen, Present, Open
<1>5. \A v \in Updates \ {u} : IsOpen(v)' <=> IsOpen(v)
  BY <1>2 DEF IsOpen, Present, Open
<1> QED
  BY <1>3, <1>4, <1>5

(* The row is open before and after, or neither.                             *)
LEMMA OneStaysOpen ==
  ASSUME InboxInv, NEW u \in Updates, Present(u), heads' = heads,
         NEW row \in Rows, row.pos = inbox[u].pos,
         row.status \in Open <=> inbox[u].status \in Open,
         inbox' = [inbox EXCEPT ![u] = row]
  PROVE  NobodyEnds
<1>1. /\ \A v \in Updates : PlaceStays(v)
      /\ IsOpen(u)' <=> row.status \in Open
      /\ \A v \in Updates \ {u} : IsOpen(v)' <=> IsOpen(v)
  BY RowStaysPut
<1>2. IsOpen(u)' <=> IsOpen(u)
  BY <1>1 DEF IsOpen
<1> QED
  BY <1>1, <1>2 DEF NobodyEnds

LEMMA NoRowMoves ==
  ASSUME inbox' = inbox, heads' = heads
  PROVE  NobodyEnds
<1> QED
  BY DEF NobodyEnds, PlaceStays, IsOpen, Present

(* What the statements make of a row leaves it where it is.                  *)
LEMMA WrittenInPlace ==
  ASSUME NEW old \in Rows, NEW status \in Open \cup Terminal
  PROVE  /\ [old EXCEPT !.leased = FALSE].pos = old.pos
         /\ [old EXCEPT !.applied = TRUE].pos = old.pos
         /\ [old EXCEPT !.status = status].pos = old.pos
<1> QED
  BY DEF Rows

LEMMA LapseEndsNobody ==
  ASSUME InboxInv, NEW u \in Updates, Present(u), heads' = heads, Lapse(u)
  PROVE  NobodyEnds
<1>1. inbox[u] \in Rows
  BY RowTyped DEF InboxInv
<1>2. PICK row \in Rows : /\ row = [inbox[u] EXCEPT !.leased = FALSE]
                          /\ row.pos = inbox[u].pos /\ row.status = inbox[u].status
  BY <1>1, RowWritten, WrittenInPlace DEF Open
<1>3. inbox' = [inbox EXCEPT ![u] = row]
  BY <1>2 DEF Lapse, InboxInv, InboxTypeOK
<1> QED
  BY <1>2, <1>3, OneStaysOpen

LEMMA TakeEndsNobody ==
  ASSUME InboxInv, NEW w \in Workers, Take(w)
  PROVE  NobodyEnds
<1>0. PICK u \in Updates : u = work[w].update /\ Present(u) /\ inbox[u] \in Rows
  BY BusyTask DEF Take
<1>1. heads' = heads
  BY DEF Take
<1>2. CASE StillThere(u)
  <2>1. IsOpen(u)
    BY <1>2, InboxAssumption DEF StillThere, InboxInv, HeadsAreOpen
  <2>2. PICK row \in Rows : /\ row = Claimed(inbox[u])
                            /\ row.pos = inbox[u].pos /\ row.status = "processing"
    BY <1>0, ClaimedTyped
  <2>3. inbox' = [inbox EXCEPT ![u] = row]
    BY <1>0, <1>2, <2>2 DEF Take, InboxInv, InboxTypeOK
  <2> QED
    BY <1>0, <1>1, <2>1, <2>2, <2>3, OneStaysOpen DEF IsOpen, Open
<1>3. CASE ~ StillThere(u)
  BY <1>0, <1>1, <1>3, NoRowMoves DEF Take
<1> QED
  BY <1>2, <1>3

LEMMA CheckpointEndsNobody ==
  ASSUME InboxInv, NEW w \in Workers, Checkpoint(w)
  PROVE  NobodyEnds
<1>0. PICK u \in Updates : u = work[w].update /\ Present(u) /\ inbox[u] \in Rows
  BY BusyTask DEF Checkpoint
<1>1. heads' = heads
  BY DEF Checkpoint
<1>2. CASE inbox' = inbox
  BY <1>1, <1>2, NoRowMoves
<1>3. CASE inbox' = [inbox EXCEPT ![u].applied = TRUE]
  <2>1. PICK row \in Rows : /\ row = [inbox[u] EXCEPT !.applied = TRUE]
                            /\ row.pos = inbox[u].pos /\ row.status = inbox[u].status
    BY <1>0, RowWritten, WrittenInPlace DEF Open
  <2>2. inbox' = [inbox EXCEPT ![u] = row]
    BY <1>3, <2>1 DEF InboxInv, InboxTypeOK
  <2> QED
    BY <1>0, <1>1, <2>1, <2>2, OneStaysOpen
<1> QED
  BY <1>0, <1>2, <1>3 DEF Checkpoint

(* A report that is refused, a retry, or the end of a head.                  *)
LEMMA FinishEndsHead ==
  ASSUME InboxInv, NEW w \in Workers, NEW result \in Results(w), Finish(w, result)
  PROVE  NobodyEnds \/ \E u \in Updates : HeadEnds(u)
<1>0. PICK u \in Updates : u = work[w].update /\ Present(u) /\ inbox[u] \in Rows
  BY BusyTask DEF Finish, Busy
<1>1. PICK status \in Terminal \cup {"retry_wait"} : status = StatusAfter(result, work[w].token)
  BY DEF Results, StatusAfter, Terminal
<1>2. CASE ~ MayTransition(w, u, status)
  BY <1>0, <1>1, <1>2, NoRowMoves DEF Finish
<1>3. CASE MayTransition(w, u, status)
  <2>1. Transition(u, status) /\ inbox[u].status = "processing"
    BY <1>0, <1>1, <1>3 DEF Finish, MayTransition, Owned
  <2>2. PICK new \in Rows : /\ new = [inbox[u] EXCEPT !.status = status]
                            /\ new.pos = inbox[u].pos /\ new.status = status
    <3>1. status \in Open \cup Terminal
      BY DEF Open
    <3>2. /\ [inbox[u] EXCEPT !.status = status] \in Rows
          /\ [inbox[u] EXCEPT !.status = status].status = status
      BY <1>0, <3>1, RowWritten
    <3>3. [inbox[u] EXCEPT !.status = status].pos = inbox[u].pos
      BY <1>0, <3>1, WrittenInPlace
    <3> QED
      BY <3>2, <3>3
  <2>3. PICK row \in Rows : /\ row = [new EXCEPT !.leased = FALSE]
                            /\ row.pos = new.pos /\ row.status = new.status
    BY RowWritten, WrittenInPlace DEF Open
  <2>4. inbox' = [inbox EXCEPT ![u] = row]
    BY <1>0, <2>1, <2>2, <2>3 DEF Transition, InboxInv, InboxTypeOK
  <2>5. /\ \A v \in Updates : PlaceStays(v)
        /\ IsOpen(u)' <=> row.status \in Open
        /\ \A v \in Updates \ {u} : IsOpen(v)' <=> IsOpen(v)
    BY <1>0, <2>2, <2>3, <2>4, RowStaysPut
  <2>6. CASE status = "retry_wait"
    <3>1. heads' = heads
      BY <2>1, <2>6 DEF Transition, Terminal
    <3> QED
      BY <1>0, <2>1, <2>2, <2>3, <2>4, <2>6, <3>1, OneStaysOpen DEF Open
  <2>7. CASE status \in Terminal
    <3>1. heads[LaneOf[u]] = u /\ heads' = [heads EXCEPT ![LaneOf[u]] = NextHead(u)]
      BY <1>3, <2>1, <2>7 DEF MayTransition, Transition
    <3>2. IsOpen(u) /\ ~ IsOpen(u)'
      BY <1>0, <2>1, <2>2, <2>3, <2>5, <2>7 DEF IsOpen, Open, Terminal
    <3> QED
      BY <2>5, <3>1, <3>2 DEF HeadEnds
  <2> QED
    BY <2>6, <2>7
<1> QED
  BY <1>2, <1>3

LEMMA HowRowsMove ==
  ASSUME InboxInv, InboxStep
  PROVE  NobodyEnds \/ \E u \in Updates : HeadEnds(u)
<1>1. ASSUME NEW w \in Workers, Serve(w) \/ DecodeFails(w)
      PROVE  NobodyEnds \/ \E u \in Updates : HeadEnds(u)
  BY <1>1, NoRowMoves, TakeEndsNobody, CheckpointEndsNobody, FinishEndsHead
     DEF Serve, Look, Handles, DecodeFails
<1>2. ASSUME NEW w \in Workers, StoreError(w)
      PROVE  NobodyEnds
  BY <1>2, NoRowMoves DEF StoreError
<1>3. ASSUME NEW w \in Workers, LeaseLapses(w)
      PROVE  NobodyEnds
  <2>1. PICK u \in Updates : u = work[w].update /\ Present(u)
    BY <1>3, BusyTask DEF LeaseLapses, Held, Busy
  <2> QED
    BY <1>3, <2>1, LapseEndsNobody DEF LeaseLapses
<1>4. ASSUME NEW u \in Updates, LeaseEnds(u)
      PROVE  NobodyEnds
  BY <1>4, LapseEndsNobody DEF LeaseEnds, Running
<1> QED
  BY <1>1, <1>2, <1>3, <1>4 DEF InboxStep

-----------------------------------------------------------------------------
(* How entries are read: while no lease ran out under its owner, one         *)
(* materializer runs, and no entry before those it holds is left behind.     *)

Holds(m) == m.pending \cup m.batch

InLine(m, gone, last) ==
  /\ m.at \notin {"commit", "ack"} => m.batch = {}
  /\ m.at \notin {"fill", "commit", "ack"} => m.pending = {}
  /\ \A n \in Holds(m) : \A i \in 1 .. n : i \in Holds(m) \/ i \in gone
  /\ \A i \in m.batch : \A j \in m.pending : i < j
  /\ m.at \in {"read", "fill"} => \A i \in 1 .. last : i \in m.pending \/ i \in gone

MatsInLine ==
  \A p \in Processes : /\ mat[p].at # "standby" => lease = p
                       /\ InLine(mat[p], deleted, delivered)

PelIsDelivered == pel \subseteq 1 .. delivered

(* The materializer p moves; another one that runs would hold the lease.     *)
LEMMA OneInLine ==
  ASSUME MatTypeOK, MatsInLine, NEW p \in Processes, NEW m \in Mats,
         mat' = [mat EXCEPT ![p] = m],
         InLine(m, deleted', delivered'), m.at # "standby" => lease' = p,
         deleted \subseteq deleted',
         \A q \in Processes \ {p} : lease = q => lease' = q /\ delivered' = delivered
  PROVE  MatsInLine'
<1>1. mat'[p] = m /\ \A q \in Processes \ {p} : mat'[q] = mat[q]
  BY DEF MatTypeOK
<1>2. ASSUME NEW q \in Processes \ {p}
      PROVE  /\ mat[q].at # "standby" => lease' = q
             /\ InLine(mat[q], deleted', delivered')
  <2>1. InLine(mat[q], deleted, delivered) /\ (mat[q].at # "standby" => lease = q)
    BY DEF MatsInLine
  <2>2. CASE mat[q].at = "standby"
    BY <2>1, <2>2 DEF InLine, Holds
  <2>3. CASE mat[q].at # "standby"
    <3>1. lease' = q /\ delivered' = delivered
      BY <2>1, <2>3
    <3> QED
      BY <2>1, <3>1 DEF InLine, Holds
  <2> QED
    BY <2>2, <2>3
<1> QED
  BY <1>1, <1>2 DEF MatsInLine

(* A materializer that holds nothing.                                        *)
LEMMA EmptyInLine ==
  ASSUME NEW m, m.pending = {}, m.batch = {}, m.at \notin {"read", "fill"}, NEW gone, NEW last
  PROVE  InLine(m, gone, last)
<1> QED
  BY DEF InLine, Holds

(* A batch is the first part of what is pending.                             *)
LEMMA BatchedInLine ==
  ASSUME NEW m \in Mats, NEW pending \in SUBSET DOMAIN stream, NEW batch \in Batches(pending),
         NEW b \in Mats, b = Batched(m, pending, batch), pending \subseteq Nat,
         NEW gone, NEW last,
         \A n \in pending : \A i \in 1 .. n : i \in pending \/ i \in gone
  PROVE  InLine(b, gone, last)
<1>1. PICK n \in pending : batch = {i \in pending : i <= n}
  BY DEF Batches
<1>2. b.at = "commit" /\ b.batch = batch /\ b.pending = pending \ batch
  BY DEF Batched, Mats
<1>3. Holds(b) = pending
  BY <1>1, <1>2 DEF Holds
<1>4. \A i \in batch : \A j \in pending \ batch : i < j
  BY <1>1
<1> QED
  BY <1>2, <1>3, <1>4 DEF InLine

(* Only the station, or what is known of lease and startup, changes.         *)
LEMMA StationInLine ==
  ASSUME NEW m, NEW n, n.pending = m.pending, n.batch = m.batch,
         NEW gone, NEW last, InLine(m, gone, last),
         \/ n.at = m.at
         \/ {m.at, n.at} \subseteq {"commit", "ack"}
         \/ m.at \in {"standby", "reclaim", "stats", "read"} /\ n.at \notin {"read", "fill"}
  PROVE  InLine(n, gone, last)
<1> QED
  BY DEF InLine, Holds

LEMMA MatLoses ==
  ASSUME NEW m \in Mats
  PROVE  \E n \in Mats : /\ n = [m EXCEPT !.lost = TRUE] /\ n.at = m.at
                         /\ n.pending = m.pending /\ n.batch = m.batch
<1> DEFINE n == [m EXCEPT !.lost = TRUE]
<1>1. n \in Mats /\ n.at = m.at /\ n.batch = m.batch
  BY MatLost
<1>2. n.pending = m.pending
  BY DEF Mats
<1> QED
  BY <1>1, <1>2

LEMMA StandByInLine ==
  ASSUME NEW gone, NEW last
  PROVE  InLine(StandBy, gone, last)
<1> QED
  BY EmptyInLine DEF StandBy

(* A step of the lease or of reading that takes what is there in its turn.   *)
LEMMA LeaseStepInLine ==
  ASSUME IngressInv, MatsInLine, NEW p \in Processes,
         Acquire(p) \/ HeartbeatFails(p) \/ Stop(p) \/ Crash(p)
  PROVE  MatsInLine' /\ UNCHANGED <<stream, deleted, delivered, pel, quarantine, overtaken>>
<1>t. /\ MatTypeOK /\ mat \in [Processes -> Mats] /\ mat[p] \in Mats
      /\ InLine(mat[p], deleted, delivered)
      /\ mat[p].at # "standby" => lease = p
      /\ StandBy \in Mats /\ StandBy.at = "standby"
  BY StandByTyped DEF IngressInv, MatTypeOK, MatsInLine
<1>u. UNCHANGED <<stream, deleted, delivered, pel, quarantine, overtaken>>
  BY DEF Acquire, HeartbeatFails, Stop, Crash, streamVars
<1>1. CASE Acquire(p)
  <2>1. PICK m \in Mats : /\ m = [mat[p] EXCEPT !.at = "reclaim"] /\ m.at = "reclaim"
                          /\ m.pending = mat[p].pending /\ m.batch = mat[p].batch
    BY <1>t, MatMoves DEF Stations
  <2>2. mat' = [mat EXCEPT ![p] = m] /\ mat[p].at = "standby" /\ lease = Nil /\ lease' = p
    BY <1>t, <1>1, <2>1 DEF Acquire, Moves
  <2>3. InLine(m, deleted, delivered)
    BY <1>t, <2>1, <2>2, StationInLine
  <2> QED
    BY <1>t, <1>u, <2>2, <2>3, OneInLine, IngressAssumption
<1>2. CASE HeartbeatFails(p)
  <2>1. PICK m \in Mats : /\ m = [mat[p] EXCEPT !.lost = TRUE] /\ m.at = mat[p].at
                          /\ m.pending = mat[p].pending /\ m.batch = mat[p].batch
    BY <1>t, MatLoses
  <2>2. mat' = [mat EXCEPT ![p] = m] /\ lease' = lease
    BY <1>t, <1>2, <2>1 DEF HeartbeatFails
  <2>3. InLine(m, deleted, delivered)
    BY <1>t, <2>1, StationInLine
  <2> QED
    BY <1>t, <1>u, <2>1, <2>2, <2>3, OneInLine
<1>3. CASE Stop(p) \/ Crash(p)
  <2>1. mat' = [mat EXCEPT ![p] = StandBy] /\ (lease # p => lease' = lease)
    BY <1>3 DEF Stop, Crash, Release
  <2> QED
    BY <1>t, <1>u, <2>1, StandByInLine, OneInLine
<1> QED
  BY <1>u, <1>1, <1>2, <1>3

LEMMA LeaseExpiryInLine ==
  ASSUME MatsInLine, LeaseExpires, ~ overtaken'
  PROVE  /\ MatsInLine' /\ ~ overtaken
         /\ UNCHANGED <<stream, deleted, delivered, pel, quarantine, inbox, heads>>
<1>1. lease = "orphan" /\ ~ overtaken
  BY DEF LeaseExpires
<1>2. UNCHANGED <<stream, deleted, delivered, pel, quarantine, inbox, heads, mat>>
  BY DEF LeaseExpires, streamVars
<1>3. \A p \in Processes : mat[p].at = "standby"
  BY <1>1, IngressAssumption DEF MatsInLine
<1> QED
  BY <1>1, <1>2, <1>3 DEF MatsInLine

(* The owner moves and nothing but the stream and its materializer changes.  *)
LEMMA OwnerInLine ==
  ASSUME MatTypeOK, MatsInLine, NEW p \in Processes, mat[p].at # "standby",
         NEW m \in Mats, mat' = [mat EXCEPT ![p] = m], lease' = lease,
         deleted \subseteq deleted', InLine(m, deleted', delivered')
  PROVE  MatsInLine'
<1>1. lease = p
  BY DEF MatsInLine
<1> QED
  BY <1>1, OneInLine

(* What was delivered and is not in the list was deleted.                    *)
LEMMA ListedOrDeleted ==
  ASSUME IngressInv
  PROVE  /\ \A i \in 1 .. delivered : i \in deleted \/ i \in pel
         /\ pel = {} => \A i \in 1 .. delivered : i \in deleted
<1> QED
  BY DEF IngressInv, NothingIsLost

LEMMA ReadStepInLine ==
  ASSUME IngressInv, PelIsDelivered, MatsInLine, NEW p \in Processes,
         \/ Adopt(p) \/ AdoptNothing(p) \/ Stats(p)
         \/ Read(p) \/ Filled(p) \/ ReadFails(p) \/ ReadNothing(p)
  PROVE  MatsInLine' /\ PelIsDelivered' /\ UNCHANGED <<stream, deleted, quarantine, overtaken>>
<1>t. /\ MatTypeOK /\ mat \in [Processes -> Mats] /\ mat[p] \in Mats
      /\ mat[p].pending \in SUBSET DOMAIN stream /\ pel \in SUBSET DOMAIN stream
      /\ delivered \in Nat /\ DOMAIN stream = 1 .. Len(stream) /\ Len(stream) \in Nat
      /\ DOMAIN stream \subseteq Nat
      /\ InLine(mat[p], deleted, delivered)
  BY DEF IngressInv, MatTypeOK, StreamTypeOK, Mats, MatsInLine
<1>u. UNCHANGED <<stream, deleted, quarantine, overtaken, lease>> /\ mat[p].at # "standby"
  BY DEF Adopt, AdoptNothing, Stats, Read, Filled, ReadFails, ReadNothing, Deliver, streamVars
<1>d. ASSUME NEW n \in delivered + 1 .. Len(stream), Deliver(n)
      PROVE  delivered' = n /\ PelIsDelivered'
  <2>1. delivered' = n /\ pel' = pel \cup (delivered + 1 .. n)
    BY <1>d DEF Deliver
  <2>2. ASSUME NEW i \in pel'
        PROVE  i \in 1 .. n
    <3>1. delivered \in Nat /\ n \in Nat /\ delivered + 1 <= n
      BY <1>t, <1>d
    <3>2. i \in 1 .. delivered \/ i \in delivered + 1 .. n
      BY <2>1, <2>2 DEF PelIsDelivered
    <3> QED
      BY <3>1, <3>2
  <2> QED
    BY <2>1, <2>2 DEF PelIsDelivered
<1>1. CASE Adopt(p)
  <2>1. PICK batch \in Batches(pel) : mat' = [mat EXCEPT ![p] = Batched(@, pel, batch)]
    BY <1>1 DEF Adopt
  <2>2. PICK pending \in SUBSET DOMAIN stream : pending = pel
    BY <1>t
  <2>3. PICK m \in Mats : m = Batched(mat[p], pending, batch)
    BY <1>t, <2>1, <2>2, BatchedTyped
  <2>4. mat' = [mat EXCEPT ![p] = m]
    BY <1>t, <2>1, <2>2, <2>3
  <2>5. UNCHANGED <<delivered, pel>>
    BY <1>1 DEF Adopt, streamVars
  <2>6. ASSUME NEW n \in pending, NEW i \in 1 .. n
        PROVE  i \in pending \/ i \in deleted
    <3>1. n \in 1 .. delivered /\ delivered \in Nat
      BY <1>t, <2>2 DEF PelIsDelivered
    <3>2. i \in 1 .. delivered
      BY <3>1
    <3> QED
      BY <2>2, <3>2, ListedOrDeleted
  <2>7. InLine(m, deleted, delivered)
    BY <1>t, <2>1, <2>2, <2>3, <2>6, BatchedInLine
  <2> QED
    BY <1>t, <1>u, <2>4, <2>5, <2>7, OwnerInLine DEF PelIsDelivered
<1>2. CASE AdoptNothing(p)
  <2>1. PICK n \in Mats : /\ n = [mat[p] EXCEPT !.at = "stats"] /\ n.at = "stats"
                          /\ n.pending = mat[p].pending /\ n.batch = mat[p].batch
    <3>1. "stats" \in Stations
      BY DEF Stations
    <3> QED
      BY <1>t, <3>1, MatMoves
  <2>2. PICK m \in Mats : /\ m = [n EXCEPT !.startup = FALSE] /\ m.at = "stats"
                          /\ m.pending = n.pending /\ m.batch = n.batch
    <3>1. [n EXCEPT !.startup = FALSE].pending = n.pending /\ [n EXCEPT !.startup = FALSE].batch = n.batch
      BY DEF Mats
    <3> QED
      BY <2>1, <3>1, MatLost
  <2>3. mat' = [mat EXCEPT ![p] = m] /\ mat[p].at = "reclaim"
    BY <1>t, <1>2, <2>1, <2>2 DEF AdoptNothing
  <2>4. UNCHANGED <<delivered, pel>>
    BY <1>2 DEF AdoptNothing, streamVars
  <2>5. InLine(m, deleted, delivered)
    BY <1>t, <2>1, <2>2, <2>3, StationInLine
  <2> QED
    BY <1>t, <1>u, <2>3, <2>4, <2>5, OwnerInLine DEF PelIsDelivered
<1>3. CASE Stats(p)
  <2>1. PICK m \in Mats : /\ m = [mat[p] EXCEPT !.at = NextStation(p)]
                          /\ m.at = NextStation(p)
                          /\ m.pending = mat[p].pending /\ m.batch = mat[p].batch
    <3>1. NextStation(p) \in Stations
      BY DEF NextStation, Stations
    <3> QED
      BY <1>t, <3>1, MatMoves
  <2>2. mat' = [mat EXCEPT ![p] = m] /\ mat[p].at = "stats" /\ UNCHANGED <<delivered, pel>>
    BY <1>t, <1>3, <2>1 DEF Stats, Moves, streamVars
  <2>3. m.pending = {} /\ m.batch = {}
    BY <1>t, <2>1, <2>2 DEF InLine
  <2>4. m.at = "reclaim" \/ (m.at = "read" /\ \A i \in 1 .. delivered : i \in deleted)
    BY <2>1, ListedOrDeleted DEF NextStation
  <2>5. InLine(m, deleted, delivered)
    BY <2>3, <2>4 DEF InLine, Holds
  <2> QED
    BY <1>t, <1>u, <2>2, <2>5, OwnerInLine DEF PelIsDelivered
<1>4. CASE Read(p)
  <2>1. PICK n \in delivered + 1 .. Len(stream) : Deliver(n) /\ Got(p, n, "fill")
    BY <1>4 DEF Read
  <2>2. PICK places \in SUBSET DOMAIN stream : places = mat[p].pending \cup (delivered + 1 .. n)
    <3>1. mat[p].pending \cup (delivered + 1 .. n) \in SUBSET DOMAIN stream
      BY <1>t, <2>1
    <3> QED
      BY <3>1
  <2>3. PICK q \in Mats : /\ q = [mat[p] EXCEPT !.at = "fill"] /\ q.at = "fill"
                          /\ q.pending = mat[p].pending /\ q.batch = mat[p].batch
    <3>1. "fill" \in Stations
      BY DEF Stations
    <3> QED
      BY <1>t, <3>1, MatMoves
  <2>4. PICK m \in Mats : /\ m = [q EXCEPT !.pending = places] /\ m.at = "fill"
                          /\ m.pending = places /\ m.batch = q.batch
    <3>1. /\ [q EXCEPT !.pending = places] \in Mats
          /\ [q EXCEPT !.pending = places].at = q.at
      BY MatHolds
    <3>2. [q EXCEPT !.pending = places].pending = places /\ [q EXCEPT !.pending = places].batch = q.batch
      BY DEF Mats
    <3> QED
      BY <2>3, <3>1, <3>2
  <2>5. mat' = [mat EXCEPT ![p] = m] /\ mat[p].at \in {"read", "fill"}
    BY <1>t, <1>4, <2>1, <2>2, <2>3, <2>4 DEF Got, Read
  <2>6. delivered' = n /\ PelIsDelivered'
    BY <1>d, <2>1
  <2>7. m.batch = {}
    BY <1>t, <2>3, <2>4, <2>5 DEF InLine
  <2>8. \A i \in 1 .. n : i \in m.pending \/ i \in deleted
    <3>1. \A i \in 1 .. delivered : i \in mat[p].pending \/ i \in deleted
      BY <1>t, <2>5 DEF InLine
    <3> QED
      BY <1>t, <2>1, <2>2, <2>4, <3>1
  <2>9. ASSUME NEW k \in m.pending, NEW i \in 1 .. k
        PROVE  i \in m.pending \/ i \in deleted
    <3>1. CASE k \in mat[p].pending
      <4>1. i \in Holds(mat[p]) \/ i \in deleted
        BY <1>t, <2>9, <3>1 DEF InLine, Holds
      <4> QED
        BY <2>2, <2>3, <2>4, <2>7, <4>1 DEF Holds
    <3>2. CASE k \in delivered + 1 .. n
      BY <1>t, <2>1, <2>8, <2>9, <3>2
    <3> QED
      BY <2>2, <2>4, <2>9, <3>1, <3>2
  <2>10. InLine(m, deleted, n)
    BY <2>4, <2>7, <2>8, <2>9 DEF InLine, Holds
  <2> QED
    BY <1>t, <1>u, <2>5, <2>6, <2>10, OwnerInLine
<1>5. CASE Filled(p) \/ (ReadFails(p) /\ mat[p].at # "read")
  <2>1. PICK pending \in SUBSET DOMAIN stream : pending = mat[p].pending
    BY <1>t
  <2>2. PICK batch \in Batches(pending) : mat' = [mat EXCEPT ![p] = Batched(@, pending, batch)]
    BY <1>5, <2>1 DEF Filled, ReadFails
  <2>3. PICK m \in Mats : m = Batched(mat[p], pending, batch)
    BY <1>t, BatchedTyped
  <2>4. mat' = [mat EXCEPT ![p] = m] /\ mat[p].at = "fill"
    BY <1>t, <1>5, <2>2, <2>3 DEF Filled, ReadFails
  <2>5. \A n \in pending : \A i \in 1 .. n : i \in pending \/ i \in deleted
    BY <1>t, <2>1, <2>4 DEF InLine, Holds
  <2>6. InLine(m, deleted, delivered')
    BY <1>t, <2>3, <2>5, BatchedInLine
  <2>7. PelIsDelivered'
    <3>1. CASE Filled(p)
      BY <3>1 DEF Filled, streamVars, PelIsDelivered
    <3>2. CASE ReadFails(p)
      BY <1>d, <3>2 DEF ReadFails
    <3> QED
      BY <1>5, <3>1, <3>2
  <2> QED
    BY <1>t, <1>u, <2>4, <2>6, <2>7, OwnerInLine
<1>6. CASE ReadNothing(p) \/ (ReadFails(p) /\ mat[p].at = "read")
  <2>1. PICK m \in Mats : /\ m = [mat[p] EXCEPT !.at = "reclaim"] /\ m.at = "reclaim"
                          /\ m.pending = mat[p].pending /\ m.batch = mat[p].batch
    BY <1>t, MatMoves DEF Stations
  <2>2. mat' = [mat EXCEPT ![p] = m] /\ mat[p].at = "read"
    BY <1>t, <1>6, <2>1 DEF ReadNothing, ReadFails, Moves
  <2>3. InLine(m, deleted, delivered')
    <3>1. m.pending = {} /\ m.batch = {}
      BY <1>t, <2>1, <2>2 DEF InLine
    <3> QED
      BY <2>1, <3>1, EmptyInLine
  <2>4. PelIsDelivered'
    <3>1. CASE ReadNothing(p)
      BY <3>1 DEF ReadNothing, streamVars, PelIsDelivered
    <3>2. CASE ReadFails(p)
      BY <1>d, <3>2 DEF ReadFails
    <3> QED
      BY <1>6, <3>1, <3>2
  <2> QED
    BY <1>t, <1>u, <2>2, <2>3, <2>4, OwnerInLine
<1> QED
  BY <1>1, <1>2, <1>3, <1>4, <1>5, <1>6

LEMMA WriteStepInLine ==
  ASSUME IngressInv, PelIsDelivered, MatsInLine, NEW p \in Processes, Commit(p) \/ Ack(p)
  PROVE  MatsInLine' /\ PelIsDelivered' /\ UNCHANGED <<stream, overtaken>>
<1>t. /\ MatTypeOK /\ mat \in [Processes -> Mats] /\ mat[p] \in Mats
      /\ mat[p].pending \in SUBSET DOMAIN stream
      /\ DOMAIN stream \subseteq Nat
      /\ InLine(mat[p], deleted, delivered)
  BY DEF IngressInv, MatTypeOK, StreamTypeOK, Mats, MatsInLine
<1>u. UNCHANGED <<stream, delivered, overtaken, lease>> /\ mat[p].at \in {"commit", "ack"}
  BY DEF Commit, Ack, streamVars
<1>1. CASE Commit(p)
  <2>1. PICK n \in Mats : /\ n = [mat[p] EXCEPT !.at = "ack"] /\ n.at = "ack"
                          /\ n.pending = mat[p].pending /\ n.batch = mat[p].batch
    <3>1. "ack" \in Stations
      BY DEF Stations
    <3> QED
      BY <1>t, <3>1, MatMoves
  <2>2. PICK m \in {n, mat[p]} : mat' = [mat EXCEPT ![p] = m]
    BY <1>t, <1>1, <2>1 DEF Commit, Moves
  <2>3. m \in Mats /\ InLine(m, deleted, delivered)
    BY <1>t, <1>u, <2>1, <2>2, StationInLine
  <2>4. UNCHANGED <<deleted, pel>>
    BY <1>1 DEF Commit, streamVars
  <2> QED
    BY <1>t, <1>u, <2>2, <2>3, <2>4, OwnerInLine DEF PelIsDelivered
<1>2. CASE Ack(p)
  <2>1. deleted' = deleted \cup mat[p].batch /\ pel' = pel \ mat[p].batch /\ mat[p].at = "ack"
    BY <1>2 DEF Ack
  <2>2. CASE mat[p].pending = {}
    <3>1. PICK n \in Mats : /\ n = [mat[p] EXCEPT !.batch = {}]
                            /\ n.pending = mat[p].pending /\ n.batch = {}
      <4>1. [mat[p] EXCEPT !.batch = {}] \in Mats
        BY <1>t, MatHolds
      <4>2. /\ [mat[p] EXCEPT !.batch = {}].pending = mat[p].pending
            /\ [mat[p] EXCEPT !.batch = {}].batch = {}
        BY <1>t DEF Mats
      <4> QED
        BY <4>1, <4>2
    <3>2. PICK m \in Mats : /\ m = [n EXCEPT !.at = "reclaim"] /\ m.at = "reclaim"
                            /\ m.pending = n.pending /\ m.batch = n.batch
      <4>1. "reclaim" \in Stations
        BY DEF Stations
      <4> QED
        BY <4>1, MatMoves
    <3>3. mat' = [mat EXCEPT ![p] = m]
      BY <1>t, <1>2, <2>2, <3>1, <3>2 DEF Ack
    <3>4. InLine(m, deleted', delivered')
      BY <2>2, <3>1, <3>2, EmptyInLine
    <3> QED
      BY <1>t, <1>u, <2>1, <3>3, <3>4, OwnerInLine DEF PelIsDelivered
  <2>3. CASE mat[p].pending # {}
    <3>1. PICK pending \in SUBSET DOMAIN stream : pending = mat[p].pending
      BY <1>t
    <3>2. PICK batch \in Batches(pending) : mat' = [mat EXCEPT ![p] = Batched(@, pending, batch)]
      BY <1>2, <2>3, <3>1 DEF Ack
    <3>3. PICK m \in Mats : m = Batched(mat[p], pending, batch)
      BY <1>t, BatchedTyped
    <3>4. mat' = [mat EXCEPT ![p] = m]
      BY <1>t, <3>2, <3>3
    <3>5. \A n \in pending : \A i \in 1 .. n : i \in pending \/ i \in deleted'
      BY <1>t, <2>1, <3>1 DEF InLine, Holds
    <3>6. InLine(m, deleted', delivered')
      BY <1>t, <3>3, <3>5, BatchedInLine
    <3> QED
      BY <1>t, <1>u, <2>1, <3>4, <3>6, OwnerInLine DEF PelIsDelivered
  <2> QED
    BY <2>2, <2>3
<1> QED
  BY <1>1, <1>2

(* The first of a set of rows is before each of them.                         *)
LEMMA EarliestLeads ==
  ASSUME NEW table, NEW us, \A u \in us : table[u].pos \in Nat, NEW v \in us
  PROVE  Earliest(table, us) \in us /\ table[Earliest(table, us)].pos <= table[v].pos
<1> DEFINE places == {table[u].pos : u \in us}
<1>1. PICK x \in places : \A y \in places : x <= y
  <2>1. places \in SUBSET Nat /\ places # {}
    OBVIOUS
  <2> HIDE DEF places
  <2> QED
    BY <2>1, LeastNat
<1>2. PICK u \in us : table[u].pos = x
  OBVIOUS
<1>3. \A w \in us : table[u].pos <= table[w].pos
  BY <1>1, <1>2
<1> QED
  BY <1>2, <1>3 DEF Earliest

(* A row stands at the first place of its update in the batch.               *)
LEMMA RowedFirst ==
  ASSUME StreamTypeOK, NEW batch \in SUBSET DOMAIN stream
  PROVE  /\ DOMAIN Rowed(batch) = Good(batch) /\ Good(batch) \subseteq Updates
         /\ \A u \in Good(batch) : Rowed(batch)[u] \in batch /\ stream[Rowed(batch)[u]] = u
         /\ \A u \in Good(batch) : \A i \in batch : stream[i] = u => Rowed(batch)[u] <= i
<1>1. ASSUME NEW u \in Good(batch)
      PROVE  /\ Rowed(batch)[u] \in batch /\ stream[Rowed(batch)[u]] = u
             /\ \A i \in batch : stream[i] = u => Rowed(batch)[u] <= i
  <2>1. PICK places : places = PlacesOf(batch, u)
    OBVIOUS
  <2>2. places \in SUBSET Nat /\ places # {}
    BY <2>1 DEF PlacesOf, Good, StreamTypeOK
  <2>3. PICK x \in places : \A y \in places : x <= y
    BY <2>2, LeastNat
  <2>4. Rowed(batch)[u] = CHOOSE i \in places : \A j \in places : i <= j
    BY <2>1 DEF Rowed
  <2>5. Rowed(batch)[u] \in places /\ \A j \in places : Rowed(batch)[u] <= j
    BY <2>3, <2>4
  <2> QED
    BY <2>1, <2>5 DEF PlacesOf
<1> QED
  BY <1>1, RowedTyped

-----------------------------------------------------------------------------
(* Rows follow the stream: a row stands at the first place of its update,    *)
(* all that is before it in the stream is in safe hands, and the head of a   *)
(* lane is its first open row.                                               *)

QuarantineIsBad == \A i \in quarantine : stream[i] \in Bad

RowInOrder(u) ==
  /\ u \notin Bad
  /\ inbox[u].pos \in DOMAIN stream /\ stream[inbox[u].pos] = u
  /\ \A i \in DOMAIN stream : stream[i] = u => inbox[u].pos <= i
  /\ \A i \in 1 .. inbox[u].pos : Safe(i)

RowsInOrder == \A u \in Updates : Present(u) => RowInOrder(u)

HeadsAreFirst ==
  \A u \in Updates : IsOpen(u) =>
    \E h \in Updates : h = heads[LaneOf[u]] /\ inbox[h].pos <= inbox[u].pos

OrderInv ==
  /\ PelIsDelivered /\ QuarantineIsBad
  /\ overtaken \/ (MatsInLine /\ RowsInOrder /\ HeadsAreFirst)

(* The stream is the same, or longer.                                        *)
StreamGrows ==
  /\ DOMAIN stream \subseteq DOMAIN stream'
  /\ \A i \in DOMAIN stream : stream'[i] = stream[i]
  /\ \A i \in DOMAIN stream' \ DOMAIN stream : \A j \in DOMAIN stream : j <= i

(* A row that stays in its place stays in order.                             *)
LEMMA PlaceInOrder ==
  ASSUME IngressInv, StreamGrows, SafeStays, NEW u \in Updates,
         Present(u), RowInOrder(u), inbox'[u].pos = inbox[u].pos
  PROVE  RowInOrder(u)'
<1>1. inbox[u].pos \in DOMAIN stream /\ inbox[u].pos \in Nat /\ DOMAIN stream = 1 .. Len(stream)
      /\ Len(stream) \in Nat
  BY RowTyped DEF RowInOrder, IngressInv, InboxInv, StreamTypeOK
<1>2. PICK n : n = inbox[u].pos /\ n = inbox'[u].pos
  OBVIOUS
<1>3. n \in DOMAIN stream' /\ stream'[n] = u
  BY <1>1, <1>2 DEF StreamGrows, RowInOrder
<1>4. ASSUME NEW i \in DOMAIN stream', stream'[i] = u
      PROVE  n <= i
  BY <1>1, <1>2, <1>4 DEF StreamGrows, RowInOrder
<1>5. \A i \in 1 .. n : Safe(i)'
  <2> TAKE i \in 1 .. n
  <2>1. i \in DOMAIN stream /\ Safe(i)
    BY <1>1, <1>2 DEF RowInOrder
  <2> QED
    BY <2>1 DEF SafeStays
<1> QED
  BY <1>2, <1>3, <1>4, <1>5 DEF RowInOrder, Safe, Present

LEMMA PlacesInOrder ==
  ASSUME IngressInv, StreamGrows, SafeStays, RowsInOrder, \A u \in Updates : PlaceStays(u)
  PROVE  RowsInOrder'
<1>1. ASSUME NEW u \in Updates, Present(u)'
      PROVE  RowInOrder(u)'
  <2>1. Present(u) /\ inbox'[u].pos = inbox[u].pos /\ RowInOrder(u)
    BY <1>1 DEF PlaceStays, RowsInOrder
  <2> QED
    BY <2>1, PlaceInOrder
<1> QED
  BY <1>1 DEF RowsInOrder, Present

(* Nobody ends, or a head does and the first open row behind it follows.     *)
LEMMA FirstStaysFirst ==
  ASSUME HeadsAreFirst, NobodyEnds, InboxInv
  PROVE  HeadsAreFirst'
<1>1. ASSUME NEW u \in Updates, IsOpen(u)'
      PROVE  \E h \in Updates : h = heads'[LaneOf[u]] /\ inbox'[h].pos <= inbox'[u].pos
  <2>1. IsOpen(u) /\ heads' = heads /\ PlaceStays(u)
    BY <1>1 DEF NobodyEnds
  <2>2. PICK h \in Updates : h = heads[LaneOf[u]] /\ inbox[h].pos <= inbox[u].pos
    BY <2>1 DEF HeadsAreFirst
  <2>3. Present(h) /\ Present(u)
    BY <2>1, <2>2, NilIsNoRow, InboxAssumption DEF InboxInv, HeadsAreOpen, IsOpen
  <2>4. inbox'[h].pos = inbox[h].pos /\ inbox'[u].pos = inbox[u].pos
    BY <2>1, <2>3 DEF NobodyEnds, PlaceStays
  <2> QED
    BY <2>1, <2>2, <2>4
<1> QED
  BY <1>1 DEF HeadsAreFirst, IsOpen, Present

LEMMA NextIsFirst ==
  ASSUME InboxInv, NEW u \in Updates, NEW v \in Updates \ {u}, IsOpen(v), LaneOf[v] = LaneOf[u]
  PROVE  /\ NextHead(u) \in Updates /\ IsOpen(NextHead(u))
         /\ inbox[NextHead(u)].pos <= inbox[v].pos
<1>1. PICK behind : behind = {x \in Updates \ {u} : IsOpen(x) /\ LaneOf[x] = LaneOf[u]}
  OBVIOUS
<1>2. PICK table : table = inbox
  OBVIOUS
<1>3. NextHead(u) = Earliest(table, behind) /\ v \in behind
  BY <1>1, <1>2 DEF NextHead
<1>4. \A x \in behind : table[x].pos \in Nat
  BY <1>1, <1>2, RowTyped DEF InboxInv, IsOpen
<1>5. Earliest(table, behind) \in behind /\ table[Earliest(table, behind)].pos <= table[v].pos
  BY <1>3, <1>4, EarliestLeads
<1> QED
  BY <1>1, <1>2, <1>3, <1>5

LEMMA NextStaysFirst ==
  ASSUME HeadsAreFirst, InboxInv, NEW u \in Updates, HeadEnds(u)
  PROVE  HeadsAreFirst'
<1>t. heads \in [Lanes -> Updates \cup {Nil}] /\ LaneOf[u] \in Lanes
  BY InboxAssumption DEF InboxInv, InboxTypeOK
<1>1. ASSUME NEW v \in Updates, IsOpen(v)'
      PROVE  \E h \in Updates : h = heads'[LaneOf[v]] /\ inbox'[h].pos <= inbox'[v].pos
  <2>1. v # u /\ IsOpen(v) /\ Present(v) /\ inbox'[v].pos = inbox[v].pos
    BY <1>1 DEF HeadEnds, IsOpen, PlaceStays
  <2>2. CASE LaneOf[v] = LaneOf[u]
    <3>1. PICK h \in Updates : h = NextHead(u) /\ IsOpen(h) /\ inbox[h].pos <= inbox[v].pos
      BY <2>1, <2>2, NextIsFirst
    <3>2. heads'[LaneOf[v]] = h
      BY <1>t, <2>2, <3>1 DEF HeadEnds
    <3>3. inbox'[h].pos = inbox[h].pos
      BY <3>1 DEF HeadEnds, IsOpen, PlaceStays
    <3> QED
      BY <2>1, <3>1, <3>2, <3>3
  <2>3. CASE LaneOf[v] # LaneOf[u]
    <3>1. PICK h \in Updates : h = heads[LaneOf[v]] /\ inbox[h].pos <= inbox[v].pos
      BY <2>1 DEF HeadsAreFirst
    <3>2. Present(h)
      BY <3>1, InboxAssumption DEF InboxInv, HeadsAreOpen, IsOpen
    <3>3. heads'[LaneOf[v]] = h /\ inbox'[h].pos = inbox[h].pos
      BY <1>t, <2>3, <3>1, <3>2 DEF HeadEnds, PlaceStays
    <3> QED
      BY <2>1, <3>1, <3>3
  <2> QED
    BY <2>2, <2>3
<1> QED
  BY <1>1 DEF HeadsAreFirst, IsOpen, Present

(* A batch is written: everything before one of its entries is in the batch  *)
(* or was written earlier.                                                   *)
LEMMA CommitInOrder ==
  ASSUME IngressInv, IngressInv', QuarantineIsBad, MatsInLine, RowsInOrder, HeadsAreFirst,
         NEW p \in Processes, Commit(p)
  PROVE  RowsInOrder' /\ HeadsAreFirst'
<1>t. /\ mat[p].batch \in SUBSET DOMAIN stream /\ DOMAIN stream = 1 .. Len(stream)
      /\ Len(stream) \in Nat
      /\ inbox \in [Updates -> Rows \cup {Nil}] /\ heads \in [Lanes -> Updates \cup {Nil}]
      /\ StreamTypeOK /\ \A i \in DOMAIN stream : stream[i] \in Updates
  BY DEF IngressInv, MatTypeOK, Mats, StreamTypeOK, InboxInv, InboxTypeOK
<1>1. PICK entries \in SUBSET DOMAIN stream : entries = mat[p].batch
  BY <1>t
<1>2. PICK batch : batch = Rowed(entries)
  OBVIOUS
<1>3. /\ DOMAIN batch = Good(entries) /\ Good(entries) \subseteq Updates
      /\ \A u \in Good(entries) : batch[u] \in entries /\ stream[batch[u]] = u
      /\ \A u \in Good(entries) : \A i \in entries : stream[i] = u => batch[u] <= i
  BY <1>t, <1>2, RowedFirst
<1>4. /\ Materialize(batch) /\ UNCHANGED <<stream, deleted>>
      /\ quarantine' = Quarantined(entries) /\ mat[p].at = "commit"
  BY <1>1, <1>2 DEF Commit, streamVars
<1>5. \A n \in entries : \A i \in 1 .. n : i \in entries \/ Safe(i)
  <2>1. InLine(mat[p], deleted, delivered)
    BY DEF MatsInLine
  <2>2. ASSUME NEW n \in entries, NEW i \in 1 .. n
        PROVE  i \in entries \/ Safe(i)
    <3>1. i \in entries \/ i \in mat[p].pending \/ i \in deleted
      BY <1>1, <2>1, <2>2 DEF InLine, Holds
    <3>2. i \notin mat[p].pending
      <4>1. n \in Nat /\ i \in Nat /\ i <= n
        BY <1>t, <2>2
      <4> QED
        BY <1>1, <2>1, <4>1 DEF InLine
    <3>3. i \in deleted => Safe(i)
      BY DEF IngressInv, NothingIsLost, Safe
    <3> QED
      BY <3>1, <3>2, <3>3
  <2> QED
    BY <2>2
<1>6. RowsStay
  BY CommitKeeps
<1>7. SafeStays
  BY <1>4, <1>6, StaysSafe DEF Quarantined
<1>8. PICK new : /\ new = Inserted(batch) /\ new \subseteq Good(entries)
                 /\ \A u \in Updates : u \in new <=> u \in Good(entries) /\ ~ Present(u)
  <2>1. Inserted(batch) = {u \in Good(entries) : ~ Present(u)}
    BY <1>3 DEF Inserted
  <2> QED
    BY <2>1
<1>9. /\ \A u \in new : inbox'[u] = NewRow(batch[u]) /\ inbox'[u].pos = batch[u] /\ Present(u)'
      /\ \A u \in Updates \ new : inbox'[u] = inbox[u]
  <2>1. inbox' = [u \in Updates |-> IF u \in new THEN NewRow(batch[u]) ELSE inbox[u]]
    BY <1>4, <1>8 DEF Materialize, Upserted
  <2>2. ASSUME NEW u \in new
        PROVE  inbox'[u] = NewRow(batch[u]) /\ inbox'[u].pos = batch[u] /\ Present(u)'
    <3>1. inbox'[u] = NewRow(batch[u]) /\ batch[u] \in Nat
      BY <1>t, <1>3, <1>8, <2>1
    <3>2. NewRow(batch[u]).pos = batch[u] /\ NewRow(batch[u]) \in Rows
      BY <3>1 DEF NewRow, Rows, Open
    <3> QED
      BY <3>1, <3>2, NilIsNoRow DEF Present
  <2> QED
    BY <1>3, <1>8, <2>1, <2>2
<1>10. \A i \in entries : Safe(i)'
  <2> TAKE i \in entries
  <2>1. PICK u \in Updates : u = stream[i] /\ u = stream'[i]
    BY <1>t, <1>4
  <2>2. CASE u \in Bad
    BY <1>4, <2>1, <2>2 DEF Quarantined, Safe
  <2>3. CASE u \notin Bad
    <3>1. u \in Good(entries)
      BY <2>1, <2>3 DEF Good
    <3>2. Present(u)'
      BY <1>8, <1>9, <3>1 DEF Present
    <3> QED
      BY <2>1, <3>2 DEF Safe, Present
  <2> QED
    BY <2>2, <2>3
<1>11. ASSUME NEW u \in new
       PROVE  RowInOrder(u)'
  <2>1. PICK n \in entries : n = batch[u] /\ n = inbox'[u].pos /\ stream[n] = u
    BY <1>3, <1>8, <1>9
  <2>2. u \notin Bad /\ u \in Updates /\ ~ Present(u)
    BY <1>3, <1>8 DEF Good
  <2>3. ASSUME NEW i \in DOMAIN stream, stream[i] = u
        PROVE  n <= i
    <3>1. CASE i \in entries
      BY <1>3, <1>8, <2>1, <2>3, <3>1
    <3>2. CASE i \notin entries
      <4>1. ~ Safe(i)
        BY <2>2, <2>3 DEF Safe, QuarantineIsBad
      <4>2. i \notin 1 .. n
        BY <1>5, <3>2, <4>1
      <4> QED
        BY <1>t, <4>2
    <3> QED
      BY <3>1, <3>2
  <2>4. \A i \in 1 .. n : Safe(i)'
    <3> TAKE i \in 1 .. n
    <3>1. i \in entries \/ (i \in DOMAIN stream /\ Safe(i))
      BY <1>t, <1>5, <2>1
    <3> QED
      BY <1>7, <1>10, <3>1 DEF SafeStays
  <2>5. n \in DOMAIN stream' /\ stream' = stream
    BY <1>4
  <2> QED
    BY <2>1, <2>2, <2>3, <2>4, <2>5 DEF RowInOrder, Safe, Present
<1>12. StreamGrows
  BY <1>4 DEF StreamGrows
<1>13. RowsInOrder'
  <2>1. ASSUME NEW u \in Updates \ new, Present(u)'
        PROVE  RowInOrder(u)'
    <3>1. inbox'[u] = inbox[u] /\ Present(u)
      BY <1>9, <2>1 DEF Present
    <3> QED
      BY <1>7, <1>12, <3>1, PlaceInOrder DEF RowsInOrder
  <2> QED
    BY <1>11, <2>1 DEF RowsInOrder, Present
<1>14. HeadsAreFirst'
  <2>1. ASSUME NEW u \in Updates, IsOpen(u)'
        PROVE  \E h \in Updates : h = heads'[LaneOf[u]] /\ inbox'[h].pos <= inbox'[u].pos
    <3>1. PICK l \in Lanes : l = LaneOf[u]
      BY InboxAssumption
    <3>2. PICK table, us : table = inbox' /\ us = {v \in new : LaneOf[v] = l}
      OBVIOUS
    <3>3. heads'[l] = IF heads[l] # Nil \/ us = {} THEN heads[l] ELSE Earliest(table, us)
      BY <1>4, <1>8, <3>2 DEF Materialize, HeadAfterInsert
    <3>4. CASE heads[l] # Nil
      <4>1. PICK h \in Updates : h = heads[l] /\ IsOpen(h) /\ Present(h)
        BY <1>t, <3>4 DEF IngressInv, InboxInv, HeadsAreOpen, IsOpen
      <4>2. heads'[l] = h /\ inbox'[h] = inbox[h]
        BY <1>8, <1>9, <3>3, <3>4, <4>1
      <4>3. CASE u \in new
        <5>1. PICK n \in entries : n = inbox'[u].pos /\ stream[n] = u /\ u \notin Bad /\ ~ Present(u)
          BY <1>3, <1>8, <1>9, <4>3 DEF Good
        <5>2. ~ Safe(n)
          BY <5>1 DEF Safe, QuarantineIsBad
        <5>3. \A i \in 1 .. inbox[h].pos : Safe(i)
          BY <4>1 DEF RowsInOrder, RowInOrder
        <5>4. inbox[h].pos \in Nat /\ n \in Nat /\ n >= 1
          BY <1>t, <4>1, RowTyped DEF IngressInv, InboxInv
        <5>5. inbox[h].pos <= n
          BY <5>2, <5>3, <5>4
        <5> QED
          BY <3>1, <4>1, <4>2, <5>1, <5>5
      <4>4. CASE u \notin new
        <5>1. inbox'[u] = inbox[u] /\ IsOpen(u)
          BY <1>9, <2>1, <4>4 DEF IsOpen, Present, Open
        <5>2. inbox[h].pos <= inbox[u].pos
          BY <3>1, <4>1, <5>1 DEF HeadsAreFirst
        <5> QED
          BY <3>1, <4>1, <4>2, <5>1, <5>2
      <4> QED
        BY <4>3, <4>4
    <3>5. CASE heads[l] = Nil
      <4>1. u \in new
        <5> SUFFICES ASSUME u \notin new
                     PROVE  FALSE
          OBVIOUS
        <5>1. IsOpen(u)
          BY <1>9, <2>1 DEF IsOpen, Present, Open
        <5> QED
          BY <3>1, <3>5, <5>1 DEF IngressInv, InboxInv, HeadsAreOpen
      <4>2. us # {} /\ u \in us /\ us \subseteq new
        BY <3>1, <3>2, <4>1
      <4>3. \A v \in us : table[v].pos \in Nat
        BY <1>t, <1>3, <1>8, <1>9, <3>2, <4>2
      <4>4. Earliest(table, us) \in us /\ table[Earliest(table, us)].pos <= table[u].pos
        BY <4>2, <4>3, EarliestLeads
      <4>5. us \subseteq Updates
        BY <1>3, <1>8, <4>2
      <4> QED
        BY <3>1, <3>2, <3>3, <3>5, <4>2, <4>4, <4>5
    <3> QED
      BY <3>4, <3>5
  <2> QED
    BY <2>1 DEF HeadsAreFirst, IsOpen, Present
<1> QED
  BY <1>13, <1>14

(* Steps that neither write nor end a row.                                   *)
LEMMA RestInOrder ==
  ASSUME IngressInv, OrderInv, ~ overtaken, NobodyEnds, RowsStay,
         StreamGrows, quarantine' = quarantine
  PROVE  QuarantineIsBad' /\ RowsInOrder' /\ HeadsAreFirst'
<1>1. SafeStays
  <2>1. ASSUME NEW i \in DOMAIN stream, Safe(i)
        PROVE  i \in quarantine' \/ inbox'[stream'[i]] # Nil
    <3>1. PICK u \in Updates : u = stream[i] /\ u = stream'[i]
      BY DEF StreamGrows, IngressInv, StreamTypeOK
    <3> QED
      BY <2>1, <3>1 DEF Safe, RowsStay, Present
  <2> QED
    BY <2>1 DEF SafeStays, Safe, Present
<1>2. QuarantineIsBad'
  BY DEF OrderInv, QuarantineIsBad, StreamGrows, IngressInv, MatTypeOK
<1>3. RowsInOrder'
  BY <1>1, PlacesInOrder DEF OrderInv, NobodyEnds
<1>4. HeadsAreFirst'
  BY FirstStaysFirst DEF OrderInv, IngressInv
<1> QED
  BY <1>2, <1>3, <1>4

(* The stream, as it is.                                                     *)
LEMMA SameStreamGrows ==
  ASSUME IngressInv, stream' = stream
  PROVE  StreamGrows
<1> QED
  BY DEF StreamGrows

(* Steps that do not change a row.                                           *)
LEMMA SameRowsStay ==
  ASSUME inbox' = inbox
  PROVE  RowsStay
<1> QED
  BY DEF RowsStay, Ended, Present

(* What the step is about once a lease ran out under its owner.              *)
LEMMA QuarantineStaysBad ==
  ASSUME IngressInv, OrderInv, [Next]_vars
  PROVE  QuarantineIsBad' /\ PelIsDelivered'
<1>t. /\ quarantine \subseteq DOMAIN stream /\ \A i \in quarantine : stream[i] \in Bad
      /\ pel \subseteq 1 .. delivered /\ delivered \in Nat
  BY DEF IngressInv, MatTypeOK, StreamTypeOK, OrderInv, QuarantineIsBad, PelIsDelivered
<1>1. CASE UNCHANGED <<stream, quarantine>> /\ UNCHANGED <<delivered, pel>>
  BY <1>t, <1>1 DEF QuarantineIsBad, PelIsDelivered
<1>2. CASE /\ UNCHANGED <<stream, quarantine>>
           /\ \E n \in delivered + 1 .. Len(stream) : Deliver(n)
  <2>1. PICK n \in delivered + 1 .. Len(stream) : Deliver(n)
    BY <1>2
  <2>2. delivered' = n /\ pel' = pel \cup (delivered + 1 .. n)
    BY <2>1 DEF Deliver
  <2>3. n \in Nat /\ n >= delivered + 1
    BY <1>t, <2>1
  <2>4. ASSUME NEW i \in pel'
        PROVE  i \in 1 .. n
    BY <1>t, <2>2, <2>3, <2>4
  <2> QED
    BY <1>t, <1>2, <2>2, <2>4 DEF QuarantineIsBad, PelIsDelivered
<1>3. ASSUME NEW u \in Updates, Receive(u)
      PROVE  QuarantineIsBad' /\ PelIsDelivered'
  <2>1. \A i \in DOMAIN stream : stream'[i] = stream[i]
    BY <1>3 DEF Receive, IngressInv, StreamTypeOK
  <2> QED
    BY <1>t, <1>3, <2>1 DEF Receive, matVars, QuarantineIsBad, PelIsDelivered
<1>4. ASSUME NEW p \in Processes, Commit(p)
      PROVE  QuarantineIsBad' /\ PelIsDelivered'
  BY <1>t, <1>4 DEF Commit, Quarantined, streamVars, QuarantineIsBad, PelIsDelivered
<1>5. ASSUME NEW p \in Processes, Ack(p)
      PROVE  QuarantineIsBad' /\ PelIsDelivered'
  BY <1>t, <1>5 DEF Ack, QuarantineIsBad, PelIsDelivered
<1>6. ASSUME NEW p \in Processes, Read(p)
      PROVE  QuarantineIsBad' /\ PelIsDelivered'
  BY <1>2, <1>6 DEF Read, Deliver
<1>7. ASSUME NEW p \in Processes, ReadFails(p)
      PROVE  QuarantineIsBad' /\ PelIsDelivered'
  BY <1>2, <1>7 DEF ReadFails, Deliver
<1>8. ASSUME NEW p \in Processes,
             Adopt(p) \/ AdoptNothing(p) \/ Stats(p) \/ Filled(p) \/ ReadNothing(p)
      PROVE  QuarantineIsBad' /\ PelIsDelivered'
  BY <1>1, <1>8 DEF Adopt, AdoptNothing, Stats, Filled, ReadNothing, streamVars
<1>9. ASSUME NEW p \in Processes, Acquire(p) \/ HeartbeatFails(p) \/ Stop(p) \/ Crash(p)
      PROVE  QuarantineIsBad' /\ PelIsDelivered'
  BY <1>1, <1>9 DEF Acquire, HeartbeatFails, Stop, Crash, streamVars
<1>10. CASE \/ LeaseExpires \/ UNCHANGED vars
            \/ InboxStep /\ UNCHANGED <<streamVars, matVars>>
  BY <1>1, <1>10 DEF LeaseExpires, vars, streamVars, matVars
<1> QED
  BY <1>3, <1>4, <1>5, <1>6, <1>7, <1>8, <1>9, <1>10 DEF Next, Materializer

LEMMA OrderStep ==
  ASSUME IngressInv, IngressInv', OrderInv, [Next]_vars
  PROVE  OrderInv'
<1>0. QuarantineIsBad' /\ PelIsDelivered'
  BY QuarantineStaysBad
<1> SUFFICES ASSUME ~ overtaken'
             PROVE  MatsInLine' /\ RowsInOrder' /\ HeadsAreFirst'
  BY <1>0 DEF OrderInv
<1>1. ~ overtaken
  BY DEF Next, Receive, Materializer, Adopt, AdoptNothing, Stats, Read, Filled, ReadFails,
         ReadNothing, Commit, Ack, Acquire, HeartbeatFails, Stop, Crash, LeaseExpires,
         matVars, vars
<1>2. MatsInLine /\ RowsInOrder /\ HeadsAreFirst /\ QuarantineIsBad /\ PelIsDelivered
  BY <1>1 DEF OrderInv
<1>3. ASSUME NEW u \in Updates, Receive(u)
      PROVE  MatsInLine' /\ RowsInOrder' /\ HeadsAreFirst'
  <2>1. /\ UNCHANGED <<deleted, delivered, lease, mat, quarantine, inbox, heads>>
        /\ stream' = Append(stream, u)
    BY <1>3 DEF Receive, matVars, inboxVars
  <2>2. StreamGrows
    BY <2>1 DEF StreamGrows, IngressInv, StreamTypeOK
  <2> QED
    BY <1>1, <1>2, <2>1, <2>2, RestInOrder, NoRowMoves, SameRowsStay DEF MatsInLine
<1>4. CASE InboxStep /\ UNCHANGED <<streamVars, matVars>>
  <2>1. UNCHANGED <<stream, deleted, delivered, lease, mat, quarantine>>
    BY <1>4 DEF streamVars, matVars
  <2>2. MatsInLine'
    BY <1>2, <2>1 DEF MatsInLine
  <2>3. RowsStay /\ StreamGrows
    BY <1>4, <2>1, InboxStepKeeps, SameStreamGrows DEF IngressInv
  <2>4. CASE NobodyEnds
    BY <1>1, <2>1, <2>2, <2>3, <2>4, RestInOrder
  <2>5. ASSUME NEW u \in Updates, HeadEnds(u)
        PROVE  RowsInOrder' /\ HeadsAreFirst'
    <3>1. SafeStays
      BY <2>1, <2>3, StaysSafe
    <3> QED
      BY <1>2, <2>3, <2>5, <3>1, PlacesInOrder, NextStaysFirst DEF HeadEnds, IngressInv
  <2> QED
    BY <1>4, <2>2, <2>4, <2>5, HowRowsMove DEF IngressInv
<1>5. CASE LeaseExpires
  <2>1. /\ MatsInLine'
        /\ UNCHANGED <<stream, deleted, delivered, pel, quarantine, inbox, heads>>
    BY <1>2, <1>5, LeaseExpiryInLine
  <2> QED
    BY <1>1, <2>1, RestInOrder, NoRowMoves, SameRowsStay, SameStreamGrows
<1>6. ASSUME NEW p \in Processes, Commit(p)
      PROVE  MatsInLine' /\ RowsInOrder' /\ HeadsAreFirst'
  BY <1>2, <1>6, WriteStepInLine, CommitInOrder
<1>7. ASSUME NEW p \in Processes, Ack(p)
      PROVE  MatsInLine' /\ RowsInOrder' /\ HeadsAreFirst'
  <2>1. UNCHANGED <<stream, quarantine, inbox, heads>>
    BY <1>7 DEF Ack, inboxVars
  <2> QED
    BY <1>1, <1>2, <1>7, <2>1, WriteStepInLine, RestInOrder, NoRowMoves, SameRowsStay,
       SameStreamGrows
<1>8. ASSUME NEW p \in Processes,
             \/ Adopt(p) \/ AdoptNothing(p) \/ Stats(p)
             \/ Read(p) \/ Filled(p) \/ ReadFails(p) \/ ReadNothing(p)
      PROVE  MatsInLine' /\ RowsInOrder' /\ HeadsAreFirst'
  <2>1. MatsInLine' /\ UNCHANGED <<stream, quarantine>>
    BY <1>2, <1>8, ReadStepInLine
  <2>2. UNCHANGED <<inbox, heads>>
    BY <1>8 DEF Adopt, AdoptNothing, Stats, Read, Filled, ReadFails, ReadNothing, inboxVars
  <2> QED
    BY <1>1, <2>1, <2>2, RestInOrder, NoRowMoves, SameRowsStay, SameStreamGrows
<1>9. ASSUME NEW p \in Processes, Acquire(p) \/ HeartbeatFails(p) \/ Stop(p) \/ Crash(p)
      PROVE  MatsInLine' /\ RowsInOrder' /\ HeadsAreFirst'
  <2>1. MatsInLine' /\ UNCHANGED <<stream, quarantine>>
    BY <1>2, <1>9, LeaseStepInLine
  <2>2. UNCHANGED <<inbox, heads>>
    BY <1>9 DEF Acquire, HeartbeatFails, Stop, Crash, inboxVars
  <2> QED
    BY <1>1, <2>1, <2>2, RestInOrder, NoRowMoves, SameRowsStay, SameStreamGrows
<1>10. CASE UNCHANGED vars
  <2>1. UNCHANGED <<stream, quarantine, inbox, heads, mat, lease, deleted, delivered>>
    BY <1>10 DEF vars, inboxVars, streamVars, matVars
  <2>2. MatsInLine'
    BY <1>2, <2>1 DEF MatsInLine
  <2> QED
    BY <1>1, <2>1, <2>2, RestInOrder, NoRowMoves, SameRowsStay, SameStreamGrows
<1> QED
  BY <1>3, <1>4, <1>5, <1>6, <1>7, <1>8, <1>9, <1>10 DEF Next, Materializer

LEMMA OrderInit ==
  ASSUME IngressInit
  PROVE  OrderInv
<1>1. DOMAIN stream = {} /\ pel = {} /\ quarantine = {} /\ \A u \in Updates : ~ Present(u)
  BY DEF IngressInit, InboxInit, Present
<1>2. \A p \in Processes : mat[p] = StandBy /\ mat[p].at = "standby"
  BY StandByTyped DEF IngressInit
<1>3. MatsInLine
  BY <1>2, StandByInLine DEF MatsInLine
<1> QED
  BY <1>1, <1>3 DEF OrderInv, PelIsDelivered, QuarantineIsBad, RowsInOrder, HeadsAreFirst, IsOpen

(* An update can end only as the head of its lane, in a step of a worker.    *)
LEMMA OnlyHeadsEnd ==
  ASSUME IngressInv, [Next]_vars, NEW u \in Updates, ~ Ended(u), Ended(u)'
  PROVE  /\ InboxStep /\ UNCHANGED <<streamVars, matVars>>
         /\ heads[LaneOf[u]] = u /\ IsOpen(u)
<1>1. ASSUME inbox' = inbox
      PROVE  FALSE
  BY <1>1 DEF Ended, Present
<1>2. ASSUME NEW p \in Processes, Commit(p)
      PROVE  FALSE
  <2>1. inbox'[u] = inbox[u] \/ \E n : inbox'[u] = NewRow(n)
    BY <1>2 DEF Commit, Materialize, Upserted
  <2>2. inbox'[u] # Nil /\ inbox'[u].status \in Terminal
    BY DEF Ended, Present
  <2>3. CASE inbox'[u] = inbox[u]
    BY <2>2, <2>3 DEF Ended, Present
  <2>4. CASE \E n : inbox'[u] = NewRow(n)
    <3>1. PICK n : inbox'[u] = NewRow(n)
      BY <2>4
    <3>2. inbox'[u].status = "pending"
      BY <3>1 DEF NewRow
    <3> QED
      BY <2>2, <3>2 DEF Terminal
  <2> QED
    BY <2>1, <2>3, <2>4
<1>3. CASE InboxStep /\ UNCHANGED <<streamVars, matVars>>
  <2>1. Present(u)' /\ ~ IsOpen(u)'
    BY DEF Ended, IsOpen, Open, Terminal
  <2>2. ~ NobodyEnds
    <3> SUFFICES ASSUME NobodyEnds
                 PROVE  FALSE
      OBVIOUS
    <3>1. Present(u) /\ ~ IsOpen(u)
      BY <2>1 DEF NobodyEnds, PlaceStays
    <3> QED
      BY <3>1, RowTyped DEF Ended, IsOpen, IngressInv, InboxInv
  <2>3. PICK v \in Updates : HeadEnds(v)
    BY <1>3, <2>2, HowRowsMove DEF IngressInv
  <2>4. v = u
    <3> SUFFICES ASSUME v # u
                 PROVE  FALSE
      OBVIOUS
    <3>1. Present(u) /\ ~ IsOpen(u)
      BY <2>1, <2>3 DEF HeadEnds, PlaceStays
    <3> QED
      BY <3>1, RowTyped DEF Ended, IsOpen, IngressInv, InboxInv
  <2> QED
    BY <1>3, <2>3, <2>4 DEF HeadEnds
<1>4. \/ inbox' = inbox
      \/ \E p \in Processes : Commit(p)
      \/ InboxStep /\ UNCHANGED <<streamVars, matVars>>
  BY DEF Next, Receive, Materializer, Adopt, AdoptNothing, Stats, Read, Filled, ReadFails,
         ReadNothing, Ack, Acquire, HeartbeatFails, Stop, Crash, LeaseExpires,
         inboxVars, vars
<1> QED
  BY <1>1, <1>2, <1>3, <1>4

LEMMA FirstPlaceOf ==
  ASSUME IngressInv, NEW u, Received(u)
  PROVE  /\ FirstPlace(u) \in DOMAIN stream /\ stream[FirstPlace(u)] = u
         /\ \A j \in DOMAIN stream : stream[j] = u => FirstPlace(u) <= j
<1>1. PICK places : places = {i \in DOMAIN stream : stream[i] = u}
  OBVIOUS
<1>2. places \in SUBSET Nat /\ places # {}
  BY <1>1 DEF Received, IngressInv, StreamTypeOK
<1>3. PICK x \in places : \A y \in places : x <= y
  BY <1>2, LeastNat
<1>4. \E i \in DOMAIN stream : stream[i] = u /\ \A j \in DOMAIN stream : stream[j] = u => i <= j
  BY <1>1, <1>3
<1> QED
  BY <1>4 DEF FirstPlace

LEMMA EndsInOrder ==
  ASSUME IngressInv, OrderInv, [Next]_vars, ~ overtaken',
         NEW u \in Updates, NEW v \in Updates, ~ Ended(u), Ended(u)',
         v \notin Bad, LaneOf[v] = LaneOf[u], Received(v), FirstPlace(v) < FirstPlace(u)
  PROVE  Ended(v)
<1>1. heads[LaneOf[u]] = u /\ IsOpen(u) /\ ~ overtaken
  BY OnlyHeadsEnd DEF matVars
<1>2. RowsInOrder /\ HeadsAreFirst /\ QuarantineIsBad
  BY <1>1 DEF OrderInv
<1>3. /\ Present(u) /\ RowInOrder(u) /\ Received(u)
      /\ inbox[u].pos \in DOMAIN stream /\ DOMAIN stream \subseteq Nat
      /\ \A i \in DOMAIN stream : i >= 1
  BY <1>1, <1>2 DEF IsOpen, RowsInOrder, RowInOrder, Received, IngressInv, StreamTypeOK
<1>4. PICK m \in DOMAIN stream : m = FirstPlace(u) /\ stream[m] = u
  BY <1>3, FirstPlaceOf
<1>5. PICK n \in DOMAIN stream : /\ n = FirstPlace(v) /\ stream[n] = v
                                /\ \A j \in DOMAIN stream : stream[j] = v => n <= j
  BY FirstPlaceOf
<1>6. m <= inbox[u].pos
  BY <1>3, <1>4, FirstPlaceOf DEF RowInOrder
<1>7. n < inbox[u].pos
  BY <1>3, <1>4, <1>5, <1>6
<1>8. Safe(n)
  BY <1>3, <1>5, <1>7 DEF RowInOrder
<1>9. Present(v)
  BY <1>2, <1>5, <1>8 DEF Safe, QuarantineIsBad
<1>10. ~ IsOpen(v)
  <2> SUFFICES ASSUME IsOpen(v)
               PROVE  FALSE
    OBVIOUS
  <2>1. inbox[u].pos <= inbox[v].pos
    BY <1>1, <1>2 DEF HeadsAreFirst
  <2>2. inbox[v].pos <= n /\ inbox[v].pos \in Nat
    BY <1>2, <1>5, <1>9, RowTyped DEF RowsInOrder, RowInOrder, IngressInv, InboxInv
  <2> QED
    BY <1>3, <1>5, <1>7, <2>1, <2>2
<1> QED
  BY <1>9, <1>10, RowTyped DEF Ended, IsOpen, IngressInv, InboxInv

LEMMA OrderInvHolds == IngressSpec => []OrderInv
<1>1. IngressInit => OrderInv
  BY OrderInit
<1>2. IngressInv /\ IngressInv' /\ OrderInv /\ [Next]_vars => OrderInv'
  BY OrderStep
<1> QED
  BY <1>1, <1>2, Invariance, PTL DEF IngressSpec

(* In a lane updates end in the order in which they arrived, those that are  *)
(* still in the stream included, whatever dies, is adopted or is written     *)
(* twice between them, unless a lease ran out under its owner (XAUTOCLAIM at *)
(* startup, the pending list before new entries, the heads of the lanes).    *)
THEOREM LanesKeepOrder == IngressSpec => LaneOrder
<1>1. IngressInv /\ OrderInv /\ [Next]_vars =>
        [~ overtaken' => \A u, v \in Updates :
           (/\ ~ Ended(u) /\ Ended(u)'
            /\ v \notin Bad /\ LaneOf[v] = LaneOf[u] /\ Received(v)
            /\ FirstPlace(v) < FirstPlace(u)) => Ended(v)]_vars
  BY EndsInOrder
<1> QED
  BY <1>1, Invariance, OrderInvHolds, PTL DEF IngressSpec, LaneOrder

=============================================================================
