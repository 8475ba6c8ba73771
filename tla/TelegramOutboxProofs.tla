------------------------ MODULE TelegramOutboxProofs ------------------------
(* Theorems about the durable outbox, for every finite set of operations,    *)
(* all batches, keys and policies, any number of workers, faults and orders. *)
EXTENDS TelegramOutbox, FiniteSetTheorems, TLAPS

-----------------------------------------------------------------------------
(* The parts of a batch are in order.                                        *)

LEMMA PartsAreOrdered ==
  /\ \A o, p \in Ops : p \in Later(o) => p # o /\ o \notin Later(p) /\ BatchOf[p] = BatchOf[o]
  /\ \A o, p, q \in Ops : p \in Later(o) /\ q \in Later(p) => q \in Later(o)
  /\ \A o, p \in Ops : BatchOf[p] = BatchOf[o] => p \in Later(o) \/ p = o \/ o \in Later(p)
<1>1. \A o \in Ops : PartOf[o] \in Nat
  BY OutboxAssumption
<1> QED
  BY <1>1, OutboxAssumption DEF Later

(* A reaction is a batch of its own.                                         *)
LEMMA ReactionsAreAlone ==
  ASSUME NEW r \in Reactions, NEW o \in Ops, BatchOf[o] = BatchOf[r]
  PROVE  r \in Ops /\ o = r /\ r \notin Once
<1>1. r \in Ops /\ PolicyOf[r] = "target_idempotent"
  BY OutboxAssumption
<1> QED
  BY <1>1, OutboxAssumption DEF Once, Idempotent

-----------------------------------------------------------------------------
(* The order of a batch, as a state of the table.                            *)

Had == {"leased", "delivered", "ambiguous", "dead_letter"}
Doubted == {"ambiguous", "dead_letter"}

Restorable(o) == op[o].state = "cancelled" /\ op[o].class = "restorable"

(* A batch becomes visible as a whole.                                       *)
BatchesAreWhole ==
  \A o, p \in Ops : BatchOf[p] = BatchOf[o] /\ op[o].state = "absent" => op[p].state = "absent"

(* What was leased came after what was delivered.                            *)
EarlierDelivered ==
  \A o, p \in Ops : op[p].state \in Had /\ p \in Later(o) => op[o].state = "delivered"

(* What a manual retry would give back is behind nothing that is open, and   *)
(* comes back with everything between it and the retried part.               *)
RestorableTogether ==
  /\ \A o, p \in Ops :
       Restorable(p) /\ p \in Later(o) => op[o].state \notin Unsent \cup {"leased", "absent"}
  /\ \A o, p, q \in Ops :
       /\ p \in Later(o) /\ q \in Later(p)
       /\ op[o].state \in Doubted /\ Restorable(q)
       => Restorable(p)

OrderInv == BatchesAreWhole /\ EarlierDelivered /\ NoPartIsStranded /\ RestorableTogether

SameState(o) == op'[o].state = op[o].state /\ (Restorable(o)' <=> Restorable(o))

LEMMA OrderUnmoved ==
  ASSUME OrderInv, \A o \in Ops : SameState(o)
  PROVE  OrderInv'
<1> QED
  BY DEF OrderInv, SameState, BatchesAreWhole, EarlierDelivered, NoPartIsStranded, RestorableTogether

(* A whole batch becomes visible.                                            *)
LEMMA OrderCommitted ==
  ASSUME OrderInv, NEW batch \in SUBSET Ops,
         \A o \in batch, p \in Ops : BatchOf[p] = BatchOf[o] => p \in batch,
         \A o \in batch : op[o].state = "absent" /\ op'[o].state = "pending",
         \A o \in Ops \ batch : SameState(o)
  PROVE  OrderInv'
<1>1. \A o, p \in Ops : p \in Later(o) => BatchOf[p] = BatchOf[o]
  BY PartsAreOrdered
<1>2. \A o \in batch : ~ Restorable(o)'
  BY DEF Restorable
<1>3. BatchesAreWhole'
  BY DEF OrderInv, BatchesAreWhole, SameState
<1>4. EarlierDelivered'
  BY <1>1 DEF OrderInv, EarlierDelivered, SameState, Had
<1>5. NoPartIsStranded'
  BY <1>1 DEF OrderInv, NoPartIsStranded, SameState, Unsent
<1>6. RestorableTogether'
  BY <1>1, <1>2 DEF OrderInv, RestorableTogether, SameState, Unsent, Doubted
<1> QED
  BY <1>3, <1>4, <1>5, <1>6 DEF OrderInv

(* Parts whose predecessors were delivered are leased.                       *)
LEMMA OrderClaimed ==
  ASSUME OrderInv, NEW claimed \in SUBSET Ops,
         \A o \in claimed : op[o].state \in Unsent /\ op'[o].state = "leased",
         \A o \in claimed, p \in Ops : o \in Later(p) => op[p].state = "delivered",
         \A o \in Ops \ claimed : SameState(o)
  PROVE  OrderInv'
<1>1. \A o \in claimed : ~ Restorable(o)' /\ op[o].state # "delivered"
  BY DEF Restorable, Unsent
<1>2. BatchesAreWhole'
  BY DEF OrderInv, BatchesAreWhole, SameState, Unsent
<1>3. EarlierDelivered'
  BY <1>1 DEF OrderInv, EarlierDelivered, SameState, Had
<1>4. NoPartIsStranded'
  BY <1>1 DEF OrderInv, NoPartIsStranded, SameState, Unsent
<1>5. RestorableTogether'
  BY <1>1 DEF OrderInv, RestorableTogether, SameState, Unsent, Doubted
<1> QED
  BY <1>2, <1>3, <1>4, <1>5 DEF OrderInv

LEMMA OrderDelivered ==
  ASSUME OrderInv, NEW o \in Ops,
         op[o].state = "leased", op'[o].state = "delivered",
         \A p \in Ops \ {o} : SameState(p)
  PROVE  OrderInv'
<1>1. ~ Restorable(o)' /\ ~ Restorable(o)
  BY DEF Restorable
<1>2. BatchesAreWhole'
  BY DEF OrderInv, BatchesAreWhole, SameState
<1>3. EarlierDelivered'
  BY DEF OrderInv, EarlierDelivered, SameState, Had
<1>4. NoPartIsStranded'
  BY DEF OrderInv, NoPartIsStranded, SameState, Unsent
<1>5. RestorableTogether'
  BY <1>1 DEF OrderInv, RestorableTogether, SameState, Unsent, Doubted
<1> QED
  BY <1>2, <1>3, <1>4, <1>5 DEF OrderInv

(* Operations end, and the unsent parts after them with them; what is leased *)
(* otherwise may have to wait again.                                         *)
Ends(o) ==
  \/ op[o].state = "leased" /\ op'[o].state \in Doubted
  \/ op[o].state \in Unsent \cup {"leased"} /\ op'[o].state = "expired"
  \/ /\ op[o].state \in Unsent \cup {"leased"} \cup Doubted
     /\ op'[o].state = "cancelled" /\ op'[o].class = "none"

Behind(o, heads) == op[o].state \in Unsent /\ \E h \in heads : o \in Later(h)

EndsWith(o, heads, class) ==
  /\ Behind(o, heads) => op'[o].state = "cancelled" /\ op'[o].class = class
  /\ ~ Behind(o, heads) => \/ SameState(o)
                           \/ op[o].state = "leased" /\ op'[o].state = "retry_wait"

Ending(heads, class) ==
  /\ heads \subseteq Ops
  /\ \A h \in heads : Ends(h)
  /\ \A o \in Ops \ heads : EndsWith(o, heads, class)
  /\ class = "none" \/ (class = "restorable" /\ \A h \in heads : op[h].state = "leased")

LEMMA OrderEnded ==
  ASSUME OrderInv, NEW heads, NEW class, Ending(heads, class)
  PROVE  OrderInv'
<1>1. /\ \A o \in heads : Ends(o)
      /\ \A o \in Ops \ heads : EndsWith(o, heads, class)
  BY DEF Ending
(* What a row can have become.                                               *)
<1>2. \A o \in Ops :
        \/ SameState(o)
        \/ op[o].state = "leased" /\ op'[o].state = "retry_wait"
        \/ op[o].state \in Unsent \cup {"leased"} \cup Doubted
             /\ op'[o].state \in Doubted \cup {"expired", "cancelled"}
  BY <1>1 DEF Ends, EndsWith, Behind
<1>3. \A o \in Ops : op'[o].state \in Doubted => op[o].state \in Doubted \cup {"leased"}
  BY <1>1 DEF Ends, EndsWith, SameState, Doubted
<1>4. \A o \in Ops : op'[o].state \in Unsent => op[o].state \in Unsent \cup {"leased"}
  BY <1>1 DEF Ends, EndsWith, SameState, Doubted, Unsent
<1>5. \A o \in Ops : op[o].state = "delivered" => op'[o].state = "delivered"
  BY <1>1 DEF Ends, EndsWith, Behind, SameState, Doubted, Unsent
<1>6. \A o \in Ops : /\ Restorable(o)' /\ ~ Restorable(o)
                     => Behind(o, heads) /\ class = "restorable"
  BY <1>1 DEF Ends, EndsWith, Restorable, SameState, Doubted
<1>7. \A o \in Ops : Restorable(o) => Restorable(o)'
  BY <1>1 DEF Ends, EndsWith, Behind, Restorable, SameState, Doubted, Unsent
<1>8. BatchesAreWhole'
  <2>1. \A o \in Ops : op[o].state = "absent" <=> op'[o].state = "absent"
    BY <1>2 DEF SameState, Unsent, Doubted
  <2> QED
    BY <2>1 DEF OrderInv, BatchesAreWhole
<1>9. EarlierDelivered'
  <2>1. \A o \in Ops : op'[o].state \in Had => op[o].state \in Had
    BY <1>2, <1>3 DEF Had, Doubted, SameState
  <2> QED
    BY <2>1, <1>5 DEF OrderInv, EarlierDelivered
(* Whoever ended or was leased takes the later parts with it.                *)
<1>10. NoPartIsStranded'
  <2> SUFFICES ASSUME NEW o \in Ops, NEW p \in Ops, op'[p].state \in Unsent, p \in Later(o)
               PROVE  op'[o].state \in Unsent \cup {"leased", "delivered"}
    BY DEF NoPartIsStranded
  <2>1. CASE op[p].state = "leased"
    BY <2>1, <1>5 DEF OrderInv, EarlierDelivered, Had
  <2>2. CASE op[p].state \in Unsent
    <3>1. p \notin heads \/ ~ Ends(p)
      BY DEF Ends, Unsent, Doubted
    <3>2. ~ Behind(p, heads)
      BY <1>1, <3>1 DEF EndsWith, Unsent
    <3>3. o \notin heads
      BY <2>2, <3>2 DEF Behind
    <3>4. op[o].state \in Unsent \cup {"leased", "delivered"}
      BY <2>2 DEF OrderInv, NoPartIsStranded
    <3>5. ~ Behind(o, heads)
      BY <2>2, <3>2, PartsAreOrdered, <1>1 DEF Behind, Ending
    <3> QED
      BY <1>1, <3>3, <3>4, <3>5 DEF EndsWith, SameState, Unsent
  <2> QED
    BY <2>1, <2>2, <1>4
<1>11. ASSUME NEW o \in Ops, NEW p \in Ops, Restorable(p)', p \in Later(o)
       PROVE  op'[o].state \notin Unsent \cup {"leased", "absent"}
  <2>1. CASE Restorable(p)
    <3>1. op[o].state \notin Unsent \cup {"leased", "absent"}
      BY <1>11, <2>1 DEF OrderInv, RestorableTogether
    <3> QED
      BY <3>1, <1>2 DEF SameState, Unsent, Doubted
  <2>2. CASE ~ Restorable(p)
    <3>1. Behind(p, heads) /\ class = "restorable"
      BY <1>6, <1>11, <2>2
    <3>2. PICK h \in heads : p \in Later(h) /\ h \in Ops /\ op[h].state = "leased"
      BY <3>1 DEF Behind, Ending
    <3>3. /\ op[p].state \in Unsent
          /\ op[o].state \in Unsent \cup {"leased", "delivered"}
      BY <1>11, <3>1 DEF Behind, OrderInv, NoPartIsStranded
    <3>4. o \in Later(h) \/ o = h \/ h \in Later(o)
      BY <1>11, <3>2, PartsAreOrdered
    <3>5. CASE o = h
      BY <1>1, <3>2, <3>5 DEF Ends, Unsent, Doubted
    <3>6. CASE h \in Later(o)
      BY <1>5, <3>2, <3>6 DEF OrderInv, EarlierDelivered, Had, Unsent
    <3>7. CASE o \in Later(h) /\ o # h
      <4>1. op[o].state # "leased"
        BY <3>2, <3>7 DEF OrderInv, EarlierDelivered, Had
      <4>2. CASE op[o].state \in Unsent
        <5>1. Behind(o, heads)
          BY <3>2, <3>7, <4>2 DEF Behind
        <5>2. op'[o].state \in {"cancelled", "expired"}
          BY <1>1, <4>2, <5>1 DEF Ends, EndsWith, Unsent, Doubted
        <5> QED
          BY <5>2 DEF Unsent
      <4>3. CASE op[o].state = "delivered"
        BY <4>3, <1>5 DEF Unsent
      <4> QED
        BY <3>3, <4>1, <4>2, <4>3
    <3> QED
      BY <3>4, <3>5, <3>6, <3>7, PartsAreOrdered, <3>2
  <2> QED
    BY <2>1, <2>2
<1>12. ASSUME NEW o \in Ops, NEW p \in Ops, NEW q \in Ops,
              p \in Later(o), q \in Later(p), op'[o].state \in Doubted, Restorable(q)'
       PROVE  Restorable(p)'
  <2>1. q \in Later(o)
    BY <1>12, PartsAreOrdered
  <2>2. CASE op[o].state \in Doubted
    <3>1. op[q].state \notin Unsent
      BY <2>1, <2>2 DEF OrderInv, NoPartIsStranded, Doubted, Unsent
    <3>2. Restorable(q)
      BY <1>6, <1>12, <3>1 DEF Behind
    <3>3. Restorable(p)
      BY <1>12, <2>2, <3>2 DEF OrderInv, RestorableTogether
    <3> QED
      BY <1>7, <3>3
  <2>3. CASE op[o].state = "leased"
    <3>1. ~ Restorable(q)
      BY <2>1, <2>3 DEF OrderInv, RestorableTogether
    <3>2. op[q].state \in Unsent /\ class = "restorable"
      BY <1>6, <1>12, <3>1 DEF Behind
    <3>3. op[p].state \in Unsent
      BY <1>12, <2>3, <3>2 DEF OrderInv, NoPartIsStranded, EarlierDelivered, Had
    <3>4. o \in heads
      BY <1>1, <1>12, <2>3 DEF EndsWith, SameState, Behind, Doubted, Unsent
    <3>5. Behind(p, heads)
      BY <1>12, <3>3, <3>4 DEF Behind
    <3>6. p \notin heads
      BY <3>2, <3>3 DEF Ending, Unsent
    <3> QED
      BY <1>1, <3>2, <3>5, <3>6 DEF EndsWith, Restorable
  <2> QED
    BY <1>3, <1>12, <2>2, <2>3
<1>13. RestorableTogether'
  BY <1>11, <1>12 DEF RestorableTogether
<1> QED
  BY <1>8, <1>9, <1>10, <1>13 DEF OrderInv

(* A manual retry gives back what ended with the retried part.               *)
LEMMA OrderRestored ==
  ASSUME OrderInv, NEW o \in Ops, op[o].state \in Doubted,
         op'[o].state = "pending",
         \A p \in Ops \ {o} :
           /\ p \in Later(o) /\ Restorable(p) => op'[p].state = "pending"
           /\ ~ (p \in Later(o) /\ Restorable(p)) => SameState(p)
  PROVE  OrderInv'
<1>1. \A p \in Ops : o \in Later(p) => op[p].state = "delivered"
  BY DEF OrderInv, EarlierDelivered, Had, Doubted
<1>2. \A p \in Ops : op[p].state = "delivered" => op'[p].state = "delivered"
  BY DEF SameState, Restorable, Doubted
<1>3. \A p \in Ops : Restorable(p)' => Restorable(p) /\ p # o /\ p \notin Later(o)
  BY DEF SameState, Restorable
<1>4. BatchesAreWhole'
  BY DEF OrderInv, BatchesAreWhole, SameState, Restorable, Doubted
<1>5. EarlierDelivered'
  <2>1. \A p \in Ops : op'[p].state \in Had => op[p].state \in Had
    BY DEF SameState, Had
  <2> QED
    BY <1>2, <2>1 DEF OrderInv, EarlierDelivered
<1>6. NoPartIsStranded'
  <2> SUFFICES ASSUME NEW q \in Ops, NEW p \in Ops, op'[p].state \in Unsent, p \in Later(q)
               PROVE  op'[q].state \in Unsent \cup {"leased", "delivered"}
    BY DEF NoPartIsStranded
  <2>1. CASE p = o
    BY <1>1, <1>2, <2>1
  <2>2. CASE p # o /\ p \in Later(o) /\ Restorable(p)
    <3>1. q \in Later(o) \/ q = o \/ o \in Later(q)
      BY <2>2, PartsAreOrdered
    <3>2. CASE o \in Later(q)
      BY <1>1, <1>2, <3>2
    <3>3. CASE q = o
      BY <3>3 DEF Unsent
    <3>4. CASE q \in Later(o) /\ q # o
      <4>1. Restorable(q)
        BY <2>2, <3>4 DEF OrderInv, RestorableTogether
      <4> QED
        BY <3>4, <4>1 DEF Unsent
    <3> QED
      BY <3>1, <3>2, <3>3, <3>4
  <2>3. CASE p # o /\ ~ (p \in Later(o) /\ Restorable(p))
    <3>1. op[p].state \in Unsent
      BY <2>3 DEF SameState
    <3>2. op[q].state \in Unsent \cup {"leased", "delivered"}
      BY <3>1 DEF OrderInv, NoPartIsStranded
    <3>3. q # o /\ ~ Restorable(q)
      BY <3>2 DEF Restorable, Unsent, Doubted
    <3> QED
      BY <3>2, <3>3 DEF SameState
  <2> QED
    BY <2>1, <2>2, <2>3
<1>7. RestorableTogether'
  <2>1. ASSUME NEW q \in Ops, NEW p \in Ops, Restorable(p)', p \in Later(q)
        PROVE  op'[q].state \notin Unsent \cup {"leased", "absent"}
    <3>1. q # o /\ q \notin Later(o)
      BY <1>3, <2>1, PartsAreOrdered
    <3>2. op[q].state \notin Unsent \cup {"leased", "absent"}
      BY <1>3, <2>1 DEF OrderInv, RestorableTogether
    <3> QED
      BY <3>1, <3>2 DEF SameState
  <2>2. ASSUME NEW q \in Ops, NEW p \in Ops, NEW r \in Ops,
               p \in Later(q), r \in Later(p), op'[q].state \in Doubted, Restorable(r)'
        PROVE  Restorable(p)'
    <3>1. q # o /\ op[q].state \in Doubted
      BY <2>2 DEF SameState, Doubted
    <3>2. Restorable(r) /\ r \notin Later(o) /\ r # o
      BY <1>3, <2>2
    <3>3. Restorable(p)
      BY <2>2, <3>1, <3>2 DEF OrderInv, RestorableTogether
    <3>4. p # o /\ p \notin Later(o)
      BY <2>2, <3>2, PartsAreOrdered
    <3> QED
      BY <3>3, <3>4 DEF SameState
  <2> QED
    BY <2>1, <2>2 DEF RestorableTogether
<1> QED
  BY <1>4, <1>5, <1>6, <1>7 DEF OrderInv

-----------------------------------------------------------------------------
(* Counting what Telegram took and may still take.                           *)

NetOK == IsFiniteSet(wire) /\ IsFiniteSet(posted)

Budget(o) == Posts(o) + Flying(o)

LEMMA PostsAreNat ==
  ASSUME NetOK
  PROVE  \A o : Posts(o) \in Nat /\ Flying(o) \in Nat /\ Budget(o) \in Nat
<1> TAKE o
<1>1. IsFiniteSet({r \in posted : r[1] = o}) /\ IsFiniteSet({r \in wire : r[1] = o})
  BY FS_Subset DEF NetOK
<1>2. Posts(o) \in Nat /\ Flying(o) \in Nat
  BY <1>1, FS_CardinalityType DEF Posts, Flying
<1> QED
  BY <1>2 DEF Budget

(* One more, or one fewer, of a set of requests.                             *)
Of(S, o) == {x \in S : x[1] = o}

LEMMA OneMore ==
  ASSUME NEW S, IsFiniteSet(S), NEW r
  PROVE  /\ IsFiniteSet(S \cup {r})
         /\ Cardinality(Of(S \cup {r}, r[1]))
              = Cardinality(Of(S, r[1])) + (IF r \in S THEN 0 ELSE 1)
         /\ \A o : o # r[1] => Of(S \cup {r}, o) = Of(S, o)
<1>1. IsFiniteSet(S \cup {r})
  BY FS_AddElement
<1>2. IsFiniteSet(Of(S, r[1]))
  BY FS_Subset DEF Of
<1>3. Of(S \cup {r}, r[1]) = Of(S, r[1]) \cup {r} /\ (r \in Of(S, r[1]) <=> r \in S)
  BY DEF Of
<1>4. Cardinality(Of(S, r[1])) \in Nat
  BY <1>2, FS_CardinalityType
<1>5. Cardinality(Of(S, r[1]) \cup {r})
        = IF r \in Of(S, r[1]) THEN Cardinality(Of(S, r[1])) ELSE Cardinality(Of(S, r[1])) + 1
  BY <1>2, FS_AddElement
<1>6. \A o : o # r[1] => Of(S \cup {r}, o) = Of(S, o)
  BY DEF Of
<1>7. CASE r \in S
  BY <1>1, <1>3, <1>4, <1>5, <1>6, <1>7
<1>8. CASE r \notin S
  BY <1>1, <1>3, <1>4, <1>5, <1>6, <1>8
<1> QED
  BY <1>7, <1>8

LEMMA OneFewer ==
  ASSUME NEW S, IsFiniteSet(S), NEW r \in S
  PROVE  /\ IsFiniteSet(S \ {r})
         /\ Cardinality(Of(S \ {r}, r[1])) = Cardinality(Of(S, r[1])) - 1
         /\ \A o : o # r[1] => Of(S \ {r}, o) = Of(S, o)
<1>1. IsFiniteSet(S \ {r})
  BY FS_RemoveElement
<1>2. IsFiniteSet(Of(S, r[1]))
  BY FS_Subset DEF Of
<1>3. Of(S \ {r}, r[1]) = Of(S, r[1]) \ {r} /\ r \in Of(S, r[1])
  BY DEF Of
<1>4. Cardinality(Of(S, r[1]) \ {r}) = Cardinality(Of(S, r[1])) - 1
  BY <1>2, <1>3, FS_RemoveElement
<1>5. \A o : o # r[1] => Of(S \ {r}, o) = Of(S, o)
  BY DEF Of
<1> QED
  BY <1>1, <1>3, <1>4, <1>5

LEMMA Sent ==
  ASSUME NetOK, NEW r, wire' = wire \cup {r}, posted' = posted
  PROVE  /\ NetOK'
         /\ Budget(r[1])' <= Budget(r[1]) + 1
         /\ \A o : Posts(o)' = Posts(o)
         /\ \A o : o # r[1] => Budget(o)' = Budget(o)
<1>1. \A o : Posts(o)' = Posts(o)
  BY DEF Posts
<1>2. \A o : Flying(o) = Cardinality(Of(wire, o)) /\ Flying(o)' = Cardinality(Of(wire', o))
  BY DEF Flying, Of
<1>3. /\ IsFiniteSet(wire')
      /\ Flying(r[1])' = Flying(r[1]) + (IF r \in wire THEN 0 ELSE 1)
      /\ \A o : o # r[1] => Flying(o)' = Flying(o)
  <2>1. /\ IsFiniteSet(wire \cup {r})
        /\ Cardinality(Of(wire \cup {r}, r[1]))
             = Cardinality(Of(wire, r[1])) + (IF r \in wire THEN 0 ELSE 1)
        /\ \A o : o # r[1] => Of(wire \cup {r}, o) = Of(wire, o)
    BY OneMore DEF NetOK
  <2> QED
    BY <1>2, <2>1
<1>4. Budget(r[1])' <= Budget(r[1]) + 1
  BY <1>1, <1>3, PostsAreNat DEF Budget
<1> QED
  BY <1>1, <1>3, <1>4 DEF Budget, NetOK

LEMMA Refused ==
  ASSUME NetOK, NEW r \in wire, wire' = wire \ {r}, posted' = posted
  PROVE  /\ NetOK'
         /\ Budget(r[1])' = Budget(r[1]) - 1
         /\ \A o : Posts(o)' = Posts(o)
         /\ \A o : o # r[1] => Budget(o)' = Budget(o)
<1>1. \A o : Posts(o)' = Posts(o)
  BY DEF Posts
<1>2. \A o : Flying(o) = Cardinality(Of(wire, o)) /\ Flying(o)' = Cardinality(Of(wire', o))
  BY DEF Flying, Of
<1>3. /\ IsFiniteSet(wire')
      /\ Flying(r[1])' = Flying(r[1]) - 1
      /\ \A o : o # r[1] => Flying(o)' = Flying(o)
  BY <1>2, OneFewer DEF NetOK
<1>4. Budget(r[1])' = Budget(r[1]) - 1
  BY <1>1, <1>3, PostsAreNat DEF Budget
<1> QED
  BY <1>1, <1>3, <1>4 DEF Budget, NetOK

LEMMA Taken ==
  ASSUME NetOK, NEW r \in wire, wire' = wire \ {r}, posted' = posted \cup {r}
  PROVE  /\ NetOK'
         /\ Flying(r[1]) > 0
         /\ Posts(r[1])' = Posts(r[1]) \/ Posts(r[1])' = Posts(r[1]) + 1
         /\ Budget(r[1])' <= Budget(r[1])
         /\ \A o : o # r[1] => Posts(o)' = Posts(o) /\ Budget(o)' = Budget(o)
<1>1. \A o : Flying(o) = Cardinality(Of(wire, o)) /\ Flying(o)' = Cardinality(Of(wire', o))
  BY DEF Flying, Of
<1>2. \A o : Posts(o) = Cardinality(Of(posted, o)) /\ Posts(o)' = Cardinality(Of(posted', o))
  BY DEF Posts, Of
<1>3. /\ IsFiniteSet(wire')
      /\ Flying(r[1])' = Flying(r[1]) - 1
      /\ \A o : o # r[1] => Flying(o)' = Flying(o)
  BY <1>1, OneFewer DEF NetOK
<1>4. /\ IsFiniteSet(posted')
      /\ Posts(r[1])' = Posts(r[1]) + (IF r \in posted THEN 0 ELSE 1)
      /\ \A o : o # r[1] => Posts(o)' = Posts(o)
  BY <1>2, OneMore DEF NetOK
<1>5. NetOK'
  BY <1>3, <1>4 DEF NetOK
<1>6. Flying(r[1])' \in Nat
  <2>1. IsFiniteSet(Of(wire', r[1]))
    BY <1>3, FS_Subset DEF Of
  <2> QED
    BY <1>1, <2>1, FS_CardinalityType
<1> QED
  BY <1>3, <1>4, <1>5, <1>6, PostsAreNat DEF Budget

-----------------------------------------------------------------------------
(* What may still be sent.                                                   *)

(* An operation that can be sent without a further order.                    *)
Fresh(o) ==
  \/ op[o].state \in {"absent", "pending", "retry_wait", "dead_letter"}
  \/ op[o].state = "leased" /\ ~ op[o].started
  \/ Restorable(o)

WithinBudget(o) ==
  /\ Fresh(o) => Budget(o) <= confirmed[o]
  /\ Budget(o) <= confirmed[o] + 1

MoneyInv == \A o \in Once : WithinBudget(o)

(* What was sent came after what was delivered, and what is said to be       *)
(* delivered was posted.                                                     *)
SentInOrder ==
  /\ \A r \in wire \cup posted : \A o \in Ops : r[1] \in Later(o) => op[o].state = "delivered"
  /\ \A o \in Once : op[o].state = "delivered" => Posts(o) > 0

(* What a task knows of the operation it holds.                              *)
Proven == {"rejected", "transient", "reply_missing"}

Current(w, o) == op[o].state = "leased" /\ task[w][o].token = op[o].attempt

Knows(w, o) ==
  /\ task[w][o].phase # "none" => task[w][o].token <= op[o].attempt
  /\ task[w][o].phase = "claimed" /\ Current(w, o) => ~ op[o].started
  /\ o \in Once /\ task[w][o].phase = "ok" => <<o, task[w][o].token>> \in posted
  /\ o \in Once /\ task[w][o].phase \in Proven /\ Current(w, o) => Budget(o) <= confirmed[o]

Alone(w, o) ==
  \A v \in Workers : /\ task[w][o].phase # "none" /\ task[v][o].phase # "none"
                     /\ task[v][o].token = task[w][o].token
                     => v = w

TaskInv == \A w \in Workers, o \in Ops : Knows(w, o) /\ Alone(w, o)

OutboxInv == OutboxTypeOK /\ NetOK /\ OrderInv /\ MoneyInv /\ SentInOrder /\ TaskInv

-----------------------------------------------------------------------------
(* Tasks go on with what they hold, or let it go.                            *)

TaskKept(w, o) ==
  \/ task'[w][o].phase = "none"
  \/ /\ task[w][o].phase # "none" /\ task'[w][o].token = task[w][o].token
     /\ task'[w][o].phase \in {"claimed", "ok"} \cup Proven
          => task'[w][o].phase = task[w][o].phase

(* A row keeps its attempt, and is leased only as it was.                    *)
RowKept(o) ==
  /\ op'[o].attempt = op[o].attempt
  /\ op'[o].state = "leased" => op[o].state = "leased" /\ op'[o].started = op[o].started

LEMMA TasksKept ==
  ASSUME TaskInv, \A w \in Workers, o \in Ops : TaskKept(w, o),
         \A o \in Ops : RowKept(o),
         posted \subseteq posted',
         \A o \in Once : Budget(o) \in Nat /\ Budget(o)' \in Nat /\ Budget(o)' <= Budget(o),
         confirmed \in [Ops -> Nat], confirmed' \in [Ops -> Nat],
         \A o \in Once : confirmed'[o] >= confirmed[o]
  PROVE  TaskInv'
<1>1. ASSUME NEW w \in Workers, NEW o \in Ops
      PROVE  Alone(w, o)'
  BY DEF TaskInv, Alone, TaskKept
<1>2. ASSUME NEW w \in Workers, NEW o \in Ops
      PROVE  Knows(w, o)'
  <2>1. Knows(w, o) /\ TaskKept(w, o) /\ RowKept(o)
    BY DEF TaskInv
  <2>2. task'[w][o].phase # "none" => task'[w][o].token <= op'[o].attempt
    BY <2>1 DEF Knows, TaskKept, RowKept
  <2>3. task'[w][o].phase = "claimed" /\ Current(w, o)' => ~ op'[o].started
    BY <2>1 DEF Knows, TaskKept, RowKept, Current
  <2>4. o \in Once /\ task'[w][o].phase = "ok" => <<o, task'[w][o].token>> \in posted'
    BY <2>1 DEF Knows, TaskKept
  <2>5. ASSUME o \in Once, task'[w][o].phase \in Proven, Current(w, o)'
        PROVE  Budget(o)' <= confirmed'[o]
    <3>1. task[w][o].phase \in Proven /\ Current(w, o)
      BY <2>1, <2>5 DEF TaskKept, RowKept, Current, Proven
    <3>2. Budget(o) <= confirmed[o]
      BY <2>1, <2>5, <3>1 DEF Knows
    <3>3. confirmed[o] \in Nat /\ confirmed'[o] \in Nat /\ confirmed'[o] >= confirmed[o]
      BY <2>5
    <3>4. Budget(o) \in Nat /\ Budget(o)' \in Nat /\ Budget(o)' <= Budget(o)
      BY <2>5
    <3> QED
      BY <3>2, <3>3, <3>4
  <2> QED
    BY <2>2, <2>3, <2>4, <2>5 DEF Knows
<1> QED
  BY <1>1, <1>2 DEF TaskInv

-----------------------------------------------------------------------------
(* The steps of the table, seen from one row, and the step of the promise    *)
(* each of them is.                                                          *)

Sure(o) == o \in Once => Budget(o) <= confirmed[o]

RowMoves(o) ==
  \/ SameState(o) /\ op'[o].started = op[o].started
  \/ op[o].state = "absent" /\ op'[o].state = "pending"
  \/ op[o].state \in Unsent /\ op'[o].state = "leased"
  \/ op[o].state = "leased" /\ op'[o].state \in {"retry_wait", "dead_letter"}
       /\ (Sure(o) \/ ~ op[o].started)
  \/ op[o].state = "leased" /\ op'[o].state = "ambiguous"
  \/ op[o].state = "leased" /\ op'[o].state = "delivered" /\ (o \in Once => Posts(o) > 0)
  \/ op[o].state \in Unsent \cup {"leased"} /\ op'[o].state = "expired"
  \/ op[o].state \in Unsent /\ op'[o].state = "cancelled"
  \/ op[o].state \in {"leased"} \cup Doubted /\ op'[o].state = "cancelled" /\ op'[o].class = "none"
  \/ Restorable(o) /\ op'[o].state = "pending"
  \/ op[o].state = "dead_letter" /\ op'[o].state = "pending"

AgainAsked(o) ==
  /\ op[o].state = "ambiguous" /\ op'[o].state = "pending"
  /\ o \in Once => confirmed'[o] = confirmed[o] + 1

RowSteps(o) ==
  \/ RowMoves(o) /\ confirmed'[o] = confirmed[o]
  \/ AgainAsked(o)

PromiseStep(m) ==
  \/ Promise!Post(m) \/ Promise!Settle(m) \/ Promise!GiveUp(m)
  \/ Promise!Restore(m) \/ Promise!Again(m) \/ Promise!Rest(m)

(* The mapping, for one message.                                             *)
Outcome(o) == OutcomeOf(op[o].state)

LEMMA PromiseIs ==
  ASSUME NEW m \in Once
  PROVE  PromiseStep(m) <=>
           \/ /\ Posts(m) + (IF Outcome(m) = "refused" THEN 1 ELSE 0) < 1 + confirmed[m]
              /\ Posts(m)' = Posts(m) + 1
              /\ Outcome(m)' = Outcome(m) /\ 1 + confirmed'[m] = 1 + confirmed[m]
           \/ /\ Outcome(m) = "open"
              /\ \/ Posts(m) > 0 /\ Outcome(m)' = "delivered"
                 \/ Posts(m) < 1 + confirmed[m] /\ Outcome(m)' = "refused"
                 \/ Outcome(m)' \in {"doubtful", "dropped"}
              /\ Posts(m)' = Posts(m) /\ 1 + confirmed'[m] = 1 + confirmed[m]
           \/ /\ Outcome(m) \in {"doubtful", "refused"} /\ Outcome(m)' = "dropped"
              /\ Posts(m)' = Posts(m) /\ 1 + confirmed'[m] = 1 + confirmed[m]
           \/ /\ Outcome(m) = "dropped" /\ Posts(m) < 1 + confirmed[m]
              /\ Outcome(m)' = "open"
              /\ Posts(m)' = Posts(m) /\ 1 + confirmed'[m] = 1 + confirmed[m]
           \/ /\ Outcome(m)' = "open"
              /\ \/ Outcome(m) = "refused" /\ 1 + confirmed'[m] = 1 + confirmed[m]
                 \/ Outcome(m) = "doubtful" /\ 1 + confirmed'[m] = 1 + confirmed[m] + 1
              /\ Posts(m)' = Posts(m)
           \/ /\ Outcome(m)' = Outcome(m)
              /\ Posts(m)' = Posts(m) /\ 1 + confirmed'[m] = 1 + confirmed[m]
<1>1. /\ [o \in Once |-> OutcomeOf(op[o].state)][m] = Outcome(m)
      /\ [o \in Once |-> OutcomeOf(op'[o].state)][m] = Outcome(m)'
      /\ [o \in Once |-> Posts(o)][m] = Posts(m)
      /\ [o \in Once |-> Posts(o)'][m] = Posts(m)'
      /\ [o \in Once |-> 1 + confirmed[o]][m] = 1 + confirmed[m]
      /\ [o \in Once |-> 1 + confirmed'[o]][m] = 1 + confirmed'[m]
  BY DEF Outcome
<1> QED
  BY <1>1 DEF PromiseStep, Promise!Post, Promise!Settle, Promise!GiveUp, Promise!Restore,
              Promise!Again, Promise!Rest, Promise!SameOutcome, Promise!SamePosts,
              Promise!SamePermits

LEMMA RowKeepsPromise ==
  ASSUME OutboxInv, NEW m \in Once, RowSteps(m), confirmed' \in [Ops -> Nat],
         Posts(m)' = Posts(m), Budget(m)' = Budget(m),
         op'[m].state = "leased" => op[m].state = "leased" \/ Budget(m) <= confirmed[m]
  PROVE  WithinBudget(m)' /\ PromiseStep(m)
<1>1. m \in Ops /\ WithinBudget(m)
  BY DEF OutboxInv, MoneyInv, Once
<1>2. /\ Posts(m) \in Nat /\ Flying(m) \in Nat /\ Budget(m) = Posts(m) + Flying(m)
      /\ confirmed[m] \in Nat /\ confirmed'[m] \in Nat
  BY <1>1, PostsAreNat DEF OutboxInv, OutboxTypeOK, Budget
<1>3. WithinBudget(m)' <=> /\ Fresh(m)' => Budget(m) <= confirmed'[m]
                           /\ Budget(m) <= confirmed'[m] + 1
  BY DEF WithinBudget
<1>4. CASE AgainAsked(m)
  <2>1. Outcome(m) = "doubtful" /\ Outcome(m)' = "open" /\ confirmed'[m] = confirmed[m] + 1
    BY <1>4 DEF AgainAsked, Outcome, OutcomeOf
  <2>2. PromiseStep(m)
    BY <1>2, <2>1, PromiseIs
  <2>3. WithinBudget(m)'
    BY <1>1, <1>2, <1>3, <2>1 DEF WithinBudget
  <2> QED
    BY <2>2, <2>3
<1>5. CASE RowMoves(m) /\ confirmed'[m] = confirmed[m]
  <2>1. Fresh(m)' => Fresh(m) \/ Budget(m) <= confirmed[m]
    BY <1>5 DEF RowMoves, SameState, Fresh, Restorable, Sure, Unsent, Doubted
  <2>2. WithinBudget(m)'
    BY <1>1, <1>2, <1>3, <1>5, <2>1 DEF WithinBudget
  <2>3. Fresh(m) => Posts(m) < 1 + confirmed[m]
    BY <1>1, <1>2 DEF WithinBudget
  <2>4. Sure(m) => Posts(m) < 1 + confirmed[m]
    BY <1>2 DEF Sure
  <2>5. \/ Outcome(m)' = Outcome(m)
        \/ /\ Outcome(m) = "open"
           /\ \/ Posts(m) > 0 /\ Outcome(m)' = "delivered"
              \/ Posts(m) < 1 + confirmed[m] /\ Outcome(m)' = "refused"
              \/ Outcome(m)' \in {"doubtful", "dropped"}
        \/ Outcome(m) \in {"doubtful", "refused"} /\ Outcome(m)' = "dropped"
        \/ Outcome(m) = "dropped" /\ Posts(m) < 1 + confirmed[m] /\ Outcome(m)' = "open"
        \/ Outcome(m) = "refused" /\ Outcome(m)' = "open"
    <3>1. CASE op[m].state = "leased" /\ op'[m].state \in {"retry_wait", "dead_letter"}
                 /\ (Sure(m) \/ ~ op[m].started)
      BY <2>3, <2>4, <3>1 DEF Outcome, OutcomeOf, Fresh
    <3>2. CASE Restorable(m) /\ op'[m].state = "pending"
      BY <2>3, <3>2 DEF Outcome, OutcomeOf, Fresh, Restorable
    <3>3. CASE SameState(m)
      BY <3>3 DEF Outcome, SameState
    <3>4. CASE op[m].state = "leased" /\ op'[m].state = "delivered" /\ Posts(m) > 0
      BY <3>4 DEF Outcome, OutcomeOf
    <3>5. CASE \/ op[m].state = "absent" /\ op'[m].state = "pending"
               \/ op[m].state \in Unsent /\ op'[m].state = "leased"
               \/ op[m].state = "leased" /\ op'[m].state = "ambiguous"
               \/ op[m].state \in Unsent \cup {"leased"} /\ op'[m].state = "expired"
               \/ op[m].state \in Unsent /\ op'[m].state = "cancelled"
      BY <3>5 DEF Outcome, OutcomeOf, Unsent
    <3>6. CASE \/ op[m].state \in {"leased"} \cup Doubted /\ op'[m].state = "cancelled"
               \/ op[m].state = "dead_letter" /\ op'[m].state = "pending"
      BY <3>6 DEF Outcome, OutcomeOf, Doubted
    <3> QED
      BY <1>5, <3>1, <3>2, <3>3, <3>4, <3>5, <3>6 DEF RowMoves
  <2>6. PromiseStep(m)
    BY <1>5, <2>5, PromiseIs
  <2> QED
    BY <2>2, <2>6
<1> QED
  BY <1>4, <1>5 DEF RowSteps

(* A step of the table, whatever row it moves, with the network at rest.     *)
LEMMA TableStep ==
  ASSUME OutboxInv, OutboxTypeOK', OrderInv', TaskInv', UNCHANGED <<wire, posted>>,
         \A o \in Ops : RowSteps(o)
  PROVE  OutboxInv' /\ Promise!PromiseNext
<1>1. confirmed' \in [Ops -> Nat]
  BY DEF OutboxTypeOK
<1>2. \A o : Posts(o)' = Posts(o) /\ Budget(o)' = Budget(o)
  BY DEF Posts, Flying, Budget
<1>3. \A m \in Once : /\ RowSteps(m)
                      /\ op'[m].state = "leased" => op[m].state = "leased" \/ Budget(m) <= confirmed[m]
  <2> TAKE m \in Once
  <2>1. m \in Ops /\ RowSteps(m) /\ WithinBudget(m)
    BY DEF Once, OutboxInv, MoneyInv
  <2> QED
    BY <2>1 DEF RowSteps, RowMoves, AgainAsked, SameState, WithinBudget, Fresh, Unsent, Doubted
<1>4. \A m \in Once : WithinBudget(m)' /\ PromiseStep(m)
  BY <1>1, <1>2, <1>3, RowKeepsPromise
<1>5. MoneyInv'
  BY <1>4 DEF MoneyInv
<1>6. SentInOrder'
  <2>1. \A o \in Ops : /\ op[o].state = "delivered" => op'[o].state = "delivered"
                       /\ op'[o].state = "delivered" => op[o].state = "delivered" \/ (o \in Once => Posts(o) > 0)
    <3> TAKE o \in Ops
    <3>1. RowSteps(o)
      OBVIOUS
    <3> QED
      BY <3>1 DEF RowSteps, RowMoves, AgainAsked, SameState, Unsent, Doubted, Restorable
  <2>2. Once \subseteq Ops
    BY DEF Once
  <2> QED
    BY <1>2, <2>1, <2>2 DEF OutboxInv, SentInOrder
<1>7. NetOK'
  BY DEF OutboxInv, NetOK
<1>8. Promise!PromiseNext
  BY <1>4 DEF Promise!PromiseNext, PromiseStep
<1> QED
  BY <1>5, <1>6, <1>7, <1>8 DEF OutboxInv

LEMMA KeptStep ==
  ASSUME OutboxInv, OutboxTypeOK', OrderInv', UNCHANGED <<wire, posted>>,
         \A o \in Ops : RowSteps(o) /\ RowKept(o),
         \A w \in Workers, o \in Ops : TaskKept(w, o)
  PROVE  OutboxInv' /\ Promise!PromiseNext
<1>1. confirmed \in [Ops -> Nat] /\ confirmed' \in [Ops -> Nat] /\ TaskInv /\ Once \subseteq Ops
  BY DEF OutboxInv, OutboxTypeOK, Once
<1>2. \A o \in Once : confirmed'[o] >= confirmed[o]
  <2> TAKE o \in Once
  <2>1. confirmed[o] \in Nat /\ RowSteps(o)
    BY <1>1
  <2> QED
    BY <2>1 DEF RowSteps, AgainAsked
<1>3. \A o \in Once : Budget(o) \in Nat /\ Budget(o)' \in Nat /\ Budget(o)' <= Budget(o)
  <2>1. \A o \in Once : Budget(o) \in Nat /\ Budget(o)' = Budget(o)
    BY PostsAreNat DEF OutboxInv, Budget, Posts, Flying
  <2> QED
    BY <2>1
<1>4. TaskInv'
  BY <1>1, <1>2, <1>3, TasksKept
<1> QED
  BY <1>4, TableStep

(* Nothing changes but what no property reads.                               *)
SameRow(o) ==
  /\ op'[o].state = op[o].state /\ op'[o].attempt = op[o].attempt
  /\ op'[o].started = op[o].started
  /\ op[o].state = "cancelled" => op'[o].class = op[o].class

LEMMA QuietStep ==
  ASSUME OutboxInv, OutboxTypeOK', UNCHANGED <<wire, posted, confirmed>>,
         \A o \in Ops : SameRow(o),
         \A w \in Workers, o \in Ops : TaskKept(w, o)
  PROVE  OutboxInv' /\ Promise!PromiseNext
<1>1. \A o \in Ops : SameState(o) /\ RowKept(o) /\ RowSteps(o)
  BY DEF SameRow, SameState, RowKept, RowSteps, RowMoves, Restorable
<1>2. OrderInv'
  BY <1>1, OrderUnmoved DEF OutboxInv
<1> QED
  BY <1>1, <1>2, KeptStep

LEMMA EndingStep ==
  ASSUME OutboxInv, OutboxTypeOK', UNCHANGED <<wire, posted, confirmed>>,
         NEW heads, NEW class, Ending(heads, class),
         \A o \in Ops : op'[o].attempt = op[o].attempt /\ op'[o].started = op[o].started,
         \A o \in Ops : op[o].state = "leased" /\ op'[o].state \in {"retry_wait", "dead_letter"}
                        => Sure(o) \/ ~ op[o].started,
         \A w \in Workers, o \in Ops : TaskKept(w, o)
  PROVE  OutboxInv' /\ Promise!PromiseNext
<1>1. OrderInv'
  BY OrderEnded DEF OutboxInv
<1>2. ASSUME NEW o \in Ops
      PROVE  RowMoves(o) /\ RowKept(o)
  <2>1. CASE o \in heads
    <3>1. Ends(o)
      BY <2>1 DEF Ending
    <3> QED
      BY <3>1 DEF Ends, RowMoves, RowKept, Doubted, Unsent
  <2>2. CASE o \notin heads
    <3>1. EndsWith(o, heads, class)
      BY <2>2 DEF Ending
    <3> QED
      BY <3>1 DEF EndsWith, Behind, RowMoves, RowKept, SameState, Unsent
  <2> QED
    BY <2>1, <2>2
<1>3. \A o \in Ops : RowSteps(o) /\ RowKept(o)
  BY <1>2 DEF RowSteps
<1> QED
  BY <1>1, <1>3, KeptStep

-----------------------------------------------------------------------------
(* The pieces the actions are made of.                                       *)

TasksOK == task \in [Workers -> [Ops -> [phase : Phases, token : Nat]]]

LEMMA GoesOn ==
  ASSUME TasksOK, NEW w \in Workers, NEW o \in Ops, NEW phase \in Phases, Goes(w, o, phase)
  PROVE  /\ TasksOK'
         /\ task'[w][o].phase = phase /\ task'[w][o].token = task[w][o].token
         /\ \A v \in Workers, p \in Ops : v # w \/ p # o => task'[v][p] = task[v][p]
<1> QED
  BY DEF TasksOK, Goes

LEMMA IsDone ==
  ASSUME TasksOK, NEW w \in Workers, NEW o \in Ops, Done(w, o)
  PROVE  /\ TasksOK'
         /\ task'[w][o].phase = "none"
         /\ \A v \in Workers, p \in Ops : v # w \/ p # o => task'[v][p] = task[v][p]
         /\ \A v \in Workers, p \in Ops : TaskKept(v, p)
<1>1. Free \in [phase : Phases, token : Nat] /\ Free.phase = "none"
  BY DEF Free, Phases
<1>2. /\ TasksOK'
      /\ task'[w][o] = Free
      /\ \A v \in Workers, p \in Ops : v # w \/ p # o => task'[v][p] = task[v][p]
  BY <1>1 DEF TasksOK, Done
<1>3. \A v \in Workers, p \in Ops : TaskKept(v, p)
  BY <1>1, <1>2 DEF TaskKept
<1> QED
  BY <1>1, <1>2, <1>3

LEMMA TasksStay ==
  ASSUME TasksOK, UNCHANGED task
  PROVE  TasksOK' /\ \A v \in Workers, p \in Ops : TaskKept(v, p)
<1> QED
  BY DEF TasksOK, TaskKept

LEMMA LaterGoWith ==
  ASSUME NEW table \in [Ops -> Rows], NEW heads, NEW class \in Classes,
         op' = WithoutLater(table, heads, class)
  PROVE  /\ op' \in [Ops -> Rows]
         /\ \A o \in Ops :
              /\ op'[o].attempt = table[o].attempt /\ op'[o].started = table[o].started
              /\ IF table[o].state \in Unsent /\ \E h \in heads : o \in Later(h)
                 THEN op'[o].state = "cancelled" /\ op'[o].class = class
                 ELSE op'[o] = table[o]
<1>1. \A o \in Ops : table[o] \in Rows
  OBVIOUS
<1>2. \A o \in Ops : [table[o] EXCEPT !.state = "cancelled", !.class = class] \in Rows
  BY <1>1 DEF Rows, States
<1>3. \A o \in Ops : op'[o] = IF table[o].state \in Unsent /\ \E h \in heads : o \in Later(h)
                              THEN [table[o] EXCEPT !.state = "cancelled", !.class = class]
                              ELSE table[o]
  BY DEF WithoutLater
<1>4. op' \in [Ops -> Rows]
  BY <1>1, <1>2 DEF WithoutLater
<1> QED
  BY <1>1, <1>3, <1>4 DEF Rows

RowSet(table, o, state, class) ==
  [table EXCEPT ![o].state = state, ![o].class = class, ![o].live = FALSE]

LEMMA RowIsSet ==
  ASSUME NEW table \in [Ops -> Rows], NEW o \in Ops, NEW state \in States, NEW class \in Classes,
         NEW T, T = RowSet(table, o, state, class)
  PROVE  /\ T \in [Ops -> Rows]
         /\ T[o].state = state /\ T[o].class = class
         /\ T[o].attempt = table[o].attempt /\ T[o].started = table[o].started
         /\ \A p \in Ops \ {o} : T[p] = table[p]
<1>1. PICK row : row = [table[o] EXCEPT !.state = state, !.class = class, !.live = FALSE]
  OBVIOUS
<1>2. /\ row \in Rows /\ row.state = state /\ row.class = class
      /\ row.attempt = table[o].attempt /\ row.started = table[o].started
  <2>1. table[o] \in Rows
    OBVIOUS
  <2> QED
    BY <1>1, <2>1 DEF Rows
<1>3. \A p \in Ops : T[p] = IF p = o THEN row ELSE table[p]
  BY <1>1 DEF RowSet
<1>4. T = [p \in Ops |-> IF p = o THEN row ELSE table[p]]
  BY <1>1 DEF RowSet
<1>5. T \in [Ops -> Rows]
  BY <1>2, <1>4
<1> QED
  BY <1>2, <1>3, <1>5

LEMMA GoesKept ==
  ASSUME TasksOK, NEW w \in Workers, NEW o \in Ops, task[w][o].phase # "none",
         NEW phase \in {"sent", "history", "unknown", "reacted"}, Goes(w, o, phase)
  PROVE  TasksOK' /\ \A v \in Workers, p \in Ops : TaskKept(v, p)
<1>1. phase \in Phases
  BY DEF Phases
<1> QED
  BY <1>1, GoesOn DEF TaskKept, Proven

LEMMA Typed ==
  ASSUME OutboxInv
  PROVE  /\ OutboxTypeOK /\ TasksOK
         /\ \A o \in Ops : /\ op[o] \in Rows
                           /\ op[o].state \in States /\ op[o].class \in Classes
                           /\ op[o].id \in Nat /\ op[o].attempt \in Nat
                           /\ op[o].started \in BOOLEAN /\ op[o].live \in BOOLEAN
                           /\ op[o].late \in BOOLEAN /\ op[o].bare \in BOOLEAN
         /\ \A w \in Workers, o \in Ops : task[w][o].token \in Nat /\ task[w][o].phase \in Phases
<1>1. OutboxTypeOK
  BY DEF OutboxInv
<1>2. \A o \in Ops : op[o] \in Rows
  BY <1>1 DEF OutboxTypeOK
<1>3. TasksOK
  BY <1>1 DEF OutboxTypeOK, TasksOK
<1> QED
  BY <1>1, <1>2, <1>3 DEF Rows, TasksOK

-----------------------------------------------------------------------------
(* Steps that move no operation.                                             *)

LEMMA BatchesAreFinite ==
  ASSUME NEW S \in SUBSET Ops
  PROVE  Cardinality(S) \in Nat
<1>1. IsFiniteSet(S)
  BY OutboxAssumption, FS_Subset
<1> QED
  BY <1>1, FS_CardinalityType

LEMMA InsertKeeps ==
  ASSUME OutboxInv, NEW b, InsertBatch(b)
  PROVE  OutboxInv' /\ Promise!PromiseNext
<1>1. \A o \in Ops : Cardinality({p \in PartsOf(b) : PartOf[p] < PartOf[o]}) \in Nat
  BY BatchesAreFinite DEF PartsOf
<1>2. Cardinality(PartsOf(b)) \in Nat
  BY BatchesAreFinite DEF PartsOf
<1> DEFINE ids == [o \in Ops |-> next_id + Cardinality({p \in PartsOf(b) : PartOf[p] < PartOf[o]})]
<1>3. ids \in [Ops -> Nat]
  <2>1. next_id \in Nat
    BY Typed DEF OutboxTypeOK
  <2> QED
    BY <1>1, <2>1
<1>4. op' = [o \in Ops |-> IF o \in PartsOf(b) THEN [op[o] EXCEPT !.id = ids[o]] ELSE op[o]]
  BY DEF InsertBatch
<1> HIDE DEF ids
<1>5. \A o \in Ops : op'[o] \in Rows /\ SameRow(o)
  BY <1>3, <1>4, Typed DEF SameRow, Rows
<1>6. op' \in [Ops -> Rows]
  BY <1>4, <1>5
<1>7. next_id' \in Nat /\ UNCHANGED <<task, wire, posted, confirmed, orders, faults>>
  BY <1>2, Typed DEF InsertBatch, OutboxTypeOK, sendVars, apiVars
<1>8. TasksOK' /\ \A v \in Workers, p \in Ops : TaskKept(v, p)
  BY <1>7, Typed, TasksStay
<1>9. OutboxTypeOK'
  BY <1>6, <1>7, <1>8, Typed DEF OutboxTypeOK, TasksOK
<1> QED
  BY <1>5, <1>7, <1>8, <1>9, QuietStep

LEMMA CommitHistoryKeeps ==
  ASSUME OutboxInv, NEW w \in Workers, NEW o \in Ops,
         CommitHistory(w, o) \/ RepairHistory(w, o)
  PROVE  OutboxInv' /\ Promise!PromiseNext
<1>1. op' = HistoryCommitted(o) /\ UNCHANGED <<next_id, wire, posted, confirmed, orders, faults>>
  BY DEF CommitHistory, RepairHistory, sendVars, apiVars
<1>2. op' \in [Ops -> Rows] /\ \A p \in Ops : SameRow(p)
  BY <1>1, Typed DEF HistoryCommitted, SameRow, Rows, Classes, OutboxTypeOK
<1>3. TasksOK' /\ \A v \in Workers, p \in Ops : TaskKept(v, p)
  <2>1. CASE Done(w, o)
    BY <2>1, Typed, IsDone
  <2>2. CASE UNCHANGED task
    BY <2>2, Typed, TasksStay DEF TasksOK
  <2> QED
    BY <2>1, <2>2 DEF CommitHistory, RepairHistory, sendVars
<1>4. OutboxTypeOK'
  BY <1>1, <1>2, <1>3, Typed DEF OutboxTypeOK, TasksOK
<1> QED
  BY <1>1, <1>2, <1>3, <1>4, QuietStep

(* A task is dropped: its lease is lost, its statement fails, its worker     *)
(* dies.                                                                     *)
LEMMA DroppedKeeps ==
  ASSUME OutboxInv, NEW w \in Workers,
         Crash(w) \/ \E o \in Ops : LoseLease(w, o) \/ StoreError(w, o)
  PROVE  OutboxInv' /\ Promise!PromiseNext
<1>1. UNCHANGED <<op, next_id, wire, posted, confirmed, orders>> /\ faults' \in Nat
  BY Typed DEF LoseLease, StoreError, Crash, apiVars, OutboxTypeOK
<1>2. TasksOK' /\ \A v \in Workers, p \in Ops : TaskKept(v, p)
  <2>1. ASSUME NEW o \in Ops, Done(w, o)
        PROVE  TasksOK' /\ \A v \in Workers, p \in Ops : TaskKept(v, p)
    BY <2>1, Typed, IsDone
  <2>2. ASSUME Crash(w)
        PROVE  TasksOK' /\ \A v \in Workers, p \in Ops : TaskKept(v, p)
    <3>1. /\ Free \in [phase : Phases, token : Nat] /\ Free.phase = "none"
          /\ task' = [task EXCEPT ![w] = [o \in Ops |-> Free]]
      BY <2>2 DEF Crash, Free, Phases
    <3> QED
      BY <3>1, Typed DEF TasksOK, TaskKept
  <2> QED
    BY <2>1, <2>2 DEF LoseLease, StoreError
<1>3. OutboxTypeOK'
  BY <1>1, <1>2, Typed DEF OutboxTypeOK, TasksOK
<1>4. \A o \in Ops : SameRow(o)
  BY <1>1 DEF SameRow
<1> QED
  BY <1>1, <1>2, <1>3, <1>4, QuietStep

LEMMA ClockKeeps ==
  ASSUME OutboxInv, NEW o \in Ops, LeaseExpires(o) \/ RenewalsFail(o) \/ GoesLate(o)
  PROVE  OutboxInv' /\ Promise!PromiseNext
<1>1. UNCHANGED <<next_id, task, wire, posted, confirmed, orders>> /\ faults' \in Nat
  BY Typed DEF LeaseExpires, RenewalsFail, LeaseEnds, GoesLate, sendVars, apiVars, OutboxTypeOK
<1>2. op' = [op EXCEPT ![o].live = FALSE] \/ op' = [op EXCEPT ![o].late = TRUE]
  BY DEF LeaseExpires, RenewalsFail, LeaseEnds, GoesLate
<1>3. op' \in [Ops -> Rows] /\ \A p \in Ops : SameRow(p)
  <2>1. op \in [Ops -> Rows]
    BY Typed DEF OutboxTypeOK
  <2>2. CASE op' = [op EXCEPT ![o].live = FALSE]
    BY <2>1, <2>2 DEF SameRow, Rows
  <2>3. CASE op' = [op EXCEPT ![o].late = TRUE]
    BY <2>1, <2>3 DEF SameRow, Rows
  <2> QED
    BY <1>2, <2>2, <2>3
<1>4. TasksOK' /\ \A v \in Workers, p \in Ops : TaskKept(v, p)
  BY <1>1, Typed, TasksStay
<1>5. OutboxTypeOK'
  BY <1>1, <1>3, <1>4, Typed DEF OutboxTypeOK, TasksOK
<1> QED
  BY <1>1, <1>3, <1>4, <1>5, QuietStep

-----------------------------------------------------------------------------
(* Batches become visible.                                                   *)

LEMMA CommitKeeps ==
  ASSUME OutboxInv, NEW b, CommitBatch(b)
  PROVE  OutboxInv' /\ Promise!PromiseNext
<1>1. /\ op' = [o \in Ops |-> IF o \in PartsOf(b) THEN [op[o] EXCEPT !.state = "pending"] ELSE op[o]]
      /\ \A o \in PartsOf(b) : op[o].state = "absent"
      /\ UNCHANGED <<next_id, task, wire, posted, confirmed, orders, faults>>
  BY DEF CommitBatch, sendVars, apiVars
<1>2. \A o \in Ops : [op[o] EXCEPT !.state = "pending"] \in Rows
  BY Typed DEF Rows, States
<1>3. op' \in [Ops -> Rows]
  BY <1>1, <1>2, Typed
<1>4. /\ \A o \in PartsOf(b) : /\ op[o].state = "absent" /\ op'[o].state = "pending"
                               /\ op'[o].attempt = op[o].attempt
      /\ \A o \in Ops \ PartsOf(b) : op'[o] = op[o]
  BY <1>1, Typed DEF PartsOf, Rows
<1>5. \A o \in Ops \ PartsOf(b) : SameState(o)
  BY <1>4 DEF SameState, Restorable
<1>6. OrderInv'
  <2>1. /\ PartsOf(b) \in SUBSET Ops
        /\ \A o \in PartsOf(b), p \in Ops : BatchOf[p] = BatchOf[o] => p \in PartsOf(b)
    BY DEF PartsOf
  <2> QED
    BY <1>4, <1>5, <2>1, OrderCommitted DEF OutboxInv
<1>7. \A o \in Ops : RowSteps(o) /\ RowKept(o)
  BY <1>1, <1>4, <1>5 DEF RowSteps, RowMoves, RowKept
<1>8. TasksOK' /\ \A v \in Workers, p \in Ops : TaskKept(v, p)
  BY <1>1, Typed, TasksStay
<1>9. OutboxTypeOK'
  BY <1>1, <1>3, <1>8, Typed DEF OutboxTypeOK, TasksOK
<1> QED
  BY <1>1, <1>6, <1>7, <1>8, <1>9, KeptStep

LEMMA ReactionKeeps ==
  ASSUME OutboxInv, NEW o \in Triggered, EnqueueReaction(o), UNCHANGED <<wire, posted, confirmed, orders, faults>>,
         TasksOK', \A v \in Workers, p \in Ops : TaskKept(v, p)
  PROVE  OutboxInv' /\ Promise!PromiseNext
<1> DEFINE r == ReactionOf[o]
<1>1. r \in Reactions
  BY DEF Reactions, Triggered
<1>2. CASE op[r].state # "absent"
  <2>1. UNCHANGED <<op, next_id>>
    BY <1>2 DEF EnqueueReaction
  <2>2. OutboxTypeOK'
    BY <2>1, Typed DEF OutboxTypeOK, TasksOK
  <2>3. \A p \in Ops : SameRow(p)
    BY <2>1 DEF SameRow
  <2> QED
    BY <2>2, <2>3, QuietStep
<1>3. CASE op[r].state = "absent"
  <2>1. r \in Ops /\ r \notin Once /\ \A p \in Ops : BatchOf[p] = BatchOf[r] => p = r
    BY <1>1, ReactionsAreAlone, OutboxAssumption
  <2>2. next_id \in Nat /\ next_id' = next_id + 1
    BY <1>3, Typed DEF EnqueueReaction, OutboxTypeOK
  <2>3. op \in [Ops -> Rows] /\ op' = [op EXCEPT ![r].state = "pending", ![r].id = next_id]
    BY <1>3, Typed DEF EnqueueReaction, OutboxTypeOK
  <2> HIDE DEF r
  <2>4. /\ op' \in [Ops -> Rows]
        /\ op'[r].state = "pending" /\ op'[r].attempt = op[r].attempt
        /\ \A p \in Ops \ {r} : op'[p] = op[p]
    BY <2>1, <2>2, <2>3 DEF Rows, States
  <2>5. \A p \in Ops \ {r} : SameState(p)
    BY <2>4 DEF SameState, Restorable
  <2>6. OrderInv'
    <3>1. /\ {r} \in SUBSET Ops
          /\ \A q \in {r}, p \in Ops : BatchOf[p] = BatchOf[q] => p \in {r}
          /\ \A q \in {r} : op[q].state = "absent" /\ op'[q].state = "pending"
      BY <1>3, <2>1, <2>4
    <3> QED
      BY <2>5, <3>1, OrderCommitted DEF OutboxInv
  <2>7. \A p \in Ops : RowSteps(p) /\ RowKept(p)
    BY <1>3, <2>4, <2>5 DEF RowSteps, RowMoves, RowKept
  <2>8. OutboxTypeOK'
    BY <2>2, <2>4, Typed DEF OutboxTypeOK, TasksOK
  <2> QED
    BY <2>6, <2>7, <2>8, KeptStep
<1> QED
  BY <1>2, <1>3

LEMMA QueueReactionKeeps ==
  ASSUME OutboxInv, NEW w \in Workers, NEW o \in Ops,
         QueueReaction(w, o) \/ ReconcileReaction(w, o)
  PROVE  OutboxInv' /\ Promise!PromiseNext
<1>1. /\ o \in Triggered /\ EnqueueReaction(o)
      /\ UNCHANGED <<wire, posted, confirmed, orders, faults>>
  BY DEF QueueReaction, ReconcileReaction, sendVars, apiVars
<1>2. TasksOK' /\ \A v \in Workers, p \in Ops : TaskKept(v, p)
  <2>1. CASE QueueReaction(w, o)
    BY <2>1, Typed, GoesKept DEF QueueReaction
  <2>2. CASE ReconcileReaction(w, o)
    BY <2>2, Typed, TasksStay DEF ReconcileReaction, sendVars
  <2> QED
    BY <2>1, <2>2
<1> QED
  BY <1>1, <1>2, ReactionKeeps

-----------------------------------------------------------------------------
(* A claim.                                                                  *)

LEMMA ClaimKeeps ==
  ASSUME OutboxInv, NEW w \in Workers, Claim(w)
  PROVE  OutboxInv' /\ Promise!PromiseNext
<1> DEFINE claimed == {o \in Ops : Claimable(o)}
<1>1. /\ op' = [o \in Ops |-> IF o \in claimed
                              THEN [op[o] EXCEPT !.state = "leased", !.attempt = @ + 1,
                                                 !.started = FALSE, !.live = TRUE]
                              ELSE op[o]]
      /\ task' = [task EXCEPT ![w] = [o \in Ops |->
                    IF o \in claimed THEN [phase |-> "claimed", token |-> op'[o].attempt] ELSE Free]]
      /\ UNCHANGED <<next_id, wire, posted, confirmed, orders, faults>>
      /\ \A o \in Ops : task[w][o].phase = "none"
  BY DEF Claim, apiVars, Idle
<1>2. /\ \A o \in claimed : op[o].state \in Unsent
      /\ \A o \in claimed, p \in Ops : o \in Later(p) => op[p].state = "delivered"
      /\ claimed \in SUBSET Ops
  BY DEF Claimable
<1> HIDE DEF claimed
<1>3. \A o \in claimed : [op[o] EXCEPT !.state = "leased", !.attempt = @ + 1,
                                       !.started = FALSE, !.live = TRUE] \in Rows
  <2> TAKE o \in claimed
  <2>1. op[o] \in Rows /\ op[o].attempt + 1 \in Nat
    BY <1>2, Typed
  <2> QED
    BY <2>1 DEF Rows, States
<1>4. op' \in [Ops -> Rows]
  BY <1>1, <1>3, Typed
<1>5. /\ \A o \in claimed : /\ op'[o].state = "leased" /\ op'[o].attempt = op[o].attempt + 1
                            /\ op'[o].started = FALSE
      /\ \A o \in Ops \ claimed : op'[o] = op[o]
  BY <1>1, <1>2, Typed DEF Rows
<1>6. \A o \in Ops \ claimed : SameState(o)
  BY <1>5 DEF SameState, Restorable
<1>7. OrderInv'
  BY <1>2, <1>5, <1>6, OrderClaimed DEF OutboxInv
<1>8. \A o \in Ops : RowSteps(o)
  BY <1>1, <1>2, <1>5, <1>6 DEF RowSteps, RowMoves
<1>9. /\ \A o \in claimed : task'[w][o].phase = "claimed" /\ task'[w][o].token = op'[o].attempt
      /\ \A o \in Ops \ claimed : task'[w][o].phase = "none"
      /\ \A v \in Workers \ {w} : task'[v] = task[v]
  BY <1>1, <1>2, Typed DEF TasksOK, Free
<1>10. TasksOK'
  <2>1. \A o \in Ops : op'[o].attempt \in Nat
    BY <1>4 DEF Rows
  <2>2. [o \in Ops |-> IF o \in claimed THEN [phase |-> "claimed", token |-> op'[o].attempt] ELSE Free]
          \in [Ops -> [phase : Phases, token : Nat]]
    BY <2>1 DEF Free, Phases
  <2> QED
    BY <1>1, <2>2, Typed DEF TasksOK
<1>11. \A o : Budget(o)' = Budget(o)
  BY <1>1 DEF Budget, Posts, Flying
<1>14. posted' = posted /\ confirmed' = confirmed
  BY <1>1
(* The lease of another worker is not that of this attempt.                  *)
<1>12. TaskInv'
  <2>1. ASSUME NEW v \in Workers, NEW o \in Ops
        PROVE  Knows(v, o)'
    <3>1. Knows(v, o) /\ op[o].attempt \in Nat /\ task[v][o].token \in Nat
      BY Typed DEF OutboxInv, TaskInv
    <3>2. CASE v = w
      BY <1>5, <1>9, <3>2, Typed DEF Knows, Proven
    <3>3. CASE v # w /\ o \in claimed
      <4>1. task'[v][o] = task[v][o] /\ op'[o].attempt = op[o].attempt + 1
        BY <1>5, <1>9, <3>3
      <4>2. task[v][o].phase # "none" => /\ task[v][o].token # op'[o].attempt
                                         /\ task[v][o].token <= op'[o].attempt
        BY <3>1, <4>1 DEF Knows
      <4> QED
        BY <1>14, <3>1, <4>1, <4>2 DEF Knows, Current, Proven
    <3>4. CASE v # w /\ o \notin claimed
      <4>1. task'[v][o] = task[v][o] /\ op'[o] = op[o] /\ Budget(o)' = Budget(o)
        BY <1>5, <1>9, <1>11, <3>4
      <4> QED
        BY <1>14, <3>1, <4>1 DEF Knows, Current, Proven
    <3> QED
      BY <3>2, <3>3, <3>4
  <2>2. ASSUME NEW v \in Workers, NEW o \in Ops
        PROVE  Alone(v, o)'
    <3>1. \A u \in Workers :
             /\ Alone(u, o) /\ task[u][o].token \in Nat
             /\ task[u][o].phase # "none" => task[u][o].token <= op[o].attempt
      <4> TAKE u \in Workers
      <4>1. Knows(u, o) /\ Alone(u, o)
        BY DEF OutboxInv, TaskInv
      <4> QED
        BY <4>1, Typed DEF Knows
    <3>2. CASE o \in claimed
      <4>1. /\ op'[o].attempt = op[o].attempt + 1 /\ op[o].attempt \in Nat
            /\ task'[w][o].token = op'[o].attempt
            /\ \A u \in Workers \ {w} : task'[u][o] = task[u][o]
        BY <1>5, <1>9, <3>2, Typed
      <4>2. ASSUME NEW u \in Workers, u # w, task'[u][o].phase # "none"
            PROVE  task'[u][o].token < task'[w][o].token
        <5>1. task'[u][o] = task[u][o]
          BY <4>1, <4>2
        <5>2. task[u][o].token <= op[o].attempt /\ task[u][o].token \in Nat
          BY <3>1, <4>2, <5>1
        <5> QED
          BY <4>1, <5>1, <5>2
      <4>3. \A u \in Workers : task'[u][o].token \in Nat
        BY <1>10 DEF TasksOK
      <4> QED
        BY <3>1, <4>1, <4>2, <4>3 DEF Alone
    <3>3. CASE o \notin claimed
      BY <1>9, <3>1, <3>3 DEF Alone
    <3> QED
      BY <3>2, <3>3
  <2> QED
    BY <2>1, <2>2 DEF TaskInv
<1>13. OutboxTypeOK'
  BY <1>1, <1>4, <1>10, Typed DEF OutboxTypeOK, TasksOK
<1> QED
  BY <1>1, <1>7, <1>8, <1>12, <1>13, TableStep

-----------------------------------------------------------------------------
(* Requests and their answers.                                               *)

LEMMA SendingStep ==
  ASSUME OutboxInv, OutboxTypeOK', NetOK', TaskInv', UNCHANGED confirmed,
         \A o \in Ops : SameState(o),
         \A m \in Once : /\ WithinBudget(m)'
                         /\ \/ Posts(m)' = Posts(m)
                            \/ Posts(m)' = Posts(m) + 1 /\ Flying(m) > 0,
         \A r \in wire' \cup posted' : \/ r \in wire \cup posted
                                       \/ r[1] \in Ops /\ op[r[1]].state = "leased"
  PROVE  OutboxInv' /\ Promise!PromiseNext
<1>1. OrderInv'
  BY OrderUnmoved DEF OutboxInv
<1>2. MoneyInv'
  BY DEF MoneyInv
<1>3. SentInOrder'
  <2>1. ASSUME NEW r \in wire' \cup posted', NEW o \in Ops, r[1] \in Later(o)
        PROVE  op[o].state = "delivered"
    <3>1. CASE r \in wire \cup posted
      BY <2>1, <3>1 DEF OutboxInv, SentInOrder
    <3>2. CASE r[1] \in Ops /\ op[r[1]].state = "leased"
      BY <2>1, <3>2 DEF OutboxInv, OrderInv, EarlierDelivered, Had
    <3> QED
      BY <3>1, <3>2
  <2>2. ASSUME NEW m \in Once, op[m].state = "delivered"
        PROVE  Posts(m)' > 0
    <3>1. Posts(m) > 0 /\ Posts(m) \in Nat
      BY <2>2, PostsAreNat DEF OutboxInv, SentInOrder
    <3> QED
      BY <3>1
  <2>3. Once \subseteq Ops
    BY DEF Once
  <2> QED
    BY <2>1, <2>2, <2>3 DEF SentInOrder, SameState
<1>4. ASSUME NEW m \in Once
      PROVE  PromiseStep(m)
  <2>1. Outcome(m)' = Outcome(m) /\ confirmed'[m] = confirmed[m]
    BY DEF Outcome, SameState, Once
  <2>2. CASE Posts(m)' = Posts(m)
    BY <2>1, <2>2, PromiseIs
  <2>3. CASE Posts(m)' = Posts(m) + 1 /\ Flying(m) > 0
    <3>1. /\ Posts(m) \in Nat /\ Flying(m) \in Nat /\ confirmed[m] \in Nat
          /\ Budget(m) = Posts(m) + Flying(m)
      BY PostsAreNat, Typed DEF OutboxInv, OutboxTypeOK, Budget, Once
    <3>2. /\ Budget(m) <= confirmed[m] + 1
          /\ Outcome(m) = "refused" => Budget(m) <= confirmed[m]
      BY DEF OutboxInv, MoneyInv, WithinBudget, Fresh, Outcome, OutcomeOf
    <3>3. CASE Outcome(m) = "refused"
      <4>1. Posts(m) + 1 < 1 + confirmed[m]
        BY <2>3, <3>1, <3>2, <3>3
      <4> QED
        BY <2>1, <2>3, <3>3, <4>1, PromiseIs
    <3>4. CASE Outcome(m) # "refused"
      <4>1. Posts(m) + 0 < 1 + confirmed[m]
        BY <2>3, <3>1, <3>2
      <4> QED
        BY <2>1, <2>3, <3>4, <4>1, PromiseIs
    <3> QED
      BY <3>3, <3>4
  <2> QED
    BY <2>2, <2>3
<1>5. Promise!PromiseNext
  BY <1>4 DEF Promise!PromiseNext, PromiseStep
<1> QED
  BY <1>1, <1>2, <1>3, <1>5 DEF OutboxInv

(* A state that is no nearer to its budget stays within it.                  *)
LEMMA StillWithin ==
  ASSUME OutboxInv, NEW m \in Once, SameState(m), confirmed' = confirmed,
         Budget(m) \in Nat, Budget(m)' \in Nat, Budget(m)' <= Budget(m),
         op'[m].started = op[m].started \/ op'[m].started
  PROVE  WithinBudget(m)'
<1>1. WithinBudget(m) /\ confirmed[m] \in Nat
  BY Typed DEF OutboxInv, MoneyInv, OutboxTypeOK, Once
<1>2. Fresh(m)' => Fresh(m)
  BY DEF Fresh, SameState
<1>3. /\ Fresh(m) => Budget(m) <= confirmed[m]
      /\ Budget(m) <= confirmed[m] + 1
  BY <1>1 DEF WithinBudget
<1>4. WithinBudget(m)' <=> /\ Fresh(m)' => Budget(m)' <= confirmed[m]
                           /\ Budget(m)' <= confirmed[m] + 1
  BY DEF WithinBudget
<1> QED
  BY <1>1, <1>2, <1>3, <1>4

LEMMA BudgetsAreNat ==
  ASSUME NetOK'
  PROVE  \A o : Posts(o)' \in Nat /\ Flying(o)' \in Nat /\ Budget(o)' \in Nat
<1> TAKE o
<1>1. IsFiniteSet({r \in posted' : r[1] = o}) /\ IsFiniteSet({r \in wire' : r[1] = o})
  BY FS_Subset DEF NetOK
<1>2. Posts(o)' \in Nat /\ Flying(o)' \in Nat
  BY <1>1, FS_CardinalityType DEF Posts, Flying
<1> QED
  BY <1>2 DEF Budget

LEMMA AcceptKeeps ==
  ASSUME OutboxInv, NEW r \in wire, Accept(r)
  PROVE  OutboxInv' /\ Promise!PromiseNext
<1>1. /\ wire' = wire \ {r} /\ posted' = posted \cup {r}
      /\ UNCHANGED <<op, next_id, task, confirmed, orders, faults>>
  BY DEF Accept, apiVars
<1>2. NetOK
  BY DEF OutboxInv
<1>3. /\ NetOK' /\ Flying(r[1]) > 0
      /\ Posts(r[1])' = Posts(r[1]) \/ Posts(r[1])' = Posts(r[1]) + 1
      /\ Budget(r[1])' <= Budget(r[1])
      /\ \A o : o # r[1] => Posts(o)' = Posts(o) /\ Budget(o)' = Budget(o)
  BY <1>1, <1>2, Taken
<1>4. \A o : Budget(o) \in Nat /\ Budget(o)' \in Nat
  BY <1>2, <1>3, PostsAreNat, BudgetsAreNat
<1>5. \A o \in Once : Budget(o) \in Nat /\ Budget(o)' \in Nat /\ Budget(o)' <= Budget(o)
  <2> TAKE o \in Once
  <2>1. Budget(o)' = Budget(o) \/ o = r[1]
    BY <1>3
  <2> QED
    BY <1>3, <1>4, <2>1
<1>6. \A o \in Ops : SameState(o) /\ RowKept(o)
  BY <1>1 DEF SameState, RowKept, Restorable
<1>7. \A m \in Once : WithinBudget(m)'
  <2>1. Once \subseteq Ops
    BY DEF Once
  <2> QED
    BY <1>1, <1>5, <1>6, <2>1, StillWithin
<1>8. TasksOK' /\ \A v \in Workers, p \in Ops : TaskKept(v, p)
  BY <1>1, Typed, TasksStay
<1>9. confirmed \in [Ops -> Nat] /\ confirmed' = confirmed /\ Once \subseteq Ops
  BY <1>1, Typed DEF OutboxTypeOK, Once
<1>10. TaskInv'
  <2>1. \A o \in Once : confirmed'[o] >= confirmed[o]
    BY <1>9
  <2> QED
    BY <1>1, <1>5, <1>6, <1>8, <1>9, <2>1, TasksKept DEF OutboxInv
<1>11. OutboxTypeOK'
  BY <1>1, <1>8, Typed DEF OutboxTypeOK, TasksOK
<1> QED
  BY <1>1, <1>3, <1>6, <1>7, <1>10, <1>11, SendingStep

(* A task learns something of its request.                                   *)
LEMMA LearnedStep ==
  ASSUME OutboxInv, NEW w \in Workers, NEW o \in Ops, task[w][o].phase # "none",
         NEW phase \in Phases \ {"claimed"}, Goes(w, o, phase),
         UNCHANGED <<op, next_id, posted, confirmed, orders, faults>>,
         wire' \subseteq wire, NetOK',
         \A m \in Once : Posts(m)' = Posts(m) /\ Budget(m)' <= Budget(m),
         phase = "ok" /\ o \in Once => <<o, task[w][o].token>> \in posted,
         phase \in Proven /\ o \in Once => Budget(o)' <= confirmed[o]
  PROVE  OutboxInv' /\ Promise!PromiseNext
<1>1. /\ TasksOK'
      /\ task'[w][o].phase = phase /\ task'[w][o].token = task[w][o].token
      /\ \A v \in Workers, p \in Ops : v # w \/ p # o => task'[v][p] = task[v][p]
  BY Typed, GoesOn
<1>2. \A m \in Once : Budget(m) \in Nat /\ Budget(m)' \in Nat /\ Budget(m)' <= Budget(m)
  BY PostsAreNat, BudgetsAreNat DEF OutboxInv
<1>3. \A p \in Ops : SameState(p) /\ op'[p] = op[p]
  BY DEF SameState, Restorable
<1>4. \A m \in Once : WithinBudget(m)'
  <2>1. Once \subseteq Ops
    BY DEF Once
  <2> QED
    BY <1>2, <1>3, <2>1, StillWithin
<1>5. ASSUME NEW v \in Workers, NEW p \in Ops
      PROVE  Knows(v, p)' /\ Alone(v, p)'
  <2>1. \A u \in Workers : Knows(u, p) /\ Alone(u, p)
    BY DEF OutboxInv, TaskInv
  <2>2. \A u \in Workers : /\ task'[u][p].token = task[u][p].token
                           /\ task'[u][p].phase # "none" => task[u][p].phase # "none"
    BY <1>1
  <2>3. Alone(v, p)'
    BY <2>1, <2>2 DEF Alone
  <2>4. p \in Once /\ Budget(p) <= confirmed[p] => Budget(p)' <= confirmed[p]
    <3>1. confirmed[p] \in Nat
      BY Typed DEF OutboxTypeOK
    <3> QED
      BY <1>2, <3>1
  <2>5. CASE v = w /\ p = o
    <3>1. task'[v][p].phase = phase /\ task'[v][p].token = task[v][p].token
      BY <1>1, <2>5
    <3>2. task[v][p].token <= op[p].attempt
      BY <2>1, <2>5 DEF Knows
    <3>3. phase # "claimed"
      OBVIOUS
    <3> QED
      BY <2>3, <2>5, <3>1, <3>2, <3>3 DEF Knows
  <2>6. CASE v # w \/ p # o
    <3>1. task'[v][p] = task[v][p]
      BY <1>1, <2>6
    <3>2. Knows(v, p)
      BY <2>1
    <3> QED
      BY <2>3, <2>4, <3>1, <3>2 DEF Knows, Current
  <2> QED
    BY <2>5, <2>6
<1>6. TaskInv'
  BY <1>5 DEF TaskInv
<1>7. OutboxTypeOK'
  BY <1>1, Typed DEF OutboxTypeOK, TasksOK
<1>8. \A r \in wire' \cup posted' : r \in wire \cup posted
  OBVIOUS
<1> QED
  BY <1>3, <1>4, <1>6, <1>7, <1>8, SendingStep

LEMMA AnswerKeeps ==
  ASSUME OutboxInv, NEW w \in Workers, NEW o \in Ops, Answer(w, o)
  PROVE  OutboxInv' /\ Promise!PromiseNext
<1>1. /\ task[w][o].phase = "sent"
      /\ UNCHANGED <<op, next_id, posted, confirmed, orders, faults>>
  BY DEF Answer, apiVars
<1>2. NetOK
  BY DEF OutboxInv
<1>3. o \in Once => Requests(w, o) = {<<o, task[w][o].token>>}
  BY DEF Requests, Once
<1>4. o \notin Once => Requests(w, o) = {}
  BY DEF Requests, Once
<1>5. ASSUME UNCHANGED wire
      PROVE  /\ NetOK' /\ wire' \subseteq wire
             /\ \A m \in Once : Posts(m)' = Posts(m) /\ Budget(m)' <= Budget(m)
  <2>1. \A m : Posts(m)' = Posts(m) /\ Budget(m)' = Budget(m) /\ Budget(m) \in Nat
    BY <1>1, <1>2, <1>5, PostsAreNat DEF Posts, Flying, Budget
  <2> QED
    BY <1>1, <1>2, <1>5, <2>1 DEF NetOK
<1>6. CASE Requests(w, o) \subseteq posted /\ Goes(w, o, "ok") /\ UNCHANGED wire
  <2>1. o \in Once => <<o, task[w][o].token>> \in posted
    BY <1>3, <1>6
  <2> QED
    BY <1>1, <1>5, <1>6, <2>1, LearnedStep DEF Phases, Proven
<1>7. ASSUME NEW phase \in Proven, Goes(w, o, phase),
             Requests(w, o) \subseteq wire, wire' = wire \ Requests(w, o)
      PROVE  OutboxInv' /\ Promise!PromiseNext
  <2>1. phase \in Phases \ {"claimed"} /\ phase # "ok"
    BY <1>7 DEF Proven, Phases
  <2>2. CASE o \in Once
    <3> DEFINE r == <<o, task[w][o].token>>
    <3>1. r \in wire /\ wire' = wire \ {r} /\ r[1] = o /\ posted' = posted
      BY <1>1, <1>3, <1>7, <2>2
    <3> HIDE DEF r
    <3>2. /\ NetOK' /\ Budget(o)' = Budget(o) - 1
          /\ \A m : Posts(m)' = Posts(m)
          /\ \A m : m # o => Budget(m)' = Budget(m)
      BY <1>2, <3>1, Refused
    <3>3. /\ Budget(o) \in Nat /\ confirmed[o] \in Nat /\ Budget(o) <= confirmed[o] + 1
      BY <1>2, <2>2, PostsAreNat, Typed DEF OutboxInv, MoneyInv, WithinBudget, OutboxTypeOK
    <3>4. Budget(o)' <= confirmed[o]
      BY <3>2, <3>3
    <3>5. \A m \in Once : Posts(m)' = Posts(m) /\ Budget(m)' <= Budget(m)
      <4> TAKE m \in Once
      <4>1. Budget(m) \in Nat
        BY <1>2, PostsAreNat
      <4>2. m = o \/ Budget(m)' = Budget(m)
        BY <3>2
      <4> QED
        BY <3>2, <4>1, <4>2
    <3> QED
      BY <1>1, <1>7, <2>1, <3>1, <3>2, <3>4, <3>5, LearnedStep
  <2>3. CASE o \notin Once
    <3>1. UNCHANGED wire
      BY <1>4, <1>7, <2>3
    <3> QED
      BY <1>1, <1>5, <1>7, <2>1, <2>3, <3>1, LearnedStep
  <2> QED
    BY <2>2, <2>3
<1>8. CASE Goes(w, o, "unknown") /\ UNCHANGED wire
  BY <1>1, <1>5, <1>8, LearnedStep DEF Phases, Proven
<1>9. "rejected" \in Proven /\ "transient" \in Proven /\ "reply_missing" \in Proven
  BY DEF Proven
<1> QED
  BY <1>6, <1>7, <1>8, <1>9 DEF Answer

(* A request is made: what was fresh no longer is.                           *)
LEMMA RequestKeeps ==
  ASSUME OutboxInv, NEW w \in Workers, NEW o \in Ops,
         task[w][o].phase = "claimed", Owned(w, o),
         op' = [op EXCEPT ![o].started = TRUE],
         wire' = wire \cup Requests(w, o), Goes(w, o, "sent"),
         UNCHANGED <<next_id, posted, confirmed, orders, faults>>
  PROVE  OutboxInv' /\ Promise!PromiseNext
<1>1. /\ TasksOK'
      /\ task'[w][o].phase = "sent" /\ task'[w][o].token = task[w][o].token
      /\ \A v \in Workers, p \in Ops : v # w \/ p # o => task'[v][p] = task[v][p]
      /\ \A v \in Workers, p \in Ops : TaskKept(v, p)
  <2>1. "sent" \in Phases
    BY DEF Phases
  <2> QED
    BY <2>1, Typed, GoesOn, GoesKept
<1>2. op \in [Ops -> Rows]
  BY Typed DEF OutboxTypeOK
<1>3. /\ op' \in [Ops -> Rows]
      /\ op'[o].state = op[o].state /\ op'[o].class = op[o].class
      /\ op'[o].attempt = op[o].attempt /\ op'[o].started
      /\ \A p \in Ops \ {o} : op'[p] = op[p]
  BY <1>2 DEF Rows
<1>4. \A p \in Ops : SameState(p)
  BY <1>3 DEF SameState, Restorable
<1>5. op[o].state = "leased" /\ Current(w, o) /\ ~ op[o].started
  <2>1. op[o].state = "leased" /\ Current(w, o)
    BY DEF Owned, Current
  <2>2. Knows(w, o)
    BY DEF OutboxInv, TaskInv
  <2> QED
    BY <2>1, <2>2 DEF Knows
<1>6. NetOK
  BY DEF OutboxInv
<1>7. CASE o \in Once
  <2> DEFINE r == <<o, task[w][o].token>>
  <2>1. wire' = wire \cup {r} /\ r[1] = o /\ r \in Once \X Nat /\ posted' = posted
    BY <1>7, Typed DEF Requests, Once
  <2> HIDE DEF r
  <2>2. /\ NetOK' /\ Budget(o)' <= Budget(o) + 1
        /\ \A m : Posts(m)' = Posts(m)
        /\ \A m : m # o => Budget(m)' = Budget(m)
    BY <1>6, <2>1, Sent
  <2>3. /\ Budget(o) \in Nat /\ Budget(o)' \in Nat /\ confirmed[o] \in Nat
        /\ Budget(o) <= confirmed[o]
    <3>1. Fresh(o)
      BY <1>5 DEF Fresh
    <3>2. Budget(o) <= confirmed[o]
      BY <1>7, <3>1 DEF OutboxInv, MoneyInv, WithinBudget
    <3> QED
      BY <1>6, <2>2, <3>2, PostsAreNat, BudgetsAreNat, Typed DEF OutboxTypeOK
  <2>4. WithinBudget(o)'
    <3>1. ~ Fresh(o)'
      BY <1>3, <1>5 DEF Fresh, Restorable
    <3>2. Budget(o)' <= confirmed[o] + 1
      BY <2>2, <2>3
    <3> QED
      BY <3>1, <3>2 DEF WithinBudget
  <2>5. ASSUME NEW m \in Once, m # o
        PROVE  WithinBudget(m)'
    <3>1. Budget(m) \in Nat /\ Budget(m)' = Budget(m) /\ op'[m] = op[m] /\ SameState(m)
      BY <1>3, <1>4, <1>6, <2>2, <2>5, PostsAreNat DEF Once
    <3>2. Budget(m)' \in Nat /\ Budget(m)' <= Budget(m)
      BY <3>1
    <3>3. op'[m].started = op[m].started /\ confirmed' = confirmed
      BY <3>1
    <3> QED
      BY <3>1, <3>2, <3>3, StillWithin
  <2>6. \A m \in Once : WithinBudget(m)' /\ Posts(m)' = Posts(m)
    BY <2>2, <2>4, <2>5
  <2>7. TaskInv'
    <3>1. ASSUME NEW v \in Workers, NEW p \in Ops
          PROVE  Knows(v, p)' /\ Alone(v, p)'
      <4>1. Knows(v, p) /\ Alone(v, p) /\ TaskKept(v, p)
        BY <1>1 DEF OutboxInv, TaskInv
      <4>2. Alone(v, p)'
        <5>1. \A u \in Workers : TaskKept(u, p)
          BY <1>1
        <5> QED
          BY <4>1, <5>1 DEF Alone, TaskKept
      <4>3. CASE p # o
        <5>1. op'[p] = op[p] /\ task'[v][p] = task[v][p]
          BY <1>1, <1>3, <4>3
        <5>2. p \in Once => Budget(p)' = Budget(p)
          BY <2>2, <4>3
        <5> QED
          BY <2>1, <4>1, <4>2, <5>1, <5>2 DEF Knows, Current
      <4>4. CASE p = o /\ v = w
        <5>1. task[v][p].token <= op[p].attempt
          BY <4>1, <4>4 DEF Knows
        <5> QED
          BY <1>1, <1>3, <4>2, <4>4, <5>1 DEF Knows, Proven
      <4>5. CASE p = o /\ v # w
        <5>1. task'[v][p] = task[v][p]
          BY <1>1, <4>5
        <5>2. task[v][p].phase # "none" => task[v][p].token # task[w][p].token
          BY <4>1, <4>5 DEF Alone
        <5>3. task[w][p].token = op[p].attempt
          BY <1>5, <4>5 DEF Current
        <5> QED
          BY <1>3, <2>1, <4>1, <4>2, <4>5, <5>1, <5>2, <5>3 DEF Knows, Current, Proven
      <4> QED
        BY <4>3, <4>4, <4>5
    <3> QED
      BY <3>1 DEF TaskInv
  <2>8. OutboxTypeOK'
    BY <1>1, <1>3, <2>1, Typed DEF OutboxTypeOK, TasksOK
  <2>9. \A q \in wire' \cup posted' : \/ q \in wire \cup posted
                                      \/ q[1] \in Ops /\ op[q[1]].state = "leased"
    BY <1>5, <2>1
  <2> QED
    BY <1>4, <2>2, <2>6, <2>7, <2>8, <2>9, SendingStep
<1>8. CASE o \notin Once
  <2>1. UNCHANGED wire
    BY <1>8 DEF Requests, Once
  <2>2. \A m : Posts(m)' = Posts(m) /\ Budget(m)' = Budget(m) /\ Budget(m) \in Nat
    BY <1>6, <2>1, PostsAreNat DEF Posts, Flying, Budget
  <2>3. ASSUME NEW m \in Once
        PROVE  WithinBudget(m)'
    <3>1. op'[m] = op[m] /\ SameState(m)
      BY <1>3, <1>4, <1>8 DEF Once
    <3>2. Budget(m) \in Nat /\ Budget(m)' \in Nat /\ Budget(m)' <= Budget(m)
      BY <2>2
    <3>3. op'[m].started = op[m].started /\ confirmed' = confirmed
      BY <3>1
    <3> QED
      BY <3>1, <3>2, <3>3, StillWithin
  <2>4. TaskInv'
    <3>1. ASSUME NEW v \in Workers, NEW p \in Ops
          PROVE  Knows(v, p)' /\ Alone(v, p)'
      <4>1. Knows(v, p) /\ Alone(v, p)
        BY DEF OutboxInv, TaskInv
      <4>2. Alone(v, p)'
        <5>1. \A u \in Workers : TaskKept(u, p)
          BY <1>1
        <5> QED
          BY <4>1, <5>1 DEF Alone, TaskKept
      <4>3. CASE p # o
        <5>1. op'[p] = op[p] /\ task'[v][p] = task[v][p]
          BY <1>1, <1>3, <4>3
        <5> QED
          BY <2>2, <4>1, <4>2, <5>1 DEF Knows, Current
      <4>4. CASE p = o /\ v = w
        <5>1. task[v][p].token <= op[p].attempt
          BY <4>1, <4>4 DEF Knows
        <5> QED
          BY <1>1, <1>3, <4>2, <4>4, <5>1 DEF Knows, Proven
      <4>5. CASE p = o /\ v # w
        <5>1. task'[v][p] = task[v][p]
          BY <1>1, <4>5
        <5>2. task[v][p].phase # "none" => task[v][p].token # task[w][p].token
          BY <4>1, <4>5 DEF Alone
        <5>3. task[w][p].token = op[p].attempt
          BY <1>5, <4>5 DEF Current
        <5> QED
          BY <1>3, <1>8, <4>1, <4>2, <4>5, <5>1, <5>2, <5>3 DEF Knows, Current, Proven
      <4> QED
        BY <4>3, <4>4, <4>5
    <3> QED
      BY <3>1 DEF TaskInv
  <2>5. OutboxTypeOK'
    BY <1>1, <1>3, <2>1, Typed DEF OutboxTypeOK, TasksOK
  <2>6. NetOK'
    BY <1>6, <2>1 DEF NetOK
  <2>7. \A q \in wire' \cup posted' : q \in wire \cup posted
    BY <2>1
  <2> QED
    BY <1>4, <2>2, <2>3, <2>4, <2>5, <2>6, <2>7, SendingStep
<1> QED
  BY <1>7, <1>8

LEMMA StartKeeps ==
  ASSUME OutboxInv, NEW w \in Workers, NEW o \in Ops, StartRequest(w, o)
  PROVE  OutboxInv' /\ Promise!PromiseNext
<1>1. UNCHANGED <<next_id, posted, confirmed, orders, faults>>
  BY DEF StartRequest, apiVars
<1>2. CASE /\ task[w][o].phase = "claimed" /\ Owned(w, o)
           /\ op' = [op EXCEPT ![o].started = TRUE]
           /\ wire' = wire \cup Requests(w, o) /\ Goes(w, o, "sent")
  BY <1>1, <1>2, RequestKeeps
<1>3. CASE Done(w, o) /\ UNCHANGED <<op, wire>>
  <2>1. TasksOK' /\ \A v \in Workers, p \in Ops : TaskKept(v, p)
    BY <1>3, Typed, IsDone
  <2>2. OutboxTypeOK'
    BY <1>1, <1>3, <2>1, Typed DEF OutboxTypeOK, TasksOK
  <2>3. \A p \in Ops : SameRow(p)
    BY <1>3 DEF SameRow
  <2> QED
    BY <1>1, <1>3, <2>1, <2>2, <2>3, QuietStep
<1> QED
  BY <1>2, <1>3 DEF StartRequest

-----------------------------------------------------------------------------
(* What is recorded of an attempt.                                           *)

LEMMA PostedIsCounted ==
  ASSUME NetOK, NEW r \in posted
  PROVE  Posts(r[1]) > 0
<1>1. IsFiniteSet({x \in posted : x[1] = r[1]})
  BY FS_Subset DEF NetOK
<1>2. r \in {x \in posted : x[1] = r[1]}
  OBVIOUS
<1>3. Posts(r[1]) # 0
  BY <1>1, <1>2, FS_EmptySet DEF Posts
<1> QED
  BY <1>3, PostsAreNat

LEMMA DeliverKeeps ==
  ASSUME OutboxInv, NEW w \in Workers, NEW o \in Ops, Deliver(w, o)
  PROVE  OutboxInv' /\ Promise!PromiseNext
<1>1. task[w][o].phase = "ok" /\ UNCHANGED <<next_id, wire, posted, confirmed, orders, faults>>
  BY DEF Deliver, apiVars
<1>2. CASE ~ (Owned(w, o) /\ op[o].started)
  <2>1. UNCHANGED op /\ Done(w, o)
    BY <1>2 DEF Deliver
  <2>2. TasksOK' /\ \A v \in Workers, p \in Ops : TaskKept(v, p)
    BY <2>1, Typed, IsDone
  <2>3. OutboxTypeOK'
    BY <1>1, <2>1, <2>2, Typed DEF OutboxTypeOK, TasksOK
  <2>4. \A p \in Ops : SameRow(p)
    BY <2>1 DEF SameRow
  <2> QED
    BY <1>1, <2>2, <2>3, <2>4, QuietStep
<1>3. CASE Owned(w, o) /\ op[o].started
  <2>1. /\ op' = [op EXCEPT ![o].state = "delivered", ![o].class = "history", ![o].live = FALSE]
        /\ Goes(w, o, "history")
    BY <1>3 DEF Deliver
  <2>2. op \in [Ops -> Rows] /\ op[o].state = "leased"
    BY <1>3, Typed DEF OutboxTypeOK, Owned
  <2>3. /\ op' \in [Ops -> Rows]
        /\ op'[o].state = "delivered" /\ op'[o].attempt = op[o].attempt
        /\ \A p \in Ops \ {o} : op'[p] = op[p]
    <3>1. "delivered" \in States /\ "history" \in Classes
      BY DEF States, Classes
    <3>2. op' = RowSet(op, o, "delivered", "history")
      BY <2>1 DEF RowSet
    <3> QED
      BY <2>2, <3>1, <3>2, RowIsSet
  <2>4. \A p \in Ops \ {o} : SameState(p)
    BY <2>3 DEF SameState, Restorable
  <2>5. OrderInv'
    BY <2>2, <2>3, <2>4, OrderDelivered DEF OutboxInv
  <2>6. o \in Once => Posts(o) > 0
    <3>1. o \in Once => <<o, task[w][o].token>> \in posted
      BY <1>1 DEF OutboxInv, TaskInv, Knows
    <3> QED
      BY <3>1, PostedIsCounted DEF OutboxInv
  <2>7. \A p \in Ops : RowSteps(p) /\ RowKept(p)
    BY <1>1, <2>2, <2>3, <2>4, <2>6 DEF RowSteps, RowMoves, RowKept
  <2>8. TasksOK' /\ \A v \in Workers, p \in Ops : TaskKept(v, p)
    BY <1>1, <2>1, Typed, GoesKept
  <2>9. OutboxTypeOK'
    BY <1>1, <2>3, <2>8, Typed DEF OutboxTypeOK, TasksOK
  <2> QED
    BY <1>1, <2>5, <2>7, <2>8, <2>9, KeptStep
<1> QED
  BY <1>2, <1>3

(* A statement that finds the lease gone changes nothing.                    *)
LEMMA RecordStep ==
  ASSUME OutboxInv, NEW w \in Workers, NEW o \in Ops, NEW table, Record(w, o, table)
  PROVE  /\ UNCHANGED <<next_id, wire, posted, confirmed, orders, faults>>
         /\ TasksOK' /\ \A v \in Workers, p \in Ops : TaskKept(v, p)
         /\ Owned(w, o) => op' = table
         /\ ~ Owned(w, o) => OutboxInv' /\ Promise!PromiseNext
<1>1. UNCHANGED <<next_id, wire, posted, confirmed, orders, faults>>
  BY DEF Record, apiVars
<1>2. TasksOK' /\ \A v \in Workers, p \in Ops : TaskKept(v, p)
  BY Typed, IsDone DEF Record
<1>3. ASSUME ~ Owned(w, o)
      PROVE  OutboxInv' /\ Promise!PromiseNext
  <2>1. op' = op
    BY <1>3 DEF Record
  <2>2. OutboxTypeOK'
    BY <1>1, <1>2, <2>1, Typed DEF OutboxTypeOK, TasksOK
  <2>3. \A p \in Ops : SameRow(p)
    BY <2>1 DEF SameRow
  <2> QED
    BY <1>1, <1>2, <2>2, <2>3, QuietStep
<1> QED
  BY <1>1, <1>2, <1>3 DEF Record

(* Whatever is sent again, or refused, was proven not to have been sent.     *)
LEMMA RetryIsSure ==
  ASSUME OutboxInv, NEW w \in Workers, NEW o \in Ops, Owned(w, o)
  PROVE  /\ task[w][o].phase \in Proven => Sure(o)
         /\ Retryable(w, o) => Sure(o)
         /\ task[w][o].phase = "claimed" => ~ op[o].started
<1>1. Knows(w, o) /\ Current(w, o)
  BY DEF OutboxInv, TaskInv, Owned, Current
<1> QED
  BY <1>1 DEF Knows, Sure, Retryable, Proven, Once

LEMMA RetryKeeps ==
  ASSUME OutboxInv, NEW w \in Workers, NEW o \in Ops, Retry(w, o) \/ RetryBare(w, o)
  PROVE  OutboxInv' /\ Promise!PromiseNext
<1>1. PICK table : /\ Record(w, o, table)
                   /\ \/ table = Waiting(o)
                      \/ table = [Waiting(o) EXCEPT ![o].bare = TRUE]
  BY DEF Retry, RetryBare
<1>2. /\ UNCHANGED <<next_id, wire, posted, confirmed, orders, faults>>
      /\ TasksOK' /\ \A v \in Workers, p \in Ops : TaskKept(v, p)
      /\ Owned(w, o) => op' = table
      /\ ~ Owned(w, o) => OutboxInv' /\ Promise!PromiseNext
  BY <1>1, RecordStep
<1>3. CASE Owned(w, o)
  <2>1. op \in [Ops -> Rows] /\ op[o].state = "leased" /\ op' = table
    BY <1>2, <1>3, Typed DEF OutboxTypeOK, Owned
  <2>2. /\ Waiting(o) \in [Ops -> Rows]
        /\ Waiting(o)[o].state = "retry_wait"
        /\ Waiting(o)[o].attempt = op[o].attempt /\ Waiting(o)[o].started = op[o].started
        /\ \A p \in Ops \ {o} : Waiting(o)[p] = op[p]
    <3>1. "retry_wait" \in States /\ "none" \in Classes
      BY DEF States, Classes
    <3>2. Waiting(o) = RowSet(op, o, "retry_wait", "none")
      BY DEF Waiting, RowSet
    <3> QED
      BY <2>1, <3>1, <3>2, RowIsSet
  <2>3. /\ op' \in [Ops -> Rows]
        /\ op'[o].state = "retry_wait"
        /\ op'[o].attempt = op[o].attempt /\ op'[o].started = op[o].started
        /\ \A p \in Ops \ {o} : op'[p] = op[p]
    <3>1. CASE table = Waiting(o)
      BY <2>1, <2>2, <3>1
    <3>2. CASE table = [Waiting(o) EXCEPT ![o].bare = TRUE]
      <4>1. PICK rows \in [Ops -> Rows] : rows = Waiting(o)
        BY <2>2
      <4>2. op' = [rows EXCEPT ![o].bare = TRUE]
        BY <2>1, <3>2, <4>1
      <4>3. /\ rows[o] \in Rows /\ rows[o].state = "retry_wait"
            /\ rows[o].attempt = op[o].attempt /\ rows[o].started = op[o].started
            /\ \A p \in Ops \ {o} : rows[p] = op[p]
        BY <2>2, <4>1
      <4> QED
        BY <4>2, <4>3 DEF Rows
    <3> QED
      BY <1>1, <3>1, <3>2
  <2>4. Ending({}, "none")
    BY <2>1, <2>3 DEF Ending, EndsWith, Behind, SameState, Restorable
  <2>5. Sure(o)
    BY <1>3, RetryIsSure DEF Retry, RetryBare, Proven
  <2>6. OutboxTypeOK'
    BY <1>2, <2>3, Typed DEF OutboxTypeOK, TasksOK
  <2>7. \A p \in Ops : op[p].state = "leased" /\ op'[p].state \in {"retry_wait", "dead_letter"}
                       => Sure(p) \/ ~ op[p].started
    BY <2>3, <2>5
  <2>8. \A p \in Ops : op'[p].attempt = op[p].attempt /\ op'[p].started = op[p].started
    BY <2>3
  <2> QED
    BY <1>2, <2>4, <2>6, <2>7, <2>8, EndingStep
<1> QED
  BY <1>2, <1>3

-----------------------------------------------------------------------------
(* Operations end.                                                           *)

LEMMA EndedIs ==
  ASSUME OutboxInv, NEW o \in Ops, NEW state \in Doubted \cup {"cancelled"}, NEW class \in Classes,
         op' = WithoutLater(RowSet(op, o, state, "none"), {o}, class)
  PROVE  /\ op' \in [Ops -> Rows] /\ op'[o].state = state /\ op'[o].class = "none"
         /\ \A p \in Ops \ {o} : EndsWith(p, {o}, class)
         /\ \A p \in Ops : op'[p].attempt = op[p].attempt /\ op'[p].started = op[p].started
         /\ \A p \in Ops \ {o} : op'[p].state # op[p].state => op'[p].state = "cancelled"
<1>1. PICK table : table = RowSet(op, o, state, "none")
  OBVIOUS
<1>2. state \in States /\ "none" \in Classes
  BY DEF Doubted, States, Classes
<1>3. op \in [Ops -> Rows]
  BY Typed DEF OutboxTypeOK
<1>4. /\ table \in [Ops -> Rows] /\ table[o].state = state /\ table[o].class = "none"
      /\ table[o].attempt = op[o].attempt /\ table[o].started = op[o].started
      /\ \A p \in Ops \ {o} : table[p] = op[p]
  BY <1>1, <1>2, <1>3, RowIsSet
<1>5. PICK heads : heads = {o}
  OBVIOUS
<1>6. /\ op' \in [Ops -> Rows]
      /\ \A p \in Ops :
           /\ op'[p].attempt = table[p].attempt /\ op'[p].started = table[p].started
           /\ IF table[p].state \in Unsent /\ \E h \in heads : p \in Later(h)
              THEN op'[p].state = "cancelled" /\ op'[p].class = class
              ELSE op'[p] = table[p]
  <2>1. op' = WithoutLater(table, {o}, class)
    BY <1>1
  <2>2. op' = WithoutLater(table, heads, class)
    BY <1>5, <2>1
  <2>3. table \in [Ops -> Rows] /\ class \in Classes
    BY <1>4
  <2> QED
    BY <2>2, <2>3, LaterGoWith
<1>7. op'[o].state = state /\ op'[o].class = "none"
  BY <1>4, <1>6 DEF Doubted, Unsent
<1>8. \A p \in Ops \ {o} : EndsWith(p, {o}, class)
  <2>1. \A p \in Ops \ {o} : EndsWith(p, heads, class)
    BY <1>4, <1>6 DEF EndsWith, Behind, SameState, Restorable
  <2> QED
    BY <1>5, <2>1
<1>9. \A p \in Ops : op'[p].attempt = op[p].attempt /\ op'[p].started = op[p].started
  BY <1>4, <1>6
<1>10. \A p \in Ops \ {o} : op'[p].state # op[p].state => op'[p].state = "cancelled"
  BY <1>4, <1>6
<1> QED
  BY <1>6, <1>7, <1>8, <1>9, <1>10

LEMMA EndKeeps ==
  ASSUME OutboxInv, NEW w \in Workers, NEW o \in Ops,
         DeadLetter(w, o) \/ MarkAmbiguous(w, o)
  PROVE  OutboxInv' /\ Promise!PromiseNext
<1>1. PICK state \in Doubted : /\ Record(w, o, Ended(o, state))
                               /\ state = "dead_letter" => \/ task[w][o].phase \in {"claimed", "rejected"}
                                                           \/ Retryable(w, o)
  BY DEF DeadLetter, MarkAmbiguous, Doubted
<1>2. /\ UNCHANGED <<next_id, wire, posted, confirmed, orders, faults>>
      /\ TasksOK' /\ \A v \in Workers, p \in Ops : TaskKept(v, p)
      /\ Owned(w, o) => op' = Ended(o, state)
      /\ ~ Owned(w, o) => OutboxInv' /\ Promise!PromiseNext
  BY <1>1, RecordStep
<1>3. CASE Owned(w, o)
  <2>1. /\ op' \in [Ops -> Rows] /\ op'[o].state = state
        /\ \A p \in Ops \ {o} : EndsWith(p, {o}, "restorable")
        /\ \A p \in Ops : op'[p].attempt = op[p].attempt /\ op'[p].started = op[p].started
        /\ \A p \in Ops \ {o} : op'[p].state # op[p].state => op'[p].state = "cancelled"
    <3>1. "restorable" \in Classes /\ state \in Doubted \cup {"cancelled"}
      BY DEF Classes
    <3>2. op' = WithoutLater(RowSet(op, o, state, "none"), {o}, "restorable")
      BY <1>2, <1>3 DEF Ended, RowSet
    <3> QED
      BY <3>1, <3>2, EndedIs
  <2>2. op'[o].state = "dead_letter" => Sure(o) \/ ~ op[o].started
    BY <1>1, <1>3, <2>1, RetryIsSure DEF Proven
  <2>3. \A p \in Ops : op[p].state = "leased" /\ op'[p].state \in {"retry_wait", "dead_letter"}
                       => Sure(p) \/ ~ op[p].started
    BY <2>1, <2>2 DEF Doubted
  <2>4. OutboxTypeOK'
    BY <1>2, <2>1, Typed DEF OutboxTypeOK, TasksOK
  <2>5. Ending({o}, "restorable")
    BY <1>3, <2>1 DEF Ending, Ends, Owned
  <2> QED
    BY <1>2, <2>1, <2>3, <2>4, <2>5, EndingStep
<1> QED
  BY <1>2, <1>3

(* Recovery: the policy says whether an attempt whose worker is gone can be  *)
(* repeated.                                                                 *)
LEMMA RecoverKeeps ==
  ASSUME OutboxInv, NEW w \in Workers, Recover(w)
  PROVE  OutboxInv' /\ Promise!PromiseNext
<1> DEFINE stale == {o \in Ops : Stale(o)}
<1>1. PICK moved : moved = [o \in Ops |-> IF o \in stale
                                          THEN [op[o] EXCEPT !.state = RecoveredState(o), !.class = "none"]
                                          ELSE op[o]]
  OBVIOUS
<1> DEFINE heads == {o \in stale : moved[o].state # "retry_wait"}
<1>2. op' = WithoutLater(moved, heads, "restorable")
  BY <1>1 DEF Recover
<1>3. UNCHANGED <<next_id, task, wire, posted, confirmed, orders, faults>>
  BY DEF Recover, sendVars, apiVars
<1>4. \A o \in Ops : /\ RecoveredState(o) \in {"expired", "retry_wait", "ambiguous"}
                     /\ RecoveredState(o) = "retry_wait" => ~ op[o].started \/ Idempotent(o)
  BY Typed DEF RecoveredState
<1>5. \A o \in stale : o \in Ops /\ op[o].state = "leased"
  BY DEF Stale
<1> HIDE DEF stale
<1>6. \A o \in stale : /\ moved[o] \in Rows /\ moved[o].state = RecoveredState(o)
                       /\ moved[o].attempt = op[o].attempt /\ moved[o].started = op[o].started
  <2> TAKE o \in stale
  <2>1. op[o] \in Rows /\ RecoveredState(o) \in States /\ "none" \in Classes
    BY <1>4, <1>5, Typed DEF States, Classes
  <2>2. moved[o] = [op[o] EXCEPT !.state = RecoveredState(o), !.class = "none"]
    BY <1>1, <1>5
  <2> QED
    BY <2>1, <2>2 DEF Rows
<1>7. \A o \in Ops \ stale : moved[o] = op[o]
  BY <1>1
<1>8. moved \in [Ops -> Rows]
  <2>1. \A o \in Ops : moved[o] \in Rows
    BY <1>6, <1>7, Typed
  <2> QED
    BY <1>1, <2>1
<1>9. "restorable" \in Classes
  BY DEF Classes
<1>10. heads \subseteq stale /\ \A o \in stale : o \in heads <=> moved[o].state # "retry_wait"
  OBVIOUS
<1> HIDE DEF heads
<1>11. /\ op' \in [Ops -> Rows]
       /\ \A p \in Ops :
            /\ op'[p].attempt = moved[p].attempt /\ op'[p].started = moved[p].started
            /\ IF moved[p].state \in Unsent /\ \E h \in heads : p \in Later(h)
               THEN op'[p].state = "cancelled" /\ op'[p].class = "restorable"
               ELSE op'[p] = moved[p]
  BY <1>2, <1>8, <1>9, LaterGoWith
(* A leased part is behind delivered ones only.                              *)
<1>12. \A o \in stale : ~ \E h \in heads : o \in Later(h)
  BY <1>5, <1>10 DEF OutboxInv, OrderInv, EarlierDelivered, Had
<1>13. \A o \in stale : op'[o].state = RecoveredState(o)
  BY <1>5, <1>6, <1>11, <1>12
<1>14. \A o \in heads : Ends(o)
  BY <1>4, <1>5, <1>6, <1>10, <1>13 DEF Ends, Doubted
<1>15. ASSUME NEW o \in Ops \ heads
       PROVE  EndsWith(o, heads, "restorable")
  <2>1. CASE o \in stale
    BY <1>4, <1>5, <1>6, <1>10, <1>13, <2>1 DEF EndsWith, Behind, Unsent
  <2>2. CASE o \notin stale
    BY <1>7, <1>11, <2>2 DEF EndsWith, Behind, SameState, Restorable
  <2> QED
    BY <2>1, <2>2
<1>16. Ending(heads, "restorable")
  BY <1>5, <1>10, <1>14, <1>15 DEF Ending
<1>17. \A o \in Ops : op'[o].attempt = op[o].attempt /\ op'[o].started = op[o].started
  BY <1>6, <1>7, <1>11
<1>18. \A o \in Ops : op[o].state = "leased" /\ op'[o].state \in {"retry_wait", "dead_letter"}
                      => Sure(o) \/ ~ op[o].started
  <2> TAKE o \in Ops
  <2>1. CASE o \in stale
    BY <1>4, <1>13, <2>1 DEF Sure, Once
  <2>2. CASE o \notin stale
    BY <1>7, <1>11, <2>2 DEF Unsent
  <2> QED
    BY <2>1, <2>2
<1>19. TasksOK' /\ \A v \in Workers, p \in Ops : TaskKept(v, p)
  BY <1>3, Typed, TasksStay
<1>20. OutboxTypeOK'
  BY <1>3, <1>11, <1>19, Typed DEF OutboxTypeOK, TasksOK
<1> QED
  BY <1>3, <1>16, <1>17, <1>18, <1>19, <1>20, EndingStep

LEMMA ExpireKeeps ==
  ASSUME OutboxInv, NEW w \in Workers, Expire(w)
  PROVE  OutboxInv' /\ Promise!PromiseNext
<1>1. PICK gone \in SUBSET {o \in Ops : op[o].state \in Unsent /\ op[o].late} :
        op' = WithoutLater([o \in Ops |-> IF o \in gone
                                          THEN [op[o] EXCEPT !.state = "expired", !.class = "none"]
                                          ELSE op[o]],
                           gone, "none")
  BY DEF Expire
<1>2. PICK table : table = [o \in Ops |-> IF o \in gone
                                          THEN [op[o] EXCEPT !.state = "expired", !.class = "none"]
                                          ELSE op[o]]
  OBVIOUS
<1>3. UNCHANGED <<next_id, task, wire, posted, confirmed, orders, faults>>
  BY DEF Expire, sendVars, apiVars
<1>4. \A o \in gone : o \in Ops /\ op[o].state \in Unsent
  BY <1>1
<1>5. \A o \in gone : /\ table[o] \in Rows /\ table[o].state = "expired"
                      /\ table[o].attempt = op[o].attempt /\ table[o].started = op[o].started
  <2> TAKE o \in gone
  <2>1. op[o] \in Rows /\ "expired" \in States /\ "none" \in Classes
    BY <1>4, Typed DEF States, Classes
  <2>2. table[o] = [op[o] EXCEPT !.state = "expired", !.class = "none"]
    BY <1>2, <1>4
  <2> QED
    BY <2>1, <2>2 DEF Rows
<1>6. \A o \in Ops \ gone : table[o] = op[o]
  BY <1>2
<1>7. table \in [Ops -> Rows]
  <2>1. \A o \in Ops : table[o] \in Rows
    BY <1>5, <1>6, Typed
  <2> QED
    BY <1>2, <2>1
<1>8. "none" \in Classes
  BY DEF Classes
<1>9. /\ op' \in [Ops -> Rows]
      /\ \A p \in Ops :
           /\ op'[p].attempt = table[p].attempt /\ op'[p].started = table[p].started
           /\ IF table[p].state \in Unsent /\ \E h \in gone : p \in Later(h)
              THEN op'[p].state = "cancelled" /\ op'[p].class = "none"
              ELSE op'[p] = table[p]
  <2>1. op' = WithoutLater(table, gone, "none")
    BY <1>1, <1>2
  <2> QED
    BY <1>7, <1>8, <2>1, LaterGoWith
<1>10. \A o \in gone : op'[o].state = "expired"
  BY <1>4, <1>5, <1>9 DEF Unsent
<1>11. \A o \in gone : Ends(o)
  BY <1>4, <1>10 DEF Ends
<1>12. \A o \in Ops \ gone : EndsWith(o, gone, "none")
  BY <1>6, <1>9 DEF EndsWith, Behind, SameState, Restorable
<1>13. Ending(gone, "none")
  <2>1. gone \subseteq Ops
    BY <1>4
  <2> QED
    BY <1>11, <1>12, <2>1 DEF Ending
<1>14. \A o \in Ops : op'[o].attempt = op[o].attempt /\ op'[o].started = op[o].started
  BY <1>5, <1>6, <1>9
<1>15. \A o \in Ops : op[o].state = "leased" /\ op'[o].state \in {"retry_wait", "dead_letter"}
                      => Sure(o) \/ ~ op[o].started
  BY <1>4, <1>6, <1>9 DEF Unsent
<1>16. TasksOK' /\ \A v \in Workers, p \in Ops : TaskKept(v, p)
  BY <1>3, Typed, TasksStay
<1>17. OutboxTypeOK'
  BY <1>3, <1>9, <1>16, Typed DEF OutboxTypeOK, TasksOK
<1> QED
  BY <1>3, <1>13, <1>14, <1>15, <1>16, <1>17, EndingStep

-----------------------------------------------------------------------------
(* The operators.                                                            *)

LEMMA CancelKeeps ==
  ASSUME OutboxInv, NEW o \in Ops, Cancel(o)
  PROVE  OutboxInv' /\ Promise!PromiseNext
<1>1. /\ UNCHANGED <<next_id, task, wire, posted, confirmed, faults>> /\ orders' \in Nat
      /\ op[o].state \in Unsent \cup {"leased"} \cup Doubted
  BY Typed DEF Cancel, Cancellable, Stale, Doubted, sendVars, OutboxTypeOK
<1>2. /\ op' \in [Ops -> Rows] /\ op'[o].state = "cancelled" /\ op'[o].class = "none"
      /\ \A p \in Ops \ {o} : EndsWith(p, {o}, "none")
      /\ \A p \in Ops : op'[p].attempt = op[p].attempt /\ op'[p].started = op[p].started
      /\ \A p \in Ops \ {o} : op'[p].state # op[p].state => op'[p].state = "cancelled"
  <2>1. "none" \in Classes /\ "cancelled" \in Doubted \cup {"cancelled"}
    BY DEF Classes
  <2>2. op' = WithoutLater(RowSet(op, o, "cancelled", "none"), {o}, "none")
    BY DEF Cancel, Cancelled, RowSet
  <2> QED
    BY <2>1, <2>2, EndedIs
<1>3. Ending({o}, "none")
  BY <1>1, <1>2 DEF Ending, Ends
<1>4. \A p \in Ops : op[p].state = "leased" /\ op'[p].state \in {"retry_wait", "dead_letter"}
                     => Sure(p) \/ ~ op[p].started
  BY <1>2
<1>5. TasksOK' /\ \A v \in Workers, p \in Ops : TaskKept(v, p)
  BY <1>1, Typed, TasksStay
<1>6. OutboxTypeOK'
  BY <1>1, <1>2, <1>5, Typed DEF OutboxTypeOK, TasksOK
<1> QED
  BY <1>1, <1>2, <1>3, <1>4, <1>5, <1>6, EndingStep

(* A manual retry: an operator answers for each doubtful attempt of a        *)
(* message that must not be sent twice.                                      *)
LEMMA ManualRetryKeeps ==
  ASSUME OutboxInv, NEW o \in Ops, RetryManually(o)
  PROVE  OutboxInv' /\ Promise!PromiseNext
<1>1. /\ UNCHANGED <<next_id, task, wire, posted, faults>> /\ orders' \in Nat
      /\ op[o].state \in Doubted
      /\ confirmed' = Confirmed(o) /\ op' = Restored(o)
  BY Typed DEF RetryManually, RetryableManually, Doubted, sendVars, OutboxTypeOK
<1> DEFINE back == {p \in Ops : p = o \/ (p \in Later(o) /\ Restorable(p))}
<1>2. \A p \in Ops : [op[p] EXCEPT !.state = "pending", !.class = "none"] \in Rows
  BY Typed DEF Rows, States, Classes
<1>3. op' = [p \in Ops |-> IF p \in back THEN [op[p] EXCEPT !.state = "pending", !.class = "none"]
                           ELSE op[p]]
  BY <1>1 DEF Restored, Restorable
<1>4. op' \in [Ops -> Rows]
  BY <1>2, <1>3, Typed
<1>5. /\ \A p \in back : op'[p].state = "pending" /\ op'[p].attempt = op[p].attempt
      /\ \A p \in Ops \ back : op'[p] = op[p]
  BY <1>3, Typed DEF Rows
<1>6. OrderInv'
  <2>1. op'[o].state = "pending"
    BY <1>5
  <2>2. \A p \in Ops \ {o} : /\ p \in Later(o) /\ Restorable(p) => op'[p].state = "pending"
                             /\ ~ (p \in Later(o) /\ Restorable(p)) => SameState(p)
    BY <1>5 DEF SameState, Restorable
  <2> QED
    BY <1>1, <2>1, <2>2, OrderRestored DEF OutboxInv
<1>7. /\ confirmed' \in [Ops -> Nat]
      /\ \A p \in Ops \ {o} : confirmed'[p] = confirmed[p]
      /\ op[o].state = "dead_letter" => confirmed'[o] = confirmed[o]
      /\ op[o].state = "ambiguous" /\ o \in Once => confirmed'[o] = confirmed[o] + 1
  <2>1. confirmed \in [Ops -> Nat]
    BY Typed DEF OutboxTypeOK
  <2> QED
    BY <1>1, <2>1 DEF Confirmed, Once
<1>8. ASSUME NEW p \in Ops
      PROVE  RowSteps(p) /\ RowKept(p)
  <2>1. CASE p = o
    BY <1>1, <1>5, <1>7, <2>1 DEF RowSteps, RowMoves, AgainAsked, RowKept, Doubted
  <2>2. CASE p # o /\ p \in back
    BY <1>5, <1>7, <2>2 DEF RowSteps, RowMoves, RowKept
  <2>3. CASE p \notin back
    <3>1. op'[p] = op[p] /\ p # o
      BY <1>5, <2>3
    <3> QED
      BY <1>7, <3>1 DEF RowSteps, RowMoves, RowKept, SameState, Restorable
  <2> QED
    BY <2>1, <2>2, <2>3
<1>9. TasksOK' /\ \A v \in Workers, p \in Ops : TaskKept(v, p)
  BY <1>1, Typed, TasksStay
<1>10. OutboxTypeOK'
  BY <1>1, <1>4, <1>7, <1>9, Typed DEF OutboxTypeOK, TasksOK
<1> QED
  BY <1>1, <1>6, <1>8, <1>9, <1>10, KeptStep

-----------------------------------------------------------------------------
(* The beginning, and every step.                                            *)

LEMMA NothingIsCounted ==
  ASSUME wire = {}, posted = {}
  PROVE  NetOK /\ \A o : Posts(o) = 0 /\ Budget(o) = 0
<1>1. IsFiniteSet({}) /\ Cardinality({}) = 0
  BY FS_EmptySet
<1>2. NetOK
  BY <1>1 DEF NetOK
<1>3. \A o : Posts(o) = 0 /\ Flying(o) = 0
  <2> TAKE o
  <2>1. {r \in posted : r[1] = o} = {} /\ {r \in wire : r[1] = o} = {}
    OBVIOUS
  <2> QED
    BY <1>1, <2>1 DEF Posts, Flying
<1> QED
  BY <1>2, <1>3 DEF Budget

LEMMA InitKeeps ==
  ASSUME OutboxInit
  PROVE  OutboxInv /\ Promise!PromiseInit
<1>1. /\ next_id = 1 /\ wire = {} /\ posted = {} /\ faults = 0 /\ orders = 0
      /\ confirmed = [o \in Ops |-> 0]
      /\ task = [w \in Workers |-> [o \in Ops |-> Free]]
      /\ \A o \in Ops : op[o].state = "absent"
  BY DEF OutboxInit
<1>2. OutboxTypeOK
  <2>1. Free \in [phase : Phases, token : Nat]
    BY DEF Free, Phases
  <2>2. op \in [Ops -> Rows]
    BY DEF OutboxInit, Rows, States, Classes
  <2> QED
    BY <1>1, <2>1, <2>2 DEF OutboxTypeOK
<1>3. NetOK /\ \A o : Posts(o) = 0 /\ Budget(o) = 0
  BY <1>1, NothingIsCounted
<1>4. OrderInv
  BY <1>1 DEF OrderInv, BatchesAreWhole, EarlierDelivered, NoPartIsStranded, RestorableTogether,
              Had, Restorable, Unsent
<1>5. MoneyInv
  BY <1>1, <1>3 DEF MoneyInv, WithinBudget, Once
<1>6. SentInOrder
  BY <1>1 DEF SentInOrder, Once
<1>7. TaskInv
  <2>1. \A w \in Workers, o \in Ops : task[w][o].phase = "none"
    BY <1>1 DEF Free
  <2> QED
    BY <2>1 DEF TaskInv, Knows, Alone, Proven
<1>8. Promise!PromiseInit
  <2>1. \A m \in Once : OutcomeOf(op[m].state) = "open" /\ 1 + confirmed[m] = 1
    BY <1>1 DEF OutcomeOf, Once
  <2> QED
    BY <1>3, <2>1 DEF Promise!PromiseInit
<1> QED
  BY <1>2, <1>3, <1>4, <1>5, <1>6, <1>7, <1>8 DEF OutboxInv

LEMMA StepKeeps ==
  ASSUME OutboxInv, [OutboxNext]_outboxVars
  PROVE  OutboxInv' /\ Promise!PromiseNext
<1>1. CASE \E b \in Batches : InsertBatch(b) \/ CommitBatch(b)
  BY <1>1, InsertKeeps, CommitKeeps
<1>2. ASSUME NEW w \in Workers, Round(w)
      PROVE  OutboxInv' /\ Promise!PromiseNext
  <2>1. CASE Claim(w)
    BY <2>1, ClaimKeeps
  <2>2. ASSUME NEW o \in Ops, StartRequest(w, o) \/ Answer(w, o) \/ Deliver(w, o)
        PROVE  OutboxInv' /\ Promise!PromiseNext
    BY <2>2, StartKeeps, AnswerKeeps, DeliverKeeps
  <2>3. ASSUME NEW o \in Ops, LoseLease(w, o) \/ CommitHistory(w, o) \/ QueueReaction(w, o)
        PROVE  OutboxInv' /\ Promise!PromiseNext
    BY <2>3, DroppedKeeps, CommitHistoryKeeps, QueueReactionKeeps
  <2>4. ASSUME NEW o \in Ops, \/ RetryBare(w, o) \/ Retry(w, o)
                              \/ DeadLetter(w, o) \/ MarkAmbiguous(w, o)
        PROVE  OutboxInv' /\ Promise!PromiseNext
    BY <2>4, RetryKeeps, EndKeeps
  <2> QED
    BY <1>2, <2>1, <2>2, <2>3, <2>4 DEF Round
<1>3. ASSUME NEW w \in Workers, Maintenance(w)
      PROVE  OutboxInv' /\ Promise!PromiseNext
  BY <1>3, RecoverKeeps, ExpireKeeps, CommitHistoryKeeps, QueueReactionKeeps DEF Maintenance
<1>4. CASE \E r \in wire : Accept(r)
  BY <1>4, AcceptKeeps
<1>5. CASE \E o \in Ops : LeaseExpires(o) \/ GoesLate(o)
  BY <1>5, ClockKeeps
<1>6. CASE Operate
  BY <1>6, ManualRetryKeeps, CancelKeeps DEF Operate
<1>7. CASE Faults
  BY <1>7, DroppedKeeps, ClockKeeps DEF Faults
<1>8. CASE UNCHANGED outboxVars
  <2>1. UNCHANGED <<op, next_id, task, wire, posted, confirmed, faults, orders>>
    BY <1>8 DEF outboxVars, sendVars, apiVars
  <2>2. TasksOK' /\ \A v \in Workers, p \in Ops : TaskKept(v, p)
    BY <2>1, Typed, TasksStay
  <2>3. OutboxTypeOK' /\ \A o \in Ops : SameRow(o)
    BY <2>1, <2>2, Typed DEF OutboxTypeOK, TasksOK, SameRow
  <2> QED
    BY <2>1, <2>2, <2>3, QuietStep
<1> QED
  BY <1>1, <1>2, <1>3, <1>4, <1>5, <1>6, <1>7, <1>8 DEF OutboxNext

-----------------------------------------------------------------------------
(* The inductive invariant: types, the order of every batch, what may still  *)
(* be sent against what was permitted, and what the tasks know.              *)
THEOREM OutboxInvariance == OutboxSpec => []OutboxInv
<1>1. OutboxInit => OutboxInv
  BY InitKeeps
<1>2. OutboxInv /\ [OutboxNext]_outboxVars => OutboxInv'
  BY StepKeeps
<1> QED
  BY <1>1, <1>2, PTL DEF OutboxSpec

(* The table, the tasks and the network are of their types.                  *)
THEOREM TypeCorrect == OutboxSpec => []OutboxTypeOK
<1>1. OutboxInv => OutboxTypeOK
  BY DEF OutboxInv
<1> QED
  BY <1>1, OutboxInvariance, PTL

(* No part waits behind a part of its batch that will never be delivered:    *)
(* every statement that ends a part takes the unsent later ones with it, and *)
(* a manual retry gives back a whole run of them.                            *)
THEOREM PartsAreNotStranded == OutboxSpec => []NoPartIsStranded
<1>1. OutboxInv => NoPartIsStranded
  BY DEF OutboxInv, OrderInv
<1> QED
  BY <1>1, OutboxInvariance, PTL

(* A create or a payment is sent again only when every request for it was    *)
(* refused by Telegram or accepted by an operator as a duplicate risk.       *)
THEOREM ResendingIsSafe == OutboxSpec => []ResendIsSafe
<1>1. OutboxInv => ResendIsSafe
  <2> SUFFICES ASSUME OutboxInv, NEW o \in Ops, o \in Once, op[o].state \in Unsent
               PROVE  Posts(o) + Flying(o) <= confirmed[o]
    BY DEF ResendIsSafe
  <2>1. Budget(o) <= confirmed[o]
    BY DEF OutboxInv, MoneyInv, WithinBudget, Fresh, Unsent
  <2> QED
    BY <2>1 DEF Budget
<1> QED
  BY <1>1, OutboxInvariance, PTL

(* Telegram takes the parts of a message in their order, across attempts,    *)
(* lost leases, recoveries and manual retries.                               *)
THEOREM PartsAppearInOrder == OutboxSpec => []PostedInOrder
<1>1. OutboxInv => PostedInOrder
  <2> SUFFICES ASSUME OutboxInv, NEW r \in posted, NEW o \in Once, r[1] \in Later(o)
               PROVE  Posts(o) > 0
    BY DEF PostedInOrder
  <2>1. o \in Ops
    BY DEF Once
  <2> QED
    BY <2>1 DEF OutboxInv, SentInOrder
<1> QED
  BY <1>1, OutboxInvariance, PTL

(* The outbox implements DeliveryPromise: what it says of a message that     *)
(* must not be sent twice, how often Telegram took it and how often it may,  *)
(* change only as the promise allows.                                        *)
THEOREM PromiseIsKept == OutboxSpec => KeepsPromise
<1>1. OutboxInit => Promise!PromiseInit
  BY InitKeeps
<1>2. OutboxInv /\ [OutboxNext]_outboxVars => [Promise!PromiseNext]_(Promise!promiseVars)
  BY StepKeeps
<1> QED
  BY <1>1, <1>2, OutboxInvariance, PTL DEF OutboxSpec, KeepsPromise, Promise!PromiseSpec
=============================================================================
