--------------------------- MODULE PaymentsProofs ---------------------------
(* Theorems about payments, for every finite set of charges, any operators,  *)
(* periods, gifts and pasts, and any number of ticks, faults and orders.     *)
EXTENDS Payments, FiniteSetTheorems, WellFoundedInduction, TLAPS

-----------------------------------------------------------------------------
(* Types.                                                                    *)

EventRecords ==
  [kind : {"payment", "reversal", "grant", "revoke"}, charge : Charges \cup {Nil},
   delta : Int, at : Int, until : Int, seen : Nat]

ProcRecords ==
  [at : Places, charge : Charges \cup {Nil}, since : Int, goal : Int, delta : Int,
   seen : Nat, todo : SUBSET Charges]

AccountsTyped ==
  /\ now \in Nat /\ paid \in [Charges -> Int \cup {Nil}]
  /\ returned \subseteq Charges /\ rows \in [Charges -> {"none", "kept", "refunded"}]
  /\ orders \in Nat

PaymentsTypeOK ==
  /\ AccountsTyped
  /\ ledger \in Seq(EventRecords)
  /\ proc \in [Procs -> ProcRecords]
  /\ handled \subseteq Charges /\ faults \in Nat

(* The inductive invariant in parts.  What money says: a payment is made in  *)
(* the past, and a row says refunded after Telegram did.                     *)
MoneySane ==
  \A c \in Charges : /\ IsPaid(c) => paid[c] <= now
                     /\ rows[c] = "refunded" => c \in returned

(* Where a process may be, and what is true of its charge there.             *)
Placed(p) ==
  LET r == proc[p]
  IN  /\ r.since <= now /\ r.seen <= Len(ledger)
      /\ \A c \in r.todo : IsPaid(c) /\ paid[c] <= r.since
      /\ r.todo # {} => p = "sync"
      /\ r.at \in {"next", "find"} => p = "sync"
      /\ r.at \in {"revoke", "mark", "reverse"} => p \in Operators
      /\ r.at \in {"next", "find", "save", "look", "enter"}
           => r.charge \in Charges /\ IsPaid(r.charge) /\ paid[r.charge] <= r.since
      /\ r.at \in {"look", "enter"} => rows[r.charge] # "none"
      /\ r.at \in {"mark", "reverse"} => r.charge \in returned /\ rows[r.charge] # "none"
      /\ r.at = "reverse" => rows[r.charge] = "refunded"

(* What the goal and the difference of a payment promise, until something is *)
(* taken away.                                                               *)
Aims(p) ==
  LET r == proc[p]
  IN  /\ r.at \in {"find", "save", "look"} =>
           /\ r.goal >= paid[r.charge] + Period
           /\ NothingTakenIn(1 .. Len(ledger))
                => r.goal - Later(r.since, Effective) <= Period + (r.since - paid[r.charge])
      /\ r.at = "enter" =>
           /\ NothingTakenIn(r.seen + 1 .. Len(ledger))
                => Later(now, Effective) + r.delta >= paid[r.charge] + Period
           /\ NothingTakenIn(1 .. Len(ledger))
                => r.delta <= Period + (r.since - paid[r.charge])

LedgerSane ==
  \A i \in 1 .. Len(ledger) :
    /\ ledger[i].seen < i
    /\ ledger[i].kind \in {"payment", "reversal"} => ledger[i].charge \in Charges

(* Without a taking the end of VIP only rises.                               *)
Rising ==
  NothingTakenIn(1 .. Len(ledger)) => \A i \in 1 .. Len(ledger) : ledger[i].until <= Effective

(* TimeFollowsMoney, of single events.                                       *)
Backed(i) ==
  LET c == ledger[i].charge
  IN  /\ ledger[i].kind = "payment" => IsPaid(c) /\ rows[c] # "none"
      /\ ledger[i].kind = "reversal" => rows[c] = "refunded"
OnlyOnce ==
  \A i, j \in 1 .. Len(ledger) :
    /\ ledger[i].kind \in {"payment", "reversal"}
    /\ ledger[i].kind = ledger[j].kind /\ ledger[i].charge = ledger[j].charge
    => i = j

LedgerInv ==
  /\ LedgerSane /\ Rising /\ OnlyOnce
  /\ \A i \in 1 .. Len(ledger) : Backed(i)
  /\ PaidTimeIsGiven

ProcsInv == \A p \in Procs : Placed(p) /\ Aims(p)

PaymentsInv == PaymentsTypeOK /\ MoneySane /\ ProcsInv /\ LedgerInv

-----------------------------------------------------------------------------
(* Steps.  The accounts only move on; the ledger stays or gets one event.    *)

AccountsStep ==
  /\ AccountsTyped' /\ MoneySane'
  /\ now <= now'
  /\ \A c \in Charges : IsPaid(c) => paid'[c] = paid[c]
  /\ returned \subseteq returned'
  /\ \A c \in Charges : /\ rows[c] # "none" => rows'[c] # "none"
                        /\ rows[c] = "refunded" => rows'[c] = "refunded"

NewEvent(e) ==
  /\ e \in EventRecords /\ ledger' = Append(ledger, e)
  /\ e.at = now /\ e.seen <= Len(ledger) /\ e.until = Until(e.delta, e.seen)
  /\ e.kind \in {"payment", "reversal"} =>
       /\ e.charge \in Charges
       /\ \A i \in 1 .. Len(ledger) : ~ (ledger[i].kind = e.kind /\ ledger[i].charge = e.charge)
  /\ e.kind = "payment" =>
       /\ IsPaid(e.charge) /\ rows[e.charge] # "none"
       /\ NothingTakenIn(e.seen + 1 .. Len(ledger)) => e.until >= paid[e.charge] + Period
       /\ NothingTakenIn(1 .. Len(ledger)) => e.delta <= Period + (now - paid[e.charge])
  /\ e.kind = "reversal" => rows[e.charge] = "refunded"

LedgerStep == ledger' = ledger \/ \E e : NewEvent(e)

ProcsStep ==
  /\ proc' \in [Procs -> ProcRecords] /\ ProcsInv'
  /\ handled' \subseteq Charges /\ faults' \in Nat

LEMMA LeastCharge ==
  ASSUME NEW T \in SUBSET Charges, T # {}
  PROVE  First(T) \in T
<1>1. T \subseteq Nat
  BY PaymentsAssumption
<1>2. PICK x \in T : \A y \in T : ~ (<<y, x>> \in OpToRel(<, Nat))
  BY <1>1, NatLessThanWellFounded, WFMin
<1>3. \A y \in T : x <= y
  <2> TAKE y \in T
  <2>1. ~ (y < x)
    BY <1>1, <1>2 DEF OpToRel
  <2> QED
    BY <1>1, <2>1
<1> QED
  BY <1>3 DEF First

LEMMA EffectiveTyped ==
  ASSUME PaymentsTypeOK
  PROVE  /\ Effective \in Int /\ Len(ledger) \in Nat
         /\ \A i \in 1 .. Len(ledger) : ledger[i] \in EventRecords
         /\ Len(ledger) = 0 => Effective = 0
         /\ Len(ledger) # 0 => Effective = ledger[Len(ledger)].until
<1>1. Len(ledger) \in Nat /\ \A i \in 1 .. Len(ledger) : ledger[i] \in EventRecords
  BY DEF PaymentsTypeOK
<1>2. ledger = <<>> <=> Len(ledger) = 0
  BY DEF PaymentsTypeOK
<1> QED
  BY <1>1, <1>2 DEF Effective, EventRecords

(* Whatever is written, what was written stays, and a step that takes        *)
(* nothing does not lower the end of VIP.                                    *)
LEMMA NewEventGrows ==
  ASSUME PaymentsTypeOK, NEW e, NewEvent(e)
  PROVE  /\ Len(ledger') = Len(ledger) + 1 /\ ledger' \in Seq(EventRecords)
         /\ \A i \in 1 .. Len(ledger) : ledger'[i] = ledger[i]
         /\ ledger'[Len(ledger) + 1] = e
         /\ Effective' = e.until
         /\ e.delta >= 0 => e.until >= Effective
         /\ e.until >= Later(now, Effective) + e.delta
<1>1. /\ ledger \in Seq(EventRecords) /\ e \in EventRecords
      /\ ledger' = Append(ledger, e) /\ now \in Nat
  BY DEF PaymentsTypeOK, AccountsTyped, NewEvent
<1>2. /\ Len(ledger') = Len(ledger) + 1 /\ ledger' \in Seq(EventRecords)
      /\ \A i \in 1 .. Len(ledger) : ledger'[i] = ledger[i]
      /\ ledger'[Len(ledger) + 1] = e
  BY <1>1
<1>3. ledger' # <<>>
  BY <1>1, <1>2
<1>4. Effective' = e.until
  BY <1>1, <1>2, <1>3 DEF Effective
<1>5. e.until = Later(now, Later(now, Effective) + e.delta)
  BY DEF NewEvent, Until
<1>6. Effective \in Int /\ e.delta \in Int
  BY <1>1, EffectiveTyped DEF EventRecords
<1> QED
  BY <1>1, <1>2, <1>4, <1>5, <1>6 DEF Later

LEMMA LedgerGrows ==
  ASSUME PaymentsTypeOK, LedgerStep
  PROVE  /\ Len(ledger) <= Len(ledger') /\ Len(ledger') \in Nat /\ Effective' \in Int
         /\ ledger' \in Seq(EventRecords)
         /\ \A n \in 1 .. Len(ledger) + 1 :
              NothingTakenIn(n .. Len(ledger))'
                => NothingTakenIn(n .. Len(ledger)) /\ Effective' >= Effective
<1>1. CASE ledger' = ledger
  <2>1. Effective' = Effective /\ Len(ledger') = Len(ledger)
    BY <1>1 DEF Effective
  <2>2. \A n \in Nat : NothingTakenIn(n .. Len(ledger))' <=> NothingTakenIn(n .. Len(ledger))
    BY <1>1 DEF NothingTakenIn, Takes
  <2> QED
    BY <1>1, <2>1, <2>2, EffectiveTyped DEF PaymentsTypeOK
<1>2. ASSUME NEW e, NewEvent(e)
      PROVE  /\ Len(ledger) <= Len(ledger') /\ Len(ledger') \in Nat /\ Effective' \in Int
             /\ ledger' \in Seq(EventRecords)
             /\ \A n \in 1 .. Len(ledger) + 1 :
                  NothingTakenIn(n .. Len(ledger))'
                    => NothingTakenIn(n .. Len(ledger)) /\ Effective' >= Effective
  <2>1. /\ Len(ledger') = Len(ledger) + 1 /\ Effective' = e.until
        /\ ledger' \in Seq(EventRecords)
        /\ \A i \in 1 .. Len(ledger) : ledger'[i] = ledger[i]
        /\ ledger'[Len(ledger) + 1] = e
        /\ e.delta >= 0 => e.until >= Effective
    BY <1>2, NewEventGrows
  <2>2. e.until \in Int /\ e.delta \in Int /\ Len(ledger) \in Nat
    BY <1>2, EffectiveTyped DEF NewEvent, EventRecords
  <2>3. ASSUME NEW n \in 1 .. Len(ledger) + 1, NothingTakenIn(n .. Len(ledger))'
        PROVE  NothingTakenIn(n .. Len(ledger)) /\ Effective' >= Effective
    <3>1. \A i \in n .. Len(ledger) + 1 : ~ (ledger'[i].delta < 0)
      BY <2>1, <2>3 DEF NothingTakenIn, Takes
    <3>2. e.delta >= 0
      BY <2>1, <2>2, <3>1
    <3>3. \A i \in n .. Len(ledger) : ~ (ledger[i].delta < 0)
      BY <2>1, <2>2, <3>1
    <3> QED
      BY <2>1, <3>2, <3>3 DEF NothingTakenIn, Takes
  <2> QED
    BY <2>1, <2>2, <2>3
<1> QED
  BY <1>1, <1>2 DEF LedgerStep

-----------------------------------------------------------------------------
(* The ledger keeps its invariant.                                           *)

LEMMA SameLedgerKeeps ==
  ASSUME PaymentsInv, AccountsStep, ledger' = ledger
  PROVE  LedgerInv'
<1>1. \A i \in 1 .. Len(ledger) : Backed(i)'
  BY DEF PaymentsInv, LedgerInv, LedgerSane, Backed, AccountsStep, IsPaid
<1>2. LedgerSane' /\ Rising' /\ OnlyOnce'
  BY DEF PaymentsInv, LedgerInv, LedgerSane, Rising, OnlyOnce, NothingTakenIn, Takes, Effective
<1>3. /\ Payments' = Payments /\ DOMAIN ledger = 1 .. Len(ledger)
      /\ \A i \in Payments : i \in 1 .. Len(ledger) /\ paid'[ledger[i].charge] = paid[ledger[i].charge]
  BY DEF Payments, PaymentsInv, PaymentsTypeOK, LedgerInv, LedgerSane, Backed, AccountsStep, IsPaid
<1>4. PaidTimeIsGiven'
  BY <1>3 DEF PaymentsInv, LedgerInv, PaidTimeIsGiven, PaidTimeIsKept, NoTimeIsGivenTwice,
              NothingTakenIn, Takes
<1> QED
  BY <1>1, <1>2, <1>4 DEF LedgerInv

LEMMA NewEventKeeps ==
  ASSUME PaymentsInv, AccountsStep, NEW e, NewEvent(e)
  PROVE  LedgerInv'
<1>0. PICK n : n = Len(ledger)
  OBVIOUS
<1>1. /\ Len(ledger') = n + 1 /\ ledger' \in Seq(EventRecords)
      /\ \A i \in 1 .. n : ledger'[i] = ledger[i]
      /\ ledger'[n + 1] = e /\ Effective' = e.until
      /\ e.delta >= 0 => e.until >= Effective
  BY <1>0, NewEventGrows DEF PaymentsInv
<1>2. /\ n \in Nat /\ Effective \in Int /\ e \in EventRecords
      /\ e.seen \in Nat /\ e.seen <= n /\ e.until \in Int /\ e.delta \in Int /\ e.at = now
      /\ \A i \in 1 .. n : ledger[i] \in EventRecords
      /\ n # 0 => Effective = ledger[n].until
  BY <1>0, EffectiveTyped DEF PaymentsInv, NewEvent, EventRecords
<1>3. \A i \in 1 .. n + 1 : i \in 1 .. n \/ i = n + 1
  BY <1>0, <1>2
<1>4. /\ 1 .. n \subseteq 1 .. n + 1 /\ n + 1 \in 1 .. n + 1 /\ n + 1 \notin 1 .. n
      /\ DOMAIN ledger' = 1 .. n + 1
  BY <1>0, <1>1, <1>2
<1>5. LedgerSane'
  <2>1. ASSUME NEW i \in 1 .. n + 1
        PROVE  /\ ledger'[i].seen < i
               /\ ledger'[i].kind \in {"payment", "reversal"} => ledger'[i].charge \in Charges
    <3>1. CASE i \in 1 .. n
      BY <1>0, <3>1, <1>1 DEF PaymentsInv, LedgerInv, LedgerSane
    <3>2. CASE i = n + 1
      BY <1>0, <3>2, <1>1, <1>2 DEF NewEvent
    <3> QED
      BY <1>0, <3>1, <3>2, <1>3
  <2> QED
    BY <1>0, <2>1, <1>1 DEF LedgerSane
<1>6. Rising'
  <2> SUFFICES ASSUME NothingTakenIn(1 .. n + 1)', NEW i \in 1 .. n + 1
               PROVE  ledger'[i].until <= Effective'
    BY <1>0, <1>1 DEF Rising
  <2>1. NothingTakenIn(1 .. n) /\ Effective' >= Effective
    BY <1>0, <1>1, <1>2, LedgerGrows DEF PaymentsInv, LedgerStep
  <2>2. CASE i \in 1 .. n
    <3>1. ledger[i].until <= Effective /\ ledger[i].until \in Int
      BY <1>0, <2>1, <2>2, <1>2 DEF PaymentsInv, LedgerInv, Rising, EventRecords
    <3> QED
      BY <1>0, <3>1, <2>1, <2>2, <1>1, <1>2
  <2>3. CASE i = n + 1
    BY <1>0, <2>3, <1>1, <1>2
  <2> QED
    BY <1>0, <2>2, <2>3, <1>3
<1>7. OnlyOnce'
  <2>1. ASSUME NEW i \in 1 .. n + 1, NEW j \in 1 .. n + 1,
               ledger'[i].kind \in {"payment", "reversal"},
               ledger'[i].kind = ledger'[j].kind, ledger'[i].charge = ledger'[j].charge
        PROVE  i = j
    <3>1. CASE i \in 1 .. n /\ j \in 1 .. n
      BY <1>0, <2>1, <3>1, <1>1 DEF PaymentsInv, LedgerInv, OnlyOnce
    <3>2. CASE i \in 1 .. n /\ j = n + 1
      BY <1>0, <2>1, <3>2, <1>1 DEF NewEvent
    <3>3. CASE i = n + 1 /\ j \in 1 .. n
      BY <1>0, <2>1, <3>3, <1>1 DEF NewEvent
    <3> QED
      BY <1>0, <3>1, <3>2, <3>3, <1>3
  <2> QED
    BY <1>0, <2>1, <1>1 DEF OnlyOnce
<1>8. \A i \in 1 .. n + 1 : Backed(i)'
  <2> TAKE i \in 1 .. n + 1
  <2>1. CASE i \in 1 .. n
    BY <1>0, <2>1, <1>1 DEF PaymentsInv, LedgerInv, LedgerSane, Backed, AccountsStep, IsPaid
  <2>2. CASE i = n + 1
    BY <1>0, <2>2, <1>1 DEF NewEvent, Backed, AccountsStep, IsPaid
  <2> QED
    BY <1>0, <2>1, <2>2, <1>3
<1>9. /\ \A i \in 1 .. n : ledger[i].kind = "payment" =>
              /\ i \in Payments /\ ledger[i].charge \in Charges
              /\ paid'[ledger[i].charge] = paid[ledger[i].charge]
              /\ paid[ledger[i].charge] \in Int
      /\ e.kind = "payment" =>
              /\ paid'[e.charge] = paid[e.charge] /\ paid[e.charge] \in Int
      /\ Payments' = {i \in 1 .. n + 1 : ledger'[i].kind = "payment"}
      /\ Period \in Nat /\ now \in Nat
  <2>1. DOMAIN ledger = 1 .. n
    BY <1>0 DEF PaymentsInv, PaymentsTypeOK
  <2>2. \A c \in Charges : IsPaid(c) => paid'[c] = paid[c] /\ paid[c] \in Int
    BY DEF PaymentsInv, PaymentsTypeOK, AccountsTyped, AccountsStep, IsPaid
  <2>3. ASSUME NEW i \in 1 .. n, ledger[i].kind = "payment"
        PROVE  /\ i \in Payments /\ ledger[i].charge \in Charges
               /\ IsPaid(ledger[i].charge)
    <3>1. i \in Payments
      BY <2>1, <2>3 DEF Payments
    <3> QED
      BY <1>0, <2>3, <3>1 DEF PaymentsInv, LedgerInv, LedgerSane, Backed
  <2>4. e.kind = "payment" => e.charge \in Charges /\ IsPaid(e.charge)
    BY DEF NewEvent
  <2>5. Payments' = {i \in 1 .. n + 1 : ledger'[i].kind = "payment"}
    BY <1>4 DEF Payments
  <2>6. Period \in Nat /\ now \in Nat
    BY PaymentsAssumption DEF PaymentsInv, PaymentsTypeOK, AccountsTyped
  <2> QED
    BY <2>2, <2>3, <2>4, <2>5, <2>6
<1>10. PaidTimeIsKept'
  <2> SUFFICES ASSUME NEW i \in 1 .. n + 1, ledger'[i].kind = "payment", NEW j \in i .. n + 1,
                      NothingTakenIn(ledger[i].seen + 1 .. j)'
               PROVE  ledger'[j].until >= paid'[ledger'[i].charge] + Period
    BY <1>0, <1>1, <1>9 DEF PaidTimeIsKept
  <2>1. \A k \in ledger'[i].seen + 1 .. j : ~ (ledger'[k].delta < 0)
    BY <1>0 DEF NothingTakenIn, Takes
  <2>2. CASE i \in 1 .. n /\ j \in 1 .. n
    <3>1. ledger'[i] = ledger[i] /\ ledger[i].seen \in Nat
      BY <2>2, <1>1, <1>2 DEF EventRecords
    <3>2. \A k \in ledger[i].seen + 1 .. j : ledger'[k] = ledger[k]
      BY <2>2, <3>1, <1>1, <1>2
    <3>3. NothingTakenIn(ledger[i].seen + 1 .. j)
      BY <2>1, <3>1, <3>2 DEF NothingTakenIn, Takes
    <3>4. i \in Payments /\ j \in i .. Len(ledger) /\ ledger'[j] = ledger[j]
      BY <1>0, <2>2, <3>1, <1>1, <1>2, <1>9
    <3>5. ledger[j].until >= paid[ledger[i].charge] + Period
      BY <3>3, <3>4 DEF PaymentsInv, LedgerInv, PaidTimeIsGiven, PaidTimeIsKept
    <3> QED
      BY <2>2, <3>1, <3>4, <3>5, <1>9
  <2>3. CASE i \in 1 .. n /\ j = n + 1
    <3>1. ledger[i].seen \in Nat /\ ledger[i].seen < i
      BY <1>0, <2>3, <1>2 DEF PaymentsInv, LedgerInv, LedgerSane, EventRecords
    <3>2. /\ NothingTakenIn(ledger[i].seen + 1 .. n) /\ ~ (e.delta < 0)
      <4>1. ledger'[i] = ledger[i]
        BY <2>3, <1>1
      <4>2. \A k \in ledger[i].seen + 1 .. n : k \in 1 .. n /\ k \in ledger[i].seen + 1 .. n + 1
        BY <3>1, <1>2
      <4>3. n + 1 \in ledger[i].seen + 1 .. n + 1
        BY <2>3, <3>1, <1>2
      <4>4. \A k \in ledger[i].seen + 1 .. n + 1 : ~ (ledger'[k].delta < 0)
        BY <2>1, <2>3, <4>1
      <4> QED
        BY <4>2, <4>3, <4>4, <1>1 DEF NothingTakenIn, Takes
    <3>3. n \in i .. n /\ n # 0
      BY <1>0, <2>3, <1>2
    <3>4. ledger[n].until >= paid[ledger[i].charge] + Period
      BY <1>0, <2>3, <3>2, <3>3, <1>1, <1>9
      DEF PaymentsInv, LedgerInv, PaidTimeIsGiven, PaidTimeIsKept
    <3>5. e.until >= ledger[n].until /\ ledger[n].until \in Int
      <4>1. n \in 1 .. n /\ ledger[n].until \in Int /\ Effective = ledger[n].until
        BY <3>3, <1>2 DEF EventRecords
      <4>2. e.delta >= 0
        BY <3>2, <1>2
      <4> QED
        BY <4>1, <4>2, <1>1
    <3> QED
      <4>1. /\ ledger'[i] = ledger[i] /\ ledger'[j] = e /\ ledger[i].kind = "payment"
        BY <2>3, <1>1
      <4>2. PICK x, b, u \in Int : /\ x = paid[ledger[i].charge] /\ b = ledger[n].until
                                   /\ u = e.until /\ x = paid'[ledger[i].charge]
        BY <4>1, <2>3, <3>5, <1>2, <1>9
      <4>3. u >= x + Period
        <5>1. b >= x + Period /\ u >= b /\ Period \in Nat
          BY <4>2, <3>4, <3>5, <1>9
        <5> QED
          BY <5>1
      <4> QED
        BY <4>1, <4>2, <4>3
  <2>4. CASE i = n + 1
    <3>1. j = n + 1 /\ e.kind = "payment"
      BY <1>0, <2>4, <1>1, <1>2
    <3>2. NothingTakenIn(e.seen + 1 .. n)
      <4>1. \A k \in e.seen + 1 .. n : k \in 1 .. n /\ k \in e.seen + 1 .. n + 1
        BY <1>0, <1>2
      <4> QED
        BY <1>0, <2>1, <2>4, <3>1, <4>1, <1>1 DEF NothingTakenIn, Takes
    <3>3. e.until >= paid[e.charge] + Period
      BY <1>0, <3>1, <3>2 DEF NewEvent
    <3> QED
      BY <1>0, <2>4, <3>1, <3>3, <1>1, <1>9
  <2> QED
    BY <1>0, <2>2, <2>3, <2>4, <1>2, <1>3
<1>11. NoTimeIsGivenTwice'
  <2> SUFFICES ASSUME NEW i \in 1 .. n + 1, ledger'[i].kind = "payment",
                      NothingTakenIn(1 .. i)'
               PROVE  ledger'[i].delta <= Period + (ledger'[i].at - paid'[ledger'[i].charge])
    BY <1>0, <1>1, <1>9 DEF NoTimeIsGivenTwice
  <2>1. \A k \in 1 .. i : ~ (ledger'[k].delta < 0)
    BY <1>0 DEF NothingTakenIn, Takes
  <2>2. CASE i \in 1 .. n
    <3>1. NothingTakenIn(1 .. i)
      BY <1>0, <2>1, <2>2, <1>1, <1>2 DEF NothingTakenIn, Takes
    <3> QED
      BY <1>0, <2>2, <3>1, <1>1, <1>9 DEF PaymentsInv, LedgerInv, PaidTimeIsGiven, NoTimeIsGivenTwice
  <2>3. CASE i = n + 1
    <3>1. NothingTakenIn(1 .. n)
      BY <1>0, <2>1, <2>3, <1>1, <1>2 DEF NothingTakenIn, Takes
    <3> QED
      BY <1>0, <2>3, <3>1, <1>1, <1>2, <1>9 DEF NewEvent
  <2> QED
    BY <1>0, <2>2, <2>3, <1>3
<1> QED
  BY <1>0, <1>1, <1>5, <1>6, <1>7, <1>8, <1>10, <1>11 DEF LedgerInv, PaidTimeIsGiven

-----------------------------------------------------------------------------
(* The processes keep theirs.                                                *)

LEMMA RestingIsFine ==
  ASSUME PaymentsInv, AccountsStep, LedgerStep, NEW p \in Procs, proc'[p] = Resting
  PROVE  Resting \in ProcRecords /\ Placed(p)' /\ Aims(p)'
<1>1. /\ Resting \in ProcRecords /\ Resting.at = "idle" /\ Resting.since = 0
      /\ Resting.seen = 0 /\ Resting.todo = {}
  BY DEF Resting, ProcRecords, Places
<1>2. 0 <= now' /\ 0 <= Len(ledger')
  BY LedgerGrows DEF PaymentsInv, AccountsStep, AccountsTyped
<1> QED
  BY <1>1, <1>2 DEF Placed, Aims

(* Who does nothing stays as it is, whatever the others do.                  *)
LEMMA OthersAreFine ==
  ASSUME PaymentsInv, AccountsStep, LedgerStep, NEW p \in Procs, proc'[p] = proc[p]
  PROVE  Placed(p)' /\ Aims(p)'
<1>0. PICK r : r = proc[p]
  OBVIOUS
<1>1. r \in ProcRecords /\ Placed(p) /\ Aims(p) /\ proc'[p] = r
  BY <1>0 DEF PaymentsInv, PaymentsTypeOK, ProcsInv
<1>2. /\ r.since \in Int /\ r.goal \in Int /\ r.delta \in Int /\ r.seen \in Nat
      /\ r.todo \subseteq Charges
  BY <1>0, <1>1 DEF ProcRecords
<1>3. /\ now \in Nat /\ now' \in Nat /\ now <= now' /\ Period \in Nat
      /\ Len(ledger) \in Nat /\ Len(ledger') \in Nat /\ Len(ledger) <= Len(ledger')
      /\ Effective \in Int /\ Effective' \in Int
  BY <1>0, LedgerGrows, EffectiveTyped, PaymentsAssumption
  DEF PaymentsInv, PaymentsTypeOK, AccountsStep, AccountsTyped
<1>4. /\ \A c \in Charges : IsPaid(c) => IsPaid(c)' /\ paid'[c] = paid[c] /\ paid[c] \in Int
      /\ \A c \in Charges : rows[c] # "none" => rows'[c] # "none"
      /\ \A c \in Charges : rows[c] = "refunded" => rows'[c] = "refunded"
      /\ returned \subseteq returned' /\ returned \subseteq Charges
  BY <1>0 DEF PaymentsInv, PaymentsTypeOK, AccountsTyped, AccountsStep, IsPaid
<1>5. /\ r.seen + 1 \in 1 .. Len(ledger) + 1 /\ 1 \in 1 .. Len(ledger) + 1
      /\ r.seen <= Len(ledger)
  <2>1. r.seen <= Len(ledger)
    BY <1>0, <1>1 DEF Placed
  <2> QED
    BY <2>1, <1>2, <1>3
<1>6. \A n \in 1 .. Len(ledger) + 1 :
        NothingTakenIn(n .. Len(ledger))'
          => NothingTakenIn(n .. Len(ledger)) /\ Effective' >= Effective
  BY <1>0, LedgerGrows DEF PaymentsInv
<1>7. Placed(p)'
  <2>1. r.since <= now' /\ r.seen <= Len(ledger')
    <3>1. r.since <= now
      BY <1>0, <1>1 DEF Placed
    <3> QED
      BY <3>1, <1>2, <1>3, <1>5
  <2>2. \A c \in r.todo : IsPaid(c)' /\ paid'[c] <= r.since
    BY <1>0, <1>1, <1>2, <1>4 DEF Placed
  <2>3. r.at \in {"next", "find", "save", "look", "enter"}
          => r.charge \in Charges /\ IsPaid(r.charge)' /\ paid'[r.charge] <= r.since
    BY <1>0, <1>1, <1>4 DEF Placed
  <2>4. /\ r.at \in {"look", "enter"} => rows'[r.charge] # "none"
        /\ r.at \in {"mark", "reverse"} => r.charge \in returned' /\ rows'[r.charge] # "none"
        /\ r.at = "reverse" => rows'[r.charge] = "refunded"
    BY <1>0, <1>1, <1>4 DEF Placed
  <2> QED
    BY <1>0, <1>1, <2>1, <2>2, <2>3, <2>4 DEF Placed
<1>8. ASSUME r.at \in {"find", "save", "look"}
      PROVE  /\ r.goal >= paid'[r.charge] + Period
             /\ NothingTakenIn(1 .. Len(ledger))'
                  => r.goal - Later(r.since, Effective') <= Period + (r.since - paid'[r.charge])
  <2>1. /\ r.charge \in Charges /\ paid'[r.charge] = paid[r.charge] /\ paid[r.charge] \in Int
    BY <1>0, <1>1, <1>4, <1>8 DEF Placed
  <2>2. r.goal >= paid[r.charge] + Period
    BY <1>0, <1>1, <1>8 DEF Aims
  <2>3. ASSUME NothingTakenIn(1 .. Len(ledger))'
        PROVE  r.goal - Later(r.since, Effective') <= Period + (r.since - paid[r.charge])
    <3>1. NothingTakenIn(1 .. Len(ledger)) /\ Effective' >= Effective
      BY <1>0, <2>3, <1>5, <1>6
    <3>2. r.goal - Later(r.since, Effective) <= Period + (r.since - paid[r.charge])
      BY <1>0, <1>1, <1>8, <3>1 DEF Aims
    <3>3. Later(r.since, Effective') >= Later(r.since, Effective)
      BY <1>0, <3>1, <1>2, <1>3 DEF Later
    <3>4. Later(r.since, Effective') \in Int /\ Later(r.since, Effective) \in Int
      BY <1>0, <1>2, <1>3 DEF Later
    <3> QED
      <4>1. PICK old, new, g, u, x \in Int :
              /\ old = Later(r.since, Effective) /\ new = Later(r.since, Effective')
              /\ g = r.goal /\ u = r.since /\ x = paid[r.charge]
        BY <3>4, <2>1, <1>2
      <4>2. new >= old /\ g - old <= Period + (u - x)
        BY <4>1, <3>2, <3>3
      <4>3. g - new <= Period + (u - x)
        BY <4>2, <1>3
      <4> QED
        BY <4>1, <4>3
  <2> QED
    BY <1>0, <2>1, <2>2, <2>3
<1>9. ASSUME r.at = "enter"
      PROVE  /\ NothingTakenIn(r.seen + 1 .. Len(ledger))'
                  => Later(now', Effective') + r.delta >= paid'[r.charge] + Period
             /\ NothingTakenIn(1 .. Len(ledger))'
                  => r.delta <= Period + (r.since - paid'[r.charge])
  <2>1. /\ r.charge \in Charges /\ paid'[r.charge] = paid[r.charge] /\ paid[r.charge] \in Int
    BY <1>0, <1>1, <1>4, <1>9 DEF Placed
  <2>2. ASSUME NothingTakenIn(r.seen + 1 .. Len(ledger))'
        PROVE  Later(now', Effective') + r.delta >= paid[r.charge] + Period
    <3>1. NothingTakenIn(r.seen + 1 .. Len(ledger)) /\ Effective' >= Effective
      BY <1>0, <2>2, <1>5, <1>6
    <3>2. Later(now, Effective) + r.delta >= paid[r.charge] + Period
      BY <1>0, <1>1, <1>9, <3>1 DEF Aims
    <3>3. /\ Later(now', Effective') >= Later(now, Effective)
          /\ Later(now', Effective') \in Int /\ Later(now, Effective) \in Int
      BY <1>0, <3>1, <1>3 DEF Later
    <3> QED
      <4>1. PICK old, new, d, x \in Int :
              /\ old = Later(now, Effective) /\ new = Later(now', Effective')
              /\ d = r.delta /\ x = paid[r.charge]
        BY <3>3, <2>1, <1>2
      <4>2. new >= old /\ old + d >= x + Period
        BY <4>1, <3>2, <3>3
      <4>3. new + d >= x + Period
        BY <4>2, <1>3
      <4> QED
        BY <4>1, <4>3
  <2>3. ASSUME NothingTakenIn(1 .. Len(ledger))'
        PROVE  r.delta <= Period + (r.since - paid[r.charge])
    BY <1>0, <1>1, <1>5, <1>6, <1>9, <2>3 DEF Aims
  <2> QED
    BY <1>0, <2>1, <2>2, <2>3
<1>10. Aims(p)'
  BY <1>0, <1>1, <1>8, <1>9 DEF Aims
<1> QED
  BY <1>0, <1>7, <1>10

LEMMA OnwardsKeeps ==
  ASSUME PaymentsInv, AccountsStep, LedgerStep, NEW p \in Procs, NEW next \in ProcRecords,
         proc' = [proc EXCEPT ![p] = next], Placed(p)', Aims(p)',
         handled' \subseteq Charges, faults' \in Nat
  PROVE  ProcsStep
<1>1. proc \in [Procs -> ProcRecords]
  BY DEF PaymentsInv, PaymentsTypeOK
<1>2. \A q \in Procs : Placed(q)' /\ Aims(q)'
  <2> TAKE q \in Procs
  <2>1. CASE q # p
    <3>1. proc'[q] = proc[q]
      BY <1>1, <2>1
    <3> QED
      BY <3>1, OthersAreFine
  <2> QED
    BY <2>1
<1> QED
  BY <1>1, <1>2 DEF ProcsStep, ProcsInv

LEMMA EndsKeeps ==
  ASSUME PaymentsInv, AccountsStep, LedgerStep, NEW p \in Procs, ~ At(p, "idle"), Ends(p),
         faults' \in Nat
  PROVE  ProcsStep
<1> DEFINE r == proc[p]
           list == r.todo \ {Charge(p)}
<1>1. /\ proc \in [Procs -> ProcRecords] /\ r \in ProcRecords /\ Placed(p)
      /\ handled \subseteq Charges /\ r.at # "idle" /\ r.at \in Places
  BY DEF PaymentsInv, PaymentsTypeOK, ProcsInv, At, ProcRecords
<1>2. proc' = [proc EXCEPT ![p] = Rest(p)] /\ proc'[p] = Rest(p)
  BY <1>1 DEF Ends
<1>3. handled' \subseteq Charges
  <2>1. p = "control" => r.charge \in Charges
    BY <1>1, PaymentsAssumption DEF Placed, Places
  <2> QED
    BY <1>1, <2>1 DEF Ends, Charge
<1>4. CASE list = {}
  <2>1. Rest(p) = Resting
    BY <1>4 DEF Rest, TakeFirst, Charge
  <2> QED
    BY <1>2, <1>3, <2>1, RestingIsFine, OnwardsKeeps
<1>5. CASE list # {}
  <2>1. list \in SUBSET Charges /\ r.since \in Int
    BY <1>1 DEF ProcRecords
  <2>2. PICK c \in list : c = First(list)
    BY <1>5, <2>1, LeastCharge
  <2>0. PICK l \in SUBSET Charges, u \in Int : l = list /\ u = r.since
    BY <2>1
  <2>3. PICK next : next = [Resting EXCEPT !.at = "next", !.charge = c, !.since = u,
                                           !.todo = l]
    OBVIOUS
  <2>4. next = Rest(p)
    BY <1>5, <2>0, <2>2, <2>3 DEF Rest, TakeFirst, Charge
  <2>5. /\ next \in ProcRecords /\ next.at = "next" /\ next.charge = c /\ next.seen = 0
        /\ next.since = r.since /\ next.todo = list
    <3>1. c \in Charges
      BY <2>1, <2>2
    <3>2. /\ next \in ProcRecords /\ next.at = "next" /\ next.charge = c /\ next.seen = 0
          /\ next.since = u /\ next.todo = l
      <4>1. next = [at |-> "next", charge |-> c, since |-> u, goal |-> 0, delta |-> 0,
                    seen |-> 0, todo |-> l]
        BY <2>3 DEF Resting
      <4> QED
        BY <3>1, <4>1 DEF ProcRecords, Places
    <3> QED
      BY <3>2, <2>0
  <2>6. /\ p = "sync" /\ r.since <= now
        /\ \A d \in list : d \in Charges /\ IsPaid(d) /\ paid[d] <= r.since
    BY <1>1, <1>5, <2>1 DEF Placed
  <2>7. \A d \in list : IsPaid(d)' /\ paid'[d] <= r.since
    BY <2>6 DEF AccountsStep, IsPaid
  <2>8. r.since <= now' /\ 0 <= Len(ledger')
    BY <2>1, <2>6, LedgerGrows DEF PaymentsInv, PaymentsTypeOK, AccountsTyped, AccountsStep
  <2>9. proc'[p] = next
    BY <1>2, <2>4
  <2>10. Placed(p)' /\ Aims(p)'
    BY <2>2, <2>5, <2>6, <2>7, <2>8, <2>9 DEF Placed, Aims
  <2> QED
    BY <1>2, <1>3, <2>4, <2>5, <2>10, OnwardsKeeps
<1> QED
  BY <1>4, <1>5

LEMMA FinishesKeeps ==
  ASSUME PaymentsInv, AccountsStep, LedgerStep, NEW p \in Procs, ~ At(p, "idle"), Finishes(p)
  PROVE  ProcsStep
<1>1. faults' \in Nat /\ Ends(p)
  BY DEF Finishes, Done, Fails, PaymentsInv, PaymentsTypeOK
<1> QED
  BY <1>1, EndsKeeps

LEMMA GoesKeeps ==
  ASSUME PaymentsInv, AccountsStep, LedgerStep, NEW p \in Procs, NEW place \in Places,
         ~ At(p, "idle"), Goes(p, place),
         proc'[p] = [proc[p] EXCEPT !.at = place] => Placed(p)' /\ Aims(p)'
  PROVE  ProcsStep
<1>1. CASE Fails(p)
  BY <1>1, FinishesKeeps DEF Finishes
<1>2. CASE Onwards(p, [proc[p] EXCEPT !.at = place])
  <2>1. PICK next : next = [proc[p] EXCEPT !.at = place]
    OBVIOUS
  <2>2. proc \in [Procs -> ProcRecords] /\ next \in ProcRecords
    BY <2>1 DEF PaymentsInv, PaymentsTypeOK, ProcRecords
  <2>3. /\ proc' = [proc EXCEPT ![p] = next] /\ handled' \subseteq Charges /\ faults' \in Nat
    BY <1>2, <2>1 DEF Onwards, PaymentsInv, PaymentsTypeOK
  <2>4. proc'[p] = next
    BY <2>2, <2>3
  <2> QED
    BY <2>1, <2>2, <2>3, <2>4, OnwardsKeeps
<1> QED
  BY <1>1, <1>2 DEF Goes

(* All together.                                                             *)
LEMMA Together ==
  ASSUME PaymentsInv, AccountsStep, LedgerStep, ProcsStep
  PROVE  PaymentsInv'
<1>1. LedgerInv'
  BY SameLedgerKeeps, NewEventKeeps DEF LedgerStep
<1>2. PaymentsTypeOK'
  BY LedgerGrows DEF PaymentsInv, PaymentsTypeOK, AccountsStep, ProcsStep
<1> QED
  BY <1>1, <1>2 DEF PaymentsInv, AccountsStep, ProcsStep

(* Steps that leave the accounts alone.                                      *)
LEMMA SameAccounts ==
  ASSUME PaymentsInv, UNCHANGED <<now, paid, returned, rows>>, orders' \in Nat
  PROVE  AccountsStep
BY DEF PaymentsInv, PaymentsTypeOK, AccountsStep, AccountsTyped, MoneySane, IsPaid

-----------------------------------------------------------------------------
(* Events.                                                                   *)

LEMMA CreateEventSteps ==
  ASSUME PaymentsInv, NEW kind \in {"payment", "reversal", "grant", "revoke"},
         NEW c \in Charges \cup {Nil}, NEW delta \in Int, NEW seen \in Nat,
         seen <= Len(ledger), CreateEvent(kind, c, delta, seen),
         kind \in {"payment", "reversal"} => c \in Charges,
         kind = "payment" =>
           /\ IsPaid(c) /\ rows[c] # "none"
           /\ NothingTakenIn(seen + 1 .. Len(ledger))
                => Later(now, Effective) + delta >= paid[c] + Period
           /\ NothingTakenIn(1 .. Len(ledger)) => delta <= Period + (now - paid[c]),
         kind = "reversal" => rows[c] = "refunded"
  PROVE  LedgerStep
<1>1. CASE Exists(kind, c)
  BY <1>1 DEF CreateEvent, LedgerStep
<1>2. CASE ~ Exists(kind, c)
  <2>1. PICK e : e = [kind |-> kind, charge |-> c, delta |-> delta, at |-> now,
                      until |-> Until(delta, seen), seen |-> seen]
    OBVIOUS
  <2>2. now \in Nat /\ Effective \in Int /\ Period \in Nat
    BY EffectiveTyped, PaymentsAssumption DEF PaymentsInv, PaymentsTypeOK, AccountsTyped
  <2>3. /\ Until(delta, seen) \in Int
        /\ Until(delta, seen) >= Later(now, Effective) + delta
        /\ Later(now, Effective) \in Int
    BY <2>2 DEF Until, Later
  <2>4. e \in EventRecords
    BY <2>1, <2>2, <2>3 DEF EventRecords
  <2>5. /\ e.kind = kind /\ e.charge = c /\ e.delta = delta /\ e.at = now
        /\ e.until = Until(delta, seen) /\ e.seen = seen
    BY <2>1
  <2>6. ledger' = Append(ledger, e)
    BY <1>2, <2>1 DEF CreateEvent
  <2>7. kind \in {"payment", "reversal"} =>
          \A i \in 1 .. Len(ledger) : ~ (ledger[i].kind = kind /\ ledger[i].charge = c)
    BY <1>2 DEF Exists, Events, PaymentsInv, PaymentsTypeOK
  <2>8. kind = "payment" => paid[c] \in Int
    BY DEF PaymentsInv, PaymentsTypeOK, AccountsTyped, IsPaid
  <2>9. kind = "payment" =>
          (NothingTakenIn(seen + 1 .. Len(ledger)) => Until(delta, seen) >= paid[c] + Period)
    BY <2>2, <2>3, <2>8
  <2>10. NewEvent(e)
    BY <2>4, <2>5, <2>6, <2>7, <2>9 DEF NewEvent
  <2> QED
    BY <2>10 DEF LedgerStep
<1> QED
  BY <1>1, <1>2

-----------------------------------------------------------------------------
(* Time, money, replays and crashes.                                         *)

LEMMA WorldKeeps ==
  ASSUME PaymentsInv, Tick \/ (\E c \in Charges : Pay(c) \/ Replay(c)) \/ Crash
  PROVE  PaymentsInv'
<1>t. PaymentsTypeOK /\ AccountsTyped /\ MoneySane /\ ProcsInv
  BY DEF PaymentsInv, PaymentsTypeOK
<1>1. LedgerStep
  BY DEF LedgerStep, Tick, Pay, Replay, Crash
<1>2. ASSUME AccountsStep, proc' = proc, handled' \subseteq Charges, faults' \in Nat
      PROVE  PaymentsInv'
  <2>1. ProcsStep
    BY <1>1, <1>2, OthersAreFine DEF ProcsStep, ProcsInv, PaymentsInv, PaymentsTypeOK
  <2> QED
    BY <1>1, <1>2, <2>1, Together
<1>3. CASE Tick
  <2>1. AccountsStep
    BY <1>t, <1>3 DEF Tick, AccountsStep, AccountsTyped, MoneySane, IsPaid
  <2> QED
    BY <1>2, <1>3, <2>1 DEF Tick, PaymentsInv, PaymentsTypeOK
<1>4. ASSUME NEW c \in Charges, Pay(c)
      PROVE  PaymentsInv'
  <2>1. /\ paid' \in [Charges -> Int \cup {Nil}]
        /\ \A d \in Charges : d # c => paid'[d] = paid[d]
        /\ paid'[c] = now /\ ~ IsPaid(c) /\ now' = now /\ now \in Nat
    BY <1>t, <1>4 DEF Pay, AccountsTyped
  <2>2. \A d \in Charges : IsPaid(d) => paid'[d] = paid[d]
    BY <2>1
  <2>3. \A d \in Charges : IsPaid(d)' => paid'[d] <= now'
    BY <1>t, <2>1 DEF MoneySane, IsPaid
  <2>4. AccountsStep
    BY <1>t, <1>4, <2>1, <2>2, <2>3 DEF Pay, AccountsStep, AccountsTyped, MoneySane
  <2> QED
    BY <1>2, <1>4, <2>4 DEF Pay, PaymentsInv, PaymentsTypeOK
<1>5. ASSUME NEW c \in Charges, Replay(c)
      PROVE  PaymentsInv'
  <2>1. AccountsStep
    BY <1>5, <1>t, SameAccounts DEF Replay, AccountsTyped
  <2> QED
    BY <1>2, <1>5, <2>1 DEF Replay, PaymentsInv, PaymentsTypeOK
<1>6. CASE Crash
  <2>1. AccountsStep
    BY <1>6, <1>t, SameAccounts DEF Crash, AccountsTyped
  <2>2. \A p \in Procs : proc'[p] = Resting
    BY <1>6 DEF Crash
  <2>3. \A p \in Procs : Resting \in ProcRecords /\ Placed(p)' /\ Aims(p)'
    BY <1>1, <2>1, <2>2, RestingIsFine
  <2>4. proc' \in [Procs -> ProcRecords]
    BY <1>6, <2>3 DEF Crash
  <2>5. handled' \subseteq Charges /\ faults' \in Nat
    BY <1>6 DEF Crash, PaymentsInv, PaymentsTypeOK
  <2> QED
    BY <1>1, <2>1, <2>3, <2>4, <2>5, Together DEF ProcsStep, ProcsInv
<1> QED
  BY <1>3, <1>4, <1>5, <1>6

LEMMA BreakKeeps ==
  ASSUME PaymentsInv, NEW p \in Procs, Break(p)
  PROVE  PaymentsInv'
<1>1. AccountsStep /\ LedgerStep
  BY SameAccounts DEF Break, LedgerStep, PaymentsInv, PaymentsTypeOK, AccountsTyped
<1>2. ProcsStep
  BY <1>1, FinishesKeeps DEF Break, Finishes
<1> QED
  BY <1>1, <1>2, Together

-----------------------------------------------------------------------------
(* A payment.                                                                *)

LEMMA TakeKeeps ==
  ASSUME PaymentsInv, NEW c \in Charges, Take(c)
  PROVE  PaymentsInv'
<1>1. AccountsStep /\ LedgerStep
  BY SameAccounts DEF Take, LedgerStep, PaymentsInv, PaymentsTypeOK, AccountsTyped
<1>2. /\ now \in Nat /\ paid[c] \in Int /\ IsPaid(c) /\ paid[c] <= now
      /\ Period \in Nat /\ Effective \in Int /\ "control" \in Procs /\ "control" # "sync"
      /\ Len(ledger) \in Nat /\ proc \in [Procs -> ProcRecords]
      /\ paid' = paid /\ now' = now /\ ledger' = ledger
  BY EffectiveTyped, PaymentsAssumption
  DEF Take, PaymentsInv, PaymentsTypeOK, AccountsTyped, MoneySane, IsPaid, Procs
<1>3. PICK next : next = [Resting EXCEPT !.at = "save", !.charge = c, !.since = now,
                                         !.goal = paid[c] + Period]
  OBVIOUS
<1>4. PICK u, g \in Int : u = now /\ g = paid[c] + Period
  BY <1>2
<1>5. next = [at |-> "save", charge |-> c, since |-> u, goal |-> g, delta |-> 0,
              seen |-> 0, todo |-> {}]
  BY <1>3, <1>4 DEF Resting
<1>6. next \in ProcRecords
  BY <1>5 DEF ProcRecords, Places
<1>7. proc' = [proc EXCEPT !["control"] = next] /\ proc'["control"] = next
  BY <1>2, <1>3 DEF Take
<1>8. Placed("control")'
  BY <1>2, <1>4, <1>5, <1>7 DEF Placed, IsPaid
<1>9. Aims("control")'
  <2>1. Effective' = Effective
    BY <1>2 DEF Effective
  <2>2. g - Later(u, Effective) <= Period + (u - paid[c])
    BY <1>2, <1>4 DEF Later
  <2> QED
    BY <1>2, <1>4, <1>5, <1>7, <2>1, <2>2 DEF Aims
<1>10. handled' \subseteq Charges /\ faults' \in Nat
  BY DEF Take, PaymentsInv, PaymentsTypeOK
<1>11. ProcsStep
  BY <1>1, <1>2, <1>6, <1>7, <1>8, <1>9, <1>10, OnwardsKeeps
<1> QED
  BY <1>1, <1>11, Together

LEMMA SaveKeeps ==
  ASSUME PaymentsInv, NEW p \in Procs, Save(p)
  PROVE  PaymentsInv'
<1> DEFINE r == proc[p]
<1>1. /\ proc \in [Procs -> ProcRecords] /\ r \in ProcRecords /\ Placed(p) /\ Aims(p)
      /\ r.at = "save" /\ r.charge \in Charges /\ AccountsTyped /\ MoneySane
      /\ Charge(p) = r.charge
  BY DEF PaymentsInv, PaymentsTypeOK, ProcsInv, Save, At, Placed, Charge
<1>2. /\ rows' = [rows EXCEPT ![r.charge] = IF @ = "none" THEN "kept" ELSE @]
      /\ UNCHANGED <<now, paid, returned, ledger, orders>>
  BY <1>1 DEF Save
<1>3. /\ rows' \in [Charges -> {"none", "kept", "refunded"}]
      /\ rows'[r.charge] # "none"
      /\ \A c \in Charges : /\ rows[c] # "none" => rows'[c] = rows[c]
                            /\ rows'[c] = "refunded" => rows[c] = "refunded"
  BY <1>1, <1>2 DEF AccountsTyped
<1>4. AccountsStep /\ LedgerStep
  BY <1>1, <1>2, <1>3 DEF AccountsStep, LedgerStep, AccountsTyped, MoneySane, IsPaid
<1>5. ASSUME proc'[p] = [proc[p] EXCEPT !.at = "look"]
      PROVE  Placed(p)' /\ Aims(p)'
  <2>1. /\ proc'[p].at = "look" /\ proc'[p].charge = r.charge /\ proc'[p].since = r.since
        /\ proc'[p].goal = r.goal /\ proc'[p].delta = r.delta /\ proc'[p].seen = r.seen
        /\ proc'[p].todo = r.todo
    BY <1>1, <1>5 DEF ProcRecords
  <2>2. Effective' = Effective /\ \A k : NothingTakenIn(k)' <=> NothingTakenIn(k)
    BY <1>2 DEF Effective, NothingTakenIn, Takes
  <2>3. Aims(p)'
    BY <1>1, <1>2, <2>1, <2>2 DEF Aims, NothingTakenIn, Takes
  <2> QED
    BY <1>1, <1>2, <1>3, <2>1, <2>3 DEF Placed, IsPaid
<1>6. ProcsStep
  BY <1>1, <1>4, <1>5, GoesKeeps DEF Save, At, Places
<1> QED
  BY <1>4, <1>6, Together

LEMMA LookKeeps ==
  ASSUME PaymentsInv, NEW p \in Procs, Look(p)
  PROVE  PaymentsInv'
<1>1. AccountsStep /\ LedgerStep
  BY SameAccounts DEF Look, LedgerStep, PaymentsInv, PaymentsTypeOK, AccountsTyped
<1>2. CASE Done(p)
  BY <1>1, <1>2, FinishesKeeps, Together DEF Finishes, Look, At
<1>3. CASE ~ Done(p)
  <2> DEFINE r == proc[p]
  <2>1. /\ proc \in [Procs -> ProcRecords] /\ r \in ProcRecords /\ Placed(p) /\ Aims(p)
        /\ r.at = "look" /\ r.charge \in Charges /\ AccountsTyped
        /\ IsPaid(r.charge) /\ paid[r.charge] \in Int /\ paid[r.charge] <= r.since
        /\ UNCHANGED <<now, paid, rows, ledger>>
    BY DEF PaymentsInv, PaymentsTypeOK, ProcsInv, Look, At, Placed, AccountsTyped, IsPaid
  <2>2. PICK u, g, x, f \in Int, n \in Nat, c \in Charges, l \in SUBSET Charges :
          /\ u = r.since /\ g = r.goal /\ x = paid[r.charge] /\ f = Effective
          /\ n = Len(ledger) /\ c = r.charge /\ l = r.todo
    BY <2>1, EffectiveTyped DEF ProcRecords, PaymentsInv
  <2>3. PICK d \in Int : d = DeltaTo(g, u) /\ d = Later(0, g - Later(u, f))
    BY <2>2 DEF DeltaTo, Later
  <2>4. PICK next : next = [proc[p] EXCEPT !.at = "enter", !.seen = n, !.goal = 0, !.delta = d]
    OBVIOUS
  <2>5. proc' = [proc EXCEPT ![p] = next] /\ handled' = handled /\ faults' = faults
    BY <1>3, <2>2, <2>3, <2>4 DEF Look, Onwards
  <2>6. /\ next \in ProcRecords /\ next.at = "enter" /\ next.charge = c /\ next.since = u
        /\ next.delta = d /\ next.seen = n /\ next.todo = l
    <3>1. next = [at |-> "enter", charge |-> c, since |-> u, goal |-> 0, delta |-> d,
                  seen |-> n, todo |-> l]
      BY <2>1, <2>2, <2>4 DEF ProcRecords
    <3>2. c \in Charges \cup {Nil}
      OBVIOUS
    <3> QED
      BY <3>1, <3>2 DEF ProcRecords, Places
  <2>7. proc'[p] = next
    BY <2>1, <2>5
  <2>8. Placed(p)'
    BY <2>1, <2>2, <2>6, <2>7 DEF Placed, IsPaid
  <2>9. /\ Effective' = f /\ now' = now /\ now \in Nat /\ u <= now /\ Period \in Nat /\ x <= u
        /\ paid'[c] = x /\ Len(ledger)' = n
    BY <2>1, <2>2, PaymentsAssumption DEF Effective, Placed, AccountsTyped
  <2>10. /\ g >= x + Period
         /\ NothingTakenIn(1 .. Len(ledger)) => g - Later(u, f) <= Period + (u - x)
    BY <2>1, <2>2 DEF Aims
  <2>11. Later(now, f) + d >= x + Period
    <3>1. PICK m \in Int : m = Later(u, f)
      BY DEF Later
    <3>2. PICK k \in Int : k = Later(now, f) /\ k >= m
      BY <2>9, <3>1 DEF Later
    <3>3. d >= g - m
      BY <2>3, <3>1 DEF Later
    <3> QED
      BY <2>9, <2>10, <3>2, <3>3
  <2>12. NothingTakenIn(1 .. Len(ledger))' => d <= Period + (u - x)
    <3>1. NothingTakenIn(1 .. Len(ledger))' <=> NothingTakenIn(1 .. Len(ledger))
      BY <2>1 DEF NothingTakenIn, Takes
    <3>2. Later(u, f) \in Int
      BY DEF Later
    <3> QED
      BY <2>3, <2>9, <2>10, <3>1, <3>2 DEF Later
  <2>13. Aims(p)'
    BY <2>6, <2>7, <2>9, <2>11, <2>12 DEF Aims
  <2>14. handled' \subseteq Charges /\ faults' \in Nat
    BY <2>5 DEF PaymentsInv, PaymentsTypeOK
  <2> QED
    BY <1>1, <2>5, <2>6, <2>8, <2>13, <2>14, OnwardsKeeps, Together
<1> QED
  BY <1>2, <1>3

LEMMA EnterKeeps ==
  ASSUME PaymentsInv, NEW p \in Procs, Enter(p)
  PROVE  PaymentsInv'
<1> DEFINE r == proc[p]
<1>1. AccountsStep
  BY SameAccounts DEF Enter, PaymentsInv, PaymentsTypeOK, AccountsTyped
<1>2. /\ r \in ProcRecords /\ Placed(p) /\ Aims(p) /\ r.at = "enter" /\ Charge(p) = r.charge
      /\ AccountsTyped
  BY DEF PaymentsInv, PaymentsTypeOK, ProcsInv, Enter, At, Charge
<1>3. /\ r.charge \in Charges /\ IsPaid(r.charge) /\ rows[r.charge] # "none"
      /\ r.delta \in Int /\ r.seen \in Nat /\ r.seen <= Len(ledger)
      /\ r.since \in Int /\ r.since <= now /\ now \in Nat
      /\ paid[r.charge] \in Int /\ Period \in Nat
  BY <1>2, PaymentsAssumption DEF Placed, ProcRecords, AccountsTyped, IsPaid
<1>4. NothingTakenIn(r.seen + 1 .. Len(ledger))
        => Later(now, Effective) + r.delta >= paid[r.charge] + Period
  BY <1>2 DEF Aims
<1>5. NothingTakenIn(1 .. Len(ledger)) => r.delta <= Period + (now - paid[r.charge])
  <2>1. NothingTakenIn(1 .. Len(ledger)) => r.delta <= Period + (r.since - paid[r.charge])
    BY <1>2 DEF Aims
  <2> QED
    BY <1>3, <2>1
<1>6. CreateEvent("payment", r.charge, r.delta, r.seen)
  BY <1>2 DEF Enter
<1> HIDE DEF r
<1>7. LedgerStep
  BY <1>3, <1>4, <1>5, <1>6, CreateEventSteps
<1>8. ProcsStep
  BY <1>1, <1>7, FinishesKeeps DEF Enter, At
<1> QED
  BY <1>1, <1>7, <1>8, Together

-----------------------------------------------------------------------------
(* The sync.                                                                 *)

LEMMA SyncStartKeeps ==
  ASSUME PaymentsInv, SyncStart
  PROVE  PaymentsInv'
<1>1. AccountsStep /\ LedgerStep
  BY SameAccounts DEF SyncStart, LedgerStep, PaymentsInv, PaymentsTypeOK, AccountsTyped
<1>2. /\ "sync" \in Procs /\ proc \in [Procs -> ProcRecords] /\ now \in Nat
      /\ Len(ledger) \in Nat /\ UNCHANGED <<now, paid, rows, ledger>>
      /\ \A c \in Charges : IsPaid(c) => paid[c] <= now
  BY EffectiveTyped
  DEF SyncStart, Procs, PaymentsInv, PaymentsTypeOK, AccountsTyped, MoneySane
<1>3. PICK list \in SUBSET Charges : list = {c \in Charges : IsPaid(c)} /\ list # {}
  BY DEF SyncStart
<1>4. PICK c \in list : c = First(list)
  BY <1>3, LeastCharge
<1>5. PICK u \in Int : u = now
  BY <1>2
<1>6. PICK next : next = [Resting EXCEPT !.at = "next", !.charge = c, !.since = u, !.todo = list]
  OBVIOUS
<1>7. proc' = [proc EXCEPT !["sync"] = next] /\ handled' = handled /\ faults' = faults
  BY <1>3, <1>4, <1>5, <1>6 DEF SyncStart, Onwards, TakeFirst
<1>8. next = [at |-> "next", charge |-> c, since |-> u, goal |-> 0, delta |-> 0,
              seen |-> 0, todo |-> list]
  BY <1>6 DEF Resting
<1>9. next \in ProcRecords /\ proc'["sync"] = next
  BY <1>2, <1>7, <1>8 DEF ProcRecords, Places
<1>10. Placed("sync")' /\ Aims("sync")'
  BY <1>2, <1>3, <1>5, <1>8, <1>9 DEF Placed, Aims, IsPaid
<1>11. ProcsStep
  BY <1>1, <1>2, <1>7, <1>9, <1>10, OnwardsKeeps DEF PaymentsInv, PaymentsTypeOK
<1> QED
  BY <1>1, <1>11, Together

LEMMA UncoveredBound ==
  ASSUME NEW s \in Int, NEW t \in Int
  PROVE  /\ Cardinality(UncoveredTicks(s, t)) \in Nat
         /\ Cardinality(UncoveredTicks(s, t)) <= Later(0, t - s)
<1>1. UncoveredTicks(s, t) \in SUBSET (s .. t - 1)
  BY PaymentsAssumption DEF UncoveredTicks
<1>2. /\ IsFiniteSet(s .. t - 1)
      /\ Cardinality(s .. t - 1) = IF s > t - 1 THEN 0 ELSE (t - 1) - s + 1
  BY FS_Interval
<1>3. /\ IsFiniteSet(UncoveredTicks(s, t))
      /\ Cardinality(UncoveredTicks(s, t)) <= Cardinality(s .. t - 1)
  BY <1>1, <1>2, FS_Subset
<1>4. Cardinality(UncoveredTicks(s, t)) \in Nat
  BY <1>3, FS_CardinalityType
<1> QED
  BY <1>2, <1>3, <1>4 DEF Later

(* A subscription is expected to start where the coverage it was bought in   *)
(* ended, which is not after the end of VIP while nothing was taken.         *)
LEMMA StartIsReached ==
  ASSUME PaymentsInv, NEW c \in Charges, IsPaid(c), NEW s \in Int, StartsAt(c, s),
         NothingTakenIn(1 .. Len(ledger))
  PROVE  s = paid[c] \/ s <= Effective
<1>1. paid[c] \in Int /\ s >= paid[c] /\ \A t \in paid[c] .. s - 1 : IsCovered(t)
  BY DEF PaymentsInv, PaymentsTypeOK, AccountsTyped, IsPaid, StartsAt
<1>2. CASE s > paid[c]
  <2>1. PICK t \in Int : t = s - 1
    OBVIOUS
  <2>2. IsCovered(t)
    BY <1>1, <1>2, <2>1
  <2>3. PICK i \in 1 .. Len(ledger) : t < ledger[i].until
    BY <2>2 DEF IsCovered, PaymentsInv, PaymentsTypeOK
  <2>4. ledger[i].until <= Effective /\ ledger[i].until \in Int /\ Effective \in Int
    BY EffectiveTyped DEF PaymentsInv, LedgerInv, Rising, EventRecords
  <2> QED
    BY <2>1, <2>3, <2>4
<1> QED
  BY <1>1, <1>2

LEMMA SyncNextKeeps ==
  ASSUME PaymentsInv, SyncNext
  PROVE  PaymentsInv'
<1> DEFINE r == proc["sync"]
<1>1. AccountsStep /\ LedgerStep
  BY SameAccounts DEF SyncNext, LedgerStep, PaymentsInv, PaymentsTypeOK, AccountsTyped
<1>2. /\ "sync" \in Procs /\ proc \in [Procs -> ProcRecords] /\ r \in ProcRecords
      /\ Placed("sync") /\ r.at = "next" /\ Charge("sync") = r.charge
      /\ r.charge \in Charges /\ IsPaid(r.charge) /\ paid[r.charge] \in Int
      /\ paid[r.charge] <= r.since /\ UNCHANGED <<now, paid, rows, ledger>>
  BY DEF SyncNext, Procs, PaymentsInv, PaymentsTypeOK, AccountsTyped, ProcsInv, At, Placed,
         Charge, IsPaid
<1>3. PICK u, x, f \in Int, n \in Nat, c \in Charges, l \in SUBSET Charges :
        /\ u = r.since /\ x = paid[r.charge] /\ f = Effective /\ n = r.seen
        /\ c = r.charge /\ l = r.todo
  BY <1>2, EffectiveTyped DEF ProcRecords, PaymentsInv
<1>4. PICK s : /\ s \in {x} \cup {ledger[i].until : i \in 1 .. Len(ledger)}
               /\ StartsAt(c, s)
               /\ Onwards("sync", [r EXCEPT !.at = "find", !.goal = CompensatedEnd(s, u)])
  <2>1. DOMAIN ledger = 1 .. Len(ledger)
    BY DEF PaymentsInv, PaymentsTypeOK
  <2>2. PICK s \in {paid[c]} \cup {ledger[i].until : i \in DOMAIN ledger} :
          /\ StartsAt(c, s)
          /\ Onwards("sync", [r EXCEPT !.at = "find", !.goal = CompensatedEnd(s, u)])
    BY <1>2, <1>3 DEF SyncNext
  <2> QED
    BY <1>3, <2>1, <2>2
<1>5. s \in Int
  BY <1>3, <1>4, EffectiveTyped DEF PaymentsInv, EventRecords
<1>6. s >= x
  BY <1>2, <1>3, <1>4 DEF StartsAt
<1>7. PICK m \in Nat : m = Cardinality(UncoveredTicks(s, u)) /\ m <= Later(0, u - s)
  BY <1>5, UncoveredBound
<1>8. PICK g \in Int : g = CompensatedEnd(s, u) /\ g = s + Period + 2 * m
  BY <1>5, <1>7, PaymentsAssumption DEF CompensatedEnd
<1>9. PICK next : next = [r EXCEPT !.at = "find", !.goal = g]
  OBVIOUS
<1>10. PICK d \in Int : d = r.delta
  BY <1>2 DEF ProcRecords
<1>11. next = [at |-> "find", charge |-> c, since |-> u, goal |-> g, delta |-> d,
               seen |-> n, todo |-> l]
  BY <1>2, <1>3, <1>9, <1>10 DEF ProcRecords
<1>12. next \in ProcRecords
  <2>1. c \in Charges \cup {Nil}
    OBVIOUS
  <2> QED
    BY <1>11, <2>1 DEF ProcRecords, Places
<1>13. /\ proc' = [proc EXCEPT !["sync"] = next] /\ proc'["sync"] = next
       /\ handled' = handled /\ faults' = faults
  BY <1>2, <1>4, <1>8, <1>9 DEF Onwards
<1>14. Placed("sync")'
  BY <1>2, <1>3, <1>11, <1>13 DEF Placed, IsPaid
<1>15. NothingTakenIn(1 .. Len(ledger)) => g - Later(u, f) <= Period + (u - x)
  <2> SUFFICES ASSUME NothingTakenIn(1 .. Len(ledger))
               PROVE  g - Later(u, f) <= Period + (u - x)
    OBVIOUS
  <2>1. s = x \/ s <= f
    BY <1>2, <1>3, <1>4, <1>5, StartIsReached
  <2>2. Period \in Nat /\ x <= u
    BY <1>2, <1>3, PaymentsAssumption
  <2>3. CASE s <= u
    <3>1. m <= u - s
      BY <1>5, <1>7, <2>3 DEF Later
    <3>2. Later(u, f) >= u /\ Later(u, f) \in Int
      BY DEF Later
    <3> QED
      BY <1>5, <1>6, <1>8, <2>2, <3>1, <3>2
  <2>4. CASE s > u
    <3>1. m = 0
      BY <1>5, <1>7, <2>4 DEF Later
    <3>2. s <= f /\ Later(u, f) >= f /\ Later(u, f) \in Int
      BY <1>5, <2>1, <2>2, <2>4 DEF Later
    <3> QED
      BY <1>5, <1>8, <2>2, <3>1, <3>2
  <2> QED
    BY <1>5, <2>3, <2>4
<1>16. g >= x + Period
  BY <1>5, <1>6, <1>8, PaymentsAssumption
<1>17. Aims("sync")'
  <2>1. Effective' = f /\ paid'[c] = x
    BY <1>2, <1>3 DEF Effective
  <2>2. NothingTakenIn(1 .. Len(ledger))' <=> NothingTakenIn(1 .. Len(ledger))
    BY <1>2 DEF NothingTakenIn, Takes
  <2> QED
    BY <1>11, <1>13, <1>15, <1>16, <2>1, <2>2 DEF Aims
<1>18. ProcsStep
  BY <1>1, <1>2, <1>12, <1>13, <1>14, <1>17, OnwardsKeeps DEF PaymentsInv, PaymentsTypeOK
<1> QED
  BY <1>1, <1>18, Together

LEMMA SyncFindKeeps ==
  ASSUME PaymentsInv, SyncFind
  PROVE  PaymentsInv'
<1>1. AccountsStep /\ LedgerStep
  BY SameAccounts
  DEF SyncFind, Repairs, LedgerStep, PaymentsInv, PaymentsTypeOK, AccountsTyped
<1>2. /\ "sync" \in Procs /\ proc \in [Procs -> ProcRecords] /\ proc["sync"] \in ProcRecords
      /\ Placed("sync") /\ Aims("sync") /\ proc["sync"].at = "find"
      /\ UNCHANGED <<now, paid, rows, ledger>>
  BY DEF SyncFind, Repairs, Procs, PaymentsInv, PaymentsTypeOK, ProcsInv, At
<1>3. CASE Done("sync")
  BY <1>1, <1>2, <1>3, FinishesKeeps, Together DEF Finishes, At
<1>4. CASE ~ Done("sync")
  <2>1. PICK next : next = [proc["sync"] EXCEPT !.at = "save"]
    OBVIOUS
  <2>2. proc' = [proc EXCEPT !["sync"] = next] /\ handled' = handled /\ faults' = faults
    BY <1>4, <2>1 DEF SyncFind, Repairs, Onwards
  <2>3. next \in ProcRecords /\ proc'["sync"] = next
    BY <1>2, <2>1, <2>2 DEF ProcRecords, Places
  <2>4. /\ next.at = "save" /\ next.charge = proc["sync"].charge
        /\ next.since = proc["sync"].since /\ next.goal = proc["sync"].goal
        /\ next.seen = proc["sync"].seen /\ next.todo = proc["sync"].todo
    BY <1>2, <2>1 DEF ProcRecords
  <2>5. Placed("sync")'
    BY <1>2, <2>3, <2>4 DEF Placed, IsPaid
  <2>6. Aims("sync")'
    BY <1>2, <2>3, <2>4 DEF Aims, NothingTakenIn, Takes, Effective
  <2>7. ProcsStep
    BY <1>1, <1>2, <2>2, <2>3, <2>5, <2>6, OnwardsKeeps DEF PaymentsInv, PaymentsTypeOK
  <2> QED
    BY <1>1, <2>7, Together
<1> QED
  BY <1>3, <1>4

-----------------------------------------------------------------------------
(* Operators.                                                                *)

(* An operator at one of his own places has nothing to aim at.               *)
LEMMA OperatorKeeps ==
  ASSUME PaymentsInv, AccountsStep, LedgerStep, NEW o \in Operators,
         NEW place \in {"revoke", "mark", "reverse"}, NEW c \in Charges \cup {Nil},
         NEW delta \in Int, NEW seen \in Nat, seen <= Len(ledger),
         NEW next, Onwards(o, next),
         next = [at |-> place, charge |-> c, since |-> 0, goal |-> 0, delta |-> delta,
                 seen |-> seen, todo |-> {}],
         place \in {"mark", "reverse"} => c \in returned' /\ rows'[c] # "none",
         place = "reverse" => rows'[c] = "refunded"
  PROVE  PaymentsInv'
<1>2. next = [at |-> place, charge |-> c, since |-> 0, goal |-> 0, delta |-> delta,
              seen |-> seen, todo |-> {}]
  OBVIOUS
<1>3. o \in Procs /\ proc \in [Procs -> ProcRecords]
  BY DEF Procs, PaymentsInv, PaymentsTypeOK
<1>4. next \in ProcRecords
  BY <1>2 DEF ProcRecords, Places
<1>5. /\ proc' = [proc EXCEPT ![o] = next] /\ proc'[o] = next
      /\ handled' = handled /\ faults' = faults
  BY <1>3 DEF Onwards
<1>6. 0 <= now' /\ seen <= Len(ledger')
  BY LedgerGrows, EffectiveTyped DEF PaymentsInv, AccountsStep, AccountsTyped
<1>7. Placed(o)' /\ Aims(o)'
  BY <1>2, <1>5, <1>6 DEF Placed, Aims
<1>8. ProcsStep
  BY <1>3, <1>4, <1>5, <1>7, OnwardsKeeps DEF PaymentsInv, PaymentsTypeOK
<1> QED
  BY <1>8, Together

LEMMA OperatorsKeep ==
  ASSUME PaymentsInv, NEW o \in Operators,
         \/ Grant(o) \/ OrderRevoke(o) \/ Revoke(o)
         \/ Refund(o) \/ Mark(o) \/ Reverse(o)
  PROVE  PaymentsInv'
<1>t. /\ PaymentsTypeOK /\ AccountsTyped /\ MoneySane /\ ProcsInv /\ o \in Procs
      /\ Placed(o) /\ proc[o] \in ProcRecords /\ proc \in [Procs -> ProcRecords]
      /\ Effective \in Int /\ Len(ledger) \in Nat /\ now \in Nat /\ orders \in Nat
      /\ Charge(o) = proc[o].charge /\ proc[o].delta \in Int /\ proc[o].seen \in Nat
  BY EffectiveTyped
  DEF PaymentsInv, PaymentsTypeOK, AccountsTyped, ProcsInv, Procs, Charge, ProcRecords
<1>0. ASSUME Ordered(o)
      PROVE  /\ orders' \in Nat /\ now' = now /\ paid' = paid
  BY <1>0, <1>t DEF Ordered
<1>1. CASE Grant(o)
  <2>1. AccountsStep
    BY <1>0, <1>1, SameAccounts DEF Grant
  <2>2. PICK gift \in Gifts : CreateEvent("grant", Nil, gift, Len(ledger))
    BY <1>1 DEF Grant
  <2>3. LedgerStep
    <3>1. gift \in Int /\ Nil \in Charges \cup {Nil} /\ Len(ledger) <= Len(ledger)
      BY <1>t, PaymentsAssumption
    <3> QED
      BY <1>t, <2>2, <3>1, CreateEventSteps
  <2>4. proc' = proc /\ handled' \subseteq Charges /\ faults' \in Nat
    BY <1>1, <1>t DEF Grant, PaymentsTypeOK
  <2>5. ProcsStep
    BY <1>t, <2>1, <2>3, <2>4, OthersAreFine DEF ProcsStep, ProcsInv
  <2> QED
    BY <2>1, <2>3, <2>5, Together
<1>2. CASE OrderRevoke(o)
  <2>1. AccountsStep /\ LedgerStep
    BY <1>0, <1>2, SameAccounts DEF OrderRevoke, LedgerStep
  <2>2. PICK delta \in Int, seen \in Nat : delta = now - Effective /\ seen = Len(ledger)
    BY <1>t
  <2>3. PICK next : next = [Resting EXCEPT !.at = "revoke", !.delta = delta, !.seen = seen]
    OBVIOUS
  <2>4. next = [at |-> "revoke", charge |-> Nil, since |-> 0, goal |-> 0, delta |-> delta,
                seen |-> seen, todo |-> {}]
    BY <2>3 DEF Resting
  <2>5. Onwards(o, next) /\ seen <= Len(ledger)
    BY <1>2, <1>t, <2>2, <2>3 DEF OrderRevoke
  <2> QED
    BY <2>1, <2>4, <2>5, OperatorKeeps
<1>3. CASE Revoke(o)
  <2>1. AccountsStep
    BY <1>3, <1>t, SameAccounts DEF Revoke
  <2>2. CreateEvent("revoke", Nil, proc[o].delta, proc[o].seen) /\ proc[o].seen <= Len(ledger)
    BY <1>3, <1>t DEF Revoke, Placed
  <2>3. LedgerStep
    BY <1>t, <2>2, CreateEventSteps
  <2>4. ProcsStep
    BY <1>3, <1>t, <2>1, <2>3, FinishesKeeps DEF Revoke, At
  <2> QED
    BY <2>1, <2>3, <2>4, Together
<1>4. CASE Refund(o)
  <2>1. PICK c \in Charges :
          /\ rows[c] # "none" /\ returned' = returned \cup {c}
          /\ \/ Onwards(o, [Resting EXCEPT !.at = "mark", !.charge = c])
             \/ FaultsRemain /\ faults' = faults + 1 /\ UNCHANGED <<handled, proc>>
    BY <1>4 DEF Refund
  <2>2. rows' = rows /\ ledger' = ledger /\ now' = now /\ paid' = paid /\ orders' \in Nat
    BY <1>0, <1>4 DEF Refund
  <2>3. AccountsStep /\ LedgerStep
    BY <1>t, <2>1, <2>2 DEF AccountsStep, AccountsTyped, MoneySane, IsPaid, LedgerStep
  <2>4. CASE Onwards(o, [Resting EXCEPT !.at = "mark", !.charge = c])
    <3>1. PICK next : next = [Resting EXCEPT !.at = "mark", !.charge = c]
      OBVIOUS
    <3>2. next = [at |-> "mark", charge |-> c, since |-> 0, goal |-> 0, delta |-> 0,
                  seen |-> 0, todo |-> {}]
      BY <3>1 DEF Resting
    <3>3. Onwards(o, next) /\ 0 <= Len(ledger) /\ c \in returned' /\ rows'[c] # "none"
      BY <1>t, <2>1, <2>2, <2>4, <3>1
    <3> QED
      BY <2>3, <3>2, <3>3, OperatorKeeps
  <2>5. CASE UNCHANGED <<handled, proc>> /\ faults' = faults + 1
    <3>1. ProcsStep
      BY <1>t, <2>3, <2>5, OthersAreFine DEF ProcsStep, ProcsInv, PaymentsTypeOK
    <3> QED
      BY <2>3, <3>1, Together
  <2> QED
    BY <2>1, <2>4, <2>5
<1>5. CASE Mark(o)
  <2> DEFINE c == proc[o].charge
  <2>1. /\ proc[o].at = "mark" /\ c \in returned /\ c \in Charges /\ rows[c] # "none"
    BY <1>5, <1>t DEF Mark, At, Placed, AccountsTyped
  <2>2. /\ rows' = [rows EXCEPT ![c] = "refunded"]
        /\ UNCHANGED <<now, paid, returned, ledger, orders>>
    BY <1>5, <1>t DEF Mark
  <2>3. /\ rows' \in [Charges -> {"none", "kept", "refunded"}] /\ rows'[c] = "refunded"
        /\ \A d \in Charges : d # c => rows'[d] = rows[d]
    BY <1>t, <2>1, <2>2 DEF AccountsTyped
  <2>4. AccountsStep /\ LedgerStep
    BY <1>t, <2>1, <2>2, <2>3 DEF AccountsStep, AccountsTyped, MoneySane, IsPaid, LedgerStep
  <2>5. ASSUME proc'[o] = [proc[o] EXCEPT !.at = "reverse"]
        PROVE  Placed(o)' /\ Aims(o)'
    <3>1. /\ proc'[o].at = "reverse" /\ proc'[o].charge = c
          /\ proc'[o].since = proc[o].since /\ proc'[o].seen = proc[o].seen
          /\ proc'[o].todo = proc[o].todo
      BY <1>t, <2>5 DEF ProcRecords
    <3> QED
      BY <1>t, <2>1, <2>2, <2>3, <3>1 DEF Placed, Aims, IsPaid
  <2>6. ProcsStep
    BY <1>5, <1>t, <2>1, <2>4, <2>5, GoesKeeps DEF Mark, At, Places
  <2> QED
    BY <2>4, <2>6, Together
<1>6. CASE Reverse(o)
  <2>1. AccountsStep
    BY <1>6, <1>t, SameAccounts DEF Reverse
  <2>2. /\ CreateEvent("reversal", proc[o].charge, - Period, Len(ledger))
        /\ proc[o].charge \in Charges /\ rows[proc[o].charge] = "refunded"
    BY <1>6, <1>t DEF Reverse, At, Placed, AccountsTyped
  <2>3. - Period \in Int
    BY PaymentsAssumption
  <2>4. LedgerStep
    BY <1>t, <2>2, <2>3, CreateEventSteps
  <2>5. ProcsStep
    BY <1>6, <1>t, <2>1, <2>4, FinishesKeeps DEF Reverse, At
  <2> QED
    BY <2>1, <2>4, <2>5, Together
<1> QED
  BY <1>1, <1>2, <1>3, <1>4, <1>5, <1>6

-----------------------------------------------------------------------------
LEMMA InitPaymentsInv == PaymentsInit => PaymentsInv
<1> SUFFICES ASSUME PaymentsInit PROVE PaymentsInv
  OBVIOUS
<1>1. /\ now = 0 /\ returned = {} /\ handled = {} /\ faults = 0 /\ orders = 0
      /\ rows = [c \in Charges |-> "none"] /\ ledger = <<>> /\ Len(ledger) = 0
      /\ paid \in [Charges -> Int \cup {Nil}]
      /\ \A c \in Charges : paid[c] \in Int => paid[c] <= 0
  BY PaymentsAssumption DEF PaymentsInit
<1>2. proc = [p \in Procs |-> Resting] /\ Resting \in ProcRecords
  BY DEF PaymentsInit, Resting, ProcRecords, Places
<1>3. PaymentsTypeOK
  BY <1>1, <1>2 DEF PaymentsTypeOK, AccountsTyped
<1>4. MoneySane
  BY <1>1 DEF MoneySane, IsPaid
<1>5. ProcsInv
  BY <1>1, <1>2 DEF ProcsInv, Placed, Aims, Resting
<1>6. LedgerInv
  BY <1>1 DEF LedgerInv, LedgerSane, Rising, OnlyOnce, PaidTimeIsGiven, PaidTimeIsKept,
              NoTimeIsGivenTwice, Payments
<1> QED
  BY <1>3, <1>4, <1>5, <1>6 DEF PaymentsInv

LEMMA StutterKeeps ==
  ASSUME PaymentsInv, UNCHANGED vars
  PROVE  PaymentsInv'
<1>1. AccountsStep /\ LedgerStep
  BY SameAccounts DEF vars, LedgerStep, PaymentsInv, PaymentsTypeOK, AccountsTyped
<1>2. ProcsStep
  BY <1>1, OthersAreFine DEF vars, ProcsStep, ProcsInv, PaymentsInv, PaymentsTypeOK
<1> QED
  BY <1>1, <1>2, Together

LEMMA StepKeeps ==
  ASSUME PaymentsInv, [Next]_vars
  PROVE  PaymentsInv'
<1>1. \A p \in {"control", "sync"} : Handle(p) => PaymentsInv'
  BY SaveKeeps, LookKeeps, EnterKeeps DEF Handle, Procs
<1>2. Sync => PaymentsInv'
  BY <1>1, SyncStartKeeps, SyncNextKeeps, SyncFindKeeps DEF Sync
<1>3. (\E p \in Procs : Break(p)) => PaymentsInv'
  BY BreakKeeps
<1>4. (\E c \in Charges : Pay(c) \/ Replay(c) \/ Take(c)) => PaymentsInv'
  BY WorldKeeps, TakeKeeps
<1> QED
  BY <1>1, <1>2, <1>3, <1>4, WorldKeeps, OperatorsKeep, StutterKeeps DEF Next

(* The inductive invariant: accounts that only move on, processes that know  *)
(* what they are at, and a ledger that keeps its promises.                   *)
THEOREM PaymentsInvariance == PaymentsSpec => []PaymentsInv
<1>1. PaymentsInv /\ [Next]_vars => PaymentsInv'
  BY StepKeeps
<1> QED
  BY <1>1, InitPaymentsInv, PTL DEF PaymentsSpec

(* Every variable keeps its type.                                            *)
THEOREM TypeCorrect == PaymentsSpec => []PaymentsTypeOK
<1>1. PaymentsInv => PaymentsTypeOK
  BY DEF PaymentsInv
<1> QED
  BY <1>1, PaymentsInvariance, PTL

(* Whoever writes to the ledger between the look and the entry of a payment, *)
(* it buys at least its period until something is taken, and at most the     *)
(* period and the delay it was entered with.                                 *)
THEOREM TimeIsGivenOnce == PaymentsSpec => []PaidTimeIsGiven
<1>1. PaymentsInv => PaidTimeIsGiven
  BY DEF PaymentsInv, LedgerInv
<1> QED
  BY <1>1, PaymentsInvariance, PTL

(* A payment is entered once and after it was paid, a refund is reversed     *)
(* once and after the money went back.                                       *)
THEOREM LedgerFollowsMoney == PaymentsSpec => []TimeFollowsMoney
<1>1. PaymentsInv => TimeFollowsMoney
  <2> SUFFICES ASSUME PaymentsInv PROVE TimeFollowsMoney
    OBVIOUS
  <2>1. \A kind, c : Events(kind, c) = {i \in 1 .. Len(ledger) :
                                         ledger[i].kind = kind /\ ledger[i].charge = c}
    BY DEF PaymentsInv, PaymentsTypeOK, Events
  <2>2. \A c \in Charges, kind \in {"payment", "reversal"} :
          \A i, j \in Events(kind, c) : i = j
    BY <2>1 DEF PaymentsInv, LedgerInv, OnlyOnce
  <2>3. \A c \in Charges : /\ Entered(c) => IsPaid(c) /\ rows[c] # "none"
                           /\ Events("reversal", c) # {} => rows[c] = "refunded"
    BY <2>1 DEF PaymentsInv, LedgerInv, Backed, Entered
  <2>4. \A c \in Charges : rows[c] = "refunded" => c \in returned
    BY DEF PaymentsInv, MoneySane
  <2> QED
    BY <2>2, <2>3, <2>4 DEF TimeFollowsMoney
<1> QED
  BY <1>1, PaymentsInvariance, PTL

=============================================================================
