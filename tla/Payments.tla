------------------------------ MODULE Payments ------------------------------
(* What one user pays and the VIP time it buys.  A payment is a job of the   *)
(* control worker; the sync worker reads Telegram's list of transactions and *)
(* enters what is missing; operators grant, revoke and refund.  All of them  *)
(* write the ledger of the user, one event at a time: vip_create_event takes *)
(* a lock per user.  Between the statements of one of them anybody else, the *)
(* clock and a crash may come.                                               *)
(*                                                                           *)
(* One user is enough: rows, events and the lock are per user.  A tick is    *)
(* the unit of time.  Telegram is a list of charges.  Donations and the end  *)
(* of a renewal, which touch no VIP time, texts and the cache of the VIP     *)
(* status are left out.                                                      *)
EXTENDS Integers, FiniteSets, Sequences

CONSTANTS Charges,    \* subscription payments, in the order they are made
          Operators,  \* handlers of an operator's or the user's command
          Nil,
          Period,     \* what a payment pays for: 30 days
          Gifts,      \* ticks an operator may grant; negative ones take away
          Missed,     \* what may have been paid before the start, unseen
          MaxTime, MaxFaults, MaxOrders  \* bounds

ASSUME PaymentsAssumption ==
  /\ Charges \subseteq Nat /\ IsFiniteSet(Charges)
  /\ Nil \notin Charges
  /\ Period \in Nat \ {0} /\ Gifts \subseteq Int
  /\ \A past \in Missed : past \in [Charges -> Int \cup {Nil}]
  /\ \A past \in Missed, c \in Charges : past[c] \in Int => past[c] <= 0
  /\ {"control", "sync"} \cap Operators = {}
  /\ MaxTime \in Nat /\ MaxFaults \in Nat /\ MaxOrders \in Nat

VARIABLES now,
          paid,      \* [Charges -> when Telegram took the money, or Nil]
          returned,  \* charges Telegram gave back
          handled,   \* charges whose control job is over
          rows,      \* [Charges -> its subscriptions row]
          ledger,    \* vip_events of the user
          proc,      \* [Procs -> what it does]
          faults, orders

vars == <<now, paid, returned, handled, rows, ledger, proc, faults, orders>>

Procs == {"control", "sync"} \cup Operators
Places == {"idle", "save", "look", "enter",  \* a payment
           "next", "find",                   \* the sync
           "revoke", "mark", "reverse"}      \* an operator

(* What a process remembers: the charge it is at, the clock it started with, *)
(* the end VIP should reach, the event it is about to write, the events it   *)
(* has seen, and what the sync still has to do.                              *)
Resting == [at |-> "idle", charge |-> Nil, since |-> 0, goal |-> 0, delta |-> 0,
            seen |-> 0, todo |-> {}]

PaymentsInit ==
  /\ now = 0
  /\ paid \in Missed /\ returned = {}
  /\ handled = {} /\ rows = [c \in Charges |-> "none"]
  /\ ledger = <<>>
  /\ proc = [p \in Procs |-> Resting]
  /\ faults = 0 /\ orders = 0

Later(a, b) == IF a >= b THEN a ELSE b
At(p, place) == proc[p].at = place
Charge(p) == proc[p].charge
IsPaid(c) == paid[c] # Nil
FaultsRemain == faults < MaxFaults

-----------------------------------------------------------------------------
(* The ledger.                                                               *)

Events(kind, c) == {i \in DOMAIN ledger : ledger[i].kind = kind /\ ledger[i].charge = c}
Entered(c) == Events("payment", c) # {}

(* effective_expires_at of the newest event; 0, which is over, without any.  *)
Effective == IF ledger = <<>> THEN 0 ELSE ledger[Len(ledger)].until

(* Mutant: computed from what the writer had seen.                           *)
StaleUntil(delta, seen) ==
  LET last == IF seen = 0 THEN 0 ELSE ledger[seen].until
  IN  Later(now, Later(now, last) + delta)

(* vip_compute_effective_expires, of the newest event.                       *)
Until(delta, seen) == Later(now, Later(now, Effective) + delta)

(* Mutant: without the unique indexes.                                       *)
NothingExists(kind, c) == FALSE

(* The unique indexes: one payment and one reversal per subscription.        *)
Exists(kind, c) == kind \in {"payment", "reversal"} /\ Events(kind, c) # {}

(* vip_create_event: seen is what its writer knew of the ledger.             *)
CreateEvent(kind, c, delta, seen) ==
  ledger' = IF Exists(kind, c) THEN ledger
            ELSE Append(ledger, [kind |-> kind, charge |-> c, delta |-> delta, at |-> now,
                                 until |-> Until(delta, seen), seen |-> seen])

-----------------------------------------------------------------------------
(* Time and Telegram.                                                        *)

Tick ==
  /\ now < MaxTime
  /\ now' = now + 1
  /\ UNCHANGED <<paid, returned, handled, rows, ledger, proc, faults, orders>>

Pay(c) ==
  /\ ~ IsPaid(c) /\ \A d \in Charges : d < c => IsPaid(d)
  /\ paid' = [paid EXCEPT ![c] = now]
  /\ UNCHANGED <<now, returned, handled, rows, ledger, proc, faults, orders>>

(* The message of a payment, or its control job, is replayed.                *)
Replay(c) ==
  /\ FaultsRemain /\ faults' = faults + 1
  /\ c \in handled /\ handled' = handled \ {c}
  /\ UNCHANGED <<now, paid, returned, rows, ledger, proc, orders>>

-----------------------------------------------------------------------------
(* How a step of a process ends.                                             *)

(* The process goes on, its record being next.                               *)
Onwards(p, next) ==
  /\ proc' = [proc EXCEPT ![p] = next]
  /\ UNCHANGED <<handled, faults>>

(* The sync takes the payments of its list in their order.                   *)
First(list) == CHOOSE c \in list : \A d \in list : c <= d

TakeFirst(list, since) ==
  IF list = {} THEN Resting
  ELSE [Resting EXCEPT !.at = "next", !.charge = First(list), !.since = since, !.todo = list]

(* What it did is over: the job is completed or failed, which is the same to *)
(* the ledger, the sync takes the next payment, an operator has an answer.   *)
Rest(p) == TakeFirst(proc[p].todo \ {Charge(p)}, proc[p].since)

Ends(p) ==
  /\ proc' = [proc EXCEPT ![p] = Rest(p)]
  /\ handled' = IF p = "control" THEN handled \cup {Charge(p)} ELSE handled

Done(p) == Ends(p) /\ UNCHANGED faults

(* A statement or a call fails, or the job runs into its time-out.           *)
Fails(p) == FaultsRemain /\ faults' = faults + 1 /\ Ends(p)

(* Whatever was written, its reply can be lost.                              *)
Goes(p, place) == Onwards(p, [proc[p] EXCEPT !.at = place]) \/ Fails(p)
Finishes(p) == Done(p) \/ Fails(p)

Break(p) ==
  /\ ~ At(p, "idle")
  /\ Fails(p)
  /\ UNCHANGED <<now, paid, returned, rows, ledger, orders>>

(* A control job in progress is queued again, and so is one whose completion *)
(* was not flushed.                                                          *)
Crash ==
  /\ FaultsRemain /\ faults' = faults + 1
  /\ proc' = [p \in Procs |-> Resting]
  /\ \E back \in SUBSET handled : handled' = handled \ back
  /\ UNCHANGED <<now, paid, returned, rows, ledger, orders>>

-----------------------------------------------------------------------------
(* process_subscription_payment, of the control worker and of the sync.      *)

(* The message of a payment is a control job, which comes to its turn some   *)
(* time or, when the update is lost, never.                                  *)
Take(c) ==
  /\ At("control", "idle")
  /\ IsPaid(c) /\ c \notin handled
  /\ proc' = [proc EXCEPT !["control"] =
       [Resting EXCEPT !.at = "save", !.charge = c, !.since = now,
                       !.goal = paid[c] + Period]]
  /\ UNCHANGED <<now, paid, returned, handled, rows, ledger, faults, orders>>

(* create_subscription: a new row, or the old one with another end.          *)
Save(p) ==
  /\ At(p, "save")
  /\ rows' = [rows EXCEPT ![Charge(p)] = IF @ = "none" THEN "kept" ELSE @]
  /\ Goes(p, "look")
  /\ UNCHANGED <<now, paid, returned, ledger, orders>>

(* Mutant: the time left is not what is added to.                            *)
WholeDelta(goal, since) == Later(0, goal - since)

(* subscription_delta_seconds_to_target                                      *)
DeltaTo(goal, since) == Later(0, goal - Later(since, Effective))

(* Two reads, the event of the payment and the summary; an event that comes  *)
(* between them makes Enter an empty step, so that one step does for both.   *)
Look(p) ==
  /\ At(p, "look")
  /\ \/ Entered(Charge(p)) /\ Done(p)
     \/ /\ ~ Entered(Charge(p))
        /\ Onwards(p, [proc[p] EXCEPT !.at = "enter", !.seen = Len(ledger), !.goal = 0,
                                      !.delta = DeltaTo(proc[p].goal, proc[p].since)])
  /\ UNCHANGED <<now, paid, returned, rows, ledger, orders>>

Enter(p) ==
  /\ At(p, "enter")
  /\ CreateEvent("payment", Charge(p), proc[p].delta, proc[p].seen)
  /\ Finishes(p)
  /\ UNCHANGED <<now, paid, returned, rows, orders>>

-----------------------------------------------------------------------------
(* The sync.                                                                 *)

(* Telegram's list, refunded payments included.                              *)
SyncStart ==
  /\ At("sync", "idle")
  /\ \E c \in Charges : IsPaid(c)
  /\ Onwards("sync", TakeFirst({c \in Charges : IsPaid(c)}, now))
  /\ UNCHANGED <<now, paid, returned, rows, ledger, orders>>

(* list_vip_coverage_intervals: every event that reached beyond itself.      *)
IsCovered(t) == \E i \in DOMAIN ledger : ledger[i].at <= t /\ t < ledger[i].until

(* expected_subscription_start: the end of the coverage the payment fell in. *)
StartsAt(c, s) ==
  /\ s >= paid[c] /\ ~ IsCovered(s)
  /\ \A t \in paid[c] .. s - 1 : IsCovered(t)

(* uncovered_seconds, of a period that starts at s, up to the time t.        *)
UncoveredTicks(s, t) ==
  {u \in s .. s + Period - 1 : u < t /\ ~ IsCovered(u)}

(* compensated_subscription_expiry: what was missing is given twice.         *)
CompensatedEnd(s, t) == s + Period + 2 * Cardinality(UncoveredTicks(s, t))

(* sync_one_subscription_payment: what the payment should have given.        *)
SyncNext ==
  /\ At("sync", "next")
  /\ LET c == Charge("sync")
         since == proc["sync"].since
     IN  \E s \in {paid[c]} \cup {ledger[i].until : i \in DOMAIN ledger} :
           /\ StartsAt(c, s)
           /\ Onwards("sync", [proc["sync"] EXCEPT
                !.at = "find", !.goal = CompensatedEnd(s, since)])
  /\ UNCHANGED <<now, paid, returned, rows, ledger, orders>>

(* A payment that is not entered is, unless it is over.  A row stays, so one *)
(* step does for the reads of the row and of its event.                      *)
Repairs(isSynced) ==
  /\ At("sync", "find")
  /\ IF isSynced \/ proc["sync"].goal <= proc["sync"].since THEN Done("sync")
     ELSE Onwards("sync", [proc["sync"] EXCEPT !.at = "save"])
  /\ UNCHANGED <<now, paid, returned, rows, ledger, orders>>

(* Mutant: a payment with a row is taken for synced.                         *)
SyncFindRow == Repairs(rows[Charge("sync")] # "none")

SyncFind == Repairs(Entered(Charge("sync")))

-----------------------------------------------------------------------------
(* Commands of operators.  One that finds nothing to do changes nothing and  *)
(* is not an action.                                                         *)

Ordered(o) ==
  /\ At(o, "idle")
  /\ orders < MaxOrders /\ orders' = orders + 1
  /\ UNCHANGED <<now, paid>>

(* /admin_grant_vip, and the same in the web panel, which may also take away.*)
Grant(o) ==
  /\ Ordered(o)
  /\ \E gift \in Gifts : CreateEvent("grant", Nil, gift, Len(ledger))
  /\ UNCHANGED <<returned, handled, rows, proc, faults>>

(* /admin_cancel_vip without a refund: what the summary said remains goes.   *)
OrderRevoke(o) ==
  /\ Ordered(o)
  /\ Effective > now
  /\ Onwards(o, [Resting EXCEPT !.at = "revoke", !.delta = now - Effective,
                                !.seen = Len(ledger)])
  /\ UNCHANGED <<returned, rows, ledger>>

Revoke(o) ==
  /\ At(o, "revoke")
  /\ CreateEvent("revoke", Nil, proc[o].delta, proc[o].seen)
  /\ Finishes(o)
  /\ UNCHANGED <<now, paid, returned, rows, orders>>

(* /admin_refund of a charge that has a row, or /admin_cancel_vip with a     *)
(* refund, of the newest active one.  Telegram gives the money back, unless  *)
(* it already has: then the command ends.  A row stays, so one step does for *)
(* the look-up and the call.                                                 *)
Refund(o) ==
  /\ Ordered(o)
  /\ \E c \in Charges :
       /\ rows[c] # "none" /\ c \notin returned
       /\ returned' = returned \cup {c}
       /\ \/ Onwards(o, [Resting EXCEPT !.at = "mark", !.charge = c])
          \/ FaultsRemain /\ faults' = faults + 1 /\ UNCHANGED <<handled, proc>>
  /\ UNCHANGED <<rows, ledger>>

Mark(o) ==
  /\ At(o, "mark")
  /\ rows' = [rows EXCEPT ![Charge(o)] = "refunded"]
  /\ Goes(o, "reverse")
  /\ UNCHANGED <<now, paid, returned, ledger, orders>>

(* Whatever the payment had given, a whole period is taken.                  *)
Reverse(o) ==
  /\ At(o, "reverse")
  /\ CreateEvent("reversal", Charge(o), - Period, Len(ledger))
  /\ Finishes(o)
  /\ UNCHANGED <<now, paid, returned, rows, orders>>

-----------------------------------------------------------------------------
Handle(p) == Save(p) \/ Look(p) \/ Enter(p)
Sync == SyncStart \/ SyncNext \/ SyncFind \/ Handle("sync")

Next ==
  \/ Tick
  \/ \E c \in Charges : Pay(c) \/ Replay(c) \/ Take(c)
  \/ Handle("control")
  \/ Sync
  \/ \E o \in Operators :
       \/ Grant(o) \/ OrderRevoke(o) \/ Revoke(o)
       \/ Refund(o) \/ Mark(o) \/ Reverse(o)
  \/ \E p \in Procs : Break(p)
  \/ Crash

PaymentsSpec == PaymentsInit /\ [][Next]_vars

(* The sync runs for ever, once an interval, and every call of it ends.      *)
FairPaymentsSpec == PaymentsSpec /\ WF_vars(Sync)

-----------------------------------------------------------------------------
(* Properties.                                                               *)

Takes(i) == ledger[i].delta < 0
NothingTakenIn(range) == \A k \in range : ~ Takes(k)
Payments == {i \in DOMAIN ledger : ledger[i].kind = "payment"}

(* process_subscription_payment reads the end of VIP, computes a difference  *)
(* and adds it later.  Whoever writes meanwhile, from the event on VIP       *)
(* reaches what was paid for, until something is taken away; and a payment   *)
(* never adds more than the period and the delay it was entered with.        *)
PaidTimeIsKept ==
  \A i \in Payments : \A j \in i .. Len(ledger) :
    NothingTakenIn(ledger[i].seen + 1 .. j)
      => ledger[j].until >= paid[ledger[i].charge] + Period
NoTimeIsGivenTwice ==
  \A i \in Payments :
    NothingTakenIn(1 .. i)
      => ledger[i].delta <= Period + (ledger[i].at - paid[ledger[i].charge])
PaidTimeIsGiven == PaidTimeIsKept /\ NoTimeIsGivenTwice

(* The control job, its replays and the sync may enter one payment at once,  *)
(* two operators may refund it at once: it is entered once, after it was     *)
(* paid, reversed once, and no row or event says refunded of money that      *)
(* Telegram kept.                                                            *)
TimeFollowsMoney ==
  /\ \A c \in Charges, kind \in {"payment", "reversal"} :
       \A i, j \in Events(kind, c) : i = j
  /\ \A c \in Charges :
       /\ Entered(c) => IsPaid(c) /\ rows[c] # "none"
       /\ rows[c] = "refunded" => c \in returned
       /\ Events("reversal", c) # {} => rows[c] = "refunded"

(* Lost messages, failed statements and crashes: the sync enters every payment *)
(* in the end, unless even its compensation would be over.                   *)
IsOver(c) ==
  IsPaid(c) /\ \E s \in paid[c] .. now : StartsAt(c, s) /\ CompensatedEnd(s, now) <= now
PaymentsAreEntered ==
  \A c \in Charges : IsPaid(c) ~> (Entered(c) \/ IsOver(c))
=============================================================================
