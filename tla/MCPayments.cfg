SPECIFICATION FairPaymentsSpec
CONSTANTS
  Nil = Nil
  o1 = o1  o2 = o2
  Charges = {1, 2}
  Operators = {o1}
  Period = 2
  Gifts = {1}
  Missed <- OneMissed
  MaxTime = 1
  MaxFaults = 1
  MaxOrders = 1
INVARIANTS PaidTimeIsGiven TimeFollowsMoney
PROPERTY PaymentsAreEntered
CHECK_DEADLOCK FALSE
