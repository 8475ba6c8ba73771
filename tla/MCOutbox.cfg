SPECIFICATION FairOutboxSpec
CONSTANTS
  Ops <- TwoParts
  w1 = w1
  Workers = {w1}
  BatchOf <- Batch
  PartOf <- Part
  KeyOf <- Key
  PolicyOf <- Policy
  ReactionOf <- Reaction
  Expiring = {1}
  Replies = {1}
  MaxAttempts = 2
  MaxFaults = 1
  MaxOrders = 1
INVARIANTS ResendIsSafe NoPartIsStranded PostedInOrder
PROPERTIES KeepsPromise OutboxDrains
CHECK_DEADLOCK FALSE
