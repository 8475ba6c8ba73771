SPECIFICATION FairJournalSpec
CONSTANTS
  Nil = Nil
  Deleted = Deleted
  w1 = w1  w2 = w2  w3 = w3  k1 = k1  m1 = m1  m2 = m2  c1 = c1
  ChatOf <- OneChat
  Queues = {"dialog-aifarm"}
  Lanes = {"l1"}
  Users = {"u1"}
  Keys = {k1}
  Msgs = {m1, m2}
  WorkerIds = {w1}
  Callers = {}
  BatchKinds = {}
  AgeStep = 1
  WorkerQueue <- DialogWorkers
  WorkerTypes <- DialogTypes
  Requests <- NoRequests
  Limited <- NoRequests
  Updates <- TwoUpdates
  Edits <- NoRequests
  UserLimit = 1
  DebounceDelay = 0
  StuckAge = 1
  Retention = 0
  KeepPerQueue = 1
  Administered = {1}
  MaxId = 2
  MaxTime = 0
  MaxFaults = 1
  DbRetention = 0
  Followed <- NoRequests
INVARIANTS RecoveryApplies
PROPERTIES BufferDrains
CHECK_DEADLOCK FALSE
