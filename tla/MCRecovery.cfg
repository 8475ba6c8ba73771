SPECIFICATION FairJournalSpec
CONSTANTS
  Nil = Nil
  Deleted = Deleted
  w1 = w1  w2 = w2  w3 = w3  k1 = k1  m1 = m1  m2 = m2  c1 = c1
  ChatOf <- OneChat
  Queues = {"dialog-aifarm", "agent-qwen"}
  Lanes = {"l1"}
  Users = {"u1"}
  Keys = {k1}
  Msgs = {m1, m2}
  WorkerIds = {w1, w2, w3}
  Callers = {}
  BatchKinds = {"answer"}
  AgeStep = 1
  WorkerQueue <- AgentOrDialog
  WorkerTypes <- AgentOrDialogTypes
  Requests <- AgentRequests
  Limited <- NoRequests
  Updates <- OneUpdate
  Edits <- NoRequests
  UserLimit = 1
  DebounceDelay = 0
  StuckAge = 1
  Retention = 0
  KeepPerQueue = 1
  Administered = {1}
  MaxId = 1
  MaxTime = 1
  MaxFaults = 2
  DbRetention = 1
  Followed <- OneUpdate
INVARIANTS ProcessingIsWorkedOn CleanIsDurable ConfirmedIsDurable
PROPERTIES DurableDeliveryEnds
CHECK_DEADLOCK FALSE
