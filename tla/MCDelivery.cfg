SPECIFICATION FairQueueSpec
CONSTANTS
  Nil = Nil
  Deleted = Deleted
  w1 = w1  w2 = w2  w3 = w3  w4 = w4  k1 = k1  m1 = m1  m2 = m2  c1 = c1  c2 = c2
  ChatOf <- OneChat
  Queues = {"dialog-aifarm", "image-regular", "agent-qwen"}
  Lanes = {"l1"}
  Users = {"u1"}
  Keys = {k1}
  Msgs = {m1, m2}
  WorkerIds = {w1, w2, w3, w4}
  Callers = {c1}
  BatchKinds = {"answer", "interim"}
  AgeStep = 1
  WorkerQueue <- MixedWorkers
  WorkerTypes <- MixedTypes
  Requests <- AgentRequests
  Limited <- OneImage
  Updates <- DialogUpdates
  Edits <- NoRequests
  UserLimit = 1
  DebounceDelay = 0
  StuckAge = 1
  Retention = 0
  KeepPerQueue = 0
  Administered = {1}
  MaxId = 1
  MaxTime = 2
PROPERTIES DeliveryIsOwned DeliveryEnds
CHECK_DEADLOCK FALSE
