SPECIFICATION QueueSpec
CONSTANTS
  Nil = Nil
  Deleted = Deleted
  w1 = w1  w2 = w2  w3 = w3  w4 = w4  k1 = k1  m1 = m1  m2 = m2  c1 = c1  c2 = c2
  ChatOf <- OneChat
  Queues = {"asr", "image-regular", "image-vip"}
  Lanes = {"l1"}
  Users = {"u1"}
  Keys = {k1}
  Msgs = {m1}
  WorkerIds = {w1}
  Callers = {c1}
  BatchKinds = {}
  AgeStep = 1
  WorkerQueue <- AsrWorkers
  WorkerTypes <- AsrTypes
  Requests <- AcceleratorRequests
  Limited <- NoRequests
  Updates <- NoRequests
  Edits <- NoRequests
  UserLimit = 1
  DebounceDelay = 0
  StuckAge = 9
  Retention = 0
  KeepPerQueue = 0
  Administered = {1, 2}
  MaxId = 2
  MaxTime = 6
INVARIANTS SomethingIsEligible AgedWorkIsNotOvertaken
CHECK_DEADLOCK FALSE
