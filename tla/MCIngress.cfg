SPECIFICATION FairIngressSpec
CONSTANTS
  Nil = Nil
  p1 = p1  p2 = p2  w1 = w1  w2 = w2
  Processes = {p1, p2}
  Workers = {w1, w2}
  Home <- OneHome
  Updates = {1, 2, 3}
  Lanes = {"l1"}
  LaneOf <- OneLane
  Bad = {3}
  MaxAttempts = 2
  MaxFaults = 1
  MaxEntries = 2
INVARIANTS HeadsAreOpen OneOwnerPerLane NothingIsLost
PROPERTIES TerminalIsFinal LaneOrder BacklogDrains
CHECK_DEADLOCK FALSE
