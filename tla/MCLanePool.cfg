SPECIFICATION FairLaneSpec
CONSTANTS
  r1 = r1  r2 = r2  r3 = r3
  Requests = {r1, r2, r3}
  Priority <- TwoClasses
  Unlimited = Unlimited
  Widths = {1, 2, Unlimited}
  MaxSeq = 3
  MaxCells = 2
  MaxReloads = 2
INVARIANTS NoLaneLeaks NobodyWaitsInVain
PROPERTIES NobodyOvertakes UrgentWaitEnds
CHECK_DEADLOCK FALSE
