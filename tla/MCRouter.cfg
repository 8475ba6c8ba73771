SPECIFICATION FairRouterSpec
CONSTANTS
  Nil = Nil
  r1 = r1  r2 = r2  a = a  b = b  c = c  p = p
  Requests = {r1, r2}
  Targets = {a, b, c}
  Pools = {p}
  PoolOf <- OnePool
  Width <- OneLane
  Primaries <- First
  Overflows <- Second
  Fallbacks <- Third
  Canaries = {b}
  Full = {r1}
  Timed = {r1}
  Background = {r2}
  Able <- AllAble
  Preferred <- OneWarm
  Gated = {b}
  Sick = {a}
  MaxHops = 2
  Resamples = 1
  FailThreshold <- Patience
  MaxFails = 3
INVARIANTS LanesAreReturned OutcomeIsTrue HealthyIsNotExiled CircuitsAreJustified
PROPERTIES RunsEnd
CHECK_DEADLOCK FALSE
