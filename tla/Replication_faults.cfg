SPECIFICATION FairSpec
CONSTANTS
  r1 = r1
  r2 = r2
  f1 = f1
  f2 = f2
  NoJob = NoJob
  Run = {r1, r2}
  Failover = {f1, f2}
  MaxWrites = 1
  MaxUserSteps = 2
  MaxFaults = 1
CHECK_DEADLOCK FALSE
INVARIANT PromotedEnds
PROPERTIES PromotedWhole CatchesUp
