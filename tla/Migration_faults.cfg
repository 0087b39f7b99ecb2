SPECIFICATION FairSpec
CONSTANTS
  m1 = m1
  m2 = m2
  Job = {m1}
  Other = Other
  Nobody = Nobody
  Kinds = {"copy", "move", "live"}
  Transports = {"auto", "direct", "relay"}
  MaxFaults = 2
  MaxWrites = 1
  MaxUserStarts = 0
CHECK_DEADLOCK FALSE
INVARIANTS TypeOK TwinNeedsFault LeaseKept
PROPERTIES RollbackRestores DeleteKeepsWrites CancelEnds
