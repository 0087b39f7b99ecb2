SPECIFICATION FairSpec
CONSTANTS
  m1 = m1
  m2 = m2
  Job = {m1}
  Other = Other
  Nobody = Nobody
  Kinds = {"move"}
  Transports = {"direct"}
  MaxFaults = 1
  MaxWrites = 1
  MaxUserStarts = 0
CHECK_DEADLOCK FALSE
PROPERTY StopIsUndone
