SPECIFICATION Spec
CONSTANTS
  m1 = m1
  m2 = m2
  Job = {m1, m2}
  Other = Other
  Nobody = Nobody
  Kinds = {"move"}
  Transports = {"auto"}
  MaxFaults = 1
  MaxWrites = 0
  MaxUserStarts = 1
CHECK_DEADLOCK FALSE
SYMMETRY JobSymmetry
INVARIANT NeverLost
PROPERTY OnlyOwnRemoved
