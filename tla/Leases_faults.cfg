SPECIFICATION FairSpec
CONSTANTS
  c1 = c1
  c2 = c2
  Caller = {c1, c2}
  MaxInstances = 2
  MaxExtensions = 1
  MaxUpsets = 2
CHECK_DEADLOCK FALSE
INVARIANTS ExtensionsBounded LeaseIsCurrent
PROPERTIES EndedActs
