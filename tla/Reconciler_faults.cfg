SPECIFICATION Spec
CONSTANTS
  Proc = {p1, p2}
  NoProc = NoProc
  Member = {m1, m2}
  Project = Project
  IncusTuple = IncusTuple
  MaxChanges = 3
  MaxStores = 3
  MaxUpsets = 1
  MaxLate = 0
SYMMETRY Both
INVARIANT SettledIsApplied
INVARIANT RecordIsStore
INVARIANT ScanRepairs
