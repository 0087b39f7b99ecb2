SPECIFICATION FairSpec
CONSTANTS
  Proc = {p1}
  NoProc = NoProc
  Member = {m1}
  Project = Project
  IncusTuple = IncusTuple
  MaxChanges = 1
  MaxStores = 1
  MaxUpsets = 1
  MaxLate = 0
INVARIANT ReadyIsWritten
