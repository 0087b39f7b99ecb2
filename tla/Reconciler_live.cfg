SPECIFICATION FairSpec
CONSTANTS
  Proc = {p1, p2}
  NoProc = NoProc
  Member = {m1}
  Project = Project
  IncusTuple = IncusTuple
  MaxChanges = 1
  MaxStores = 2
  MaxUpsets = 1
  MaxLate = 1
PROPERTY Converges
