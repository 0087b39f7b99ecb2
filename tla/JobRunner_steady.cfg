SPECIFICATION FairSpec
CONSTANTS
  j1 = j1
  j2 = j2
  p1 = p1
  p2 = p2
  h1 = h1
  h2 = h2
  k1 = k1
  NoKey = NoKey
  NoHolder = NoHolder
  NoJob = NoJob
  Job = {j1, j2}
  Key = {k1}
  KeyOf <- MCKeyOf
  Proc = {p1, p2}
  Holder = {h1, h2}
  HolderOf <- MCRecreated
  Concurrency = 1
  MaxStalls = 0
  MaxLost = 0
INVARIANTS
  OneHandlerPerInstance
  RunningHasRun
PROPERTIES
  OutcomeStands
  QueuedEnds
