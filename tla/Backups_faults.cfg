SPECIFICATION FairSpec
CONSTANTS
  MaxBackups = 3
  Keep = 1
  MaxUpsets = 2
CHECK_DEADLOCK FALSE
INVARIANTS ReadyHasObject NoLostSpace RetentionKeeps
PROPERTY CreatingEnds
