SPECIFICATION FairSpec
CONSTANTS
  Keys <- MCKeys
  OldKeys <- MCOldKeys
  Record = 0
  BatchSize = 2
  Faults = {"open", "rename"}
  MaxRuns = 3
INVARIANTS TypeOK NoKeyLost CopyComplete BlocksSurvive
PROPERTIES PassEnds ImplementsStore
CHECK_DEADLOCK FALSE
