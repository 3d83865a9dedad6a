SPECIFICATION Spec
CONSTANTS
  Keys <- MCKeys
  OldKeys <- MCOldKeys
  Record = 0
  BatchSize = 2
  Faults = {}
  MaxRuns = 3
INVARIANT OnlyOldDataGoes
CHECK_DEADLOCK FALSE
