SPECIFICATION Spec
CONSTANTS
  Base = 10
  MaxDigits = 5
  Word = 16384
  InexactDigits = 4
  RoundSpan = 64
  StoredSets <- MCStoredSets
  Ends <- MCEnds
INVARIANTS TypeOK AboveEndUntouched CompleteCallLeavesOnlyLeftovers
CHECK_DEADLOCK FALSE
