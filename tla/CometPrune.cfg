SPECIFICATION Spec
CONSTANTS
  Base = 3
  MaxDigits = 5
  Word = 128
  InexactDigits = 4
  RoundSpan = 8
  Starts <- MCStarts
  Keeps = {0, 2}
  MaxHeight = 5
  MaxRuns = 2
INVARIANTS TypeOK WindowIntact LatestVersionKept BaseHonest HeightRecordKept
 
CHECK_DEADLOCK FALSE
