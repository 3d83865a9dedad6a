SPECIFICATION Spec
CONSTANTS
  Base = 3
  MaxDigits = 5
  Word = 128
  InexactDigits = 4
  RoundSpan = 8
  Starts <- YoungStarts
  Keeps = {6}
  MaxHeight = 6
  MaxRuns = 1
INVARIANT NewestBlockKept
CHECK_DEADLOCK FALSE
