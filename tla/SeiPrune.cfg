SPECIFICATION Spec
CONSTANTS
  Word = 16
  Base = 2
  StartHeight = 4
  MaxHeight = 7
  Keeps = {0, 2, 6, 15}
  MaxPrunes = 3
INVARIANTS TypeOK KeptUntouched  
CHECK_DEADLOCK FALSE
