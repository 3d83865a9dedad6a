SPECIFICATION RollbackSpec
CONSTANTS
  Stores = {bank, staking}
  NewStores = {evm}
  Leaked = {memory}
  InitialVersion = 1
  KeepRecent = 2
  Kills = {"pruner"}
  Faults = {}
  MaxVersion = 5
  MaxStops = 2
  Word = 16
  Keeps = {1}
  MaxPrunes = 1
  MaxRollbacks = 2
INVARIANTS LoadableUnlessCut SomeVersionLoads
CHECK_DEADLOCK FALSE
