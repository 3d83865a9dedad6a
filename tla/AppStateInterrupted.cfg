SPECIFICATION Spec
CONSTANTS
  Stores = {bank, staking}
  NewStores = {evm}
  Leaked = {memory}
  InitialVersion = 2
  KeepRecent = 2
  Kills = {"node"}
  Faults = {}
  MaxVersion = 6
  MaxStops = 3
  Word = 16
  Keeps = {1}
  MaxPrunes = 2
INVARIANT LatestLoadable
CHECK_DEADLOCK FALSE
