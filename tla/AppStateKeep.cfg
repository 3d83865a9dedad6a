SPECIFICATION Spec
CONSTANTS
  Stores = {bank, staking}
  NewStores = {evm}
  Leaked = {memory}
  InitialVersion = 2
  KeepRecent = 2
  Kills = {}
  Faults = {}
  MaxVersion = 6
  MaxStops = 3
  Word = 16
  Keeps = {2}
  MaxPrunes = 1
PROPERTY KeepsVersions
CHECK_DEADLOCK FALSE
