SPECIFICATION FairSpec
CONSTANTS
  Stores = {bank, staking}
  NewStores = {evm}
  Leaked = {memory}
  InitialVersion = 1
  KeepRecent = 1
  Kills = {"node", "pruner"}
  Faults = {"other", "missing"}
  MaxVersion = 3
  MaxStops = 3
  Word = 16
  Keeps = {0, 2, 15}
  MaxPrunes = 2
INVARIANTS TypeOK CommitIdsMatch LatestLoadsUnlessOvertaken LeftVersionsLoad PrunerLoads PanicsOnlyForFlag NewestVersionKept
PROPERTIES InterruptedCommitCompletes ImplementsPrunedHistory
CHECK_DEADLOCK FALSE
