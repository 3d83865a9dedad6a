SPECIFICATION FairSpec
CONSTANTS
  GiB = 2
  AppSizes = {1, 30}
  MaxRuns = 2
INVARIANTS TypeOK OwnersRestored CrashKeepsOwner CopyBehindMissing AllOrNothing HandlesSound AllCollected
PROPERTY RunEnds
CHECK_DEADLOCK FALSE
