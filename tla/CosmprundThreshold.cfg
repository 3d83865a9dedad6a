SPECIFICATION Spec
CONSTANTS
  GiB = 2
  AppSizes = {1, 30}
  MaxRuns = 1
INVARIANT LargeAppSkipped
CHECK_DEADLOCK FALSE
