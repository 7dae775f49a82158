SPECIFICATION Spec
CONSTANTS
  N = 2
  Settings <- PausingSettings
  MaxGen = 2
  MaxRollouts = 3
  MaxRuns = 3
  MaxCrashes = 0
  MaxOperator = 1
  MaxTasks = 1
  Refusals = {"preflight"}
INVARIANT EveryTargetReverified
CHECK_DEADLOCK FALSE
