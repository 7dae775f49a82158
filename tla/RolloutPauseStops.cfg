SPECIFICATION Spec
CONSTANTS
  N = 2
  Settings <- RemoteSettings
  MaxGen = 2
  MaxRollouts = 3
  MaxRuns = 3
  MaxCrashes = 0
  MaxOperator = 1
  MaxTasks = 1
  Refusals = {}
PROPERTY PauseStops
CHECK_DEADLOCK FALSE
