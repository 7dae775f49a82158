SPECIFICATION FairSpec
CONSTANTS
  N = 2
  Settings <- ProgressSettings
  MaxGen = 3
  MaxRollouts = 3
  MaxRuns = 7
  MaxCrashes = 1
  MaxOperator = 0
  MaxTasks = 1
  Refusals = {}
PROPERTY RolloutEnds
CHECK_DEADLOCK FALSE
