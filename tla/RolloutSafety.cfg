SPECIFICATION Spec
CONSTANTS
  N = 2
  Settings <- AllSettings
  MaxGen = 2
  MaxRollouts = 2
  MaxRuns = 3
  MaxCrashes = 1
  MaxOperator = 1
  MaxTasks = 2
  Refusals = {"preflight","probe","gate_off","arm","deploy","restore"}
INVARIANT RolloutInvariant
INVARIANT OneTargetDeep
INVARIANT RollbackReturns
PROPERTY HeldMeansHeld
CHECK_DEADLOCK FALSE
PROPERTY InOrder
