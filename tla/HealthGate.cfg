SPECIFICATION Spec
CONSTANTS
    Services = {"a", "b"}
    Names = {"a1", "a2", "b1"}
    Main = {"a1", "b1"}
    svc <- MCsvc
    OneShots = {"b"}
    Scales = {1}
    Boots = {"ok"}
    MaxGates = 2
    MaxErrors = 1
    MaxRuns = 2
    MaxEvents = 3
CHECK_DEADLOCK FALSE
INVARIANT GateInvariant
INVARIANT PassIsEarned
INVARIANT FailIsDefinite
INVARIANT AmbiguityYields
INVARIANT ToldIsNotBlamed
INVARIANT MuteIsOwned
PROPERTY VerdictStands
