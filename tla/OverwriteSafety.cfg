SPECIFICATION Spec
CONSTANTS
    Containers = {c1}
    Resolvers = {r1}
    OutsideStarts = FALSE
    RemovalFails = FALSE
INVARIANTS
    NoWorkloadOnUnprovenData
    SettledIsTrue
    EndingIsTrue
    RestoreInvariant
