SPECIFICATION FairSpec
CONSTANTS
    Containers = {c1}
    Resolvers = {}
    OutsideStarts = TRUE
    RemovalFails = FALSE
INVARIANTS
    SafetyCopyFirst
PROPERTIES
    OperationEnds
