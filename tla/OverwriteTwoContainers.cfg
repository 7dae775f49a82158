SPECIFICATION Spec
CONSTANTS
    Containers = {c1, c2}
    Resolvers = {}
    OutsideStarts = FALSE
    RemovalFails = FALSE
SYMMETRY Symmetry
INVARIANTS
    PinnedMeansFenced
PROPERTIES
    NothingMovesUnderWorkloads
