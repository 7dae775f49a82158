SPECIFICATION Spec
CONSTANTS
    Containers = {c1}
    Resolvers = {r1, r2}
    OutsideStarts = FALSE
    RemovalFails = FALSE
INVARIANTS
    OneWriter
