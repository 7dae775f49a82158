SPECIFICATION Spec
CONSTANTS
    Containers = {c1}
    Resolvers = {}
    OutsideStarts = FALSE
    RemovalFails = TRUE
PROPERTIES
    NothingReleasedBesideAHelper
