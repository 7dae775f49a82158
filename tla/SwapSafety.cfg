SPECIFICATION FairSpec
CONSTANTS
    Names = {a, b}
    MaxCrashes = 2
    MaxForeign = 1
INVARIANTS
    OriginalsKept
    Resumable
    SwapInvariant
PROPERTIES
    KeepsContract
    CommitIsFinal
    HelperEnds
