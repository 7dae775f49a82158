SPECIFICATION Spec
CONSTANTS
    Names = {a, b}
    MaxCrashes = 2
    MaxForeign = 0
INVARIANTS
    OriginalsSurvive
