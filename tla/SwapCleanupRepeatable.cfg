SPECIFICATION Spec
CONSTANTS
    Names = {a, b}
    MaxCrashes = 1
    MaxForeign = 0
INVARIANTS
    CleanupRepeatable
