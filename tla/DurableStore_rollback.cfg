SPECIFICATION Spec
CONSTANTS
    Chunks = {c1, c2}
    Kinds = {"host"}
    MaxTries = 2
    MaxErrors = 1
    MaxCrashes = 1
    MaxLosses = 1
INVARIANT AlwaysRolledBack
CHECK_DEADLOCK FALSE
