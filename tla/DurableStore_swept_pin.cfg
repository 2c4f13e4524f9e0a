SPECIFICATION Spec
CONSTANTS
    Chunks = {c1, c2}
    Kinds = {"host"}
    MaxTries = 2
    MaxErrors = 0
    MaxCrashes = 1
    MaxLosses = 1
INVARIANT PinsRetained
CHECK_DEADLOCK FALSE
