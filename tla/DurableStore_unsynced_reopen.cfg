SPECIFICATION Spec
CONSTANTS
    Chunks = {c1, c2}
    Kinds = {"member"}
    MaxTries = 1
    MaxErrors = 0
    MaxCrashes = 1
    MaxLosses = 1
INVARIANT AnswersAreKept
CHECK_DEADLOCK FALSE
