SPECIFICATION LiveSpec
CONSTANTS
    Chunks = {c1, c2}
    Kinds = {"host", "member"}
    MaxTries = 3
    MaxErrors = 2
    MaxCrashes = 1
    MaxLosses = 1
INVARIANTS TypeOK ServedIsDurable ServedIsKept PairRecovered UndoneStaysUndone RecoveryOpens HeldChunksAreDurable
PROPERTY Reopens
CHECK_DEADLOCK FALSE
