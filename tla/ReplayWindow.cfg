SPECIFICATION Spec
CONSTANTS
    W = 3
    MaxSeq = 7
INVARIANTS TypeOK OpenedOnce FreshPasses WindowExact
CHECK_DEADLOCK FALSE
