CONSTANTS
    Peers = {p}
    Host = h
    Kickable = {}
    MaxControl = 2
    MaxFaults = 1
SPECIFICATION Spec
INVARIANT HandedOutRecoverable
CHECK_DEADLOCK FALSE
