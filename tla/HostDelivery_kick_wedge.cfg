CONSTANTS
    Peers = {p, q}
    Host = h
    Kickable = {p, q}
    MaxControl = 2
    MaxFaults = 1
SPECIFICATION Spec
INVARIANT KickAppliesBehindGate
CHECK_DEADLOCK FALSE
