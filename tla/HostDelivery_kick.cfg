CONSTANTS
    Peers = {p, q}
    Host = h
    Kickable = {p, q}
    MaxControl = 2
    MaxFaults = 1
SPECIFICATION Spec
SYMMETRY PeerSymmetry
INVARIANTS
    TypeOK
    LogCoversUnacked
    NothingSilentlyDropped
    KickedKeepsNothing
    ReplicaDenialsSound
PROPERTIES
    TruncatesAcknowledged
    ImplementsLog
CHECK_DEADLOCK FALSE
