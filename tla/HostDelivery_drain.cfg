CONSTANTS
    Peers = {p}
    Host = h
    Kickable = {}
    MaxControl = 3
    MaxFaults = 3
SPECIFICATION FairSpec
INVARIANTS
    AckSound
    NothingSilentlyDropped
    GapsOnlyFromLostHandout
    QueuesInOrder
    MailboxGated
    FlushApplies
PROPERTIES ReplicaOnlyAdvances CatchUp LogDrains
