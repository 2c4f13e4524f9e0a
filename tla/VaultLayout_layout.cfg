SPECIFICATION LiveSpec
CONSTANTS
    Legacy = legacy
    Fresh = {v1, v2}
    Admins = {a1, a2}
    MaxCrashes = 2
INVARIANTS TypeOK PiecesKept HostedInPlace KnownAreHosted
PROPERTY MigrationEnds
CHECK_DEADLOCK FALSE
