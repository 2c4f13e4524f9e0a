SPECIFICATION Spec
CONSTANTS
    Legacy = legacy
    Fresh = {v1, v2}
    Admins = {a1, a2}
    MaxCrashes = 1
INVARIANT StartNotRefused
CHECK_DEADLOCK FALSE
