SPECIFICATION Spec
CONSTANTS
    Codes = {c1, c2}
    First = c1
    Admins = {a1}
    Age = 3
    Skew = 2
    Deadline = 1
    Interval = 2
    MaxAds = 2
    MaxFaults = 1
INVARIANT StatusShowsCurrent
