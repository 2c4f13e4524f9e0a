SPECIFICATION LiveSpec
CONSTANTS
    Codes = {c1, c2, c3}
    First = c1
    Admins = {a1}
    Age = 5
    Skew = 2
    Deadline = 1
    Interval = 2
    MaxAds = 2
    MaxFaults = 1
PROPERTY DirectoryConverges
