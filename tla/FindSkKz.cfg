SPECIFICATION FairSpec
CONSTANTS
    Gz = {}
    Sk = {s1}
    PageSize = 2
    MaxPages = 2
    MaxChanges = 2
    MaxFaults = 0
PROPERTY SkKzIsMatched
CHECK_DEADLOCK FALSE
