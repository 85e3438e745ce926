SPECIFICATION FairSpec
CONSTANTS
    Gz = {g1}
    Sk = {s1, s2}
    PageSize = 1
    MaxPages = 2
    MaxChanges = 3
    MaxFaults = 1
INVARIANTS
    TypeOK
PROPERTIES
    NothingReadIsPassed
    GoszakupIsMatched
    FirstPollIsRepeated
CHECK_DEADLOCK FALSE
