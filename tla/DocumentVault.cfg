SPECIFICATION Spec
CONSTANTS
    Docs = {d1, d2}
    NoDoc = NoDoc
    Requests = {r1, r2}
    Times = {0, 1, 14, 28}
    Day = 2
    MaxFaults = 1
INVARIANTS
    TypeOK
    Consistent
    NothingLeftBehind
    ExpiredIsNotOffered
PROPERTIES
    DeletedForGood
CHECK_DEADLOCK FALSE
