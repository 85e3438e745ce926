SPECIFICATION Spec
CONSTANTS
    Tenders = {g1}
    Foreign = {}
    Requests = {r1, r2}
    TTL = 1
    Cycle = 2
    JobTimeout = 1
    MaxTime = 3
    MaxFaults = 1
INVARIANTS
    TypeOK
    HitIsRecent
PROPERTIES
    NotFoundHasCause
CHECK_DEADLOCK FALSE
