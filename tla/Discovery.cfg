SPECIFICATION FairSpec
CONSTANTS
    Pairs = {p1, p2}
    Linked = {p1}
    Runs = {j1, j2}
    Requests = {r1}
    NoPair = NoPair
    MaxRows = 2
    MaxPresses = 2
    MaxFaults = 1
INVARIANTS
    TypeOK
    AnnouncedOnce
    NotifiedWasSent
    ParticipatingHasDraft
PROPERTIES
    DecisionSticks
    EveryPairIsMatched
CHECK_DEADLOCK FALSE
