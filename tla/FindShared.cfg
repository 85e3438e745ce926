SPECIFICATION Spec
CONSTANTS
    a1 = a1
    a2 = a2
    u1 = u1
    Apps = {a1, a2}
    Users = {u1}
    Owner <- SharedOwner
    Linked = {}
    NoApp = NoApp
    NoSession = NoSession
    MaxTries = 5
    BackoffLen = 7
    Decodes = FALSE
    Rerun = FALSE
    SessionsExpire = FALSE
    ResultsExpire = FALSE
    MaxFlows = 1
    MaxPresses = 0
    MaxFaults = 0
INVARIANTS
    SubmittedIsPublished
CHECK_DEADLOCK FALSE
