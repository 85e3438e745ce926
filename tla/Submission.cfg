SPECIFICATION Spec
CONSTANTS
    a1 = a1
    a2 = a2
    u1 = u1
    Apps = {a1}
    Users = {u1}
    Owner <- Single
    Linked = {u1}
    NoApp = NoApp
    NoSession = NoSession
    MaxTries = 2
    BackoffLen = 1
    Decodes = TRUE
    Rerun = TRUE
    SessionsExpire = TRUE
    ResultsExpire = TRUE
    MaxFlows = 2
    MaxPresses = 2
    MaxFaults = 1
INVARIANTS
    TypeOK
    RefusalIsRead
PROPERTIES
    LifecycleUnlessAnswered
CHECK_DEADLOCK FALSE
