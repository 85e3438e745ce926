SPECIFICATION FairSpec
CONSTANTS
    a1 = a1
    a2 = a2
    u1 = u1
    Apps = {a1}
    Users = {u1}
    Owner <- Single
    Linked = {u1}
    NoApp = NoApp
    NoSession = NoSession
    MaxTries = 3
    BackoffLen = 4
    Decodes = FALSE
    Rerun = FALSE
    SessionsExpire = TRUE
    ResultsExpire = TRUE
    MaxFlows = 2
    MaxPresses = 2
    MaxFaults = 1
INVARIANTS
    WindowRespected
    SubmittedIsPublished
PROPERTIES
    WaitingIsTaken
    JobsEnd
CHECK_DEADLOCK FALSE
