SPECIFICATION FairSpec
CONSTANTS
    Tabs = {t1, t2}
    Links = {l1}
    MaxCalls = 3
    MaxFaults = 1
INVARIANTS
    TypeOK
    ResetOnce
    HandledOnce
    RetiredForGood
    InSync
PROPERTIES
    SlotSpec
    CallsSettle
CHECK_DEADLOCK FALSE
