SPECIFICATION FairSpec
CONSTANT MaxFlows = 2
INVARIANTS
    TypeOK
    OneRequest
    SavedPriceIsEncrypted
    CryptoConnected
PROPERTIES
    FlowEnds
CHECK_DEADLOCK FALSE
