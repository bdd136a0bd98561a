SPECIFICATION FairSpec
CONSTANTS
    Actions = {view, buy}
    Times = {1, 2, 3, 4, 5}
    Limit = 2
    Threshold = 3
    Handlers = {k1, k2, k3}
    MaxGeneration = 6
    MaxFaults = 2
INVARIANTS
    TypeOK
    NewestRetained
    ReadsNewest
    OverThresholdIsCollected
PROPERTIES
    OverflowIsTrimmed
    ImplementsTagStore
CHECK_DEADLOCK FALSE
