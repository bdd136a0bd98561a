SPECIFICATION FairSpec
CONSTANTS
    Tags <- MCTags
    Elements <- MCElements
    IdsOf <- MCIdsOf
    Requests <- MCRequests
    Second = 2
    MinuteSeconds = 2
    MaxMinutes = 2
    IdWidth = 3
    MaxFaults = 1
INVARIANTS
    TypeOK
    RowsBetween
    RowsCover
PROPERTIES
    QueriesReturn
CHECK_DEADLOCK FALSE
