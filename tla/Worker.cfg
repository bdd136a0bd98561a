SPECIFICATION FairSpec
CONSTANTS
    Workers = {w1, w2}
    Partitions = {t1}
    Processors = {q1}
    ChanSize = 1
    MaxMessages = 2
    MaxFaults = 1
INVARIANTS
    TypeOK
    CommittedAccounted
PROPERTIES
    ImplementsTagQueue
    TagsHandled
    RebalancesEnd
