SPECIFICATION FairSpec
CONSTANTS
    Keys = {r1}
    Actions = {view, buy}
    Prices = {1, 3}
    Processors = {p1, p2, p3}
    SumWidth = 8
    CountWidth = 4
    MaxTags = 3
    MaxFaults = 2
INVARIANTS
    TypeOK
    AggregatesExact
    TagsAccounted
PROPERTIES
    TagsFinish
CHECK_DEADLOCK FALSE
