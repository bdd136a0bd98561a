SPECIFICATION Spec
CONSTANTS
    Keys = {r1}
    Actions = {view}
    Prices = {1}
    Processors = {p1, p2}
    SumWidth = 8
    CountWidth = 4
    MaxTags = 2
    MaxFaults = 0
INVARIANTS
    FailsOnlyWhenDown
CHECK_DEADLOCK FALSE
