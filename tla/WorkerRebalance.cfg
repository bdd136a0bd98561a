SPECIFICATION Spec
CONSTANTS
    Workers = {w1, w2}
    Partitions = {t1}
    Processors = {q1}
    ChanSize = 1
    MaxMessages = 1
    MaxFaults = 1
PROPERTIES
    SessionRecreated
