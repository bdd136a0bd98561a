SPECIFICATION FairSpec
CONSTANTS
    Replicas = {r1, r2}
    MaxFaults = 2
    Milli = 2
    Int32Half = 4
    Posts = {"view", "sameMilli", "bad"}
    Content <- MCContent
INVARIANTS
    TypeOK
    StartsFailOnce
    CountedOnce
    AckedIsShown
PROPERTIES
    ReplicasServe
    PostsAnswered
    AckedIsCounted
    ImplementsLedger
CHECK_DEADLOCK FALSE
