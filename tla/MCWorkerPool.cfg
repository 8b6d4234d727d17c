SPECIFICATION Spec
CONSTANTS
    w1 = w1
    w2 = w2
    w3 = w3
    NTasks = 4
    MaxAuditFailures = 1
    Workers <- MCWorkers
    FailingSets <- MCFailingSets
INVARIANTS
    OutcomeOfTheLoop
    ClosedAfterLastUse
PROPERTIES
    AbortStartsNothing
    MapEnds
CHECK_DEADLOCK FALSE
