SPECIFICATION FairSpec
CONSTANTS
    j1 = j1
    j2 = j2
    j3 = j3
    w1 = w1
    w2 = w2
    Jobs = {j1, j2, j3}
    Workers = {w1, w2}
    Unhandled = {j3}
    MaxQueue = 2
    MaxAttempts = 2
    MaxRetryCalls = 2
INVARIANTS
    TypeOK
    NoStrandedJob
    OneRunnerUnlessRetried
    DeadLetterIsFinal
PROPERTIES
    JobsSettle
CHECK_DEADLOCK FALSE
