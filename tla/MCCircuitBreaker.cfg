SPECIFICATION FairSpec
CONSTANTS
    c1 = c1
    c2 = c2
    c3 = c3
    Callers <- MCCallers
    FailureThreshold = 2
    HalfOpenMaxCalls = 2
INVARIANTS
    TypeOK
    ClosedBelowThreshold
    OpenHasTimestamp
    ProbeBudget
PROPERTIES
    CloseNeedsFreshSuccesses
    OpenEventuallyProbes
    HalfOpenResolvesUnlessCancelled
