SPECIFICATION FairSpec
CONSTANTS
    a = a
    b = b
    c = c
    e1 = e1
    e2 = e2
    e3 = e3
    t1 = t1
    t2 = t2
    Steps <- MCSteps
    Declared <- DagDeclared
    Order <- DagOrder
    DependsOn <- DagDependsOn
    Required = {b}
    Reads <- DagReads
    Retries <- MCRetries
    TransientOnly = {a}
    Unhandled = {}
    Compensated = {c}
    HasAction = {a, b}
    Executions = {e1, e2, e3}
    Threads = {t1, t2}
    MaxResumes = 0
    MaxCrashes = 0
    MaxInterrupts = 0
    MaxDecisions = 3
INVARIANTS
    TypeOK
    GatedEffects
    DependenciesFirst
    CompletedMeansPerformed
    AwaitingHasRequests
PROPERTIES
    FailureCompensates
    RunsTerminate
CHECK_DEADLOCK FALSE
