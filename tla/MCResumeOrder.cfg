SPECIFICATION FairSpec
CONSTANTS
    a = a
    b = b
    c = c
    e1 = e1
    e2 = e2
    e3 = e3
    t1 = t1
    t2 = t2
    Steps <- MCSteps
    Declared <- ForkDeclared
    Order <- ForkOrder
    DependsOn <- DagDependsOn
    Required = {b}
    Reads <- MCNoConditions
    Retries <- MCRetries
    TransientOnly = {a}
    Unhandled = {}
    Compensated = {a, c}
    HasAction = {a, b}
    Executions = {e1, e2, e3}
    Threads = {t1}
    MaxResumes = 1
    MaxCrashes = 0
    MaxInterrupts = 0
    MaxDecisions = 3
INVARIANT
    CompletedMeansPerformed
CHECK_DEADLOCK FALSE
