SPECIFICATION FairSpec
CONSTANTS
    a = a
    b = b
    c = c
    e1 = e1
    e2 = e2
    e3 = e3
    t1 = t1
    t2 = t2
    Steps <- MCSteps
    Declared <- ChainDeclared
    Order <- ChainDeclared
    DependsOn <- ChainDependsOn
    Required = {b}
    Reads <- MCNoConditions
    Retries <- MCRetries
    TransientOnly = {a}
    Unhandled = {}
    Compensated = {a, c}
    HasAction = {a, b}
    Executions = {e1, e2}
    Threads = {t1}
    MaxResumes = 2
    MaxCrashes = 1
    MaxInterrupts = 1
    MaxDecisions = 3
INVARIANTS
    CompletedMeansPerformed
    ResumeSkipsDone
CHECK_DEADLOCK FALSE
