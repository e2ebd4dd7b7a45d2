SPECIFICATION FairSpec
CONSTANTS
    s1 = s1
    s2 = s2
    None = None
    Step = {s1, s2}
    Definitions <- ApprovalOnly
    Request = {1, 2, 3}
    WorkerOf <- OwnWorker
    MaxParallel = 2
    MaxExpiries = 0
    MaxCrashes = 0
PROPERTY ApprovedRunGoesOn
CHECK_DEADLOCK FALSE
