SPECIFICATION FairSpec
CONSTANTS
    s1 = s1
    s2 = s2
    None = None
    Step = {s1, s2}
    Definitions <- AllDefinitions
    Request = {1, 2, 3}
    WorkerOf <- OwnWorker
    MaxParallel = 2
    MaxExpiries = 1
    MaxCrashes = 1
INVARIANTS TypeOK CompletedMeansDone WaitingLacksApproval FailedIsCompensated RecoveryFenced
PROPERTIES GatedStepWaits RequestsEnd
CHECK_DEADLOCK FALSE
