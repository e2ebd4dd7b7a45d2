SPECIFICATION FairSpec
CONSTANTS
    r1 = r1
    r2 = r2
    r3 = r3
    p1 = p1
    p2 = p2
    None = None
    Request = {r1, r2, r3}
    Process = {p1, p2}
    ProcessOf <- TwoProcesses
    MaxExpiries = 1
    MaxCrashes = 1
INVARIANTS TypeOK LeaseExcludes TokenNeverStranded
PROPERTIES RefreshNeverUnrevokes NewestAccessKept RequestsEnd ImplementsCustody
CHECK_DEADLOCK FALSE
