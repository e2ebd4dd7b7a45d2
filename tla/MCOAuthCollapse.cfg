SPECIFICATION Spec
CONSTANTS
    r1 = r1
    r2 = r2
    r3 = r3
    p1 = p1
    p2 = p2
    None = None
    Request = {r1, r2, r3}
    Process = {p1}
    ProcessOf <- OneProcess
    MaxExpiries = 0
    MaxCrashes = 0
INVARIANT RefreshesCollapse
CHECK_DEADLOCK FALSE
