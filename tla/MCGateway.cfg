SPECIFICATION Spec
CONSTANTS
    Process = {"api", "cli"}
    Workflow = {"deploy"}
    Steps <- TwoSteps
    Budget = 3
    MaxRuns = 3
    MaxRules = 2
    MaxBoots = 4
INVARIANTS OverspendBounded  
CHECK_DEADLOCK FALSE
