SPECIFICATION Spec
CONSTANTS
    MaxTries = 1
    Slow = {"store"}
    MaxFaults = 1
    MaxPolls = 2
    MaxRuns = 2
INVARIANTS
    ResetIsComplete
    SuccessIsNotEmpty
    PublishedIsComplete
    
CHECK_DEADLOCK FALSE
