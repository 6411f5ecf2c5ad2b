SPECIFICATION Spec
CONSTANTS
    None = None
    MaxHosts = 3
    Plans <- BatchPlans
INVARIANTS LiveBatchIsInstalled
CHECK_DEADLOCK FALSE
