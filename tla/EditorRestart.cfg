SPECIFICATION Spec
CONSTANTS
    None = None
    MaxHosts = 3
    Plans <- RestartPlans
INVARIANTS LiveBatchIsInstalled
CHECK_DEADLOCK FALSE
