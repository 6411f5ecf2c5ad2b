SPECIFICATION Spec
CONSTANTS
    None = None
    MaxHosts = 3
    Plans <- DraftPlans
INVARIANTS KeepsDrafts
CHECK_DEADLOCK FALSE
