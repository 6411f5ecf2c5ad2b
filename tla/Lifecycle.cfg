CONSTANTS
    None = None
    v1 = v1
    v2 = v2
    Plans <- FourPlans
    MaxAttempts = 2
    MaxHosts = 4
SPECIFICATION Spec
INVARIANTS OneLockedHost CrashBudget
PROPERTIES VisitsSpareOthers RetryServed
