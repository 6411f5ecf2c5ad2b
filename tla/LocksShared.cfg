SPECIFICATION Spec
CHECK_DEADLOCK FALSE
CONSTANTS
    r1 = r1
    r2 = r2
    old = old
    new = new
    other = other
    None = None
    Records = {r1, r2}
    Files = {old, new, other}
    Openings <- SharedOpenings
    Targets <- SharedTargets
    KnownTarget = FALSE
    ReopenFailed = FALSE
    Rivals = FALSE
    MaxTokens = 4
    MaxHosts = 1
    MaxTransitions = 1
INVARIANTS
    HeldLockIsWatched
