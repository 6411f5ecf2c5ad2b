CONSTANTS
    r1 = r1
    r2 = r2
    old = old
    new = new
    other = other
    None = None
    Records = {r1}
    Files = {old, new}
    Openings <- OneOpenings
    Targets <- OneTargets
    KnownTarget = TRUE
    ReopenFailed = FALSE
    Rivals = TRUE
    MaxTokens = 4
    MaxHosts = 2
    MaxTransitions = 2
SPECIFICATION PartSpec
INVARIANTS LocksAreTheirOwners NothingStranded DraftsKept
PROPERTIES LossIsTerminal CloseCompletes ComesBack
CHECK_DEADLOCK FALSE
