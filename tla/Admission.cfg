CONSTANTS
    None = None
    p1 = p1
    p2 = p2
    c1 = c1
    n1 = n1
    r1 = r1
    Prompts = {p1, p2}
    Compactions = {c1}
    Navigations = {n1}
    Reloads = {r1}
    MaxDrains = 2
    Plans <- SevenPlans
SPECIFICATION FairSpec
INVARIANTS CustodyKept Exclusive
PROPERTIES HandedRightly EveryIntentSettles
CHECK_DEADLOCK FALSE
