CONSTANTS
    Ban = {b1, b2}
    Usage <- MCUsage
    BanOf <- MCBanOf
    Operator = {o1}
    Exec = {x1, x2}
    Pipeline <- Pipeline3
    Captures = {TRUE}
    Faults = {"crash"}
    None = None
SPECIFICATION FairSpec
PROPERTY RunSettles
INVARIANT FailedOnlyIfDead
CHECK_DEADLOCK FALSE
