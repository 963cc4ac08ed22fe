CONSTANTS
    Ban = {b1}
    Usage <- MCUsage
    BanOf <- MCBanOf
    Operator = {o1}
    Exec = {x1, x2}
    Pipeline <- Pipeline3
    Captures = {TRUE}
    Faults = {"early"}
    None = None
SPECIFICATION Spec
INVARIANT NothingUnderbilled
CHECK_DEADLOCK FALSE
