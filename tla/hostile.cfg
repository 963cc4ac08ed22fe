CONSTANTS
    Ban = {b1}
    Usage <- MCUsage
    BanOf <- MCBanOf
    Operator = {o1}
    Exec = {x1, x2}
    Pipeline <- Pipeline4
    Captures = {TRUE}
    Faults = {"loss", "delay", "late_push", "zombie", "early", "rollback", "late_close"}
    None = None
SPECIFICATION Spec
SYMMETRY Symmetry
INVARIANTS ProcessedHasEvidence AttemptFresh
CHECK_DEADLOCK FALSE
