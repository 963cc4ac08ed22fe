CONSTANTS
    Ban = {b1, b2}
    Usage <- MCUsage
    BanOf <- MCBanOf
    Operator = {o1, o2}
    Exec = {x1, x2}
    Pipeline <- Pipeline3
    Captures = {TRUE, FALSE}
    Faults = {"raise", "delay"}
    None = None
SPECIFICATION Spec
SYMMETRY Symmetry
INVARIANTS TypeOK NothingUnderbilled NothingStranded ProcessedMeansSettled SeparationOfDuties ApprovedIsPostable
PROPERTY ApprovedIsFrozen
CHECK_DEADLOCK FALSE
