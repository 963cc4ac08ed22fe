SPECIFICATION FairSpec
CONSTANTS
    Account = {b1}
    Worthless = {}
    Worker = {w1}
    NoOne = NoOne
    Mishaps = {"render"}
    Target = {t1}
    Mandatory = {t1}
    Report = Report
    Exec = {x1, x2}
    Faults = {"transport", "crash", "loss", "delay", "orphan"}
INVARIANT TypeOK
PROPERTY RoundSettles
CHECK_DEADLOCK FALSE
