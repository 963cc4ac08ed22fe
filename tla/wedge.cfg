SPECIFICATION TendedSpec
CONSTANTS
    Account = {b1}
    Worthless = {}
    Worker = {w1}
    NoOne = NoOne
    Mishaps = {}
    Target = {t1}
    Mandatory = {t1}
    Report = Report
    Exec = {x1, x2}
    Faults = {"loss"}
PROPERTY NeverWedges
CHECK_DEADLOCK FALSE
