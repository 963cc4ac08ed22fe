SPECIFICATION LedgerDesksSpec
CONSTANTS
    Doc = {d1, d2, d3}
    Line = {l1, l2}
    Person = {p1, p2}
    Nobody = Nobody
INVARIANT RefundedOnce
CHECK_DEADLOCK FALSE
