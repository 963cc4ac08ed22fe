SPECIFICATION DraftingSpec
CONSTANTS
    Doc = {d1, d2, d3}
    Line = {l1, l2}
    Person = {p1, p2}
    Nobody = Nobody
    Version = {v1, v2, v3}
    Price = {base, modifier}
    Modifier = {modifier}
    Order = {o1}
    Clerk = {c1, c2}
    Manager = {c1}
    Nil = Nil
    Tolerance = 1
    Horizon = 3
    MaxMoves = 3
    Type = {0, 1, 2}
    Standard = 0
    Ban = {b1}
    Editor = {m1, m2}
    MaxClock = 6
PROPERTY NoBlindSave
CHECK_DEADLOCK FALSE
