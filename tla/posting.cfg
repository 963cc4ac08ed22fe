SPECIFICATION WorksSpec
CONSTANTS
    Account = {b1, b2, b3}
    Worthless = {b3}
    Worker = {w1, w2}
    NoOne = NoOne
    Mishaps = {"post", "park", "render", "die"}
    Target = {t1}
    Mandatory = {t1}
    Report = Report
    Exec = {x1}
    Faults = {"transport", "loss"}
    File = {"first", "reissue", "other"}
    KeyOf <- MCKeyOf
    Content = {"january", "february"}
    Record <- MCRecord
    RecordsOf <- MCRecordsOf
    Absent = Absent
    MaxBatch = 2
    Lapses = {}
    CardVersion = {1, 2, 3, 4}
    Manager = {m1, m2}
INVARIANTS BooksAgree StoredAuthentic CompletedMeansDelivered RatingTypeOK LiveIsLatest RawKept CardSound
PROPERTIES ExactlyOnce HeldStays ActivationTells
SYMMETRY Symmetry
CHECK_DEADLOCK FALSE
