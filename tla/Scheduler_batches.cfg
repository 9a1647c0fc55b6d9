SPECIFICATION Spec
CONSTANTS
    a = a
    b = b
    t1 = t1
    t2 = t2
    t3 = t3
    t4 = t4
    None = None
    Names = {a, b}
    Tasks = {t1, t2, t3, t4}
    NameOf <- TaskName
    Kind <- TaskKind
    Priority <- TaskPriority
    Unstartable = {t4}
    Batches = 2
    MaxTimers = 4
    MaxRuns = 2
INVARIANTS
    TypeOK
    SubjectMirrors
PROPERTIES
    ClashesExplained
    OrphansExplained
CHECK_DEADLOCK FALSE
