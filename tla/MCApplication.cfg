SPECIFICATION AppSpec
CONSTANTS
    Names <- MCNames
    Items <- MCItems
    FULL = 4
    GINT_MAX = 20
    SIZE_MOD = 64
INVARIANTS
    TypeOK
    NoAbort
    FinalCounters
    FinalBar
    QuitOnlyWhenDone
PROPERTY
    Finishes
CHECK_DEADLOCK FALSE
