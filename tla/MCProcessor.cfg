SPECIFICATION ProcSpec
CONSTANTS
    MaxSize = 3
    CURR_SIZE_MOD = 16
    NULL = NULL
INVARIANTS
    ProcTypeOK
    NothingLost
    SizeAccounted
    VerdictComplete
PROPERTIES
    Ends
    JobSpec
CHECK_DEADLOCK FALSE
