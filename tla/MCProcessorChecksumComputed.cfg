SPECIFICATION ProcSpec
CONSTANTS
    MaxSize = 2
    CURR_SIZE_MOD = 16
    NULL = NULL
INVARIANT
    ChecksumComputed
CHECK_DEADLOCK FALSE
