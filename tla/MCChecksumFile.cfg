SPECIFICATION Spec
CONSTANTS
    NULL = NULL
    MAX_CHECKSUM_FILE_RETRIES = 1
    MaxCalls = 2
    Names <- MCNames
    Sums <- MCSums
INVARIANTS
    TypeOK
    NotOverwritten
    ReadBack
    FileComplete
    CancelKept
PROPERTY
    Returns
CHECK_DEADLOCK FALSE
