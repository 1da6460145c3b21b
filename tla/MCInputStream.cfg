SPECIFICATION Spec
CONSTANTS
    MaxSize = 3
    NULL = NULL
INVARIANTS
    TypeOK
    AnswersCoverReads
    Contract
CHECK_DEADLOCK FALSE
