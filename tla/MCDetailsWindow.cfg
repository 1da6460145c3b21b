SPECIFICATION WindowSpec
CONSTANTS
    f = f
    s = s
    sha = sha
    sha2 = sha2
    NULL = NULL
    UINT_MAX = 7
    Names <- MCNames
    ChecksumNames <- MCChecksumNames
    Checksums <- MCChecksums
    TypeOf <- MCTypeOf
SYMMETRY ChecksumSymmetry
INVARIANT
    RowsTrue
CHECK_DEADLOCK FALSE
