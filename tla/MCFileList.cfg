SPECIFICATION Spec
CONSTANTS
    f = f
    s = s
    sha = sha
    sha2 = sha2
    md5 = md5
    crc = crc
    odd = odd
    NULL = NULL
    UINT_MAX = 7
    Names <- MCNames
    ChecksumNames <- MCChecksumNames
    Checksums <- MCChecksums
    TypeOf <- MCTypeOf
INVARIANTS
    TypeOK
    StatsAgree
    VerdictSound
    TypeFits
PROPERTIES
    VerdictFinal
    TallySpec
CHECK_DEADLOCK FALSE
