SPECIFICATION WorkerSpec
CONSTANTS
    d = d
    f = f
    s = s
    m = m
    sha = sha
    sha2 = sha2
    NULL = NULL
    UINT_MAX = 15
    MaxChanges = 1
    Components <- MCComponents
    Nodes <- MCNodes
    Directories <- MCDirectories
    Args <- MCArgs
    Lines <- MCLines
    Names <- MCNames
    ChecksumNames <- MCChecksumNames
    Checksums <- MCChecksums
    TypeOf <- MCTypeOf
INVARIANT
    SeenBeforeChecksum
CHECK_DEADLOCK FALSE
