SPECIFICATION WorkerSpec
CONSTANTS
    a = a
    b = b
    f = f
    sha = sha
    sha2 = sha2
    NULL = NULL
    UINT_MAX = 15
    MaxChanges = 1
    Components <- MCComponents
    Nodes <- MCNodes
    Directories <- MCDirectories
    Args <- MCArgs
    Lines <- MCLines
    Names <- MCNames
    ChecksumNames = {}
    Checksums <- MCChecksums
    TypeOf <- MCTypeOf
INVARIANT
    EveryFileHandled
CHECK_DEADLOCK FALSE
