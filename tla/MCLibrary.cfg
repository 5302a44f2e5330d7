CONSTANTS
\* ThreadedBufferedStream
    KBlocks = 3
    BlockSize = 2
    MaxBytes = 9
    MaxWrite = 5
    WriteMayFail = TRUE
\* UnboundedSingleQueue
    PageSize = 2
    MaxProduce = 7
    Null = Null
    Blank = Blank
\* Compress
    Formats = {"gz", "bz", "xz"}
    CutFormats = {"gz", "bz", "xz"}
    MagicSize = 2
    InputBuffer = 3
    MaxMembers = 3
    MaxData = 2
    MaxAmount = 2
    BufSize = 3
    MinOutput = 2
    SizeMax = 1
    MaxWrites = 4
\* ProbingHashTable
    Keys = {k1, k2, k3, k4}
    Invalid = Invalid
    Hashes = {0, 1, 3, 7}
    Autos = {TRUE, FALSE}
    InitialSizes = {1, 2, 3, 4}
    MaxBuckets = 8
    MaxEntries = 5
SPECIFICATION LibrarySpec
\* A stream ends destroyed, a reader perhaps with an exception, and a consumer
\* waits forever on an empty queue.
CHECK_DEADLOCK FALSE
INVARIANTS Safety NoUseAfterFree EmptyIsSafe CompressSafety RoundTrip TableSafety
PROPERTIES StreamDestroyed ImplementsFifo QueueDrained CallsEnd ImplementsKeySet
