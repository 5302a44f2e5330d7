CONSTANTS
    WideCharacters = {"w", "D"}
    Modulus = 16
    kRead = 4
    MaxSize = 100
    Tools = {"wrap", "fields", "dedupe", "numbers", "signed", "warc", "docenc", "base64", "truecase", "file", "bignum", "write", "read", "pool", "memory", "crawl", "shard", "substitute", "clean", "cases"}
    MaxCharacters = 5
    MaxWidth = 4
    MaxItems = 2
    MaxLine = 4
    MaxLines = 4
    MaxContent = 2
    MaxText = 4
    MaxWords = 3
    MaxBytes = 3
    MaxReturns = 4
    kBigitSize = 8
    kChunkSize = 10
    HexSize = 4
    ShortFive = 4
    LongFive = 8
    kMaxUint64DecimalDigits = 6
    DoubleSize = 8
    DoubleExponentSize = 5
    SingleSize = 5
    SingleExponentSize = 4
    kCachedPowersOffset = 12
    kDecimalExponentDistance = 2
    kMaxExactDoubleIntegerDecimalDigits = 2
    kExactPowersOfTenSize = 4
    kMaxDecimalPower = 5
    MinDecimalPlaces = 7
    kMaxSignificantDecimalDigits = 22
    kMaxSignificantDigits = 20
    DecimalLowPlaces = 3
    DecimalHigh = 4
    MaxExponent = 1000
    kBase10MaximalLength = 4
    PrintStep = 7
    ParseStep = 17
    MaxSyntax = 4
    FirstChunk = 2
    PageBytes = 2
    HugePage = 4
    GiantPage = 8
    MaxPoolCalls = 5
    MaxReallocs = 3
    MaxFiltered = 3
    MaxCleaned = 4

SPECIFICATION Spec
\* Every tool returns.
CHECK_DEADLOCK FALSE

INVARIANTS WrapExact KeysExact KeptOnce NumbersExact RecordsExact DocumentsExact CasingExact TransfersExact
    BignumExact ShortestExact NearestExact MemoryExact FiltersExact
