CONSTANTS
    Chars = {"d", "cr", "nl"}
    MaxLength = 5
    PageSize = 1
    Kinds = {"file", "pipe", "gzip"}
    MapFails = {"open", "find", "number", "get", "skip delimited", "skip word", "skip number"}
    Operations = {"line", "delimited", "word", "number", "get"}
SPECIFICATION FairSpec
INVARIANTS Safety ReadsExact
PROPERTY OperationsEnd
