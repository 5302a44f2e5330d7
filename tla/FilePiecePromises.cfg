CONSTANTS
    Chars = {"d", "cr", "nl"}
    MaxLength = 3
    PageSize = 1
    Kinds = {"file"}
    MapFails = {"line"}
    Operations = {"line", "get"}
SPECIFICATION PromisesSpec
\* A file that has broken a promise again is not read on.
CHECK_DEADLOCK FALSE
INVARIANT SomePromiseKept
