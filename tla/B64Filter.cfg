CONSTANTS
    StreamCap = 2
    PipeCap = 1
    ChildCap = 1
    ChildStreams = TRUE
    Faults = {"drop", "extra", "exit", "kill"}
    MaxDocuments = 2
    MaxDocLines = 2
    MaxParts = 1
    BackOfEmpty = {FALSE}
SPECIFICATION FairSpec
\* The process ends.
CHECK_DEADLOCK FALSE
INVARIANT Safety
PROPERTY Terminates
