CONSTANTS
    Producers = {p1, p2}
    Consumers = {c1, c2}
    Size = 2
    Kinds = {"copy", "swap"}
    ThrowingStages = {"assigning"}
    MaxProduce = 3
    MaxThrows = 1
    NoThread = NoThread
    Blank = Blank
    Moved = Moved
    NumWorkers = 2
    Readers = {r1}
    MaxRecords = 2
    PipeCap = 1
    ChildCap = 1
    Faults = {"exec", "exit", "kill", "input", "answer"}
SPECIFICATION PoolSpec
\* The pool ends its process, and consumers wait forever on an empty queue.
CHECK_DEADLOCK FALSE
INVARIANTS NoSlotRace ContentsIntact Safety
PROPERTIES ImplementsFifo QueueDrained PoolEnds FailureIsFatal
