CONSTANTS
    Producers = {p1, p2}
    Consumers = {c1, c2}
    Size = 2
    Kinds = {"copy", "swap"}
    ThrowingStages = {"assigning", "swapping"}
    MaxProduce = 3
    MaxThrows = 1
    NoThread = NoThread
    Blank = Blank
    Moved = Moved
SPECIFICATION FairQueueSpec
\* Consumers wait forever on an empty queue.
CHECK_DEADLOCK FALSE
INVARIANT ContentsIntact
