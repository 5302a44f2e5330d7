----------------------------- MODULE MCLibrary -----------------------------
(***************************************************************************)
(* The parts of util/ that stand for themselves, side by side: the         *)
(* threaded stream, the queue for one producer and one consumer, the       *)
(* compressed files and the hash table.  The parts share no state, so one  *)
(* of them runs in every behaviour and the others stay as they began.      *)
(***************************************************************************)
EXTENDS ThreadedBufferedStream, UnboundedSingleQueue, Compress, ProbingHashTable

VARIABLE part     \* the part that runs

libraryVars == <<part, vars, queueVars, allVars, tableVars>>

\* Some initial state of a part that has many of them: an uncompressed file
\* without content, and a table of one bucket.
CompressIdle ==
    /\ ReaderInit /\ raw = <<>> /\ fine = TRUE
    /\ calls = 0 /\ written = 0 /\ later = 0 /\ avail = 0 /\ taken = 0 /\ emitted = 0
    /\ buf = <<>> /\ out = <<>> /\ dirty = FALSE /\ pc = "none"

TableIdle ==
    /\ auto = FALSE /\ hash = [key \in Keys |-> 0]
    /\ buckets = 1 /\ threshold = 1 /\ table = EmptyTable(1)
    /\ entries_ = 0 /\ inserted = {} /\ said = "none"

LibraryInit ==
    /\ part \in {"stream", "queue", "compress", "table"}
    /\ Init /\ QueueInit
    /\ IF part = "compress" THEN CompressInit ELSE CompressIdle
    /\ IF part = "table" THEN TableInit ELSE TableIdle

LibraryNext ==
    /\ \/ part = "stream" /\ Next /\ UNCHANGED <<queueVars, allVars, tableVars>>
       \/ part = "queue" /\ QueueNext /\ UNCHANGED <<vars, allVars, tableVars>>
       \/ part = "compress" /\ CompressNext /\ UNCHANGED <<vars, queueVars, tableVars>>
       \/ part = "table" /\ TableNext /\ UNCHANGED <<vars, queueVars, allVars>>
    /\ UNCHANGED part

\* The fairness of the parts, for the one that runs.
LibrarySpec ==
    /\ LibraryInit /\ [][LibraryNext]_libraryVars
    /\ WF_vars(part = "stream" /\ Writer)
    /\ WF_vars(part = "stream" /\ Owner)
    /\ SF_vars(part = "stream" /\ Close)
    /\ WF_queueVars(part = "queue" /\ Produce)
    /\ WF_queueVars(part = "queue" /\ Consume)
    /\ WF_allVars(part = "compress" /\ CompressNext)

-----------------------------------------------------------------------------
(* Liveness of the parts that run (EventuallyDestroyed and EventuallyDrained *)
(* are about threaded_buffered_stream.hh and pcqueue.hh)                     *)

\* A threaded stream that runs is destroyed, or the process ends.
StreamDestroyed == part = "stream" => EventuallyDestroyed

\* A queue that runs hands every item to the consumer, and is empty then.
QueueDrained == part = "queue" => EventuallyDrained
=============================================================================
