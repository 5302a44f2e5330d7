---------------------------- MODULE WarcParallel ----------------------------
(***************************************************************************)
(* preprocess/warc_parallel_main.cc: reader threads put WARC records in a  *)
(* queue, a pool of workers, each a child process with a thread for its    *)
(* input and one for its output, takes them out, and a further thread      *)
(* collects the exit statuses of the children.                             *)
(*                                                                         *)
(* The children are forked one after the other and inherit the descriptors *)
(* the parent has open then: child w holds the writing ends of the pipes   *)
(* to all children before it, so these see the end of their input only     *)
(* when child w has exited.                                                *)
(*                                                                         *)
(* A record is a number; the queue is the FIFO that PCQueue is shown to    *)
(* implement, and its empty string is Poison.                              *)
(***************************************************************************)
EXTENDS Integers, Sequences, FiniteSets, Functions

CONSTANTS
    NumWorkers,   \* options.workers
    Readers,      \* the input files
    MaxRecords,   \* bound: records in all input files together
    PipeCap,      \* records in a pipe
    ChildCap,     \* records a child holds before it must write
    Faults        \* "exec": the command cannot be run; "exit", "kill": a child fails;
                  \* "input", "answer": a file or a child's output is no sequence of records

ASSUME PoolAssumption == {NumWorkers, PipeCap, ChildCap} \subseteq Nat \ {0} /\ MaxRecords \in Nat
ASSUME PoolFaultsAssumption == Faults \subseteq {"exec", "exit", "kill", "input", "answer"}

VARIABLES
    mpc,        \* where main is
    launched,   \* number of workers launched
    poisoned,   \* number of poisons queued
    reading,    \* readers that have not finished
    records,    \* number of records read so far
    hand,       \* what each reader has read and not queued
    queue,      \* InputQueue
    input,      \* what the input thread of each worker has to write
    inOpen,     \* workers whose input thread has its pipe open
    inPipe,     \* pipes to the children
    held,       \* records a child has read and not written
    child,      \* state of each child
    outPipe,    \* pipes from the children
    output,     \* what the output thread of each worker has read
    opc,        \* where the output thread of each worker is
    outMutex,   \* workers whose output thread holds out_mutex
    out,        \* output, every record being written in two halves
    reaped,     \* children the reaper has collected
    outcome     \* how the process ended

vars == <<mpc, launched, poisoned, reading, records, hand, queue, input, inOpen, inPipe, held, child,
          outPipe, output, opc, outMutex, out, reaped, outcome>>
mainVars == <<mpc, launched, poisoned>>
readVars == <<reading, records, hand>>
workVars == <<input, inOpen, inPipe, held, child, outPipe, output, opc, outMutex, out>>

Workers == 1..NumWorkers
Poison == 0
None == -1
Records == 1..MaxRecords

Init ==
    /\ mpc = "launch" /\ launched = 0 /\ poisoned = 0
    /\ reading = Readers /\ records = 0 /\ hand = [r \in Readers |-> None]
    /\ queue = <<>>
    /\ input = [w \in Workers |-> None] /\ inOpen = {}
    /\ inPipe = [w \in Workers |-> <<>>]
    /\ held = [w \in Workers |-> <<>>]
    /\ child = [w \in Workers |-> "none"]
    /\ outPipe = [w \in Workers |-> <<>>]
    /\ output = [w \in Workers |-> None] /\ opc = [w \in Workers |-> "read"]
    /\ outMutex = {} /\ out = <<>>
    /\ reaped = {} /\ outcome = "running"

\* An exception that leaves a thread, SIGPIPE or abort() ends the process.
Die(how) ==
    /\ outcome' = how
    /\ UNCHANGED <<mainVars, readVars, queue, workVars, reaped>>

-----------------------------------------------------------------------------
(* main: launch the workers, join the readers, poison the queue, join the  *)
(* workers and the reaper                                                  *)

\* The next child is forked, with the ends of all pipes that are open now.
LaunchWorker ==
    /\ mpc = "launch"
    /\ launched < NumWorkers
    /\ launched' = launched + 1
    /\ child' = [child EXCEPT ![launched + 1] = "running"]
    /\ inOpen' = inOpen \cup {launched + 1}
    /\ mpc' = IF launched' = NumWorkers THEN "readers" ELSE mpc
    /\ UNCHANGED <<poisoned, readVars, queue, input, inPipe, held, outPipe, output, opc, outMutex,
                   out, reaped, outcome>>

\* execvp failed: Launch reads the error from the status pipe and throws.
LaunchFails ==
    /\ mpc = "launch"
    /\ launched < NumWorkers
    /\ "exec" \in Faults
    /\ Die("aborted")

\* The readers have been joined.
ReadersJoined ==
    /\ mpc = "readers"
    /\ reading = {}
    /\ mpc' = "poison"
    /\ UNCHANGED <<launched, poisoned, readVars, queue, workVars, reaped, outcome>>

\* Slip: one poison for the whole pool.
PoisonQueueOnce ==
    /\ mpc = "poison"
    /\ Len(queue) < NumWorkers
    /\ queue' = Append(queue, Poison)
    /\ poisoned' = 1
    /\ mpc' = "join"
    /\ UNCHANGED <<launched, readVars, workVars, reaped, outcome>>

\* One poison per worker.
PoisonQueue ==
    /\ mpc = "poison"
    /\ Len(queue) < NumWorkers
    /\ queue' = Append(queue, Poison)
    /\ poisoned' = poisoned + 1
    /\ mpc' = IF poisoned' = NumWorkers THEN "join" ELSE mpc
    /\ UNCHANGED <<launched, readVars, workVars, reaped, outcome>>

\* Slip: the output threads are not joined.
JoinPoolInputOnly ==
    /\ mpc = "join"
    /\ inOpen = {}
    /\ reaped = Workers
    /\ outcome' = "exit"
    /\ UNCHANGED <<mainVars, readVars, queue, workVars, reaped>>

\* Every thread of every worker has ended and every child has been collected.
JoinPool ==
    /\ mpc = "join"
    /\ inOpen = {}
    /\ \A w \in Workers : opc[w] = "done"
    /\ reaped = Workers
    /\ outcome' = "exit"
    /\ UNCHANGED <<mainVars, readVars, queue, workVars, reaped>>

Main == LaunchWorker \/ LaunchFails \/ ReadersJoined \/ PoisonQueue \/ JoinPool

-----------------------------------------------------------------------------
(* ReadInput *)

ReadRecord(r) ==
    /\ mpc = "readers"
    /\ r \in reading
    /\ hand[r] = None
    /\ records < MaxRecords
    /\ records' = records + 1
    /\ hand' = [hand EXCEPT ![r] = records + 1]
    /\ UNCHANGED <<mainVars, reading, queue, workVars, reaped, outcome>>

ProduceRecord(r) ==
    /\ hand[r] # None
    /\ Len(queue) < NumWorkers
    /\ queue' = Append(queue, hand[r])
    /\ hand' = [hand EXCEPT ![r] = None]
    /\ UNCHANGED <<mainVars, reading, records, workVars, reaped, outcome>>

\* The end of the file; the queue is not poisoned here.
ReaderEnds(r) ==
    /\ mpc = "readers"
    /\ r \in reading
    /\ hand[r] = None
    /\ reading' = reading \ {r}
    /\ UNCHANGED <<mainVars, records, hand, queue, workVars, reaped, outcome>>

\* WARCReader::Read throws: the header is no header of a record, or the file
\* ends within a record.  Nobody catches the exception.
RecordFails(r) ==
    /\ mpc = "readers"
    /\ r \in reading
    /\ hand[r] = None
    /\ "input" \in Faults
    /\ Die("aborted")

Reader(r) == ReadRecord(r) \/ ProduceRecord(r) \/ ReaderEnds(r) \/ RecordFails(r)

-----------------------------------------------------------------------------
(* InputToProcess *)

\* ConsumeSwap; an empty string ends the thread, which closes the pipe.
ConsumeRecord(w) ==
    /\ w \in inOpen
    /\ input[w] = None
    /\ queue # <<>>
    /\ queue' = Tail(queue)
    /\ \/ /\ Head(queue) = Poison
          /\ inOpen' = inOpen \ {w}
          /\ UNCHANGED input
       \/ /\ Head(queue) # Poison
          /\ input' = [input EXCEPT ![w] = Head(queue)]
          /\ UNCHANGED inOpen
    /\ UNCHANGED <<mainVars, readVars, inPipe, held, child, outPipe, output, opc, outMutex, out,
                   reaped, outcome>>

WriteRecord(w) ==
    /\ input[w] # None
    /\ child[w] = "running"
    /\ Len(inPipe[w]) < PipeCap
    /\ inPipe' = [inPipe EXCEPT ![w] = Append(@, input[w])]
    /\ input' = [input EXCEPT ![w] = None]
    /\ UNCHANGED <<mainVars, readVars, queue, inOpen, held, child, outPipe, output, opc, outMutex,
                   out, reaped, outcome>>

\* Nobody reads the pipe any more.
WriteBroken(w) ==
    /\ input[w] # None
    /\ child[w] \in {"success", "failure", "killed"}
    /\ Die("sigpipe")

Input(w) == ConsumeRecord(w) \/ WriteRecord(w) \/ WriteBroken(w)

-----------------------------------------------------------------------------
(* The children: some program that copies records *)

\* Who holds a writing end of the pipe to child w: its input thread, and every
\* child forked later.
WriterLeft(w) == w \in inOpen \/ \E v \in Workers : v > w /\ child[v] = "running"

ChildReads(w) ==
    /\ child[w] = "running"
    /\ inPipe[w] # <<>>
    /\ Len(held[w]) < ChildCap
    /\ held' = [held EXCEPT ![w] = Append(@, Head(inPipe[w]))]
    /\ inPipe' = [inPipe EXCEPT ![w] = Tail(@)]
    /\ UNCHANGED <<mainVars, readVars, queue, input, inOpen, child, outPipe, output, opc, outMutex,
                   out, reaped, outcome>>

ChildWrites(w) ==
    /\ child[w] = "running"
    /\ held[w] # <<>>
    /\ Len(outPipe[w]) < PipeCap
    /\ outPipe' = [outPipe EXCEPT ![w] = Append(@, Head(held[w]))]
    /\ held' = [held EXCEPT ![w] = Tail(@)]
    /\ UNCHANGED <<mainVars, readVars, queue, input, inOpen, inPipe, child, output, opc, outMutex,
                   out, reaped, outcome>>

\* A child may keep records back until it holds as many as it can or its
\* input has ended.
ChildMustWrite(w) ==
    /\ Len(held[w]) = ChildCap \/ (inPipe[w] = <<>> /\ ~WriterLeft(w))
    /\ ChildWrites(w)

ChildExits(w) ==
    /\ child[w] = "running"
    /\ inPipe[w] = <<>> /\ ~WriterLeft(w)
    /\ held[w] = <<>>
    /\ child' = [child EXCEPT ![w] = "success"]
    /\ UNCHANGED <<mainVars, readVars, queue, input, inOpen, inPipe, held, outPipe, output, opc,
                   outMutex, out, reaped, outcome>>

ChildFails(w) ==
    /\ child[w] = "running"
    /\ \/ "exit" \in Faults /\ child' = [child EXCEPT ![w] = "failure"]
       \/ "kill" \in Faults /\ child' = [child EXCEPT ![w] = "killed"]
    /\ inPipe' = [inPipe EXCEPT ![w] = <<>>]
    /\ held' = [held EXCEPT ![w] = <<>>]
    /\ UNCHANGED <<mainVars, readVars, queue, input, inOpen, outPipe, output, opc, outMutex, out,
                   reaped, outcome>>

Child(w) == ChildReads(w) \/ ChildWrites(w) \/ ChildExits(w) \/ ChildFails(w)

-----------------------------------------------------------------------------
(* OutputFromProcess *)

ReadAnswer(w) ==
    /\ opc[w] = "read"
    /\ outPipe[w] # <<>>
    /\ output' = [output EXCEPT ![w] = Head(outPipe[w])]
    /\ outPipe' = [outPipe EXCEPT ![w] = Tail(@)]
    /\ opc' = [opc EXCEPT ![w] = "lock"]
    /\ UNCHANGED <<mainVars, readVars, queue, input, inOpen, inPipe, held, child, outMutex, out,
                   reaped, outcome>>

\* Slip: the stream is written without holding the mutex.
LockOutputUnlocked(w) ==
    /\ opc[w] = "lock"
    /\ outMutex' = outMutex \cup {w}
    /\ out' = Append(out, output[w])
    /\ opc' = [opc EXCEPT ![w] = "half"]
    /\ UNCHANGED <<mainVars, readVars, queue, input, inOpen, inPipe, held, child, outPipe, output,
                   reaped, outcome>>

\* Slip: the mutex is only tried, and a record that finds it taken is dropped.
LockOutputOrDrop(w) ==
    /\ opc[w] = "lock"
    /\ \/ /\ outMutex = {}
          /\ outMutex' = {w}
          /\ out' = Append(out, output[w])
          /\ opc' = [opc EXCEPT ![w] = "half"]
          /\ UNCHANGED output
       \/ /\ outMutex # {}
          /\ output' = [output EXCEPT ![w] = None]
          /\ opc' = [opc EXCEPT ![w] = "read"]
          /\ UNCHANGED <<outMutex, out>>
    /\ UNCHANGED <<mainVars, readVars, queue, input, inOpen, inPipe, held, child, outPipe, reaped,
                   outcome>>

\* The mutex is taken and the writing of the record begins.
LockOutput(w) ==
    /\ opc[w] = "lock"
    /\ outMutex = {}
    /\ outMutex' = {w}
    /\ out' = Append(out, output[w])
    /\ opc' = [opc EXCEPT ![w] = "half"]
    /\ UNCHANGED <<mainVars, readVars, queue, input, inOpen, inPipe, held, child, outPipe, output,
                   reaped, outcome>>

\* The rest of the record is written and the mutex released.
FinishRecord(w) ==
    /\ opc[w] = "half"
    /\ out' = Append(out, output[w])
    /\ output' = [output EXCEPT ![w] = None]
    /\ outMutex' = outMutex \ {w}
    /\ opc' = [opc EXCEPT ![w] = "read"]
    /\ UNCHANGED <<mainVars, readVars, queue, input, inOpen, inPipe, held, child, outPipe, reaped,
                   outcome>>

\* The end of the child's output.
OutputEnds(w) ==
    /\ opc[w] = "read"
    /\ outPipe[w] = <<>>
    /\ child[w] \in {"success", "failure", "killed"}
    /\ opc' = [opc EXCEPT ![w] = "done"]
    /\ UNCHANGED <<mainVars, readVars, queue, input, inOpen, inPipe, held, child, outPipe, output,
                   outMutex, out, reaped, outcome>>

\* WARCReader::Read throws, and nobody catches it: what the child wrote is no
\* record, or the child failed within one.
AnswerFails(w) ==
    /\ opc[w] = "read"
    /\ \/ outPipe[w] # <<>> /\ "answer" \in Faults
       \/ outPipe[w] = <<>> /\ child[w] \in {"failure", "killed"}
    /\ Die("aborted")

Output(w) ==
    ReadAnswer(w) \/ LockOutput(w) \/ FinishRecord(w) \/ OutputEnds(w) \/ AnswerFails(w)

-----------------------------------------------------------------------------
(* ChildReaper, which starts when all workers have been launched *)

\* Slip: a child that was killed is taken for one that exited.
ReapChildKilled(w) ==
    /\ mpc # "launch"
    /\ w \notin reaped
    /\ \/ /\ child[w] \in {"success", "killed"}
          /\ reaped' = reaped \cup {w}
          /\ UNCHANGED <<mainVars, readVars, queue, workVars, outcome>>
       \/ /\ child[w] = "failure"
          /\ Die("aborted")

\* waitpid: any status but a regular exit with zero aborts the process.
ReapChild(w) ==
    /\ mpc # "launch"
    /\ w \notin reaped
    /\ \/ /\ child[w] = "success"
          /\ reaped' = reaped \cup {w}
          /\ UNCHANGED <<mainVars, readVars, queue, workVars, outcome>>
       \/ /\ child[w] \in {"failure", "killed"}
          /\ Die("aborted")

Next ==
    /\ outcome = "running"
    /\ \/ Main
       \/ \E r \in Readers : Reader(r)
       \/ \E w \in Workers : Input(w) \/ Child(w) \/ Output(w) \/ ReapChild(w)

Spec == Init /\ [][Next]_vars

(* Every thread runs.  A child reads when it can, writes when it must and    *)
(* exits at the end of its input; it never has to fail.                     *)
FairSpec ==
    /\ Spec
    /\ WF_vars(outcome = "running" /\ Main)
    /\ \A r \in Readers : WF_vars(outcome = "running" /\ Reader(r))
    /\ \A w \in Workers :
        /\ WF_vars(outcome = "running" /\ Input(w))
        /\ WF_vars(outcome = "running" /\ ChildReads(w))
        /\ WF_vars(outcome = "running" /\ ChildMustWrite(w))
        /\ WF_vars(outcome = "running" /\ ChildExits(w))
        /\ WF_vars(outcome = "running" /\ Output(w))
        /\ WF_vars(outcome = "running" /\ ReapChild(w))

-----------------------------------------------------------------------------
(* Properties *)

\* Type invariant of the pool.
TypeOK ==
    /\ mpc \in {"launch", "readers", "poison", "join"}
    /\ launched \in 0..NumWorkers
    /\ poisoned \in 0..NumWorkers
    /\ reading \subseteq Readers
    /\ records \in 0..MaxRecords
    /\ hand \in [Readers -> Records \cup {None}]
    /\ queue \in Seq(Records \cup {Poison}) /\ Len(queue) <= NumWorkers
    /\ input \in [Workers -> Records \cup {None}]
    /\ inOpen \subseteq Workers
    /\ inPipe \in [Workers -> Seq(Records)]
    /\ held \in [Workers -> Seq(Records)]
    /\ child \in [Workers -> {"none", "running", "success", "failure", "killed"}]
    /\ outPipe \in [Workers -> Seq(Records)]
    /\ output \in [Workers -> Records \cup {None}]
    /\ opc \in [Workers -> {"read", "lock", "half", "done"}]
    /\ outMutex \subseteq Workers
    /\ out \in Seq(Records)
    /\ reaped \subseteq Workers
    /\ outcome \in {"running", "exit", "aborted", "sigpipe"}

\* Records are written whole: whatever the output threads do at the same time,
\* the two halves of a record follow each other, and no record is written twice.
RecordsWhole ==
    /\ \A i \in 1..Len(out) : i % 2 = 0 => out[i] = out[i - 1]
    /\ \A i, j \in 1..Len(out) : out[i] = out[j] => (i - 1) \div 2 = (j - 1) \div 2

\* No worker is told to stop while a record is still to come: when a poison is
\* in the queue or has been taken out, no record is behind it.
PoisonIsLast ==
    (Poison \in Range(queue) \/ (mpc # "launch" /\ inOpen # Workers)) =>
        /\ reading = {}
        /\ \A i \in 1..Len(queue) : queue[i] = Poison =>
            \A j \in i..Len(queue) : queue[j] = Poison
        /\ inOpen # Workers => Range(queue) \subseteq {Poison}

\* If the process exits normally, every record that was read has been written.
ExitMeansComplete == outcome = "exit" => Range(out) = 1..records

\* While no child has failed, every record that was read is on its way from the
\* reader to the output: it is in a thread's hands, in the queue, in a pipe, with
\* a child or written.
OnItsWay(x) ==
    \/ \E r \in Readers : hand[r] = x
    \/ \E w \in Workers :
          x \in {input[w], output[w]} \cup Range(inPipe[w]) \cup Range(held[w]) \cup Range(outPipe[w])
    \/ x \in Range(queue) \cup Range(out)
NothingLost ==
    (\A w \in Workers : child[w] \notin {"failure", "killed"}) => \A x \in 1..records : OnItsWay(x)

\* The pool at every moment: types, whole records in the output, poison behind
\* all records, no record lost while the children work, and no normal exit before
\* every record is written.
Safety == TypeOK /\ RecordsWhole /\ PoisonIsLast /\ NothingLost /\ ExitMeansComplete

\* The process ends, though the children see the end of their input only one
\* after the other, from the last launched to the first.
Terminates == <>(outcome # "running")

\* A child that fails takes the process down: the failure is never overlooked.
FailureIsFatal ==
    (\E w \in Workers : child[w] \in {"failure", "killed"}) ~> outcome \in {"aborted", "sigpipe"}
=============================================================================
