------------------------------- MODULE Cache -------------------------------
(***************************************************************************)
(* preprocess/cache_main.cc: a cache around a program that answers every   *)
(* line with one line.  The Input thread sends a line to the child if its  *)
(* key is new and, for every line, passes a pointer to the key's entry of  *)
(* the hash table to the Output thread, which prints the entry's value and *)
(* reads it from the child first if the entry has none.                    *)
(***************************************************************************)
EXTENDS CaptiveChild

CONSTANTS
    Keys,        \* keys of the input lines
    MaxLines,    \* bound: number of input lines
    MaxParts,    \* bound: parts of an input line
    FlushRate,   \* kFlushRate (4096 in the code)
    Poison       \* the null pointer in a QueueEntry

ASSUME CacheBoundsAssumption == MaxLines \in Nat /\ MaxParts \in Nat /\ FlushRate \in Nat \ {0}
ASSUME PoisonAssumption == Poison \notin Keys

VARIABLES
    inputs,      \* keys of the lines read from stdin so far
    entry,       \* for each key in the hash table the line sent for it, or 0
    value,       \* the value of the key's entry: the line answered, or 0
    sent,        \* number of lines sent
    flushCount,  \* flush_count
    ipc,         \* where Input is
    queue,       \* the queue of entries, an UnboundedSingleQueue
    opc,         \* where Output is
    printed,     \* what Output has printed: for each line the line answered
    outcome,     \* how the process ended
    status       \* exit status of the process

inputVars == <<inputs, entry, sent, flushCount, ipc>>
outputVars == <<value, opc, printed>>
endVars == <<outcome, status>>
vars == <<childSideVars, inputVars, queue, outputVars, endVars>>

Init ==
    /\ ChildInit
    /\ inputs = <<>>
    /\ entry = [k \in Keys |-> 0]
    /\ value = [k \in Keys |-> 0]
    /\ sent = 0
    /\ flushCount = FlushRate
    /\ ipc = "next"
    /\ queue = <<>>
    /\ opc = "consume"
    /\ printed = <<>>
    /\ outcome = "running" /\ status = 0

-----------------------------------------------------------------------------
(* Input.  Each step runs when the last write to the pipe is through. *)

\* A line is read and its key looked up; a new one is inserted and sent.
ReadInput(k, n) ==
    /\ ipc = "next" /\ toWrite = <<>>
    /\ Len(inputs) < MaxLines
    /\ inputs' = Append(inputs, k)
    /\ \/ /\ entry[k] # 0
          /\ ipc' = "produce"
          /\ UNCHANGED <<entry, sent, streamVars>>
       \/ /\ entry[k] = 0
          /\ entry' = [entry EXCEPT ![k] = sent + 1]
          /\ sent' = sent + 1
          /\ StreamWrite(Parts(sent + 1, n))
          /\ ipc' = "eol"
    /\ UNCHANGED <<flushCount, inPipe, inOpen, childVars, outPipe, readVars, queue, outputVars, endVars>>

\* Slip: new lines are not counted.
PutEolUncounted ==
    /\ ipc = "eol" /\ toWrite = <<>>
    /\ StreamPut(Eol(sent))
    /\ ipc' = "produce"
    /\ UNCHANGED <<inputs, entry, sent, flushCount, inPipe, inOpen, childVars, outPipe, readVars, queue,
                   outputVars, endVars>>

\* `<< '\n'`, and `if (!--flush_count)`.
PutEol ==
    /\ ipc = "eol" /\ toWrite = <<>>
    /\ StreamPut(Eol(sent))
    /\ flushCount' = flushCount - 1
    /\ ipc' = IF flushCount - 1 = 0 THEN "flush" ELSE "produce"
    /\ UNCHANGED <<inputs, entry, sent, inPipe, inOpen, childVars, outPipe, readVars, queue,
                   outputVars, endVars>>

FlushInput ==
    /\ ipc = "flush" /\ toWrite = <<>>
    /\ StreamFlush
    /\ flushCount' = FlushRate
    /\ ipc' = "produce"
    /\ UNCHANGED <<inputs, entry, sent, inPipe, inOpen, childVars, outPipe, readVars, queue,
                   outputVars, endVars>>

ProduceEntry ==
    /\ ipc = "produce" /\ toWrite = <<>>
    /\ queue' = Append(queue, inputs[Len(inputs)])
    /\ ipc' = "next"
    /\ UNCHANGED <<childSideVars, inputs, entry, sent, flushCount, outputVars, endVars>>

\* End of stdin: the FileStream's destructor flushes ...
InputEof ==
    /\ ipc = "next" /\ toWrite = <<>>
    /\ StreamFlush
    /\ ipc' = "close"
    /\ UNCHANGED <<inputs, entry, sent, flushCount, inPipe, inOpen, childVars, outPipe, readVars,
                   queue, outputVars, endVars>>

\* Slip: a copy of the descriptor stays open.
CloseInputKeepsCopy ==
    /\ ipc = "close" /\ toWrite = <<>>
    /\ ipc' = "poison"
    /\ UNCHANGED <<inputs, entry, sent, flushCount, childSideVars, queue, outputVars, endVars>>

\* ... and closes the child's stdin,
CloseInput ==
    /\ ipc = "close" /\ toWrite = <<>>
    /\ inOpen' = FALSE
    /\ ipc' = "poison"
    /\ UNCHANGED <<inputs, entry, sent, flushCount, streamVars, inPipe, childVars, outPipe, readVars,
                   queue, outputVars, endVars>>

\* and then the reader is told to stop.
PoisonQueue ==
    /\ ipc = "poison"
    /\ queue' = Append(queue, Poison)
    /\ ipc' = "done"
    /\ UNCHANGED <<childSideVars, inputs, entry, sent, flushCount, outputVars, endVars>>

PushInput ==
    /\ Push
    /\ UNCHANGED <<inputVars, queue, outputVars, endVars>>

\* The process dies of SIGPIPE.
InputBroken ==
    /\ BrokenPipe
    /\ outcome' = "sigpipe"
    /\ UNCHANGED <<childSideVars, inputVars, queue, outputVars, status>>

Input ==
    /\ outcome = "running"
    /\ \/ \E k \in Keys, n \in 0..MaxParts : ReadInput(k, n)
       \/ PutEol
       \/ FlushInput
       \/ ProduceEntry
       \/ InputEof
       \/ CloseInput
       \/ PoisonQueue
       \/ PushInput
       \/ InputBroken

-----------------------------------------------------------------------------
(* Output *)

\* An entry that has its value is printed at once.
PrintCached ==
    /\ opc = "consume"
    /\ queue # <<>> /\ Head(queue) # Poison
    /\ value[Head(queue)] # 0
    /\ printed' = Append(printed, value[Head(queue)])
    /\ queue' = Tail(queue)
    /\ UNCHANGED <<childSideVars, inputVars, value, opc, endVars>>

\* A new entry is filled from the child's next line; meanwhile it arrives ...
AwaitLine ==
    /\ opc = "consume"
    /\ queue # <<>> /\ Head(queue) # Poison
    /\ value[Head(queue)] = 0
    /\ ReadMore
    /\ UNCHANGED <<inputVars, queue, outputVars, endVars>>

\* Slip: the answer is printed and not kept in the entry.
PrintNewForgets ==
    /\ opc = "consume"
    /\ queue # <<>> /\ Head(queue) # Poison
    /\ value[Head(queue)] = 0
    /\ TakeLine
    /\ printed' = Append(printed, LineRead)
    /\ queue' = Tail(queue)
    /\ UNCHANGED <<streamVars, inPipe, inOpen, childVars, outPipe, inputVars, value, opc, endVars>>

\* ... and is stored and printed.
PrintNew ==
    /\ opc = "consume"
    /\ queue # <<>> /\ Head(queue) # Poison
    /\ value[Head(queue)] = 0
    /\ TakeLine
    /\ value' = [value EXCEPT ![Head(queue)] = LineRead]
    /\ printed' = Append(printed, LineRead)
    /\ queue' = Tail(queue)
    /\ UNCHANGED <<streamVars, inPipe, inOpen, childVars, outPipe, inputVars, opc, endVars>>

\* Slip: the end of the child's output is taken for the end of the work.
OutputThrowsSwallowed ==
    /\ opc = "consume"
    /\ queue # <<>> /\ Head(queue) # Poison
    /\ value[Head(queue)] = 0
    /\ NoLine
    /\ opc' = "done"
    /\ UNCHANGED <<childSideVars, inputVars, queue, value, printed, endVars>>

\* ReadLine throws, nobody catches: the process aborts.
OutputThrows ==
    /\ opc = "consume"
    /\ queue # <<>> /\ Head(queue) # Poison
    /\ value[Head(queue)] = 0
    /\ NoLine
    /\ outcome' = "aborted"
    /\ UNCHANGED <<childSideVars, inputVars, queue, outputVars, status>>

OutputDone ==
    /\ opc = "consume"
    /\ queue # <<>> /\ Head(queue) = Poison
    /\ queue' = Tail(queue)
    /\ opc' = "done"
    /\ UNCHANGED <<childSideVars, inputVars, value, printed, endVars>>

\* main joins Input, waits for the child and returns its status.
Return ==
    /\ opc = "done" /\ ipc = "done"
    /\ child # "running"
    /\ outcome' = "exit"
    /\ status' = WaitStatus
    /\ UNCHANGED <<childSideVars, inputVars, queue, outputVars>>

Output ==
    /\ outcome = "running"
    /\ PrintCached \/ AwaitLine \/ PrintNew \/ OutputThrows \/ OutputDone \/ Return

ChildStep ==
    /\ outcome = "running"
    /\ Child(opc = "done")
    /\ UNCHANGED <<inputVars, queue, outputVars, endVars>>

Next == Input \/ Output \/ ChildStep

Spec == Init /\ [][Next]_vars

(* Both threads run.  The child reads when it can, writes when it must, and  *)
(* exits at the end of its input; it need not do anything earlier.           *)
FairSpec ==
    /\ Spec
    /\ WF_vars(Input)
    /\ WF_vars(Output)
    /\ WF_vars(ChildStep /\ ChildRead)
    /\ WF_vars(ChildStep /\ ChildMustWrite(opc = "done"))
    /\ WF_vars(ChildStep /\ ChildSigpipe(opc = "done"))
    /\ WF_vars(ChildStep /\ ChildFinish)

-----------------------------------------------------------------------------
(* Properties *)

Tokens == [line : 0..MaxLines, eol : BOOLEAN]

\* Type invariant of the pipes, the child and the two threads.
TypeOK ==
    /\ buffer \in Seq(Tokens) /\ Len(buffer) <= StreamCap
    /\ toWrite \in Seq(Tokens)
    /\ inPipe \in Seq(Tokens) /\ Len(inPipe) <= PipeCap
    /\ outPipe \in Seq(Tokens) /\ Len(outPipe) <= PipeCap
    /\ held \in Seq(Tokens) /\ Len(held) <= ChildCap
    /\ partial \in Seq(Tokens) /\ cut \subseteq 0..MaxLines
    /\ inOpen \in BOOLEAN
    /\ child \in {"running", "success", "failure", "killed"}
    /\ faults \subseteq Faults
    /\ inputs \in Seq(Keys)
    /\ entry \in [Keys -> 0..MaxLines] /\ value \in [Keys -> 0..MaxLines]
    /\ sent \in 0..MaxLines
    /\ flushCount \in 0..FlushRate
    /\ ipc \in {"next", "eol", "flush", "produce", "close", "poison", "done"}
    /\ queue \in Seq(Keys \cup {Poison})
    /\ opc \in {"consume", "done"}
    /\ printed \in Seq(0..MaxLines)
    /\ outcome \in {"running", "exit", "aborted", "sigpipe"}
    /\ status \in 0..255

\* Every line is answered with the child's answer to the first line that has
\* its key: the queue of entries and the child's answers stay in step.
AnswersMatch ==
    \A i \in 1..Len(printed) : printed[i] = entry[inputs[i]]

\* An exit status of zero means that an answer was printed for every input
\* line, even if the child stopped early or was killed; at most the last line
\* sent may have been answered in part, and only if the child stopped.
ZeroMeansComplete ==
    /\ outcome = "exit" /\ status = 0 =>
        Len(printed) = Len(inputs) /\ ipc = "done" /\ cut \subseteq {sent}
    /\ CutIsLast

\* "Guarantee we flush to process every so often": between two input lines
\* fewer than flush_rate new lines are kept from the child.
FlushedInTime ==
    ipc \in {"next", "produce"} =>
        Cardinality({i \in 1..Len(buffer) : buffer[i].eol}) < FlushRate

\* The pipes and threads at every moment: types, answers that belong to the
\* key of their line, no more new lines in the stream's buffer than flush_rate
\* allows, no status of zero while a line is unanswered, and no answer read
\* in part but the last one of a child that stopped.
Safety == TypeOK /\ AnswersMatch /\ FlushedInTime /\ ZeroMeansComplete

\* The process ends: Input, the child and Output never wait for each other in
\* a circle, whatever the child keeps in its buffers.
Terminates == <>(outcome # "running")
=============================================================================
