---------------------------- MODULE CaptiveChild ----------------------------
(***************************************************************************)
(* What cache, b64filter and foldfilter share: a feeder thread writes      *)
(* lines through a util::FileStream into a pipe, a child process reads     *)
(* them and writes answers to a second pipe, and a reader thread reads the *)
(* answers with a util::FilePiece.                                         *)
(*                                                                         *)
(* A line is a sequence of parts (stretches of its bytes) and an end of    *)
(* line; a pipe, a buffer and the child hold a limited number of these     *)
(* tokens.  Lines are numbered in the order in which they are sent.        *)
(***************************************************************************)
EXTENDS Integers, Sequences, FiniteSets

CONSTANTS
    StreamCap,     \* tokens in the buffer of the FileStream
    PipeCap,       \* tokens in a pipe
    ChildCap,      \* tokens the child holds before it must write
    ChildStreams,  \* whether the child answers a line before it has all of it
    Faults         \* what the child may do wrong: "drop", "extra", "exit", "kill"

ASSUME CapacityAssumption == {StreamCap, PipeCap, ChildCap} \subseteq Nat \ {0}
ASSUME FaultsAssumption == ChildStreams \in BOOLEAN /\ Faults \subseteq {"drop", "extra", "exit", "kill"}

VARIABLES
    buffer,     \* what the FileStream has not written yet
    toWrite,    \* what a write() to the pipe under way has left
    inPipe,     \* pipe to the child
    inOpen,     \* whether the feeder's end of it is open
    held,       \* tokens the child has read and not answered
    outPipe,    \* pipe from the child
    child,      \* state of the child process
    faults,     \* what the child did wrong so far
    partial,    \* tokens of the line that the reader is reading
    cut         \* history: lines whose answer was read without its end

streamVars == <<buffer, toWrite>>
childVars == <<held, child, faults>>
readVars == <<partial, cut>>
childSideVars == <<streamVars, inPipe, inOpen, childVars, outPipe, readVars>>

Part(line) == [line |-> line, eol |-> FALSE]
Eol(line) == [line |-> line, eol |-> TRUE]
Parts(line, n) == [i \in 1..n |-> Part(line)]

\* Launch has succeeded: the child runs and both pipes are empty.
ChildInit ==
    /\ buffer = <<>> /\ toWrite = <<>>
    /\ inPipe = <<>> /\ inOpen = TRUE
    /\ held = <<>>
    /\ outPipe = <<>>
    /\ child = "running"
    /\ faults = {}
    /\ partial = <<>> /\ cut = {}

-----------------------------------------------------------------------------
(* FileStream, as the feeder uses it between two writes to the pipe *)

Room(n) == Len(buffer) + n <= StreamCap

\* write(): what does not fit is written after the buffer, around it if it is
\* larger than the buffer.
StreamWrite(tokens) ==
    \/ /\ Room(Len(tokens))
       /\ buffer' = buffer \o tokens
       /\ UNCHANGED toWrite
    \/ /\ ~Room(Len(tokens))
       /\ Len(tokens) <= StreamCap
       /\ toWrite' = buffer
       /\ buffer' = tokens
    \/ /\ ~Room(Len(tokens))
       /\ Len(tokens) > StreamCap
       /\ toWrite' = buffer \o tokens
       /\ buffer' = <<>>

\* put(), which always leaves its character in the buffer.
StreamPut(token) ==
    \/ /\ Room(1)
       /\ buffer' = Append(buffer, token)
       /\ UNCHANGED toWrite
    \/ /\ ~Room(1)
       /\ toWrite' = buffer
       /\ buffer' = <<token>>

StreamFlush ==
    /\ toWrite' = buffer
    /\ buffer' = <<>>

\* A write() to the pipe goes on as far as there is room.
Push ==
    /\ toWrite # <<>>
    /\ child = "running"
    /\ Len(inPipe) < PipeCap
    /\ inPipe' = Append(inPipe, Head(toWrite))
    /\ toWrite' = Tail(toWrite)
    /\ UNCHANGED <<buffer, inOpen, childVars, outPipe, readVars>>

\* Writing to a pipe that nobody reads raises SIGPIPE.
BrokenPipe == toWrite # <<>> /\ child # "running"

-----------------------------------------------------------------------------
(* The child: some program that answers one line with one line *)

ChildRead ==
    /\ child = "running"
    /\ inPipe # <<>>
    /\ Len(held) < ChildCap
    /\ held' = Append(held, Head(inPipe))
    /\ inPipe' = Tail(inPipe)
    /\ UNCHANGED <<streamVars, inOpen, child, faults, outPipe, readVars>>

\* The oldest token held can be answered.
Answerable ==
    /\ held # <<>>
    /\ ChildStreams \/ \E i \in 1..Len(held) : held[i] = Eol(Head(held).line)

\* The operators from here on are told whether the reader has closed its end of
\* the pipe, as it does when its FilePiece goes out of scope.
ChildWrite(closed) ==
    /\ ~closed
    /\ child = "running"
    /\ Answerable
    /\ Len(outPipe) < PipeCap
    /\ outPipe' = Append(outPipe, Head(held))
    /\ held' = Tail(held)
    /\ UNCHANGED <<streamVars, inPipe, inOpen, child, faults, readVars>>

\* The child may keep its answers back until its buffer is full or its input
\* has ended; then it writes.
ChildMustWrite(closed) ==
    /\ Len(held) = ChildCap \/ (inPipe = <<>> /\ ~inOpen)
    /\ ChildWrite(closed)

\* Nobody reads the answers any more.
ChildSigpipe(closed) ==
    /\ closed
    /\ child = "running"
    /\ Answerable
    /\ child' = "killed"
    /\ held' = <<>>
    /\ inPipe' = <<>>
    /\ UNCHANGED <<streamVars, inOpen, faults, outPipe, readVars>>

\* At the end of its input the child exits, having answered everything.
ChildFinish ==
    /\ child = "running"
    /\ inPipe = <<>> /\ ~inOpen
    /\ held = <<>>
    /\ child' = "success"
    /\ UNCHANGED <<streamVars, inPipe, inOpen, held, faults, outPipe, readVars>>

\* Faults: an answer is left out, an answer nobody asked for is written, or the
\* child exits too early or dies of a signal.
ChildDrop ==
    /\ "drop" \in Faults \ faults
    /\ child = "running"
    /\ Answerable /\ Head(held).eol
    /\ held' = Tail(held)
    /\ faults' = faults \cup {"drop"}
    /\ UNCHANGED <<streamVars, inPipe, inOpen, child, outPipe, readVars>>

ChildExtra(closed) ==
    /\ ~closed
    /\ "extra" \in Faults \ faults
    /\ child = "running"
    /\ Len(outPipe) < PipeCap
    /\ outPipe' = Append(outPipe, Eol(0))
    /\ faults' = faults \cup {"extra"}
    /\ UNCHANGED <<streamVars, inPipe, inOpen, held, child, readVars>>

ChildFails ==
    /\ child = "running"
    /\ \/ "exit" \in Faults /\ child' \in {"success", "failure"} /\ faults' = faults \cup {"exit"}
       \/ "kill" \in Faults /\ child' = "killed" /\ faults' = faults \cup {"kill"}
    /\ inPipe' = <<>>
    /\ held' = <<>>
    /\ UNCHANGED <<streamVars, inOpen, outPipe, readVars>>

Child(closed) ==
    \/ ChildRead \/ ChildWrite(closed) \/ ChildSigpipe(closed) \/ ChildFinish
    \/ ChildDrop \/ ChildExtra(closed) \/ ChildFails

-----------------------------------------------------------------------------
(* FilePiece, as the reader uses it *)

\* Bytes arrive while ReadLine looks for the end of the line.
ReadMore ==
    /\ outPipe # <<>>
    /\ partial # <<>> => ~partial[Len(partial)].eol
    /\ partial' = Append(partial, Head(outPipe))
    /\ outPipe' = Tail(outPipe)
    /\ UNCHANGED <<streamVars, inPipe, inOpen, childVars, cut>>

AtEof == child # "running" /\ outPipe = <<>>

\* Slip: ReadLine returns what there is of a line.
LineReadyEarly == partial # <<>>

\* ReadLine can return: the line is complete, or it is the unfinished last one.
LineReady ==
    /\ partial # <<>>
    /\ partial[Len(partial)].eol \/ AtEof

\* ReadLine throws EndOfFileException.
NoLine == partial = <<>> /\ AtEof

\* The line that ReadLine returns, known by the line the child answered.
LineRead == partial[Len(partial)].line

\* ReadLine returns it.  That an unfinished line, of which any part may be
\* missing, is none the child has finished, its caller cannot tell.
TakeLine ==
    /\ LineReady
    /\ partial' = <<>>
    /\ cut' = IF partial[Len(partial)].eol THEN cut ELSE cut \cup {LineRead}

\* Wait(child): the status that main returns.  256, for a child that was
\* killed, does not fit in the eight bits of an exit status.
WaitStatus ==
    CASE child = "success" -> 0
      [] child = "failure" -> 1
      [] child = "killed" -> 256 % 256

-----------------------------------------------------------------------------
(* What holds of the answers *)

\* Faults after which the child's output may end within an answer.
Stopping == {"drop", "exit", "kill"}

\* An answer that was read without its end is the last one there is, and only
\* a child that stopped, or left something out, has given such an answer.
CutIsLast == cut # {} => NoLine /\ faults \cap Stopping # {}
=============================================================================
