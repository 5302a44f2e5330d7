----------------------------- MODULE FoldFilter -----------------------------
(***************************************************************************)
(* preprocess/foldfilter_main.cc: a sentence is folded into one or more    *)
(* lines, the child answers the lines, and the answers are joined again.   *)
(* For each sentence the feeder first passes the list of delimiters to the *)
(* reader, which says how many lines belong to it, and then sends the      *)
(* lines to the child.  An empty list tells the reader to stop.            *)
(*                                                                         *)
(* How a sentence is folded is the subject of another module; here a       *)
(* sentence is the number of its lines, and a line the number of its parts.*)
(***************************************************************************)
EXTENDS CaptiveChild

CONSTANTS
    MaxSentences,   \* bound: number of sentences
    MaxFolds,       \* bound: lines of a sentence
    MaxParts        \* bound: parts of a line

ASSUME FoldBoundsAssumption ==
    {MaxSentences, MaxFolds, MaxParts} \subseteq Nat /\ MaxFolds > 0

VARIABLES
    sentences,   \* the lines of each sentence read: <<first, last>> of their numbers
    sent,        \* number of lines sent
    fpc,         \* where the feeder is
    toSend,      \* lines of the sentence that were not sent yet
    queue,       \* number of delimiters of each sentence under way
    rpc,         \* where the reader is
    expected,    \* lines the reader still needs for its sentence
    sentence,    \* answers of the sentence so far
    printed,     \* sentences printed
    outcome,     \* how the process ended
    status       \* exit status of the process

feederVars == <<sentences, sent, fpc, toSend>>
readerVars == <<rpc, expected, sentence, printed>>
endVars == <<outcome, status>>
vars == <<childSideVars, feederVars, queue, readerVars, endVars>>

Init ==
    /\ ChildInit
    /\ sentences = <<>> /\ sent = 0 /\ fpc = "next" /\ toSend = 0
    /\ queue = <<>>
    /\ rpc = "consume" /\ expected = 0 /\ sentence = <<>> /\ printed = <<>>
    /\ outcome = "running" /\ status = 0

-----------------------------------------------------------------------------
(* The feeder.  Each step runs when the last write to the pipe is through. *)

\* A sentence is read and folded into n lines, and their delimiters produced.
ReadSentence(n) ==
    /\ fpc = "next" /\ toWrite = <<>>
    /\ Len(sentences) < MaxSentences
    /\ sentences' = Append(sentences, <<sent + 1, sent + n>>)
    /\ queue' = Append(queue, n)
    /\ toSend' = n
    /\ fpc' = "line"
    /\ UNCHANGED <<childSideVars, sent, readerVars, endVars>>

\* `child_in << line`
SendLine(n) ==
    /\ fpc = "line" /\ toWrite = <<>>
    /\ StreamWrite(Parts(sent + 1, n))
    /\ sent' = sent + 1
    /\ toSend' = toSend - 1
    /\ fpc' = "eol"
    /\ UNCHANGED <<sentences, inPipe, inOpen, childVars, outPipe, readVars, queue, readerVars, endVars>>

\* Slip: the stream is flushed with every line.
SendEolFlushes ==
    /\ fpc = "eol" /\ toWrite = <<>>
    /\ toWrite' = Append(buffer, Eol(sent))
    /\ buffer' = <<>>
    /\ fpc' = IF toSend = 0 THEN "next" ELSE "line"
    /\ UNCHANGED <<sentences, sent, toSend, inPipe, inOpen, childVars, outPipe, readVars, queue,
                   readerVars, endVars>>

\* `<< '\n'`
SendEol ==
    /\ fpc = "eol" /\ toWrite = <<>>
    /\ StreamPut(Eol(sent))
    /\ fpc' = IF toSend = 0 THEN "next" ELSE "line"
    /\ UNCHANGED <<sentences, sent, toSend, inPipe, inOpen, childVars, outPipe, readVars, queue,
                   readerVars, endVars>>

\* Slip: the reader is not told to stop.
FeederEofUntold ==
    /\ fpc = "next" /\ toWrite = <<>>
    /\ fpc' = "flush"
    /\ UNCHANGED <<childSideVars, sentences, sent, toSend, queue, readerVars, endVars>>

\* End of stdin: the empty list is produced before the stream is flushed,
FeederEof ==
    /\ fpc = "next" /\ toWrite = <<>>
    /\ queue' = Append(queue, 0)
    /\ fpc' = "flush"
    /\ UNCHANGED <<childSideVars, sentences, sent, toSend, readerVars, endVars>>

FeederFlush ==
    /\ fpc = "flush" /\ toWrite = <<>>
    /\ StreamFlush
    /\ fpc' = "close"
    /\ UNCHANGED <<sentences, sent, toSend, inPipe, inOpen, childVars, outPipe, readVars, queue,
                   readerVars, endVars>>

\* and the child's stdin is closed by the destructor of the stream.
FeederClose ==
    /\ fpc = "close" /\ toWrite = <<>>
    /\ inOpen' = FALSE
    /\ fpc' = "done"
    /\ UNCHANGED <<sentences, sent, toSend, streamVars, inPipe, childVars, outPipe, readVars, queue,
                   readerVars, endVars>>

FeederPush ==
    /\ Push
    /\ UNCHANGED <<feederVars, queue, readerVars, endVars>>

\* The process dies of SIGPIPE.
FeederBroken ==
    /\ BrokenPipe
    /\ outcome' = "sigpipe"
    /\ UNCHANGED <<childSideVars, feederVars, queue, readerVars, status>>

Feeder ==
    /\ outcome = "running"
    /\ \/ \E n \in 1..MaxFolds : ReadSentence(n)
       \/ \E n \in 0..MaxParts : SendLine(n)
       \/ SendEol
       \/ FeederEof
       \/ FeederFlush
       \/ FeederClose
       \/ FeederPush
       \/ FeederBroken

-----------------------------------------------------------------------------
(* The reader *)

\* An exception that leaves a thread ends the process.
Abort ==
    /\ outcome' = "aborted"
    /\ UNCHANGED <<childSideVars, feederVars, queue, readerVars, status>>

ConsumeList ==
    /\ rpc = "consume"
    /\ queue # <<>>
    /\ expected' = Head(queue)
    /\ sentence' = <<>>
    /\ queue' = Tail(queue)
    /\ rpc' = IF Head(queue) = 0 THEN "done" ELSE "reading"
    /\ UNCHANGED <<childSideVars, feederVars, printed, endVars>>

\* ReadLine waits for the end of a line, or peek for a byte.
ReaderReads ==
    /\ rpc = "reading" \/ (rpc = "peek" /\ partial = <<>>)
    /\ ReadMore
    /\ UNCHANGED <<feederVars, queue, readerVars, endVars>>

\* Slip: the last line of a sentence is not waited for.
AppendLineEarly ==
    /\ rpc = "reading"
    /\ TakeLine
    /\ expected' = expected - 1
    /\ sentence' = Append(sentence, LineRead)
    /\ \/ /\ expected > 2
          /\ UNCHANGED <<rpc, printed>>
       \/ /\ expected <= 2
          /\ printed' = Append(printed, Append(sentence, LineRead))
          /\ rpc' = "check"
    /\ UNCHANGED <<streamVars, inPipe, inOpen, childVars, outPipe, feederVars, queue, endVars>>

\* A line is appended; the last one completes the sentence, which is printed.
AppendLine ==
    /\ rpc = "reading"
    /\ TakeLine
    /\ expected' = expected - 1
    /\ sentence' = Append(sentence, LineRead)
    /\ \/ /\ expected > 1
          /\ UNCHANGED <<rpc, printed>>
       \/ /\ expected = 1
          /\ printed' = Append(printed, Append(sentence, LineRead))
          /\ rpc' = "check"
    /\ UNCHANGED <<streamVars, inPipe, inOpen, childVars, outPipe, feederVars, queue, endVars>>

\* Slip: the end of the child's output ends the loop.
ReaderEofSwallowed ==
    /\ rpc = "reading"
    /\ NoLine
    /\ rpc' = "done"
    /\ UNCHANGED <<childSideVars, feederVars, queue, expected, sentence, printed, endVars>>

\* "Sub-process stopped producing while expecting more lines"
ReaderEof ==
    /\ rpc = "reading"
    /\ NoLine
    /\ Abort

\* `if (queue.Empty())`: has the reader caught up with the feeder?
CheckEmpty ==
    /\ rpc = "check"
    /\ rpc' = IF queue = <<>> THEN "peek" ELSE "consume"
    /\ UNCHANGED <<childSideVars, feederVars, queue, expected, sentence, printed, endVars>>

\* peek() returns and the queue is looked at again.
PeekReturns ==
    /\ rpc = "peek"
    /\ partial # <<>>
    /\ \/ /\ queue = <<>>
          /\ Abort
       \/ /\ queue # <<>>
          /\ rpc' = "consume"
          /\ UNCHANGED <<childSideVars, feederVars, queue, expected, sentence, printed, endVars>>

\* peek() throws at the end of the child's output.
PeekEof ==
    /\ rpc = "peek"
    /\ NoLine
    /\ Abort

\* main waits for the child, joins both threads and returns the status.
Return ==
    /\ child # "running"
    /\ fpc = "done" /\ rpc = "done"
    /\ outcome' = "exit"
    /\ status' = WaitStatus
    /\ UNCHANGED <<childSideVars, feederVars, queue, readerVars>>

Reader ==
    /\ outcome = "running"
    /\ \/ ConsumeList
       \/ ReaderReads
       \/ AppendLine
       \/ ReaderEof
       \/ CheckEmpty
       \/ PeekReturns
       \/ PeekEof
       \/ Return

ChildStep ==
    /\ outcome = "running"
    /\ Child(rpc = "done")
    /\ UNCHANGED <<feederVars, queue, readerVars, endVars>>

Next == Feeder \/ Reader \/ ChildStep

Spec == Init /\ [][Next]_vars

(* Both threads run.  The child reads when it can, writes when it must, and  *)
(* exits at the end of its input; it need not do anything earlier.           *)
FairSpec ==
    /\ Spec
    /\ WF_vars(Feeder)
    /\ WF_vars(Reader)
    /\ WF_vars(ChildStep /\ ChildRead)
    /\ WF_vars(ChildStep /\ ChildMustWrite(rpc = "done"))
    /\ WF_vars(ChildStep /\ ChildSigpipe(rpc = "done"))
    /\ WF_vars(ChildStep /\ ChildFinish)

-----------------------------------------------------------------------------
(* Properties *)

Lines == 0..(MaxSentences * MaxFolds)
Tokens == [line : Lines, eol : BOOLEAN]

\* Type invariant of the pipes, the child and the two threads.
TypeOK ==
    /\ buffer \in Seq(Tokens) /\ Len(buffer) <= StreamCap
    /\ toWrite \in Seq(Tokens)
    /\ inPipe \in Seq(Tokens) /\ Len(inPipe) <= PipeCap
    /\ outPipe \in Seq(Tokens) /\ Len(outPipe) <= PipeCap
    /\ held \in Seq(Tokens) /\ Len(held) <= ChildCap
    /\ partial \in Seq(Tokens) /\ cut \subseteq Lines
    /\ inOpen \in BOOLEAN
    /\ child \in {"running", "success", "failure", "killed"}
    /\ faults \subseteq Faults
    /\ sentences \in Seq(Lines \X Lines)
    /\ sent \in Lines
    /\ fpc \in {"next", "line", "eol", "flush", "close", "done"}
    /\ toSend \in 0..MaxFolds
    /\ queue \in Seq(0..MaxFolds)
    /\ rpc \in {"consume", "reading", "check", "peek", "done"}
    /\ expected \in 0..MaxFolds
    /\ sentence \in Seq(Lines)
    /\ printed \in Seq(Seq(Lines))
    /\ outcome \in {"running", "exit", "aborted", "sigpipe"}
    /\ status \in 0..255

\* The answers that belong to the i-th sentence.
AnswersOf(i) == [j \in 1..(sentences[i][2] - sentences[i][1] + 1) |-> sentences[i][1] + j - 1]

\* As long as the child answers line by line, every sentence printed is made
\* of the answers to its own lines, in order.
SentencesMatch ==
    faults \cap {"drop", "extra"} = {} =>
        \A i \in 1..Len(printed) : printed[i] = AnswersOf(i)

\* A child that leaves out an answer, stops early or is killed: if the process
\* exits with zero all the same, then every sentence was printed, with its own
\* answers; at most the last line of all may have been answered in part, and
\* only if the child stopped.
ZeroMeansComplete ==
    /\ outcome = "exit" /\ status = 0 /\ "extra" \notin faults =>
        /\ Len(printed) = Len(sentences)
        /\ \A i \in 1..Len(printed) : printed[i] = AnswersOf(i)
        /\ cut \subseteq {sent}
    /\ CutIsLast

\* The check for output without input (Empty() and peek()) never accuses a
\* child that does nothing wrong, however the threads interleave.  It rests on
\* the last end of line staying in the stream's buffer until the next list,
\* or the empty one, is in the queue.
NoSpuriousError == faults = {} => outcome \in {"running", "exit"}

\* The verdict on the child is right in both directions: a status of zero means
\* that all sentences were printed as they should be, and a child that does nothing
\* wrong is not reported.
VerdictRight == ZeroMeansComplete /\ NoSpuriousError

\* The pipes and threads at every moment: types, sentences that are put together
\* from their own lines, and the right verdict on the child in the end.
Safety == TypeOK /\ SentencesMatch /\ VerdictRight

\* "The program's exit code is that of the wrapped command" (README.md:184), so
\* that it is zero only if the child has succeeded.
StatusOfChild == outcome = "exit" /\ status = 0 => child = "success"

\* The process ends, also with lines that are longer than all the buffers.
Terminates == <>(outcome # "running")
=============================================================================
