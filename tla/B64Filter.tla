----------------------------- MODULE B64Filter -----------------------------
(***************************************************************************)
(* preprocess/b64filter_main.cc: documents, one per input line, are sent   *)
(* to the child line by line, and the child's answers are put together to  *)
(* documents again.  The feeder first tells the reader how many lines a    *)
(* document has and whether it ended in a newline; a document of no lines  *)
(* tells the reader to stop, so a newline is added to every document that  *)
(* does not end in one.                                                    *)
(*                                                                         *)
(* A document is the number of its complete lines and whether bytes follow *)
(* after the last newline; base64 is the subject of another module.        *)
(***************************************************************************)
EXTENDS CaptiveChild

CONSTANTS
    MaxDocuments,   \* bound: number of documents
    MaxDocLines,    \* bound: complete lines of a document
    MaxParts,       \* bound: parts of a line
    BackOfEmpty     \* what doc.back() == '\n' may give for an empty document

ASSUME DocBoundsAssumption == {MaxDocuments, MaxDocLines, MaxParts} \subseteq Nat
ASSUME BackAssumption == BackOfEmpty \subseteq BOOLEAN /\ BackOfEmpty # {}

VARIABLES
    documents,   \* of each document read: its lines' numbers, how it ended
    sent,        \* number of lines sent
    fpc,         \* where the feeder is
    content,     \* the decoded document that is to be sent
    queue,       \* line_cnt_queue
    rpc,         \* where the reader is
    document,    \* the description of the document the reader is at
    doc,         \* its answers so far
    printed,     \* documents printed
    outcome,     \* how the process ended
    status       \* exit status of the process

feederVars == <<documents, sent, fpc, content>>
readerVars == <<rpc, document, doc, printed>>
endVars == <<outcome, status>>
vars == <<childSideVars, feederVars, queue, readerVars, endVars>>

Description == [line_cnt : 0..(MaxDocLines + 1), has_trailing_newline : BOOLEAN]
Stop == [line_cnt |-> 0, has_trailing_newline |-> FALSE]

Init ==
    /\ ChildInit
    /\ documents = <<>> /\ sent = 0 /\ fpc = "next" /\ content = <<>>
    /\ queue = <<>>
    /\ rpc = "consume" /\ document = Stop /\ doc = <<>> /\ printed = <<>>
    /\ outcome = "running" /\ status = 0

-----------------------------------------------------------------------------
(* The feeder.  Each step runs when the last write to the pipe is through. *)

\* Slip: a document without a newline is taken for one that ends in a newline.
HasTrailingNewlineIfEmpty(n, rest, back) == ~rest

\* doc.back() == '\n' for a document of n complete lines and perhaps a rest.
\* For an empty one back() is not defined, and any member of BackOfEmpty may
\* be the answer: with the strings of libstdc++ the byte in front of the data
\* is the highest one of a length, never a newline, which makes it {FALSE}.
HasTrailingNewline(n, rest, back) == IF n = 0 /\ ~rest THEN back ELSE ~rest

\* The lines sent for the document, a last newline being added if needed.
LineCount(n, rest, back) == IF HasTrailingNewline(n, rest, back) THEN n ELSE n + 1

\* The tokens of n lines with p parts each.
DocTokens(n, p) ==
    [i \in 1..(n * (p + 1)) |->
        LET line == sent + 1 + (i - 1) \div (p + 1)
        IN  IF i % (p + 1) = 0 THEN Eol(line) ELSE Part(line)]

\* A document is decoded and its description produced.
ReadDocument(n, rest, p, back) ==
    /\ fpc = "next" /\ toWrite = <<>>
    /\ Len(documents) < MaxDocuments
    /\ documents' = Append(documents,
            [first |-> sent + 1, cnt |-> IF rest \/ n = 0 THEN n + 1 ELSE n, newline |-> n > 0 /\ ~rest])
    /\ queue' = Append(queue, [line_cnt |-> LineCount(n, rest, back),
                               has_trailing_newline |-> HasTrailingNewline(n, rest, back)])
    /\ content' = DocTokens(LineCount(n, rest, back), p)
    /\ sent' = sent + LineCount(n, rest, back)
    /\ fpc' = "send"
    /\ UNCHANGED <<childSideVars, readerVars, endVars>>

\* `child_in << doc`
SendDocument ==
    /\ fpc = "send" /\ toWrite = <<>>
    /\ StreamWrite(content)
    /\ content' = <<>>
    /\ fpc' = "next"
    /\ UNCHANGED <<documents, sent, inPipe, inOpen, childVars, outPipe, readVars, queue, readerVars, endVars>>

\* Slip: the reader is not told to stop.
FeederEofUntold ==
    /\ fpc = "next" /\ toWrite = <<>>
    /\ fpc' = "flush"
    /\ UNCHANGED <<childSideVars, documents, sent, content, queue, readerVars, endVars>>

\* End of stdin: the reader is told to stop, then the stream is flushed
FeederEof ==
    /\ fpc = "next" /\ toWrite = <<>>
    /\ queue' = Append(queue, Stop)
    /\ fpc' = "flush"
    /\ UNCHANGED <<childSideVars, documents, sent, content, readerVars, endVars>>

FeederFlush ==
    /\ fpc = "flush" /\ toWrite = <<>>
    /\ StreamFlush
    /\ fpc' = "close"
    /\ UNCHANGED <<documents, sent, content, inPipe, inOpen, childVars, outPipe, readVars, queue,
                   readerVars, endVars>>

\* and the child's stdin is closed by the destructor of the stream.
FeederClose ==
    /\ fpc = "close" /\ toWrite = <<>>
    /\ inOpen' = FALSE
    /\ fpc' = "done"
    /\ UNCHANGED <<documents, sent, content, streamVars, inPipe, childVars, outPipe, readVars, queue,
                   readerVars, endVars>>

FeederPush ==
    /\ Push
    /\ UNCHANGED <<feederVars, queue, readerVars, endVars>>

\* The process dies of SIGPIPE.
FeederBroken ==
    /\ BrokenPipe
    /\ outcome' = "sigpipe"
    /\ UNCHANGED <<childSideVars, feederVars, queue, readerVars, status>>

Feeder ==
    /\ outcome = "running"
    /\ \/ \E n \in 0..MaxDocLines, rest \in BOOLEAN, p \in 0..MaxParts, back \in BackOfEmpty :
            ReadDocument(n, rest, p, back)
       \/ SendDocument
       \/ FeederEof
       \/ FeederFlush
       \/ FeederClose
       \/ FeederPush
       \/ FeederBroken

-----------------------------------------------------------------------------
(* The reader *)

\* An exception that leaves a thread ends the process.
Abort ==
    /\ outcome' = "aborted"
    /\ UNCHANGED <<childSideVars, feederVars, queue, readerVars, status>>

ConsumeDescription ==
    /\ rpc = "consume"
    /\ queue # <<>>
    /\ document' = Head(queue)
    /\ doc' = <<>>
    /\ queue' = Tail(queue)
    /\ rpc' = IF Head(queue).line_cnt > 0 THEN "reading" ELSE "final"
    /\ UNCHANGED <<childSideVars, feederVars, printed, endVars>>

\* ReadLine waits for the end of a line, the last peek for a byte.
ReaderReads ==
    /\ rpc = "reading" \/ (rpc = "final" /\ partial = <<>>)
    /\ ReadMore
    /\ UNCHANGED <<feederVars, queue, readerVars, endVars>>

\* Slip: the newline is given back whenever there was a line to read.
AppendLineWithNewline ==
    /\ rpc = "reading"
    /\ TakeLine
    /\ document' = [document EXCEPT !.line_cnt = @ - 1]
    /\ doc' = Append(doc, LineRead)
    /\ \/ /\ document.line_cnt > 1
          /\ UNCHANGED <<rpc, printed>>
       \/ /\ document.line_cnt = 1
          /\ printed' = Append(printed, [answers |-> doc', newline |-> TRUE])
          /\ rpc' = "consume"
    /\ UNCHANGED <<streamVars, inPipe, inOpen, childVars, outPipe, feederVars, queue, endVars>>

\* A line is appended; newlines are put between lines, and after the last one
\* if the document had one there.  The complete document is encoded and printed.
AppendLine ==
    /\ rpc = "reading"
    /\ TakeLine
    /\ document' = [document EXCEPT !.line_cnt = @ - 1]
    /\ doc' = Append(doc, LineRead)
    /\ \/ /\ document.line_cnt > 1
          /\ UNCHANGED <<rpc, printed>>
       \/ /\ document.line_cnt = 1
          /\ printed' = Append(printed, [answers |-> doc', newline |-> document.has_trailing_newline])
          /\ rpc' = "consume"
    /\ UNCHANGED <<streamVars, inPipe, inOpen, childVars, outPipe, feederVars, queue, endVars>>

\* "Sub-process stopped producing while expecting more lines"
ReaderEof ==
    /\ rpc = "reading"
    /\ NoLine
    /\ Abort

\* Slip: the rest of the child's output is ignored.
FinalPeekIgnored ==
    /\ rpc = "final"
    /\ rpc' = "done"
    /\ UNCHANGED <<childSideVars, feederVars, queue, document, doc, printed, endVars>>

\* The last peek() has to throw at the end of the file; if it returns, the
\* "sub-process is producing more output than it was given input".
FinalPeek ==
    /\ rpc = "final"
    /\ \/ /\ partial # <<>>
          /\ Abort
       \/ /\ NoLine
          /\ rpc' = "done"
          /\ UNCHANGED <<childSideVars, feederVars, queue, document, doc, printed, endVars>>

\* main waits for the child, joins both threads and returns the status.
Return ==
    /\ child # "running"
    /\ fpc = "done" /\ rpc = "done"
    /\ outcome' = "exit"
    /\ status' = WaitStatus
    /\ UNCHANGED <<childSideVars, feederVars, queue, readerVars>>

Reader ==
    /\ outcome = "running"
    /\ \/ ConsumeDescription
       \/ ReaderReads
       \/ AppendLine
       \/ ReaderEof
       \/ FinalPeek
       \/ Return

ChildStep ==
    /\ outcome = "running"
    /\ Child(rpc = "done")
    /\ UNCHANGED <<feederVars, queue, readerVars, endVars>>

Next == Feeder \/ Reader \/ ChildStep

Spec == Init /\ [][Next]_vars

(* Both threads run.  The child reads when it can, writes when it must, and  *)
(* exits at the end of its input; it need not do anything earlier.           *)
FairSpec ==
    /\ Spec
    /\ WF_vars(Feeder)
    /\ WF_vars(Reader)
    /\ WF_vars(ChildStep /\ ChildRead)
    /\ WF_vars(ChildStep /\ ChildMustWrite(rpc = "done"))
    /\ WF_vars(ChildStep /\ ChildSigpipe(rpc = "done"))
    /\ WF_vars(ChildStep /\ ChildFinish)

-----------------------------------------------------------------------------
(* Properties *)

Lines == 0..(MaxDocuments * (MaxDocLines + 1))
Tokens == [line : Lines, eol : BOOLEAN]

\* Type invariant of the pipes, the child and the two threads.
TypeOK ==
    /\ buffer \in Seq(Tokens) /\ Len(buffer) <= StreamCap
    /\ toWrite \in Seq(Tokens)
    /\ inPipe \in Seq(Tokens) /\ Len(inPipe) <= PipeCap
    /\ outPipe \in Seq(Tokens) /\ Len(outPipe) <= PipeCap
    /\ held \in Seq(Tokens) /\ Len(held) <= ChildCap
    /\ partial \in Seq(Tokens) /\ cut \subseteq Lines
    /\ inOpen \in BOOLEAN
    /\ child \in {"running", "success", "failure", "killed"}
    /\ faults \subseteq Faults
    /\ documents \in Seq([first : Lines, cnt : 1..(MaxDocLines + 1), newline : BOOLEAN])
    /\ sent \in Lines
    /\ fpc \in {"next", "send", "flush", "close", "done"}
    /\ content \in Seq(Tokens)
    /\ queue \in Seq(Description)
    /\ rpc \in {"consume", "reading", "final", "done"}
    /\ document \in Description
    /\ doc \in Seq(Lines)
    /\ printed \in Seq([answers : Seq(Lines), newline : BOOLEAN])
    /\ outcome \in {"running", "exit", "aborted", "sigpipe"}
    /\ status \in 0..255

\* What should be printed for the i-th document.
Answered(i) ==
    [answers |-> [j \in 1..documents[i].cnt |-> documents[i].first + j - 1],
     newline |-> documents[i].newline]

\* As long as the child answers line by line, every document printed is made
\* of the answers to its own lines and ends the way the original did.
DocumentsMatch ==
    faults \cap {"drop", "extra"} = {} =>
        \A i \in 1..Len(printed) : printed[i] = Answered(i)

\* An answer too few, an answer too many or an early end of the child: a status
\* of zero means that all documents were printed, each with its own answers; at
\* most the last line of all may have been answered in part, and only if the
\* child stopped.  (An answer too many makes up for one that is missing because
\* it was dropped or because the child stopped: only the count is checked.)
ZeroMeansComplete ==
    /\ outcome = "exit" /\ status = 0 /\ ("extra" \in faults => faults = {"extra"}) =>
        /\ Len(printed) = Len(documents)
        /\ \A i \in 1..Len(printed) : printed[i] = Answered(i)
        /\ cut \subseteq {sent}
    /\ CutIsLast

\* No interleaving makes the reader complain about a child that does nothing
\* wrong, and no document, an empty one included, stops the reader early.
NoSpuriousError == faults = {} => outcome \in {"running", "exit"}

\* The verdict on the child is right in both directions: a status of zero means
\* that all documents were printed as they should be, and a child that does nothing
\* wrong is not reported.
VerdictRight == ZeroMeansComplete /\ NoSpuriousError

\* The pipes and threads at every moment: types, documents that are put together
\* from their own lines, and the right verdict on the child in the end.
Safety == TypeOK /\ DocumentsMatch /\ VerdictRight

\* The process ends, also with documents larger than all the buffers.
Terminates == <>(outcome # "running")
=============================================================================
