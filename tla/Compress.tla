------------------------------ MODULE Compress ------------------------------
(***************************************************************************)
(* util/compress.cc as a whole: a file written by WriteCompressed is read  *)
(* by ReadCompressed, which also reads files from elsewhere.               *)
(***************************************************************************)
EXTENDS ReadCompressed

CONSTANTS
    BufSize,     \* buf_size_ of the writer
    MinOutput,   \* Compressor::kMinOutput
    SizeMax,     \* Compressor::kSizeMax
    MaxWrites    \* bound: calls of write() and flush()

ASSUME WriterAssumption ==
    /\ {BufSize, MinOutput, SizeMax} \subseteq Nat \ {0} /\ MinOutput <= BufSize
    /\ MaxWrites \in Nat

VARIABLES calls, written, later, avail, taken, emitted, buf, out, dirty, pc

writeVars == <<calls, written, later, avail, taken, emitted, buf, out, dirty, pc>>
allVars == <<readerVars, writeVars>>

WriteStream == INSTANCE WriteCompressed

-----------------------------------------------------------------------------

\* The file is written first, or it is there already and there is no writer.
CompressInit ==
    \/ /\ WriteStream!Init
       /\ raw = <<>> /\ fine = TRUE
       /\ ReaderInit
    \/ /\ FilesInit
       /\ calls = 0 /\ written = 0 /\ later = 0 /\ avail = 0 /\ taken = 0 /\ emitted = 0
       /\ buf = <<>> /\ out = <<>>
       /\ dirty = FALSE
       /\ pc = "none"

Writes ==
    /\ WriteStream!Next
    /\ UNCHANGED readerVars

\* What the writer's tokens are to the reader, in one of the formats that can
\* be written.
FormatsWritten == Formats \ {"xz"}
RawToken(token, f) ==
    IF token = "magic" THEN Magic(f) ELSE IF token = "data" THEN Data(1) ELSE <<End>>
RawFile(tokens, f) == FlattenSeq([i \in 1..Len(tokens) |-> RawToken(tokens[i], f)])

\* The file that the writer has left behind is opened for reading.
Reopen ==
    /\ pc = "gone"
    /\ raw = <<>>
    /\ \E f \in FormatsWritten : raw' = RawFile(out, f)
    /\ UNCHANGED <<fine, fd, reader, format, input, inside, rawAmount, want, delivered, result, writeVars>>

Read ==
    /\ pc = "none" \/ (pc = "gone" /\ raw # <<>>)
    /\ ReaderNext
    /\ UNCHANGED writeVars

CompressNext == Writes \/ Reopen \/ Read

CompressSpec == CompressInit /\ [][CompressNext]_allVars

\* Writer and reader go on with a call that has been made.
CompressFairSpec == CompressSpec /\ WF_allVars(CompressNext)

-----------------------------------------------------------------------------
(* Properties, besides those of the reader *)

\* WriteStream loses no byte, and its file is well-formed at every moment.
WriterLosesNothing == pc # "none" => WriteStream!TypeOK /\ WriteStream!NothingLost

\* Reader and writer at every moment: types, no byte lost or repeated when
\* readers replace each other or the writer's buffer is drained, and a raw
\* amount that counts every byte read once; and a file in order is never refused.
CompressSafety ==
    ReaderTypeOK /\ NothingLost /\ RawAmountExact /\ NoFalseAlarm /\ WriterLosesNothing

\* The file that a WriteCompressed leaves behind consists of complete members
\* with all the bytes, and of at least one, so that an empty file is valid too;
\* and what was written, in any number of calls and members, empty ones
\* included, is read back completely before a Read returns nothing.  Of a file
\* from elsewhere, too, a Read returns nothing only at the end, and only if the
\* file is in order.
RoundTrip ==
    /\ WriteStream!CompleteWhenGone
    /\ pc = "gone" /\ result = 0 => delivered = written
    /\ ZeroMeansEnd

\* Every call ends: a Read returns or throws (but for a bzip2 file that is cut
\* off), and the loops of write() and flush() do not go round for ever, so that
\* a writer gets to its end.
CallsEnd == ReadsEnd /\ <>(pc \in {"gone", "none"})
=============================================================================
