--------------------------- MODULE ReadCompressed ---------------------------
(***************************************************************************)
(* util/compress.cc, reading: ReadCompressed finds out from the first      *)
(* bytes whether a file is compressed and hands every Read to a reader for *)
(* that format.  Where a compressed member ends, the reader replaces       *)
(* itself with one for what follows.                                       *)
(*                                                                         *)
(* A raw file is a sequence of tokens: a member begins with MagicSize      *)
(* magic tokens of its format and ends with an end token; every data token *)
(* stands for a byte of output.  The decoders (zlib, bzip2, xz) are        *)
(* external: at every call one takes any amount of input and puts out any  *)
(* amount of what it has inside, as long as it does something, and reports *)
(* the end of a member when all of the member's bytes are out.             *)
(***************************************************************************)
EXTENDS Integers, Sequences, FiniteSets, SequencesExt

CONSTANTS
    Formats,       \* formats of members: "gz", "bz", "xz"
    CutFormats,    \* formats whose files may be cut off
    MagicSize,     \* ReadCompressed::kMagicSize
    InputBuffer,   \* kInputBuffer
    MaxMembers,    \* bound: members of a file
    MaxData,       \* bound: data tokens of a member, or of an uncompressed file
    MaxAmount      \* bound: bytes asked for in a Read

ASSUME FormatsAssumption == Formats \cup CutFormats \subseteq {"gz", "bz", "xz"}
ASSUME BufferAssumption ==
    /\ {MagicSize, InputBuffer, MaxAmount} \subseteq Nat \ {0} /\ MagicSize <= InputBuffer
    /\ {MaxMembers, MaxData} \subseteq Nat

VARIABLES
    raw,         \* the file
    fine,        \* whether nothing is wrong with it
    fd,          \* how much of it has been read
    reader,      \* which ReadBase internal_ is
    format,      \* of the member a ReadStream decodes
    input,       \* what the reader has in its buffer
    inside,      \* bytes that the decoder has taken in and not put out
    rawAmount,   \* raw_amount_
    want,        \* amount of the Read under way; 0 if there is none
    delivered,   \* bytes returned so far
    result       \* what the last Read returned

readerVars == <<raw, fine, fd, reader, format, input, inside, rawAmount, want, delivered, result>>

-----------------------------------------------------------------------------
(* Files *)

Magic(f) == [i \in 1..MagicSize |-> [kind |-> "magic", format |-> f]]
Data(n) == [i \in 1..n |-> [kind |-> "data", format |-> "none"]]
End == [kind |-> "end", format |-> "none"]
Member(f, n) == Magic(f) \o Data(n) \o <<End>>

Archives(formats) ==
    {FlattenSeq(members) :
        members \in UNION {[1..k -> {Member(f, n) : f \in formats, n \in 0..MaxData}] : k \in 1..MaxMembers}}
Plain == {Data(n) : n \in 0..(MaxData + MagicSize)}

\* Every file, and whether it is in order: it may have been cut off, or have
\* uncompressed data after the last member.
Files ==
    {[raw |-> r, fine |-> TRUE] : r \in Archives(Formats) \cup Plain}
    \cup {[raw |-> Front(r), fine |-> FALSE] : r \in Archives(CutFormats)}
    \cup {[raw |-> r \o Data(1), fine |-> FALSE] : r \in Archives(Formats)}

\* What a file contains.
DataOf(tokens) == Cardinality({i \in 1..Len(tokens) : tokens[i].kind = "data"})

-----------------------------------------------------------------------------
(* ReadFactory *)

\* Result of a Read that has not returned.
Pending == -1

NextTokens(n) == SubSeq(raw, fd + 1, IF fd + n <= Len(raw) THEN fd + n ELSE Len(raw))

\* What is left is completed to as many bytes as a magic number has.
Header(rest) ==
    IF Len(rest) >= MagicSize THEN rest ELSE rest \o NextTokens(MagicSize - Len(rest))

DetectMagic(header) ==
    IF Len(header) >= MagicSize /\ header[1].kind = "magic"
       /\ \A i \in 1..MagicSize : header[i] = header[1]
    THEN header[1].format
    ELSE "unknown"

\* The reader for what follows rest; after a compressed member, only another
\* compressed one may follow.
ReadFactory(rest, required) ==
    LET header == Header(rest)
        got == Len(header) - Len(rest)
    IN  /\ fd' = fd + got
        /\ rawAmount' = rawAmount + got
        /\ format' = DetectMagic(header)
        /\ \/ /\ header = <<>>
              /\ reader' = "Complete" /\ input' = <<>>
           \/ /\ DetectMagic(header) # "unknown"
              /\ reader' = "ReadStream" /\ input' = header
           \/ /\ header # <<>> /\ DetectMagic(header) = "unknown" /\ ~required
              /\ reader' = "UncompressedWithHeader" /\ input' = header
           \/ /\ header # <<>> /\ DetectMagic(header) = "unknown" /\ required
              /\ reader' = "threw" /\ input' = <<>>

ReaderInit ==
    /\ fd = 0
    /\ reader = "none" /\ format = "unknown" /\ input = <<>> /\ inside = 0
    /\ rawAmount = 0
    /\ want = 0 /\ delivered = 0 /\ result = Pending

FilesInit ==
    /\ \E f \in Files : raw = f.raw /\ fine = f.fine
    /\ ReaderInit

\* Reset(fd)
Open ==
    /\ reader = "none"
    /\ ReadFactory(<<>>, FALSE)
    /\ UNCHANGED <<raw, fine, inside, want, delivered, result>>

-----------------------------------------------------------------------------
(* Read *)

Begin(amount) ==
    /\ want = 0
    /\ reader \notin {"none", "threw"}
    /\ want' = amount
    /\ result' = Pending
    /\ UNCHANGED <<raw, fine, fd, reader, format, input, inside, rawAmount, delivered>>

Return(n) ==
    /\ want' = 0
    /\ delivered' = delivered + n
    /\ result' = n

ReadComplete ==
    /\ want > 0
    /\ reader = "Complete"
    /\ Return(0)
    /\ UNCHANGED <<raw, fine, fd, reader, format, input, inside, rawAmount>>

\* PartialRead returns some bytes, and none only at the end.
ReadUncompressed ==
    /\ want > 0
    /\ reader = "Uncompressed"
    /\ \E n \in 0..Len(NextTokens(want)) :
        /\ n = 0 => fd = Len(raw)
        /\ Return(n)
        /\ fd' = fd + n
        /\ rawAmount' = rawAmount + n
    /\ UNCHANGED <<raw, fine, reader, format, input, inside>>

\* Slip: what does not fit in the first Read is lost.
ReadWithHeaderOnce ==
    LET n == IF want < Len(input) THEN want ELSE Len(input)
    IN  /\ want > 0
        /\ reader = "UncompressedWithHeader"
        /\ Return(n)
        /\ input' = <<>>
        /\ reader' = "Uncompressed"
        /\ UNCHANGED <<raw, fine, fd, format, inside, rawAmount>>

\* The bytes read to find the magic number come first.
ReadWithHeader ==
    LET n == IF want < Len(input) THEN want ELSE Len(input)
    IN  /\ want > 0
        /\ reader = "UncompressedWithHeader"
        /\ Return(n)
        /\ input' = SubSeq(input, n + 1, Len(input))
        /\ reader' = IF input' = <<>> THEN "Uncompressed" ELSE reader
        /\ UNCHANGED <<raw, fine, fd, format, inside, rawAmount>>

\* The input buffer of a decoder is filled when it is empty.
ReadInput ==
    /\ want > 0
    /\ reader = "ReadStream"
    /\ input = <<>> /\ fd < Len(raw)
    /\ input' = NextTokens(InputBuffer)
    /\ fd' = fd + Len(input')
    /\ rawAmount' = rawAmount + Len(input')
    /\ UNCHANGED <<raw, fine, reader, format, inside, want, delivered, result>>

\* What is left of the input when a decoder has taken t tokens, and the bytes
\* that they stand for.
Rest(t) == SubSeq(input, t + 1, Len(input))
TakenIn(t) == DataOf(SubSeq(input, 1, t))
EndTaken(t) == t > 0 /\ input[t].kind = "end"

\* Process() takes t tokens, none of them behind the end of the member, and puts
\* out n bytes.  Its input is empty only if there is no more.
Process(t, n) ==
    /\ input # <<>> \/ fd = Len(raw)
    /\ t + n > 0
    /\ \A i \in 1..(t - 1) : input[i].kind # "end"
    /\ n <= inside + TakenIn(t)
    /\ inside' = inside + TakenIn(t) - n

\* Process within a member: the Read returns if there is output, or goes on.
ReadDecodes ==
    /\ want > 0
    /\ reader = "ReadStream"
    /\ \E t \in 0..Len(input), n \in 0..want :
        /\ Process(t, n)
        /\ ~EndTaken(t)
        /\ input' = Rest(t)
        /\ IF n > 0 THEN Return(n) ELSE UNCHANGED <<want, delivered, result>>
    /\ UNCHANGED <<raw, fine, fd, reader, format, rawAmount>>

\* Process reaches the end of the member: the reader is replaced.  Without
\* output, the next reader takes over the Read.
ReadEndsMember ==
    /\ want > 0
    /\ reader = "ReadStream"
    /\ \E t \in 0..Len(input), n \in 0..want :
        /\ Process(t, n)
        /\ EndTaken(t) /\ inside' = 0
        /\ ReadFactory(Rest(t), TRUE)
        /\ \/ /\ reader' = "threw"
              /\ want' = 0
              /\ UNCHANGED <<delivered, result>>
           \/ /\ reader' # "threw"
              /\ IF n > 0 THEN Return(n) ELSE UNCHANGED <<want, delivered, result>>
    /\ UNCHANGED <<raw, fine>>

\* Slip: a member that is cut off ends the file.
ReadCutOffIsEnd ==
    /\ want > 0
    /\ reader = "ReadStream"
    /\ input = <<>> /\ fd = Len(raw) /\ inside = 0
    /\ reader' = "Complete"
    /\ UNCHANGED <<raw, fine, fd, format, input, inside, rawAmount, want, delivered, result>>

\* Slip: lack of input is an error of no decoder.
ReadCutOffNever ==
    /\ reader = "threw" /\ want > 0
    /\ UNCHANGED readerVars

\* The file ends within a member.  zlib and xz report an error; bzip2 returns
\* BZ_OK without having done anything, and the loop goes round for ever.
ReadCutOff ==
    /\ want > 0
    /\ reader = "ReadStream"
    /\ input = <<>> /\ fd = Len(raw) /\ inside = 0
    /\ format # "bz"
    /\ reader' = "threw"
    /\ want' = 0
    /\ UNCHANGED <<raw, fine, fd, format, input, inside, rawAmount, delivered, result>>

ReaderNext ==
    \/ Open
    \/ \E amount \in 1..MaxAmount : Begin(amount)
    \/ ReadComplete \/ ReadUncompressed \/ ReadWithHeader
    \/ ReadInput \/ ReadDecodes \/ ReadEndsMember \/ ReadCutOff

-----------------------------------------------------------------------------
(* Properties *)

\* Type invariant of the readers; what a reader is given by its predecessor
\* fits in its buffer.
ReaderTypeOK ==
    /\ fd \in 0..Len(raw)
    /\ reader \in {"none", "threw", "Complete", "Uncompressed", "UncompressedWithHeader", "ReadStream"}
    /\ format \in Formats \cup CutFormats \cup {"unknown"}
    /\ Len(input) <= InputBuffer
    /\ inside \in Nat
    /\ rawAmount \in 0..Len(raw)
    /\ want \in 0..MaxAmount
    /\ delivered \in Nat
    /\ result \in -1..MaxAmount

\* Nothing is lost or repeated when readers replace each other: what has been
\* returned, what is inside the decoder, what is buffered and what has not been
\* read make up the file.
NothingLost ==
    reader # "threw" =>
        delivered + inside + DataOf(input) + DataOf(SubSeq(raw, fd + 1, Len(raw))) = DataOf(raw)

\* A Read returns nothing only at the end of a file that is in order: an empty
\* member does not look like the end, and damage is not taken for it.
ZeroMeansEnd == result = 0 => delivered = DataOf(raw) /\ fine

\* A file in order is read without an exception, wherever its members end in
\* the input buffer, empty ones and changes of format included.
NoFalseAlarm == fine => reader # "threw"

\* raw_amount_, which drives the progress bar, counts every byte read once.
RawAmountExact == rawAmount = fd

\* The bzip2 decoder waits for input that will not come.
WaitsForInput ==
    /\ reader = "ReadStream" /\ format = "bz"
    /\ input = <<>> /\ fd = Len(raw) /\ inside = 0

\* Every Read returns or throws, but for the loop of a bzip2 file that is cut off.
ReadsEnd == []<>(want = 0 \/ WaitsForInput)
=============================================================================
