----------------------------- MODULE FilePiece -----------------------------
(***************************************************************************)
(* util/file_piece.cc: lines, words and numbers out of a file that is seen *)
(* through a window, either a mapping of a few pages of the file or a      *)
(* buffer that is filled with read().  The window is shifted when it has   *)
(* been used up, or enlarged when what is looked for does not fit.         *)
(*                                                                         *)
(* The window is the sequence `data`; position_ is the number of its       *)
(* bytes that have been consumed and position_end_ is its length.  A byte  *)
(* is a member of Chars.  An operation is under way from one Shift() to    *)
(* the next: how much a read() returns, and whether a mapping fails, is    *)
(* not known beforehand.                                                   *)
(***************************************************************************)
EXTENDS Integers, Sequences, FiniteSets, FiniteSetsExt

CONSTANTS
    Chars,        \* bytes: digit, letter, space, newline, carriage return
    MaxLength,    \* bound: length of the file
    PageSize,     \* kPageSize
    Kinds,        \* "file": can be mapped; "gzip": compressed; "pipe": no mapping
    MapFails,     \* in which stages of an operation a mapping may fail
    Operations    \* the operations that are called

ASSUME CharsAssumption == Chars \subseteq {"d", "x", "sp", "nl", "cr"}
ASSUME SizeAssumption == MaxLength \in Nat /\ PageSize \in Nat \ {0}
ASSUME EnvironmentAssumption ==
    /\ Kinds \subseteq {"file", "gzip", "pipe"}
    /\ MapFails \subseteq {"open", "line", "find", "number", "get",
                      "skip delimited", "skip word", "skip number"}
    /\ Operations \subseteq {"line", "delimited", "word", "number", "get"}

VARIABLES
    file,       \* contents, decompressed
    kind,       \* what the descriptor is
    fallback,   \* fallback_to_read_
    data,       \* the window, up to position_end_
    pos,        \* position_
    offset,     \* mapped_offset_
    mapSize,    \* default_map_size_
    atEnd,      \* at_end_
    lastSpace,  \* last_space_: number of the last space of the window
    taken,      \* how much of the file read() has returned
    op,         \* the operation under way
    skip,       \* bytes the operation has looked at already
    from,       \* where in the file it began
    last        \* what the last operation returned

vars == <<file, kind, fallback, data, pos, offset, mapSize, atEnd, lastSpace, taken, op, skip, from, last>>
windowVars == <<fallback, data, offset, mapSize, atEnd, lastSpace, taken>>

\* Where in the file the window begins.  (mapped_offset_ says so for a mapping;
\* for a buffer, ReadShift does not update it when it moves bytes.)
Base == IF fallback THEN taken - Len(data) ELSE offset

Spaces == {"sp", "nl", "cr"}
Files == UNION {[1..n -> Chars] : n \in 0..MaxLength}
NoText == [op |-> "none", from |-> 0, to |-> 0, text |-> <<>>, ok |-> TRUE]

\* Position of the first of the bytes after position i of s, or after its end.
NextOf(s, i, bytes) == Min({j \in (i + 1)..Len(s) : s[j] \in bytes} \cup {Len(s) + 1})

Init ==
    /\ file \in Files
    /\ kind \in Kinds
    /\ fallback = (kind = "pipe")
    /\ data = <<>> /\ pos = 0 /\ offset = 0
    /\ mapSize = 2 * PageSize
    /\ atEnd = FALSE
    /\ lastSpace = 0
    /\ taken = 0
    /\ op = "open" /\ skip = 0 /\ from = 0
    /\ last = NoText

-----------------------------------------------------------------------------
(* Shift, which is called when at_end_ is not set *)

LastSpace(d, p) == Max({i \in (p + 1)..Len(d) : d[i] \in Spaces} \cup {p})

\* Slip: a request for more data does not enlarge the mapping.
EnlargedNever(ignore) == mapSize

\* A second request at the same position asks for more data.
Enlarged(ignore) == IF pos = ignore /\ op # "open" THEN 2 * mapSize ELSE mapSize

\* A mapping of whole pages that begins at or before position_.
MMapShift ==
    LET desired == pos + offset
        ignore == desired % PageSize
        base == desired - ignore
        size == Min({Enlarged(ignore), Len(file) - base})
    IN  /\ ~fallback
        /\ size > 0
        /\ mapSize' = Enlarged(ignore)
        /\ atEnd' = (size = Len(file) - base)
        /\ data' = SubSeq(file, base + 1, base + size)
        /\ offset' = base
        /\ pos' = ignore
        /\ lastSpace' = LastSpace(data', pos')
        /\ UNCHANGED <<fallback, taken>>

\* Slip: the bytes that are kept are moved from the wrong place.
KeptFromStart ==
    IF pos = Len(data) THEN [data |-> <<>>, pos |-> 0, offset |-> offset + Len(data), size |-> mapSize]
    ELSE IF Len(data) < mapSize THEN [data |-> data, pos |-> pos, offset |-> offset, size |-> mapSize]
    ELSE IF pos = 0 THEN [data |-> data, pos |-> 0, offset |-> offset, size |-> 2 * mapSize]
    ELSE [data |-> SubSeq(data, 1, Len(data) - pos), pos |-> 0, offset |-> offset, size |-> mapSize]

\* What is in the buffer after the bytes that are not needed any more have been
\* dropped, which happens only if there is nothing else in it or it is full.
Kept ==
    IF pos = Len(data) THEN [data |-> <<>>, pos |-> 0, offset |-> offset + Len(data), size |-> mapSize]
    ELSE IF Len(data) < mapSize THEN [data |-> data, pos |-> pos, offset |-> offset, size |-> mapSize]
    ELSE IF pos = 0 THEN [data |-> data, pos |-> 0, offset |-> offset, size |-> 2 * mapSize]
    ELSE [data |-> SubSeq(data, pos + 1, Len(data)), pos |-> 0, offset |-> offset, size |-> mapSize]

\* read() puts n bytes of the file behind what is in the buffer.
Filled(kept, at, n) == kept.data \o SubSeq(file, at + 1, at + n)

\* How much read() may return; nothing only at the end.
ReadSizes(room, at) == IF at = Len(file) THEN {0} ELSE 1..Min({room, Len(file) - at})

ReadShift ==
    /\ fallback
    /\ \E n \in ReadSizes(Kept.size - Len(Kept.data), taken) :
        /\ data' = Filled(Kept, taken, n)
        /\ taken' = taken + n
        /\ atEnd' = (n = 0)
    /\ pos' = Kept.pos
    /\ offset' = Kept.offset
    /\ mapSize' = Kept.size
    /\ lastSpace' = LastSpace(data', pos')
    /\ UNCHANGED fallback

\* The mapping fails, as one of no bytes does: the buffer is filled with read()
\* from the desired position on.
MapFailed ==
    LET desired == pos + offset
        ignore == desired % PageSize
        nothing == [data |-> <<>>, pos |-> 0, offset |-> offset, size |-> Enlarged(ignore)]
    IN  /\ ~fallback
        /\ \/ desired = Len(file) /\ desired % PageSize = 0
           \/ op \in MapFails
        /\ fallback' = TRUE
        /\ \E n \in ReadSizes(nothing.size, desired) :
            /\ data' = Filled(nothing, desired, n)
            /\ taken' = desired + n
            /\ atEnd' = (n = 0)
        /\ pos' = 0
        /\ offset' = nothing.offset
        /\ mapSize' = nothing.size
        /\ lastSpace' = LastSpace(data', pos')

Shift ==
    /\ ~atEnd
    /\ MMapShift \/ ReadShift \/ MapFailed

-----------------------------------------------------------------------------
(* Initialize *)

\* A mapped file that turns out to be compressed is read from the start.
Open ==
    /\ op = "open"
    /\ \/ /\ kind # "gzip"
          /\ Shift
       \/ /\ kind = "gzip"
          /\ fallback' = TRUE
          /\ UNCHANGED <<data, pos, offset, mapSize, atEnd, lastSpace, taken>>
    /\ op' = "idle"
    /\ UNCHANGED <<file, kind, skip, from, last>>

-----------------------------------------------------------------------------
(* Operations *)

\* Words and numbers begin with what SkipSpaces, or the loop that stands for it, skips.
FirstStage == [line |-> "line", get |-> "get", delimited |-> "skip delimited",
               word |-> "skip word", number |-> "skip number"]

Begin(o) ==
    /\ op = "idle"
    /\ op' = FirstStage[o]
    /\ skip' = 0
    /\ from' = Base + pos
    /\ last' = [NoText EXCEPT !.op = o, !.from = Base + pos]
    /\ UNCHANGED <<file, kind, pos, windowVars>>

\* The operation returns text and has consumed the window up to p.
Return(text, p) ==
    /\ op' = "idle"
    /\ last' = [last EXCEPT !.text = text, !.to = Base + p]
    /\ pos' = p
    /\ UNCHANGED <<file, kind, windowVars, skip, from>>

\* The operation throws, or returns that there is nothing.
Fail(p) ==
    /\ op' = "idle"
    /\ last' = [last EXCEPT !.ok = FALSE, !.to = Base + p]
    /\ pos' = p
    /\ UNCHANGED <<file, kind, windowVars, skip, from>>

\* How much of the window has been looked at.
Looked == pos + skip

WithoutCr(text) ==
    IF text # <<>> /\ text[Len(text)] = "cr" THEN SubSeq(text, 1, Len(text) - 1) ELSE text

LineFound ==
    LET i == NextOf(data, Looked, {"nl"})
    IN  /\ op = "line"
        /\ i <= Len(data)
        /\ Return(WithoutCr(SubSeq(data, pos + 1, i - 1)), i)

\* The end of the file: what is left is a line, without looking for a return.
LineAtEnd ==
    /\ op = "line"
    /\ NextOf(data, Looked, {"nl"}) > Len(data)
    /\ atEnd
    /\ IF pos = Len(data) THEN Fail(pos) ELSE Return(SubSeq(data, pos + 1, Len(data)), Len(data))

\* FindDelimiterOrEOF, which leaves the delimiter.  Its case of nothing being
\* left does not arise: SkipSpaces has stopped at a byte of the word.
WordFound ==
    LET i == NextOf(data, Looked, Spaces)
    IN  /\ op = "find"
        /\ i <= Len(data) \/ (atEnd /\ pos < Len(data))
        /\ Return(SubSeq(data, pos + 1, i - 1), i - 1)

\* More data is needed; what has been looked at is not looked at again.
SearchShift ==
    /\ op \in {"line", "find"}
    /\ NextOf(data, Looked, IF op = "line" THEN {"nl"} ELSE Spaces) > Len(data)
    /\ Shift
    /\ skip' = Len(data) - pos
    /\ UNCHANGED <<file, kind, op, from, last>>

\* SkipSpaces, and the loop of ReadWordSameLine that stops at a newline.
Skipping == {"skip delimited", "skip word", "skip number"}
Stops == (Chars \ Spaces) \cup IF op = "skip word" THEN {"nl"} ELSE {}

Skipped ==
    LET i == NextOf(data, pos, Stops)
    IN  /\ op \in Skipping
        /\ i <= Len(data)
        /\ IF op = "skip word" /\ data[i] = "nl"
           THEN Fail(i - 1)
           ELSE /\ op' = IF op = "skip number" THEN "number" ELSE "find"
                /\ pos' = i - 1
                /\ UNCHANGED <<file, kind, windowVars, skip, from, last>>

\* The window holds nothing but spaces.
SkipShift ==
    /\ op \in Skipping
    /\ NextOf(data, pos, Stops) > Len(data)
    /\ \/ /\ atEnd
          /\ Fail(Len(data))
       \/ /\ pos < Len(data)
          /\ ~atEnd
          /\ pos' = Len(data)
          /\ UNCHANGED <<file, kind, windowVars, op, skip, from, last>>
       \/ /\ pos = Len(data)
          /\ Shift
          /\ UNCHANGED <<file, kind, op, skip, from, last>>

\* Slip: a number is parsed without a space behind it.
NumberWhole == TRUE

\* ReadNumber parses when a space behind the number is in the window
NumberComplete == lastSpace > pos

\* or at the end of the file.  A parser stops at the first byte it cannot use.
NumberRead ==
    LET i == NextOf(data, pos, Chars \ {"d"})
    IN  /\ op = "number"
        /\ NumberComplete \/ atEnd
        /\ IF i = pos + 1 THEN Fail(pos) ELSE Return(SubSeq(data, pos + 1, i - 1), i - 1)

NumberShift ==
    /\ op = "number"
    /\ ~NumberComplete
    /\ Shift
    /\ UNCHANGED <<file, kind, op, skip, from, last>>

\* get(): after a Shift, peek() throws if at_end_ is set.
Get ==
    /\ op = "get"
    /\ \/ /\ pos < Len(data)
          /\ Return(<<data[pos + 1]>>, pos + 1)
       \/ /\ pos = Len(data)
          /\ atEnd
          /\ Fail(pos)
       \/ /\ pos = Len(data)
          /\ Shift
          /\ IF atEnd'
             THEN /\ op' = "idle"
                  /\ last' = [last EXCEPT !.ok = FALSE, !.to = Base' + pos']
             ELSE UNCHANGED <<op, last>>
          /\ UNCHANGED <<file, kind, skip, from>>

Next ==
    \/ Open
    \/ \E o \in Operations : Begin(o)
    \/ LineFound \/ LineAtEnd
    \/ WordFound
    \/ SearchShift
    \/ Skipped \/ SkipShift
    \/ NumberRead \/ NumberShift
    \/ Get

Spec == Init /\ [][Next]_vars

\* An operation that has been called goes on.
FairSpec == Spec /\ WF_vars(Next)

-----------------------------------------------------------------------------
(* Properties *)

Idle == op = "idle"

\* Type invariant of the window.
TypeOK ==
    /\ file \in Files
    /\ kind \in Kinds
    /\ fallback \in BOOLEAN
    /\ data \in Seq(Chars)
    /\ pos \in 0..Len(data)
    /\ offset \in 0..MaxLength
    /\ mapSize \in PageSize..(2 * (MaxLength + 2 * PageSize))
    /\ Len(data) <= mapSize
    /\ atEnd \in BOOLEAN
    /\ lastSpace \in 0..Len(data)
    /\ taken \in 0..MaxLength
    /\ op \in {"open", "idle", "line", "find", "number", "get"} \cup Skipping
    /\ skip \in 0..MaxLength
    /\ from \in 0..MaxLength

\* The window shows the file: whatever was mapped, read, moved or enlarged, it
\* holds the bytes of the file that follow those consumed before.
WindowShowsFile ==
    \A i \in 1..Len(data) : Base + i \in 1..Len(file) /\ data[i] = file[Base + i]

\* The window at every moment: types, and the bytes of the file in it.
Safety == TypeOK /\ WindowShowsFile

\* What an operation that begins at f is to return, wherever the windows end.
\* A line ends before its newline or at the end of the file, and "any trailing
\* carriate return [...] will be left out" of it (util/file_piece.hh:129).
LineAt(f) ==
    LET e == NextOf(file, f, {"nl"})
    IN  IF f = Len(file) THEN [to |-> f, text |-> <<>>, ok |-> FALSE]
        ELSE [to |-> Min({e, Len(file)}), text |-> WithoutCr(SubSeq(file, f + 1, e - 1)), ok |-> TRUE]

WordAt(f, stop) ==
    LET b == NextOf(file, f, (Chars \ Spaces) \cup stop)
        e == NextOf(file, b, Spaces)
    IN  IF b > Len(file) THEN [to |-> Len(file), text |-> <<>>, ok |-> FALSE]
        ELSE IF file[b] \in stop THEN [to |-> b - 1, text |-> <<>>, ok |-> FALSE]
        ELSE [to |-> e - 1, text |-> SubSeq(file, b, e - 1), ok |-> TRUE]

NumberAt(f) ==
    LET b == NextOf(file, f, Chars \ Spaces)
        e == NextOf(file, b - 1, Chars \ {"d"})
    IN  IF b > Len(file) THEN [to |-> Len(file), text |-> <<>>, ok |-> FALSE]
        ELSE IF e = b THEN [to |-> b - 1, text |-> <<>>, ok |-> FALSE]
        ELSE [to |-> e - 1, text |-> SubSeq(file, b, e - 1), ok |-> TRUE]

ByteAt(f) ==
    IF f = Len(file) THEN [to |-> f, text |-> <<>>, ok |-> FALSE]
    ELSE [to |-> f + 1, text |-> <<file[f + 1]>>, ok |-> TRUE]

Expected(o, f) ==
    CASE o = "line" -> LineAt(f)
      [] o = "delimited" -> WordAt(f, {})
      [] o = "word" -> WordAt(f, {"nl"})
      [] o = "number" -> NumberAt(f)
      [] o = "get" -> ByteAt(f)

Result == [to |-> last.to, text |-> last.text, ok |-> last.ok]
Shortened == [to |-> last.to, text |-> WithoutCr(last.text), ok |-> last.ok]

\* Every operation returns what it would return if the whole file were in
\* memory, and leaves the position behind it: no line, word or number is cut,
\* lost or repeated where one window ends and the next begins.  Two questions
\* are not decided here, but by the promises below: whether a return at the
\* very end of the file, with no newline behind it, is left out of the last
\* line, and whether get() may throw before the end; if it does, it has not
\* moved, and all that is left is in the window, so that it does so only once.
ReadsExact ==
    Idle /\ last.op # "none" =>
        /\ \/ Result = Expected(last.op, last.from)
           \/ /\ last.op = "line" /\ last.to = Len(file) /\ file[Len(file)] = "cr"
              /\ Shortened = Expected(last.op, last.from)
           \/ /\ last.op = "get" /\ ~last.ok /\ ~fallback
              /\ last.to = last.from /\ last.from > 0
              /\ pos < Len(data) /\ Base + Len(data) = Len(file)
        /\ Base + pos = last.to

-----------------------------------------------------------------------------
(* What comments of the class promise *)

\* "If strip_cr is true, any trailing carriate return (as would be found on a
\* file written on Windows) will be left out of the returned line."
\* (util/file_piece.hh:129), also if the file ends there.
LinesWithoutCr == Idle /\ last.op = "line" => Result = Expected("line", last.from)

\* get() throws EndOfFileException, "End of file reached." (util/file.hh:75), only when
\* no byte is left.
GetsUntilEnd == Idle /\ last.op = "get" => Result = Expected("get", last.from)

\* "Notice an mmap failure might set the fallback." (util/file_piece.cc:261):
\* whatever a Shift finds, ReadLine's search goes on inside the window and not
\* behind its end.
SearchInWindow == op = "line" => Looked <= Len(data)

\* Every operation ends, also if a line is longer than the window.
OperationsEnd == []<>Idle
=============================================================================
