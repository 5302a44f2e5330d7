----------------------------- MODULE WrapLines -----------------------------
(***************************************************************************)
(* wrap_lines of preprocess/foldfilter_main.cc: a line is cut into lines   *)
(* of about column_width bytes, at a delimiter if there is one, and the    *)
(* delimiters around a cut either stay in the line or are passed past the  *)
(* child in a DelimiterList.                                               *)
(*                                                                         *)
(* A line is a sequence of bytes.  A character is written as one byte of   *)
(* its own name, followed by a "trail" byte if it is one of                *)
(* WideCharacters.  Positions count bytes from zero, as in the code.       *)
(***************************************************************************)
EXTENDS Integers, Sequences, FiniteSetsExt, SequencesExt

CONSTANT WideCharacters   \* characters of more than one byte

Encoded(c) == IF c \in WideCharacters THEN <<c, "trail">> ELSE <<c>>

-----------------------------------------------------------------------------

\* The character at pos and its length; the length is 0 where the code throws
\* NotUTF8Exception.
DecodeUTF8(line, pos) ==
    LET lead == line[pos + 1]
        complete == pos + 1 < Len(line) /\ line[pos + 2] = "trail"
    IN  [character |-> lead,
         len |-> CASE lead = "trail" -> 0
                   [] lead \in WideCharacters -> IF complete THEN 2 ELSE 0
                   [] OTHER -> 1]

find_delimiter(delimiters, c) == c \in Range(delimiters)

\* Where the loop begins: nothing was cut and no delimiter seen.
WrapBegin(o) ==
    [pos |-> 0, pos_last_cut |-> 0, pos_first_delimiter |-> 0,
     pos_delimiters |-> [d \in Range(o.delimiters) |-> 0],
     lines |-> <<>>, delimiters |-> <<>>, thrown |-> FALSE]

\* Slip: the position of the delimiter itself, not of the first one of several.
SeeAtDelimiter(o, s, c) ==
    IF find_delimiter(o.delimiters, c.character)
    THEN [s EXCEPT !.pos = s.pos + c.len, !.pos_delimiters[c.character] = s.pos]
    ELSE [s EXCEPT !.pos = s.pos + c.len, !.pos_first_delimiter = s.pos + c.len]

\* A character is passed.  A delimiter is remembered by the position where the
\* delimiters it stands among begin.
See(o, s, c) ==
    IF find_delimiter(o.delimiters, c.character)
    THEN [s EXCEPT !.pos = s.pos + c.len, !.pos_delimiters[c.character] = s.pos_first_delimiter]
    ELSE [s EXCEPT !.pos = s.pos + c.len, !.pos_first_delimiter = s.pos + c.len]

\* pos_cut: at the preferred delimiter seen since the last cut, else right here.
CutAt(o, s) ==
    LET usable == {i \in DOMAIN o.delimiters : s.pos_delimiters[o.delimiters[i]] > s.pos_last_cut}
    IN  IF usable = {} THEN s.pos ELSE s.pos_delimiters[o.delimiters[Min(usable)]]

\* pos_cut_end: behind the delimiters that follow, as far as they fit if they
\* stay in the line.  Where decoding would throw, the scan throws in its turn.
RECURSIVE CutEnd(_, _, _, _)
CutEnd(line, o, s, end) ==
    IF \/ end >= Len(line)
       \/ o.keep /\ end - s.pos_last_cut >= o.column_width
       \/ ~find_delimiter(o.delimiters, DecodeUTF8(line, end).character)
       \/ DecodeUTF8(line, end).len = 0
    THEN end
    ELSE CutEnd(line, o, s, end + DecodeUTF8(line, end).len)

\* The stretch of the line between two positions.
Piece(line, from, to) == SubSeq(line, from + 1, to)

\* A cut is made, and the scan goes on behind it.
Cut(line, o, s) ==
    LET at == CutAt(o, s)
        end == CutEnd(line, o, s, at)
    IN  [s EXCEPT
            !.lines = Append(@, Piece(line, s.pos_last_cut, IF o.keep THEN end ELSE at)),
            !.delimiters = Append(@, IF o.keep THEN <<>> ELSE Piece(line, at, end)),
            !.pos_last_cut = end,
            !.pos = end]

RECURSIVE Scan(_, _, _)
Scan(line, o, s) ==
    IF s.thrown \/ s.pos >= Len(line) THEN s
    ELSE LET c == DecodeUTF8(line, s.pos)
             seen == See(o, s, c)
         IN  Scan(line, o,
                  IF c.len = 0 THEN [s EXCEPT !.thrown = TRUE]
                  ELSE IF seen.pos - seen.pos_last_cut < o.column_width THEN seen
                  ELSE Cut(line, o, seen))

\* What is left behind the last cut, or the empty line, is a line too.
wrap_lines(line, o) ==
    LET s == Scan(line, o, WrapBegin(o))
    IN  IF s.pos_last_cut < s.pos \/ s.pos = 0
        THEN [s EXCEPT !.lines = Append(@, Piece(line, s.pos_last_cut, s.pos)),
                       !.delimiters = Append(@, <<>>)]
        ELSE s

-----------------------------------------------------------------------------
(* DelimiterList: all strings in one piece of memory, each with a zero *)

Packed(delimiters) == FlattenSeq([i \in DOMAIN delimiters |-> Append(delimiters[i], "zero")])

\* The string at the iterator and where the next one begins.
StringLength(memory, at) == Min({n \in 0..(Len(memory) - at) : memory[at + n] = "zero"})

RECURSIVE Unpacked(_, _, _)
Unpacked(memory, at, size) ==
    IF size = 0 THEN <<>>
    ELSE LET n == StringLength(memory, at)
         IN  <<SubSeq(memory, at, at + n - 1)>> \o Unpacked(memory, at + n + 1, size - 1)

\* What the reader prints if the child repeats every line.
Joined(lines, delimiters) == FlattenSeq([i \in DOMAIN lines |-> lines[i] \o delimiters[i]])
=============================================================================
