------------------------------- MODULE DocEnc -------------------------------
(***************************************************************************)
(* preprocess/docenc_main.cc: documents of a text, separated by an empty   *)
(* line or a null byte, are encoded to lines of base64 and decoded again;  *)
(* and preprocess/base64.cc, which does the encoding.                      *)
(*                                                                         *)
(* A text is a sequence of bytes.  An encoded document is a sequence of    *)
(* codes: 0..63 for the characters of TABLE, Pad for '=', and three others *)
(* for bytes that do not occur in base64.                                  *)
(***************************************************************************)
EXTENDS Integers, Sequences, FiniteSetsExt, SequencesExt

Newline == 10
CarriageReturn == 13
Null == 0
Tab == 9
Pad == 64
Other == 65     \* a byte that is not in TABLE
Byte127 == 66
Byte255 == 67

-----------------------------------------------------------------------------
(* base64 *)

\* The bits of val that are used again all fit in 16.
Width == 65536
Power(n) == 2^n

\* The loop while (valb >= 0).
RECURSIVE EmitSextets(_)
EmitSextets(s) ==
    IF s.valb < 0 THEN s
    ELSE EmitSextets([s EXCEPT !.out = Append(@, (s.val \div Power(s.valb)) % 64), !.valb = @ - 6])

EncodeByte(s, c) == EmitSextets([s EXCEPT !.val = (@ * 256 + c) % Width, !.valb = @ + 8])

\* Slip: the last bits are not moved up to a full sextet.
EncodeLastUnshifted(s) ==
    IF s.valb > -6 THEN Append(s.out, s.val % Power(s.valb + 6)) ELSE s.out

EncodeLast(s) ==
    IF s.valb > -6
    THEN Append(s.out, ((s.val * 256) \div Power(s.valb + 8)) % 64)
    ELSE s.out

base64_encode(in) ==
    LET s == FoldLeft(EncodeByte, [val |-> 0, valb |-> -6, out |-> <<>>], in)
        out == EncodeLast(s)
    IN  out \o [i \in 1..((-Len(out)) % 4) |-> Pad]

\* INV_TABLE as it is compiled: the missing comma makes the entry of byte 127
\* -2 and leaves none for byte 255, which is 0 then.
InvTable(c) ==
    IF c < Pad THEN c ELSE IF c = Byte127 THEN -2 ELSE IF c = Byte255 THEN 0 ELSE -1

count_padding(in) == Len(in) - Max({0} \cup {i \in DOMAIN in : in[i] # Pad})

DecodeCode(s, c) ==
    LET val == (s.val * 64 + InvTable(c)) % Width
        valb == s.valb + 6
    IN  IF s.stopped \/ s.thrown THEN s
        ELSE IF c = Pad THEN [s EXCEPT !.stopped = TRUE]
        ELSE IF InvTable(c) = -1 THEN [s EXCEPT !.thrown = TRUE]
        ELSE IF valb < 0 THEN [s EXCEPT !.val = val, !.valb = valb]
        ELSE [s EXCEPT !.val = val, !.valb = valb - 8,
                       !.out = Append(@, (val \div Power(valb)) % 256)]

\* reserve() is given a negative number, as a huge one, if there is more
\* padding than anything else.
base64_decode(in) ==
    FoldLeft(DecodeCode,
             [val |-> 0, valb |-> -8, out |-> <<>>, stopped |-> FALSE,
              thrown |-> (Len(in) * 3) \div 4 < count_padding(in)],
             in)

-----------------------------------------------------------------------------
(* Lines, as ReadLineOrEOF and TokenIter see them *)

FirstOf(text, c) == Min({i \in 1..(Len(text) + 1) : i = Len(text) + 1 \/ text[i] = c})

\* All tokens, the one behind the last separator included.
RECURSIVE Tokens(_, _)
Tokens(text, c) ==
    LET i == FirstOf(text, c)
    IN  IF i > Len(text) THEN <<text>>
        ELSE <<SubSeq(text, 1, i - 1)>> \o Tokens(SubSeq(text, i + 1, Len(text)), c)

\* strip_cr: a carriage return directly before the separator.
StripCr(line) ==
    IF line # <<>> /\ line[Len(line)] = CarriageReturn THEN SubSeq(line, 1, Len(line) - 1) ELSE line

\* Nothing is read behind the last separator if the file ends there; what
\* stands behind it is returned as it is.
Lines(text, c) ==
    LET tokens == Tokens(text, c)
        last == tokens[Len(tokens)]
        ended == [i \in 1..(Len(tokens) - 1) |-> StripCr(tokens[i])]
    IN  IF last = <<>> THEN ended ELSE Append(ended, last)

-----------------------------------------------------------------------------
(* docenc *)

\* The arguments are numbers <<n>> and ranges <<m, n>> with m <= n.
parse_range(arg) ==
    IF Len(arg) = 1 THEN arg ELSE [i \in 1..(arg[2] - arg[1] + 1) |-> arg[1] + i - 1]

Indices(args) ==
    SortSeq(FlattenSeq([i \in DOMAIN args |-> parse_range(args[i])]), LAMBDA a, b : a < b)

\* The next document of a text, whose lines are given, and whether the end of
\* the file was met.
NextDocument(lines, delimiter) ==
    LET blank == Min({i \in 1..(Len(lines) + 1) : i = Len(lines) + 1 \/ lines[i] = <<>>})
    IN  IF delimiter = Newline
        THEN [document |-> FlattenSeq([i \in 1..(blank - 1) |-> Append(lines[i], Newline)]),
              rest |-> SubSeq(lines, blank + 1, Len(lines)),
              eof |-> blank > Len(lines)]
        ELSE [document |-> IF lines = <<>> THEN <<>> ELSE lines[1],
              rest |-> IF lines = <<>> THEN <<>> ELSE Tail(lines),
              eof |-> lines = <<>>]

\* indices_it++ when the document is the one looked for.
IndexAfter(indices, found) == IF found THEN Tail(indices) ELSE indices

\* Documents from the next one on, `number` having been read; `indices` are
\* those still to be found, if only some are wanted.
RECURSIVE EncodeFrom(_, _, _, _, _)
EncodeFrom(lines, delimiter, number, some, indices) ==
    LET d == NextDocument(lines, delimiter)
        found == some /\ indices[1] = number + 1
        next == IndexAfter(indices, found)
        stop == d.eof \/ (found /\ next = <<>>)
    IN  IF d.eof /\ d.document = <<>> THEN <<>>
        ELSE (IF found \/ ~some THEN <<base64_encode(d.document)>> ELSE <<>>)
             \o (IF stop THEN <<>> ELSE EncodeFrom(d.rest, delimiter, number + 1, some, next))

encode(text, delimiter, indices) ==
    EncodeFrom(Lines(text, delimiter), delimiter, 0, indices # <<>>, indices)

\* -n: every line with the number in front, a last empty one too.
prefix_lines(document, number) ==
    LET tokens == Tokens(document, Newline)
    IN  FlattenSeq([i \in DOMAIN tokens |-> <<48 + number, Tab>> \o Append(tokens[i], Newline)])

ContainsDelimiter(document, delimiter) ==
    \E i \in DOMAIN document :
        /\ document[i] = delimiter
        /\ delimiter = Newline => i < Len(document) /\ document[i + 1] = Newline

\* What was put into `out`, and whether an exception of base64_decode has ended
\* the program there: nobody catches it.
RECURSIVE DecodeFrom(_, _, _, _, _, _)
DecodeFrom(lines, delimiter, number, some, indices, prefix) ==
    IF lines = <<>> THEN [text |-> <<>>, warning |-> FALSE, thrown |-> FALSE]
    ELSE LET decoded == base64_decode(lines[1])
             document == decoded.out
             found == some /\ indices[1] = number + 1
             next == IndexAfter(indices, found)
             others == DecodeFrom(Tail(lines), delimiter, number + 1, some, next, prefix)
             printed == Append(IF prefix THEN prefix_lines(document, number + 1) ELSE document, delimiter)
         IN  IF some /\ ~found THEN others
             ELSE IF decoded.thrown THEN [text |-> <<>>, warning |-> FALSE, thrown |-> TRUE]
             ELSE IF found /\ next = <<>>
             THEN [text |-> printed, warning |-> ContainsDelimiter(document, delimiter), thrown |-> FALSE]
             ELSE [others EXCEPT !.text = printed \o @,
                                 !.warning = @ \/ ContainsDelimiter(document, delimiter)]

decode(lines, delimiter, indices, prefix) ==
    DecodeFrom(lines, delimiter, 0, indices # <<>>, indices, prefix)
=============================================================================
