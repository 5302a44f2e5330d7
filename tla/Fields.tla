------------------------------- MODULE Fields -------------------------------
(***************************************************************************)
(* preprocess/fields.cc and fields.hh: the columns of a line that make up  *)
(* its key, given in the notation of cut, and preprocess/dedupe_main.cc    *)
(* and parallel.hh, which keep the lines whose key is new.                 *)
(*                                                                         *)
(* An argument and a line are sequences of characters; a line's columns    *)
(* are separated by "tab".  A range [begin, end) counts columns from zero. *)
(* unsigned int has Modulus values.                                        *)
(***************************************************************************)
EXTENDS Integers, Sequences, FiniteSetsExt, SequencesExt

CONSTANT Modulus   \* 2^w for the width w of unsigned int

ASSUME ModulusAssumption == Modulus \in Nat \ {0}

kInfiniteEnd == Modulus - 1

Digits == [c \in {"0", "1", "2", "3"} |->
              CASE c = "0" -> 0 [] c = "1" -> 1 [] c = "2" -> 2 [] c = "3" -> 3]

-----------------------------------------------------------------------------
(* ParseFields and DefragmentFields *)

\* strtoul accepts a sign, and the result is cut off to unsigned int.
ConsumeInt(arg) ==
    LET negative == arg # <<>> /\ arg[1] = "-"
        rest == IF negative THEN Tail(arg) ELSE arg
        n == Max({k \in 0..Len(rest) : \A i \in 1..k : rest[i] \in DOMAIN Digits})
        value == FoldLeft(LAMBDA v, c : 10 * v + Digits[c], 0, SubSeq(rest, 1, n))
    IN  [ok |-> n > 0,
         value |-> (IF negative THEN -value ELSE value) % Modulus,
         rest |-> SubSeq(rest, n + 1, Len(rest))]

EndsItem(arg) == arg = <<>> \/ arg[1] = ","

\* A turn of the loop comes to a range and what follows it, or throws.
Found(begin, end, after) ==
    [ok |-> TRUE, range |-> [begin |-> begin, end |-> end],
     rest |-> IF after # <<>> /\ after[1] = "," THEN Tail(after) ELSE after]
Wrong == [ok |-> FALSE, range |-> [begin |-> 0, end |-> 0], rest |-> <<>>]

ParseLast(begin, last) ==
    IF last.ok /\ last.value > begin THEN Found(begin, last.value, last.rest) ELSE Wrong

ParseEnd(begin, arg) ==
    IF EndsItem(arg) THEN Found(begin, (begin + 1) % Modulus, arg)
    ELSE IF arg[1] # "-" THEN Wrong
    ELSE IF EndsItem(Tail(arg)) THEN Found(begin, kInfiniteEnd, Tail(arg))
    ELSE ParseLast(begin, ConsumeInt(Tail(arg)))

ParseBegin(first) ==
    IF first.ok THEN ParseEnd((first.value - 1) % Modulus, first.rest) ELSE Wrong

ParseField(arg) ==
    IF arg[1] = "-" THEN ParseEnd(0, arg) ELSE ParseBegin(ConsumeInt(arg))

Prepend(f, others) ==
    IF others.ok THEN [ok |-> TRUE, indices |-> <<f.range>> \o others.indices] ELSE others

RECURSIVE ParseFields(_), ParseOthers(_)
ParseFields(arg) ==
    IF arg = <<>> THEN [ok |-> TRUE, indices |-> <<>>] ELSE ParseOthers(ParseField(arg))
ParseOthers(f) ==
    IF f.ok THEN Prepend(f, ParseFields(f.rest)) ELSE [ok |-> FALSE, indices |-> <<>>]

\* Slip: the range is not compared again after it has grown.
RECURSIVE JoinAdjacentOnce(_, _)
JoinAdjacentOnce(indices, i) ==
    IF i > Len(indices) THEN [ok |-> TRUE, indices |-> indices]
    ELSE IF indices[i - 1].end > indices[i].begin THEN [ok |-> FALSE, indices |-> indices]
    ELSE IF indices[i - 1].end = indices[i].begin
    THEN JoinAdjacentOnce(RemoveAt([indices EXCEPT ![i - 1].end = indices[i].end], i), i + 1)
    ELSE JoinAdjacentOnce(indices, i + 1)

\* The loop over the sorted ranges.
RECURSIVE JoinAdjacent(_, _)
JoinAdjacent(indices, i) ==
    IF i > Len(indices) THEN [ok |-> TRUE, indices |-> indices]
    ELSE IF indices[i - 1].end > indices[i].begin THEN [ok |-> FALSE, indices |-> indices]
    ELSE IF indices[i - 1].end = indices[i].begin
    THEN JoinAdjacent(RemoveAt([indices EXCEPT ![i - 1].end = indices[i].end], i), i)
    ELSE JoinAdjacent(indices, i + 1)

DefragmentFields(indices) ==
    JoinAdjacent(SortSeq(indices, LAMBDA a, b : a.begin < b.begin), 2)

-----------------------------------------------------------------------------
(* Walking over the columns of a line *)

Ended == -1

\* std::find for the delimiter
FindDelimiter(line, from) ==
    Min({i \in from..Len(line) : i = Len(line) \/ line[i + 1] = "tab"})

\* Where the column n columns on begins, if the line goes on behind its
\* delimiter.
RECURSIVE AdvanceColumns(_, _, _)
AdvanceColumns(line, begin, n) ==
    IF n <= 0 THEN begin
    ELSE LET next == FindDelimiter(line, begin) + 1
         IN  IF next >= Len(line) THEN Ended ELSE AdvanceColumns(line, next, n - 1)

Text(line, from, to) == SubSeq(line, from + 1, to)

\* RangeFields: one text for each range.
RECURSIVE RangesFrom(_, _, _, _)
RangesFrom(line, indices, begin, index) ==
    IF indices = <<>> THEN <<>>
    ELSE LET f == Head(indices)
             from == AdvanceColumns(line, begin, f.begin - index)
             to == AdvanceColumns(line, from, f.end - Max({index, f.begin}))
         IN  IF from = Ended THEN <<>>
             ELSE IF f.end = kInfiniteEnd THEN <<Text(line, from, Len(line))>>
             ELSE IF to = Ended THEN <<Text(line, from, Len(line))>>
             ELSE <<Text(line, from, to - 1)>> \o RangesFrom(line, Tail(indices), to, f.end)

RangeFields(line, indices) == RangesFrom(line, indices, 0, 0)

\* IndividualFields: the texts the callback was given, until it rejects one.
RECURSIVE FieldsFrom(_, _, _, _, _)
FieldsFrom(line, indices, begin, index, rejected) ==
    IF indices = <<>> THEN [given |-> <<>>, passed |-> TRUE]
    ELSE LET f == Head(indices)
             from == AdvanceColumns(line, begin, f.begin - index)
             column == Max({index, f.begin})
             found == FindDelimiter(line, from)
             text == Text(line, from, found)
             others == FieldsFrom(line, indices, found + 1, column + 1, rejected)
         IN  IF from = Ended THEN [given |-> <<>>, passed |-> TRUE]
             ELSE IF column >= f.end THEN FieldsFrom(line, Tail(indices), from, column, rejected)
             ELSE IF text \in rejected THEN [given |-> <<text>>, passed |-> FALSE]
             ELSE IF found + 1 >= Len(line) THEN [given |-> <<text>>, passed |-> TRUE]
             ELSE [given |-> <<text>> \o others.given, passed |-> others.passed]

IndividualFields(line, indices, rejected) == FieldsFrom(line, indices, 0, 0, rejected)

-----------------------------------------------------------------------------
(* dedupe: a Pass says whether the key is new, and remembers it *)

IsNew(table, key) == key \notin table

\* Lines of one file, each given by its key.
RECURSIVE FilterLines(_, _)
FilterLines(keys, table) ==
    IF keys = <<>> THEN <<>>
    ELSE (IF IsNew(table, keys[1]) THEN <<keys[1]>> ELSE <<>>)
         \o FilterLines(Tail(keys), table \cup {keys[1]})

\* Slip: the exception at the end of the second file is taken for the end of
\* both.
PairsEndAlike(keys0, keys1) == IF keys0 = <<>> /\ keys1 # <<>> THEN 2 ELSE 0

\* A second file that is too short ends the process with an exception, one
\* that is too long with status 2.
PairsEnd(keys0, keys1) ==
    IF keys0 # <<>> THEN 134 ELSE IF keys1 # <<>> THEN 2 ELSE 0

\* Lines of two parallel files.  The second Pass is not asked about a line
\* whose partner the first one rejects.
RECURSIVE FilterPairs(_, _, _, _)
FilterPairs(keys0, keys1, table0, table1) ==
    IF keys0 = <<>> \/ keys1 = <<>> THEN [kept |-> <<>>, status |-> PairsEnd(keys0, keys1)]
    ELSE LET new0 == IsNew(table0, keys0[1])
             pass == new0 /\ IsNew(table1, keys1[1])
             others == FilterPairs(Tail(keys0), Tail(keys1), table0 \cup {keys0[1]},
                           IF new0 THEN table1 \cup {keys1[1]} ELSE table1)
         IN  [others EXCEPT !.kept = IF pass THEN <<<<keys0[1], keys1[1]>>>> \o @ ELSE @]

FilterParallel(keys0, keys1) == FilterPairs(keys0, keys1, {}, {})
=============================================================================
