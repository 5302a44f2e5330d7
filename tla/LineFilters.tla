---------------------------- MODULE LineFilters ----------------------------
(***************************************************************************)
(* Tools that decide line by line: commoncrawl_dedupe and subtract_lines,  *)
(* which keep a line or not, shard, which chooses a file for it,           *)
(* substitute, which replaces a column by the one seen first, and          *)
(* simple_cleaning, which counts kinds of characters.                      *)
(*                                                                         *)
(* A hash of 64 bits stands for what was hashed.  A character is a name:   *)
(* "doc" begins a line between documents, "bad" is not UTF-8 or a control    *)
(* character, and "ogham space" is a space that is not in the common       *)
(* script.                                                                 *)
(***************************************************************************)
EXTENDS Fields

-----------------------------------------------------------------------------
(* commoncrawl_dedupe and subtract_lines *)

StripSpaces(l) ==
    LET visible == {i \in DOMAIN l : l[i] # "sp"}
    IN  IF visible = {} THEN <<>> ELSE SubSeq(l, Min(visible), Max(visible))

BeginsDocument(l) == l # <<>> /\ l[1] = "doc"
IsUTF8(l) == \A i \in DOMAIN l : l[i] # "bad"

\* Slip: the lines to be removed keep their spaces.
LoadRemovedUnstripped(removing) == Range(removing)

LoadRemoved(removing) == {StripSpaces(l) : l \in Range(removing)}

\* IsNewLine inserts what it is asked about, which is nothing that begins a document.
FilterStripped(s, l) ==
    IF BeginsDocument(l) THEN s
    ELSE [table |-> s.table \cup {l}, out |-> IF l \notin s.table /\ IsUTF8(l) THEN Append(s.out, l) ELSE s.out]
CommonCrawl(removing, lines) ==
    FoldLeft(LAMBDA s, l : FilterStripped(s, StripSpaces(l)), [table |-> LoadRemoved(removing), out |-> <<>>], lines).out

SubtractLines(subtract, lines) == SelectSeq(lines, LAMBDA l : l \notin Range(subtract))

-----------------------------------------------------------------------------
(* shard: a number is <<>> where it is not given *)

\* Decimal digits of the last index; the loop does not count any for zero.
ShardDigits(number) == Min({d \in 0..9 : number - 1 < 10^d})

ShardName(i, digits) ==
    LET width == Max({1, digits} \cup {d \in 1..9 : i >= 10^(d - 1)})
    IN  [k \in 1..width |-> (i \div 10^(width - k)) % 10]

\* The names of the outputs, or that the arguments do not fit together.
ParseOutputs(listed, prefix, number) ==
    IF listed = 0
    THEN [thrown |-> ~prefix \/ number = <<>>,
          names |-> IF ~prefix \/ number = <<>> THEN <<>>
                    ELSE [i \in 1..number[1] |-> ShardName(i - 1, ShardDigits(number[1]))]]
    ELSE [thrown |-> prefix \/ (number # <<>> /\ number[1] # listed),
          names |-> IF prefix \/ (number # <<>> /\ number[1] # listed) THEN <<>>
                    ELSE [i \in 1..listed |-> <<i>>]]

\* Line i has keys[i].  There may be no outputs to divide by.
ShardOf(key, hash, count) == (hash[key] % count) + 1
Shard(keys, hash, count) ==
    FoldLeft(LAMBDA out, i : [out EXCEPT ![ShardOf(keys[i], hash, count)] = Append(@, i)],
             [n \in 1..count |-> <<>>], [i \in DOMAIN keys |-> i])

-----------------------------------------------------------------------------
(* substitute: columns 3 and 4 are the key, column 5 is the value *)

SegmentFields ==
    <<[begin |-> 0, end |-> 2], [begin |-> 2, end |-> 4], [begin |-> 4, end |-> 5], [begin |-> 5, end |-> kInfiniteEnd]>>

\* Up to the end of the sentences, then the other value and what came after.
WithValue(segments, value) ==
    segments[1] \o <<"tab">> \o segments[2] \o <<"tab">> \o value \o <<"tab">> \o segments[4]

SubstituteSegments(s, line, segments) ==
    IF Len(segments) # 4 THEN [s EXCEPT !.thrown = TRUE]
    ELSE IF segments[2] \in DOMAIN s.values
    THEN [s EXCEPT !.out = Append(@, WithValue(segments, s.values[segments[2]]))]
    ELSE [s EXCEPT !.out = Append(@, line),
                   !.values = [k \in DOMAIN @ \cup {segments[2]} |-> IF k \in DOMAIN @ THEN @[k] ELSE segments[3]]]

Substitute(lines) ==
    FoldLeft(LAMBDA s, l : IF s.thrown THEN s ELSE SubstituteSegments(s, l, RangeFields(l, SegmentFields)),
             [values |-> [k \in {} |-> <<>>], out |-> <<>>, thrown |-> FALSE], lines)

-----------------------------------------------------------------------------
(* simple_cleaning: fractions are exact, size_t has Modulus^4 values *)

ScriptOf(c) ==
    CASE c = "latin" -> "Latin" [] c = "cyrillic" -> "Cyrillic" [] c = "ogham space" -> "Ogham"
      [] c = "accent" -> "Inherited" [] OTHER -> "Common"
IsSpace(c) == c \in {"sp", "ogham space"}

CountOf(text, scripts) == Len(SelectSeq(text, LAMBDA c : ScriptOf(c) \in scripts))

\* The loop over the characters, up to a bad one or the end of a long run.
CleanCharacter(s, c, character_run) ==
    [passed |-> s.passed /\ c # "bad"
                /\ ~(c = s.previous /\ s.run + 1 >= character_run /\ ~IsSpace(c)),
     previous |-> c,
     run |-> IF c = s.previous THEN s.run + 1 ELSE 1]
CleanCharacters(text, character_run) ==
    FoldLeft(LAMBDA s, c : CleanCharacter(s, c, character_run), [passed |-> TRUE, previous |-> "none", run |-> 0], text).passed

CommonWithoutSpaces(text) ==
    (CountOf(text, {"Common", "Inherited"}) - Len(SelectSeq(text, IsSpace))) % Modulus^4

MoreThan(n, fraction, all) == n * fraction[2] > fraction[1] * all
LessThan(n, fraction, all) == n * fraction[2] < fraction[1] * all

SimpleCleaningFilter(text, o) ==
    /\ CleanCharacters(text, o.character_run)
    /\ Len(text) >= o.min_chars
    /\ ~MoreThan(CommonWithoutSpaces(text), o.max_common_inherited, Len(text))
    /\ ~(Len(text) > o.min_punct_sample_size
         /\ LessThan(Len(SelectSeq(text, LAMBDA c : c = "punct")), o.min_punct, Len(text)))
    /\ o.scripts # {} =>
         ~LessThan(CountOf(text, o.scripts), o.min_scripts, Len(text) - CountOf(text, {"Common", "Inherited"}))

AllFields == <<[begin |-> 0, end |-> kInfiniteEnd]>>
TextsIn(line) == {SubSeq(line, i, j) : i \in 1..(Len(line) + 1), j \in 0..Len(line)}
SimpleCleaningFilterFields(line, o) ==
    IndividualFields(line, AllFields, {t \in TextsIn(line) : ~SimpleCleaningFilter(t, o)}).passed
=============================================================================
