----------------------------- MODULE TextTools -----------------------------
(***************************************************************************)
(* The algorithms of the text tools, each run once on every input of a     *)
(* bounded set: folding of lines, columns, dedupe, decimal numbers, WARC   *)
(* records, base64 documents, truecasing and transfers to and from files.  *)
(* They are pure functions of their input (and of what the system calls    *)
(* return), so a state is a tool with its input and, in the end, its       *)
(* result.                                                                 *)
(***************************************************************************)
EXTENDS WrapLines, Fields, IntegerToString, WarcReader, DocEnc, Truecase, FileOps, NumberTools, MemoryTools, FilterTools

CONSTANTS
    Tools,           \* the tools to run
    MaxCharacters,   \* bound: characters of a line to be folded
    MaxWidth,        \* bound: column_width
    MaxItems,        \* bound: items of a list of columns
    MaxLine,         \* bound: characters of a line with columns
    MaxLines,        \* bound: lines to be deduplicated
    MaxContent,      \* bound: bytes of a WARC record's content
    MaxText,         \* bound: bytes of a text for docenc, or of a code for base64
    MaxWords,        \* bound: words of a line for truecase
    MaxBytes,        \* bound: bytes of a file, and bytes to be moved
    MaxReturns       \* bound: system calls that do not move all they are asked for

ASSUME ToolsAssumption ==
    Tools \subseteq {"wrap", "fields", "dedupe", "numbers", "signed", "warc", "docenc", "base64", "truecase", "file",
                     "bignum", "write", "read", "pool", "memory", "crawl", "shard", "substitute", "clean", "cases"}

-----------------------------------------------------------------------------
(* Inputs *)

WrapInputs ==
    [characters : BoundedSeq({"a", ",", "w", "D", "trail"}, MaxCharacters),
     options : [column_width : 0..MaxWidth, keep : BOOLEAN, delimiters : {<<",", "D">>}]]

\* "first", "first-", "first-last", "-last", "-" and what is none of them.
Items ==
    [first : {<<>>, <<"0">>, <<"1">>, <<"2">>, <<"3">>}, dash : BOOLEAN,
     last : {<<>>, <<"1">>, <<"2">>, <<"3">>}]
    \ [first : {<<>>, <<"0">>, <<"1">>, <<"2">>, <<"3">>}, dash : {FALSE}, last : {<<"1">>, <<"2">>, <<"3">>}]
SingleItems == {i \in Items : ~i.dash /\ i.first # <<>>}
ItemLists == (BoundedSeq(Items, MaxItems) \cup [1..(MaxItems + 1) -> SingleItems]) \ {<<>>}

ItemText(i) == i.first \o (IF i.dash THEN <<"-">> ELSE <<>>) \o i.last
RECURSIVE ListText(_)
ListText(items) ==
    IF Len(items) = 1 THEN ItemText(items[1])
    ELSE ItemText(items[1]) \o <<",">> \o ListText(Tail(items))

FieldsInputs == [items : ItemLists, line : BoundedSeq({"x", "tab"}, MaxLine)]

DedupeInputs == [keys0 : BoundedSeq({"a", "b", "c"}, MaxLines), keys1 : BoundedSeq({"a", "b"}, MaxLines)]

\* Both sides of every step of the digits, and every four digits in either
\* half of eight.
EdgeParts ==
    UNION {{Power10 - 1, Power10, Power10 + 1} : Power10 \in {1, 10, 100, 1000, 10000, 100000, 1000000, 10000000}}
    \cup {12345678, 99999999}
Numbers ==
    [high : {0, 1, 9, 10, 99, 100, 999, 1000, 1843}, mid : EdgeParts, low : EdgeParts]
    \cup [high : {0}, mid : {7}, low : {b * 10000 + c : b \in 0..9999, c \in {0, 9999}} \cup {b * 10001 : b \in 0..9999}]

\* Signed integers of 16 bits, and pointers of four hexadecimal digits.
SignedNumbers == {-32768, -32767, -10001, -10000, -10, -9, -1, 0, 1, 9, 10, 10000, 32767}

-----------------------------------------------------------------------------
(* Files of WARC records *)

Crlf == <<"cr", "nl">>

Headings(length) ==
    {<<"warc">> \o e \o h : e \in {Crlf, <<"nl">>},
                            h \in {<<length>> \o Crlf, <<"other", "nl", length, "nl">>}}

LengthText(n) == CHOOSE c \in DOMAIN Lengths : Lengths[c] = n

GoodRecords ==
    UNION {{h \o Crlf \o content \o Crlf \o Crlf : h \in Headings(LengthText(Len(content)))} :
              content \in BoundedSeq({"x", "nl"}, MaxContent)}

\* Records with something wrong in them.
BadRecords ==
    {<<"warc">> \o Crlf \o h \o Crlf \o <<"x">> \o Crlf \o Crlf :
        h \in {<<"other">> \o Crlf, <<"length x">> \o Crlf, <<"length 1", "other">> \o Crlf,
               <<"length 1">> \o Crlf \o <<"length 1">> \o Crlf,
               <<"length 0">> \o Crlf, <<"length 2">> \o Crlf, <<"length -1">> \o Crlf,
               <<"length -4">> \o Crlf}}
    \cup {<<"other">> \o Crlf \o <<"length 0">> \o Crlf \o Crlf \o Crlf \o Crlf}

ReadSizes == [1..2 -> {1, 2, 4, 9}]

WarcInputs ==
    [records : BoundedSeq(GoodRecords, 2), cut : {0, 1, 2, 3, 5}, sizes : ReadSizes]
    \cup [records : {<<r, q>> : r \in GoodRecords, q \in BadRecords}, cut : {0}, sizes : ReadSizes]

WarcFile(i) ==
    LET all == FlattenSeq(i.records)
    IN  SubSeq(all, 1, Len(all) - (IF i.cut > Len(all) THEN Len(all) ELSE i.cut))

-----------------------------------------------------------------------------
(* Texts for docenc, codes for base64 *)

Arguments == {<<n>> : n \in 0..3} \cup {<<1, 2>>, <<2, 3>>}

\* One of the encoded lines may have been damaged.
DocEncInputs ==
    [text : BoundedSeq({Newline, Null, 120}, MaxText), delimiter : {Newline, Null},
     args : BoundedSeq(Arguments, 2), prefix : BOOLEAN, damaged : {0}]
    \cup [text : BoundedSeq({Newline, CarriageReturn, 120}, MaxText + 1), delimiter : {Newline},
          args : {<<>>}, prefix : {FALSE}, damaged : {0}]
    \cup [text : BoundedSeq({CarriageReturn, Null}, MaxText), delimiter : {Null},
          args : {<<>>, <<<<2>>>>}, prefix : {FALSE}, damaged : 0..2]

Damaged(documents, n) ==
    [i \in DOMAIN documents |-> IF i = n THEN <<Other>> \o documents[i] ELSE documents[i]]

Base64Inputs ==
    [bytes : BoundedSeq({0, 1, 170, 255}, MaxText), codes : {<<>>}]
    \cup [bytes : {<<>>}, codes : BoundedSeq({0, 21, 63, Pad, Other, Byte127, Byte255}, MaxText)]

-----------------------------------------------------------------------------
(* Models and lines for truecase, system calls for files *)

Casings(w) == IF w = "the" THEN {"lower", "Title", "UPPER"} ELSE {"lower", "Title"}
ModelLines ==
    UNION {{line \in BoundedSeq([word : {w}, casing : Casings(w)], 3) : line # <<>> /\ IsInjective(line)} :
              w \in {"the", "a"}}
TextWords ==
    [word : {"the"}, casing : {"lower", "Title"}]
    \cup [word : {".", "(", "bad"}, casing : {"lower"}]

TruecaseInputs ==
    [model : BoundedSeq(ModelLines, 2), threshold : {3, 6}, line : BoundedSeq(TextWords, MaxWords)]

\* Byte i of a file is i, byte i of the data to be written is 100 + i.
FileInputs ==
    [size : 0..MaxBytes, amount : 0..MaxBytes, off : 0..MaxBytes,
     returns : BoundedSeq({Eintr, Error, 0, 1, 2}, MaxReturns)]

Descriptor(i) ==
    [file |-> [k \in 1..i.size |-> k], pos |-> Min({i.off, i.size}), returns |-> i.returns]
DataToWrite(i) == [k \in 1..i.amount |-> 100 + k]

InputsOf(t) ==
    CASE t = "wrap" -> WrapInputs
      [] t = "fields" -> FieldsInputs
      [] t = "dedupe" -> DedupeInputs
      [] t = "numbers" -> Numbers
      [] t = "signed" -> [value : SignedNumbers, nibbles : [1..4 -> {0, 1, 15}]]
      [] t = "warc" -> WarcInputs
      [] t = "docenc" -> DocEncInputs
      [] t = "base64" -> Base64Inputs
      [] t = "truecase" -> TruecaseInputs
      [] t = "file" -> FileInputs
      [] t = "bignum" -> BignumInputs
      [] t = "write" -> WriteInputs
      [] t = "read" -> ReadInputs
      [] t = "pool" -> PoolInputs
      [] t = "memory" -> MemoryInputs
      [] t = "crawl" -> CrawlInputs
      [] t = "shard" -> ShardInputs
      [] t = "substitute" -> SubstituteInputs
      [] t = "clean" -> CleaningInputs
      [] t = "cases" -> CaseInputs

Init ==
    /\ tool \in Tools
    /\ input \in InputsOf(tool)
    /\ result = <<>>
    /\ done = FALSE

-----------------------------------------------------------------------------
(* The tools *)

InputLine == FlattenSeq([i \in DOMAIN input.characters |-> Encoded(input.characters[i])])

FoldLine == Return("wrap", wrap_lines(InputLine, input.options))

\* The callback of IndividualFields rejects a column "xx".
Rejected == {<<"x", "x">>}

Selection(ok, line, indices) ==
    [ok |-> ok,
     texts |-> IF ok THEN RangeFields(line, indices) ELSE <<>>,
     checked |-> IF ok THEN IndividualFields(line, indices, Rejected)
                       ELSE [given |-> <<>>, passed |-> FALSE]]

\* ParseFields may have thrown before DefragmentFields is called, or that throws.
SelectWith(parsed, joined) == Selection(parsed.ok /\ joined.ok, input.line, joined.indices)

SelectColumns ==
    LET parsed == ParseFields(ListText(input.items))
    IN  Return("fields", SelectWith(parsed, DefragmentFields(parsed.indices)))

Deduplicate ==
    Return("dedupe", [single |-> FilterLines(input.keys0, {}),
                      parallel |-> FilterParallel(input.keys0, input.keys1)])

FitsIn32Bits(v) == v.high = 0 /\ (v.mid < 42 \/ (v.mid = 42 /\ v.low <= 94967295))

PrintNumber ==
    Return("numbers", {U64Sse2(input), U64Branchlut(input)}
                      \cup IF FitsIn32Bits(input) THEN {U32Sse2(input), U32Branchlut(input)} ELSE {})

PrintSigned ==
    Return("signed", [number |-> ToStringSigned(input.value, 65536),
                      pointer |-> ToStringPointer(input.nibbles)])

ReadWarc ==
    Return("warc", ReadAll([file |-> WarcFile(input), fd |-> 0, sizes |-> input.sizes, overhang |-> <<>>]))

\* The text is encoded and decoded, and encoded once more; and only the
\* documents that are asked for are, or with prefixes.
EncodeDocuments ==
    LET all == encode(input.text, input.delimiter, <<>>)
        back == decode(all, input.delimiter, <<>>, FALSE)
        indices == Indices(input.args)
    IN  Return("docenc",
            [all |-> all, back |-> back,
             again |-> encode(back.text, input.delimiter, <<>>),
             some |-> encode(input.text, input.delimiter, indices),
             someBack |-> decode(all, input.delimiter, indices, input.prefix).text,
             damagedBack |-> decode(Damaged(all, input.damaged), input.delimiter, indices, input.prefix)])

EncodeBytes ==
    LET code == base64_encode(input.bytes)
    IN  Return("base64", [code |-> code, back |-> base64_decode(code), decoded |-> base64_decode(input.codes)])

ApplyTruecase ==
    LET table == InsertLines(Specials(input.threshold), input.model)
    IN  Return("truecase", [entries |-> table.entries, applied |-> Apply(table, input.line)])

MoveBytes ==
    LET s == Descriptor(input)
        data == DataToWrite(input)
    IN  Return("file",
            [orThrow |-> ReadOrThrow(s, input.amount), orEof |-> ReadOrEOF(s, input.amount),
             write |-> WriteOrThrow(s, data),
             pread |-> ErsatzPRead(s, input.amount, input.off, <<>>),
             pwrite |-> ErsatzPWrite(s, data, s.pos)])

Next ==
    \/ FoldLine \/ SelectColumns \/ Deduplicate \/ PrintNumber \/ PrintSigned
    \/ ReadWarc \/ EncodeDocuments \/ EncodeBytes \/ ApplyTruecase \/ MoveBytes
    \/ ComputeBignum \/ WriteNumber \/ ReadNumber
    \/ UsePool \/ UseMemory
    \/ RunCommonCrawl \/ RunShard \/ RunSubstitute \/ RunCleaning \/ RunCases

Spec == Init /\ [][Next]_vars

-----------------------------------------------------------------------------
(* Folding, in terms of characters *)

CharWidth(c) == Len(Encoded(c))
BytesOf(chars, i, j) == FlattenSeq([k \in 1..(j - i + 1) |-> Encoded(chars[i + k - 1])])
IsDelimiter(o, c) == c \in Range(o.delimiters)

\* The last character of a line that begins with character i, if there are no
\* delimiters: as many as the width has room for, and at least one.
LastThatFits(chars, o, i) ==
    Max({j \in i..Len(chars) : j = i \/ Len(BytesOf(chars, i, j)) <= o.column_width})

\* Nothing needs to be cut: the line ends before it has filled the width.
EndsWithin(chars, o, i) == Len(BytesOf(chars, i, Len(chars))) < o.column_width

\* A character behind the first one begins within the width and ends outside.
Straddles(chars, o, i) ==
    \E j \in (i + 1)..Len(chars) :
        Len(BytesOf(chars, i, j - 1)) < o.column_width /\ o.column_width < Len(BytesOf(chars, i, j))

\* Where the delimiters begin that the last d among characters i..j is one of.
DelimitersBegin(chars, o, i, j, d) ==
    LET last == Max({k \in i..j : chars[k] = d})
    IN  Min({k \in 1..last : \A m \in k..last : IsDelimiter(o, chars[m])})

BestCut(chars, o, i) ==
    LET j == LastThatFits(chars, o, i)
        usable == {d \in 1..Len(o.delimiters) :
                     /\ \E k \in i..j : chars[k] = o.delimiters[d]
                     /\ DelimitersBegin(chars, o, i, j, o.delimiters[d]) > i}
    IN  IF usable = {} THEN j + 1
        ELSE DelimitersBegin(chars, o, i, j, o.delimiters[Min(usable)])

NextStart(chars, o, i, cut) ==
    Min({k \in cut..(Len(chars) + 1) :
            \/ k > Len(chars)
            \/ ~IsDelimiter(o, chars[k])
            \/ o.keep /\ k > i /\ Len(BytesOf(chars, i, k)) > o.column_width})

RECURSIVE FoldedFrom(_, _, _)
FoldedFrom(chars, o, i) ==
    IF i > Len(chars) THEN <<>>
    ELSE IF EndsWithin(chars, o, i)
    THEN <<[start |-> i, line |-> BytesOf(chars, i, Len(chars)), delimiters |-> <<>>]>>
    ELSE LET cut == BestCut(chars, o, i)
             next == NextStart(chars, o, i, cut)
         IN  <<IF o.keep THEN [start |-> i, line |-> BytesOf(chars, i, next - 1), delimiters |-> <<>>]
               ELSE [start |-> i, line |-> BytesOf(chars, i, cut - 1), delimiters |-> BytesOf(chars, cut, next - 1)]>>
             \o FoldedFrom(chars, o, next)

Folded(chars, o) ==
    IF chars = <<>> THEN <<[start |-> 1, line |-> <<>>, delimiters |-> <<>>]>> ELSE FoldedFrom(chars, o, 1)

\* The pieces a line can be cut into without breaking up a character.
WholeCharacters(piece) ==
    piece # <<>> => piece[1] # "trail" /\ piece[Len(piece)] \notin WideCharacters

\* A line that wrap_lines makes has at most column_width bytes, unless it is a
\* single character that has more.
WidthKept ==
    Returned("wrap") /\ ~result.thrown =>
        \A i \in DOMAIN result.lines :
            \/ Len(result.lines[i]) <= input.options.column_width
            \/ \E c \in Range(input.characters) : result.lines[i] = Encoded(c)

\* wrap_lines loses nothing, breaks up no character, makes at least one line (no
\* line at all would be the poison of the reader), and its delimiters come out
\* of a DelimiterList as they went in.  A line in which no character lies across
\* the end of the width is cut at the most preferred delimiter that does not
\* leave an empty line, although the scan goes back to the cut with what it had
\* seen behind it; WidthKept is about the other lines.
WrapExact ==
    Returned("wrap") =>
        LET o == input.options
            n == Len(result.lines)
        IN  /\ result.thrown <=> "trail" \in Range(input.characters)
            /\ ~result.thrown =>
                /\ n > 0 /\ Len(result.delimiters) = n
                /\ Joined(result.lines, result.delimiters) = InputLine
                /\ \A i \in 1..n :
                    /\ InputLine # <<>> => result.lines[i] # <<>>
                    /\ WholeCharacters(result.lines[i]) /\ WholeCharacters(result.delimiters[i])
                /\ LET folded == Folded(input.characters, o)
                   IN  (\A k \in DOMAIN folded : ~Straddles(input.characters, o, folded[k].start)) =>
                          /\ result.lines = [k \in DOMAIN folded |-> folded[k].line]
                          /\ result.delimiters = [k \in DOMAIN folded |-> folded[k].delimiters]
                /\ Unpacked(Packed(result.delimiters), 1, n) = result.delimiters

-----------------------------------------------------------------------------
(* Columns *)

\* An empty item at the end of a list is overlooked.
ItemsMeant(items) ==
    IF ItemText(items[Len(items)]) = <<>> THEN SubSeq(items, 1, Len(items) - 1) ELSE items

NumberOr(text, default) == IF text = <<>> THEN default ELSE Digits[text[1]]

ItemColumns(i) ==
    NumberOr(i.first, 1)..(IF i.dash THEN NumberOr(i.last, MaxLine + 1) ELSE NumberOr(i.first, 0))

WellFormed(items) ==
    /\ \A i \in DOMAIN items : ItemColumns(items[i]) # {}
    /\ \A i, j \in DOMAIN items : i # j => ItemColumns(items[i]) \cap ItemColumns(items[j]) = {}

UsesZero(items) == \E i \in DOMAIN items : items[i].first = <<"0">>

\* First and last character of every column, as cut counts them: a line with n
\* delimiters has n + 1 columns, and no delimiter belongs to a column.
ColumnStarts(line) == {1} \cup {i + 1 : i \in {k \in 1..Len(line) : line[k] = "tab"}}
ColumnEnd(line, start) ==
    Min({e \in (start - 1)..Len(line) : e = Len(line) \/ line[e + 1] = "tab"})
ColumnsOf(line) ==
    LET starts == SetToSortSeq(ColumnStarts(line), <)
    IN  [k \in DOMAIN starts |-> <<starts[k], ColumnEnd(line, starts[k])>>]

\* The text of each maximal run of selected columns.
TextsOf(line, selected) ==
    LET columns == ColumnsOf(line)
        present == selected \cap DOMAIN columns
        firsts == SetToSortSeq({k \in present : k - 1 \notin present}, <)
        LastOf(k) == Max({m \in present : k..m \subseteq present})
    IN  [r \in DOMAIN firsts |-> SubSeq(line, columns[firsts[r]][1], columns[LastOf(firsts[r])][2])]

\* The selected columns one by one, up to the first that is rejected.
CheckedOf(line, selected) ==
    LET columns == ColumnsOf(line)
        present == SetToSortSeq(selected \cap DOMAIN columns, <)
        texts == [k \in DOMAIN present |-> SubSeq(line, columns[present[k]][1], columns[present[k]][2])]
        upTo == Min({k \in 1..(Len(texts) + 1) : k > Len(texts) \/ texts[k] \in Rejected})
    IN  [given |-> SubSeq(texts, 1, Min({upTo, Len(texts)})), passed |-> upTo > Len(texts)]

Selected(items) == UNION {ItemColumns(items[i]) : i \in DOMAIN items}

\* ParseFields and DefragmentFields accept exactly the lists of ranges that do
\* not overlap, and RangeFields and IndividualFields pass on exactly the columns
\* that such a list selects, whichever of them the line has.  Column 0 is left
\* to ZeroRefused, the texts of lines that end in a delimiter to KeysLikeCut.
KeysExact ==
    Returned("fields") =>
        LET items == ItemsMeant(input.items)
        IN  ~UsesZero(items) =>
                /\ result.ok <=> WellFormed(items)
                /\ result.ok /\ ~EndsInDelimiter(input.line) =>
                     /\ result.texts = TextsOf(input.line, Selected(items))
                     /\ result.checked = CheckedOf(input.line, Selected(items))

\* The texts that make up the key of a line with delimiters are those that cut
\* would print.
KeysLikeCut ==
    Returned("fields") /\ result.ok /\ "tab" \in Range(input.line) =>
        LET items == ItemsMeant(input.items)
        IN  ~UsesZero(items) => result.texts = TextsOf(input.line, Selected(items))

\* Columns are counted from one, so a list with column 0 is refused.
ZeroRefused == Returned("fields") /\ UsesZero(input.items) => ~result.ok

-----------------------------------------------------------------------------
(* Deduplication *)

NewAt(keys, i) == \A j \in 1..(i - 1) : keys[j] # keys[i]

PositionsOf(kept, keys0, keys1) ==
    {i \in 1..Min({Len(keys0), Len(keys1)}) : <<keys0[i], keys1[i]>> \in Range(kept)}

\* dedupe keeps the first line of every key.  Of two parallel files it keeps
\* pairs in which neither side occurs in another pair kept, every pair whose
\* sides are both new among them, and it ends with a status other than zero if
\* one file is longer than the other.
KeptOnce ==
    Returned("dedupe") =>
        LET keys0 == input.keys0
            keys1 == input.keys1
            kept == result.parallel.kept
        IN  /\ result.single =
                 [n \in 1..Cardinality(Range(keys0)) |->
                     keys0[SetToSortSeq({i \in DOMAIN keys0 : NewAt(keys0, i)}, <)[n]]]
            /\ \A i, j \in DOMAIN kept : i # j => kept[i][1] # kept[j][1] /\ kept[i][2] # kept[j][2]
            /\ \A i \in 1..Min({Len(keys0), Len(keys1)}) :
                 NewAt(keys0, i) /\ NewAt(keys1, i) => <<keys0[i], keys1[i]>> \in Range(kept)
            /\ Cardinality(PositionsOf(kept, keys0, keys1)) >= Len(kept)
            /\ result.parallel.status = 0 <=> Len(keys0) = Len(keys1)

-----------------------------------------------------------------------------
(* Numbers *)

\* The value of the digits from..to of a text, read from the right.
ValueOfDigits(digits, from, to) ==
    FoldLeft(LAMBDA v, d : 10 * v + d, 0,
             SubSeq(digits, Max({1, Len(digits) - to + 1}), Len(digits) - from + 1))

WellWritten(digits) ==
    /\ digits # <<>> /\ \A i \in DOMAIN digits : digits[i] \in 0..9
    /\ digits[1] = 0 => Len(digits) = 1

\* All versions of ToString write the decimal digits of the value, without
\* zeros in front: the reciprocals of the SSE2 code divide exactly, and each
\* branch on the size of the value has the digits it needs.  Signs are written
\* correctly for the smallest integer too, and pointers in hexadecimal.
NumbersExact ==
    /\ Returned("numbers") =>
         \A digits \in result :
            /\ WellWritten(digits)
            /\ ValueOfDigits(digits, 1, 8) = input.low
            /\ ValueOfDigits(digits, 9, 16) = input.mid
            /\ ValueOfDigits(digits, 17, 24) = input.high
    /\ Returned("signed") =>
         LET negative == input.value < 0
             digits == IF negative THEN Tail(result.number) ELSE result.number
         IN  /\ negative <=> result.number[1] = Minus
             /\ WellWritten(digits)
             /\ ValueOfDigits(digits, 1, 8) = IF negative THEN -input.value ELSE input.value
             /\ FoldLeft(LAMBDA v, d : 16 * v + d, 0, result.pointer)
                  = FoldLeft(LAMBDA v, d : 16 * v + d, 0, input.nibbles)
             /\ result.pointer[1] = 0 => Len(result.pointer) = 1

-----------------------------------------------------------------------------
(* WARC records *)

\* However the reads are cut up, the records of a correct file come out one by
\* one, byte by byte, and then the end of the file.  If the last record is cut
\* off, or something is wrong with it, the records before it come out and then
\* there is an exception, never a quiet end.
RecordsExact ==
    Returned("warc") =>
        LET n == Len(input.records)
            good == Range(input.records) \subseteq GoodRecords
        IN  IF n = 0 \/ (good /\ input.cut = 0)
            THEN result = [records |-> input.records, status |-> "end"]
            ELSE /\ result.status = "thrown"
                 /\ SubSeq(result.records, 1, n - 1) = SubSeq(input.records, 1, n - 1)
                 /\ good => Len(result.records) = n - 1

-----------------------------------------------------------------------------
(* Documents *)

\* The numbers of the documents asked for; all of them if none is.
ChosenNumbers(documents, indices) ==
    IF indices = <<>> THEN DOMAIN documents ELSE Range(indices) \cap DOMAIN documents

Chosen(documents, indices) ==
    LET numbers == SetToSortSeq(ChosenNumbers(documents, indices), <)
    IN  [k \in DOMAIN numbers |-> documents[numbers[k]]]

\* A text without the carriage returns directly before a delimiter.
CrStripped(text, d) ==
    FlattenSeq([i \in DOMAIN text |->
        IF text[i] = CarriageReturn /\ i < Len(text) /\ text[i + 1] = d THEN <<>> ELSE <<text[i]>>])

\* What is left of a text when the prefix of every line is removed.
RECURSIVE Unprefixed(_)
Unprefixed(text) ==
    IF text = <<>> THEN <<>>
    ELSE LET n == FirstOf(text, Newline)
         IN  SubSeq(text, 3, n) \o Unprefixed(SubSeq(text, n + 1, Len(text)))

Bits(values, width) ==
    [i \in 1..(Len(values) * width) |->
        (values[(i - 1) \div width + 1] \div Power(width - 1 - ((i - 1) % width))) % 2]

BitGroups(bits, width, count) ==
    [g \in 1..count |->
        FoldLeft(LAMBDA v, i : 2 * v + (IF i <= Len(bits) THEN bits[i] ELSE 0), 0,
                 [k \in 1..width |-> (g - 1) * width + k])]

BeforePad(codes) == SubSeq(codes, 1, Min({i \in 1..(Len(codes) + 1) : i > Len(codes) \/ codes[i] = Pad}) - 1)

\* All documents with an index that is given are encoded, and no others,
\* whichever indices and ranges are given at once.
AllChosen ==
    Returned("docenc") /\ 0 \notin Range(Indices(input.args)) =>
        result.some = Chosen(result.all, Indices(input.args))

\* base64_decode throws at every character that is not part of base64.
ForeignRefused ==
    Returned("base64") /\ ~(Range(BeforePad(input.codes)) \subseteq 0..63) => result.decoded.thrown

\* docenc: encoding and decoding gives the text back, up to carriage returns
\* before delimiters and a missing end of the last document, and encoding that
\* again gives the same documents; the documents asked for come out and no
\* others, for indices that are each given once (AllChosen is about the rest);
\* prefixes can be removed; a damaged line ends the program if and only if its
\* document is wanted, behind the documents before it.  base64: the bits are
\* regrouped, padded to four characters, and decoded again; a character that
\* is not in the table is refused, and so is more padding than text.  Bytes 127
\* and 255 are left to ForeignRefused.
DocumentsExact ==
    /\ Returned("docenc") =>
         LET d == input.delimiter
             text == CrStripped(input.text, d)
             back == result.back.text
             indices == Indices(input.args)
             numbers == ChosenNumbers(result.all, indices)
             chosen == Chosen(result.all, indices)
             before == {i \in numbers : i < input.damaged}
         IN  /\ SubSeq(back, 1, Len(text)) = text
             /\ Len(back) - Len(text) \in 0..2
             /\ \A i \in (Len(text) + 1)..Len(back) : back[i] = d
             /\ CrStripped(back, d) = back => result.again = result.all
             /\ ~result.back.warning /\ ~result.back.thrown
             /\ IsInjective(indices) /\ 0 \notin Range(indices) =>
                  /\ result.some = chosen
                  /\ ~input.prefix => result.someBack = decode(chosen, d, <<>>, FALSE).text
                  /\ result.damagedBack.thrown <=> input.damaged \in numbers
                  /\ result.damagedBack.thrown =>
                       result.damagedBack.text =
                         decode(SubSeq(chosen, 1, Cardinality(before)), d, <<>>, FALSE).text
                  /\ input.prefix /\ d = Null /\ Null \notin Range(text) =>
                       \A k \in DOMAIN chosen :
                          Unprefixed(Tokens(result.someBack, Null)[k])
                             = Append(base64_decode(chosen[k]).out, Newline)
    /\ Returned("base64") =>
         LET n == Len(input.bytes)
             sextets == (8 * n + 5) \div 6
             codes == BeforePad(input.codes)
             pads == count_padding(input.codes)
         IN  /\ SubSeq(result.code, 1, sextets) = BitGroups(Bits(input.bytes, 8), 6, sextets)
             /\ Len(result.code) % 4 = 0 /\ Len(result.code) - sextets \in 0..2
             /\ \A i \in (sextets + 1)..Len(result.code) : result.code[i] = Pad
             /\ ~result.back.thrown /\ result.back.out = input.bytes
             /\ Range(codes) \cap {Byte127, Byte255} = {} =>
                  (result.decoded.thrown <=> (Other \in Range(codes) \/ (Len(input.codes) * 3) \div 4 < pads))
             /\ ~result.decoded.thrown /\ Range(codes) \subseteq 0..63 =>
                  result.decoded.out = BitGroups(Bits(codes, 6), 8, (6 * Len(codes)) \div 8)

-----------------------------------------------------------------------------
(* Truecasing *)

Mentions(line, w) == \E k \in DOMAIN line : line[k].word = w.word

IsMarker(w) == w \in {kEndSentence, kDelayedSentenceStart}

\* A casing that is listed, wherever it stands in its line.
IsKnown(model, w) == IsMarker(w) \/ \E l \in DOMAIN model : w \in Range(model[l])

\* The best casing: the first one of the first line about the word.
BestCasing(model, w) ==
    LET lines == {l \in DOMAIN model : Mentions(model[l], w)}
    IN  IF lines = {} THEN w ELSE model[Min(lines)][1]

\* There is nothing but opening brackets since the last end of a sentence.
BeginsSentence(line, i) ==
    \E j \in 0..(i - 1) :
        /\ j > 0 => line[j] = kEndSentence
        /\ \A k \in (j + 1)..(i - 1) : line[k] = kDelayedSentenceStart

\* truecase changes only the casing of words; it prints the most frequent
\* casing at the beginning of a sentence, also behind brackets, and for casings
\* that the model does not list, whatever the order of the model's lines.  What
\* is read through `top` after the table has moved never gets into the output.
\* A line with a word that is not UTF-8 is left to LinesEnd, what stands before
\* the word is not.
TruecaseExact ==
    LET line == input.line
        out == result.applied.out
    IN  /\ (\A i \in DOMAIN line : Utf8(line[i])) => result.applied.ends /\ Len(out) = Len(line)
        /\ Len(out) >= Max({i \in 0..Len(line) : \A k \in 1..i : Utf8(line[k])})
        /\ \A i \in DOMAIN out :
             out[i] = IF IsKnown(input.model, line[i]) /\ ~BeginsSentence(line, i) THEN line[i]
                      ELSE BestCasing(input.model, line[i])

\* truecase comes to the end of every line: a word that is not UTF-8 is skipped.
LinesEnd == Returned("truecase") => result.applied.ends

\* Casing tools: truecase, and train_case followed by apply_case, give every
\* word the casing their models saw most often, and change nothing else.
CasingExact ==
    /\ Returned("truecase") => TruecaseExact
    /\ Returned("cases") => CasesExact

-----------------------------------------------------------------------------
(* Transfers *)

\* How many bytes are there to be read.
There(from) == Min({input.amount, Max({0, input.size - from})})

\* Interrupted and short calls leave no trace: a transfer that ends well has
\* moved every byte once and in order, to where it belongs, and only the end
\* of the file makes ReadOrEOF return less.  If it fails, what was moved is a
\* prefix, and it fails only because a call did, or found nothing to move.
TransfersExact ==
    Returned("file") =>
        LET s == Descriptor(input)
            data == DataToWrite(input)
            failed == \E k \in DOMAIN input.returns : input.returns[k] \in {Error, 0}
            ReadAt(from, n) == [k \in 1..n |-> from + k]
            WrittenAt(n) == Overwritten(s.file, s.pos, SubSeq(data, 1, n))
        IN  /\ \A r \in {result.orThrow, result.orEof} :
                 r.s.file = s.file /\ r.s.pos = s.pos + Len(r.to) /\ r.to = ReadAt(s.pos, Len(r.to))
            /\ result.pread.to = ReadAt(input.off, Len(result.pread.to)) /\ result.pread.s.pos = s.pos
            /\ result.orThrow.status = "ok" => Len(result.orThrow.to) = input.amount
            /\ result.pread.status = "ok" => Len(result.pread.to) = input.amount
            /\ ~failed =>
                 /\ result.orEof.status = "ok" /\ Len(result.orEof.to) = There(s.pos)
                 /\ result.orThrow.status = "ok" <=> There(s.pos) = input.amount
                 /\ result.pread.status = "ok" <=> There(input.off) = input.amount
                 /\ result.write.status = "ok" /\ result.pwrite.status = "ok"
            /\ \A w \in {result.write, result.pwrite} :
                 /\ w.status = "ok" => w.s.file = WrittenAt(input.amount)
                 /\ \E n \in 0..input.amount : w.s.file = WrittenAt(n)
            /\ result.pwrite.s.pos = s.pos
            /\ result.write.status = "ok" => result.write.s.pos = s.pos + input.amount
=============================================================================
