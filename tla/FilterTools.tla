---------------------------- MODULE FilterTools ----------------------------
(***************************************************************************)
(* The tools that decide line by line, and train_case with apply_case, on  *)
(* every small input.                                                      *)
(***************************************************************************)
EXTENDS LineFilters, Truecase, ToolRun

CONSTANTS
    MaxFiltered,   \* bound: lines to be filtered
    MaxCleaned     \* bound: characters of a line to be cleaned

-----------------------------------------------------------------------------
(* Inputs *)

CrawledLines ==
    {<<>>, <<"sp">>, <<"x">>, <<"sp", "x">>, <<"x", "sp">>, <<"x", "sp", "x">>, <<"doc", "x">>, <<"sp", "doc">>,
     <<"x", "bad">>}

CrawlInputs == [removing : BoundedSeq(CrawledLines, 1), lines : BoundedSeq(CrawledLines, MaxFiltered)]

ShardInputs ==
    [listed : 0..2, prefix : BOOLEAN, number : {<<>>} \cup {<<n>> : n \in {0, 1, 2, 10, 11}},
     keys : BoundedSeq({"a", "b", "c"}, MaxFiltered), hash : [{"a", "b", "c"} -> 0..2]]

\* Columns 1 and 2, the key of two columns, the value, and what follows.
ColumnLine(key, value, after) == <<"x", "tab", "tab">> \o key \o <<"tab", "y", "tab">> \o value \o after
SubstituteLines ==
    {ColumnLine(k, v, a) : k \in {<<>>, <<"x">>}, v \in {<<>>, <<"x">>, <<"y">>},
                           a \in {<<>>, <<"tab">>, <<"tab", "x">>, <<"tab", "y", "tab">>}}
SubstituteInputs == BoundedSeq(SubstituteLines, 2)

CleaningOptions ==
    {[min_chars |-> 2, character_run |-> 3, max_common_inherited |-> <<1, 2>>, min_punct |-> <<0, 1>>,
      min_punct_sample_size |-> 9, scripts |-> {"Latin"}, min_scripts |-> <<2, 3>>],
     [min_chars |-> 0, character_run |-> 2, max_common_inherited |-> <<1, 1>>, min_punct |-> <<1, 3>>,
      min_punct_sample_size |-> 2, scripts |-> {}, min_scripts |-> <<1, 1>>]}

CleaningInputs ==
    [line : BoundedSeq({"latin", "cyrillic", "accent", "digit", "punct", "sp", "ogham space", "bad", "tab"}, MaxCleaned),
     options : CleaningOptions]

-----------------------------------------------------------------------------
(* Sentences *)

Word(w, c) == [word |-> w, casing |-> c]

SentencePair(source, target, links, from_length) ==
    [source |-> source, target |-> target, links |-> links, from_length |-> from_length, to_length |-> Len(target)]

TrainingSentences ==
    {SentencePair(s, <<Word("the", "lower")>> \o t, l, 2) :
        s \in {<<"s", "s">>, <<"s", "t">>},
        t \in {<<Word("the", "lower")>>, <<Word("the", "Title")>>, <<Word("the", "Title"), Word("the", "lower")>>},
        l \in {<<<<1>>, <<2>>>>, <<<<2>>, <<1, 2, 3>>>>, <<<<>>, <<0>>>>, <<<<>>, <<2>>, <<2>>>>, <<<<>>, <<2>>>>}}
    \cup {SentencePair(<<"s", "t">>, <<Word("a", "lower"), Word("the", "Title")>>, <<<<>>, <<2>>>>, 3)}

AppliedSentences ==
    [source : {<<"s">>, <<"t", "s">>}, target : {<<>>, <<Word("the", "lower")>>, <<Word("the", "Title"), Word("a", "lower")>>},
     links : {<<>>, <<<<0, 0>>>>, <<<<0, 0>>, <<1, 0>>>>, <<<<1, 0>>, <<0, 0>>>>, <<<<0, 0>>, <<0, 1>>>>}]

CaseInputs == [training : BoundedSeq(TrainingSentences, 2), backwards : BOOLEAN, sentence : AppliedSentences]

-----------------------------------------------------------------------------
(* The tools *)

RunCommonCrawl ==
    Return("crawl", [kept |-> CommonCrawl(input.removing, input.lines), left |-> SubtractLines(input.removing, input.lines)])

Sharded(outputs) ==
    [thrown |-> outputs.thrown, names |-> outputs.names, divides |-> input.keys # <<>> /\ outputs.names = <<>>,
     shards |-> IF outputs.names = <<>> THEN <<>> ELSE Shard(input.keys, input.hash, Len(outputs.names))]
RunShard == Return("shard", Sharded(ParseOutputs(input.listed, input.prefix, input.number)))

RunSubstitute == Return("substitute", Substitute(input))

RunCleaning == Return("clean", SimpleCleaningFilterFields(input.line, input.options))

AppliedAfter(trained) ==
    [trained |-> trained,
     applied |-> ApplySentence(ReadModel(Dump(trained.map, input.backwards)), input.sentence)]
RunCases == Return("cases", AppliedAfter(Train(input.training)))

-----------------------------------------------------------------------------
(* Properties *)

\* A line of the crawl is kept, without the spaces around it, where it comes
\* first, is UTF-8, does not begin a document and is not among the lines to be
\* removed, whatever spaces are around those.  subtract_lines copies exactly the
\* lines that are not to be removed, as they are.
CrawlExact ==
    LET stripped == [i \in DOMAIN input.lines |-> StripSpaces(input.lines[i])]
        Kept(i) ==
            /\ "bad" \notin Range(stripped[i])
            /\ stripped[i] # <<>> => stripped[i][1] # "doc"
            /\ \A j \in 1..(i - 1) : stripped[j] # stripped[i]
            /\ \A r \in DOMAIN input.removing : StripSpaces(input.removing[r]) # stripped[i]
        kept == SelectSeq([i \in DOMAIN stripped |-> i], Kept)
        Removed(i) == \E r \in DOMAIN input.removing : input.removing[r] = input.lines[i]
        others == SetToSortSeq({i \in DOMAIN input.lines : ~Removed(i)}, <)
    IN  /\ result.kept = [n \in DOMAIN kept |-> stripped[kept[n]]]
        /\ result.left = [n \in DOMAIN others |-> input.lines[others[n]]]

\* If the arguments of shard are accepted, there is a file for every line: the
\* hash of its key is never divided by zero files.
EveryLineHasFile == Returned("shard") /\ ~result.thrown => ~result.divides

\* Every line is in one file, in order, and lines with equal keys are in the
\* same one; file names made from a prefix differ and are equally long.  Zero
\* files, asked for with a prefix, are left to EveryLineHasFile.
ShardsExact ==
    LET shards == result.shards
        FilesOf(i) == {n \in DOMAIN shards : i \in Range(shards[n])}
    IN  /\ result.thrown => result.names = <<>>
        /\ ~result.thrown /\ ~(input.prefix /\ input.number = <<0>>) =>
            /\ Len(shards) = (IF input.prefix THEN input.number[1] ELSE input.listed)
            /\ IsInjective(result.names)
            /\ \A n, m \in DOMAIN result.names : Len(result.names[n]) = Len(result.names[m])
            /\ \A n \in DOMAIN shards : \A a, b \in DOMAIN shards[n] : a < b => shards[n][a] < shards[n][b]
            /\ \A i \in DOMAIN input.keys : Cardinality(FilesOf(i)) = 1
            /\ \A i, j \in DOMAIN input.keys : input.keys[i] = input.keys[j] => FilesOf(i) = FilesOf(j)

\* The text between two delimiters.
DelimitersIn(line) == {0, Len(line) + 1} \cup {i \in DOMAIN line : line[i] = "tab"}
NthDelimiter(line, n) ==
    CHOOSE d \in DelimitersIn(line) : Cardinality({e \in DelimitersIn(line) : e < d}) = n - 1
ColumnOf(line, n) == SubSeq(line, NthDelimiter(line, n) + 1, NthDelimiter(line, n + 1) - 1)
ColumnCount(line) == Cardinality(DelimitersIn(line)) - 1

\* Lines with fewer than six columns stop substitute; otherwise a line keeps
\* all its columns but the fifth, which is that of the first line with the same
\* third and fourth.  An empty sixth column that is the last one is not said to
\* be there or not: that is a line that ends in a delimiter.
SubstituteExact ==
    LET Short(i) == ColumnCount(input[i]) < 6
        Open(i) == ColumnCount(input[i]) = 6 /\ ColumnOf(input[i], 6) = <<>>
        Same(i, j) == ColumnOf(input[i], 3) = ColumnOf(input[j], 3) /\ ColumnOf(input[i], 4) = ColumnOf(input[j], 4)
        First(i) == Min({j \in 1..i : Same(i, j)})
    IN  /\ (\A i \in DOMAIN input : ~Open(i)) => (result.thrown <=> \E i \in DOMAIN input : Short(i))
        /\ ~result.thrown => Len(result.out) = Len(input)
        /\ \A i \in DOMAIN result.out :
            /\ ColumnCount(result.out[i]) = ColumnCount(input[i])
            /\ \A n \in 1..ColumnCount(input[i]) :
                ColumnOf(result.out[i], n) = ColumnOf(input[IF n = 5 THEN First(i) ELSE i], n)

\* A column passes if it has no bad character and no run of `run` characters
\* that are equal and no spaces, is long enough, and the shares of common
\* characters, punctuation and scripts are right.
CleanColumn(text, o, run) ==
    LET n == Len(text)
        Of(chars) == Cardinality({i \in 1..n : text[i] \in chars})
        common == Of({"accent", "digit", "punct"})
        letters == Of({"latin", "cyrillic", "ogham space"})
    IN  /\ Of({"bad"}) = 0
        /\ \A i \in 1..n : \A j \in i..n :
            j - i + 1 >= run /\ (\A k \in i..j : text[k] = text[i]) => text[i] \in {"sp", "ogham space"}
        /\ n >= o.min_chars
        /\ common * o.max_common_inherited[2] <= o.max_common_inherited[1] * n
        /\ n <= o.min_punct_sample_size \/ Of({"punct"}) * o.min_punct[2] >= o.min_punct[1] * n
        /\ o.scripts = {} \/ Of({"latin"}) * o.min_scripts[2] >= o.min_scripts[1] * letters

EndsInDelimiter(line) == line # <<>> /\ Last(line) = "tab"

CleanLine(line, o, run) == \A n \in 1..ColumnCount(line) : CleanColumn(ColumnOf(line, n), o, run)

\* A line passes if and only if all its columns do.  Spaces of other scripts than
\* the common one are left to SpacesExcluded, lines that end in a delimiter to
\* KeysLikeCut.
CleaningExact ==
    "ogham space" \notin Range(input.line) /\ ~EndsInDelimiter(input.line) =>
        (result <=> CleanLine(input.line, input.options, input.options.character_run))

\* Spaces, of whichever script, do not count as common or inherited characters:
\* a line in which those are few enough, and nothing else is wrong, passes.
SpacesExcluded ==
    Returned("clean") /\ CleanLine(input.line, input.options, input.options.character_run) => result

\* Only a character that comes more than character_run times in a row removes
\* a line.
RunsLongerOnly ==
    Returned("clean") /\ "ogham space" \notin Range(input.line) =>
        (CleanLine(input.line, input.options, input.options.character_run + 1) => result)

\* Tools that decide line by line: each line is judged by itself and by the
\* lines before it exactly as described, and none is lost, moved or changed
\* otherwise.
FiltersExact ==
    /\ Returned("crawl") => CrawlExact
    /\ Returned("shard") => ShardsExact
    /\ Returned("substitute") => SubstituteExact
    /\ Returned("clean") => CleaningExact

\* How often a source word was aligned with a casing of a word, away from the
\* beginning of the sentence.
TimesSeen(source, target) ==
    LET Links(k) ==
            LET t == input.training[k]
            IN  {<<k, i, j>> : i \in 2..Len(t.source), j \in 1..3}
        Counted(x) ==
            LET t == input.training[x[1]]
            IN  /\ t.from_length = Len(t.source)
                /\ x[2] \in DOMAIN t.links /\ x[3] \in DOMAIN t.links[x[2]]
                /\ t.links[x[2]][x[3]] > 1
                /\ t.source[x[2]] = source /\ t.target[t.links[x[2]][x[3]]] = target
    IN  Cardinality({x \in UNION {Links(k) : k \in DOMAIN input.training} : Counted(x)})

\* After training, a word gets a casing that was seen most often with the
\* source word it is aligned to, with the last such word if there are several;
\* other words are left alone, and no word becomes another.  Nothing is read
\* past the end of a line with words; NothingBehindEnd is about empty ones.
CasesExact ==
    LET sentence == input.sentence
        applied == result.applied
        CasingsOf(w) == {Word(w, c) : c \in {"lower", "Title"}}
        Seen(source, w) == \E t \in CasingsOf(w) : TimesSeen(source, t) > 0
        Known(j) == {n \in DOMAIN sentence.links : sentence.links[n][2] = j - 1
                        /\ Seen(sentence.source[sentence.links[n][1] + 1], sentence.target[j].word)}
        SourceOf(j) == sentence.source[sentence.links[Max(Known(j))][1] + 1]
    IN  ~result.trained.thrown =>
        /\ applied.thrown <=> \E n \in DOMAIN sentence.links :
                sentence.links[n][1] >= Len(sentence.source) \/ sentence.links[n][2] >= Len(sentence.target)
        /\ sentence.target # <<>> => ~applied.undefined
        /\ ~applied.thrown => \A j \in DOMAIN sentence.target :
            /\ applied.target[j].word = sentence.target[j].word
            /\ Known(j) = {} => applied.target[j] = sentence.target[j]
            /\ Known(j) # {} => \A t \in CasingsOf(sentence.target[j].word) :
                    TimesSeen(SourceOf(j), t) <= TimesSeen(SourceOf(j), applied.target[j])

\* apply_case writes a line without stepping past the end of its words, an
\* empty line too.
NothingBehindEnd == Returned("cases") /\ ~result.trained.thrown => ~result.applied.undefined
=============================================================================
