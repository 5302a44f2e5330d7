---------------------------- MODULE ToolPromises ----------------------------
(***************************************************************************)
(* What the README, usages, comments and messages say of the text tools    *)
(* and the code does not do.  The promises are put to the test one after   *)
(* the other: the tool is run on any of its inputs, and a promise that the *)
(* result breaks is given up.                                              *)
(***************************************************************************)
EXTENDS TextTools

VARIABLE kept    \* the promises that no run has broken yet, in order

\* Each promise with the tool that it is about.
Promises ==
    <<<<"WidthKept", "wrap">>, <<"KeysLikeCut", "fields">>, <<"ZeroRefused", "fields">>, <<"AllChosen", "docenc">>,
      <<"ForeignRefused", "base64">>, <<"LinesEnd", "truecase">>, <<"NothingBehindEnd", "cases">>,
      <<"TextFits", "write">>, <<"NothingBehindMemory", "memory">>, <<"NewIsZero", "memory">>,
      <<"RunsLongerOnly", "clean">>, <<"SpacesExcluded", "clean">>, <<"EveryLineHasFile", "shard">>>>

Holds(promise) ==
    CASE promise = "WidthKept" -> WidthKept
      [] promise = "KeysLikeCut" -> KeysLikeCut
      [] promise = "ZeroRefused" -> ZeroRefused
      [] promise = "AllChosen" -> AllChosen
      [] promise = "ForeignRefused" -> ForeignRefused
      [] promise = "LinesEnd" -> LinesEnd
      [] promise = "NothingBehindEnd" -> NothingBehindEnd
      [] promise = "TextFits" -> TextFits
      [] promise = "NothingBehindMemory" -> NothingBehindMemory
      [] promise = "NewIsZero" -> NewIsZero
      [] promise = "RunsLongerOnly" -> RunsLongerOnly
      [] promise = "SpacesExcluded" -> SpacesExcluded
      [] promise = "EveryLineHasFile" -> EveryLineHasFile

\* Between two tests there is no tool.
Resting == tool = "none"
NoTool == tool' = "none" /\ input' = <<>> /\ result' = <<>> /\ done' = FALSE

RunTool ==
    /\ Resting /\ kept # <<>>
    /\ tool' = kept[1][2]
    /\ input' \in InputsOf(tool')
    /\ UNCHANGED <<result, done, kept>>

ToolReturns == Next /\ UNCHANGED kept

PromiseBroken ==
    /\ done /\ ~Holds(kept[1][1])
    /\ kept' = Tail(kept)
    /\ NoTool

PromisesInit == tool = "none" /\ input = <<>> /\ result = <<>> /\ done = FALSE /\ kept = Promises
PromisesSpec == PromisesInit /\ [][RunTool \/ ToolReturns \/ PromiseBroken]_<<vars, kept>>

\* At least one of these promises is kept for every input:
\* WidthKept ("Split input lines into lines of at most INT bytes", README.md:166),
\* KeysLikeCut and ZeroRefused ("Fields to use for key like cut -f",
\*   preprocess/dedupe_main.cc:30),
\* AllChosen ("You can specify multiple indices or ranges at once.", README.md:202),
\* ForeignRefused ("Cannot interpret character", preprocess/base64.cc:77),
\* LinesEnd ("Skipping this word.", preprocess/truecase_main.cc:112),
\* NothingBehindEnd (the guard for empty lines, preprocess/apply_case_main.cc:95),
\* TextFits ("for null paranoia", util/float_to_string.hh:10),
\* NothingBehindMemory and NewIsZero ("Reallocates memory ala realloc but with
\*   option to zero the new memory", util/mmap.hh:137),
\* RunsLongerOnly and SpacesExcluded ("more than this many times", "excluding
\*   whitepsace", preprocess/simple_cleaning_main.cc:79-80),
\* EveryLineHasFile ("Shards stdin into multiple files by the hash of the key.",
\*   preprocess/shard_main.cc:47).
SomePromiseKept == kept # <<>>
=============================================================================
