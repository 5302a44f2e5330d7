------------------------------ MODULE Truecase ------------------------------
(***************************************************************************)
(* truecase: a table of casings is read from a model file, and the words   *)
(* of a line are printed in their best casing if they begin a sentence or  *)
(* their casing is not known.                                              *)
(*                                                                         *)
(* train_case and apply_case: the casing of a translated word that was     *)
(* seen most often with its source word, counted over aligned sentences    *)
(* and put into others.                                                    *)
(*                                                                         *)
(* A word is a record [word, casing] with the casings "lower", "Title" and *)
(* "UPPER"; the word "bad" is not UTF-8.  The table t is                   *)
(* [entries, threshold, moved]: the entries by word, the number of entries *)
(* at which it doubles, and whether its memory has moved since the         *)
(* reference `top` was taken.                                              *)
(***************************************************************************)
EXTENDS Integers, SequencesExt, Functions

ToLower(w) == [w EXCEPT !.casing = "lower"]
Utf8(w) == w.word # "bad"

\* What is read through a reference into memory that has moved.
Stale == [word |-> "stale", casing |-> "lower"]

-----------------------------------------------------------------------------
(* The table *)

\* AutoProbing::DoubleIfNeeded, called by every FindOrInsert, whether or not
\* the key will be found.
DoubleIfNeeded(t) ==
    IF Cardinality(DOMAIN t.entries) < t.threshold THEN t
    ELSE [t EXCEPT !.threshold = 2 * @, !.moved = TRUE]

WithEntry(t, w, entry) == [t EXCEPT !.entries = [x \in DOMAIN @ \cup {w} |-> IF x = w THEN entry ELSE @[x]]]

NewEntry(best, known) == [best |-> best, known |-> known, sentence_end |-> FALSE, delayed_sentence_start |-> FALSE]

\* The reference that Insert returns is good until the table moves again.
Insert(t, w) ==
    LET d == [DoubleIfNeeded(t) EXCEPT !.moved = FALSE]
    IN  IF w \in DOMAIN d.entries THEN [d EXCEPT !.entries[w].known = TRUE]
        ELSE WithEntry(d, w, NewEntry(w, TRUE))

InsertFollow(t, w, best, known) ==
    LET d == DoubleIfNeeded(t)
    IN  IF w \in DOMAIN d.entries THEN [d EXCEPT !.entries[w].known = @ \/ known]
        ELSE WithEntry(d, w, NewEntry(best, known))

\* top.best
TopBest(t, top) == IF t.moved THEN Stale ELSE t.entries[top].best

-----------------------------------------------------------------------------
(* The constructor *)

kEndSentence == [word |-> ".", casing |-> "lower"]
kDelayedSentenceStart == [word |-> "(", casing |-> "lower"]

Specials(threshold) ==
    LET empty == [entries |-> <<>>, threshold |-> threshold, moved |-> FALSE]
        ends == [Insert(empty, kEndSentence) EXCEPT !.entries[kEndSentence].sentence_end = TRUE]
    IN  [Insert(ends, kDelayedSentenceStart) EXCEPT
            !.entries[kDelayedSentenceStart].delayed_sentence_start = TRUE]

\* The casings behind the first one of a line.
RECURSIVE InsertOthers(_, _, _)
InsertOthers(t, top, others) ==
    IF others = <<>> THEN t
    ELSE InsertOthers(InsertFollow(t, others[1], TopBest(t, top), TRUE), top, Tail(others))

InsertLine(t, words) ==
    LET top == words[1]
        first == Insert(t, top)
        lower == IF top = ToLower(top) THEN first
                 ELSE InsertFollow(first, ToLower(top), TopBest(first, top), FALSE)
    IN  InsertOthers(lower, top, Tail(words))

RECURSIVE InsertLines(_, _)
InsertLines(t, lines) ==
    IF lines = <<>> THEN t ELSE InsertLines(InsertLine(t, lines[1]), Tail(lines))

-----------------------------------------------------------------------------
(* Apply *)

\* Slip: an opening bracket is a word like others.
StartsAfterAny(t, w, sentence_start) == w \in DOMAIN t.entries /\ t.entries[w].sentence_end

\* sentence_start behind a word
StartsAfter(t, w, sentence_start) ==
    /\ w \in DOMAIN t.entries
    /\ \/ t.entries[w].sentence_end
       \/ t.entries[w].delayed_sentence_start /\ sentence_start

Cased(t, w, sentence_start) ==
    IF w \in DOMAIN t.entries /\ t.entries[w].known /\ ~sentence_start THEN w
    ELSE IF ToLower(w) \in DOMAIN t.entries THEN t.entries[ToLower(w)].best
    ELSE w

\* A word that is not UTF-8 is tried again and again: `continue` does not
\* advance the iterator.
RECURSIVE ApplyFrom(_, _, _)
ApplyFrom(t, words, sentence_start) ==
    IF words = <<>> THEN [out |-> <<>>, ends |-> TRUE]
    ELSE IF ~Utf8(words[1]) THEN [out |-> <<>>, ends |-> FALSE]
    ELSE LET others == ApplyFrom(t, Tail(words), StartsAfter(t, words[1], sentence_start))
         IN  [others EXCEPT !.out = <<Cased(t, words[1], sentence_start)>> \o @]

Apply(t, words) == ApplyFrom(t, words, TRUE)
-----------------------------------------------------------------------------
(* train_case and apply_case: words are records [word, casing] too.  The files of
   a sentence pair are taken together. *)

\* hash(lowered target, hash(cased source))
CaseKey(source, target) == <<source, target.word>>

-----------------------------------------------------------------------------
(* train_case *)

\* Recorder::Add: map_[key][target] counts.
Add(map, key, target) ==
    [x \in DOMAIN map \cup {<<key, target>>} |->
        (IF x \in DOMAIN map THEN map[x] ELSE 0) + (IF x = <<key, target>> THEN 1 ELSE 0)]

\* Slip: the first word of a sentence counts too.
CountsLinkAlways(from, to) == TRUE

\* "Throw out beginning of sentence."
CountsLink(from, to) == from # 0 /\ to # 0

\* The number in the file counts from one; zero less one is a large number.
TrainLink(s, sentence, from, number) ==
    IF s.thrown THEN s
    ELSE IF number - 1 \notin 0..(Len(sentence.target) - 1) THEN [s EXCEPT !.thrown = TRUE]
    ELSE IF ~CountsLink(from, number - 1) THEN s
    ELSE [s EXCEPT !.map = Add(@, CaseKey(sentence.source[from + 1], sentence.target[number]), sentence.target[number])]

TrainWord(s, sentence, from) ==
    IF s.thrown THEN s
    ELSE IF from >= Len(sentence.source) THEN [s EXCEPT !.thrown = TRUE]
    ELSE FoldLeft(LAMBDA t, number : TrainLink(t, sentence, from, number), s, sentence.links[from + 1])

\* A sentence whose lengths are not those of the texts is left out.
Discarded(sentence) ==
    sentence.from_length # Len(sentence.source) \/ sentence.to_length # Len(sentence.target)

TrainSentence(s, sentence) ==
    IF Discarded(sentence) THEN s
    ELSE FoldLeft(LAMBDA t, from : TrainWord(t, sentence, from), s, [i \in DOMAIN sentence.links |-> i - 1])

Train(sentences) == FoldLeft(TrainSentence, [map |-> [x \in {} |-> 0], thrown |-> FALSE], sentences)

\* Recorder::Dump: for every key the targets with their counts, in the order
\* of a hash table.
Dump(map, backwards) ==
    [key \in {x[1] : x \in DOMAIN map} |->
        LET targets == {x \in DOMAIN map : x[1] = key}
            line == [i \in 1..Cardinality(targets) |->
                        LET x == SetToSeq(targets)[i] IN [target |-> x[2], count |-> map[x]]]
        IN  IF backwards THEN Reverse(line) ELSE line]

-----------------------------------------------------------------------------
(* apply_case *)

\* The first of the most frequent.
BestWord(line) ==
    FoldLeft(LAMBDA b, w : IF w.count > b.count THEN w ELSE b, [target |-> [word |-> "", casing |-> ""], count |-> 0], line).target

ReadModel(model) == [key \in DOMAIN model |-> BestWord(model[key])]

BestOr(best, source, target) ==
    IF CaseKey(source, target) \in DOMAIN best THEN best[CaseKey(source, target)] ELSE target

ApplyLink(s, best, sentence, link) ==
    IF s.thrown THEN s
    ELSE IF link[1] >= Len(sentence.source) \/ link[2] >= Len(sentence.target) THEN [s EXCEPT !.thrown = TRUE]
    ELSE [s EXCEPT !.target[link[2] + 1] = BestOr(best, sentence.source[link[1] + 1], @)]

\* An empty line is written by stepping over the end of the vector, which is undefined.
ApplySentence(best, sentence) ==
    LET s == FoldLeft(LAMBDA t, link : ApplyLink(t, best, sentence, link),
                      [target |-> sentence.target, thrown |-> FALSE], sentence.links)
    IN  [target |-> s.target, thrown |-> s.thrown, undefined |-> ~s.thrown /\ s.target = <<>>]
=============================================================================
