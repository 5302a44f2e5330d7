------------------------- MODULE FoldFilter_proofs -------------------------
(***************************************************************************)
(* Proofs about the threads of preprocess/foldfilter_main.cc for every     *)
(* number of sentences and lines, every size of the buffers and pipes, and *)
(* every fault of the child.                                               *)
(***************************************************************************)
EXTENDS FoldFilter, CaptiveChild_proofs

\* The number of lines that the reader has put into its sentences, and the
\* number of the sentence it is at.
Printed == IF Len(printed) = 0 THEN 0 ELSE sentences[Len(printed)][2]
Read == IF rpc = "reading" THEN Printed + Len(sentence) ELSE Printed
Started == IF rpc = "reading" THEN Len(printed) + 1 ELSE Len(printed)

\* The empty list was produced and the reader has not taken it.
Ending == fpc \in {"flush", "close", "done"} /\ rpc # "done"

\* The sentences follow each other, and the queue has the number of lines of
\* each that the reader has not begun.
SentencesAt ==
    /\ \A n \in 1..Len(sentences) :
        /\ sentences[n][1] = IF n = 1 THEN 1 ELSE sentences[n - 1][2] + 1
        /\ sentences[n][1] <= sentences[n][2]
        /\ sentences[n][2] < sentences[n][1] + MaxFolds
        /\ sentences[n][2] <= sent + toSend
    /\ sent + toSend = IF Len(sentences) = 0 THEN 0 ELSE sentences[Len(sentences)][2]
    /\ sent + toSend <= Len(sentences) * MaxFolds
    /\ Len(sentences) <= MaxSentences
    /\ fpc = "line" => toSend > 0
    /\ fpc \notin {"line", "eol"} => toSend = 0
    /\ fpc = "eol" => sent > 0

QueueAt ==
    /\ Len(sentences) = Started + Len(queue) - (IF Ending THEN 1 ELSE 0)
    /\ Ending => Len(queue) > 0
    /\ \A n \in 1..Len(queue) :
        IF Ending /\ n = Len(queue) THEN queue[n] = 0
        ELSE queue[n] = sentences[Started + n][2] - sentences[Started + n][1] + 1
    /\ rpc = "reading" => /\ expected > 0
                          /\ Printed + Len(sentence) + expected = sentences[Started][2]
    /\ rpc = "done" => Len(queue) = 0 /\ fpc \in {"flush", "close", "done"}
    /\ outcome = "exit" => rpc = "done" /\ fpc = "done"

\* No token is of a line that was not sent.
NotAhead(s) == \A j \in 1..Len(s) : s[j].line <= sent

\* The lines on their way behind seen, the last line that the reader has read.
OnTheWay(seen, p, o, h, i, w) ==
    /\ Run(partial, seen + 1, p, faults)
    /\ \A j \in 1..Len(partial) : Gaps(faults) \/ partial[j].line = seen + 1
    /\ cut \subseteq {seen}
    /\ Run(outPipe, p, o, faults)
    /\ \A s \in {partial, outPipe, held, inPipe, toWrite, buffer} : NotAhead(s)
    /\ child = "running" =>
        /\ Run(held, o, h, faults) /\ Run(inPipe, h, i, faults) /\ Run(toWrite, i, w, faults)
        /\ Run(buffer, w, IF fpc = "eol" THEN sent ELSE sent + 1, faults)
    /\ child # "running" /\ faults = {} => o = sent + 1

\* What the reader has put together is right as long as it has seen no later
\* line than those it has read: a gap makes it see more.
Matching(seen) ==
    /\ Read <= seen /\ seen <= sent
    /\ Gaps(faults) \/ seen = Read
    /\ seen = Read =>
        /\ \A n \in 1..Len(printed) : printed[n] = AnswersOf(n)
        /\ rpc = "reading" => \A j \in 1..Len(sentence) : sentence[j] = Printed + j

Way(seen) == \E p, o, h, i, w : OnTheWay(seen, p, o, h, i, w)

InStep == "extra" \notin faults => \E seen \in Nat : Matching(seen) /\ Way(seen)

\* What holds while the child does nothing wrong: the last end of line waits in
\* the stream's buffer, so that the reader has not read it, until the next list
\* or the empty one is in the queue.
Innocent ==
    faults = {} =>
        /\ outcome \in {"running", "exit"}
        /\ rpc # "peek"
        /\ rpc = "check" => Len(queue) > 0
        /\ child # "running" => fpc = "done"
        /\ fpc = "next" /\ sent > 0 /\ child = "running" => Len(buffer) > 0
        /\ fpc = "done" => Len(buffer) = 0 /\ Len(toWrite) = 0
        /\ ~inOpen => fpc = "done"
        /\ fpc = "close" => Len(buffer) = 0

FoldInv == TypeOK /\ SentencesAt /\ QueueAt /\ InStep /\ Innocent

-----------------------------------------------------------------------------
(* Numbers and types *)

LEMMA Product ==
  ASSUME NEW n \in Nat, NEW m \in Nat, NEW k \in Nat, n <= k
  PROVE  n * m \in Nat /\ n * m <= k * m /\ (n + 1) * m = n * m + m
  <1>1. n * m \in Nat /\ k * m \in Nat /\ (n + 1) * m = n * m + m
    OBVIOUS
  <1>2. PICK d \in Nat : k = n + d
    <2>1. k - n \in Nat /\ k = n + (k - n)
      OBVIOUS
    <2> QED BY <2>1
  <1>3. (n + d) * m = n * m + d * m /\ d * m \in Nat
    OBVIOUS
  <1>4. n * m <= k * m
    BY <1>1, <1>2, <1>3
  <1> QED BY <1>1, <1>4

LEMMA FoldTokens ==
  /\ Lines \subseteq Nat /\ Tokens \subseteq Token
  /\ \A s \in Seq(Tokens) : s \in Seq(Token)
  <1>1. Lines \subseteq Nat
    BY FoldBoundsAssumption DEF Lines
  <1>2. Tokens \subseteq Token
    BY <1>1 DEF Tokens, Token
  <1> QED BY <1>1, <1>2, SeqOfTokens

LEMMA Types ==
  ASSUME TypeOK
  PROVE  /\ sent \in Nat /\ toSend \in Nat /\ expected \in Nat
         /\ Len(sentences) \in Nat /\ Len(queue) \in Nat /\ Len(printed) \in Nat /\ Len(sentence) \in Nat
         /\ \A n \in 1..Len(sentences) : sentences[n][1] \in Nat /\ sentences[n][2] \in Nat
         /\ \A n \in 1..Len(queue) : queue[n] \in Nat
  <1>1. sent \in Nat /\ toSend \in Nat /\ expected \in Nat
    BY FoldTokens, FoldBoundsAssumption DEF TypeOK
  <1>2. Len(sentences) \in Nat /\ Len(queue) \in Nat /\ Len(printed) \in Nat /\ Len(sentence) \in Nat
    BY DEF TypeOK
  <1>3. \A n \in 1..Len(sentences) : sentences[n] \in Lines \X Lines
    BY ElementOfSeq DEF TypeOK
  <1>4. \A n \in 1..Len(sentences) : sentences[n][1] \in Nat /\ sentences[n][2] \in Nat
    BY <1>3, FoldTokens
  <1>5. \A n \in 1..Len(queue) : queue[n] \in 0..MaxFolds
    BY ElementOfSeq DEF TypeOK
  <1>6. \A n \in 1..Len(queue) : queue[n] \in Nat
    BY <1>5, FoldBoundsAssumption
  <1> QED BY <1>1, <1>2, <1>4, <1>6

-----------------------------------------------------------------------------
(* What a step that leaves a part of the state alone keeps *)

LEMMA SentencesKept ==
  ASSUME SentencesAt, UNCHANGED <<sentences, sent, toSend, fpc>>
  PROVE  SentencesAt'
  BY DEF SentencesAt

LEMMA QueueKept ==
  ASSUME QueueAt, UNCHANGED <<sentences, fpc, queue, rpc, expected, sentence, printed>>,
         outcome' = "exit" => outcome = "exit" \/ (rpc = "done" /\ fpc = "done")
  PROVE  QueueAt'
  BY DEF QueueAt, Started, Printed, Ending

LEMMA MatchingKept ==
  ASSUME NEW seen, Matching(seen), UNCHANGED <<sentences, sent, rpc, sentence, printed>>,
         Gaps(faults) => Gaps(faults')
  PROVE  Matching(seen)'
  BY DEF Matching, Read, Printed, AnswersOf

\* Where the reader is among the sentences.
LEMMA Places ==
  ASSUME TypeOK, SentencesAt, QueueAt
  PROVE  /\ Len(printed) <= Started /\ Started <= Len(sentences) /\ Started \in Nat
         /\ Printed \in Nat /\ Read \in Nat
         /\ Len(sentences) <= Started + Len(queue)
         /\ ~Ending => Len(sentences) = Started + Len(queue)
         /\ rpc = "reading" => Started = Len(printed) + 1 /\ sentences[Started][1] = Printed + 1
  <1>0. /\ Len(sentences) \in Nat /\ Len(queue) \in Nat /\ Len(printed) \in Nat /\ Len(sentence) \in Nat
        /\ \A n \in 1..Len(sentences) : sentences[n][1] \in Nat /\ sentences[n][2] \in Nat
    BY Types
  <1>1. Started \in Nat /\ Len(printed) <= Started /\ (rpc = "reading" => Started = Len(printed) + 1)
    BY <1>0 DEF Started
  <1> DEFINE less == IF Ending THEN 1 ELSE 0
  <1>2. Len(sentences) = Started + Len(queue) - less /\ (less = 1 => Len(queue) > 0)
    BY DEF QueueAt
  <1>3. less \in {0, 1} /\ (~Ending => less = 0)
    OBVIOUS
  <1> HIDE DEF less
  <1>4. Started <= Len(sentences) /\ Len(sentences) <= Started + Len(queue)
        /\ (~Ending => Len(sentences) = Started + Len(queue))
    BY <1>0, <1>1, <1>2, <1>3
  <1>5. Len(printed) # 0 => Len(printed) \in 1..Len(sentences)
    BY <1>0, <1>1, <1>4
  <1>6. Printed \in Nat
    BY <1>0, <1>5 DEF Printed
  <1>7. Read \in Nat
    BY <1>0, <1>6 DEF Read
  <1>8. rpc = "reading" => sentences[Started][1] = Printed + 1
    <2> SUFFICES ASSUME rpc = "reading" PROVE sentences[Started][1] = Printed + 1
      OBVIOUS
    <2>1. PICK n : n = Started
      OBVIOUS
    <2>2. n \in 1..Len(sentences) /\ n = Len(printed) + 1 /\ n - 1 = Len(printed) /\ (n = 1 <=> Len(printed) = 0)
      BY <1>0, <1>1, <1>4, <2>1
    <2>3. sentences[n][1] = IF n = 1 THEN 1 ELSE sentences[n - 1][2] + 1
      BY <2>2 DEF SentencesAt
    <2> QED BY <2>1, <2>2, <2>3 DEF Printed
  <1> QED BY <1>1, <1>4, <1>6, <1>7, <1>8

LEMMA InitInv ==
  Init => FoldInv
  <1> SUFFICES ASSUME Init PROVE FoldInv
    OBVIOUS
  <1> USE DEF Init, ChildInit
  <1>0. Len(<<>>) = 0
    OBVIOUS
  <1>1. TypeOK
    BY CapacityAssumption, FoldBoundsAssumption, <1>0 DEF TypeOK, Lines
  <1>2. SentencesAt
    BY <1>0, FoldBoundsAssumption DEF SentencesAt
  <1>3. QueueAt
    BY <1>0 DEF QueueAt, Started, Ending
  <1>4. Matching(0)
    BY <1>0 DEF Matching, Read, Printed
  <1>5. OnTheWay(0, 1, 1, 1, 1, 1)
    <2>1. Run(<<>>, 1, 1, {}) /\ 0 + 1 = 1
      BY EmptyRun
    <2>2. NotAhead(<<>>)
      BY <1>0 DEF NotAhead
    <2> QED BY <1>0, <2>1, <2>2 DEF OnTheWay
  <1>6. Innocent
    BY <1>0 DEF Innocent
  <1> QED BY <1>1, <1>2, <1>3, <1>4, <1>5, <1>6 DEF FoldInv, InStep, Way

-----------------------------------------------------------------------------
(* The feeder *)

\* Tokens stay behind what was sent when more is sent.
LEMMA NotAheadKept ==
  ASSUME NEW s \in Seq(Token), NotAhead(s), sent \in Nat, sent' \in Nat, sent <= sent'
  PROVE  \A j \in 1..Len(s) : s[j].line <= sent'
  <1>1. \A j \in 1..Len(s) : s[j].line \in Nat
    BY AfterFacts, ElementOfSeq
  <1> QED BY <1>1 DEF NotAhead

\* A list of delimiters is produced.
LEMMA ReadSentenceInv ==
  ASSUME FoldInv, NEW n \in 1..MaxFolds, ReadSentence(n)
  PROVE  FoldInv'
  <1>0. /\ UNCHANGED <<buffer, toWrite, inPipe, inOpen, held, child, faults, outPipe, partial, cut>>
        /\ UNCHANGED <<sent, rpc, expected, sentence, printed, outcome, status>>
        /\ fpc = "next" /\ fpc' = "line" /\ Len(sentences) < MaxSentences
        /\ sentences' = Append(sentences, <<sent + 1, sent + n>>)
        /\ queue' = Append(queue, n) /\ toSend' = n
    BY DEF ReadSentence, childSideVars, streamVars, childVars, readVars, readerVars, endVars
  <1>1. TypeOK /\ SentencesAt /\ QueueAt /\ InStep /\ Innocent
    BY DEF FoldInv
  <1>2. /\ sent \in Nat /\ Len(sentences) \in Nat /\ Len(queue) \in Nat
        /\ n \in Nat \ {0} /\ MaxFolds \in Nat /\ MaxSentences \in Nat
        /\ \A m \in 1..Len(sentences) : sentences[m][1] \in Nat /\ sentences[m][2] \in Nat
    BY <1>1, Types, FoldBoundsAssumption
  <1>3. /\ toSend = 0 /\ sent = IF Len(sentences) = 0 THEN 0 ELSE sentences[Len(sentences)][2]
        /\ sent <= Len(sentences) * MaxFolds
    BY <1>0, <1>1, <1>2 DEF SentencesAt
  <1>4. /\ Len(sentences) * MaxFolds \in Nat
        /\ (Len(sentences) + 1) * MaxFolds = Len(sentences) * MaxFolds + MaxFolds
        /\ (Len(sentences) + 1) * MaxFolds <= MaxSentences * MaxFolds
        /\ (Len(sentences) + 1) * MaxFolds \in Nat /\ MaxSentences * MaxFolds \in Nat
    <2>1. PICK l \in Nat : l = Len(sentences)
      BY <1>2
    <2>2. l < MaxSentences
      BY <1>0, <2>1
    <2>3. l + 1 \in Nat /\ l + 1 <= MaxSentences /\ l <= l
      BY <1>2, <2>2
    <2>4. l * MaxFolds \in Nat /\ (l + 1) * MaxFolds = l * MaxFolds + MaxFolds
      BY <1>2, <2>3, Product
    <2>5. (l + 1) * MaxFolds \in Nat /\ (l + 1) * MaxFolds <= MaxSentences * MaxFolds
      BY ONLY <1>2, <2>3, Product
    <2>6. MaxSentences * MaxFolds \in Nat
      BY ONLY <1>2
    <2> QED BY <2>1, <2>4, <2>5, <2>6
  <1>5. sent + n <= (Len(sentences) + 1) * MaxFolds /\ sent + n <= MaxSentences * MaxFolds
    <2>1. PICK a \in Nat : a = Len(sentences) * MaxFolds
      BY <1>4
    <2>2. PICK b \in Nat : b = (Len(sentences) + 1) * MaxFolds
      BY <1>4
    <2>3. PICK c \in Nat : c = MaxSentences * MaxFolds
      BY <1>4
    <2>4. b = a + MaxFolds /\ b <= c /\ sent <= a
      BY ONLY <1>3, <1>4, <2>1, <2>2, <2>3
    <2>5. sent + n <= b /\ sent + n <= c
      BY <1>2, <2>4
    <2> QED BY ONLY <2>2, <2>3, <2>5
  <1>6. PICK pair : pair = <<sent + 1, sent + n>>
    OBVIOUS
  <1>7. pair \in Lines \X Lines /\ pair[1] = sent + 1 /\ pair[2] = sent + n
    BY <1>2, <1>4, <1>5, <1>6 DEF Lines
  <1>8. /\ sentences' \in Seq(Lines \X Lines) /\ Len(sentences') = Len(sentences) + 1
        /\ \A m \in 1..Len(sentences) : sentences'[m] = sentences[m]
        /\ sentences'[Len(sentences) + 1] = pair
    <2>1. sentences \in Seq(Lines \X Lines)
      BY <1>1 DEF TypeOK
    <2>2. sentences' = Append(sentences, pair)
      BY ONLY <1>0, <1>6
    <2> QED BY ONLY <1>7, <2>1, <2>2, AppendFacts
  <1>9. /\ queue' \in Seq(0..MaxFolds) /\ Len(queue') = Len(queue) + 1
        /\ \A m \in 1..Len(queue) : queue'[m] = queue[m]
        /\ queue'[Len(queue) + 1] = n
    <2>1. n \in 0..MaxFolds
      BY <1>2
    <2>2. queue \in Seq(0..MaxFolds)
      BY <1>1 DEF TypeOK
    <2>3. queue' = Append(queue, n)
      BY ONLY <1>0
    <2> QED BY ONLY <2>1, <2>2, <2>3, AppendFacts
  <1>10. TypeOK'
    <2>1. toSend' \in 0..MaxFolds /\ fpc' \in {"line"}
      BY <1>0, <1>2
    <2>2. sentences' \in Seq(Lines \X Lines) /\ queue' \in Seq(0..MaxFolds)
      BY <1>8, <1>9
    <2> QED BY ONLY <1>0, <1>1, <2>1, <2>2 DEF TypeOK
  <1>11. SentencesAt'
    <2>1. \A m \in 1..Len(sentences') : m \in 1..Len(sentences) \/ m = Len(sentences) + 1
      BY <1>2, <1>8
    <2>2. ASSUME NEW m \in 1..Len(sentences')
          PROVE  /\ sentences'[m][1] = IF m = 1 THEN 1 ELSE sentences'[m - 1][2] + 1
                 /\ sentences'[m][1] <= sentences'[m][2]
                 /\ sentences'[m][2] < sentences'[m][1] + MaxFolds
                 /\ sentences'[m][2] <= sent + n
      <3>1. CASE m \in 1..Len(sentences)
        <4>1. m # 1 => m - 1 \in 1..Len(sentences)
          BY <1>2, <3>1
        <4>2. sentences'[m] = sentences[m] /\ (m # 1 => sentences'[m - 1] = sentences[m - 1])
          BY <1>8, <3>1, <4>1
        <4>3. /\ sentences[m][1] = IF m = 1 THEN 1 ELSE sentences[m - 1][2] + 1
              /\ sentences[m][1] <= sentences[m][2]
              /\ sentences[m][2] < sentences[m][1] + MaxFolds
              /\ sentences[m][2] <= sent + toSend
          BY <1>1, <3>1 DEF SentencesAt
        <4>4. sentences[m][2] <= sent + n
          <5>1. PICK k \in Nat : k = sentences[m][2]
            BY <1>2, <3>1
          <5>2. k <= sent
            BY ONLY <1>2, <1>3, <4>3, <5>1
          <5> QED BY ONLY <1>2, <5>1, <5>2
        <4> QED BY <4>2, <4>3, <4>4
      <3>2. CASE m = Len(sentences) + 1
        <4>1. m # 1 => m - 1 = Len(sentences) /\ m - 1 \in 1..Len(sentences) /\ Len(sentences) # 0
          BY <1>2, <3>2
        <4>2. m = 1 => sent = 0
          BY <1>2, <1>3, <3>2
        <4>3. m # 1 => sentences'[m - 1][2] = sent
          BY <1>3, <1>8, <4>1
        <4>4. sentences'[m][1] = sent + 1 /\ sentences'[m][2] = sent + n
          BY <1>7, <1>8, <3>2
        <4>5. sent + 1 <= sent + n /\ sent + n < (sent + 1) + MaxFolds
          BY <1>2
        <4> QED BY <1>2, <4>2, <4>3, <4>4, <4>5
      <3> QED BY <2>1, <3>1, <3>2
    <2>3. sentences'[Len(sentences')][2] = sent + n /\ Len(sentences') # 0
      BY <1>2, <1>7, <1>8
    <2>4. Len(sentences') <= MaxSentences /\ sent + n <= Len(sentences') * MaxFolds /\ n > 0
      BY <1>0, <1>2, <1>5, <1>8
    <2> QED BY <1>0, <2>2, <2>3, <2>4 DEF SentencesAt
  <1>12. /\ Len(printed) <= Started /\ Started <= Len(sentences) /\ Started \in Nat
         /\ Len(sentences) = Started + Len(queue) /\ ~Ending /\ ~Ending' /\ rpc # "done"
         /\ Len(printed) \in Nat
    BY <1>0, <1>1, Places, Types DEF Ending, QueueAt
  <1>13. Started' = Started /\ Printed' = Printed
    <2>1. Len(printed) # 0 => Len(printed) \in 1..Len(sentences)
      BY <1>2, <1>12
    <2> QED BY <1>0, <1>8, <2>1 DEF Started, Printed
  <1>14. QueueAt'
    <2>1. ASSUME NEW m \in 1..Len(queue')
          PROVE  queue'[m] = sentences'[Started + m][2] - sentences'[Started + m][1] + 1
      <3>1. CASE m \in 1..Len(queue)
        <4>1. Started + m \in 1..Len(sentences)
          BY <1>2, <1>12, <3>1
        <4>2. queue[m] = sentences[Started + m][2] - sentences[Started + m][1] + 1
          BY <1>1, <1>12, <3>1 DEF QueueAt
        <4> QED BY <1>8, <1>9, <3>1, <4>1, <4>2
      <3>2. CASE m = Len(queue) + 1
        <4>1. Started + m = Len(sentences) + 1
          BY <1>2, <1>12, <3>2
        <4>2. (sent + n) - (sent + 1) + 1 = n
          BY <1>2
        <4> QED BY <1>7, <1>8, <1>9, <3>2, <4>1, <4>2
      <3> QED BY <1>2, <1>9, <3>1, <3>2
    <2>2. Len(sentences') = Started + Len(queue') - 0
      BY <1>2, <1>8, <1>9, <1>12
    <2>3. rpc = "reading" => sentences'[Started] = sentences[Started]
      <3>1. rpc = "reading" => Started \in 1..Len(sentences)
        BY <1>2, <1>12 DEF Started
      <3> QED BY <1>8, <3>1
    <2> QED BY <1>0, <1>1, <1>12, <1>13, <2>1, <2>2, <2>3 DEF QueueAt
  <1>15. InStep'
    <2> SUFFICES ASSUME "extra" \notin faults PROVE \E seen \in Nat : Matching(seen)' /\ Way(seen)'
      BY <1>0 DEF InStep
    <2>1. PICK seen \in Nat : Matching(seen) /\ Way(seen)
      BY <1>1 DEF InStep
    <2>2. PICK p, o, h, i, w : OnTheWay(seen, p, o, h, i, w)
      BY <2>1 DEF Way
    <2>3. OnTheWay(seen, p, o, h, i, w)'
      BY <1>0, <2>2 DEF OnTheWay, NotAhead
    <2>4. \A m \in 1..Len(printed) : AnswersOf(m)' = AnswersOf(m)
      <3>1. \A m \in 1..Len(printed) : sentences'[m] = sentences[m]
        BY <1>2, <1>8, <1>12
      <3> QED BY <3>1 DEF AnswersOf
    <2>5. Read' = Read
      BY <1>0, <1>13 DEF Read
    <2>6. Matching(seen)'
      BY <1>0, <1>13, <2>1, <2>4, <2>5 DEF Matching
    <2> QED BY <2>3, <2>6 DEF Way
  <1>16. Innocent'
    <2>1. Len(queue') > 0
      BY <1>2, <1>9
    <2> QED BY <1>0, <1>1, <2>1 DEF Innocent
  <1> QED BY <1>10, <1>11, <1>14, <1>15, <1>16 DEF FoldInv

LEMMA SendLineInv ==
  ASSUME FoldInv, NEW n \in 0..MaxParts, SendLine(n)
  PROVE  FoldInv'
  <1>0. /\ UNCHANGED <<inPipe, inOpen, held, child, faults, outPipe, partial, cut, sentences, queue>>
        /\ UNCHANGED <<rpc, expected, sentence, printed, outcome, status>>
        /\ fpc = "line" /\ fpc' = "eol" /\ toWrite = <<>>
        /\ StreamWrite(Parts(sent + 1, n)) /\ sent' = sent + 1 /\ toSend' = toSend - 1
    BY DEF SendLine, childVars, readVars, readerVars, endVars
  <1>1. TypeOK /\ SentencesAt /\ QueueAt /\ InStep /\ Innocent
    BY DEF FoldInv
  <1>2. /\ sent \in Nat /\ toSend \in Nat /\ toSend > 0 /\ Len(sentences) \in Nat /\ n \in Nat
        /\ MaxFolds \in Nat /\ MaxSentences \in Nat /\ toSend <= MaxFolds
    BY <1>0, <1>1, Types, FoldBoundsAssumption DEF SentencesAt, TypeOK
  <1>3. sent' + toSend' = sent + toSend /\ sent' \in Nat /\ sent' > 0 /\ toSend' \in 0..MaxFolds
    BY <1>0, <1>2
  <1>4. sent' \in Lines
    <2>1. sent' <= sent + toSend
      BY <1>0, <1>2
    <2>2. sent + toSend <= Len(sentences) * MaxFolds /\ Len(sentences) <= MaxSentences
      BY <1>1 DEF SentencesAt
    <2>3. Len(sentences) * MaxFolds <= MaxSentences * MaxFolds /\ Len(sentences) * MaxFolds \in Nat
          /\ MaxSentences * MaxFolds \in Nat
      BY <1>2, <2>2, Product
    <2>4. sent' <= MaxSentences * MaxFolds
      BY <1>2, <1>3, <2>1, <2>2, <2>3
    <2> QED BY <1>3, <2>3, <2>4 DEF Lines
  <1>5. Part(sent + 1) \in Tokens /\ ~Part(sent + 1).eol /\ sent + 1 \in Nat
    BY <1>0, <1>2, <1>4 DEF Part, Tokens
  <1>6. PICK parts : parts = Parts(sent + 1, n)
    OBVIOUS
  <1>7. /\ parts \in Seq(Tokens) /\ \A wrong : Run(parts, sent + 1, sent + 1, wrong)
        /\ \A j \in 1..Len(parts) : parts[j].line = sent + 1
    <2>1. Part(sent + 1).line = sent + 1
      BY DEF Part
    <2> QED BY <1>2, <1>5, <1>6, <2>1, RunParts
  <1>8. /\ buffer \in Seq(Tokens) /\ Len(buffer) <= StreamCap /\ StreamWrite(parts)
    BY <1>0, <1>1, <1>6 DEF TypeOK
  <1>9. buffer' \in Seq(Tokens) /\ Len(buffer') <= StreamCap /\ toWrite' \in Seq(Tokens)
    BY <1>0, <1>7, <1>8, StreamWriteRun, FoldTokens
  <1>10. TypeOK'
    BY <1>0, <1>1, <1>3, <1>4, <1>9 DEF TypeOK
  <1>11. SentencesAt'
    BY <1>0, <1>1, <1>3 DEF SentencesAt
  <1>12. QueueAt'
    BY <1>0, <1>1 DEF QueueAt, Started, Printed, Ending
  <1>13. InStep'
    <2> SUFFICES ASSUME "extra" \notin faults PROVE \E seen \in Nat : Matching(seen)' /\ Way(seen)'
      BY <1>0 DEF InStep
    <2>1. PICK seen \in Nat : Matching(seen) /\ Way(seen)
      BY <1>1 DEF InStep
    <2>2. PICK p, o, h, i, w : OnTheWay(seen, p, o, h, i, w)
      BY <2>1 DEF Way
    <2>3. Matching(seen)'
      <3>1. Read' = Read /\ Printed' = Printed
        BY <1>0 DEF Read, Printed
      <3>2. seen <= sent'
        BY <1>0, <1>2, <2>1 DEF Matching
      <3> QED BY <1>0, <2>1, <3>1, <3>2 DEF Matching, AnswersOf
    <2>4. \A s \in {partial', outPipe', held', inPipe', toWrite', buffer'} :
             \A j \in 1..Len(s) : s[j].line <= sent'
      <3>1. ASSUME NEW s \in {partial, outPipe, held, inPipe, buffer}
            PROVE  \A j \in 1..Len(s) : s[j].line <= sent'
        <4>1. NotAhead(s) /\ s \in Seq(Token) /\ sent <= sent'
          BY <1>0, <1>1, <1>2, <2>2, <3>1, FoldTokens DEF OnTheWay, TypeOK
        <4> QED BY <1>2, <1>3, <4>1, NotAheadKept
      <3>2. \A j \in 1..Len(parts) : parts[j].line <= sent'
        BY <1>0, <1>3, <1>7
      <3>3. \A j \in 1..Len(buffer \o parts) : (buffer \o parts)[j].line <= sent'
        <4>1. PICK u : u = buffer \o parts
          OBVIOUS
        <4>2. /\ Len(buffer) \in Nat /\ Len(parts) \in Nat /\ Len(u) = Len(buffer) + Len(parts)
              /\ \A j \in 1..Len(buffer) : u[j] = buffer[j]
              /\ \A j \in 1..Len(parts) : u[Len(buffer) + j] = parts[j]
          BY <1>7, <1>8, <4>1, ConcatFacts
        <4>3. ASSUME NEW j \in 1..Len(u), j \notin 1..Len(buffer) PROVE u[j].line <= sent'
          <5> DEFINE k == j - Len(buffer)
          <5>1. k \in 1..Len(parts) /\ j = Len(buffer) + k
            BY <4>2, <4>3
          <5> HIDE DEF k
          <5> QED BY <3>2, <4>2, <5>1
        <4> QED BY <3>1, <4>1, <4>2, <4>3
      <3>4. \A j \in 1..Len(<<>>) : <<>>[j].line <= sent'
        OBVIOUS
      <3>5. toWrite' \in {<<>>, buffer, buffer \o parts} /\ buffer' \in {buffer \o parts, parts, <<>>}
        BY <1>0, <1>8 DEF StreamWrite
      <3> QED BY <1>0, <3>1, <3>2, <3>3, <3>4, <3>5
    <2>5. CASE child = "running"
      <3>1. Run(toWrite, i, w, faults) /\ Run(buffer, w, sent + 1, faults)
        BY <1>0, <2>2, <2>5 DEF OnTheWay
      <3>2. PICK x : Run(toWrite', i, x, faults) /\ Run(buffer', x, sent + 1, faults)
        BY <1>0, <1>7, <1>8, <3>1, StreamWriteRun, FoldTokens
      <3>3. OnTheWay(seen, p, o, h, i, x)'
        BY <1>0, <2>2, <2>4, <2>5, <3>2 DEF OnTheWay, NotAhead
      <3> QED BY <2>3, <3>3 DEF Way
    <2>6. CASE child # "running"
      <3>1. faults # {}
        BY <1>0, <1>1, <2>6 DEF Innocent
      <3>2. OnTheWay(seen, p, o, h, i, w)'
        BY <1>0, <2>2, <2>4, <2>6, <3>1 DEF OnTheWay, NotAhead
      <3> QED BY <2>3, <3>2 DEF Way
    <2> QED BY <2>5, <2>6
  <1>14. Innocent'
    BY <1>0, <1>1 DEF Innocent
  <1> QED BY <1>10, <1>11, <1>12, <1>13, <1>14 DEF FoldInv


\* A token that moves on to the next buffer.
LEMMA NotAheadShift ==
  ASSUME NEW s \in Seq(Tokens), NEW t \in Seq(Tokens), t # <<>>, NotAhead(s), NotAhead(t)
  PROVE  NotAhead(Append(s, Head(t))) /\ NotAhead(Tail(t))
  <1> DEFINE u == Append(s, Head(t))
             r == Tail(t)
  <1>1. /\ Head(t) \in Tokens /\ Head(t) = t[1] /\ Len(t) \in Nat \ {0} /\ Len(r) = Len(t) - 1
        /\ \A j \in 1..(Len(t) - 1) : r[j] = t[j + 1]
    BY TailFacts
  <1>2. /\ Len(s) \in Nat /\ Len(u) = Len(s) + 1 /\ u[Len(s) + 1] = t[1]
        /\ \A j \in 1..Len(s) : u[j] = s[j]
    BY <1>1, AppendFacts
  <1> HIDE DEF u, r
  <1>3. ASSUME NEW j \in 1..Len(u) PROVE u[j].line <= sent
    <2>1. 1 \in 1..Len(t) /\ (j \in 1..Len(s) \/ j = Len(s) + 1)
      BY <1>1, <1>2
    <2> QED BY <1>2, <2>1 DEF NotAhead
  <1>4. ASSUME NEW j \in 1..Len(r) PROVE r[j].line <= sent
    <2>1. j + 1 \in 1..Len(t) /\ r[j] = t[j + 1]
      BY <1>1
    <2> QED BY <2>1 DEF NotAhead
  <1>5. NotAhead(u) /\ NotAhead(r)
    BY <1>3, <1>4 DEF NotAhead
  <1> QED BY <1>5 DEF u, r

LEMMA InStepKept ==
  ASSUME InStep, UNCHANGED <<buffer, toWrite, inPipe, held, child, faults, outPipe, partial, cut>>,
         UNCHANGED <<sentences, sent, fpc, rpc, sentence, printed>>
  PROVE  InStep'
  <1> SUFFICES ASSUME "extra" \notin faults PROVE \E seen \in Nat : Matching(seen)' /\ Way(seen)'
    BY DEF InStep
  <1>1. PICK seen \in Nat : Matching(seen) /\ Way(seen)
    BY DEF InStep
  <1>2. PICK p, o, h, i, w : OnTheWay(seen, p, o, h, i, w)
    BY <1>1 DEF Way
  <1>3. Matching(seen)'
    BY <1>1, MatchingKept
  <1>4. OnTheWay(seen, p, o, h, i, w)'
    BY <1>2 DEF OnTheWay, NotAhead
  <1> QED BY <1>3, <1>4 DEF Way

LEMMA SendEolInv ==
  ASSUME FoldInv, SendEol
  PROVE  FoldInv'
  <1>0. /\ UNCHANGED <<inPipe, inOpen, held, child, faults, outPipe, partial, cut, sentences, queue>>
        /\ UNCHANGED <<sent, toSend, rpc, expected, sentence, printed, outcome, status>>
        /\ fpc = "eol" /\ toWrite = <<>> /\ StreamPut(Eol(sent))
        /\ fpc' = IF toSend = 0 THEN "next" ELSE "line"
    BY DEF SendEol, childVars, readVars, readerVars, endVars
  <1>1. TypeOK /\ SentencesAt /\ QueueAt /\ InStep /\ Innocent
    BY DEF FoldInv
  <1>2. /\ sent \in Nat /\ toSend \in Nat /\ sent \in Lines /\ fpc' \in {"next", "line"}
        /\ (fpc' = "line" => toSend > 0) /\ (fpc' = "next" => toSend = 0)
    BY <1>0, <1>1, Types DEF TypeOK
  <1>3. PICK token : token = Eol(sent)
    OBVIOUS
  <1>4. token \in Tokens /\ token.line = sent /\ After(token) = sent + 1
    BY <1>2, <1>3 DEF Eol, Tokens, After
  <1>5. buffer \in Seq(Tokens) /\ Len(buffer) <= StreamCap /\ StreamPut(token)
    BY <1>0, <1>1, <1>3 DEF TypeOK
  <1>6. buffer' \in Seq(Tokens) /\ Len(buffer') <= StreamCap /\ toWrite' \in Seq(Tokens)
    BY <1>0, <1>4, <1>5, StreamPutRun, FoldTokens
  <1>7. TypeOK'
    BY <1>0, <1>1, <1>2, <1>6 DEF TypeOK
  <1>8. SentencesAt'
    BY <1>0, <1>1, <1>2 DEF SentencesAt
  <1>9. QueueAt'
    <2>1. ~Ending /\ ~Ending' /\ Started' = Started /\ Printed' = Printed /\ rpc # "done"
      BY <1>0, <1>1, <1>2 DEF Ending, Started, Printed, QueueAt
    <2> QED BY <1>0, <1>1, <2>1 DEF QueueAt
  <1>10. Len(buffer') > 0
    <2>1. buffer' = Append(buffer, token) \/ buffer' = <<token>>
      BY <1>5 DEF StreamPut
    <2>2. Len(Append(buffer, token)) = Len(buffer) + 1 /\ Len(buffer) \in Nat
      BY <1>4, <1>5, AppendFacts
    <2> QED BY <2>1, <2>2
  <1>11. InStep'
    <2> SUFFICES ASSUME "extra" \notin faults PROVE \E seen \in Nat : Matching(seen)' /\ Way(seen)'
      BY <1>0 DEF InStep
    <2>1. PICK seen \in Nat : Matching(seen) /\ Way(seen)
      BY <1>1 DEF InStep
    <2>2. PICK p, o, h, i, w : OnTheWay(seen, p, o, h, i, w)
      BY <2>1 DEF Way
    <2>3. Matching(seen)'
      BY <1>0, <2>1, MatchingKept
    <2>4. \A s \in {partial', outPipe', held', inPipe', toWrite', buffer'} : NotAhead(s)
      <3>1. \A s \in {partial, outPipe, held, inPipe, buffer} : NotAhead(s)
        BY <2>2 DEF OnTheWay
      <3>2. PICK u : u = Append(buffer, token)
        OBVIOUS
      <3>3. /\ Len(buffer) \in Nat /\ Len(u) = Len(buffer) + 1 /\ u[Len(buffer) + 1] = token
            /\ \A j \in 1..Len(buffer) : u[j] = buffer[j]
        BY <1>4, <1>5, <3>2, AppendFacts
      <3>4. NotAhead(buffer)
        BY <3>1
      <3>5. ASSUME NEW j \in 1..Len(u) PROVE u[j].line <= sent
        <4>1. j \in 1..Len(buffer) \/ j = Len(buffer) + 1
          BY <3>3
        <4> QED BY <1>2, <1>4, <3>3, <3>4, <4>1 DEF NotAhead
      <3>6. NotAhead(u) /\ NotAhead(<<>>) /\ NotAhead(<<token>>)
        BY <1>2, <1>4, <3>5 DEF NotAhead
      <3>7. toWrite' \in {<<>>, buffer} /\ buffer' \in {u, <<token>>}
        BY <1>0, <1>5, <3>2 DEF StreamPut
      <3> QED BY <1>0, <3>1, <3>6, <3>7
    <2>5. CASE child = "running"
      <3>1. Run(toWrite, i, w, faults) /\ Run(buffer, w, token.line, faults)
        BY <1>0, <1>4, <2>2, <2>5 DEF OnTheWay
      <3>2. PICK x : Run(toWrite', i, x, faults) /\ Run(buffer', x, After(token), faults)
        BY <1>0, <1>4, <1>5, <3>1, StreamPutRun, FoldTokens
      <3>3. OnTheWay(seen, p, o, h, i, x)'
        BY <1>0, <1>2, <1>4, <2>2, <2>4, <2>5, <3>2 DEF OnTheWay, NotAhead
      <3> QED BY <2>3, <3>3 DEF Way
    <2>6. CASE child # "running"
      <3>1. faults # {}
        BY <1>0, <1>1, <2>6 DEF Innocent
      <3>2. OnTheWay(seen, p, o, h, i, w)'
        BY <1>0, <2>2, <2>4, <2>6, <3>1 DEF OnTheWay, NotAhead
      <3> QED BY <2>3, <3>2 DEF Way
    <2> QED BY <2>5, <2>6
  <1>12. Innocent'
    BY <1>0, <1>1, <1>2, <1>10 DEF Innocent
  <1> QED BY <1>7, <1>8, <1>9, <1>11, <1>12 DEF FoldInv

\* The empty list is behind the lists of all sentences.
LEMMA FeederEofInv ==
  ASSUME FoldInv, FeederEof
  PROVE  FoldInv'
  <1>0. /\ UNCHANGED <<buffer, toWrite, inPipe, inOpen, held, child, faults, outPipe, partial, cut, sentences>>
        /\ UNCHANGED <<sent, toSend, rpc, expected, sentence, printed, outcome, status>>
        /\ fpc = "next" /\ fpc' = "flush" /\ queue' = Append(queue, 0)
    BY DEF FeederEof, childSideVars, streamVars, childVars, readVars, readerVars, endVars
  <1>1. TypeOK /\ SentencesAt /\ QueueAt /\ InStep /\ Innocent
    BY DEF FoldInv
  <1>2. /\ Len(queue) \in Nat /\ Len(sentences) \in Nat /\ Started \in Nat
        /\ Len(sentences) = Started + Len(queue) /\ ~Ending /\ rpc # "done" /\ Ending'
        /\ Started' = Started /\ Printed' = Printed
    BY <1>0, <1>1, Types, Places DEF Ending, QueueAt, Started, Printed
  <1>3. /\ queue' \in Seq(0..MaxFolds) /\ Len(queue') = Len(queue) + 1
        /\ \A m \in 1..Len(queue) : queue'[m] = queue[m]
        /\ queue'[Len(queue) + 1] = 0
    <2>1. 0 \in 0..MaxFolds
      BY FoldBoundsAssumption
    <2> QED BY <1>0, <1>1, <2>1, AppendFacts DEF TypeOK
  <1>4. TypeOK'
    BY <1>0, <1>1, <1>3 DEF TypeOK
  <1>5. SentencesAt'
    BY <1>0, <1>1 DEF SentencesAt
  <1>6. QueueAt'
    <2>1. ASSUME NEW n \in 1..Len(queue')
          PROVE  IF n = Len(queue') THEN queue'[n] = 0
                 ELSE queue'[n] = sentences[Started + n][2] - sentences[Started + n][1] + 1
      <3>1. CASE n = Len(queue')
        BY <1>3, <3>1
      <3>2. CASE n # Len(queue')
        <4>1. n \in 1..Len(queue)
          BY <1>2, <1>3, <3>2
        <4>2. queue[n] = sentences[Started + n][2] - sentences[Started + n][1] + 1
          BY <1>1, <1>2, <4>1 DEF QueueAt
        <4> QED BY <1>3, <3>2, <4>1, <4>2
      <3> QED BY <3>1, <3>2
    <2>2. Len(sentences) = Started + Len(queue') - 1 /\ Len(queue') > 0
      BY <1>2, <1>3
    <2> QED BY <1>0, <1>1, <1>2, <2>1, <2>2 DEF QueueAt
  <1>7. InStep'
    <2> SUFFICES ASSUME "extra" \notin faults PROVE \E seen \in Nat : Matching(seen)' /\ Way(seen)'
      BY <1>0 DEF InStep
    <2>1. PICK seen \in Nat : Matching(seen) /\ Way(seen)
      BY <1>1 DEF InStep
    <2>2. PICK p, o, h, i, w : OnTheWay(seen, p, o, h, i, w)
      BY <2>1 DEF Way
    <2>3. Matching(seen)'
      BY <1>0, <2>1, MatchingKept
    <2>4. OnTheWay(seen, p, o, h, i, w)'
      BY <1>0, <2>2 DEF OnTheWay, NotAhead
    <2> QED BY <2>3, <2>4 DEF Way
  <1>8. Innocent'
    <2>1. Len(queue') > 0
      BY <1>2, <1>3
    <2> QED BY <1>0, <1>1, <2>1 DEF Innocent
  <1> QED BY <1>4, <1>5, <1>6, <1>7, <1>8 DEF FoldInv

LEMMA FeederFlushInv ==
  ASSUME FoldInv, FeederFlush
  PROVE  FoldInv'
  <1>0. /\ UNCHANGED <<inPipe, inOpen, held, child, faults, outPipe, partial, cut, sentences, queue>>
        /\ UNCHANGED <<sent, toSend, rpc, expected, sentence, printed, outcome, status>>
        /\ fpc = "flush" /\ fpc' = "close" /\ toWrite = <<>>
        /\ StreamFlush /\ toWrite' = buffer /\ buffer' = <<>>
    BY DEF FeederFlush, StreamFlush, childVars, readVars, readerVars, endVars
  <1>1. TypeOK /\ SentencesAt /\ QueueAt /\ InStep /\ Innocent
    BY DEF FoldInv
  <1>2. buffer \in Seq(Tokens) /\ buffer' \in Seq(Tokens) /\ Len(buffer') = 0 /\ StreamCap \in Nat
    BY <1>0, <1>1, EmptyFacts, CapacityAssumption DEF TypeOK
  <1>3. TypeOK'
    BY <1>0, <1>1, <1>2 DEF TypeOK
  <1>4. SentencesAt'
    BY <1>0, <1>1 DEF SentencesAt
  <1>5. QueueAt'
    <2>1. Ending' = Ending /\ Started' = Started /\ Printed' = Printed
      BY <1>0 DEF Ending, Started, Printed
    <2>2. outcome # "exit"
      BY <1>0, <1>1 DEF QueueAt
    <2> QED BY <1>0, <1>1, <2>1, <2>2 DEF QueueAt
  <1>6. InStep'
    <2> SUFFICES ASSUME "extra" \notin faults PROVE \E seen \in Nat : Matching(seen)' /\ Way(seen)'
      BY <1>0 DEF InStep
    <2>1. PICK seen \in Nat : Matching(seen) /\ Way(seen)
      BY <1>1 DEF InStep
    <2>2. PICK p, o, h, i, w : OnTheWay(seen, p, o, h, i, w)
      BY <2>1 DEF Way
    <2>3. Matching(seen)'
      BY <1>0, <2>1, MatchingKept
    <2>4. \A s \in {partial', outPipe', held', inPipe', toWrite', buffer'} : NotAhead(s)
      <3>1. NotAhead(<<>>)
        BY DEF NotAhead
      <3> QED BY <1>0, <2>2, <3>1 DEF OnTheWay
    <2>5. CASE child = "running"
      <3>1. Run(toWrite, i, w, faults) /\ Run(buffer, w, sent + 1, faults)
        BY <1>0, <2>2, <2>5 DEF OnTheWay
      <3>2. PICK x : Run(toWrite', i, x, faults) /\ Run(buffer', x, sent + 1, faults)
        BY <1>0, <1>2, <3>1, StreamFlushRun, FoldTokens
      <3>3. OnTheWay(seen, p, o, h, i, x)'
        BY <1>0, <2>2, <2>4, <2>5, <3>2 DEF OnTheWay, NotAhead
      <3> QED BY <2>3, <3>3 DEF Way
    <2>6. CASE child # "running"
      <3>1. faults # {}
        BY <1>0, <1>1, <2>6 DEF Innocent
      <3>2. OnTheWay(seen, p, o, h, i, w)'
        BY <1>0, <2>2, <2>4, <2>6, <3>1 DEF OnTheWay, NotAhead
      <3> QED BY <2>3, <3>2 DEF Way
    <2> QED BY <2>5, <2>6
  <1>7. Innocent'
    BY <1>0, <1>1, <1>2 DEF Innocent
  <1> QED BY <1>3, <1>4, <1>5, <1>6, <1>7 DEF FoldInv

LEMMA FeederCloseInv ==
  ASSUME FoldInv, FeederClose
  PROVE  FoldInv'
  <1>0. /\ UNCHANGED <<buffer, toWrite, inPipe, held, child, faults, outPipe, partial, cut, sentences, queue>>
        /\ UNCHANGED <<sent, toSend, rpc, expected, sentence, printed, outcome, status>>
        /\ fpc = "close" /\ fpc' = "done" /\ toWrite = <<>> /\ inOpen' = FALSE
    BY DEF FeederClose, streamVars, childVars, readVars, readerVars, endVars
  <1>1. TypeOK /\ SentencesAt /\ QueueAt /\ InStep /\ Innocent
    BY DEF FoldInv
  <1>2. TypeOK'
    BY <1>0, <1>1 DEF TypeOK
  <1>3. SentencesAt'
    BY <1>0, <1>1 DEF SentencesAt
  <1>4. QueueAt'
    <2>1. Ending' = Ending /\ Started' = Started /\ Printed' = Printed
      BY <1>0 DEF Ending, Started, Printed
    <2>2. outcome # "exit"
      BY <1>0, <1>1 DEF QueueAt
    <2> QED BY <1>0, <1>1, <2>1, <2>2 DEF QueueAt
  <1>5. InStep'
    <2> SUFFICES ASSUME "extra" \notin faults PROVE \E seen \in Nat : Matching(seen)' /\ Way(seen)'
      BY <1>0 DEF InStep
    <2>1. PICK seen \in Nat : Matching(seen) /\ Way(seen)
      BY <1>1 DEF InStep
    <2>2. PICK p, o, h, i, w : OnTheWay(seen, p, o, h, i, w)
      BY <2>1 DEF Way
    <2>3. Matching(seen)'
      BY <1>0, <2>1, MatchingKept
    <2>4. OnTheWay(seen, p, o, h, i, w)'
      BY <1>0, <2>2 DEF OnTheWay, NotAhead
    <2> QED BY <2>3, <2>4 DEF Way
  <1>6. Innocent'
    <2>1. Len(toWrite') = 0
      BY <1>0
    <2> QED BY <1>0, <1>1, <2>1 DEF Innocent
  <1> QED BY <1>2, <1>3, <1>4, <1>5, <1>6 DEF FoldInv

\* A token leaves the FileStream for the pipe, or the write fails, which it
\* does only when the child has ended too early.
LEMMA FeederPushInv ==
  ASSUME FoldInv, FeederPush \/ FeederBroken
  PROVE  FoldInv'
  <1>1. TypeOK /\ SentencesAt /\ QueueAt /\ InStep /\ Innocent
    BY DEF FoldInv
  <1>4. CASE FeederPush
    <2>0. /\ UNCHANGED <<buffer, inOpen, held, child, faults, outPipe, partial, cut, sentences, queue>>
          /\ UNCHANGED <<sent, toSend, fpc, rpc, expected, sentence, printed, outcome, status>>
          /\ toWrite # <<>> /\ child = "running" /\ Len(inPipe) < PipeCap
          /\ inPipe' = Append(inPipe, Head(toWrite)) /\ toWrite' = Tail(toWrite)
      BY <1>4 DEF FeederPush, Push, childVars, readVars, feederVars, readerVars, endVars
    <2>1. toWrite \in Seq(Tokens) /\ inPipe \in Seq(Tokens) /\ PipeCap \in Nat
      BY <1>1, CapacityAssumption DEF TypeOK
    <2>2. Head(toWrite) \in Tokens /\ toWrite' \in Seq(Tokens) /\ Len(toWrite') = Len(toWrite) - 1
          /\ Len(toWrite) \in Nat \ {0}
      BY <2>0, <2>1, TailFacts
    <2>3. inPipe' \in Seq(Tokens) /\ Len(inPipe') = Len(inPipe) + 1 /\ Len(inPipe) \in Nat
      BY <2>0, <2>1, <2>2, AppendFacts
    <2>4. Len(inPipe') <= PipeCap
      BY <2>0, <2>1, <2>3
    <2>5. TypeOK'
      BY <1>1, <2>0, <2>2, <2>3, <2>4 DEF TypeOK
    <2>6. SentencesAt' /\ QueueAt'
      BY <1>1, <2>0, SentencesKept, QueueKept
    <2>7. Innocent'
      BY <1>1, <2>0, <2>2 DEF Innocent
    <2>8. InStep'
      <3> SUFFICES ASSUME "extra" \notin faults PROVE \E seen \in Nat : Matching(seen)' /\ Way(seen)'
        BY <2>0 DEF InStep
      <3>1. PICK seen \in Nat : Matching(seen) /\ Way(seen)
        BY <1>1 DEF InStep
      <3>2. PICK p, o, h, i, w : OnTheWay(seen, p, o, h, i, w)
        BY <3>1 DEF Way
      <3>3. Matching(seen)'
        BY <2>0, <3>1, MatchingKept
      <3>4. Run(inPipe, h, i, faults) /\ Run(toWrite, i, w, faults)
        BY <2>0, <3>2 DEF OnTheWay
      <3>5. PICK x : Run(inPipe', h, x, faults) /\ Run(toWrite', x, w, faults)
        BY <2>0, <2>1, <3>4, FoldTokens, RunShift
      <3>6. NotAhead(inPipe') /\ NotAhead(toWrite')
        BY <2>0, <2>1, <3>2, NotAheadShift DEF OnTheWay
      <3>7. \A s \in {partial', outPipe', held', inPipe', toWrite', buffer'} : NotAhead(s)
        BY <2>0, <3>2, <3>6 DEF OnTheWay
      <3>8. OnTheWay(seen, p, o, h, x, w)'
        BY <2>0, <3>2, <3>5, <3>7 DEF OnTheWay, NotAhead
      <3> QED BY <3>3, <3>8 DEF Way
    <2> QED BY <2>5, <2>6, <2>7, <2>8 DEF FoldInv
  <1>5. CASE FeederBroken
    <2>0. /\ UNCHANGED <<buffer, toWrite, inPipe, inOpen, held, child, faults, outPipe, partial, cut, sentences>>
          /\ UNCHANGED <<queue, sent, toSend, fpc, rpc, expected, sentence, printed, status>>
          /\ toWrite # <<>> /\ child # "running" /\ outcome' = "sigpipe"
      BY <1>5 DEF FeederBroken, BrokenPipe, childSideVars, streamVars, childVars, readVars, feederVars, readerVars
    <2>1. TypeOK'
      BY <1>1, <2>0 DEF TypeOK
    <2>2. SentencesAt' /\ QueueAt'
      BY <1>1, <2>0, SentencesKept, QueueKept
    <2>3. faults # {}
      <3>1. toWrite \in Seq(Tokens)
        BY <1>1 DEF TypeOK
      <3>2. Len(toWrite) # 0
        BY <2>0, <3>1, EmptyFacts
      <3> QED BY <1>1, <2>0, <3>2 DEF Innocent
    <2>4. Innocent'
      BY <2>0, <2>3 DEF Innocent
    <2>5. InStep'
      BY <1>1, <2>0, InStepKept
    <2> QED BY <2>1, <2>2, <2>4, <2>5 DEF FoldInv
  <1> QED BY <1>4, <1>5

-----------------------------------------------------------------------------
(* The reader *)

\* The list at the head of the queue is that of the sentence after the last
\* one printed, or the empty list behind the last sentence.
LEMMA HeadOfQueue ==
  ASSUME TypeOK, SentencesAt, QueueAt, rpc = "consume", queue # <<>>
  PROVE  /\ Head(queue) = 0 => Ending /\ Len(queue) = 1
         /\ Head(queue) # 0 =>
              /\ Ending => Len(queue) > 1
              /\ Started + 1 \in 1..Len(sentences)
              /\ sentences[Started + 1][1] = Printed + 1
              /\ Head(queue) = sentences[Started + 1][2] - Printed
  <1>1. /\ Len(queue) \in Nat \ {0} /\ Head(queue) = queue[1] /\ Started \in Nat /\ Printed \in Nat
        /\ Len(sentences) \in Nat /\ Started = Len(printed) /\ Len(printed) \in Nat
    BY TailFacts, Places, Types DEF TypeOK, Started
  <1> DEFINE less == IF Ending THEN 1 ELSE 0
  <1>2. Len(sentences) = Started + Len(queue) - less
    BY DEF QueueAt
  <1>3. less \in {0, 1} /\ (Ending <=> less = 1)
    OBVIOUS
  <1>4. IF Ending /\ 1 = Len(queue) THEN queue[1] = 0
        ELSE queue[1] = sentences[Started + 1][2] - sentences[Started + 1][1] + 1
    <2>1. 1 \in 1..Len(queue)
      BY <1>1
    <2>2. \A n \in 1..Len(queue) :
             IF Ending /\ n = Len(queue) THEN queue[n] = 0
             ELSE queue[n] = sentences[Started + n][2] - sentences[Started + n][1] + 1
      BY DEF QueueAt
    <2> QED BY ONLY <2>1, <2>2
  <1>5. CASE Ending /\ Len(queue) = 1
    BY <1>1, <1>4, <1>5
  <1>6. CASE ~(Ending /\ Len(queue) = 1)
    <2> HIDE DEF less
    <2>1. less = 1 => Len(queue) # 1
      BY <1>3, <1>6
    <2>2. PICK k \in Nat \ {0} : k = Len(queue)
      BY <1>1
    <2>3. Started + 1 \in 1..Len(sentences) /\ (less = 1 => Len(queue) > 1)
      BY <1>1, <1>2, <1>3, <2>1, <2>2
    <2>4. PICK n : n = Started + 1
      OBVIOUS
    <2>5. n \in 1..Len(sentences) /\ n - 1 = Len(printed) /\ (n = 1 <=> Len(printed) = 0)
      BY <1>1, <2>3, <2>4
    <2>6. sentences[n][1] = IF n = 1 THEN 1 ELSE sentences[n - 1][2] + 1
      BY <2>5 DEF SentencesAt
    <2>7. sentences[n][1] <= sentences[n][2] /\ sentences[n][1] \in Nat /\ sentences[n][2] \in Nat
      BY <2>5, Types DEF SentencesAt
    <2>8. sentences[n][1] = Printed + 1
      BY <2>5, <2>6 DEF Printed
    <2>9. queue[1] = sentences[n][2] - Printed /\ queue[1] # 0
      BY <1>1, <1>4, <1>6, <2>4, <2>7, <2>8
    <2> QED BY <1>1, <1>3, <2>3, <2>4, <2>8, <2>9
  <1> QED BY <1>5, <1>6

LEMMA ConsumeListInv ==
  ASSUME FoldInv, ConsumeList
  PROVE  FoldInv'
  <1>0. /\ UNCHANGED <<buffer, toWrite, inPipe, inOpen, held, child, faults, outPipe, partial, cut, sentences>>
        /\ UNCHANGED <<sent, toSend, fpc, printed, outcome, status>>
        /\ rpc = "consume" /\ queue # <<>> /\ expected' = Head(queue) /\ sentence' = <<>>
        /\ queue' = Tail(queue) /\ rpc' = IF Head(queue) = 0 THEN "done" ELSE "reading"
    BY DEF ConsumeList, childSideVars, streamVars, childVars, readVars, feederVars, endVars
  <1>1. TypeOK /\ SentencesAt /\ QueueAt /\ InStep /\ Innocent
    BY DEF FoldInv
  <1>2. /\ Len(queue) \in Nat \ {0} /\ queue' \in Seq(0..MaxFolds) /\ Len(queue') = Len(queue) - 1
        /\ Head(queue) \in 0..MaxFolds /\ \A n \in 1..(Len(queue) - 1) : queue'[n] = queue[n + 1]
    BY <1>0, <1>1, TailFacts DEF TypeOK
  <1>3. /\ Len(printed) \in Nat /\ Len(sentences) \in Nat /\ Started = Len(printed)
        /\ Started \in Nat /\ Printed \in Nat /\ Printed' = Printed /\ Len(sentence') = 0
    BY <1>0, <1>1, Types, Places DEF Started, Printed
  <1>4. TypeOK'
    <2>1. sentence' \in Seq(Lines)
      BY <1>0, <1>1, EmptyFacts DEF TypeOK
    <2>2. expected' \in 0..MaxFolds /\ rpc' \in {"reading", "done"}
      BY <1>0, <1>2
    <2> QED BY <1>0, <1>1, <1>2, <2>1, <2>2 DEF TypeOK
  <1>5. SentencesAt'
    BY <1>0, <1>1, SentencesKept
  <1>6. outcome # "exit"
    BY <1>0, <1>1 DEF QueueAt
  <1>7. QueueAt'
    <2>1. CASE Head(queue) = 0
      <3>1. Ending /\ Len(queue) = 1
        BY <1>0, <1>1, <2>1, HeadOfQueue
      <3>2. rpc' = "done" /\ ~Ending' /\ Started' = Started /\ fpc' \in {"flush", "close", "done"}
        BY <1>0, <1>3, <2>1, <3>1 DEF Ending, Started
      <3>3. Len(queue') = 0 /\ Len(sentences) = Started + 1 - 1
        BY <1>1, <1>2, <3>1 DEF QueueAt
      <3>4. Len(sentences') = Len(sentences) /\ Len(queue') \in Nat
        BY <1>0, <3>3
      <3>5. Len(sentences') = Started' + Len(queue') - 0
        BY ONLY <1>3, <3>2, <3>3, <3>4
      <3>6. 1..Len(queue') = {}
        BY ONLY <3>3
      <3> QED BY <1>0, <1>6, <3>2, <3>3, <3>5, <3>6 DEF QueueAt
    <2>2. CASE Head(queue) # 0
      <3>1. /\ Ending => Len(queue) > 1
            /\ Started + 1 \in 1..Len(sentences)
            /\ sentences[Started + 1][1] = Printed + 1
            /\ Head(queue) = sentences[Started + 1][2] - Printed
        BY <1>0, <1>1, <2>2, HeadOfQueue
      <3>2. rpc' = "reading" /\ Ending' = Ending /\ Started' = Started + 1
        BY <1>0, <1>3, <2>2 DEF Ending, Started
      <3> DEFINE less == IF Ending THEN 1 ELSE 0
      <3>3. Len(sentences) = Started + Len(queue) - less
        BY <1>1 DEF QueueAt
      <3>4. less \in {0, 1}
        OBVIOUS
      <3>5. Len(sentences') = Started' + Len(queue') - less
        <4> HIDE DEF less
        <4> QED BY <1>0, <1>2, <1>3, <3>2, <3>3, <3>4
      <3>6. ASSUME NEW n \in 1..Len(queue')
            PROVE  IF Ending /\ n = Len(queue') THEN queue'[n] = 0
                   ELSE queue'[n] = sentences[Started' + n][2] - sentences[Started' + n][1] + 1
        <4>1. n + 1 \in 1..Len(queue) /\ queue'[n] = queue[n + 1] /\ (n = Len(queue') <=> n + 1 = Len(queue))
              /\ Started' + n = Started + (n + 1)
          <5>1. PICK q \in Nat : q = Len(queue) /\ q > 0 /\ Len(queue') = q - 1
            BY <1>2
          <5>2. n \in 1..(q - 1)
            BY <5>1
          <5>3. n + 1 \in 1..q /\ (n = q - 1 <=> n + 1 = q)
            BY ONLY <5>2, q \in Nat
          <5>4. queue'[n] = queue[n + 1]
            BY <1>2, <5>1, <5>2
          <5>5. n \in Nat
            BY <5>2
          <5>6. Started' + n = Started + (n + 1)
            BY ONLY <1>3, <3>2, <5>5
          <5> QED BY <5>1, <5>3, <5>4, <5>6
        <4>2. IF Ending /\ n + 1 = Len(queue) THEN queue[n + 1] = 0
              ELSE queue[n + 1] = sentences[Started + (n + 1)][2] - sentences[Started + (n + 1)][1] + 1
          BY <1>1, <4>1 DEF QueueAt
        <4> QED BY <4>1, <4>2
      <3>7. expected' > 0 /\ Printed + 0 + expected' = sentences[Started + 1][2]
        <4>1. sentences[Started + 1][2] \in Nat
          BY <1>1, <3>1, Types
        <4>2. PICK k \in Nat : k = Head(queue)
          BY <1>2
        <4> QED BY <1>0, <1>3, <2>2, <3>1, <4>1, <4>2
      <3>8. Ending => Len(queue') > 0
        BY <1>2, <3>1
      <3> QED BY <1>0, <1>3, <1>6, <3>2, <3>5, <3>6, <3>7, <3>8 DEF QueueAt
    <2> QED BY <2>1, <2>2
  <1>8. InStep'
    <2> SUFFICES ASSUME "extra" \notin faults PROVE \E seen \in Nat : Matching(seen)' /\ Way(seen)'
      BY <1>0 DEF InStep
    <2>1. PICK seen \in Nat : Matching(seen) /\ Way(seen)
      BY <1>1 DEF InStep
    <2>2. PICK p, o, h, i, w : OnTheWay(seen, p, o, h, i, w)
      BY <2>1 DEF Way
    <2>3. OnTheWay(seen, p, o, h, i, w)'
      BY <1>0, <2>2 DEF OnTheWay, NotAhead
    <2>4. Read' = Read
      BY <1>0, <1>3 DEF Read
    <2>5. Matching(seen)'
      BY <1>0, <1>3, <2>1, <2>4 DEF Matching, AnswersOf
    <2> QED BY <2>3, <2>5 DEF Way
  <1>9. Innocent'
    BY <1>0, <1>1 DEF Innocent
  <1> QED BY <1>4, <1>5, <1>7, <1>8, <1>9 DEF FoldInv

\* Bytes of the next line arrive.
LEMMA ReaderReadsInv ==
  ASSUME FoldInv, ReaderReads
  PROVE  FoldInv'
  <1>0. /\ UNCHANGED <<buffer, toWrite, inPipe, inOpen, held, child, faults, cut, sentences, queue>>
        /\ UNCHANGED <<sent, toSend, fpc, rpc, expected, sentence, printed, outcome, status>>
        /\ outPipe # <<>> /\ (partial # <<>> => ~partial[Len(partial)].eol)
        /\ partial' = Append(partial, Head(outPipe)) /\ outPipe' = Tail(outPipe)
    BY DEF ReaderReads, ReadMore, streamVars, childVars, readVars, feederVars, readerVars, endVars
  <1>1. TypeOK /\ SentencesAt /\ QueueAt /\ InStep /\ Innocent
    BY DEF FoldInv
  <1>2. outPipe \in Seq(Tokens) /\ partial \in Seq(Tokens) /\ Len(outPipe) <= PipeCap /\ PipeCap \in Nat
    BY <1>1, CapacityAssumption DEF TypeOK
  <1>3. /\ Head(outPipe) \in Tokens /\ outPipe' \in Seq(Tokens)
        /\ Len(outPipe') = Len(outPipe) - 1 /\ Len(outPipe) \in Nat \ {0}
    BY <1>0, <1>2, TailFacts
  <1>4. /\ partial' \in Seq(Tokens) /\ Len(partial) \in Nat /\ Len(partial') = Len(partial) + 1
        /\ \A j \in 1..Len(partial) : partial'[j] = partial[j]
        /\ partial'[Len(partial) + 1] = Head(outPipe)
    BY <1>0, <1>2, <1>3, AppendFacts
  <1>5. Len(outPipe') <= PipeCap
    BY <1>2, <1>3
  <1>6. TypeOK'
    BY <1>0, <1>1, <1>3, <1>4, <1>5 DEF TypeOK
  <1>7. SentencesAt' /\ QueueAt'
    BY <1>0, <1>1, SentencesKept, QueueKept
  <1>8. Innocent'
    BY <1>0, <1>1 DEF Innocent
  <1>9. InStep'
    <2> SUFFICES ASSUME "extra" \notin faults PROVE \E seen \in Nat : Matching(seen)' /\ Way(seen)'
      BY <1>0 DEF InStep
    <2>1. PICK seen \in Nat : Matching(seen) /\ Way(seen)
      BY <1>1 DEF InStep
    <2>2. PICK p, o, h, i, w : OnTheWay(seen, p, o, h, i, w)
      BY <2>1 DEF Way
    <2>3. Matching(seen)'
      BY <1>0, <2>1, MatchingKept
    <2>4. Run(partial, seen + 1, p, faults) /\ Run(outPipe, p, o, faults)
      BY <2>2 DEF OnTheWay
    <2>5. PICK x : Run(partial', seen + 1, x, faults) /\ Run(outPipe', x, o, faults)
      BY <1>0, <1>2, <2>4, FoldTokens, RunShift
    <2>6. \A j \in 1..Len(partial') : Gaps(faults) \/ partial'[j].line = seen + 1
      <3> SUFFICES ASSUME ~Gaps(faults) PROVE \A j \in 1..Len(partial') : partial'[j].line = seen + 1
        OBVIOUS
      <3>1. p = seen + 1
        <4>1. CASE Len(partial) = 0
          BY <2>4, <4>1 DEF Run, Gapless
        <4>2. CASE Len(partial) # 0
          <5>1. ~partial[Len(partial)].eol /\ Len(partial) \in 1..Len(partial)
            BY <1>0, <1>2, <1>4, <4>2, EmptyFacts
          <5> QED BY <2>2, <2>4, <4>2, <5>1 DEF Run, Gapless, After, OnTheWay
        <4> QED BY <4>1, <4>2
      <3>2. Head(outPipe).line = seen + 1
        BY <1>0, <1>2, <2>4, <3>1, FoldTokens, RunTail
      <3>3. \A j \in 1..Len(partial') : j \in 1..Len(partial) \/ j = Len(partial) + 1
        BY <1>4
      <3> QED BY <1>4, <2>2, <3>2, <3>3 DEF OnTheWay
    <2>7. NotAhead(partial') /\ NotAhead(outPipe')
      BY <1>0, <1>2, <2>2, NotAheadShift DEF OnTheWay
    <2>8. \A s \in {partial', outPipe', held', inPipe', toWrite', buffer'} : NotAhead(s)
      BY <1>0, <2>2, <2>7 DEF OnTheWay
    <2>9. OnTheWay(seen, x, o, h, i, w)'
      BY <1>0, <2>2, <2>5, <2>6, <2>8 DEF OnTheWay, NotAhead
    <2> QED BY <2>3, <2>9 DEF Way
  <1> QED BY <1>6, <1>7, <1>8, <1>9 DEF FoldInv

\* The sentence that is complete with this answer is the next one, and made of
\* the answers to its own lines if there was no gap.
LEMMA SentenceComplete ==
  ASSUME TypeOK, SentencesAt, QueueAt, rpc = "reading", expected = 1,
         \A j \in 1..Len(sentence) : sentence[j] = Printed + j
  PROVE  Append(sentence, Read + 1) = AnswersOf(Len(printed) + 1)
  <1>1. /\ Len(sentence) \in Nat /\ Printed \in Nat /\ Started = Len(printed) + 1
        /\ sentences[Started][1] = Printed + 1
        /\ Printed + Len(sentence) + 1 = sentences[Started][2]
        /\ Read = Printed + Len(sentence)
    BY Types, Places DEF QueueAt, Read
  <1>2. PICK n : n = Started
    OBVIOUS
  <1>3. PICK length \in Nat : length = Len(sentence)
    BY <1>1
  <1>4. sentences[n][1] = Printed + 1 /\ sentences[n][2] = Printed + length + 1
    BY <1>1, <1>2, <1>3
  <1>5. sentences[n][2] - sentences[n][1] + 1 = length + 1
    BY <1>1, <1>4
  <1>6. AnswersOf(n) = [j \in 1..(length + 1) |-> (Printed + 1) + j - 1]
    BY <1>4, <1>5 DEF AnswersOf
  <1>7. AnswersOf(n) = [j \in 1..(length + 1) |-> Printed + j]
    BY <1>1, <1>6
  <1> DEFINE answers == [j \in 1..(length + 1) |-> Printed + j]
  <1>8. answers \in Seq(Nat) /\ Len(answers) = length + 1
    <2>1. \A j \in 1..(length + 1) : Printed + j \in Nat
      BY <1>1
    <2> QED BY <2>1
  <1>9. sentence \in Seq(Nat) /\ Read + 1 \in Nat
    <2>1. sentence \in Seq(Lines) /\ Lines \subseteq Nat
      BY FoldTokens DEF TypeOK
    <2> QED BY <1>1, <2>1
  <1>10. PICK s : s = Append(sentence, Read + 1)
    OBVIOUS
  <1>11. /\ s \in Seq(Nat) /\ Len(s) = length + 1 /\ s[length + 1] = Read + 1
         /\ \A j \in 1..length : s[j] = sentence[j]
    BY <1>3, <1>9, <1>10, AppendFacts
  <1>12. ASSUME NEW j \in 1..(length + 1) PROVE s[j] = answers[j]
    <2>1. answers[j] = Printed + j
      OBVIOUS
    <2>2. CASE j \in 1..length
      BY <1>3, <1>11, <2>1, <2>2
    <2>3. CASE j \notin 1..length
      <3>1. j = length + 1
        BY <2>3
      <3>2. Read + 1 = Printed + (length + 1)
        BY <1>1, <1>3
      <3> QED BY <1>11, <2>1, <3>1, <3>2
    <2> QED BY <2>2, <2>3
  <1>13. s = answers
    <2> HIDE DEF answers
    <2> QED BY <1>8, <1>11, <1>12, SeqEqual
  <1> QED BY <1>1, <1>2, <1>7, <1>10, <1>13

\* What the line tells that ReadLine returns: its number, and that the tokens
\* behind it belong to later lines.
LEMMA LineKnown ==
  ASSUME TypeOK, QueueAt, Innocent, LineReady, NEW seen \in Nat, seen <= sent,
         NEW p, NEW o, NEW h, NEW i, NEW w, OnTheWay(seen, p, o, h, i, w)
  PROVE  /\ LineRead \in Nat /\ seen + 1 <= LineRead /\ LineRead <= sent
         /\ Gaps(faults) \/ LineRead = seen + 1
         /\ \/ Run(<<>>, LineRead + 1, p, faults)
            \/ outPipe = <<>> /\ child # "running" /\ faults # {}
         /\ child = "running" => Run(<<>>, LineRead + 1, p, faults)
  <1>1. PICK n : n = Len(partial)
    OBVIOUS
  <1>2. partial \in Seq(Token) /\ n \in Nat \ {0} /\ n \in 1..Len(partial) /\ partial # <<>>
    BY <1>1, FoldTokens, EmptyFacts DEF TypeOK, LineReady
  <1>3. PICK last : last = partial[n]
    OBVIOUS
  <1>4. /\ last \in Token /\ LineRead = last.line /\ last.line \in Nat
        /\ After(last) = IF last.eol THEN last.line + 1 ELSE last.line
    BY <1>1, <1>2, <1>3, ElementOfSeq, AfterFacts DEF LineRead, After
  <1>5. sent \in Nat
    BY Types
  <1>6. Run(partial, seen + 1, p, faults) /\ Run(outPipe, p, o, faults) /\ NotAhead(partial)
    BY DEF OnTheWay
  <1>7. seen + 1 <= last.line /\ After(last) <= p /\ last.line <= sent /\ p \in Nat
    BY <1>2, <1>3, <1>6 DEF Run, Ascending, NotAhead
  <1>8. Gaps(faults) \/ last.line = seen + 1
    BY <1>2, <1>3 DEF OnTheWay
  <1>9. Gaps(faults) \/ p = After(last)
    BY <1>1, <1>2, <1>3, <1>6 DEF Run, Gapless
  <1>10. last.eol => Run(<<>>, last.line + 1, p, faults)
    <2> SUFFICES ASSUME last.eol PROVE Run(<<>>, last.line + 1, p, faults)
      OBVIOUS
    <2>1. last.line + 1 <= p /\ last.line + 1 \in Nat /\ (Gaps(faults) \/ p = last.line + 1)
      BY <1>4, <1>7, <1>9
    <2>2. Len(<<>>) = 0
      OBVIOUS
    <2>3. Ascending(<<>>, last.line + 1, p)
      BY <1>7, <2>1, <2>2 DEF Ascending
    <2>4. Gaps(faults) \/ Gapless(<<>>, last.line + 1, p)
      BY <2>1, <2>2 DEF Gapless
    <2> QED BY <2>3, <2>4 DEF Run
  <1>11. ~last.eol => outPipe = <<>> /\ child # "running"
    BY <1>1, <1>3 DEF LineReady, AtEof
  <1>12. ~last.eol => faults # {}
    <2> SUFFICES ASSUME ~last.eol, faults = {} PROVE FALSE
      OBVIOUS
    <2>1. ~Gaps(faults) /\ o = sent + 1
      BY <1>11 DEF Gaps, OnTheWay
    <2>2. p = last.line
      BY <1>4, <1>9, <2>1
    <2>3. p = o
      BY <1>6, <1>11, <2>1, RunOfNone
    <2> QED BY <1>4, <1>5, <1>7, <2>1, <2>2, <2>3
  <1> QED BY <1>4, <1>7, <1>8, <1>10, <1>11, <1>12

\* The last line of the last sentence can only be complete when the empty list
\* is in the queue: its end of line waits in the stream's buffer.
LEMMA LastLineWaits ==
  ASSUME TypeOK, SentencesAt, QueueAt, InStep, Innocent, faults = {}, rpc = "reading",
         LineReady, expected = 1
  PROVE  Len(queue) > 0
  <1> SUFFICES ASSUME Len(queue) = 0 PROVE FALSE
    BY Types
  <1>1. PICK seen \in Nat : Matching(seen) /\ Way(seen)
    BY DEF InStep
  <1>2. PICK p, o, h, i, w : OnTheWay(seen, p, o, h, i, w)
    BY <1>1 DEF Way
  <1>3. ~Gaps(faults)
    BY DEF Gaps
  <1>4. seen = Read /\ seen <= sent /\ sent \in Nat /\ toSend \in Nat
    BY <1>1, <1>3, Types DEF Matching
  <1>5. /\ LineRead = seen + 1 /\ LineRead <= sent
        /\ child = "running" => Run(<<>>, LineRead + 1, p, faults)
    BY <1>2, <1>3, <1>4, LineKnown
  <1>6. ~Ending /\ Len(sentences) = Started /\ Len(sentences) # 0
    <2>1. ~Ending
      BY DEF QueueAt
    <2>2. Len(sentences) = Started + Len(queue) /\ Started = Len(printed) + 1 /\ Len(printed) \in Nat
      BY <2>1, Places, Types
    <2> QED BY <2>1, <2>2
  <1>7. Printed + Len(sentence) + 1 = sentences[Started][2] /\ Read = Printed + Len(sentence)
    BY DEF QueueAt, Read
  <1>8. sent + toSend = sentences[Len(sentences)][2]
    BY <1>6 DEF SentencesAt
  <1>9. sent + toSend = seen + 1
    BY <1>4, <1>6, <1>7, <1>8
  <1>10. toSend = 0 /\ sent = seen + 1 /\ sent > 0
    BY <1>4, <1>5, <1>9
  <1>11. fpc \in {"next", "eol"}
    <2>1. fpc # "line"
      BY <1>10 DEF SentencesAt
    <2>2. fpc \notin {"flush", "close", "done"}
      BY <1>6 DEF Ending
    <2> QED BY <2>1, <2>2 DEF TypeOK
  <1>12. child = "running"
    BY <1>11 DEF Innocent
  <1>13. /\ Run(<<>>, sent + 1, p, faults) /\ Run(outPipe, p, o, faults)
         /\ Run(held, o, h, faults) /\ Run(inPipe, h, i, faults) /\ Run(toWrite, i, w, faults)
         /\ Run(buffer, w, IF fpc = "eol" THEN sent ELSE sent + 1, faults)
    BY <1>2, <1>5, <1>10, <1>12 DEF OnTheWay
  <1>14. /\ {p, o, h, i, w} \subseteq Nat
         /\ sent + 1 <= p /\ p <= o /\ o <= h /\ h <= i /\ i <= w
    BY <1>13 DEF Run, Ascending
  <1>15. sent + 1 <= w
    BY <1>4, <1>14
  <1>16. CASE fpc = "eol"
    <2>1. w <= sent
      BY <1>13, <1>16 DEF Run, Ascending
    <2> QED BY <1>4, <1>14, <1>15, <2>1
  <1>17. CASE fpc = "next"
    <2>1. Len(buffer) > 0
      BY <1>10, <1>12, <1>17 DEF Innocent
    <2>2. buffer \in Seq(Token) /\ 1 \in 1..Len(buffer)
      BY <2>1, FoldTokens DEF TypeOK
    <2>3. buffer[1].line \in Nat
      BY <2>2, ElementOfSeq, AfterFacts
    <2>4. w <= buffer[1].line
      BY <1>13, <2>2 DEF Run, Ascending
    <2>5. buffer[1].line <= sent
      BY <1>2, <2>2 DEF OnTheWay, NotAhead
    <2> QED BY <1>4, <1>14, <1>15, <2>3, <2>4, <2>5
  <1> QED BY <1>11, <1>16, <1>17

LEMMA AppendLineInv ==
  ASSUME FoldInv, AppendLine, cut' \subseteq {LineRead}
  PROVE  FoldInv'
  <1>0. /\ UNCHANGED <<buffer, toWrite, inPipe, inOpen, held, child, faults, outPipe, sentences, queue>>
        /\ UNCHANGED <<sent, toSend, fpc, outcome, status>>
        /\ rpc = "reading" /\ LineReady /\ expected' = expected - 1
        /\ sentence' = Append(sentence, LineRead) /\ partial' = <<>>
        /\ \/ expected > 1 /\ rpc' = rpc /\ printed' = printed
           \/ expected = 1 /\ rpc' = "check" /\ printed' = Append(printed, Append(sentence, LineRead))
    BY DEF AppendLine, TakeLine, streamVars, childVars, feederVars, endVars
  <1>1. TypeOK /\ SentencesAt /\ QueueAt /\ InStep /\ Innocent
    BY DEF FoldInv
  <1>2. PICK line : line = LineRead
    OBVIOUS
  <1>3. line \in Lines
    <2>1. Len(partial) \in 1..Len(partial) /\ partial \in Seq(Tokens)
      BY <1>0, <1>1, EmptyFacts DEF TypeOK, LineReady
    <2>2. partial[Len(partial)] \in Tokens
      BY <2>1, ElementOfSeq
    <2> QED BY <1>2, <2>2 DEF LineRead, Tokens
  <1>4. /\ expected \in Nat \ {0} /\ expected \in 0..MaxFolds /\ MaxFolds \in Nat
        /\ Len(sentence) \in Nat /\ Len(printed) \in Nat /\ Printed \in Nat /\ Read \in Nat
        /\ Len(sentences) \in Nat
        /\ Started = Len(printed) + 1 /\ Started <= Len(sentences)
        /\ Printed + Len(sentence) + expected = sentences[Started][2]
        /\ Read = Printed + Len(sentence)
    <2>1. /\ Len(sentence) \in Nat /\ Len(printed) \in Nat /\ Printed \in Nat /\ Read \in Nat
          /\ Len(sentences) \in Nat
          /\ Started = Len(printed) + 1 /\ Started <= Len(sentences)
      BY <1>0, <1>1, Types, Places
    <2>2. expected > 0 /\ Printed + Len(sentence) + expected = sentences[Started][2]
      BY <1>0, <1>1 DEF QueueAt
    <2>3. MaxFolds \in Nat /\ expected \in 0..MaxFolds
      BY <1>1, FoldBoundsAssumption DEF TypeOK
    <2>4. expected \in Nat \ {0}
      BY <2>2, <2>3
    <2>5. Read = Printed + Len(sentence)
      BY <1>0 DEF Read
    <2> QED BY <2>1, <2>2, <2>3, <2>4, <2>5
  <1>5. PICK s : s = Append(sentence, line)
    OBVIOUS
  <1>6. /\ s \in Seq(Lines) /\ Len(s) = Len(sentence) + 1 /\ s[Len(sentence) + 1] = line
        /\ \A j \in 1..Len(sentence) : s[j] = sentence[j]
    BY <1>1, <1>3, <1>5, AppendFacts DEF TypeOK
  <1>7. PICK pr : pr = Append(printed, s)
    OBVIOUS
  <1>8. /\ pr \in Seq(Seq(Lines)) /\ Len(pr) = Len(printed) + 1 /\ pr[Len(printed) + 1] = s
        /\ \A n \in 1..Len(printed) : pr[n] = printed[n]
    BY <1>1, <1>6, <1>7, AppendFacts DEF TypeOK
  <1>9. /\ sentence' = s
        /\ \/ expected > 1 /\ rpc' = "reading" /\ printed' = printed
           \/ expected = 1 /\ rpc' = "check" /\ printed' = pr
    BY <1>0, <1>2, <1>5, <1>7
  <1>10. TypeOK'
    <2>1. expected' \in 0..MaxFolds
      BY <1>0, <1>4
    <2>2. partial' \in Seq(Tokens)
      BY <1>0, EmptyFacts, <1>1 DEF TypeOK
    <2>3. sentence' \in Seq(Lines) /\ printed' \in Seq(Seq(Lines)) /\ rpc' \in {"reading", "check"}
      BY <1>1, <1>6, <1>8, <1>9 DEF TypeOK
    <2>4. cut' \subseteq Lines
      BY <1>2, <1>3
    <2> QED BY <1>0, <1>1, <2>1, <2>2, <2>3, <2>4 DEF TypeOK
  <1>11. SentencesAt'
    BY <1>0, <1>1, SentencesKept
  <1>12. Ending' = Ending /\ Started' = Started
    BY <1>0, <1>4, <1>8, <1>9 DEF Ending, Started
  <1>13. /\ expected > 1 => Printed' = Printed
         /\ expected = 1 => Printed' = Read + 1
         /\ Read' = Read + 1
    <2>1. CASE expected > 1
      <3>1. Printed' = Printed /\ rpc' = "reading"
        BY <1>0, <1>9, <2>1 DEF Printed
      <3>2. Read' = Printed' + Len(s)
        BY <1>9, <3>1 DEF Read
      <3> QED BY <1>4, <1>6, <2>1, <3>1, <3>2
    <2>2. CASE expected = 1
      <3>1. printed' = pr /\ rpc' = "check" /\ sentences' = sentences
        BY <1>0, <1>9, <2>2
      <3>2. Printed' = sentences[Started][2]
        BY <1>4, <1>8, <3>1 DEF Printed
      <3>3. Read' = Printed'
        BY <3>1 DEF Read
      <3> QED BY <1>4, <2>2, <3>2, <3>3
    <2> QED BY <1>4, <1>9, <2>1, <2>2
  <1>14. QueueAt'
    <2>1. rpc' = "reading" => expected' > 0 /\ Printed' + Len(sentence') + expected' = sentences'[Started'][2]
      <3> SUFFICES ASSUME rpc' = "reading"
                   PROVE  expected' > 0 /\ Printed' + Len(sentence') + expected' = sentences'[Started'][2]
        OBVIOUS
      <3>1. expected > 1 /\ Printed' = Printed /\ Len(sentence') = Len(sentence) + 1
        BY <1>6, <1>9, <1>13
      <3>2. PICK e \in Nat, p \in Nat, l \in Nat : e = expected /\ p = Printed /\ l = Len(sentence)
        BY <1>4
      <3>3. expected' = e - 1 /\ e > 1 /\ Printed' = p /\ Len(sentence') = l + 1
        BY <1>0, <3>1, <3>2
      <3>4. expected' > 0 /\ Printed' + Len(sentence') + expected' = p + l + e
        BY ONLY <3>2, <3>3
      <3>5. p + l + e = sentences[Started][2] /\ sentences' = sentences
        BY <1>0, <1>4, <3>2
      <3> QED BY ONLY <1>12, <3>4, <3>5
    <2>2. rpc' # "done" /\ outcome' # "exit"
      BY <1>0, <1>1, <1>9 DEF QueueAt
    <2> QED BY <1>0, <1>1, <1>12, <2>1, <2>2 DEF QueueAt
  <1>15. InStep'
    <2> SUFFICES ASSUME "extra" \notin faults PROVE \E seen \in Nat : Matching(seen)' /\ Way(seen)'
      BY <1>0 DEF InStep
    <2>1. PICK seen \in Nat : Matching(seen) /\ Way(seen)
      BY <1>1 DEF InStep
    <2>2. PICK p, o, h, i, w : OnTheWay(seen, p, o, h, i, w)
      BY <2>1 DEF Way
    <2>3. /\ Read <= seen /\ seen <= sent /\ (Gaps(faults) \/ seen = Read)
          /\ seen = Read =>
               /\ \A n \in 1..Len(printed) : printed[n] = AnswersOf(n)
               /\ \A j \in 1..Len(sentence) : sentence[j] = Printed + j
      BY <1>0, <2>1 DEF Matching
    <2>4. /\ line \in Nat /\ seen + 1 <= line /\ line <= sent
          /\ Gaps(faults) \/ line = seen + 1
          /\ \/ Run(<<>>, line + 1, p, faults)
             \/ outPipe = <<>> /\ child # "running" /\ faults # {}
      BY <1>0, <1>1, <1>2, <2>2, <2>3, LineKnown
    <2>5. Matching(line)'
      <3>1. Read + 1 <= line /\ (Gaps(faults) \/ line = Read + 1)
        BY <1>4, <2>3, <2>4
      <3>2. \A n : AnswersOf(n)' = AnswersOf(n)
        BY <1>0 DEF AnswersOf
      <3>3. ASSUME line = Read + 1
            PROVE  /\ \A n \in 1..Len(printed') : printed'[n] = AnswersOf(n)'
                   /\ rpc' = "reading" => \A j \in 1..Len(sentence') : sentence'[j] = Printed' + j
        <4>1. /\ \A n \in 1..Len(printed) : printed[n] = AnswersOf(n)
              /\ \A j \in 1..Len(sentence) : sentence[j] = Printed + j
          <5>1. seen = Read
            BY <1>4, <2>3, <2>4, <3>3
          <5> QED BY <2>3, <5>1
        <4>2. CASE expected > 1
          <5>1. printed' = printed /\ Printed' = Printed /\ sentence' = s
            BY <1>4, <1>9, <1>13, <4>2
          <5>2. ASSUME NEW j \in 1..Len(s) PROVE s[j] = Printed + j
            <6>1. j \in 1..Len(sentence) \/ j = Len(sentence) + 1
              BY <1>4, <1>6
            <6>2. line = Printed + (Len(sentence) + 1)
              BY <1>4, <3>3
            <6> QED BY <1>6, <4>1, <6>1, <6>2
          <5> QED BY <3>2, <4>1, <5>1, <5>2
        <4>3. CASE expected = 1
          <5>1. printed' = pr /\ rpc' = "check"
            BY <1>9, <4>3
          <5>2. s = AnswersOf(Len(printed) + 1)
            BY <1>0, <1>1, <1>5, <3>3, <4>1, <4>3, SentenceComplete
          <5>3. ASSUME NEW n \in 1..Len(pr) PROVE pr[n] = AnswersOf(n)
            <6>1. n \in 1..Len(printed) \/ n = Len(printed) + 1
              BY <1>4, <1>8
            <6> QED BY <1>8, <4>1, <5>2, <6>1
          <5> QED BY <3>2, <5>1, <5>3
        <4> QED BY <1>9, <4>2, <4>3
      <3> QED BY <1>0, <1>13, <2>4, <3>1, <3>3 DEF Matching
    <2>6. Way(line)'
      <3>1. \A t \in {partial', outPipe', held', inPipe', toWrite', buffer'} : NotAhead(t)
        <4>1. NotAhead(<<>>)
          BY DEF NotAhead
        <4> QED BY <1>0, <2>2, <4>1 DEF OnTheWay
      <3>2. Len(partial') = 0
        BY <1>0
      <3>3. CASE Run(<<>>, line + 1, p, faults)
        <4>1. OnTheWay(line, p, o, h, i, w)'
          BY <1>0, <1>2, <2>2, <3>1, <3>2, <3>3 DEF OnTheWay, NotAhead
        <4> QED BY <4>1 DEF Way
      <3>4. CASE outPipe = <<>> /\ child # "running" /\ faults # {}
        <4>1. Run(<<>>, line + 1, line + 1, faults)
          BY <2>4, EmptyRun
        <4>2. OnTheWay(line, line + 1, line + 1, h, i, w)'
          BY <1>0, <1>2, <3>1, <3>2, <3>4, <4>1 DEF OnTheWay, NotAhead
        <4> QED BY <4>2 DEF Way
      <3> QED BY <2>4, <3>3, <3>4
    <2> QED BY <2>4, <2>5, <2>6
  <1>16. Innocent'
    <2>1. faults = {} /\ expected = 1 => Len(queue) > 0
      BY <1>0, <1>1, LastLineWaits
    <2> QED BY <1>0, <1>1, <1>9, <2>1 DEF Innocent
  <1> QED BY <1>10, <1>11, <1>14, <1>15, <1>16 DEF FoldInv

\* The answers end, or come when none is expected, only when the child did
\* something wrong.
LEMMA AnswersEnd ==
  ASSUME TypeOK, SentencesAt, QueueAt, InStep, Innocent, rpc = "reading", NoLine
  PROVE  faults # {}
  <1> SUFFICES ASSUME faults = {} PROVE FALSE
    OBVIOUS
  <1>1. PICK seen \in Nat : Matching(seen) /\ Way(seen)
    BY DEF InStep
  <1>2. PICK p, o, h, i, w : OnTheWay(seen, p, o, h, i, w)
    BY <1>1 DEF Way
  <1>3. ~Gaps(faults) /\ partial = <<>> /\ outPipe = <<>> /\ child # "running"
    BY DEF Gaps, NoLine, AtEof
  <1>4. Run(<<>>, seen + 1, p, faults) /\ Run(<<>>, p, o, faults) /\ o = sent + 1
    BY <1>2, <1>3 DEF OnTheWay
  <1>5. seen + 1 = sent + 1
    BY <1>3, <1>4, RunOfNone
  <1>6. seen = Read /\ sent \in Nat /\ toSend = 0
    <2>1. fpc = "done"
      BY <1>3 DEF Innocent
    <2> QED BY <1>1, <1>3, <2>1, Types DEF Matching, SentencesAt
  <1>7. /\ Len(sentence) \in Nat /\ Printed \in Nat /\ Read = Printed + Len(sentence) /\ expected \in Nat
        /\ Started \in 1..Len(sentences)
    BY Types, Places DEF Read
  <1>8. expected > 0 /\ Printed + Len(sentence) + expected = sentences[Started][2]
    BY DEF QueueAt
  <1>9. sentences[Started][2] <= sent + toSend
    BY <1>7 DEF SentencesAt
  <1> QED BY <1>5, <1>6, <1>7, <1>8, <1>9

\* The reader's other steps, and the end of the process.
LEMMA ReaderEndsInv ==
  ASSUME FoldInv, ReaderEof \/ CheckEmpty \/ PeekReturns \/ PeekEof \/ Return
  PROVE  FoldInv'
  <1>0. /\ UNCHANGED <<buffer, toWrite, inPipe, inOpen, held, child, faults, outPipe, partial, cut>>
        /\ UNCHANGED <<sentences, queue, sent, toSend, fpc, expected, sentence, printed>>
    BY DEF ReaderEof, CheckEmpty, PeekReturns, PeekEof, Return, Abort, childSideVars, streamVars,
           childVars, readVars, feederVars, readerVars
  <1>1. TypeOK /\ SentencesAt /\ QueueAt /\ InStep /\ Innocent
    BY DEF FoldInv
  <1>2. SentencesAt'
    BY <1>0, <1>1, SentencesKept
  <1>3. CASE rpc' = rpc
    <2>1. \/ outcome' = "aborted" /\ status' = status /\ (rpc = "peek" \/ (rpc = "reading" /\ NoLine))
          \/ outcome' = "exit" /\ status' = WaitStatus /\ rpc = "done" /\ fpc = "done" /\ child # "running"
      BY <1>3 DEF ReaderEof, CheckEmpty, PeekReturns, PeekEof, Return, Abort, endVars, readerVars
    <2>2. InStep'
      BY <1>0, <1>1, <1>3, InStepKept
    <2>3. QueueAt'
      BY <1>0, <1>1, <1>3, <2>1, QueueKept
    <2>4. child # "running" => WaitStatus \in 0..255
      BY <1>1 DEF WaitStatus, TypeOK
    <2>5. TypeOK'
      <3>1. outcome' \in {"exit", "aborted"}
        BY <2>1
      <3>2. status' \in 0..255
        <4>1. status \in 0..255
          BY <1>1 DEF TypeOK
        <4> QED BY <2>1, <2>4, <4>1
      <3> QED BY <1>0, <1>1, <1>3, <3>1, <3>2 DEF TypeOK
    <2>6. outcome' = "aborted" => faults # {}
      BY <1>1, <2>1, AnswersEnd DEF Innocent
    <2>7. Innocent'
      BY <1>0, <1>1, <1>3, <2>1, <2>6 DEF Innocent
    <2> QED BY <1>2, <2>2, <2>3, <2>5, <2>7 DEF FoldInv
  <1>4. CASE rpc' # rpc
    <2>1. /\ rpc \in {"check", "peek"} /\ UNCHANGED <<outcome, status>>
          /\ rpc' = "consume" \/ (rpc' = "peek" /\ rpc = "check" /\ queue = <<>>)
      BY <1>4 DEF ReaderEof, CheckEmpty, PeekReturns, PeekEof, Return, Abort, endVars, readerVars
    <2>2. Ending' = Ending /\ Started' = Started /\ Printed' = Printed /\ Read' = Read
      BY <1>0, <2>1 DEF Ending, Started, Printed, Read
    <2>3. TypeOK'
      BY <1>0, <1>1, <2>1 DEF TypeOK
    <2>4. QueueAt'
      <3>1. outcome # "exit"
        BY <1>1, <2>1 DEF QueueAt
      <3> QED BY <1>0, <1>1, <2>1, <2>2, <3>1 DEF QueueAt
    <2>5. InStep'
      <3> SUFFICES ASSUME "extra" \notin faults PROVE \E seen \in Nat : Matching(seen)' /\ Way(seen)'
        BY <1>0 DEF InStep
      <3>1. PICK seen \in Nat : Matching(seen) /\ Way(seen)
        BY <1>1 DEF InStep
      <3>2. PICK p, o, h, i, w : OnTheWay(seen, p, o, h, i, w)
        BY <3>1 DEF Way
      <3>3. Matching(seen)'
        BY <1>0, <2>1, <2>2, <3>1 DEF Matching, AnswersOf
      <3>4. OnTheWay(seen, p, o, h, i, w)'
        BY <1>0, <3>2 DEF OnTheWay, NotAhead
      <3> QED BY <3>3, <3>4 DEF Way
    <2>6. Innocent'
      <3>1. Len(<<>>) = 0
        OBVIOUS
      <3> QED BY <1>0, <1>1, <2>1, <3>1 DEF Innocent
    <2> QED BY <1>2, <2>3, <2>4, <2>5, <2>6 DEF FoldInv
  <1> QED BY <1>3, <1>4

-----------------------------------------------------------------------------
(* The child *)

\* A run is still one when the child has done more wrong.
LEMMA RunMore ==
  ASSUME NEW s, NEW first, NEW next, NEW wrong, NEW more, Run(s, first, next, wrong),
         Gaps(wrong) => Gaps(more)
  PROVE  Run(s, first, next, more)
  BY DEF Run

\* When the reader is done it has read all that was sent.
LEMMA AllRead ==
  ASSUME TypeOK, SentencesAt, QueueAt, rpc = "done"
  PROVE  Read = sent /\ Len(printed) = Len(sentences)
  <1>1. ~Ending /\ Len(queue) = 0 /\ toSend = 0 /\ sent \in Nat
    BY Types DEF Ending, QueueAt, SentencesAt
  <1>2. Len(sentences) = Started + Len(queue) /\ Started = Len(printed) /\ Len(printed) \in Nat
    BY <1>1, Places, Types DEF Started
  <1>3. Len(sentences) = Len(printed)
    BY <1>1, <1>2
  <1>4. sent = IF Len(sentences) = 0 THEN 0 ELSE sentences[Len(sentences)][2]
    BY <1>1 DEF SentencesAt
  <1> QED BY <1>3, <1>4 DEF Read, Printed

\* The child passes a token on.
LEMMA ChildPassesInv ==
  ASSUME FoldInv, ChildStep, ChildRead \/ ChildWrite(rpc = "done")
  PROVE  FoldInv'
  <1>0. /\ UNCHANGED <<buffer, toWrite, inOpen, child, faults, partial, cut, sentences, queue, sent, toSend>>
        /\ UNCHANGED <<fpc, rpc, expected, sentence, printed, outcome, status>>
        /\ child = "running"
    BY DEF ChildStep, ChildRead, ChildWrite, streamVars, readVars, feederVars, readerVars, endVars
  <1>1. TypeOK /\ SentencesAt /\ QueueAt /\ InStep /\ Innocent
    BY DEF FoldInv
  <1>2. SentencesAt' /\ QueueAt' /\ Innocent'
    BY <1>0, <1>1, SentencesKept, QueueKept DEF Innocent
  <1>3. /\ {outPipe, held, inPipe} \subseteq Seq(Tokens) /\ {PipeCap, ChildCap} \subseteq Nat
        /\ Len(outPipe) <= PipeCap /\ Len(held) <= ChildCap /\ Len(inPipe) <= PipeCap
    BY <1>1, CapacityAssumption DEF TypeOK
  <1>4. CASE ChildRead
    <2>1. /\ inPipe # <<>> /\ Len(held) < ChildCap
          /\ held' = Append(held, Head(inPipe)) /\ inPipe' = Tail(inPipe) /\ outPipe' = outPipe
      BY <1>4 DEF ChildRead
    <2>2. Head(inPipe) \in Tokens /\ inPipe' \in Seq(Tokens) /\ Len(inPipe') = Len(inPipe) - 1
          /\ Len(inPipe) \in Nat
      BY <1>3, <2>1, TailFacts
    <2>3. held' \in Seq(Tokens) /\ Len(held') = Len(held) + 1 /\ Len(held) \in Nat
      BY <1>3, <2>1, <2>2, AppendFacts
    <2>4. Len(inPipe') <= PipeCap /\ Len(held') <= ChildCap
      BY <1>3, <2>1, <2>2, <2>3
    <2>5. TypeOK'
      BY <1>0, <1>1, <2>1, <2>2, <2>3, <2>4 DEF TypeOK
    <2>6. InStep'
      <3> SUFFICES ASSUME "extra" \notin faults PROVE \E seen \in Nat : Matching(seen)' /\ Way(seen)'
        BY <1>0 DEF InStep
      <3>1. PICK seen \in Nat : Matching(seen) /\ Way(seen)
        BY <1>1 DEF InStep
      <3>2. PICK p, o, h, i, w : OnTheWay(seen, p, o, h, i, w)
        BY <3>1 DEF Way
      <3>3. Matching(seen)'
        BY <1>0, <3>1, MatchingKept
      <3>4. PICK x : Run(held', o, x, faults) /\ Run(inPipe', x, i, faults)
        BY <1>0, <1>3, <2>1, <3>2, FoldTokens, RunShift DEF OnTheWay
      <3>5. NotAhead(held') /\ NotAhead(inPipe')
        BY <1>3, <2>1, <3>2, NotAheadShift DEF OnTheWay
      <3>6. \A s \in {partial', outPipe', held', inPipe', toWrite', buffer'} : NotAhead(s)
        BY <1>0, <2>1, <3>2, <3>5 DEF OnTheWay
      <3>7. OnTheWay(seen, p, o, x, i, w)'
        BY <1>0, <2>1, <3>2, <3>4, <3>6 DEF OnTheWay, NotAhead
      <3> QED BY <3>3, <3>7 DEF Way
    <2> QED BY <1>2, <2>5, <2>6 DEF FoldInv
  <1>5. CASE ChildWrite(rpc = "done")
    <2>1. /\ held # <<>> /\ Len(outPipe) < PipeCap
          /\ outPipe' = Append(outPipe, Head(held)) /\ held' = Tail(held) /\ inPipe' = inPipe
      BY <1>5 DEF ChildWrite, Answerable
    <2>2. Head(held) \in Tokens /\ held' \in Seq(Tokens) /\ Len(held') = Len(held) - 1
          /\ Len(held) \in Nat
      BY <1>3, <2>1, TailFacts
    <2>3. outPipe' \in Seq(Tokens) /\ Len(outPipe') = Len(outPipe) + 1 /\ Len(outPipe) \in Nat
      BY <1>3, <2>1, <2>2, AppendFacts
    <2>4. Len(held') <= ChildCap /\ Len(outPipe') <= PipeCap
      BY <1>3, <2>1, <2>2, <2>3
    <2>5. TypeOK'
      BY <1>0, <1>1, <2>1, <2>2, <2>3, <2>4 DEF TypeOK
    <2>6. InStep'
      <3> SUFFICES ASSUME "extra" \notin faults PROVE \E seen \in Nat : Matching(seen)' /\ Way(seen)'
        BY <1>0 DEF InStep
      <3>1. PICK seen \in Nat : Matching(seen) /\ Way(seen)
        BY <1>1 DEF InStep
      <3>2. PICK p, o, h, i, w : OnTheWay(seen, p, o, h, i, w)
        BY <3>1 DEF Way
      <3>3. Matching(seen)'
        BY <1>0, <3>1, MatchingKept
      <3>4. PICK x : Run(outPipe', p, x, faults) /\ Run(held', x, h, faults)
        BY <1>0, <1>3, <2>1, <3>2, FoldTokens, RunShift DEF OnTheWay
      <3>5. NotAhead(held') /\ NotAhead(outPipe')
        BY <1>3, <2>1, <3>2, NotAheadShift DEF OnTheWay
      <3>6. \A s \in {partial', outPipe', held', inPipe', toWrite', buffer'} : NotAhead(s)
        BY <1>0, <2>1, <3>2, <3>5 DEF OnTheWay
      <3>7. OnTheWay(seen, p, x, h, i, w)'
        BY <1>0, <2>1, <3>2, <3>4, <3>6 DEF OnTheWay, NotAhead
      <3> QED BY <3>3, <3>7 DEF Way
    <2> QED BY <1>2, <2>5, <2>6 DEF FoldInv
  <1> QED BY <1>4, <1>5

\* The child ends as it should, with everything answered, or because the reader
\* is done, which it cannot be before the last answer.
LEMMA ChildEndsInv ==
  ASSUME FoldInv, ChildStep, ChildSigpipe(rpc = "done") \/ ChildFinish
  PROVE  FoldInv'
  <1>0. /\ UNCHANGED <<buffer, toWrite, inOpen, faults, outPipe, partial, cut, sentences, queue, sent, toSend>>
        /\ UNCHANGED <<fpc, rpc, expected, sentence, printed, outcome, status>>
        /\ child = "running" /\ child' \in {"success", "killed"}
        /\ held' = <<>> /\ inPipe' = <<>>
        /\ \/ rpc = "done" /\ held # <<>>
           \/ inPipe = <<>> /\ ~inOpen /\ held = <<>>
    BY DEF ChildStep, ChildSigpipe, ChildFinish, Answerable, streamVars, readVars, feederVars, readerVars, endVars
  <1>1. TypeOK /\ SentencesAt /\ QueueAt /\ InStep /\ Innocent
    BY DEF FoldInv
  <1>2. TypeOK'
    <2>1. held' \in Seq(Tokens) /\ inPipe' \in Seq(Tokens) /\ Len(held') = 0 /\ Len(inPipe') = 0
      BY <1>0, <1>1, EmptyFacts DEF TypeOK
    <2>2. Len(held') <= ChildCap /\ Len(inPipe') <= PipeCap
      BY <2>1, CapacityAssumption
    <2> QED BY <1>0, <1>1, <2>1, <2>2 DEF TypeOK
  <1>3. SentencesAt' /\ QueueAt'
    BY <1>0, <1>1, SentencesKept, QueueKept
  <1>4. ASSUME NEW seen \in Nat, Matching(seen), NEW p, NEW o, NEW h, NEW i, NEW w,
               OnTheWay(seen, p, o, h, i, w), faults = {}
        PROVE  o = sent + 1 /\ fpc = "done"
    <2>0. ~Gaps(faults)
      BY <1>4 DEF Gaps
    <2>1. /\ Run(partial, seen + 1, p, faults) /\ Run(outPipe, p, o, faults)
          /\ Run(held, o, h, faults) /\ Run(inPipe, h, i, faults) /\ Run(toWrite, i, w, faults)
          /\ Run(buffer, w, IF fpc = "eol" THEN sent ELSE sent + 1, faults)
      BY <1>0, <1>4 DEF OnTheWay
    <2>2. CASE rpc = "done" /\ held # <<>>
      <3>1. Read = sent /\ seen = Read /\ sent \in Nat
        BY <1>1, <1>4, <2>0, <2>2, AllRead, Types DEF Matching
      <3>2. p \in Nat /\ o \in Nat /\ sent + 1 <= p /\ p <= o
        BY <2>1, <3>1 DEF Run, Ascending
      <3>3. held \in Seq(Token) /\ Len(held) > 0 /\ 1 \in 1..Len(held)
        BY <1>1, <2>2, FoldTokens, EmptyFacts DEF TypeOK
      <3>4. held[1].line \in Nat /\ o <= held[1].line /\ held[1].line <= sent
        BY <1>4, <2>1, <3>3, ElementOfSeq, AfterFacts DEF Run, Ascending, OnTheWay, NotAhead
      <3> QED BY <3>1, <3>2, <3>4
    <2>3. CASE inPipe = <<>> /\ ~inOpen /\ held = <<>>
      <3>1. fpc = "done"
        BY <1>1, <1>4, <2>3 DEF Innocent
      <3>2. toWrite = <<>> /\ buffer = <<>>
        BY <1>1, <1>4, <3>1, EmptyFacts DEF Innocent, TypeOK
      <3>3. /\ Run(<<>>, o, h, faults) /\ Run(<<>>, h, i, faults) /\ Run(<<>>, i, w, faults)
            /\ Run(<<>>, w, sent + 1, faults)
        BY <2>1, <2>3, <3>1, <3>2
      <3>4. o = h /\ h = i /\ i = w /\ w = sent + 1
        BY <2>0, <3>3, RunOfNone
      <3> QED BY <3>1, <3>4
    <2> QED BY <1>0, <2>2, <2>3
  <1>5. InStep'
    <2> SUFFICES ASSUME "extra" \notin faults PROVE \E seen \in Nat : Matching(seen)' /\ Way(seen)'
      BY <1>0 DEF InStep
    <2>1. PICK seen \in Nat : Matching(seen) /\ Way(seen)
      BY <1>1 DEF InStep
    <2>2. PICK p, o, h, i, w : OnTheWay(seen, p, o, h, i, w)
      BY <2>1 DEF Way
    <2>3. Matching(seen)'
      BY <1>0, <2>1, MatchingKept
    <2>4. \A s \in {partial', outPipe', held', inPipe', toWrite', buffer'} : NotAhead(s)
      <3>1. NotAhead(<<>>)
        BY DEF NotAhead
      <3> QED BY <1>0, <2>2, <3>1 DEF OnTheWay
    <2>5. faults = {} => o = sent + 1
      BY <1>4, <2>1, <2>2
    <2>6. OnTheWay(seen, p, o, h, i, w)'
      BY <1>0, <2>2, <2>4, <2>5 DEF OnTheWay, NotAhead
    <2> QED BY <2>3, <2>6 DEF Way
  <1>6. Innocent'
    <2>1. faults = {} => fpc = "done"
      <3> SUFFICES ASSUME faults = {} PROVE fpc = "done"
        OBVIOUS
      <3>1. PICK seen \in Nat : Matching(seen) /\ Way(seen)
        BY <1>1 DEF InStep
      <3>2. PICK p, o, h, i, w : OnTheWay(seen, p, o, h, i, w)
        BY <3>1 DEF Way
      <3> QED BY <1>4, <3>1, <3>2
    <2> QED BY <1>0, <1>1, <2>1 DEF Innocent
  <1> QED BY <1>2, <1>3, <1>5, <1>6 DEF FoldInv

\* The child does something wrong.
LEMMA ChildErrsInv ==
  ASSUME FoldInv, ChildStep, ChildDrop \/ ChildExtra(rpc = "done") \/ ChildFails
  PROVE  FoldInv'
  <1>0. /\ UNCHANGED <<buffer, toWrite, inOpen, partial, cut, sentences, queue, sent, toSend>>
        /\ UNCHANGED <<fpc, rpc, expected, sentence, printed, outcome, status>>
        /\ child = "running" /\ faults \subseteq faults' /\ faults' # {} /\ faults' \subseteq Faults
    BY DEF FoldInv, TypeOK, ChildStep, ChildDrop, ChildExtra, ChildFails, streamVars, readVars, feederVars,
           readerVars, endVars
  <1>1. TypeOK /\ SentencesAt /\ QueueAt /\ InStep
    BY DEF FoldInv
  <1>2. SentencesAt' /\ QueueAt' /\ Innocent'
    BY <1>0, <1>1, SentencesKept, QueueKept DEF Innocent
  <1>3. /\ {outPipe, held, inPipe} \subseteq Seq(Tokens) /\ {PipeCap, ChildCap} \subseteq Nat
        /\ Len(outPipe) <= PipeCap /\ Len(held) <= ChildCap /\ Len(inPipe) <= PipeCap
    BY <1>1, CapacityAssumption DEF TypeOK
  <1>4. Gaps(faults) => Gaps(faults')
    BY <1>0 DEF Gaps
  <1>5. CASE ChildDrop
    <2>1. /\ held # <<>> /\ held' = Tail(held) /\ faults' = faults \cup {"drop"}
          /\ UNCHANGED <<child, inPipe, outPipe>>
      BY <1>5 DEF ChildDrop, Answerable
    <2>2. Head(held) \in Tokens /\ held' \in Seq(Tokens) /\ Len(held') = Len(held) - 1
          /\ Len(held) \in Nat
      BY <1>3, <2>1, TailFacts
    <2>3. Len(held') <= ChildCap
      BY <1>3, <2>2
    <2>4. TypeOK'
      BY <1>0, <1>1, <2>1, <2>2, <2>3 DEF TypeOK
    <2>5. InStep'
      <3> SUFFICES ASSUME "extra" \notin faults' PROVE \E seen \in Nat : Matching(seen)' /\ Way(seen)'
        BY DEF InStep
      <3>1. PICK seen \in Nat : Matching(seen) /\ Way(seen)
        BY <1>0, <1>1 DEF InStep
      <3>2. PICK p, o, h, i, w : OnTheWay(seen, p, o, h, i, w)
        BY <3>1 DEF Way
      <3>3. Matching(seen)'
        BY <1>0, <1>4, <3>1, MatchingKept
      <3>4. Run(held', o, h, faults')
        <4>1. held \in Seq(Token) /\ held' \in Seq(Token) /\ Run(held, o, h, faults)
          BY <1>0, <1>3, <2>2, <3>2, FoldTokens DEF OnTheWay
        <4>2. PICK head \in Token : head = Head(held)
          BY <2>2, FoldTokens
        <4>3. o <= head.line /\ Run(held', After(head), h, faults) /\ o \in Nat
          BY <2>1, <4>1, <4>2, RunTail DEF Run, Ascending
        <4>4. head.line \in Nat /\ (After(head) = head.line \/ After(head) = head.line + 1)
          BY <4>2, AfterFacts DEF After
        <4>5. o <= After(head)
          BY <4>3, <4>4
        <4>6. Gaps(faults')
          BY <2>1 DEF Gaps
        <4> QED BY <4>1, <4>3, <4>5, <4>6, RunEarlier
      <3>5. NotAhead(held')
        BY <1>3, <2>1, <3>2, NotAheadShift DEF OnTheWay
      <3>6. \A s \in {partial', outPipe', held', inPipe', toWrite', buffer'} : NotAhead(s)
        BY <1>0, <2>1, <3>2, <3>5 DEF OnTheWay
      <3>7. /\ Run(partial, seen + 1, p, faults') /\ Run(outPipe, p, o, faults')
            /\ Run(inPipe, h, i, faults') /\ Run(toWrite, i, w, faults')
            /\ Run(buffer, w, IF fpc = "eol" THEN sent ELSE sent + 1, faults')
        BY <1>0, <1>4, <3>2, RunMore DEF OnTheWay
      <3>8. OnTheWay(seen, p, o, h, i, w)'
        BY <1>0, <1>4, <2>1, <3>2, <3>4, <3>6, <3>7 DEF OnTheWay, NotAhead
      <3> QED BY <3>3, <3>8 DEF Way
    <2> QED BY <1>2, <2>4, <2>5 DEF FoldInv
  <1>6. CASE ChildExtra(rpc = "done")
    <2>1. /\ Len(outPipe) < PipeCap /\ outPipe' = Append(outPipe, Eol(0)) /\ "extra" \in faults'
          /\ UNCHANGED <<child, inPipe, held>>
      BY <1>6 DEF ChildExtra
    <2>2. Eol(0) \in Tokens
      <3>1. 0 \in Lines
        BY FoldBoundsAssumption DEF Lines
      <3> QED BY <3>1 DEF Eol, Tokens
    <2>3. outPipe' \in Seq(Tokens) /\ Len(outPipe') = Len(outPipe) + 1 /\ Len(outPipe) \in Nat
      BY <1>3, <2>1, <2>2, AppendFacts
    <2>4. Len(outPipe') <= PipeCap
      BY <1>3, <2>1, <2>3
    <2>5. TypeOK'
      BY <1>0, <1>1, <2>1, <2>3, <2>4 DEF TypeOK
    <2>6. InStep'
      BY <2>1 DEF InStep
    <2> QED BY <1>2, <2>5, <2>6 DEF FoldInv
  <1>7. CASE ChildFails
    <2>1. /\ child' \in {"success", "failure", "killed"} /\ held' = <<>> /\ inPipe' = <<>>
          /\ outPipe' = outPipe
      BY <1>7 DEF ChildFails
    <2>2. held' \in Seq(Tokens) /\ inPipe' \in Seq(Tokens) /\ Len(held') = 0 /\ Len(inPipe') = 0
      BY <2>1, EmptyFacts
    <2>3. Len(held') <= ChildCap /\ Len(inPipe') <= PipeCap
      BY <1>3, <2>2
    <2>4. TypeOK'
      BY <1>0, <1>1, <2>1, <2>2, <2>3 DEF TypeOK
    <2>5. InStep'
      <3> SUFFICES ASSUME "extra" \notin faults' PROVE \E seen \in Nat : Matching(seen)' /\ Way(seen)'
        BY DEF InStep
      <3>1. PICK seen \in Nat : Matching(seen) /\ Way(seen)
        BY <1>0, <1>1 DEF InStep
      <3>2. PICK p, o, h, i, w : OnTheWay(seen, p, o, h, i, w)
        BY <3>1 DEF Way
      <3>3. Matching(seen)'
        BY <1>0, <1>4, <3>1, MatchingKept
      <3>4. NotAhead(<<>>)
        BY DEF NotAhead
      <3>5. \A s \in {partial', outPipe', held', inPipe', toWrite', buffer'} : NotAhead(s)
        BY <1>0, <2>1, <3>2, <3>4 DEF OnTheWay
      <3>6. Run(partial, seen + 1, p, faults') /\ Run(outPipe, p, o, faults')
        BY <1>4, <3>2, RunMore DEF OnTheWay
      <3>7. OnTheWay(seen, p, o, h, i, w)'
        BY <1>0, <1>4, <2>1, <3>2, <3>5, <3>6 DEF OnTheWay, NotAhead
      <3> QED BY <3>3, <3>7 DEF Way
    <2> QED BY <1>2, <2>4, <2>5 DEF FoldInv
  <1> QED BY <1>5, <1>6, <1>7

-----------------------------------------------------------------------------
(* Answers read in part *)

\* The feeder closes the pipe when nothing is left to be written to it.
ClosedAt ==
    /\ fpc = "close" => buffer = <<>>
    /\ fpc = "done" => buffer = <<>> /\ toWrite = <<>>
    /\ ~inOpen => fpc = "done"

CutAt == CutInv(rpc = "done", fpc = "eol") /\ ClosedAt

LEMMA CutTokens ==
  ASSUME TypeOK
  PROVE  WayOfTokens /\ sent \in Nat
  <1>1. sent \in Nat
    BY Types
  <1> QED BY <1>1, FoldTokens DEF WayOfTokens, TypeOK

LEMMA CutInit ==
  Init => CutAt
  <1> SUFFICES ASSUME Init PROVE CutAt
    OBVIOUS
  <1> USE DEF Init, ChildInit
  <1>1. Whole(<<>>)
    BY DEF Whole
  <1> QED BY <1>1 DEF CutAt, CutInv, CutIsLast, WholeWay, ClosedAt

LEMMA CutFeeder ==
  ASSUME TypeOK, CutAt, Feeder
  PROVE  CutAt'
  <1>0. WayOfTokens /\ sent \in Nat
    BY CutTokens
  <1>1. PICK closed : closed \in BOOLEAN /\ (closed <=> rpc = "done")
    OBVIOUS
  <1>2. rpc' = rpc
    BY DEF Feeder, ReadSentence, SendLine, SendEol, FeederEof, FeederFlush, FeederClose, FeederPush,
           FeederBroken, readerVars
  <1>3. ASSUME NEW n \in 0..MaxParts, SendLine(n) PROVE CutAt'
    <2>1. /\ fpc = "line" /\ toWrite = <<>> /\ StreamWrite(Parts(sent + 1, n)) /\ fpc' = "eol"
          /\ UNCHANGED <<inPipe, inOpen, held, child, faults, outPipe, partial, cut>>
      BY <1>3 DEF SendLine, childVars, readVars
    <2>2. CutInv(closed, FALSE) /\ inOpen
      BY <1>1, <2>1 DEF CutAt, ClosedAt
    <2>3. Parts(sent + 1, n) \in Seq(Token)
      BY <1>0, FoldBoundsAssumption DEF Parts, Part, Token
    <2>4. CutInv(closed, TRUE)'
      BY <1>0, <2>1, <2>2, <2>3, CutWrite
    <2> QED BY <1>1, <1>2, <2>1, <2>2, <2>4 DEF CutAt, CutInv, ClosedAt
  <1>4. CASE SendEol
    <2>1. /\ fpc = "eol" /\ toWrite = <<>> /\ StreamPut(Eol(sent)) /\ fpc' \in {"next", "line"}
          /\ UNCHANGED <<inPipe, inOpen, held, child, faults, outPipe, partial, cut>>
      BY <1>4 DEF SendEol, childVars, readVars
    <2>2. inOpen /\ Eol(sent) \in Token /\ Eol(sent).eol
      BY <1>0, <2>1 DEF CutAt, ClosedAt, Eol, Token
    <2>3. CutInv(closed, TRUE)
      BY <1>1, <2>1 DEF CutAt, CutInv
    <2>4. CutInv(closed, FALSE)'
      BY <1>0, <2>1, <2>2, <2>3, CutPut
    <2> QED BY <1>1, <1>2, <2>1, <2>2, <2>4 DEF CutAt, CutInv, ClosedAt
  <1>5. CASE FeederFlush
    <2>1. /\ fpc = "flush" /\ toWrite = <<>> /\ StreamFlush /\ fpc' = "close"
          /\ UNCHANGED <<inPipe, inOpen, held, child, faults, outPipe, partial, cut>>
      BY <1>5 DEF FeederFlush, childVars, readVars
    <2>2. CutInv(closed, FALSE) /\ inOpen
      BY <1>1, <2>1 DEF CutAt, ClosedAt
    <2>3. CutInv(closed, FALSE)' /\ buffer' = <<>>
      BY <2>1, <2>2, CutFlush DEF StreamFlush
    <2> QED BY <1>1, <1>2, <2>1, <2>2, <2>3 DEF CutAt, CutInv, ClosedAt
  <1>6. CASE (\E n \in 1..MaxFolds : ReadSentence(n)) \/ FeederEof \/ FeederClose \/ FeederBroken
    <2>1. /\ UNCHANGED <<buffer, toWrite, inPipe, held, child, faults, outPipe, partial, cut>>
          /\ fpc' = fpc \/ (fpc' \in {"line", "flush", "done"} /\ fpc # "eol")
      BY <1>6 DEF ReadSentence, FeederEof, FeederClose, FeederBroken, childSideVars, streamVars, childVars,
                  readVars, feederVars
    <2>2. ClosedAt' /\ (~inOpen' => fpc' # "eol" /\ buffer = <<>> /\ toWrite = <<>>)
      BY <1>6 DEF CutAt, ReadSentence, FeederEof, FeederClose, FeederBroken, childSideVars, streamVars,
                  childVars, readVars, feederVars, ClosedAt
    <2> QED BY <1>2, <2>1, <2>2 DEF CutAt, CutInv, CutIsLast, NoLine, AtEof, WholeWay
  <1>7. CASE FeederPush
    <2>1. Push /\ fpc' = fpc /\ buffer' = buffer /\ inOpen' = inOpen /\ toWrite # <<>>
      BY <1>7 DEF FeederPush, Push, feederVars
    <2>2. ClosedAt'
      BY <2>1 DEF CutAt, ClosedAt
    <2>3. PICK amid : amid \in BOOLEAN /\ (amid <=> fpc = "eol")
      OBVIOUS
    <2>4. CutInv(closed, amid)
      BY <1>1, <2>3 DEF CutAt, CutInv
    <2>5. CutInv(closed, amid)'
      BY <1>0, <2>1, <2>4, CutPush
    <2> QED BY <1>1, <1>2, <2>1, <2>2, <2>3, <2>5 DEF CutAt, CutInv
  <1> QED BY <1>3, <1>4, <1>5, <1>6, <1>7 DEF Feeder

LEMMA CutReader ==
  ASSUME TypeOK, CutAt, Reader
  PROVE  CutAt' /\ (AppendLine => cut' \subseteq {LineRead})
  <1>0. WayOfTokens
    BY CutTokens
  <1>1. PICK amid : amid \in BOOLEAN /\ (amid <=> fpc = "eol")
    OBVIOUS
  <1>2. fpc' = fpc /\ UNCHANGED <<buffer, toWrite, inOpen>> /\ ClosedAt'
    <2>1. fpc' = fpc /\ UNCHANGED <<buffer, toWrite, inOpen>>
      BY DEF Reader, ConsumeList, ReaderReads, ReadMore, AppendLine, ReaderEof, CheckEmpty, PeekReturns, PeekEof,
             Return, Abort, childSideVars, streamVars, feederVars
    <2> QED BY <2>1 DEF CutAt, ClosedAt
  <1>3. CASE ReaderReads
    <2>1. ReadMore /\ rpc # "done" /\ rpc' = rpc
      BY <1>3 DEF ReaderReads, readerVars
    <2>2. CutInv(FALSE, amid)
      BY <1>1, <2>1 DEF CutAt, CutInv
    <2>3. CutInv(FALSE, amid)'
      BY <1>0, <2>1, <2>2, CutReadMore
    <2>4. CutAt'
      BY <1>1, <1>2, <2>1, <2>3 DEF CutAt, CutInv
    <2> QED BY <2>1, <2>4 DEF AppendLine, ReadMore, AtEof, LineReady, TakeLine
  <1>4. CASE AppendLine
    <2>1. /\ TakeLine /\ rpc # "done" /\ rpc' # "done"
          /\ UNCHANGED <<buffer, toWrite, inPipe, inOpen, held, child, faults, outPipe>>
      BY <1>4 DEF AppendLine, streamVars, childVars
    <2>2. CutInv(FALSE, amid)
      BY <1>1, <2>1 DEF CutAt, CutInv
    <2>3. CutInv(FALSE, amid)' /\ cut' \subseteq {LineRead}
      BY <1>0, <2>1, <2>2, CutTake
    <2> QED BY <1>1, <1>2, <2>1, <2>3 DEF CutAt, CutInv
  <1>5. CASE ConsumeList \/ ReaderEof \/ CheckEmpty \/ PeekReturns \/ PeekEof \/ Return
    <2>1. /\ UNCHANGED <<buffer, toWrite, inPipe, inOpen, held, child, faults, outPipe, partial, cut>>
          /\ rpc = "done" => rpc' = "done"
      BY <1>5 DEF ConsumeList, ReaderEof, CheckEmpty, PeekReturns, PeekEof, Return, Abort, childSideVars,
                  streamVars, childVars, readVars, readerVars
    <2>2. CutAt'
      BY <1>2, <2>1 DEF CutAt, CutInv, CutIsLast, NoLine, AtEof, WholeWay
    <2>3. AppendLine => cut' \subseteq {LineRead}
      BY <2>1 DEF AppendLine, TakeLine, LineReady
    <2> QED BY <2>2, <2>3
  <1> QED BY <1>3, <1>4, <1>5 DEF Reader

LEMMA CutChildStep ==
  ASSUME TypeOK, CutAt, ChildStep
  PROVE  CutAt'
  <1>0. WayOfTokens
    BY CutTokens
  <1>1. PICK closed, amid : /\ closed \in BOOLEAN /\ (closed <=> rpc = "done")
                            /\ amid \in BOOLEAN /\ (amid <=> fpc = "eol")
    OBVIOUS
  <1>2. Child(closed) /\ UNCHANGED <<fpc, rpc, buffer, toWrite, inOpen>>
    <2>1. closed = (rpc = "done")
      BY <1>1
    <2> QED BY <2>1 DEF ChildStep, Child, ChildRead, ChildWrite, ChildSigpipe, ChildFinish, ChildDrop, ChildExtra,
           ChildFails, streamVars, feederVars, readerVars
  <1>3. CutInv(closed, amid)
    BY <1>1 DEF CutAt, CutInv
  <1>4. CutInv(closed, amid)'
    BY <1>0, <1>2, <1>3, CutChild
  <1> QED BY <1>1, <1>2, <1>4 DEF CutAt, CutInv, ClosedAt

\* A step of the filter, for the answers that end too early.
LEMMA CutStep ==
  ASSUME TypeOK, CutAt, [Next]_vars
  PROVE  CutAt' /\ (Reader /\ AppendLine => cut' \subseteq {LineRead})
  <1>1. Reader => cut' \subseteq {LineRead} \/ ~AppendLine
    BY CutReader
  <1>2. CASE UNCHANGED vars
    <2>1. UNCHANGED <<buffer, toWrite, inPipe, inOpen, held, child, faults, outPipe, partial, cut, fpc, rpc>>
      BY <1>2 DEF vars, childSideVars, streamVars, childVars, readVars, feederVars, readerVars
    <2>2. CutAt'
      BY <2>1 DEF CutAt, CutInv, CutIsLast, NoLine, AtEof, WholeWay, ClosedAt
    <2> QED BY <1>1, <2>2
  <1> QED BY <1>1, <1>2, CutFeeder, CutReader, CutChildStep DEF Next

-----------------------------------------------------------------------------
(* The theorem *)

LEMMA InvImpliesSafety ==
  FoldInv /\ CutAt => Safety
  <1> SUFFICES ASSUME FoldInv, CutAt PROVE Safety
    OBVIOUS
  <1>1. TypeOK /\ SentencesAt /\ QueueAt /\ InStep /\ Innocent
    BY DEF FoldInv
  <1>2. SentencesMatch
    BY <1>1 DEF SentencesMatch, InStep, Matching, Gaps
  <1>3. ZeroMeansComplete
    <2> SUFFICES ASSUME outcome = "exit", "extra" \notin faults
                 PROVE  /\ Len(printed) = Len(sentences)
                        /\ \A n \in 1..Len(printed) : printed[n] = AnswersOf(n)
                        /\ cut \subseteq {sent}
      BY DEF ZeroMeansComplete, CutAt, CutInv
    <2>1. Read = sent /\ Len(printed) = Len(sentences) /\ sent \in Nat
      BY <1>1, AllRead, Types DEF QueueAt
    <2>2. PICK seen \in Nat : Matching(seen) /\ cut \subseteq {seen}
      BY <1>1 DEF InStep, Way, OnTheWay
    <2>3. seen = Read
      BY <2>1, <2>2 DEF Matching
    <2> QED BY <2>1, <2>2, <2>3 DEF Matching
  <1>4. NoSpuriousError
    BY <1>1 DEF NoSpuriousError, Innocent
  <1> QED BY <1>1, <1>2, <1>3, <1>4 DEF Safety, VerdictRight

\* Whatever the child does wrong, foldfilter_main.cc prints no sentence with
\* other answers than its own unless an answer was left out or added, never
\* returns without having printed every sentence right unless an answer was
\* added, and never accuses a child that does nothing wrong.  Only the very
\* last answer may lack its end, and only if the child stopped or left an
\* answer out.
THEOREM FoldSafety ==
  Spec => []Safety
  <1>1. Init => FoldInv /\ CutAt
    BY InitInv, CutInit
  <1>4. FoldInv /\ CutAt /\ [Next]_vars => CutAt' /\ (Reader /\ AppendLine => cut' \subseteq {LineRead})
    BY CutStep DEF FoldInv
  <1>2. FoldInv /\ CutAt /\ [Next]_vars => FoldInv'
    <2> SUFFICES ASSUME FoldInv, CutAt, [Next]_vars PROVE FoldInv'
      OBVIOUS
    <2>1. ASSUME NEW n \in 1..MaxFolds, ReadSentence(n) PROVE FoldInv'
      BY <2>1, ReadSentenceInv
    <2>2. ASSUME NEW n \in 0..MaxParts, SendLine(n) PROVE FoldInv'
      BY <2>2, SendLineInv
    <2>3. CASE SendEol
      BY <2>3, SendEolInv
    <2>4. CASE FeederEof
      BY <2>4, FeederEofInv
    <2>5. CASE FeederFlush
      BY <2>5, FeederFlushInv
    <2>6. CASE FeederClose
      BY <2>6, FeederCloseInv
    <2>7. CASE FeederPush \/ FeederBroken
      BY <2>7, FeederPushInv
    <2>8. CASE ConsumeList
      BY <2>8, ConsumeListInv
    <2>9. CASE ReaderReads
      BY <2>9, ReaderReadsInv
    <2>10. CASE Reader /\ AppendLine
      BY <1>4, <2>10, AppendLineInv
    <2>11. CASE ReaderEof \/ CheckEmpty \/ PeekReturns \/ PeekEof \/ Return
      BY <2>11, ReaderEndsInv
    <2>12. CASE ChildStep
      <3>1. \/ ChildRead \/ ChildWrite(rpc = "done")
            \/ ChildSigpipe(rpc = "done") \/ ChildFinish
            \/ ChildDrop \/ ChildExtra(rpc = "done") \/ ChildFails
        BY <2>12 DEF ChildStep, Child
      <3> QED BY <2>12, <3>1, ChildPassesInv, ChildEndsInv, ChildErrsInv
    <2>13. CASE UNCHANGED vars
      <3>0. /\ UNCHANGED <<buffer, toWrite, inPipe, inOpen, held, child, faults, outPipe, partial, cut>>
            /\ UNCHANGED <<sentences, queue, sent, toSend, fpc, rpc, expected, sentence, printed>>
            /\ UNCHANGED <<outcome, status>>
        BY <2>13 DEF vars, childSideVars, streamVars, childVars, readVars, feederVars, readerVars, endVars
      <3>1. TypeOK'
        BY <3>0 DEF FoldInv, TypeOK
      <3>2. SentencesAt' /\ QueueAt' /\ InStep'
        BY <3>0, SentencesKept, QueueKept, InStepKept DEF FoldInv
      <3>3. Innocent'
        BY <3>0 DEF FoldInv, Innocent
      <3> QED BY <3>1, <3>2, <3>3 DEF FoldInv
    <2> QED BY <2>1, <2>2, <2>3, <2>4, <2>5, <2>6, <2>7, <2>8, <2>9, <2>10, <2>11, <2>12, <2>13
          DEF Next, Feeder, Reader
  <1>3. FoldInv /\ CutAt => Safety
    BY InvImpliesSafety
  <1> QED BY <1>1, <1>2, <1>3, <1>4, PTL DEF Spec
=============================================================================
