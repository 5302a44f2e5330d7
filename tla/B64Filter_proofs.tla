-------------------------- MODULE B64Filter_proofs --------------------------
(***************************************************************************)
(* Proofs about the threads of preprocess/b64filter_main.cc for every      *)
(* number and size of documents, every size of the buffers and pipes, and  *)
(* every fault of the child.                                               *)
(***************************************************************************)
EXTENDS B64Filter, CaptiveChild_proofs

(* The inductive invariant *)

LastOf(n) == documents[n].first + documents[n].cnt - 1

\* The number of lines that the reader has put into its documents, and the
\* number of the document it is at.
Printed == IF Len(printed) = 0 THEN 0 ELSE LastOf(Len(printed))
Read == IF rpc = "reading" THEN Printed + Len(doc) ELSE Printed
Started == IF rpc = "reading" THEN Len(printed) + 1 ELSE Len(printed)

\* The reader is told to stop and has not taken this from the queue.
Ending == fpc \in {"flush", "close", "done"} /\ rpc \notin {"final", "done"}

\* The lines of the documents follow each other.
DocumentsAt ==
    /\ \A n \in 1..Len(documents) :
        /\ documents[n].first = IF n = 1 THEN 1 ELSE LastOf(n - 1) + 1
        /\ LastOf(n) <= sent
    /\ sent = IF Len(documents) = 0 THEN 0 ELSE LastOf(Len(documents))
    /\ sent <= Len(documents) * (MaxDocLines + 1)
    /\ Len(documents) <= MaxDocuments

\* The queue describes each document that the reader has not begun.
Described(n) == [line_cnt |-> documents[n].cnt, has_trailing_newline |-> documents[n].newline]
InQueue(n) == IF Ending /\ n = Len(queue) THEN Stop ELSE Described(Started + n)

QueueAt ==
    /\ Len(documents) = Started + Len(queue) - (IF Ending THEN 1 ELSE 0)
    /\ Ending => Len(queue) > 0
    /\ \A n \in 1..Len(queue) : queue[n] = InQueue(n)
    /\ rpc = "reading" =>
        /\ document.line_cnt > 0
        /\ Printed + Len(doc) + document.line_cnt = LastOf(Started)
        /\ document.has_trailing_newline = documents[Started].newline
    /\ rpc \in {"final", "done"} => Len(queue) = 0 /\ fpc \in {"flush", "close", "done"}
    /\ outcome = "exit" => rpc = "done" /\ fpc = "done"

\* Where the feeder's tokens can be, and that a child which leaves nothing out
\* ends after the feeder and before the reader, whose last look finds a line
\* too many.
EndsAt ==
    /\ fpc = "close" => buffer = <<>>
    /\ fpc = "done" => buffer = <<>> /\ toWrite = <<>>
    /\ fpc # "send" => content = <<>>
    /\ ~inOpen => fpc = "done"
    /\ rpc = "done" => child # "running"
    /\ child # "running" /\ faults \subseteq {"extra"} => fpc = "done"
    /\ faults = {"extra"} => rpc # "done"

\* No token is of a line that was not sent, and a line that is being read ends
\* with its end of line.
UpTo(n) == [line : 0..n, eol : BOOLEAN]
Places == {partial, outPipe, held, inPipe, toWrite, buffer, content}
TokensAt ==
    /\ Places \subseteq Seq(UpTo(sent))
    /\ \A j \in 1..(Len(partial) - 1) : ~partial[j].eol

\* A child that leaves nothing out returns at least as many lines as it was
\* sent, and one more if it has added one.
Coming ==
    Ends(partial) + Ends(outPipe)
        + (IF child = "running"
           THEN Ends(held) + Ends(inPipe) + Ends(toWrite) + Ends(buffer) + Ends(content) ELSE 0)
Added == IF "extra" \in faults THEN 1 ELSE 0
Counted == faults \subseteq {"extra"} => sent + Added <= Read + Coming

\* The lines on their way behind seen, the last line that the reader has read.
OnTheWay(seen, p, o, h, i, w, c) ==
    /\ Run(partial, seen + 1, p, faults)
    /\ \A j \in 1..Len(partial) : Gaps(faults) \/ partial[j].line = seen + 1
    /\ cut \subseteq {seen}
    /\ Run(outPipe, p, o, faults)
    /\ child = "running" =>
        /\ Run(held, o, h, faults) /\ Run(inPipe, h, i, faults) /\ Run(toWrite, i, w, faults)
        /\ Run(buffer, w, c, faults) /\ Run(content, c, sent + 1, faults)

Way(seen) == \E p, o, h, i, w, c : OnTheWay(seen, p, o, h, i, w, c)

\* What the reader has put together is right as long as it has seen no later
\* line than those it has read: a gap makes it see more.
Matching(seen) ==
    /\ Read <= seen /\ seen <= sent
    /\ Gaps(faults) \/ seen = Read
    /\ seen = Read =>
        /\ \A n \in 1..Len(printed) : printed[n] = Answered(n)
        /\ rpc = "reading" => \A j \in 1..Len(doc) : doc[j] = Printed + j

InStep == "extra" \notin faults => \E seen \in Nat : Matching(seen) /\ Way(seen)

Innocent == faults = {} => outcome \in {"running", "exit"}

B64Inv ==
    TypeOK /\ DocumentsAt /\ QueueAt /\ EndsAt /\ TokensAt /\ Counted /\ InStep /\ Innocent

-----------------------------------------------------------------------------
(* The tokens of a document *)

LEMMA DivMod ==
  ASSUME NEW m \in Nat \ {0}, NEW a \in Nat
  PROVE  a \div m \in Nat /\ a % m \in 0..(m - 1) /\ a = m * (a \div m) + (a % m)
  OBVIOUS

\* a is q times m, and r more.
Times(a, m, q, r) == a = m * q + r

LEMMA DivModIs ==
  ASSUME NEW m \in Nat \ {0}, NEW q \in Nat, NEW r \in 0..(m - 1), NEW a \in Nat, Times(a, m, q, r)
  PROVE  a \div m = q /\ a % m = r
  BY DEF Times

\* A line ends where its number of tokens is divided without a remainder.
LEMMA LineEnds ==
  ASSUME NEW m \in Nat \ {0}, NEW a \in Nat \ {0}
  PROVE  a \div m = IF a % m = 0 THEN (a - 1) \div m + 1 ELSE (a - 1) \div m
  <1>1. PICK q \in Nat, r \in 0..(m - 1) : q = (a - 1) \div m /\ a - 1 = m * q + r
    <2>1. PICK b \in Nat : b = a - 1
      OBVIOUS
    <2> QED BY <2>1, DivMod
  <1>2. CASE r = m - 1
    <2>1. q + 1 \in Nat /\ 0 \in 0..(m - 1) /\ a = m * (q + 1) + 0
      <3>1. m * (q + 1) = m * q + m
        OBVIOUS
      <3>2. m * q \in Nat
        OBVIOUS
      <3> QED BY <1>1, <1>2, <3>1, <3>2
    <2>2. a \div m = q + 1 /\ a % m = 0
      <3>1. PICK p \in Nat : p = q + 1
        OBVIOUS
      <3>2. Times(a, m, p, 0)
        BY ONLY <2>1, <3>1 DEF Times
      <3>3. a \div m = p /\ a % m = 0
        BY ONLY m \in Nat \ {0}, a \in Nat \ {0}, p \in Nat, 0 \in 0..(m - 1), <2>1, <3>2, DivModIs
      <3> QED BY <3>1, <3>3
    <2> QED BY <1>1, <2>2
  <1>3. CASE r # m - 1
    <2>1. r + 1 \in 0..(m - 1) /\ r + 1 # 0 /\ m * q \in Nat
      BY <1>3
    <2>2. a = m * q + (r + 1)
      BY <1>1, <2>1
    <2>3. a \div m = q /\ a % m = r + 1
      <3>1. PICK s \in 0..(m - 1) : s = r + 1
        BY <2>1
      <3>2. Times(a, m, q, s)
        BY ONLY <2>2, <3>1 DEF Times
      <3>3. a \div m = q /\ a % m = s
        BY ONLY m \in Nat \ {0}, a \in Nat \ {0}, q \in Nat, s \in 0..(m - 1), <3>2, DivModIs
      <3> QED BY <3>1, <3>3
    <2> QED BY <1>1, <2>1, <2>3
  <1> QED BY <1>2, <1>3

LEMMA DivMonotone ==
  ASSUME NEW m \in Nat \ {0}, NEW a \in Nat, NEW b \in Nat, a <= b
  PROVE  a \div m <= b \div m
  <1>1. PICK q \in Nat, r \in 0..(m - 1) : q = a \div m /\ a = m * q + r
    BY DivMod
  <1>2. PICK p \in Nat, s \in 0..(m - 1) : p = b \div m /\ b = m * p + s
    BY DivMod
  <1>3. ASSUME q > p PROVE FALSE
    <2>1. PICK d \in Nat : q = p + 1 + d
      <3>1. q - p - 1 \in Nat /\ q = p + 1 + (q - p - 1)
        BY <1>3
      <3> QED BY <3>1
    <2>2. m * q = m * p + m + m * d /\ m * d \in Nat /\ m * p \in Nat
      BY <2>1
    <2> QED BY <1>1, <1>2, <2>2
  <1> QED BY <1>1, <1>2, <1>3

\* Among lines of m tokens: the number of lines that end with the first i tokens,
\* and whether one ends with the last of them.
Ended(i, m) == i \div m
AtEnd(i, m) == i % m = 0

\* The l tokens of n lines.
Positions(n, m, l) ==
    /\ l \in Nat /\ Ended(l, m) = n /\ Ended(0, m) = 0
    /\ \A i \in 0..l : Ended(i, m) \in Nat /\ Ended(i, m) <= n
    /\ \A i \in 1..l : Ended(i, m) = IF AtEnd(i, m) THEN Ended(i - 1, m) + 1 ELSE Ended(i - 1, m)
    /\ \A i \in 1..l : Ended(i - 1, m) <= n - 1
    /\ \A i, j \in 0..l : i <= j => Ended(i, m) <= Ended(j, m)

LEMMA DocPositions ==
  ASSUME NEW n \in Nat, NEW m \in Nat \ {0}
  PROVE  Positions(n, m, n * m)
  <1>0. PICK l : l = n * m
    OBVIOUS
  <1>1. l \in Nat /\ l = m * n + 0 /\ 0 \in 0..(m - 1) /\ 0 = m * 0 + 0
    BY <1>0
  <1>2. l \div m = n /\ l % m = 0
    <2>1. Times(l, m, n, 0)
      BY <1>1 DEF Times
    <2> QED BY <1>1, <2>1, DivModIs
  <1>3. 0 \div m = 0
    <2>1. Times(0, m, 0, 0)
      BY <1>1 DEF Times
    <2> QED BY <1>1, <2>1, DivModIs
  <1>4. \A i \in 0..l : i \div m \in Nat /\ i \div m <= n
    BY <1>1, <1>2, DivMod, DivMonotone
  <1>5. ASSUME NEW i \in 1..l
        PROVE  i \div m = IF i % m = 0 THEN (i - 1) \div m + 1 ELSE (i - 1) \div m
    <2>1. i \in Nat \ {0}
      BY <1>1
    <2> QED BY ONLY <2>1, m \in Nat \ {0}, LineEnds
  <1>6. ASSUME NEW i \in 1..l PROVE (i - 1) \div m <= n - 1
    <2>1. l \in Nat \ {0} /\ l - 1 \in Nat /\ i - 1 \in Nat /\ i - 1 <= l - 1
      BY <1>1
    <2>2. l \div m = (l - 1) \div m + 1
      BY <1>2, <2>1, LineEnds
    <2>3. (i - 1) \div m <= (l - 1) \div m /\ (l - 1) \div m \in Nat /\ (i - 1) \div m \in Nat
      BY <2>1, DivMonotone, DivMod
    <2> QED BY <1>2, <2>2, <2>3
  <1>7. \A i, j \in 0..l : i <= j => i \div m <= j \div m
    BY <1>1, DivMonotone
  <1>8. Positions(n, m, l)
    BY <1>1, <1>2, <1>3, <1>4, <1>5, <1>6, <1>7 DEF Ended, AtEnd, Positions
  <1> QED BY <1>0, <1>8

Shape(d, start, n, m, l) ==
    /\ d \in Seq(UpTo(start + n)) /\ Len(d) = l
    /\ \A i \in 1..l : d[i].line = start + 1 + Ended(i - 1, m)
    /\ \A i \in 1..l : d[i].eol <=> AtEnd(i, m)
    /\ \A i \in 1..l : After(d[i]) = start + 1 + Ended(i, m)

LEMMA DocTokensShape ==
  ASSUME NEW n \in Nat, NEW parts \in Nat, sent \in Nat
  PROVE  Shape(DocTokens(n, parts), sent, n, parts + 1, n * (parts + 1))
  <1>0. PICK start \in Nat : start = sent
    OBVIOUS
  <1>1. PICK m \in Nat \ {0} : m = parts + 1
    OBVIOUS
  <1>2. PICK l : l = n * m
    OBVIOUS
  <1>3. PICK d : d = DocTokens(n, parts)
    OBVIOUS
  <1>4. Positions(n, m, l)
    BY <1>2, DocPositions
  <1> HIDE <1>1, <1>2
  <1>5. l \in Nat /\ \A i \in 1..l : Ended(i - 1, m) \in Nat
    <2>1. l \in Nat /\ \A i \in 0..l : Ended(i, m) \in Nat
      BY <1>4 DEF Positions
    <2>2. \A i \in 1..l : i - 1 \in 0..l
      BY <2>1
    <2> QED BY <2>1, <2>2
  <1>6. d = [i \in 1..l |-> IF AtEnd(i, m) THEN Eol(start + 1 + Ended(i - 1, m))
                            ELSE Part(start + 1 + Ended(i - 1, m))]
    BY <1>0, <1>1, <1>2, <1>3 DEF DocTokens, Ended, AtEnd
  <1>7. ASSUME NEW i \in 1..l
        PROVE  /\ d[i].line = start + 1 + Ended(i - 1, m)
               /\ d[i].eol <=> AtEnd(i, m)
               /\ d[i] \in UpTo(start + n)
               /\ After(d[i]) = start + 1 + Ended(i, m)
    <2>1. PICK q \in Nat : q = Ended(i - 1, m) /\ q <= n - 1
      BY <1>4, <1>5 DEF Positions
    <2>2. start + 1 + q \in 0..(start + n)
      BY <2>1
    <2>3. d[i] = IF AtEnd(i, m) THEN Eol(start + 1 + q) ELSE Part(start + 1 + q)
      BY <1>6, <2>1
    <2>4. Ended(i, m) = IF AtEnd(i, m) THEN q + 1 ELSE q
      BY <1>4, <2>1 DEF Positions
    <2>5. CASE AtEnd(i, m)
      <3>1. d[i] = [line |-> start + 1 + q, eol |-> TRUE] /\ Ended(i, m) = q + 1
        BY <2>3, <2>4, <2>5 DEF Eol
      <3>2. d[i].line = start + 1 + q /\ d[i].eol /\ d[i] \in UpTo(start + n) /\ After(d[i]) = start + 1 + q + 1
        BY <2>2, <3>1 DEF UpTo, After
      <3> QED BY <2>1, <2>5, <3>1, <3>2
    <2>6. CASE ~AtEnd(i, m)
      <3>1. d[i] = [line |-> start + 1 + q, eol |-> FALSE] /\ Ended(i, m) = q
        BY <2>3, <2>4, <2>6 DEF Part
      <3>2. d[i].line = start + 1 + q /\ ~d[i].eol /\ d[i] \in UpTo(start + n) /\ After(d[i]) = start + 1 + q
        BY <2>2, <3>1 DEF UpTo, After
      <3> QED BY <2>1, <2>6, <3>1, <3>2
    <2> QED BY <2>5, <2>6
  <1>8. d \in Seq(UpTo(start + n)) /\ Len(d) = l
    <2>1. d \in [1..l -> UpTo(start + n)]
      <3>1. DOMAIN d = 1..l /\ d = [i \in 1..l |-> d[i]]
        BY <1>6
      <3> QED BY <1>7, <3>1
    <2>2. d \in Seq(UpTo(start + n))
      BY <1>5, <2>1, SeqDef
    <2> QED BY <1>5, <2>1, <2>2, LenProperties
  <1>9. Shape(d, start, n, m, l)
    BY <1>7, <1>8 DEF Shape
  <1> QED BY <1>0, <1>1, <1>2, <1>3, <1>9

\* They are the next lines,
\* The last token of a document is an end of line.
LEMMA DocTokensWhole ==
  ASSUME NEW n \in Nat, NEW parts \in Nat, sent \in Nat
  PROVE  Whole(DocTokens(n, parts))
  <1>1. PICK m : m \in Nat \ {0} /\ m = parts + 1
    OBVIOUS
  <1>2. PICK l : l = n * m
    OBVIOUS
  <1>3. PICK d : d = DocTokens(n, parts)
    OBVIOUS
  <1>4. PICK start : start = sent
    OBVIOUS
  <1>5. Shape(d, start, n, m, l)
    BY <1>1, <1>2, <1>3, <1>4, DocTokensShape
  <1>6. l \in Nat /\ AtEnd(l, m)
    <2>1. l \in Nat /\ l = m * n + 0 /\ 0 \in 0..(m - 1)
      BY <1>1, <1>2
    <2>2. Times(l, m, n, 0)
      BY <2>1 DEF Times
    <2> QED BY <1>1, <2>1, <2>2, DivModIs DEF AtEnd
  <1>7. d \in Seq(UpTo(start + n)) /\ Len(d) = l /\ \A i \in 1..l : d[i].eol <=> AtEnd(i, m)
    BY <1>5 DEF Shape
  <1>8. CASE l = 0
    <2>1. d = <<>>
      BY <1>7, <1>8, EmptySeq
    <2> QED BY <1>3, <2>1 DEF Whole
  <1>9. CASE l # 0
    <2>1. l \in 1..l
      BY <1>6, <1>9
    <2> QED BY <1>3, <1>6, <1>7, <2>1 DEF Whole
  <1> QED BY <1>8, <1>9

LEMMA DocTokensRun ==
  ASSUME sent \in Nat, NEW n \in Nat, NEW parts \in Nat, NEW d, d = DocTokens(n, parts), NEW wrong
  PROVE  d \in Seq(UpTo(sent + n)) /\ Run(d, sent + 1, sent + n + 1, wrong)
  <1>0. PICK start \in Nat : start = sent
    OBVIOUS
  <1>1. PICK m \in Nat \ {0} : m = parts + 1
    OBVIOUS
  <1>2. PICK l : l = n * m
    OBVIOUS
  <1>3. Shape(d, start, n, m, l) /\ Positions(n, m, l)
    BY <1>0, <1>1, <1>2, DocTokensShape, DocPositions
  <1> HIDE <1>1, <1>2
  <1>4. /\ l \in Nat /\ d \in Seq(UpTo(start + n)) /\ Len(d) = l
        /\ \A i \in 1..l : d[i].line = start + 1 + Ended(i - 1, m)
        /\ \A i \in 1..l : After(d[i]) = start + 1 + Ended(i, m)
        /\ Ended(l, m) = n /\ Ended(0, m) = 0
        /\ \A i \in 0..l : Ended(i, m) \in Nat /\ Ended(i, m) <= n
        /\ \A i, j \in 0..l : i <= j => Ended(i, m) <= Ended(j, m)
    BY <1>3 DEF Shape, Positions
  <1>5. ASSUME NEW i \in 1..l PROVE start + 1 <= d[i].line /\ After(d[i]) <= start + n + 1
    <2>1. i \in 0..l /\ i - 1 \in 0..l
      BY <1>4
    <2>2. PICK a, b \in Nat : a = Ended(i - 1, m) /\ b = Ended(i, m) /\ b <= n
      BY ONLY <1>4, <2>1
    <2>3. d[i].line = start + 1 + a /\ After(d[i]) = start + 1 + b
      BY ONLY <1>4, <2>2, i \in 1..l
    <2> QED BY ONLY <2>2, <2>3, start \in Nat, n \in Nat
  <1>6. ASSUME NEW i \in 1..l, NEW j \in 1..l, i < j PROVE After(d[i]) <= d[j].line
    <2>1. i \in 0..l /\ j - 1 \in 0..l /\ i <= j - 1
      BY <1>4, <1>6
    <2>2. Ended(i, m) <= Ended(j - 1, m) /\ Ended(i, m) \in Nat /\ Ended(j - 1, m) \in Nat
      BY <1>4, <2>1
    <2>3. After(d[i]) = start + 1 + Ended(i, m) /\ d[j].line = start + 1 + Ended(j - 1, m)
      BY <1>4
    <2> QED BY ONLY <2>2, <2>3, start \in Nat
  <1>7. Ascending(d, start + 1, start + n + 1)
    BY <1>4, <1>5, <1>6 DEF Ascending
  <1>8. Gapless(d, start + 1, start + n + 1)
    <2>1. Len(d) > 0 => d[1].line = start + 1
      BY <1>4
    <2>2. ASSUME NEW i \in 1..(Len(d) - 1) PROVE d[i + 1].line = After(d[i])
      <3>1. i \in 1..l /\ i + 1 \in 1..l /\ (i + 1) - 1 = i
        BY <1>4
      <3> QED BY <1>4, <3>1
    <2>3. start + n + 1 = IF Len(d) = 0 THEN start + 1 ELSE After(d[Len(d)])
      <3>1. CASE l = 0
        BY <1>4, <3>1
      <3>2. CASE l # 0
        <4>1. l \in 1..l
          BY <1>4, <3>2
        <4> QED BY <1>4, <3>2, <4>1
      <3> QED BY <3>1, <3>2
    <2> QED BY <2>1, <2>2, <2>3 DEF Gapless
  <1> QED BY <1>0, <1>4, <1>7, <1>8 DEF Run

\* and as many lines as the document is said to have.
LEMMA DocTokensEnds ==
  ASSUME sent \in Nat, NEW n \in Nat, NEW parts \in Nat, NEW d, d = DocTokens(n, parts)
  PROVE  Ends(d) = n
  <1>1. PICK m : m = parts + 1
    OBVIOUS
  <1>2. PICK l : l = n * m
    OBVIOUS
  <1>3. /\ m \in Nat \ {0} /\ l \in Nat /\ Len(d) = l
        /\ \A i \in 1..l : d[i].eol <=> AtEnd(i, m)
        /\ \A j \in 0..l : Ended(j, m) <= n
    <2>1. m \in Nat \ {0}
      BY <1>1
    <2>2. Shape(d, sent, n, m, l) /\ Positions(n, m, l)
      BY <1>1, <1>2, <2>1, DocTokensShape, DocPositions
    <2> QED BY ONLY <2>1, <2>2 DEF Shape, Positions
  <1>4. \A i : i \in Eols(d) <=> i \in 1..l /\ AtEnd(i, m)
    BY <1>3 DEF Eols
  <1> DEFINE f == [k \in 1..n |-> k * m]
  <1>5. ASSUME NEW k \in 1..n PROVE k * m \in Eols(d)
    <2>1. PICK e \in Nat : n = k + e
      <3>1. n - k \in Nat /\ n = k + (n - k)
        OBVIOUS
      <3> QED BY <3>1
    <2>2. l = k * m + e * m /\ e * m \in Nat /\ k * m \in Nat
      BY <1>2, <1>3, <2>1
    <2>3. k * m >= 1
      <3>1. PICK j \in Nat : k = j + 1
        <4>1. k - 1 \in Nat /\ k = (k - 1) + 1
          OBVIOUS
        <4> QED BY <4>1
      <3>2. k * m = j * m + m /\ j * m \in Nat
        BY <1>3, <3>1
      <3> QED BY <1>3, <3>2
    <2>4. PICK a \in Nat : a = k * m
      BY <2>2
    <2>5. a \in 1..l
      <3>1. PICK b \in Nat : b = e * m
        BY <2>2
      <3> QED BY ONLY <1>3, <2>2, <2>3, <2>4, <3>1
    <2>6. a = m * k + 0 /\ 0 \in 0..(m - 1) /\ k \in Nat
      BY <1>3, <2>4
    <2>7. a % m = 0
      <3>1. Times(a, m, k, 0) /\ m \in Nat \ {0}
        BY ONLY <1>3, <2>6 DEF Times
      <3>2. k \in Nat /\ 0 \in 0..(m - 1)
        BY ONLY <2>6
      <3> QED BY ONLY <3>1, <3>2, a \in Nat, DivModIs
    <2> QED BY <1>4, <2>4, <2>5, <2>7 DEF AtEnd
  <1>6. ASSUME NEW i \in Eols(d) PROVE \E k \in 1..n : i = k * m
    <2>1. i \in 1..l /\ i % m = 0 /\ i \in Nat /\ i # 0
      <3>1. i \in 1..l /\ AtEnd(i, m)
        BY <1>4
      <3> QED BY <1>3, <3>1 DEF AtEnd
    <2>2. PICK q \in Nat : q = i \div m /\ i = m * q + (i % m)
      BY <1>3, <2>1, DivMod
    <2>3. q <= n
      <3>1. i \in 0..l
        BY <1>3, <2>1
      <3> QED BY <1>3, <2>2, <3>1 DEF Ended
    <2>4. q # 0
      <3>1. m * 0 = 0
        BY <1>3
      <3> QED BY <2>1, <2>2, <3>1
    <2>5. q \in 1..n
      BY <2>3, <2>4
    <2>6. i = q * m
      BY ONLY <1>3, <2>1, <2>2, q \in Nat
    <2> QED BY <2>5, <2>6
  <1>7. f \in [1..n -> Eols(d)] /\ \A k \in 1..n : f[k] = k * m
    BY <1>5
  <1>8. ASSUME NEW a \in 1..n, NEW b \in 1..n, a * m = b * m PROVE a = b
    <2>1. PICK x \in Nat : x = a * m
      BY <1>3
    <2>2. x = m * a + 0 /\ 0 \in 0..(m - 1) /\ a \in Nat /\ b \in Nat /\ m \in Nat \ {0}
      BY <1>3, <2>1
    <2>3. x = m * b + 0
      BY <1>3, <1>8, <2>1
    <2>4. x \div m = a
      <3>1. Times(x, m, a, 0)
        BY ONLY <2>2 DEF Times
      <3>2. m \in Nat \ {0} /\ a \in Nat /\ 0 \in 0..(m - 1)
        BY ONLY <2>2
      <3> QED BY ONLY <3>1, <3>2, x \in Nat, DivModIs
    <2>5. x \div m = b
      <3>1. m \in Nat \ {0} /\ b \in Nat /\ 0 \in 0..(m - 1)
        BY <2>2
      <3>2. Times(x, m, b, 0)
        BY ONLY <2>3 DEF Times
      <3> QED BY ONLY <3>1, <3>2, x \in Nat, DivModIs
    <2> QED BY <2>4, <2>5
  <1>9. \A a, b \in 1..n : f[a] = f[b] => a = b
    BY <1>7, <1>8
  <1>10. \A i \in Eols(d) : \E k \in 1..n : f[k] = i
    BY <1>6, <1>7
  <1> HIDE DEF f
  <1>11. f \in Bijection(1..n, Eols(d))
    BY <1>7, <1>9, <1>10 DEF Bijection, Injection, Surjection, IsInjective
  <1>12. ExistsBijection(1..n, Eols(d))
    BY <1>11 DEF ExistsBijection
  <1> QED BY <1>12, FS_CountingElements DEF Ends

-----------------------------------------------------------------------------
(* Numbers and types *)

LEMMA TokensOfLines ==
  /\ \A n \in Nat : UpTo(n) \subseteq Token
  /\ \A n \in Lines : UpTo(n) \subseteq Tokens
  /\ Lines \subseteq Nat /\ Tokens \subseteq Token
  <1>1. Lines \subseteq Nat
    BY DocBoundsAssumption DEF Lines
  <1>2. \A n \in Lines : 0..n \subseteq Lines
    BY DocBoundsAssumption DEF Lines
  <1>3. ASSUME NEW n \in Nat PROVE UpTo(n) \subseteq Token
    <2>1. 0..n \subseteq Nat
      OBVIOUS
    <2> QED BY <2>1 DEF UpTo, Token
  <1>4. ASSUME NEW n \in Lines PROVE UpTo(n) \subseteq Tokens
    BY <1>2 DEF UpTo, Tokens
  <1>5. Tokens \subseteq Token
    BY <1>1 DEF Tokens, Token
  <1> QED BY <1>1, <1>3, <1>4, <1>5

LEMMA SeqOfFewer ==
  ASSUME NEW S, NEW T, S \subseteq T, NEW s \in Seq(S)
  PROVE  s \in Seq(T)
  OBVIOUS

LEMMA Types ==
  ASSUME TypeOK
  PROVE  /\ sent \in Nat /\ document.line_cnt \in Nat
         /\ Len(documents) \in Nat /\ Len(queue) \in Nat /\ Len(printed) \in Nat /\ Len(doc) \in Nat
         /\ \A n \in 1..Len(documents) :
              /\ documents[n].first \in Nat /\ documents[n].cnt \in Nat \ {0} /\ LastOf(n) \in Nat
              /\ documents[n].cnt <= MaxDocLines + 1
         /\ MaxDocLines \in Nat /\ MaxDocuments \in Nat
  <1>1. sent \in Nat /\ MaxDocLines \in Nat /\ MaxDocuments \in Nat
    BY TokensOfLines, DocBoundsAssumption DEF TypeOK
  <1>2. document.line_cnt \in Nat
    <2>1. document \in Description
      BY DEF TypeOK
    <2> QED BY <1>1, <2>1 DEF Description
  <1>3. Len(documents) \in Nat /\ Len(queue) \in Nat /\ Len(printed) \in Nat /\ Len(doc) \in Nat
    BY DEF TypeOK
  <1>4. ASSUME NEW n \in 1..Len(documents)
        PROVE  /\ documents[n].first \in Nat /\ documents[n].cnt \in Nat \ {0} /\ LastOf(n) \in Nat
               /\ documents[n].cnt <= MaxDocLines + 1
    <2>1. documents[n] \in [first : Lines, cnt : 1..(MaxDocLines + 1), newline : BOOLEAN]
      BY ElementOfSeq DEF TypeOK
    <2>2. documents[n].first \in Lines /\ documents[n].cnt \in 1..(MaxDocLines + 1)
      BY <2>1
    <2>3. documents[n].first \in Nat
      BY <2>2, TokensOfLines
    <2> QED BY <1>1, <2>2, <2>3 DEF LastOf
  <1> QED BY <1>1, <1>2, <1>3, <1>4

\* Where the tokens are.
LEMMA TokenTypes ==
  ASSUME TypeOK, TokensAt
  PROVE  /\ partial \in Seq(UpTo(sent)) /\ outPipe \in Seq(UpTo(sent)) /\ held \in Seq(UpTo(sent))
         /\ inPipe \in Seq(UpTo(sent)) /\ toWrite \in Seq(UpTo(sent)) /\ buffer \in Seq(UpTo(sent))
         /\ content \in Seq(UpTo(sent))
         /\ UpTo(sent) \subseteq Token /\ UpTo(sent) \subseteq Tokens
         /\ \A s \in Seq(UpTo(sent)) : s \in Seq(Token) /\ s \in Seq(Tokens)
  <1>1. UpTo(sent) \subseteq Token /\ UpTo(sent) \subseteq Tokens
    BY TokensOfLines DEF TypeOK
  <1>2. \A s \in Seq(UpTo(sent)) : s \in Seq(Token) /\ s \in Seq(Tokens)
    BY <1>1, SeqOfFewer
  <1> QED BY <1>1, <1>2 DEF TokensAt, Places

LEMMA ComingNat ==
  ASSUME TypeOK, TokensAt
  PROVE  /\ Ends(partial) \in Nat /\ Ends(outPipe) \in Nat /\ Ends(held) \in Nat /\ Ends(inPipe) \in Nat
         /\ Ends(toWrite) \in Nat /\ Ends(buffer) \in Nat /\ Ends(content) \in Nat /\ Coming \in Nat
  <1>1. /\ Ends(partial) \in Nat /\ Ends(outPipe) \in Nat /\ Ends(held) \in Nat /\ Ends(inPipe) \in Nat
        /\ Ends(toWrite) \in Nat /\ Ends(buffer) \in Nat /\ Ends(content) \in Nat
    BY TokenTypes, EndsNat
  <1> QED BY <1>1 DEF Coming

-----------------------------------------------------------------------------
(* What a step that leaves a part of the state alone keeps *)

LEMMA DocumentsKept ==
  ASSUME DocumentsAt, UNCHANGED <<documents, sent>>
  PROVE  DocumentsAt'
  BY DEF DocumentsAt, LastOf

LEMMA QueueKept ==
  ASSUME QueueAt, UNCHANGED <<documents, fpc, queue, rpc, document, doc, printed>>,
         outcome' = "exit" => outcome = "exit" \/ (rpc = "done" /\ fpc = "done")
  PROVE  QueueAt'
  BY DEF QueueAt, Started, Printed, LastOf, Ending, InQueue, Described

LEMMA ReadKept ==
  ASSUME UNCHANGED <<documents, rpc, doc, printed>>
  PROVE  Read' = Read /\ Printed' = Printed /\ Started' = Started
  BY DEF Read, Printed, Started, LastOf

LEMMA CountedKept ==
  ASSUME Counted, UNCHANGED <<sent, faults>>, Read' = Read,
         faults \subseteq {"extra"} => Coming' = Coming
  PROVE  Counted'
  BY DEF Counted, Added

LEMMA MatchingKept ==
  ASSUME NEW seen, Matching(seen), UNCHANGED <<documents, sent, rpc, doc, printed>>,
         Gaps(faults) => Gaps(faults')
  PROVE  Matching(seen)'
  BY DEF Matching, Read, Printed, Answered, LastOf

LEMMA InStepKept ==
  ASSUME InStep, UNCHANGED <<documents, sent, rpc, doc, printed, faults>>,
         \A seen \in Nat : Way(seen) => Way(seen)'
  PROVE  InStep'
  <1> SUFFICES ASSUME "extra" \notin faults PROVE \E seen \in Nat : Matching(seen)' /\ Way(seen)'
    BY DEF InStep
  <1>1. PICK seen \in Nat : Matching(seen) /\ Way(seen)
    BY DEF InStep
  <1>2. Matching(seen)'
    BY <1>1, MatchingKept
  <1> QED BY <1>1, <1>2

LEMMA WayKept ==
  ASSUME UNCHANGED <<buffer, toWrite, inPipe, held, child, faults, outPipe, partial, cut, content, sent>>
  PROVE  \A seen \in Nat : Way(seen) => Way(seen)'
  <1> SUFFICES ASSUME NEW seen \in Nat, Way(seen) PROVE Way(seen)'
    OBVIOUS
  <1>1. PICK p, o, h, i, w, c : OnTheWay(seen, p, o, h, i, w, c)
    BY DEF Way
  <1>2. OnTheWay(seen, p, o, h, i, w, c)'
    BY <1>1 DEF OnTheWay
  <1> QED BY <1>2 DEF Way

\* Steps that move no token.
LEMMA TokensKept ==
  ASSUME TokensAt, Counted, UNCHANGED <<buffer, toWrite, inPipe, held, child, faults, outPipe, partial, cut>>,
         UNCHANGED <<content, sent>>, Read' = Read
  PROVE  TokensAt' /\ Counted'
  <1>1. TokensAt'
    BY DEF TokensAt, Places
  <1>2. Coming' = Coming
    BY DEF Coming
  <1> QED BY <1>1, <1>2, CountedKept

\* Where the reader is among the documents.
LEMMA ReaderAt ==
  ASSUME TypeOK, DocumentsAt, QueueAt
  PROVE  /\ Len(printed) <= Started /\ Started <= Len(documents) /\ Started \in Nat
         /\ Printed \in Nat /\ Read \in Nat
         /\ Len(documents) <= Started + Len(queue)
         /\ ~Ending => Len(documents) = Started + Len(queue)
         /\ rpc = "reading" => /\ Started = Len(printed) + 1 /\ Started \in 1..Len(documents)
                               /\ documents[Started].first = Printed + 1
                               /\ Read < sent
  <1>0. /\ Len(documents) \in Nat /\ Len(queue) \in Nat /\ Len(printed) \in Nat /\ Len(doc) \in Nat
        /\ \A n \in 1..Len(documents) : LastOf(n) \in Nat
        /\ sent \in Nat /\ document.line_cnt \in Nat
    BY Types
  <1>1. Started \in Nat /\ Len(printed) <= Started /\ (rpc = "reading" => Started = Len(printed) + 1)
    BY <1>0 DEF Started
  <1> DEFINE less == IF Ending THEN 1 ELSE 0
  <1>2. Len(documents) = Started + Len(queue) - less /\ (less = 1 => Len(queue) > 0)
    BY DEF QueueAt
  <1>3. less \in {0, 1} /\ (~Ending => less = 0)
    OBVIOUS
  <1> HIDE DEF less
  <1>4. Started <= Len(documents) /\ Len(documents) <= Started + Len(queue)
        /\ (~Ending => Len(documents) = Started + Len(queue))
    BY <1>0, <1>1, <1>2, <1>3
  <1>5. Len(printed) # 0 => Len(printed) \in 1..Len(documents)
    BY <1>0, <1>1, <1>4
  <1>6. Printed \in Nat
    BY <1>0, <1>5 DEF Printed
  <1>7. Read \in Nat
    BY <1>0, <1>6 DEF Read
  <1>8. ASSUME rpc = "reading"
        PROVE  Started \in 1..Len(documents) /\ documents[Started].first = Printed + 1 /\ Read < sent
    <2>1. PICK n : n = Started
      OBVIOUS
    <2>2. n \in 1..Len(documents) /\ n = Len(printed) + 1 /\ n - 1 = Len(printed) /\ (n = 1 <=> Len(printed) = 0)
      BY <1>0, <1>1, <1>4, <1>8, <2>1
    <2>3. documents[n].first = IF n = 1 THEN 1 ELSE LastOf(n - 1) + 1
      BY <2>2 DEF DocumentsAt
    <2>4. documents[n].first = Printed + 1
      BY <2>2, <2>3 DEF Printed
    <2>5. Printed + Len(doc) + document.line_cnt = LastOf(n) /\ document.line_cnt > 0 /\ LastOf(n) <= sent
      BY <1>8, <2>1, <2>2 DEF QueueAt, DocumentsAt
    <2>6. Read = Printed + Len(doc)
      BY <1>8 DEF Read
    <2>7. Read < sent
      BY ONLY <1>0, <1>6, <2>2, <2>5, <2>6
    <2> QED BY <2>1, <2>2, <2>4, <2>7
  <1> QED BY <1>1, <1>4, <1>6, <1>7, <1>8

\* When the reader is told to stop it has read all that was sent.
LEMMA AllRead ==
  ASSUME TypeOK, DocumentsAt, QueueAt, rpc \in {"final", "done"}
  PROVE  Read = sent /\ Len(printed) = Len(documents)
  <1>1. ~Ending /\ Len(queue) = 0 /\ sent \in Nat
    BY Types DEF Ending, QueueAt
  <1>2. Len(documents) = Started + Len(queue) /\ Started = Len(printed) /\ Len(printed) \in Nat
    BY <1>1, ReaderAt, Types DEF Started
  <1>3. Len(documents) = Len(printed)
    BY <1>1, <1>2
  <1>4. sent = IF Len(documents) = 0 THEN 0 ELSE LastOf(Len(documents))
    BY DEF DocumentsAt
  <1> QED BY <1>3, <1>4 DEF Read, Printed

LEMMA InitInv ==
  Init => B64Inv
  <1> SUFFICES ASSUME Init PROVE B64Inv
    OBVIOUS
  <1> USE DEF Init, ChildInit
  <1>0. Len(<<>>) = 0 /\ Ends(<<>>) = 0
    BY EndsEmpty
  <1>1. TypeOK
    <2>1. Stop \in Description
      BY DocBoundsAssumption DEF Stop, Description
    <2> QED BY CapacityAssumption, DocBoundsAssumption, <1>0, <2>1 DEF TypeOK, Lines
  <1>2. DocumentsAt
    BY <1>0, DocBoundsAssumption DEF DocumentsAt
  <1>3. QueueAt
    BY <1>0 DEF QueueAt, Started, Ending
  <1>4. EndsAt
    BY DEF EndsAt
  <1>5. TokensAt
    BY <1>0 DEF TokensAt, Places
  <1>6. Counted
    BY <1>0 DEF Counted, Added, Read, Printed, Coming
  <1>7. Matching(0)
    BY <1>0 DEF Matching, Read, Printed
  <1>8. OnTheWay(0, 1, 1, 1, 1, 1, 1)
    <2>1. Run(<<>>, 1, 1, {}) /\ 0 + 1 = 1
      BY EmptyRun
    <2> QED BY <1>0, <2>1 DEF OnTheWay
  <1>9. Innocent
    BY DEF Innocent
  <1> QED BY <1>1, <1>2, <1>3, <1>4, <1>5, <1>6, <1>7, <1>8, <1>9 DEF B64Inv, InStep, Way

-----------------------------------------------------------------------------
(* The feeder *)

LEMMA Product ==
  ASSUME NEW n \in Nat, NEW m \in Nat, NEW k \in Nat, n <= k
  PROVE  n * m \in Nat /\ n * m <= k * m /\ (n + 1) * m = n * m + m
  <1>1. n * m \in Nat /\ k * m \in Nat /\ (n + 1) * m = n * m + m
    OBVIOUS
  <1>2. PICK d \in Nat : k = n + d
    <2>1. k - n \in Nat /\ k = n + (k - n)
      OBVIOUS
    <2> QED BY <2>1
  <1>3. (n + d) * m = n * m + d * m /\ d * m \in Nat
    OBVIOUS
  <1>4. n * m <= k * m
    BY <1>1, <1>2, <1>3
  <1> QED BY <1>1, <1>4

\* Tokens of no later line than one are of no later line than the next.
LEMMA UpToMore ==
  ASSUME NEW a \in Nat, NEW b \in Nat, a <= b, NEW s \in Seq(UpTo(a))
  PROVE  s \in Seq(UpTo(b))
  <1>1. 0..a \subseteq 0..b
    OBVIOUS
  <1>2. UpTo(a) \subseteq UpTo(b)
    BY <1>1 DEF UpTo
  <1> QED BY <1>2, SeqOfFewer

\* The feeder counts the lines of a document as they will be sent: at least one.
LEMMA LinesOfDocument ==
  ASSUME NEW n \in 0..MaxDocLines, NEW rest \in BOOLEAN, NEW back, back = FALSE
  PROVE  /\ LineCount(n, rest, back) = IF rest \/ n = 0 THEN n + 1 ELSE n
         /\ HasTrailingNewline(n, rest, back) = (n > 0 /\ ~rest)
         /\ LineCount(n, rest, back) \in 1..(MaxDocLines + 1)
  <1>1. MaxDocLines \in Nat /\ n \in Nat /\ n <= MaxDocLines
    BY DocBoundsAssumption
  <1>2. HasTrailingNewline(n, rest, back) = (n > 0 /\ ~rest)
    <2>1. CASE n = 0
      <3>1. ~(n > 0)
        BY <2>1
      <3>2. HasTrailingNewline(n, rest, back) = FALSE
        BY <2>1 DEF HasTrailingNewline
      <3> QED BY <3>1, <3>2
    <2>2. CASE n # 0
      <3>1. n > 0
        BY <1>1, <2>2
      <3> QED BY <2>2, <3>1 DEF HasTrailingNewline
    <2> QED BY <2>1, <2>2
  <1>3. n > 0 <=> n # 0
    BY <1>1
  <1>4. LineCount(n, rest, back) = IF rest \/ n = 0 THEN n + 1 ELSE n
    BY <1>2, <1>3 DEF LineCount
  <1>5. (IF rest \/ n = 0 THEN n + 1 ELSE n) \in 1..(MaxDocLines + 1)
    BY <1>1
  <1> QED BY <1>2, <1>4, <1>5

\* A document is read and its description produced.
LEMMA ReadDocumentInv ==
  ASSUME B64Inv, NEW n \in 0..MaxDocLines, NEW rest \in BOOLEAN, NEW parts \in 0..MaxParts,
         NEW back, back = FALSE, ReadDocument(n, rest, parts, back)
  PROVE  B64Inv'
  <1>k. PICK k, nl : k = LineCount(n, rest, back) /\ nl = HasTrailingNewline(n, rest, back)
    OBVIOUS
  <1>r. PICK rec : rec = [first |-> sent + 1, cnt |-> k, newline |-> nl]
    OBVIOUS
  <1>d. PICK desc : desc = [line_cnt |-> k, has_trailing_newline |-> nl]
    OBVIOUS
  <1>0. /\ UNCHANGED <<buffer, toWrite, inPipe, inOpen, held, child, faults, outPipe, partial, cut>>
        /\ UNCHANGED <<rpc, document, doc, printed, outcome, status>>
        /\ fpc = "next" /\ fpc' = "send" /\ Len(documents) < MaxDocuments
        /\ documents' = Append(documents, rec)
        /\ queue' = Append(queue, desc)
        /\ content' = DocTokens(k, parts) /\ sent' = sent + k
    <2>1. /\ UNCHANGED <<buffer, toWrite, inPipe, inOpen, held, child, faults, outPipe, partial, cut>>
          /\ UNCHANGED <<rpc, document, doc, printed, outcome, status>>
          /\ fpc = "next" /\ fpc' = "send" /\ Len(documents) < MaxDocuments
      BY DEF ReadDocument, childSideVars, streamVars, childVars, readVars, readerVars, endVars
    <2>2. queue' = Append(queue, desc) /\ content' = DocTokens(k, parts) /\ sent' = sent + k
      BY <1>k, <1>d DEF ReadDocument
    <2>3. k = (IF rest \/ n = 0 THEN n + 1 ELSE n) /\ nl = (n > 0 /\ ~rest)
      BY <1>k, LinesOfDocument
    <2>4. documents' = Append(documents, rec)
      BY <1>r, <2>3 DEF ReadDocument
    <2> QED BY <2>1, <2>2, <2>4
  <1>1. TypeOK /\ DocumentsAt /\ QueueAt /\ EndsAt /\ TokensAt /\ Counted /\ InStep /\ Innocent
    BY DEF B64Inv
  <1>2. /\ sent \in Nat /\ Len(documents) \in Nat /\ Len(queue) \in Nat /\ Len(printed) \in Nat
        /\ MaxDocLines \in Nat /\ MaxDocuments \in Nat /\ parts \in Nat
        /\ \A m \in 1..Len(documents) : LastOf(m) \in Nat
    BY <1>1, Types, DocBoundsAssumption
  <1>3. k \in Nat \ {0} /\ k \in 1..(MaxDocLines + 1) /\ k <= MaxDocLines + 1 /\ nl \in BOOLEAN
    <2>1. k \in 1..(MaxDocLines + 1) /\ nl \in BOOLEAN
      BY <1>k, LinesOfDocument
    <2> QED BY <1>2, <2>1
  <1>4. sent + k \in Lines /\ sent + k <= (Len(documents) + 1) * (MaxDocLines + 1)
    <2>1. PICK l \in Nat : l = Len(documents)
      BY <1>2
    <2>2. PICK m \in Nat : m = MaxDocLines + 1
      BY <1>2
    <2>3. l + 1 \in Nat /\ l + 1 <= MaxDocuments /\ l <= l
      BY <1>0, <1>2, <2>1
    <2>4. l * m \in Nat /\ (l + 1) * m = l * m + m
      BY ONLY <2>1, <2>2, <2>3, Product
    <2>5. (l + 1) * m \in Nat /\ (l + 1) * m <= MaxDocuments * m
      BY ONLY <1>2, <2>2, <2>3, Product
    <2>6. PICK a \in Nat : a = l * m
      BY <2>4
    <2>7. PICK b \in Nat : b = (l + 1) * m
      BY <2>5
    <2>8. PICK c \in Nat : c = MaxDocuments * m
      BY <1>2, <2>2
    <2>9. sent <= a
      BY <1>1, <2>1, <2>2, <2>6 DEF DocumentsAt
    <2>10. b = a + m /\ b <= c
      BY ONLY <2>4, <2>5, <2>6, <2>7, <2>8
    <2>11. sent + k \in Nat /\ sent + k <= b /\ sent + k <= c
      BY ONLY <1>2, <1>3, <2>2, <2>6, <2>7, <2>8, <2>9, <2>10
    <2>12. Lines = 0..c
      BY ONLY <2>2, <2>8 DEF Lines
    <2> QED BY ONLY <2>1, <2>2, <2>7, <2>8, <2>11, <2>12
  <1>5. sent + 1 \in Lines /\ rec \in [first : Lines, cnt : 1..(MaxDocLines + 1), newline : BOOLEAN]
    <2>1. sent + 1 \in Lines
      BY <1>2, <1>3, <1>4 DEF Lines
    <2> QED BY <1>3, <1>r, <2>1
  <1>6. /\ documents' \in Seq([first : Lines, cnt : 1..(MaxDocLines + 1), newline : BOOLEAN])
        /\ Len(documents') = Len(documents) + 1
        /\ \A m \in 1..Len(documents) : documents'[m] = documents[m]
        /\ documents'[Len(documents) + 1] = rec
    <2>1. documents \in Seq([first : Lines, cnt : 1..(MaxDocLines + 1), newline : BOOLEAN])
      BY <1>1 DEF TypeOK
    <2>2. documents' = Append(documents, rec)
      BY ONLY <1>0
    <2> QED BY ONLY <1>5, <2>1, <2>2, AppendFacts
  <1>7. /\ queue' \in Seq(Description) /\ Len(queue') = Len(queue) + 1
        /\ \A m \in 1..Len(queue) : queue'[m] = queue[m]
        /\ queue'[Len(queue) + 1] = desc
    <2>1. desc \in Description
      BY <1>2, <1>3, <1>d DEF Description
    <2>2. queue \in Seq(Description)
      BY <1>1 DEF TypeOK
    <2>3. queue' = Append(queue, desc)
      BY ONLY <1>0
    <2> QED BY ONLY <2>1, <2>2, <2>3, AppendFacts
  <1>8. PICK start \in Nat : start = sent
    BY <1>2
  <1>9. PICK d : d = DocTokens(k, parts)
    OBVIOUS
  <1>10. /\ d \in Seq(UpTo(sent + k)) /\ Ends(d) = k
         /\ \A wrong : Run(d, sent + 1, sent + k + 1, wrong)
    BY <1>2, <1>3, <1>9, DocTokensRun, DocTokensEnds
  <1>11. content' = d /\ content = <<>>
    BY <1>0, <1>1, <1>9 DEF EndsAt
  <1>12. /\ d \in Seq(Tokens) /\ d \in Seq(Token)
    <2>1. UpTo(sent + k) \subseteq Tokens /\ UpTo(sent + k) \subseteq Token
      BY <1>2, <1>3, <1>4, TokensOfLines
    <2> QED BY <1>10, <2>1, SeqOfFewer
  <1>13. TypeOK'
    BY <1>0, <1>1, <1>4, <1>6, <1>7, <1>11, <1>12 DEF TypeOK
  <1>14. PICK count \in Nat : count = Len(documents)
    BY <1>2
  <1>15. /\ \A m \in 1..count : LastOf(m)' = LastOf(m)
         /\ LastOf(count + 1)' = sent + k
    <2>1. \A m \in 1..count : LastOf(m)' = LastOf(m)
      BY <1>6, <1>14 DEF LastOf
    <2>2. rec.first = sent + 1 /\ rec.cnt = k
      BY <1>r
    <2>3. documents'[count + 1].first + documents'[count + 1].cnt - 1 = sent + k
      <3>1. documents'[count + 1] = rec
        BY <1>6, <1>14
      <3>2. (sent + 1) + k - 1 = sent + k
        BY <1>2, <1>3
      <3> QED BY ONLY <2>2, <3>1, <3>2
    <2> QED BY <2>1, <2>3 DEF LastOf
  <1>16. sent = IF count = 0 THEN 0 ELSE LastOf(count)
    BY <1>1, <1>14 DEF DocumentsAt
  <1>17. DocumentsAt'
    <2>1. ASSUME NEW m \in 1..(count + 1)
          PROVE  /\ documents'[m].first = IF m = 1 THEN 1 ELSE LastOf(m - 1)' + 1
                 /\ LastOf(m)' <= sent + k
      <3>1. CASE m \in 1..count
        <4>1. m # 1 => m - 1 \in 1..count
          BY <1>14, <3>1
        <4>2. documents'[m] = documents[m] /\ LastOf(m)' = LastOf(m) /\ (m # 1 => LastOf(m - 1)' = LastOf(m - 1))
          BY <1>6, <1>14, <1>15, <3>1, <4>1
        <4>3. documents[m].first = (IF m = 1 THEN 1 ELSE LastOf(m - 1) + 1) /\ LastOf(m) <= sent
          BY <1>1, <1>14, <3>1 DEF DocumentsAt
        <4>4. LastOf(m) <= sent + k
          BY <1>2, <1>3, <1>14, <3>1, <4>3
        <4> QED BY <4>2, <4>3, <4>4
      <3>2. CASE m \notin 1..count
        <4>1. m = count + 1 /\ m - 1 = count /\ (m # 1 => count \in 1..count /\ count # 0) /\ (m = 1 => count = 0)
          BY <1>14, <3>2
        <4>2. documents'[m].first = sent + 1 /\ LastOf(m)' = sent + k
          BY <1>6, <1>14, <1>15, <1>r, <4>1
        <4>3. m = 1 => sent = 0
          BY <1>16, <4>1
        <4>4. m # 1 => LastOf(m - 1)' = sent
          BY <1>15, <1>16, <4>1
        <4>5. sent + k <= sent + k
          BY <1>2, <1>3
        <4> QED BY <4>2, <4>3, <4>4, <4>5
      <3> QED BY <3>1, <3>2
    <2>2. Len(documents') = count + 1 /\ count + 1 # 0 /\ count + 1 <= MaxDocuments
      BY <1>0, <1>2, <1>6, <1>14
    <2>3. sent' = sent + k /\ sent + k <= (count + 1) * (MaxDocLines + 1)
      BY <1>0, <1>4, <1>14
    <2> QED BY <1>15, <2>1, <2>2, <2>3 DEF DocumentsAt
  <1>18. /\ Len(printed) <= Started /\ Started <= count /\ Started \in Nat
         /\ count = Started + Len(queue) /\ ~Ending /\ ~Ending' /\ rpc \notin {"final", "done"}
         /\ (rpc = "reading" => Started \in 1..count)
    BY <1>0, <1>1, <1>14, ReaderAt DEF Ending, QueueAt
  <1>19. Started' = Started /\ Printed' = Printed /\ Read' = Read
    <2>1. PICK l \in Nat : l = Len(printed)
      BY <1>2
    <2>2. l # 0 => l \in 1..count
      BY <1>14, <1>18, <2>1
    <2>3. Started' = Started /\ Printed' = Printed
      BY <1>0, <1>15, <2>1, <2>2 DEF Started, Printed
    <2> QED BY <1>0, <2>3 DEF Read
  <1>20. PICK at \in Nat : at = Started
    BY <1>18
  <1>21. QueueAt'
    <2>1. ASSUME NEW m \in 1..Len(queue') PROVE queue'[m] = Described(at + m)'
      <3>1. CASE m \in 1..Len(queue)
        <4>1. at + m \in 1..Len(documents)
          BY <1>2, <1>14, <1>18, <1>20, <3>1
        <4>2. queue[m] = Described(at + m)
          BY <1>1, <1>18, <1>20, <3>1 DEF QueueAt, InQueue
        <4>3. documents'[at + m] = documents[at + m] /\ queue'[m] = queue[m]
          BY <1>6, <1>7, <3>1, <4>1
        <4> QED BY <4>2, <4>3 DEF Described
      <3>2. CASE m \notin 1..Len(queue)
        <4>1. m = Len(queue) + 1 /\ at + m = Len(documents) + 1
          BY <1>2, <1>7, <1>14, <1>18, <1>20, <3>2
        <4>2. documents'[at + m] = rec /\ queue'[m] = desc
          BY <1>6, <1>7, <4>1
        <4>3. desc = [line_cnt |-> rec.cnt, has_trailing_newline |-> rec.newline]
          BY <1>r, <1>d
        <4> QED BY <4>2, <4>3 DEF Described
      <3> QED BY <3>1, <3>2
    <2>2. \A m \in 1..Len(queue') : queue'[m] = InQueue(m)'
      BY <1>18, <1>19, <1>20, <2>1 DEF InQueue
    <2>3. Len(documents') = Started' + Len(queue') - 0
      BY <1>2, <1>6, <1>7, <1>14, <1>18, <1>19
    <2>4. rpc = "reading" =>
             /\ document.line_cnt > 0
             /\ Printed + Len(doc) + document.line_cnt = LastOf(at)
             /\ document.has_trailing_newline = documents[at].newline
             /\ LastOf(at)' = LastOf(at) /\ documents'[at] = documents[at]
      BY <1>1, <1>6, <1>14, <1>15, <1>18, <1>20 DEF QueueAt
    <2>5. outcome # "exit"
      BY <1>0, <1>1 DEF QueueAt
    <2>6. LastOf(Started)' = LastOf(at)' /\ documents'[Started'] = documents'[at]
      BY <1>19, <1>20
    <2> QED BY <1>0, <1>18, <1>19, <1>20, <2>2, <2>3, <2>4, <2>5, <2>6 DEF QueueAt
  <1>22. EndsAt'
    BY <1>0, <1>1 DEF EndsAt
  <1>23. TokensAt'
    <2>1. /\ partial \in Seq(UpTo(sent)) /\ outPipe \in Seq(UpTo(sent)) /\ held \in Seq(UpTo(sent))
          /\ inPipe \in Seq(UpTo(sent)) /\ toWrite \in Seq(UpTo(sent)) /\ buffer \in Seq(UpTo(sent))
      BY <1>1, TokenTypes
    <2>2. sent + k \in Nat /\ sent <= sent + k
      BY <1>2, <1>3
    <2>3. /\ partial \in Seq(UpTo(sent + k)) /\ outPipe \in Seq(UpTo(sent + k)) /\ held \in Seq(UpTo(sent + k))
          /\ inPipe \in Seq(UpTo(sent + k)) /\ toWrite \in Seq(UpTo(sent + k)) /\ buffer \in Seq(UpTo(sent + k))
      BY <1>2, <2>1, <2>2, UpToMore
    <2> QED BY <1>0, <1>1, <1>10, <1>11, <2>3 DEF TokensAt, Places
  <1>24. Counted'
    <2> SUFFICES ASSUME faults \subseteq {"extra"} PROVE sent' + Added <= Read + Coming'
      BY <1>0, <1>19 DEF Counted, Added
    <2>1. child = "running"
      BY <1>0, <1>1 DEF EndsAt
    <2>2. /\ Ends(partial) \in Nat /\ Ends(outPipe) \in Nat /\ Ends(held) \in Nat /\ Ends(inPipe) \in Nat
          /\ Ends(toWrite) \in Nat /\ Ends(buffer) \in Nat /\ Ends(content) = 0
      BY <1>1, <1>11, ComingNat, EndsEmpty
    <2>3. Coming = Ends(partial) + Ends(outPipe) + (Ends(held) + Ends(inPipe) + Ends(toWrite) + Ends(buffer) + 0)
      BY <2>1, <2>2 DEF Coming
    <2>4. Coming' = Ends(partial) + Ends(outPipe) + (Ends(held) + Ends(inPipe) + Ends(toWrite) + Ends(buffer) + k)
      BY <1>0, <1>10, <1>11, <2>1 DEF Coming
    <2>5. Coming' = Coming + k /\ Coming \in Nat
      BY <1>3, <2>2, <2>3, <2>4
    <2>6. sent + Added <= Read + Coming /\ Added \in Nat /\ Read \in Nat
      BY <1>1, ReaderAt DEF Counted, Added
    <2> QED BY <1>0, <1>2, <1>3, <2>5, <2>6
  <1>25. InStep'
    <2> SUFFICES ASSUME "extra" \notin faults PROVE \E seen \in Nat : Matching(seen)' /\ Way(seen)'
      BY <1>0 DEF InStep
    <2>1. PICK seen \in Nat : Matching(seen) /\ Way(seen)
      BY <1>1 DEF InStep
    <2>2. PICK p, o, h, i, w, c : OnTheWay(seen, p, o, h, i, w, c)
      BY <2>1 DEF Way
    <2>3. OnTheWay(seen, p, o, h, i, w, c)'
      <3>1. child = "running" => Run(<<>>, c, sent + 1, faults)
        BY <1>11, <2>2 DEF OnTheWay
      <3>2. child = "running" => Run(d, c, sent + k + 1, faults)
        BY <1>10, <1>12, <3>1, RunAfterNone
      <3> QED BY <1>0, <1>11, <2>2, <3>2 DEF OnTheWay
    <2>4. \A m \in 1..Len(printed) : Answered(m)' = Answered(m)
      <3>1. \A m \in 1..Len(printed) : documents'[m] = documents[m]
        BY <1>2, <1>6, <1>14, <1>18
      <3> QED BY <3>1 DEF Answered
    <2>5. seen <= sent'
      BY <1>0, <1>2, <1>3, <2>1 DEF Matching
    <2>6. Matching(seen)'
      BY <1>0, <1>19, <2>1, <2>4, <2>5 DEF Matching
    <2> QED BY <2>3, <2>6 DEF Way
  <1>26. Innocent'
    BY <1>0, <1>1 DEF Innocent
  <1> QED BY <1>13, <1>17, <1>21, <1>22, <1>23, <1>24, <1>25, <1>26 DEF B64Inv

\* The document goes into the stream.
LEMMA SendDocumentInv ==
  ASSUME B64Inv, SendDocument
  PROVE  B64Inv'
  <1>0. /\ UNCHANGED <<inPipe, inOpen, held, child, faults, outPipe, partial, cut, documents, sent, queue>>
        /\ UNCHANGED <<rpc, document, doc, printed, outcome, status>>
        /\ fpc = "send" /\ fpc' = "next" /\ toWrite = <<>> /\ content' = <<>>
        /\ StreamWrite(content)
    BY DEF SendDocument, childVars, readVars, readerVars, endVars
  <1>1. TypeOK /\ DocumentsAt /\ QueueAt /\ EndsAt /\ TokensAt /\ Counted /\ InStep /\ Innocent
    BY DEF B64Inv
  <1>2. PICK S, tokens : S = UpTo(sent) /\ tokens = content
    OBVIOUS
  <1>3. /\ S \subseteq Token /\ S \subseteq Tokens /\ buffer \in Seq(S) /\ tokens \in Seq(S)
        /\ Len(buffer) <= StreamCap /\ StreamWrite(tokens) /\ <<>> \in Seq(S)
    BY <1>0, <1>1, <1>2, TokenTypes, EmptyFacts DEF TypeOK
  <1>4. buffer' \in Seq(S) /\ Len(buffer') <= StreamCap /\ toWrite' \in Seq(S)
    BY ONLY <1>0, <1>3, StreamWriteRun
  <1>5. \A first, old, last, next, wrong :
           Run(toWrite, first, old, wrong) /\ Run(buffer, old, last, wrong) /\ Run(tokens, last, next, wrong) =>
               \E new : Run(toWrite', first, new, wrong) /\ Run(buffer', new, next, wrong)
    BY ONLY <1>0, <1>3, StreamWriteRun
  <1>6. Ends(toWrite') + Ends(buffer') = Ends(buffer) + Ends(tokens)
    BY ONLY <1>0, <1>3, EndsStreamWrite
  <1>7. TypeOK'
    <2>1. buffer' \in Seq(Tokens) /\ toWrite' \in Seq(Tokens) /\ content' \in Seq(Tokens)
      BY <1>0, <1>3, <1>4, SeqOfFewer
    <2> QED BY <1>0, <1>1, <1>4, <2>1 DEF TypeOK
  <1>8. DocumentsAt'
    BY <1>0, <1>1, DocumentsKept
  <1>9. Read' = Read /\ Printed' = Printed /\ Started' = Started
    BY <1>0, ReadKept
  <1>10. QueueAt'
    <2>1. Ending' = Ending /\ ~Ending
      BY <1>0 DEF Ending
    <2>2. \A n : LastOf(n)' = LastOf(n) /\ InQueue(n)' = InQueue(n)
      BY <1>0, <1>9, <2>1 DEF LastOf, InQueue, Described
    <2>3. rpc \notin {"final", "done"} /\ outcome # "exit"
      BY <1>0, <1>1 DEF QueueAt
    <2> QED BY <1>0, <1>1, <1>9, <2>1, <2>2, <2>3 DEF QueueAt, LastOf
  <1>11. EndsAt'
    BY <1>0, <1>1 DEF EndsAt
  <1>12. TokensAt'
    <2>1. {buffer', toWrite', content'} \subseteq Seq(UpTo(sent))
      BY <1>0, <1>2, <1>3, <1>4
    <2> QED BY <1>0, <1>1, <2>1 DEF TokensAt, Places
  <1>13. Counted'
    <2>1. child = "running" => Coming' = Coming
      <3> SUFFICES ASSUME child = "running" PROVE Coming' = Coming
        OBVIOUS
      <3>1. /\ Ends(partial) \in Nat /\ Ends(outPipe) \in Nat /\ Ends(held) \in Nat /\ Ends(inPipe) \in Nat
            /\ Ends(buffer) \in Nat /\ Ends(tokens) \in Nat /\ Ends(toWrite) = 0
        BY <1>0, <1>1, <1>2, ComingNat, EndsEmpty
      <3>2. Ends(buffer') \in Nat /\ Ends(toWrite') \in Nat /\ Ends(content') = 0
        BY <1>0, <1>4, EndsNat, EndsEmpty
      <3>3. Coming = Ends(partial) + Ends(outPipe) + (Ends(held) + Ends(inPipe) + 0 + Ends(buffer) + Ends(tokens))
        BY <1>2, <3>1 DEF Coming
      <3>4. Coming' = Ends(partial) + Ends(outPipe) + (Ends(held) + Ends(inPipe) + Ends(toWrite') + Ends(buffer') + 0)
        BY <1>0, <3>2 DEF Coming
      <3> QED BY ONLY <1>6, <3>1, <3>2, <3>3, <3>4
    <2>2. faults \subseteq {"extra"} => child = "running"
      BY <1>0, <1>1 DEF EndsAt
    <2> QED BY <1>0, <1>1, <1>9, <2>1, <2>2, CountedKept
  <1>14. InStep'
    <2>1. ASSUME NEW seen \in Nat, Way(seen) PROVE Way(seen)'
      <3>1. PICK p, o, h, i, w, c : OnTheWay(seen, p, o, h, i, w, c)
        BY <2>1 DEF Way
      <3>2. CASE child = "running"
        <4>1. Run(toWrite, i, w, faults) /\ Run(buffer, w, c, faults) /\ Run(tokens, c, sent + 1, faults)
          BY <1>2, <3>1, <3>2 DEF OnTheWay
        <4>2. PICK x : Run(toWrite', i, x, faults) /\ Run(buffer', x, sent + 1, faults)
          BY ONLY <1>5, <4>1
        <4>3. Run(<<>>, sent + 1, sent + 1, faults)
          <5>1. sent + 1 \in Nat
            BY <1>1, Types
          <5> QED BY <5>1, EmptyRun
        <4>4. PICK y : y = sent + 1
          OBVIOUS
        <4>5. OnTheWay(seen, p, o, h, i, x, y)'
          BY <1>0, <3>1, <4>2, <4>3, <4>4 DEF OnTheWay
        <4> QED BY <4>5 DEF Way
      <3>3. CASE child # "running"
        <4>1. OnTheWay(seen, p, o, h, i, w, c)'
          BY <1>0, <3>1, <3>3 DEF OnTheWay
        <4> QED BY <4>1 DEF Way
      <3> QED BY <3>2, <3>3
    <2> QED BY <1>0, <1>1, <2>1, InStepKept
  <1>15. Innocent'
    BY <1>0, <1>1 DEF Innocent
  <1> QED BY <1>7, <1>8, <1>10, <1>11, <1>12, <1>13, <1>14, <1>15 DEF B64Inv

\* The reader is told to stop.
LEMMA FeederEofInv ==
  ASSUME B64Inv, FeederEof
  PROVE  B64Inv'
  <1>0. /\ UNCHANGED <<buffer, toWrite, inPipe, inOpen, held, child, faults, outPipe, partial, cut, documents>>
        /\ UNCHANGED <<sent, content, rpc, document, doc, printed, outcome, status>>
        /\ fpc = "next" /\ fpc' = "flush" /\ queue' = Append(queue, Stop)
    BY DEF FeederEof, childSideVars, streamVars, childVars, readVars, readerVars, endVars
  <1>1. TypeOK /\ DocumentsAt /\ QueueAt /\ EndsAt /\ TokensAt /\ Counted /\ InStep /\ Innocent
    BY DEF B64Inv
  <1>2. /\ Len(queue) \in Nat /\ Len(documents) \in Nat /\ Started \in Nat
        /\ Len(documents) = Started + Len(queue) /\ ~Ending /\ rpc \notin {"final", "done"} /\ Ending'
    BY <1>0, <1>1, Types, ReaderAt DEF Ending, QueueAt
  <1>3. Read' = Read /\ Printed' = Printed /\ Started' = Started
    BY <1>0, ReadKept
  <1>4. /\ queue' \in Seq(Description) /\ Len(queue') = Len(queue) + 1
        /\ \A m \in 1..Len(queue) : queue'[m] = queue[m]
        /\ queue'[Len(queue) + 1] = Stop
    <2>1. Stop \in Description
      BY DocBoundsAssumption DEF Stop, Description
    <2>2. queue \in Seq(Description) /\ queue' = Append(queue, Stop)
      BY <1>0, <1>1 DEF TypeOK
    <2> QED BY ONLY <2>1, <2>2, AppendFacts
  <1>5. TypeOK'
    BY <1>0, <1>1, <1>4 DEF TypeOK
  <1>6. DocumentsAt'
    BY <1>0, <1>1, DocumentsKept
  <1>7. QueueAt'
    <2>1. ASSUME NEW n \in 1..Len(queue') PROVE queue'[n] = InQueue(n)'
      <3>1. CASE n = Len(queue')
        <4>1. queue'[n] = Stop
          BY <1>4, <3>1
        <4> QED BY <1>2, <3>1, <4>1 DEF InQueue
      <3>2. CASE n # Len(queue')
        <4>1. n \in 1..Len(queue)
          BY <1>2, <1>4, <3>2
        <4>2. queue[n] = Described(Started + n)
          BY <1>1, <1>2, <4>1 DEF QueueAt, InQueue
        <4>3. InQueue(n)' = Described(Started + n)
          BY <1>0, <1>3, <3>2 DEF InQueue, Described
        <4> QED BY <1>4, <4>1, <4>2, <4>3
      <3> QED BY <3>1, <3>2
    <2>2. Len(documents) = Started + Len(queue') - 1 /\ Len(queue') > 0
      BY <1>2, <1>4
    <2>3. \A n : LastOf(n)' = LastOf(n)
      BY <1>0 DEF LastOf
    <2>4. outcome # "exit"
      BY <1>0, <1>1 DEF QueueAt
    <2> QED BY <1>0, <1>1, <1>2, <1>3, <2>1, <2>2, <2>3, <2>4 DEF QueueAt, LastOf
  <1>8. EndsAt'
    BY <1>0, <1>1 DEF EndsAt
  <1>9. TokensAt' /\ Counted'
    BY <1>0, <1>1, <1>3, TokensKept
  <1>10. InStep'
    BY <1>0, <1>1, WayKept, InStepKept
  <1>11. Innocent'
    BY <1>0, <1>1 DEF Innocent
  <1> QED BY <1>5, <1>6, <1>7, <1>8, <1>9, <1>10, <1>11 DEF B64Inv

\* Steps of the feeder behind the last document that leave the queue alone.
LEMMA QueueEnding ==
  ASSUME QueueAt, UNCHANGED <<documents, queue, rpc, document, doc, printed, outcome>>,
         fpc \in {"flush", "close"}, fpc' \in {"close", "done"}
  PROVE  QueueAt'
  <1>1. Ending' = Ending /\ Started' = Started /\ Printed' = Printed
    BY DEF Ending, Started, Printed, LastOf
  <1>2. \A n : LastOf(n)' = LastOf(n) /\ InQueue(n)' = InQueue(n)
    BY <1>1 DEF LastOf, InQueue, Described
  <1>3. outcome # "exit"
    BY DEF QueueAt
  <1> QED BY <1>1, <1>2, <1>3 DEF QueueAt, LastOf

LEMMA FeederFlushInv ==
  ASSUME B64Inv, FeederFlush
  PROVE  B64Inv'
  <1>0. /\ UNCHANGED <<inPipe, inOpen, held, child, faults, outPipe, partial, cut, documents, queue>>
        /\ UNCHANGED <<sent, content, rpc, document, doc, printed, outcome, status>>
        /\ fpc = "flush" /\ fpc' = "close" /\ toWrite = <<>>
        /\ StreamFlush /\ toWrite' = buffer /\ buffer' = <<>>
    BY DEF FeederFlush, StreamFlush, childVars, readVars, readerVars, endVars
  <1>1. TypeOK /\ DocumentsAt /\ QueueAt /\ EndsAt /\ TokensAt /\ Counted /\ InStep /\ Innocent
    BY DEF B64Inv
  <1>2. /\ buffer \in Seq(Tokens) /\ buffer' \in Seq(Tokens) /\ Len(buffer') = 0 /\ StreamCap \in Nat
        /\ buffer \in Seq(UpTo(sent)) /\ buffer' \in Seq(UpTo(sent))
    BY <1>0, <1>1, EmptyFacts, CapacityAssumption, TokenTypes DEF TypeOK
  <1>3. TypeOK'
    BY <1>0, <1>1, <1>2 DEF TypeOK
  <1>4. DocumentsAt' /\ QueueAt'
    BY <1>0, <1>1, DocumentsKept, QueueEnding
  <1>5. EndsAt'
    BY <1>0, <1>1 DEF EndsAt
  <1>6. TokensAt'
    BY <1>0, <1>1, <1>2 DEF TokensAt, Places
  <1>7. Read' = Read
    BY <1>0, ReadKept
  <1>8. Counted'
    <2>1. Ends(toWrite) = 0 /\ Ends(buffer') = 0 /\ Ends(buffer) \in Nat /\ Ends(toWrite') = Ends(buffer)
      BY <1>0, <1>1, ComingNat, EndsEmpty
    <2>3. /\ Ends(partial) \in Nat /\ Ends(outPipe) \in Nat /\ Ends(held) \in Nat /\ Ends(inPipe) \in Nat
          /\ Ends(content) \in Nat
      BY <1>1, ComingNat
    <2>4. Coming' = Coming
      <3>1. CASE child = "running"
        <4>1. Coming = Ends(partial) + Ends(outPipe)
                          + (Ends(held) + Ends(inPipe) + 0 + Ends(buffer) + Ends(content))
          BY <2>1, <3>1 DEF Coming
        <4>2. Coming' = Ends(partial) + Ends(outPipe)
                          + (Ends(held) + Ends(inPipe) + Ends(buffer) + 0 + Ends(content))
          BY <1>0, <2>1, <3>1 DEF Coming
        <4> QED BY ONLY <2>1, <2>3, <4>1, <4>2
      <3>2. CASE child # "running"
        BY <1>0, <3>2 DEF Coming
      <3> QED BY <3>1, <3>2
    <2> QED BY <1>0, <1>1, <1>7, <2>4, CountedKept
  <1>9. InStep'
    <2>1. ASSUME NEW seen \in Nat, Way(seen) PROVE Way(seen)'
      <3>1. PICK p, o, h, i, w, c : OnTheWay(seen, p, o, h, i, w, c)
        BY <2>1 DEF Way
      <3>2. CASE child = "running"
        <4>1. Run(toWrite, i, w, faults) /\ Run(buffer, w, c, faults)
          BY <3>1, <3>2 DEF OnTheWay
        <4>2. PICK x : Run(toWrite', i, x, faults) /\ Run(buffer', x, c, faults)
          BY <1>0, <1>1, <4>1, StreamFlushRun, TokenTypes
        <4>3. OnTheWay(seen, p, o, h, i, x, c)'
          BY <1>0, <3>1, <4>2 DEF OnTheWay
        <4> QED BY <4>3 DEF Way
      <3>3. CASE child # "running"
        <4>1. OnTheWay(seen, p, o, h, i, w, c)'
          BY <1>0, <3>1, <3>3 DEF OnTheWay
        <4> QED BY <4>1 DEF Way
      <3> QED BY <3>2, <3>3
    <2> QED BY <1>0, <1>1, <2>1, InStepKept
  <1>10. Innocent'
    BY <1>0, <1>1 DEF Innocent
  <1> QED BY <1>3, <1>4, <1>5, <1>6, <1>8, <1>9, <1>10 DEF B64Inv

LEMMA FeederCloseInv ==
  ASSUME B64Inv, FeederClose
  PROVE  B64Inv'
  <1>0. /\ UNCHANGED <<buffer, toWrite, inPipe, held, child, faults, outPipe, partial, cut, documents, queue>>
        /\ UNCHANGED <<sent, content, rpc, document, doc, printed, outcome, status>>
        /\ fpc = "close" /\ fpc' = "done" /\ toWrite = <<>> /\ inOpen' = FALSE
    BY DEF FeederClose, streamVars, childVars, readVars, readerVars, endVars
  <1>1. TypeOK /\ DocumentsAt /\ QueueAt /\ EndsAt /\ TokensAt /\ Counted /\ InStep /\ Innocent
    BY DEF B64Inv
  <1>2. TypeOK'
    BY <1>0, <1>1 DEF TypeOK
  <1>3. DocumentsAt' /\ QueueAt'
    BY <1>0, <1>1, DocumentsKept, QueueEnding
  <1>4. EndsAt'
    BY <1>0, <1>1 DEF EndsAt
  <1>5. Read' = Read
    BY <1>0, ReadKept
  <1>6. TokensAt' /\ Counted'
    BY <1>0, <1>1, <1>5, TokensKept
  <1>7. InStep'
    BY <1>0, <1>1, WayKept, InStepKept
  <1>8. Innocent'
    BY <1>0, <1>1 DEF Innocent
  <1> QED BY <1>2, <1>3, <1>4, <1>6, <1>7, <1>8 DEF B64Inv

\* A token moves on from one place to the next.
LEMMA ShiftTypes ==
  ASSUME NEW S, NEW s \in Seq(S), NEW t \in Seq(S), t # <<>>
  PROVE  /\ Append(s, Head(t)) \in Seq(S) /\ Tail(t) \in Seq(S)
         /\ Len(Append(s, Head(t))) = Len(s) + 1 /\ Len(Tail(t)) = Len(t) - 1
         /\ Len(s) \in Nat /\ Len(t) \in Nat
         /\ Ends(Append(s, Head(t))) + Ends(Tail(t)) = Ends(s) + Ends(t)
         /\ Ends(Append(s, Head(t))) \in Nat /\ Ends(Tail(t)) \in Nat
  <1>1. Head(t) \in S /\ Tail(t) \in Seq(S) /\ Len(Tail(t)) = Len(t) - 1 /\ Len(t) \in Nat
    BY TailFacts
  <1>2. Append(s, Head(t)) \in Seq(S) /\ Len(Append(s, Head(t))) = Len(s) + 1 /\ Len(s) \in Nat
    BY <1>1, AppendFacts
  <1> QED BY <1>1, <1>2, EndsShift, EndsNat

\* A token leaves the stream for the pipe, or the write fails, which it does
\* only when the child has ended too early.
LEMMA FeederPushInv ==
  ASSUME B64Inv, FeederPush \/ FeederBroken
  PROVE  B64Inv'
  <1>1. TypeOK /\ DocumentsAt /\ QueueAt /\ EndsAt /\ TokensAt /\ Counted /\ InStep /\ Innocent
    BY DEF B64Inv
  <1>2. CASE FeederPush
    <2>0. /\ UNCHANGED <<buffer, inOpen, held, child, faults, outPipe, partial, cut, documents, queue>>
          /\ UNCHANGED <<sent, content, fpc, rpc, document, doc, printed, outcome, status>>
          /\ toWrite # <<>> /\ child = "running" /\ Len(inPipe) < PipeCap
          /\ inPipe' = Append(inPipe, Head(toWrite)) /\ toWrite' = Tail(toWrite)
      BY <1>2 DEF FeederPush, Push, childVars, readVars, feederVars, readerVars, endVars
    <2>1. toWrite \in Seq(UpTo(sent)) /\ inPipe \in Seq(UpTo(sent)) /\ PipeCap \in Nat
      BY <1>1, CapacityAssumption, TokenTypes
    <2>2. /\ toWrite' \in Seq(UpTo(sent)) /\ inPipe' \in Seq(UpTo(sent))
          /\ Len(inPipe') = Len(inPipe) + 1 /\ Len(inPipe) \in Nat
          /\ Ends(inPipe') + Ends(toWrite') = Ends(inPipe) + Ends(toWrite)
          /\ Ends(inPipe') \in Nat /\ Ends(toWrite') \in Nat
      BY <2>0, <2>1, ShiftTypes
    <2>3. Len(inPipe') <= PipeCap
      BY <2>0, <2>1, <2>2
    <2>4. TypeOK'
      <3>1. toWrite' \in Seq(Tokens) /\ inPipe' \in Seq(Tokens)
        BY <1>1, <2>2, TokenTypes
      <3> QED BY <1>1, <2>0, <2>3, <3>1 DEF TypeOK
    <2>5. DocumentsAt' /\ QueueAt'
      BY <1>1, <2>0, DocumentsKept, QueueKept
    <2>6. EndsAt'
      BY <1>1, <2>0 DEF EndsAt
    <2>7. TokensAt'
      BY <1>1, <2>0, <2>2 DEF TokensAt, Places
    <2>8. Counted'
      <3>1. /\ Ends(partial) \in Nat /\ Ends(outPipe) \in Nat /\ Ends(held) \in Nat /\ Ends(inPipe) \in Nat
            /\ Ends(toWrite) \in Nat /\ Ends(buffer) \in Nat /\ Ends(content) \in Nat
        BY <1>1, ComingNat
      <3>2. Coming = Ends(partial) + Ends(outPipe)
                        + (Ends(held) + Ends(inPipe) + Ends(toWrite) + Ends(buffer) + Ends(content))
        BY <2>0 DEF Coming
      <3>3. Coming' = Ends(partial) + Ends(outPipe)
                        + (Ends(held) + Ends(inPipe') + Ends(toWrite') + Ends(buffer) + Ends(content))
        BY <2>0 DEF Coming
      <3>4. Ends(inPipe') + Ends(toWrite') = Ends(inPipe) + Ends(toWrite)
            /\ Ends(inPipe') \in Nat /\ Ends(toWrite') \in Nat
        BY <2>2
      <3>5. Coming' = Coming
        BY ONLY <3>1, <3>2, <3>3, <3>4
      <3> QED BY <1>1, <2>0, <3>5, CountedKept, ReadKept
    <2>9. InStep'
      <3>1. ASSUME NEW seen \in Nat, Way(seen) PROVE Way(seen)'
        <4>1. PICK p, o, h, i, w, c : OnTheWay(seen, p, o, h, i, w, c)
          BY <3>1 DEF Way
        <4>2. Run(inPipe, h, i, faults) /\ Run(toWrite, i, w, faults)
          BY <2>0, <4>1 DEF OnTheWay
        <4>3. PICK x : Run(inPipe', h, x, faults) /\ Run(toWrite', x, w, faults)
          BY <1>1, <2>0, <2>1, <4>2, TokenTypes, RunShift
        <4>4. OnTheWay(seen, p, o, h, x, w, c)'
          BY <2>0, <4>1, <4>3 DEF OnTheWay
        <4> QED BY <4>4 DEF Way
      <3> QED BY <1>1, <2>0, <3>1, InStepKept
    <2>10. Innocent'
      BY <1>1, <2>0 DEF Innocent
    <2> QED BY <2>4, <2>5, <2>6, <2>7, <2>8, <2>9, <2>10 DEF B64Inv
  <1>3. CASE FeederBroken
    <2>0. /\ UNCHANGED <<buffer, toWrite, inPipe, inOpen, held, child, faults, outPipe, partial, cut, documents>>
          /\ UNCHANGED <<queue, sent, content, fpc, rpc, document, doc, printed, status>>
          /\ toWrite # <<>> /\ child # "running" /\ outcome' = "sigpipe"
      BY <1>3 DEF FeederBroken, BrokenPipe, childSideVars, streamVars, childVars, readVars, feederVars, readerVars
    <2>1. TypeOK'
      BY <1>1, <2>0 DEF TypeOK
    <2>2. DocumentsAt' /\ QueueAt'
      BY <1>1, <2>0, DocumentsKept, QueueKept
    <2>3. EndsAt'
      BY <1>1, <2>0 DEF EndsAt
    <2>4. Read' = Read
      BY <2>0, ReadKept
    <2>5. TokensAt' /\ Counted'
      BY <1>1, <2>0, <2>4, TokensKept
    <2>6. InStep'
      BY <1>1, <2>0, WayKept, InStepKept
    <2>7. faults # {}
      BY <1>1, <2>0 DEF EndsAt
    <2>8. Innocent'
      BY <2>0, <2>7 DEF Innocent
    <2> QED BY <2>1, <2>2, <2>3, <2>5, <2>6, <2>8 DEF B64Inv
  <1> QED BY <1>2, <1>3

-----------------------------------------------------------------------------
(* The reader *)

\* The description at the head of the queue is that of the document after the
\* last one printed, or the one behind the last document.
LEMMA HeadOfQueue ==
  ASSUME TypeOK, DocumentsAt, QueueAt, rpc = "consume", queue # <<>>
  PROVE  /\ Head(queue) \in Description
         /\ Head(queue).line_cnt = 0 => Ending /\ Len(queue) = 1
         /\ Head(queue).line_cnt # 0 =>
              /\ Ending => Len(queue) > 1
              /\ Started + 1 \in 1..Len(documents)
              /\ Printed + Head(queue).line_cnt = LastOf(Started + 1)
              /\ Head(queue).has_trailing_newline = documents[Started + 1].newline
  <1>1. /\ Len(queue) \in Nat \ {0} /\ Head(queue) = queue[1] /\ Started \in Nat /\ Printed \in Nat
        /\ Len(documents) \in Nat /\ Started = Len(printed) /\ Len(printed) \in Nat
        /\ Head(queue) \in Description
    BY TailFacts, ReaderAt, Types DEF TypeOK, Started
  <1> DEFINE less == IF Ending THEN 1 ELSE 0
  <1>2. Len(documents) = Started + Len(queue) - less
    BY DEF QueueAt
  <1>3. less \in {0, 1} /\ (Ending <=> less = 1)
    OBVIOUS
  <1>4. queue[1] = IF Ending /\ 1 = Len(queue) THEN Stop ELSE Described(Started + 1)
    <2>1. 1 \in 1..Len(queue)
      BY <1>1
    <2>2. \A n \in 1..Len(queue) : queue[n] = InQueue(n)
      BY DEF QueueAt
    <2> QED BY <2>1, <2>2 DEF InQueue
  <1>5. CASE Ending /\ Len(queue) = 1
    <2>1. queue[1].line_cnt = 0
      BY <1>4, <1>5 DEF Stop
    <2> QED BY <1>1, <1>5, <2>1
  <1>6. CASE ~(Ending /\ Len(queue) = 1)
    <2> HIDE DEF less
    <2>1. less = 1 => Len(queue) # 1
      BY <1>3, <1>6
    <2>2. PICK k \in Nat \ {0} : k = Len(queue)
      BY <1>1
    <2>3. Started + 1 \in 1..Len(documents) /\ (less = 1 => Len(queue) > 1)
      BY <1>1, <1>2, <1>3, <2>1, <2>2
    <2>4. PICK n : n = Started + 1
      OBVIOUS
    <2>5. n \in 1..Len(documents) /\ n - 1 = Len(printed) /\ (n = 1 <=> Len(printed) = 0)
      BY <1>1, <2>3, <2>4
    <2>6. documents[n].first = IF n = 1 THEN 1 ELSE LastOf(n - 1) + 1
      BY <2>5 DEF DocumentsAt
    <2>7. documents[n].first \in Nat /\ documents[n].cnt \in Nat \ {0}
      BY <2>5, Types
    <2>8. documents[n].first = Printed + 1
      BY <2>5, <2>6 DEF Printed
    <2>9. LastOf(n) = Printed + documents[n].cnt
      BY <1>1, <2>7, <2>8 DEF LastOf
    <2>10. queue[1].line_cnt = documents[n].cnt /\ queue[1].has_trailing_newline = documents[n].newline
      BY <1>4, <1>6, <2>4 DEF Described
    <2>11. documents[n].cnt # 0
      BY <2>7
    <2> QED BY <1>1, <1>3, <2>3, <2>4, <2>9, <2>10, <2>11
  <1> QED BY <1>5, <1>6

LEMMA ConsumeDescriptionInv ==
  ASSUME B64Inv, ConsumeDescription
  PROVE  B64Inv'
  <1>h. PICK head : head = Head(queue)
    OBVIOUS
  <1>0. /\ UNCHANGED <<buffer, toWrite, inPipe, inOpen, held, child, faults, outPipe, partial, cut, documents>>
        /\ UNCHANGED <<sent, content, fpc, printed, outcome, status>>
        /\ rpc = "consume" /\ queue # <<>> /\ document' = head /\ doc' = <<>>
        /\ queue' = Tail(queue) /\ rpc' = IF head.line_cnt > 0 THEN "reading" ELSE "final"
    BY <1>h DEF ConsumeDescription, childSideVars, streamVars, childVars, readVars, feederVars, endVars
  <1>1. TypeOK /\ DocumentsAt /\ QueueAt /\ EndsAt /\ TokensAt /\ Counted /\ InStep /\ Innocent
    BY DEF B64Inv
  <1>2. /\ Len(queue) \in Nat \ {0} /\ queue' \in Seq(Description) /\ Len(queue') = Len(queue) - 1
        /\ \A n \in 1..(Len(queue) - 1) : queue'[n] = queue[n + 1]
    BY <1>0, <1>1, TailFacts DEF TypeOK
  <1>3. PICK at \in Nat : at = Started
    BY <1>1, ReaderAt
  <1>4. /\ Len(printed) \in Nat /\ Len(documents) \in Nat /\ at = Len(printed)
        /\ Printed \in Nat /\ Printed' = Printed /\ Len(doc') = 0 /\ Read = Printed
    BY <1>0, <1>1, <1>3, Types, ReaderAt DEF Started, Printed, LastOf, Read
  <1>5. head \in Description /\ head.line_cnt \in Nat
    <2>1. head \in Description
      BY <1>0, <1>1, <1>h, HeadOfQueue
    <2>2. \A n \in 0..(MaxDocLines + 1) : n \in Nat
      BY DocBoundsAssumption
    <2> QED BY <2>1, <2>2 DEF Description
  <1>6. TypeOK'
    <2>1. doc' \in Seq(Lines)
      BY <1>0, <1>1, EmptyFacts DEF TypeOK
    <2>2. document' \in Description /\ rpc' \in {"reading", "final"}
      BY <1>0, <1>5
    <2> QED BY <1>0, <1>1, <1>2, <2>1, <2>2 DEF TypeOK
  <1>7. DocumentsAt'
    BY <1>0, <1>1, DocumentsKept
  <1>8. outcome # "exit"
    BY <1>0, <1>1 DEF QueueAt
  <1>9. Read' = Read
    BY <1>0, <1>4 DEF Read
  <1>10. QueueAt'
    <2>1. CASE head.line_cnt = 0
      <3>1. Ending /\ Len(queue) = 1
        BY <1>0, <1>1, <1>h, <2>1, HeadOfQueue
      <3>2. rpc' = "final" /\ ~Ending' /\ Started' = at /\ fpc' \in {"flush", "close", "done"}
        BY <1>0, <1>4, <2>1, <3>1 DEF Ending, Started
      <3>3. Len(queue') = 0 /\ Len(documents) = at + 1 - 1
        BY <1>1, <1>2, <1>3, <3>1 DEF QueueAt
      <3>4. Len(documents') = Len(documents) /\ Len(queue') \in Nat
        BY <1>0, <3>3
      <3>5. Len(documents') = Started' + Len(queue') - 0
        BY ONLY <1>3, <3>2, <3>3, <3>4
      <3>6. 1..Len(queue') = {}
        BY ONLY <3>3
      <3> QED BY <1>0, <1>8, <3>2, <3>3, <3>5, <3>6 DEF QueueAt
    <2>2. CASE head.line_cnt # 0
      <3>1. /\ Ending => Len(queue) > 1
            /\ at + 1 \in 1..Len(documents)
            /\ Printed + head.line_cnt = LastOf(at + 1)
            /\ head.has_trailing_newline = documents[at + 1].newline
        BY <1>0, <1>1, <1>3, <1>h, <2>2, HeadOfQueue
      <3>2. head.line_cnt > 0
        BY <1>5, <2>2
      <3>3. rpc' = "reading" /\ Ending' = Ending /\ Started' = at + 1
        BY <1>0, <1>4, <3>2 DEF Ending, Started
      <3> DEFINE less == IF Ending THEN 1 ELSE 0
      <3>4. Len(documents) = at + Len(queue) - less
        BY <1>1, <1>3 DEF QueueAt
      <3>5. less \in {0, 1}
        OBVIOUS
      <3>6. Len(documents') = Started' + Len(queue') - less
        <4> HIDE DEF less
        <4> QED BY <1>0, <1>2, <1>3, <3>3, <3>4, <3>5
      <3>7. ASSUME NEW n \in 1..Len(queue') PROVE queue'[n] = InQueue(n)'
        <4>1. n + 1 \in 1..Len(queue) /\ queue'[n] = queue[n + 1] /\ (n = Len(queue') <=> n + 1 = Len(queue))
              /\ Started' + n = at + (n + 1)
          BY <1>2, <1>3, <3>3
        <4>2. queue[n + 1] = IF Ending /\ n + 1 = Len(queue) THEN Stop ELSE Described(at + (n + 1))
          BY <1>1, <1>3, <4>1 DEF QueueAt, InQueue
        <4>3. Described(at + (n + 1)) = Described(Started + n)'
          BY <1>0, <4>1 DEF Described
        <4> QED BY <3>3, <4>1, <4>2, <4>3 DEF InQueue
      <3>8. Printed' + Len(doc') + document'.line_cnt = LastOf(at + 1)
        <4>1. LastOf(at + 1) \in Nat
          BY <1>1, <3>1, Types
        <4> QED BY <1>0, <1>4, <1>5, <3>1, <4>1
      <3>9. LastOf(Started)' = LastOf(at + 1) /\ documents'[Started'] = documents[at + 1]
        BY <1>0, <3>3 DEF LastOf
      <3>10. Ending => Len(queue') > 0
        BY <1>2, <3>1
      <3> QED BY <1>0, <1>8, <3>1, <3>2, <3>3, <3>6, <3>7, <3>8, <3>9, <3>10 DEF QueueAt
    <2> QED BY <2>1, <2>2
  <1>11. EndsAt'
    BY <1>0, <1>1 DEF EndsAt
  <1>12. TokensAt' /\ Counted'
    BY <1>0, <1>1, <1>9, TokensKept
  <1>13. InStep'
    <2> SUFFICES ASSUME "extra" \notin faults PROVE \E seen \in Nat : Matching(seen)' /\ Way(seen)'
      BY <1>0 DEF InStep
    <2>1. PICK seen \in Nat : Matching(seen) /\ Way(seen)
      BY <1>1 DEF InStep
    <2>2. Way(seen)'
      BY <1>0, <2>1, WayKept
    <2>3. \A n : Answered(n)' = Answered(n)
      BY <1>0 DEF Answered
    <2>4. Matching(seen)'
      BY <1>0, <1>4, <1>9, <2>1, <2>3 DEF Matching
    <2> QED BY <2>2, <2>4
  <1>14. Innocent'
    BY <1>0, <1>1 DEF Innocent
  <1> QED BY <1>6, <1>7, <1>10, <1>11, <1>12, <1>13, <1>14 DEF B64Inv

\* Bytes of the next line arrive.
LEMMA ReaderReadsInv ==
  ASSUME B64Inv, ReaderReads
  PROVE  B64Inv'
  <1>0. /\ UNCHANGED <<buffer, toWrite, inPipe, inOpen, held, child, faults, cut, documents, queue>>
        /\ UNCHANGED <<sent, content, fpc, rpc, document, doc, printed, outcome, status>>
        /\ outPipe # <<>> /\ (partial # <<>> => ~partial[Len(partial)].eol)
        /\ partial' = Append(partial, Head(outPipe)) /\ outPipe' = Tail(outPipe)
    BY DEF ReaderReads, ReadMore, streamVars, childVars, readVars, feederVars, readerVars, endVars
  <1>1. TypeOK /\ DocumentsAt /\ QueueAt /\ EndsAt /\ TokensAt /\ Counted /\ InStep /\ Innocent
    BY DEF B64Inv
  <1>2. /\ outPipe \in Seq(UpTo(sent)) /\ partial \in Seq(UpTo(sent)) /\ Len(outPipe) <= PipeCap
        /\ PipeCap \in Nat
    BY <1>1, CapacityAssumption, TokenTypes DEF TypeOK
  <1>3. /\ outPipe' \in Seq(UpTo(sent)) /\ partial' \in Seq(UpTo(sent))
        /\ Len(outPipe') = Len(outPipe) - 1 /\ Len(outPipe) \in Nat
        /\ Ends(partial') + Ends(outPipe') = Ends(partial) + Ends(outPipe)
        /\ Ends(partial') \in Nat /\ Ends(outPipe') \in Nat
    BY <1>0, <1>2, ShiftTypes
  <1>4. /\ Len(partial) \in Nat /\ Len(partial') = Len(partial) + 1
        /\ \A j \in 1..Len(partial) : partial'[j] = partial[j]
        /\ partial'[Len(partial) + 1] = Head(outPipe)
    <2>1. Head(outPipe) \in UpTo(sent)
      BY <1>0, <1>2, TailFacts
    <2> QED BY <1>0, <1>2, <2>1, AppendFacts
  <1>5. Len(outPipe') <= PipeCap
    BY <1>2, <1>3
  <1>6. TypeOK'
    <2>1. partial' \in Seq(Tokens) /\ outPipe' \in Seq(Tokens)
      BY <1>1, <1>3, TokenTypes
    <2> QED BY <1>0, <1>1, <1>5, <2>1 DEF TypeOK
  <1>7. DocumentsAt' /\ QueueAt'
    BY <1>0, <1>1, DocumentsKept, QueueKept
  <1>8. EndsAt'
    BY <1>0, <1>1 DEF EndsAt
  <1>9. TokensAt'
    <2>1. ASSUME NEW j \in 1..(Len(partial') - 1) PROVE ~partial'[j].eol
      <3>1. j \in 1..Len(partial) /\ (j = Len(partial) \/ j \in 1..(Len(partial) - 1))
        BY <1>4
      <3>2. partial # <<>>
        BY <1>2, <1>4, <3>1, EmptyFacts
      <3> QED BY <1>0, <1>1, <1>4, <3>1, <3>2 DEF TokensAt
    <2> QED BY <1>0, <1>1, <1>3, <2>1 DEF TokensAt, Places
  <1>10. Counted'
    <2>2. PICK rest : rest = IF child = "running"
                     THEN Ends(held) + Ends(inPipe) + Ends(toWrite) + Ends(buffer) + Ends(content) ELSE 0
      OBVIOUS
    <2>3. Coming = Ends(partial) + Ends(outPipe) + rest
      BY <2>2 DEF Coming
    <2>4. Coming' = Ends(partial') + Ends(outPipe') + rest
      BY <1>0, <2>2 DEF Coming
    <2>5. Ends(partial') + Ends(outPipe') = Ends(partial) + Ends(outPipe)
      BY <1>3
    <2>6. Coming' = Coming
      BY ONLY <2>3, <2>4, <2>5
    <2> QED BY <1>0, <1>1, <2>6, CountedKept, ReadKept
  <1>11. InStep'
    <2>1. ASSUME NEW seen \in Nat, Way(seen) PROVE Way(seen)'
      <3>1. PICK p, o, h, i, w, c : OnTheWay(seen, p, o, h, i, w, c)
        BY <2>1 DEF Way
      <3>2. Run(partial, seen + 1, p, faults) /\ Run(outPipe, p, o, faults)
        BY <3>1 DEF OnTheWay
      <3>3. partial \in Seq(Token) /\ outPipe \in Seq(Token)
        BY <1>1, TokenTypes
      <3>4. PICK x : Run(partial', seen + 1, x, faults) /\ Run(outPipe', x, o, faults)
        BY <1>0, <3>2, <3>3, RunShift
      <3>5. \A j \in 1..Len(partial') : Gaps(faults) \/ partial'[j].line = seen + 1
        <4> SUFFICES ASSUME ~Gaps(faults) PROVE \A j \in 1..Len(partial') : partial'[j].line = seen + 1
          OBVIOUS
        <4>1. p = seen + 1
          <5>1. CASE Len(partial) = 0
            BY <3>2, <5>1 DEF Run, Gapless
          <5>2. CASE Len(partial) # 0
            <6>1. ~partial[Len(partial)].eol /\ Len(partial) \in 1..Len(partial)
              BY <1>0, <1>2, <1>4, <5>2, EmptyFacts
            <6> QED BY <3>1, <3>2, <5>2, <6>1 DEF Run, Gapless, After, OnTheWay
          <5> QED BY <5>1, <5>2
        <4>2. Head(outPipe).line = seen + 1
          BY <1>0, <3>2, <3>3, <4>1, RunTail
        <4>3. \A j \in 1..Len(partial') : j \in 1..Len(partial) \/ j = Len(partial) + 1
          BY <1>4
        <4> QED BY <1>4, <3>1, <4>2, <4>3 DEF OnTheWay
      <3>6. OnTheWay(seen, x, o, h, i, w, c)'
        BY <1>0, <3>1, <3>4, <3>5 DEF OnTheWay
      <3> QED BY <3>6 DEF Way
    <2> QED BY <1>0, <1>1, <2>1, InStepKept
  <1>12. Innocent'
    BY <1>0, <1>1 DEF Innocent
  <1> QED BY <1>6, <1>7, <1>8, <1>9, <1>10, <1>11, <1>12 DEF B64Inv

\* The document that is complete with this answer is made of the answers to its
\* own lines, and ends as it did, if there was no gap.
LEMMA DocComplete ==
  ASSUME TypeOK, DocumentsAt, QueueAt, rpc = "reading", document.line_cnt = 1,
         \A j \in 1..Len(doc) : doc[j] = Printed + j
  PROVE  [answers |-> Append(doc, Read + 1), newline |-> document.has_trailing_newline]
            = Answered(Len(printed) + 1)
  <1>1. /\ Len(doc) \in Nat /\ Printed \in Nat /\ Started = Len(printed) + 1
        /\ Started \in 1..Len(documents)
        /\ documents[Started].first = Printed + 1
        /\ Printed + Len(doc) + 1 = LastOf(Started)
        /\ Read = Printed + Len(doc)
        /\ document.has_trailing_newline = documents[Started].newline
    BY Types, ReaderAt DEF QueueAt, Read
  <1>2. PICK n : n = Started
    OBVIOUS
  <1>3. PICK length \in Nat : length = Len(doc)
    BY <1>1
  <1>4. documents[n].first = Printed + 1 /\ documents[n].cnt = length + 1
    <2>1. documents[n].first = Printed + 1 /\ documents[n].cnt \in Nat /\ Printed + length + 1 = LastOf(n)
      BY <1>1, <1>2, <1>3, Types
    <2>2. LastOf(n) = (Printed + 1) + documents[n].cnt - 1
      BY <2>1 DEF LastOf
    <2>3. PICK c \in Nat : c = documents[n].cnt
      BY <2>1
    <2>4. PICK p \in Nat : p = Printed
      BY <1>1
    <2>5. p + length + 1 = (p + 1) + c - 1
      BY <2>1, <2>2, <2>3, <2>4
    <2>6. c = length + 1
      BY ONLY <2>5, c \in Nat, p \in Nat, length \in Nat
    <2> QED BY <2>1, <2>3, <2>6
  <1> DEFINE answers == [j \in 1..(length + 1) |-> Printed + j]
  <1>5. Answered(n) = [answers |-> answers, newline |-> documents[n].newline]
    <2>1. [j \in 1..documents[n].cnt |-> documents[n].first + j - 1]
             = [j \in 1..(length + 1) |-> (Printed + 1) + j - 1]
      BY <1>4
    <2>2. [j \in 1..(length + 1) |-> (Printed + 1) + j - 1] = answers
      BY <1>1
    <2> HIDE DEF answers
    <2> QED BY <2>1, <2>2 DEF Answered
  <1>6. answers \in Seq(Nat) /\ Len(answers) = length + 1
    <2>1. \A j \in 1..(length + 1) : Printed + j \in Nat
      BY <1>1
    <2> QED BY <2>1
  <1>7. doc \in Seq(Nat) /\ Read + 1 \in Nat
    <2>1. doc \in Seq(Lines) /\ Lines \subseteq Nat
      BY TokensOfLines DEF TypeOK
    <2>2. doc \in Seq(Nat)
      BY ONLY <2>1, SeqOfFewer
    <2>3. Read + 1 \in Nat
      BY <1>1
    <2> QED BY <2>2, <2>3
  <1>8. PICK s : s = Append(doc, Read + 1)
    OBVIOUS
  <1>9. /\ s \in Seq(Nat) /\ Len(s) = length + 1 /\ s[length + 1] = Read + 1
        /\ \A j \in 1..length : s[j] = doc[j]
    BY <1>3, <1>7, <1>8, AppendFacts
  <1>10. ASSUME NEW j \in 1..(length + 1) PROVE s[j] = answers[j]
    <2>1. answers[j] = Printed + j
      OBVIOUS
    <2>2. CASE j \in 1..length
      BY <1>3, <1>9, <2>1, <2>2
    <2>3. CASE j \notin 1..length
      <3>1. j = length + 1
        BY <2>3
      <3>2. Read + 1 = Printed + (length + 1)
        BY <1>1, <1>3
      <3> QED BY <1>9, <2>1, <3>1, <3>2
    <2> QED BY <2>2, <2>3
  <1>11. s = answers
    <2> HIDE DEF answers
    <2> QED BY <1>6, <1>9, <1>10, SeqEqual
  <1> HIDE DEF answers
  <1> QED BY <1>1, <1>2, <1>5, <1>8, <1>11

\* What the line tells that ReadLine returns: its number, and that the tokens
\* behind it belong to later lines.
LEMMA LineKnown ==
  ASSUME TypeOK, TokensAt, LineReady, NEW seen \in Nat, seen <= sent,
         NEW p, NEW o, NEW h, NEW i, NEW w, NEW c, OnTheWay(seen, p, o, h, i, w, c)
  PROVE  /\ LineRead \in Nat /\ seen + 1 <= LineRead /\ LineRead <= sent
         /\ Gaps(faults) \/ LineRead = seen + 1
         /\ Run(<<>>, LineRead + 1, p, faults) \/ (outPipe = <<>> /\ child # "running")
  <1>1. PICK n : n = Len(partial)
    OBVIOUS
  <1>2. /\ partial \in Seq(UpTo(sent)) /\ partial \in Seq(Token) /\ n \in Nat \ {0} /\ n \in 1..Len(partial)
        /\ partial # <<>>
    BY <1>1, TokenTypes, EmptyFacts DEF LineReady
  <1>3. PICK last : last = partial[n]
    OBVIOUS
  <1>4. last \in UpTo(sent) /\ last \in Token
    BY <1>2, <1>3, ElementOfSeq
  <1>5. /\ LineRead = last.line /\ last.line \in Nat /\ last.line <= sent
        /\ After(last) = IF last.eol THEN last.line + 1 ELSE last.line
    <2>1. last.line \in 0..sent
      BY <1>4 DEF UpTo
    <2>2. sent \in Nat
      BY Types
    <2> QED BY <1>1, <1>3, <2>1, <2>2 DEF LineRead, After
  <1>6. Run(partial, seen + 1, p, faults)
    BY DEF OnTheWay
  <1>7. seen + 1 <= last.line /\ After(last) <= p /\ p \in Nat
    BY <1>2, <1>3, <1>6 DEF Run, Ascending
  <1>8. Gaps(faults) \/ last.line = seen + 1
    BY <1>2, <1>3 DEF OnTheWay
  <1>9. Gaps(faults) \/ p = After(last)
    BY <1>1, <1>2, <1>3, <1>6 DEF Run, Gapless
  <1>10. last.eol => Run(<<>>, last.line + 1, p, faults)
    <2> SUFFICES ASSUME last.eol PROVE Run(<<>>, last.line + 1, p, faults)
      OBVIOUS
    <2>1. last.line + 1 <= p /\ last.line + 1 \in Nat /\ (Gaps(faults) \/ p = last.line + 1)
      BY <1>5, <1>7, <1>9
    <2>2. Len(<<>>) = 0
      OBVIOUS
    <2>3. Ascending(<<>>, last.line + 1, p)
      BY <1>7, <2>1, <2>2 DEF Ascending
    <2>4. Gaps(faults) \/ Gapless(<<>>, last.line + 1, p)
      BY <2>1, <2>2 DEF Gapless
    <2> QED BY <2>3, <2>4 DEF Run
  <1>11. ~last.eol => outPipe = <<>> /\ child # "running"
    BY <1>1, <1>3 DEF LineReady, AtEof
  <1> QED BY <1>5, <1>7, <1>8, <1>10, <1>11

LEMMA AppendLineInv ==
  ASSUME B64Inv, AppendLine, cut' \subseteq {LineRead}
  PROVE  B64Inv'
  <1>2. PICK line, left, nl : line = LineRead /\ left = document.line_cnt /\ nl = document.has_trailing_newline
    OBVIOUS
  <1>5. PICK s, whole : s = Append(doc, line) /\ whole = [answers |-> s, newline |-> nl]
    OBVIOUS
  <1>7. PICK pr : pr = Append(printed, whole)
    OBVIOUS
  <1>1. TypeOK /\ DocumentsAt /\ QueueAt /\ EndsAt /\ TokensAt /\ Counted /\ InStep /\ Innocent
    BY DEF B64Inv
  <1>0. /\ UNCHANGED <<buffer, toWrite, inPipe, inOpen, held, child, faults, outPipe, documents, queue>>
        /\ UNCHANGED <<sent, content, fpc, outcome, status>>
        /\ rpc = "reading" /\ LineReady /\ doc' = s /\ partial' = <<>>
        /\ \/ left > 1 /\ rpc' = "reading" /\ printed' = printed
           \/ left = 1 /\ rpc' = "consume" /\ printed' = pr
    <2>1. /\ UNCHANGED <<buffer, toWrite, inPipe, inOpen, held, child, faults, outPipe, documents, queue>>
          /\ UNCHANGED <<sent, content, fpc, outcome, status>>
          /\ rpc = "reading" /\ LineReady /\ partial' = <<>>
      BY DEF AppendLine, TakeLine, streamVars, childVars, feederVars, endVars
    <2>2. doc' = s
      BY <1>2, <1>5 DEF AppendLine
    <2>3. \/ left > 1 /\ rpc' = rpc /\ printed' = printed
          \/ left = 1 /\ rpc' = "consume" /\ printed' = Append(printed, [answers |-> doc', newline |-> nl])
      BY <1>2 DEF AppendLine
    <2> QED BY <1>5, <1>7, <2>1, <2>2, <2>3
  <1>3. line \in Lines
    <2>1. Len(partial) \in 1..Len(partial) /\ partial \in Seq(Tokens)
      BY <1>0, <1>1, EmptyFacts DEF TypeOK, LineReady
    <2>2. partial[Len(partial)] \in Tokens
      BY <2>1, ElementOfSeq
    <2> QED BY <1>2, <2>2 DEF LineRead, Tokens
  <1>d. /\ document' \in Description /\ document'.line_cnt = left - 1
        /\ document'.has_trailing_newline = nl /\ left \in Nat \ {0} /\ nl \in BOOLEAN
    <2>1. document \in Description /\ left > 0
      BY <1>0, <1>1, <1>2 DEF TypeOK, QueueAt
    <2>2. left \in 0..(MaxDocLines + 1) /\ nl \in BOOLEAN /\ MaxDocLines \in Nat
      BY <1>2, <2>1, DocBoundsAssumption DEF Description
    <2>3. left - 1 \in 0..(MaxDocLines + 1) /\ left \in Nat \ {0}
      BY <2>1, <2>2
    <2>4. document' = [document EXCEPT !.line_cnt = left - 1]
      BY <1>2 DEF AppendLine
    <2> QED BY <1>2, <2>1, <2>2, <2>3, <2>4 DEF Description
  <1>4. /\ Len(doc) \in Nat /\ Len(printed) \in Nat /\ Printed \in Nat /\ Read \in Nat
        /\ Len(documents) \in Nat /\ sent \in Nat
        /\ Started = Len(printed) + 1 /\ Started \in 1..Len(documents)
        /\ Printed + Len(doc) + left = LastOf(Started) /\ nl = documents[Started].newline
        /\ Read = Printed + Len(doc) /\ LastOf(Started) \in Nat
    <2>1. /\ Len(doc) \in Nat /\ Len(printed) \in Nat /\ Printed \in Nat /\ Read \in Nat
          /\ Len(documents) \in Nat /\ sent \in Nat
          /\ Started = Len(printed) + 1 /\ Started \in 1..Len(documents)
      BY <1>0, <1>1, Types, ReaderAt
    <2>2. Printed + Len(doc) + left = LastOf(Started) /\ nl = documents[Started].newline
      BY <1>0, <1>1, <1>2 DEF QueueAt
    <2>3. Read = Printed + Len(doc)
      BY <1>0 DEF Read
    <2>4. LastOf(Started) \in Nat
      BY <1>1, <2>1, Types
    <2> QED BY <2>1, <2>2, <2>3, <2>4
  <1>6. /\ s \in Seq(Lines) /\ Len(s) = Len(doc) + 1 /\ s[Len(doc) + 1] = line
        /\ \A j \in 1..Len(doc) : s[j] = doc[j]
    BY <1>1, <1>3, <1>5, AppendFacts DEF TypeOK
  <1>8. /\ pr \in Seq([answers : Seq(Lines), newline : BOOLEAN])
        /\ Len(pr) = Len(printed) + 1 /\ pr[Len(printed) + 1] = whole
        /\ \A n \in 1..Len(printed) : pr[n] = printed[n]
    <2>1. whole \in [answers : Seq(Lines), newline : BOOLEAN]
      BY <1>5, <1>6, <1>d
    <2>2. printed \in Seq([answers : Seq(Lines), newline : BOOLEAN])
      BY <1>1 DEF TypeOK
    <2> QED BY ONLY <1>7, <2>1, <2>2, AppendFacts
  <1>10. TypeOK'
    <2>2. partial' \in Seq(Tokens)
      BY <1>0, EmptyFacts, <1>1 DEF TypeOK
    <2>3. /\ doc' \in Seq(Lines) /\ printed' \in Seq([answers : Seq(Lines), newline : BOOLEAN])
          /\ rpc' \in {"reading", "consume"}
      BY <1>0, <1>1, <1>6, <1>8 DEF TypeOK
    <2>4. cut' \subseteq Lines
      BY <1>2, <1>3
    <2> QED BY <1>0, <1>1, <1>d, <2>2, <2>3, <2>4 DEF TypeOK
  <1>11. DocumentsAt'
    BY <1>0, <1>1, DocumentsKept
  <1>9. PICK at \in Nat : at = Started
    BY <1>4
  <1>12. Ending' = Ending /\ Started' = at
    <2>1. Ending' = Ending
      BY <1>0 DEF Ending
    <2>2. Started' = at
      BY <1>0, <1>4, <1>8, <1>9 DEF Started
    <2> QED BY <2>1, <2>2
  <1>13. /\ left > 1 => Printed' = Printed
         /\ left = 1 => Printed' = Read + 1
         /\ Read' = Read + 1
    <2>1. CASE left > 1
      <3>1. Printed' = Printed /\ rpc' = "reading"
        BY <1>0, <2>1 DEF Printed, LastOf
      <3>2. Read' = Printed' + Len(s)
        BY <1>0, <3>1 DEF Read
      <3> QED BY <1>4, <1>6, <2>1, <3>1, <3>2
    <2>2. CASE left = 1
      <3>1. printed' = pr /\ rpc' = "consume" /\ documents' = documents /\ Len(pr) = at /\ at # 0
        BY <1>0, <1>4, <1>8, <1>9, <2>2
      <3>2. Printed' = LastOf(at)
        BY <3>1 DEF Printed, LastOf
      <3>3. Read' = Printed'
        BY <3>1 DEF Read
      <3> QED BY <1>4, <1>9, <2>2, <3>2, <3>3
    <2> QED BY <1>0, <2>1, <2>2
  <1>14. QueueAt'
    <2>1. rpc' = "reading" =>
             /\ document'.line_cnt > 0
             /\ Printed' + Len(doc') + document'.line_cnt = LastOf(at)
      <3> SUFFICES ASSUME rpc' = "reading"
                   PROVE  document'.line_cnt > 0 /\ Printed' + Len(doc') + document'.line_cnt = LastOf(at)
        OBVIOUS
      <3>1. left > 1 /\ Printed' = Printed /\ Len(doc') = Len(doc) + 1
        BY <1>0, <1>6, <1>13
      <3>2. left - 1 > 0 /\ Printed + (Len(doc) + 1) + (left - 1) = Printed + Len(doc) + left
        BY <1>4, <1>d, <3>1
      <3> QED BY <1>4, <1>9, <1>d, <3>1, <3>2
    <2>2. rpc' \notin {"final", "done"} /\ outcome' # "exit"
      BY <1>0, <1>1 DEF QueueAt
    <2>3. \A n : InQueue(n)' = InQueue(n) /\ LastOf(n)' = LastOf(n)
      BY <1>0, <1>9, <1>12 DEF InQueue, Described, LastOf
    <2>4. LastOf(Started)' = LastOf(at) /\ documents'[Started'] = documents[at]
      BY <1>0, <1>12 DEF LastOf
    <2>5. nl = documents[at].newline
      BY <1>4, <1>9
    <2> QED BY <1>0, <1>1, <1>9, <1>12, <1>d, <2>1, <2>2, <2>3, <2>4, <2>5 DEF QueueAt
  <1>15. EndsAt'
    BY <1>0, <1>1 DEF EndsAt
  <1>16. TokensAt'
    <2>1. partial' \in Seq(UpTo(sent)) /\ Len(partial') = 0
      BY <1>0, EmptyFacts
    <2>2. 1..(Len(partial') - 1) = {}
      BY <2>1
    <2> QED BY <1>0, <1>1, <2>1, <2>2 DEF TokensAt, Places
  <1>17. Counted'
    <2>1. Ends(partial) <= 1
      <3>1. PICK n : n = Len(partial)
        OBVIOUS
      <3>2. n \in Nat \ {0}
        BY <1>0, <1>1, <3>1, TokenTypes, EmptyFacts DEF LineReady
      <3>3. Eols(partial) \subseteq {n}
        <4>1. \A j \in 1..(n - 1) : ~partial[j].eol
          BY <1>1, <3>1 DEF TokensAt
        <4>2. \A j \in 1..n : j = n \/ j \in 1..(n - 1)
          BY <3>2
        <4> QED BY <3>1, <4>1, <4>2 DEF Eols
      <3>4. Cardinality({n}) = 1 /\ IsFiniteSet({n})
        BY FS_Singleton
      <3> QED BY <3>3, <3>4, FS_Subset DEF Ends
    <2>2. PICK rest : rest = IF child = "running"
                     THEN Ends(held) + Ends(inPipe) + Ends(toWrite) + Ends(buffer) + Ends(content) ELSE 0
      OBVIOUS
    <2>3. Coming = Ends(partial) + Ends(outPipe) + rest
      BY <2>2 DEF Coming
    <2>4. Coming' = 0 + Ends(outPipe) + rest
      BY <1>0, <2>2, EndsEmpty DEF Coming
    <2>5. Ends(partial) \in Nat /\ Ends(outPipe) \in Nat /\ rest \in Nat
      BY <1>1, <2>2, ComingNat
    <2>6. Coming <= Coming' + 1 /\ Coming' \in Nat /\ Coming \in Nat
      BY ONLY <2>1, <2>3, <2>4, <2>5
    <2>7. faults \subseteq {"extra"} => sent + Added <= Read + Coming
      BY <1>1 DEF Counted
    <2>8. Added' = Added /\ Added \in Nat
      BY <1>0 DEF Added
    <2>9. sent \in Nat /\ Read \in Nat
      BY <1>4
    <2>10. sent + Added <= Read + Coming => sent + Added <= (Read + 1) + Coming'
      <3>1. PICK a, b, r, t : a = Coming /\ b = Coming' /\ r = Read /\ t = sent + Added
        OBVIOUS
      <3>2. a \in Nat /\ b \in Nat /\ r \in Nat /\ t \in Nat /\ a <= b + 1
        <4>1. t \in Nat /\ r \in Nat
          BY ONLY <2>8, <2>9, <3>1
        <4>2. a \in Nat /\ b \in Nat /\ a <= b + 1
          BY ONLY <2>6, <3>1
        <4> QED BY <4>1, <4>2
      <3>3. t <= r + a => t <= (r + 1) + b
        BY ONLY <3>2
      <3> QED BY ONLY <3>1, <3>3
    <2> QED BY <1>0, <1>13, <2>7, <2>8, <2>10 DEF Counted
  <1>18. InStep'
    <2> SUFFICES ASSUME "extra" \notin faults PROVE \E seen \in Nat : Matching(seen)' /\ Way(seen)'
      BY <1>0 DEF InStep
    <2>1. PICK seen \in Nat : Matching(seen) /\ Way(seen)
      BY <1>1 DEF InStep
    <2>2. PICK p, o, h, i, w, c : OnTheWay(seen, p, o, h, i, w, c)
      BY <2>1 DEF Way
    <2>3. /\ Read <= seen /\ seen <= sent /\ (Gaps(faults) \/ seen = Read)
          /\ seen = Read =>
               /\ \A n \in 1..Len(printed) : printed[n] = Answered(n)
               /\ \A j \in 1..Len(doc) : doc[j] = Printed + j
      BY <1>0, <2>1 DEF Matching
    <2>4. /\ line \in Nat /\ seen + 1 <= line /\ line <= sent
          /\ Gaps(faults) \/ line = seen + 1
          /\ Run(<<>>, line + 1, p, faults) \/ (outPipe = <<>> /\ child # "running")
      BY <1>0, <1>1, <1>2, <2>2, <2>3, LineKnown
    <2>5. Matching(line)'
      <3>1. Read + 1 <= line /\ (Gaps(faults) \/ line = Read + 1)
        <4>1. PICK r : r \in Nat /\ r = Read
          BY <1>4
        <4>2. r <= seen /\ seen + 1 <= line /\ line \in Nat /\ seen \in Nat
          BY <2>3, <2>4, <4>1
        <4>3. r + 1 <= line /\ (seen = r /\ line = seen + 1 => line = r + 1)
          BY ONLY <4>1, <4>2
        <4> QED BY <2>3, <2>4, <4>1, <4>3
      <3>2. \A n : Answered(n)' = Answered(n)
        BY <1>0 DEF Answered
      <3>3. ASSUME line = Read + 1
            PROVE  /\ \A n \in 1..Len(printed') : printed'[n] = Answered(n)'
                   /\ rpc' = "reading" => \A j \in 1..Len(doc') : doc'[j] = Printed' + j
        <4>1. /\ \A n \in 1..Len(printed) : printed[n] = Answered(n)
              /\ \A j \in 1..Len(doc) : doc[j] = Printed + j
          <5>1. seen = Read
            BY <1>4, <2>3, <2>4, <3>3
          <5> QED BY <2>3, <5>1
        <4>2. CASE left > 1
          <5>1. printed' = printed /\ Printed' = Printed /\ doc' = s
            BY <1>0, <1>d, <1>13, <4>2
          <5>2. ASSUME NEW j \in 1..Len(s) PROVE s[j] = Printed + j
            <6>1. j \in 1..Len(doc) \/ j = Len(doc) + 1
              BY <1>4, <1>6
            <6>2. line = Printed + (Len(doc) + 1)
              BY <1>4, <3>3
            <6> QED BY <1>6, <4>1, <6>1, <6>2
          <5> QED BY <3>2, <4>1, <5>1, <5>2
        <4>3. CASE left = 1
          <5>1. printed' = pr /\ rpc' = "consume"
            BY <1>0, <4>3
          <5>2. whole = Answered(Len(printed) + 1)
            BY <1>0, <1>1, <1>2, <1>5, <3>3, <4>1, <4>3, DocComplete
          <5>3. ASSUME NEW n \in 1..Len(pr) PROVE pr[n] = Answered(n)
            <6>1. n \in 1..Len(printed) \/ n = Len(printed) + 1
              BY <1>4, <1>8
            <6> QED BY <1>8, <4>1, <5>2, <6>1
          <5> QED BY <3>2, <5>1, <5>3
        <4> QED BY <1>0, <4>2, <4>3
      <3>4. Read' <= line /\ line <= sent' /\ (Gaps(faults') \/ line = Read')
        BY <1>0, <1>13, <2>4, <3>1
      <3>5. line = Read' => line = Read + 1
        BY <1>13
      <3> QED BY <3>3, <3>4, <3>5 DEF Matching
    <2>6. Way(line)'
      <3>1. Len(partial') = 0
        BY <1>0
      <3>2. CASE Run(<<>>, line + 1, p, faults)
        <4>1. OnTheWay(line, p, o, h, i, w, c)'
          BY <1>0, <1>2, <2>2, <3>1, <3>2 DEF OnTheWay
        <4> QED BY <4>1 DEF Way
      <3>3. CASE outPipe = <<>> /\ child # "running"
        <4>1. PICK l \in Nat : l = line + 1
          BY <2>4
        <4>2. Run(<<>>, l, l, faults)
          BY <4>1, EmptyRun
        <4>3. OnTheWay(line, l, l, h, i, w, c)'
          BY <1>0, <1>2, <3>1, <3>3, <4>1, <4>2 DEF OnTheWay
        <4> QED BY <4>3 DEF Way
      <3> QED BY <2>4, <3>2, <3>3
    <2> QED BY <2>4, <2>5, <2>6
  <1>19. Innocent'
    BY <1>0, <1>1 DEF Innocent
  <1> QED BY <1>10, <1>11, <1>14, <1>15, <1>16, <1>17, <1>18, <1>19 DEF B64Inv

\* The reader ends.  It complains only if the child did something wrong, and
\* does not end quietly if all that went wrong is a line too many.
LEMMA ReaderEndsInv ==
  ASSUME B64Inv, ReaderEof \/ FinalPeek \/ Return
  PROVE  B64Inv'
  <1>1. TypeOK /\ DocumentsAt /\ QueueAt /\ EndsAt /\ TokensAt /\ Counted /\ InStep /\ Innocent
    BY DEF B64Inv
  <1>n. sent \in Nat /\ Read \in Nat /\ Added \in Nat
    BY <1>1, Types, ReaderAt DEF Added
  <1>2. NoLine => Coming = 0
    <2> SUFFICES ASSUME NoLine PROVE Coming = 0
      OBVIOUS
    <2>1. partial = <<>> /\ outPipe = <<>> /\ child # "running"
      BY DEF NoLine, AtEof
    <2> QED BY <2>1, EndsEmpty DEF Coming
  <1>3. ASSUME UNCHANGED <<buffer, toWrite, inPipe, inOpen, held, child, faults, outPipe, partial, cut, documents>>,
               UNCHANGED <<sent, content, fpc, queue, rpc, document, doc, printed>>,
               status' \in 0..255, outcome' \in {"running", "exit", "aborted", "sigpipe"},
               outcome' = "exit" => rpc = "done" /\ fpc = "done",
               faults = {} => outcome' \in {"running", "exit"}
        PROVE  B64Inv'
    <2>1. TypeOK'
      BY <1>1, <1>3 DEF TypeOK
    <2>2. DocumentsAt' /\ QueueAt'
      BY <1>1, <1>3, DocumentsKept, QueueKept
    <2>3. EndsAt'
      BY <1>1, <1>3 DEF EndsAt
    <2>4. Read' = Read
      BY <1>3, ReadKept
    <2>5. TokensAt' /\ Counted'
      BY <1>1, <1>3, <2>4, TokensKept
    <2>6. InStep'
      BY <1>1, <1>3, WayKept, InStepKept
    <2>7. Innocent'
      BY <1>3 DEF Innocent
    <2> QED BY <2>1, <2>2, <2>3, <2>5, <2>6, <2>7 DEF B64Inv
  <1>4. ASSUME Abort, faults # {} PROVE B64Inv'
    <2>1. /\ UNCHANGED <<buffer, toWrite, inPipe, inOpen, held, child, faults, outPipe, partial, cut, documents>>
          /\ UNCHANGED <<sent, content, fpc, queue, rpc, document, doc, printed>>
          /\ status' = status /\ outcome' = "aborted"
      BY <1>4 DEF Abort, childSideVars, streamVars, childVars, readVars, feederVars, readerVars
    <2>2. status \in 0..255
      BY <1>1 DEF TypeOK
    <2> QED BY <1>3, <1>4, <2>1, <2>2
  <1>5. CASE ReaderEof
    <2>1. Abort /\ NoLine /\ rpc = "reading"
      BY <1>5 DEF ReaderEof
    <2>2. Read < sent /\ Coming = 0
      BY <1>1, <1>2, <2>1, ReaderAt
    <2>3. faults # {}
      <3> SUFFICES ASSUME faults = {} PROVE FALSE
        OBVIOUS
      <3>1. sent + Added <= Read + 0
        BY <1>1, <2>2 DEF Counted
      <3> QED BY <1>n, <2>2, <3>1
    <2> QED BY <1>4, <2>1, <2>3
  <1>6. CASE FinalPeek
    <2>1. rpc = "final" /\ Read = sent /\ Len(printed) = Len(documents)
      BY <1>1, <1>6, AllRead DEF FinalPeek
    <2>2. CASE partial # <<>> /\ Abort
      <3>1. faults # {}
        <4> SUFFICES ASSUME faults = {} PROVE FALSE
          OBVIOUS
        <4>1. PICK seen \in Nat : Matching(seen) /\ Way(seen)
          BY <1>1 DEF InStep
        <4>2. PICK p, o, h, i, w, c : OnTheWay(seen, p, o, h, i, w, c)
          BY <4>1 DEF Way
        <4>3. seen = sent
          BY <1>n, <2>1, <4>1 DEF Matching
        <4>4. partial \in Seq(UpTo(sent)) /\ 1 \in 1..Len(partial)
          BY <1>1, <2>2, TokenTypes, EmptyFacts
        <4>5. partial[1] \in UpTo(sent)
          BY <4>4, ElementOfSeq
        <4>6. partial[1].line \in Nat /\ partial[1].line <= sent
          BY <1>n, <4>5 DEF UpTo
        <4>7. sent + 1 <= partial[1].line
          BY <4>2, <4>3, <4>4 DEF OnTheWay, Run, Ascending
        <4> QED BY <1>n, <4>6, <4>7
      <3> QED BY <1>4, <2>2, <3>1
    <2>3. CASE NoLine /\ rpc' = "done" /\ UNCHANGED <<childSideVars, feederVars, queue, document, doc, printed, endVars>>
      <3>0. /\ UNCHANGED <<buffer, toWrite, inPipe, inOpen, held, child, faults, outPipe, partial, cut, documents>>
            /\ UNCHANGED <<sent, content, fpc, queue, document, doc, printed, outcome, status>>
            /\ rpc' = "done" /\ child # "running"
        BY <2>3 DEF childSideVars, streamVars, childVars, readVars, feederVars, endVars, NoLine, AtEof
      <3>1. TypeOK'
        BY <1>1, <3>0 DEF TypeOK
      <3>2. Read' = Read /\ Printed' = Printed /\ Started' = Started /\ Ending' = Ending
        BY <2>1, <3>0 DEF Read, Printed, Started, LastOf, Ending
      <3>3. DocumentsAt'
        BY <1>1, <3>0, DocumentsKept
      <3>4. QueueAt'
        <4>1. \A n : InQueue(n)' = InQueue(n)
          BY <3>0, <3>2 DEF InQueue, Described
        <4>2. outcome # "exit"
          BY <1>1, <2>1 DEF QueueAt
        <4> QED BY <1>1, <2>1, <3>0, <3>2, <4>1, <4>2 DEF QueueAt
      <3>5. faults # {"extra"}
        <4> SUFFICES ASSUME faults = {"extra"} PROVE FALSE
          OBVIOUS
        <4>1. sent + 1 <= Read + 0
          BY <1>1, <1>2, <2>3 DEF Counted, Added
        <4> QED BY <1>n, <2>1, <4>1
      <3>6. EndsAt'
        BY <1>1, <3>0, <3>5 DEF EndsAt
      <3>7. TokensAt' /\ Counted'
        BY <1>1, <3>0, <3>2, TokensKept
      <3>8. InStep'
        <4> SUFFICES ASSUME "extra" \notin faults PROVE \E seen \in Nat : Matching(seen)' /\ Way(seen)'
          BY <3>0 DEF InStep
        <4>1. PICK seen \in Nat : Matching(seen) /\ Way(seen)
          BY <1>1 DEF InStep
        <4>2. Way(seen)'
          BY <3>0, <4>1, WayKept
        <4>3. \A n : Answered(n)' = Answered(n)
          BY <3>0 DEF Answered
        <4>4. Matching(seen)'
          BY <3>0, <3>2, <4>1, <4>3 DEF Matching
        <4> QED BY <4>2, <4>4
      <3>9. Innocent'
        BY <1>1, <3>0 DEF Innocent
      <3> QED BY <3>1, <3>3, <3>4, <3>6, <3>7, <3>8, <3>9 DEF B64Inv
    <2> QED BY <1>6, <2>2, <2>3 DEF FinalPeek
  <1>7. CASE Return
    <2>1. /\ UNCHANGED <<buffer, toWrite, inPipe, inOpen, held, child, faults, outPipe, partial, cut, documents>>
          /\ UNCHANGED <<sent, content, fpc, queue, rpc, document, doc, printed>>
          /\ status' = WaitStatus /\ outcome' = "exit" /\ rpc = "done" /\ fpc = "done" /\ child # "running"
      BY <1>7 DEF Return, childSideVars, streamVars, childVars, readVars, feederVars, readerVars
    <2>2. WaitStatus \in 0..255
      <3>1. child \in {"success", "failure", "killed"}
        BY <1>1, <2>1 DEF TypeOK
      <3> QED BY <3>1 DEF WaitStatus
    <2> QED BY <1>3, <2>1, <2>2
  <1> QED BY <1>5, <1>6, <1>7

-----------------------------------------------------------------------------
(* The child *)

\* What was in order with some faults is so with more.
LEMMA RunMore ==
  ASSUME NEW s, NEW first, NEW next, NEW wrong, NEW more, Run(s, first, next, wrong),
         Gaps(wrong) => Gaps(more)
  PROVE  Run(s, first, next, more)
  BY DEF Run

\* A token passes through the child.
LEMMA ChildPassesInv ==
  ASSUME B64Inv, ChildStep, ChildRead \/ ChildWrite(rpc = "done")
  PROVE  B64Inv'
  <1>0. /\ UNCHANGED <<buffer, toWrite, inOpen, child, faults, partial, cut, documents, queue, sent, content>>
        /\ UNCHANGED <<fpc, rpc, document, doc, printed, outcome, status>> /\ child = "running"
    BY DEF ChildStep, ChildRead, ChildWrite, streamVars, readVars, feederVars, readerVars, endVars
  <1>1. TypeOK /\ DocumentsAt /\ QueueAt /\ EndsAt /\ TokensAt /\ Counted /\ InStep /\ Innocent
    BY DEF B64Inv
  <1>2. DocumentsAt' /\ QueueAt' /\ Innocent' /\ EndsAt'
    <2>1. DocumentsAt' /\ QueueAt'
      BY <1>0, <1>1, DocumentsKept, QueueKept
    <2>2. Innocent'
      BY <1>0, <1>1 DEF Innocent
    <2>3. EndsAt'
      BY <1>0, <1>1 DEF EndsAt
    <2> QED BY <2>1, <2>2, <2>3
  <1>3. /\ {outPipe, held, inPipe} \subseteq Seq(UpTo(sent)) /\ {outPipe, held, inPipe} \subseteq Seq(Token)
        /\ {PipeCap, ChildCap} \subseteq Nat
        /\ Len(outPipe) <= PipeCap /\ Len(held) <= ChildCap /\ Len(inPipe) <= PipeCap
    BY <1>1, CapacityAssumption, TokenTypes DEF TypeOK
  <1>4. /\ Ends(partial) \in Nat /\ Ends(outPipe) \in Nat /\ Ends(held) \in Nat /\ Ends(inPipe) \in Nat
        /\ Ends(toWrite) \in Nat /\ Ends(buffer) \in Nat /\ Ends(content) \in Nat
    BY <1>1, ComingNat
  <1>5. /\ Coming = Ends(partial) + Ends(outPipe)
                        + (Ends(held) + Ends(inPipe) + Ends(toWrite) + Ends(buffer) + Ends(content))
        /\ Coming' = Ends(partial) + Ends(outPipe')
                        + (Ends(held') + Ends(inPipe') + Ends(toWrite) + Ends(buffer) + Ends(content))
    BY <1>0 DEF Coming
  <1>6. \A s \in Seq(UpTo(sent)) : s \in Seq(Tokens)
    BY <1>1, TokenTypes
  <1>7. CASE ChildRead
    <2>1. /\ inPipe # <<>> /\ Len(held) < ChildCap
          /\ held' = Append(held, Head(inPipe)) /\ inPipe' = Tail(inPipe) /\ outPipe' = outPipe
      BY <1>7 DEF ChildRead
    <2>2. /\ held' \in Seq(UpTo(sent)) /\ inPipe' \in Seq(UpTo(sent))
          /\ Len(held') = Len(held) + 1 /\ Len(inPipe') = Len(inPipe) - 1
          /\ Len(held) \in Nat /\ Len(inPipe) \in Nat
      BY <1>3, <2>1, ShiftTypes
    <2>3. /\ Ends(held') + Ends(inPipe') = Ends(held) + Ends(inPipe)
          /\ Ends(held') \in Nat /\ Ends(inPipe') \in Nat
      BY <1>3, <2>1, ShiftTypes
    <2>4. Len(held') <= ChildCap /\ Len(inPipe') <= PipeCap
      BY <1>3, <2>1, <2>2
    <2>5. TypeOK'
      BY <1>0, <1>1, <1>6, <2>1, <2>2, <2>4 DEF TypeOK
    <2>6. TokensAt'
      BY <1>0, <1>1, <2>1, <2>2 DEF TokensAt, Places
    <2>7. Counted'
      <3>1. Ends(outPipe') = Ends(outPipe)
        BY <2>1
      <3>2. Coming' = Coming
        BY ONLY <1>4, <1>5, <2>3, <3>1
      <3> QED BY <1>0, <1>1, <3>2, CountedKept, ReadKept
    <2>8. InStep'
      <3>1. ASSUME NEW seen \in Nat, Way(seen) PROVE Way(seen)'
        <4>1. PICK p, o, h, i, w, c : OnTheWay(seen, p, o, h, i, w, c)
          BY <3>1 DEF Way
        <4>2. PICK x : Run(held', o, x, faults) /\ Run(inPipe', x, i, faults)
          BY <1>0, <1>3, <2>1, <4>1, RunShift DEF OnTheWay
        <4>3. OnTheWay(seen, p, o, x, i, w, c)'
          BY <1>0, <2>1, <4>1, <4>2 DEF OnTheWay
        <4> QED BY <4>3 DEF Way
      <3> QED BY <1>0, <1>1, <3>1, InStepKept
    <2> QED BY <1>2, <2>5, <2>6, <2>7, <2>8 DEF B64Inv
  <1>8. CASE ChildWrite(rpc = "done")
    <2>1. /\ held # <<>> /\ Len(outPipe) < PipeCap
          /\ outPipe' = Append(outPipe, Head(held)) /\ held' = Tail(held) /\ inPipe' = inPipe
      BY <1>8 DEF ChildWrite, Answerable
    <2>2. /\ outPipe' \in Seq(UpTo(sent)) /\ held' \in Seq(UpTo(sent))
          /\ Len(outPipe') = Len(outPipe) + 1 /\ Len(held') = Len(held) - 1
          /\ Len(held) \in Nat /\ Len(outPipe) \in Nat
      BY <1>3, <2>1, ShiftTypes
    <2>3. /\ Ends(outPipe') + Ends(held') = Ends(outPipe) + Ends(held)
          /\ Ends(held') \in Nat /\ Ends(outPipe') \in Nat
      BY <1>3, <2>1, ShiftTypes
    <2>4. Len(held') <= ChildCap /\ Len(outPipe') <= PipeCap
      BY <1>3, <2>1, <2>2
    <2>5. TypeOK'
      BY <1>0, <1>1, <1>6, <2>1, <2>2, <2>4 DEF TypeOK
    <2>6. TokensAt'
      BY <1>0, <1>1, <2>1, <2>2 DEF TokensAt, Places
    <2>7. Counted'
      <3>1. Ends(inPipe') = Ends(inPipe)
        BY <2>1
      <3>2. Coming' = Coming
        BY ONLY <1>4, <1>5, <2>3, <3>1
      <3> QED BY <1>0, <1>1, <3>2, CountedKept, ReadKept
    <2>8. InStep'
      <3>1. ASSUME NEW seen \in Nat, Way(seen) PROVE Way(seen)'
        <4>1. PICK p, o, h, i, w, c : OnTheWay(seen, p, o, h, i, w, c)
          BY <3>1 DEF Way
        <4>2. PICK x : Run(outPipe', p, x, faults) /\ Run(held', x, h, faults)
          BY <1>0, <1>3, <2>1, <4>1, RunShift DEF OnTheWay
        <4>3. OnTheWay(seen, p, x, h, i, w, c)'
          BY <1>0, <2>1, <4>1, <4>2 DEF OnTheWay
        <4> QED BY <4>3 DEF Way
      <3> QED BY <1>0, <1>1, <3>1, InStepKept
    <2> QED BY <1>2, <2>5, <2>6, <2>7, <2>8 DEF B64Inv
  <1> QED BY <1>7, <1>8

\* The child ends as it should, with everything answered; the reader is not done
\* before, so that no answer meets a closed pipe.
LEMMA ChildEndsInv ==
  ASSUME B64Inv, ChildStep, ChildSigpipe(rpc = "done") \/ ChildFinish
  PROVE  B64Inv'
  <1>1. TypeOK /\ DocumentsAt /\ QueueAt /\ EndsAt /\ TokensAt /\ Counted /\ InStep /\ Innocent
    BY DEF B64Inv
  <1>2. ChildFinish
    BY <1>1 DEF EndsAt, ChildSigpipe
  <1>0. /\ UNCHANGED <<buffer, toWrite, inPipe, inOpen, held, faults, outPipe, partial, cut, documents, queue, sent>>
        /\ UNCHANGED <<content, fpc, rpc, document, doc, printed, outcome, status>>
        /\ child = "running" /\ child' = "success" /\ ~inOpen /\ held = <<>> /\ inPipe = <<>>
    BY <1>2 DEF ChildStep, ChildFinish, streamVars, readVars, feederVars, readerVars, endVars
  <1>3. fpc = "done" /\ toWrite = <<>> /\ buffer = <<>> /\ content = <<>>
    BY <1>0, <1>1 DEF EndsAt
  <1>4. TypeOK'
    BY <1>0, <1>1 DEF TypeOK
  <1>5. DocumentsAt' /\ QueueAt'
    BY <1>0, <1>1, DocumentsKept, QueueKept
  <1>6. EndsAt'
    BY <1>0, <1>1, <1>3 DEF EndsAt
  <1>7. TokensAt'
    BY <1>0, <1>1 DEF TokensAt, Places
  <1>8. Counted'
    <2>1. Coming = Ends(partial) + Ends(outPipe) + (0 + 0 + 0 + 0 + 0)
      BY <1>0, <1>3, EndsEmpty DEF Coming
    <2>2. Coming' = Ends(partial) + Ends(outPipe) + 0
      BY <1>0 DEF Coming
    <2> QED BY <1>0, <1>1, <2>1, <2>2, CountedKept, ReadKept
  <1>9. InStep'
    <2>1. ASSUME NEW seen \in Nat, Way(seen) PROVE Way(seen)'
      <3>1. PICK p, o, h, i, w, c : OnTheWay(seen, p, o, h, i, w, c)
        BY <2>1 DEF Way
      <3>2. OnTheWay(seen, p, o, h, i, w, c)'
        BY <1>0, <3>1 DEF OnTheWay
      <3> QED BY <3>2 DEF Way
    <2> QED BY <1>0, <1>1, <2>1, InStepKept
  <1>10. Innocent'
    BY <1>0, <1>1 DEF Innocent
  <1> QED BY <1>4, <1>5, <1>6, <1>7, <1>8, <1>9, <1>10 DEF B64Inv

\* The child does something wrong.
LEMMA ChildErrsInv ==
  ASSUME B64Inv, ChildStep, ChildDrop \/ ChildExtra(rpc = "done") \/ ChildFails
  PROVE  B64Inv'
  <1>0. /\ UNCHANGED <<buffer, toWrite, inOpen, partial, cut, documents, queue, sent, content>>
        /\ UNCHANGED <<fpc, rpc, document, doc, printed, outcome, status>>
        /\ child = "running" /\ faults \subseteq faults' /\ faults' # {} /\ faults' \subseteq Faults
    BY DEF B64Inv, TypeOK, ChildStep, ChildDrop, ChildExtra, ChildFails, streamVars, readVars, feederVars,
           readerVars, endVars
  <1>1. TypeOK /\ DocumentsAt /\ QueueAt /\ EndsAt /\ TokensAt /\ Counted /\ InStep
    BY DEF B64Inv
  <1>2. DocumentsAt' /\ QueueAt' /\ Innocent' /\ rpc # "done"
    BY <1>0, <1>1, DocumentsKept, QueueKept DEF Innocent, EndsAt
  <1>3. /\ {outPipe, held, inPipe} \subseteq Seq(UpTo(sent)) /\ {outPipe, held, inPipe} \subseteq Seq(Token)
        /\ {PipeCap, ChildCap} \subseteq Nat
        /\ Len(outPipe) <= PipeCap /\ Len(held) <= ChildCap /\ Len(inPipe) <= PipeCap
        /\ \A s \in Seq(UpTo(sent)) : s \in Seq(Tokens) /\ s \in Seq(Token)
    BY <1>1, CapacityAssumption, TokenTypes DEF TypeOK
  <1>4. Gaps(faults) => Gaps(faults')
    BY <1>0 DEF Gaps
  <1>5. CASE ChildDrop
    <2>1. /\ held # <<>> /\ held' = Tail(held) /\ faults' = faults \cup {"drop"}
          /\ UNCHANGED <<child, inPipe, outPipe>>
      BY <1>5 DEF ChildDrop, Answerable
    <2>2. Head(held) \in UpTo(sent) /\ held' \in Seq(UpTo(sent)) /\ Len(held') = Len(held) - 1
          /\ Len(held) \in Nat
      BY <1>3, <2>1, TailFacts
    <2>3. Len(held') <= ChildCap
      BY <1>3, <2>2
    <2>4. TypeOK'
      BY <1>0, <1>1, <1>3, <2>1, <2>2, <2>3 DEF TypeOK
    <2>5. TokensAt'
      BY <1>0, <1>1, <2>1, <2>2 DEF TokensAt, Places
    <2>6. ~(faults' \subseteq {"extra"})
      BY <2>1
    <2>7. EndsAt' /\ Counted'
      BY <1>0, <1>1, <1>2, <2>1, <2>6 DEF EndsAt, Counted
    <2>8. InStep'
      <3> SUFFICES ASSUME "extra" \notin faults' PROVE \E seen \in Nat : Matching(seen)' /\ Way(seen)'
        BY DEF InStep
      <3>1. PICK seen \in Nat : Matching(seen) /\ Way(seen)
        BY <1>0, <1>1 DEF InStep
      <3>2. PICK p, o, h, i, w, c : OnTheWay(seen, p, o, h, i, w, c)
        BY <3>1 DEF Way
      <3>3. Matching(seen)'
        BY <1>0, <1>4, <3>1, MatchingKept
      <3>4. Run(held', o, h, faults')
        <4>1. held \in Seq(Token) /\ held' \in Seq(Token) /\ Run(held, o, h, faults)
          BY <1>0, <1>3, <2>2, <3>2 DEF OnTheWay
        <4>2. PICK head \in Token : head = Head(held)
          BY <2>1, <4>1, TailFacts
        <4>3. o <= head.line /\ Run(held', After(head), h, faults) /\ o \in Nat
          BY <2>1, <4>1, <4>2, RunTail DEF Run, Ascending
        <4>4. head.line \in Nat /\ (After(head) = head.line \/ After(head) = head.line + 1)
          BY <4>2, AfterFacts DEF After
        <4>5. o <= After(head)
          BY <4>3, <4>4
        <4>6. Gaps(faults')
          BY <2>1 DEF Gaps
        <4> QED BY <4>1, <4>3, <4>5, <4>6, RunEarlier
      <3>5. /\ Run(partial, seen + 1, p, faults') /\ Run(outPipe, p, o, faults')
            /\ Run(inPipe, h, i, faults') /\ Run(toWrite, i, w, faults')
            /\ Run(buffer, w, c, faults') /\ Run(content, c, sent + 1, faults')
        BY <1>0, <1>4, <3>2, RunMore DEF OnTheWay
      <3>6. OnTheWay(seen, p, o, h, i, w, c)'
        BY <1>0, <1>4, <2>1, <3>2, <3>4, <3>5 DEF OnTheWay
      <3> QED BY <3>3, <3>6 DEF Way
    <2> QED BY <1>2, <2>4, <2>5, <2>7, <2>8 DEF B64Inv
  <1>6. CASE ChildExtra(rpc = "done")
    <2>1. /\ Len(outPipe) < PipeCap /\ outPipe' = Append(outPipe, Eol(0)) /\ faults' = faults \cup {"extra"}
          /\ "extra" \notin faults
          /\ UNCHANGED <<child, inPipe, held>>
      BY <1>6 DEF ChildExtra
    <2>2. Eol(0) \in UpTo(sent) /\ Eol(0).eol
      <3>1. 0 \in 0..sent
        BY <1>1, Types
      <3> QED BY <3>1 DEF Eol, UpTo
    <2>3. outPipe' \in Seq(UpTo(sent)) /\ Len(outPipe') = Len(outPipe) + 1 /\ Len(outPipe) \in Nat
      BY <1>3, <2>1, <2>2, AppendFacts
    <2>4. Len(outPipe') <= PipeCap
      BY <1>3, <2>1, <2>3
    <2>5. TypeOK'
      BY <1>0, <1>1, <1>3, <2>1, <2>3, <2>4 DEF TypeOK
    <2>6. TokensAt'
      BY <1>0, <1>1, <2>1, <2>3 DEF TokensAt, Places
    <2>7. EndsAt'
      BY <1>0, <1>1, <1>2, <2>1 DEF EndsAt
    <2>8. Counted'
      <3> SUFFICES ASSUME faults' \subseteq {"extra"} PROVE sent + 1 <= Read + Coming'
        BY <1>0, <2>1, ReadKept DEF Counted, Added
      <3>1. faults \subseteq {"extra"} /\ Added = 0
        BY <2>1 DEF Added
      <3>2. sent + 0 <= Read + Coming
        BY <1>1, <3>1 DEF Counted
      <3>3. PICK rest : rest = Ends(held) + Ends(inPipe) + Ends(toWrite) + Ends(buffer) + Ends(content)
        OBVIOUS
      <3>4. Coming = Ends(partial) + Ends(outPipe) + rest
        BY <1>0, <3>3 DEF Coming
      <3>5. Coming' = Ends(partial) + Ends(outPipe') + rest
        BY <1>0, <2>1, <3>3 DEF Coming
      <3>6. Ends(outPipe') = Ends(outPipe) + 1
        BY <1>3, <2>1, <2>2, EndsAppend
      <3>7. Ends(partial) \in Nat /\ Ends(outPipe) \in Nat /\ rest \in Nat
        BY <1>1, <3>3, ComingNat
      <3>8. PICK a \in Nat : a = Coming /\ Coming' = a + 1
        BY ONLY <3>4, <3>5, <3>6, <3>7
      <3>9. sent \in Nat /\ Read \in Nat
        BY <1>1, Types, ReaderAt
      <3>10. sent + 1 <= Read + (a + 1)
        BY ONLY <3>2, <3>8, <3>9
      <3> QED BY ONLY <3>8, <3>10
    <2>9. InStep'
      BY <2>1 DEF InStep
    <2> QED BY <1>2, <2>5, <2>6, <2>7, <2>8, <2>9 DEF B64Inv
  <1>7. CASE ChildFails
    <2>1. /\ child' \in {"success", "failure", "killed"} /\ held' = <<>> /\ inPipe' = <<>>
          /\ outPipe' = outPipe
      BY <1>7 DEF ChildFails
    <2>2. held' \in Seq(UpTo(sent)) /\ inPipe' \in Seq(UpTo(sent)) /\ Len(held') = 0 /\ Len(inPipe') = 0
      BY <1>3, <2>1, EmptyFacts
    <2>3. Len(held') <= ChildCap /\ Len(inPipe') <= PipeCap
      BY <1>3, <2>2
    <2>4. TypeOK'
      BY <1>0, <1>1, <1>3, <2>1, <2>2, <2>3 DEF TypeOK
    <2>5. TokensAt'
      BY <1>0, <1>1, <2>1, <2>2 DEF TokensAt, Places
    <2>6. ~(faults' \subseteq {"extra"})
      BY <1>7 DEF ChildFails
    <2>7. EndsAt' /\ Counted'
      BY <1>0, <1>1, <1>2, <2>1, <2>6 DEF EndsAt, Counted
    <2>8. InStep'
      <3> SUFFICES ASSUME "extra" \notin faults' PROVE \E seen \in Nat : Matching(seen)' /\ Way(seen)'
        BY DEF InStep
      <3>1. PICK seen \in Nat : Matching(seen) /\ Way(seen)
        BY <1>0, <1>1 DEF InStep
      <3>2. PICK p, o, h, i, w, c : OnTheWay(seen, p, o, h, i, w, c)
        BY <3>1 DEF Way
      <3>3. Matching(seen)'
        BY <1>0, <1>4, <3>1, MatchingKept
      <3>4. Run(partial, seen + 1, p, faults') /\ Run(outPipe, p, o, faults')
        BY <1>4, <3>2, RunMore DEF OnTheWay
      <3>5. OnTheWay(seen, p, o, h, i, w, c)'
        BY <1>0, <1>4, <2>1, <3>2, <3>4 DEF OnTheWay
      <3> QED BY <3>3, <3>5 DEF Way
    <2> QED BY <1>2, <2>4, <2>5, <2>7, <2>8 DEF B64Inv
  <1> QED BY <1>5, <1>6, <1>7

-----------------------------------------------------------------------------
(* Answers read in part *)

\* The feeder closes the pipe when nothing is left to be written to it, and
\* writes whole lines.
ClosedAt ==
    /\ fpc = "close" => buffer = <<>>
    /\ fpc = "done" => buffer = <<>> /\ toWrite = <<>>
    /\ ~inOpen => fpc = "done"
    /\ fpc = "send" => Whole(content)

CutAt == CutInv(rpc = "done", FALSE) /\ ClosedAt

LEMMA CutTokens ==
  ASSUME TypeOK
  PROVE  WayOfTokens /\ sent \in Nat
  <1>1. sent \in Nat
    BY Types
  <1> QED BY <1>1, TokensOfLines DEF WayOfTokens, TypeOK

LEMMA CutInit ==
  Init => CutAt
  <1> SUFFICES ASSUME Init PROVE CutAt
    OBVIOUS
  <1> USE DEF Init, ChildInit
  <1>1. Whole(<<>>)
    BY DEF Whole
  <1> QED BY <1>1 DEF CutAt, CutInv, CutIsLast, WholeWay, ClosedAt

LEMMA CutFeeder ==
  ASSUME TypeOK, CutAt, Feeder
  PROVE  CutAt'
  <1>0. WayOfTokens /\ sent \in Nat
    BY CutTokens
  <1>1. PICK closed : closed \in BOOLEAN /\ (closed <=> rpc = "done")
    OBVIOUS
  <1>2. rpc' = rpc
    BY DEF Feeder, ReadDocument, SendDocument, FeederEof, FeederFlush, FeederClose, FeederPush,
           FeederBroken, readerVars
  <1>3. CASE SendDocument
    <2>1. /\ fpc = "send" /\ toWrite = <<>> /\ StreamWrite(content) /\ fpc' = "next"
          /\ UNCHANGED <<inPipe, inOpen, held, child, faults, outPipe, partial, cut>>
      BY <1>3 DEF SendDocument, childVars, readVars
    <2>2. CutInv(closed, FALSE) /\ inOpen /\ Whole(content)
      BY <1>1, <2>1 DEF CutAt, ClosedAt
    <2>3. content \in Seq(Token)
      BY TokensOfLines DEF TypeOK
    <2>4. CutInv(closed, FALSE)'
      BY <1>0, <2>1, <2>2, <2>3, CutWrite
    <2> QED BY <1>1, <1>2, <2>1, <2>2, <2>4 DEF CutAt, CutInv, ClosedAt
  <1>4. ASSUME NEW n \in 0..MaxDocLines, NEW rest \in BOOLEAN, NEW p \in 0..MaxParts, NEW back \in BackOfEmpty,
               ReadDocument(n, rest, p, back)
        PROVE  CutAt'
    <2>1. /\ fpc = "next" /\ fpc' = "send" /\ content' = DocTokens(LineCount(n, rest, back), p)
          /\ UNCHANGED <<buffer, toWrite, inPipe, inOpen, held, child, faults, outPipe, partial, cut>>
      BY <1>4 DEF ReadDocument, childSideVars, streamVars, childVars, readVars
    <2>2. p \in Nat /\ n \in Nat
      BY DocBoundsAssumption
    <2>3. LineCount(n, rest, back) \in Nat
      BY <2>2 DEF LineCount
    <2>4. Whole(content')
      BY <1>0, <2>1, <2>2, <2>3, DocTokensWhole
    <2>5. ClosedAt'
      BY <2>1, <2>4 DEF CutAt, ClosedAt
    <2> QED BY <1>2, <2>1, <2>5 DEF CutAt, CutInv, CutIsLast, NoLine, AtEof, WholeWay
  <1>5. CASE FeederFlush
    <2>1. /\ fpc = "flush" /\ toWrite = <<>> /\ StreamFlush /\ fpc' = "close"
          /\ UNCHANGED <<inPipe, inOpen, held, child, faults, outPipe, partial, cut>>
      BY <1>5 DEF FeederFlush, childVars, readVars
    <2>2. CutInv(closed, FALSE) /\ inOpen
      BY <1>1, <2>1 DEF CutAt, ClosedAt
    <2>3. CutInv(closed, FALSE)' /\ buffer' = <<>>
      BY <2>1, <2>2, CutFlush DEF StreamFlush
    <2> QED BY <1>1, <1>2, <2>1, <2>2, <2>3 DEF CutAt, CutInv, ClosedAt
  <1>6. CASE FeederEof \/ FeederClose \/ FeederBroken
    <2>1. /\ UNCHANGED <<buffer, toWrite, inPipe, held, child, faults, outPipe, partial, cut>>
          /\ content' = content /\ (fpc' = fpc \/ fpc' \in {"flush", "done"})
      BY <1>6 DEF FeederEof, FeederClose, FeederBroken, childSideVars, streamVars, childVars,
                  readVars, feederVars
    <2>2. ClosedAt' /\ (~inOpen' => buffer = <<>> /\ toWrite = <<>>)
      BY <1>6 DEF CutAt, FeederEof, FeederClose, FeederBroken, childSideVars, streamVars,
                  childVars, readVars, feederVars, ClosedAt
    <2> QED BY <1>2, <2>1, <2>2 DEF CutAt, CutInv, CutIsLast, NoLine, AtEof, WholeWay
  <1>7. CASE FeederPush
    <2>1. Push /\ fpc' = fpc /\ content' = content /\ buffer' = buffer /\ inOpen' = inOpen /\ toWrite # <<>>
      BY <1>7 DEF FeederPush, Push, feederVars
    <2>2. ClosedAt'
      BY <2>1 DEF CutAt, ClosedAt
    <2>3. PICK amid : amid \in BOOLEAN /\ (amid <=> FALSE)
      OBVIOUS
    <2>4. CutInv(closed, amid)
      BY <1>1, <2>3 DEF CutAt, CutInv
    <2>5. CutInv(closed, amid)'
      BY <1>0, <2>1, <2>4, CutPush
    <2> QED BY <1>1, <1>2, <2>1, <2>2, <2>3, <2>5 DEF CutAt, CutInv
  <1> QED BY <1>3, <1>4, <1>5, <1>6, <1>7 DEF Feeder

LEMMA CutReader ==
  ASSUME TypeOK, CutAt, Reader
  PROVE  CutAt' /\ (AppendLine => cut' \subseteq {LineRead})
  <1>0. WayOfTokens
    BY CutTokens
  <1>1. PICK amid : amid \in BOOLEAN /\ (amid <=> FALSE)
    OBVIOUS
  <1>2. fpc' = fpc /\ UNCHANGED <<buffer, toWrite, inOpen, content>> /\ ClosedAt'
    <2>1. fpc' = fpc /\ UNCHANGED <<buffer, toWrite, inOpen, content>>
      BY DEF Reader, ConsumeDescription, ReaderReads, ReadMore, AppendLine, ReaderEof, FinalPeek,
             Return, Abort, childSideVars, streamVars, feederVars
    <2> QED BY <2>1 DEF CutAt, ClosedAt
  <1>3. CASE ReaderReads
    <2>1. ReadMore /\ rpc # "done" /\ rpc' = rpc
      BY <1>3 DEF ReaderReads, readerVars
    <2>2. CutInv(FALSE, amid)
      BY <1>1, <2>1 DEF CutAt, CutInv
    <2>3. CutInv(FALSE, amid)'
      BY <1>0, <2>1, <2>2, CutReadMore
    <2>4. CutAt'
      BY <1>1, <1>2, <2>1, <2>3 DEF CutAt, CutInv
    <2> QED BY <2>1, <2>4 DEF AppendLine, ReadMore, AtEof, LineReady, TakeLine
  <1>4. CASE AppendLine
    <2>1. /\ TakeLine /\ rpc # "done" /\ rpc' # "done"
          /\ UNCHANGED <<buffer, toWrite, inPipe, inOpen, held, child, faults, outPipe>>
      BY <1>4 DEF AppendLine, streamVars, childVars
    <2>2. CutInv(FALSE, amid)
      BY <1>1, <2>1 DEF CutAt, CutInv
    <2>3. CutInv(FALSE, amid)' /\ cut' \subseteq {LineRead}
      BY <1>0, <2>1, <2>2, CutTake
    <2> QED BY <1>1, <1>2, <2>1, <2>3 DEF CutAt, CutInv
  <1>5. CASE ConsumeDescription \/ ReaderEof \/ FinalPeek \/ Return
    <2>1. /\ UNCHANGED <<buffer, toWrite, inPipe, inOpen, held, child, faults, outPipe, partial, cut>>
          /\ rpc = "done" => rpc' = "done"
      BY <1>5 DEF ConsumeDescription, ReaderEof, FinalPeek, Return, Abort, childSideVars,
                  streamVars, childVars, readVars, readerVars
    <2>2. CutAt'
      BY <1>2, <2>1 DEF CutAt, CutInv, CutIsLast, NoLine, AtEof, WholeWay
    <2>3. AppendLine => cut' \subseteq {LineRead}
      BY <2>1 DEF AppendLine, TakeLine, LineReady
    <2> QED BY <2>2, <2>3
  <1> QED BY <1>3, <1>4, <1>5 DEF Reader

LEMMA CutChildStep ==
  ASSUME TypeOK, CutAt, ChildStep
  PROVE  CutAt'
  <1>0. WayOfTokens
    BY CutTokens
  <1>1. PICK closed, amid : /\ closed \in BOOLEAN /\ (closed <=> rpc = "done")
                            /\ amid \in BOOLEAN /\ (amid <=> FALSE)
    OBVIOUS
  <1>2. Child(closed) /\ UNCHANGED <<fpc, rpc, buffer, toWrite, inOpen, content>>
    <2>1. closed = (rpc = "done")
      BY <1>1
    <2> QED BY <2>1 DEF ChildStep, Child, ChildRead, ChildWrite, ChildSigpipe, ChildFinish, ChildDrop, ChildExtra,
           ChildFails, streamVars, feederVars, readerVars
  <1>3. CutInv(closed, amid)
    BY <1>1 DEF CutAt, CutInv
  <1>4. CutInv(closed, amid)'
    BY <1>0, <1>2, <1>3, CutChild
  <1> QED BY <1>1, <1>2, <1>4 DEF CutAt, CutInv, ClosedAt

\* A step of the program, for the answers that end too early.
LEMMA CutStep ==
  ASSUME TypeOK, CutAt, [Next]_vars
  PROVE  CutAt' /\ (Reader /\ AppendLine => cut' \subseteq {LineRead})
  <1>1. Reader => cut' \subseteq {LineRead} \/ ~AppendLine
    BY CutReader
  <1>2. CASE UNCHANGED vars
    <2>1. UNCHANGED <<buffer, toWrite, inPipe, inOpen, held, child, faults, outPipe, partial, cut, fpc, rpc, content>>
      BY <1>2 DEF vars, childSideVars, streamVars, childVars, readVars, feederVars, readerVars
    <2>2. CutAt'
      BY <2>1 DEF CutAt, CutInv, CutIsLast, NoLine, AtEof, WholeWay, ClosedAt
    <2> QED BY <1>1, <2>2
  <1> QED BY <1>1, <1>2, CutFeeder, CutReader, CutChildStep DEF Next

-----------------------------------------------------------------------------
(* The theorem *)

LEMMA InvImpliesSafety ==
  B64Inv /\ CutAt => Safety
  <1> SUFFICES ASSUME B64Inv, CutAt PROVE Safety
    OBVIOUS
  <1>1. TypeOK /\ DocumentsAt /\ QueueAt /\ EndsAt /\ TokensAt /\ Counted /\ InStep /\ Innocent
    BY DEF B64Inv
  <1>2. DocumentsMatch
    BY <1>1 DEF DocumentsMatch, InStep, Matching, Gaps
  <1>3. ZeroMeansComplete
    <2> SUFFICES ASSUME outcome = "exit", "extra" \in faults => faults = {"extra"}
                 PROVE  /\ Len(printed) = Len(documents)
                        /\ \A n \in 1..Len(printed) : printed[n] = Answered(n)
                        /\ cut \subseteq {sent}
      BY DEF ZeroMeansComplete, CutAt, CutInv
    <2>1. rpc = "done" /\ "extra" \notin faults
      BY <1>1 DEF QueueAt, EndsAt
    <2>2. Read = sent /\ Len(printed) = Len(documents) /\ sent \in Nat
      BY <1>1, <2>1, AllRead, Types
    <2>3. PICK seen \in Nat : Matching(seen) /\ cut \subseteq {seen}
      BY <1>1, <2>1 DEF InStep, Way, OnTheWay
    <2>4. seen = Read
      BY <2>2, <2>3 DEF Matching
    <2> QED BY <2>2, <2>3, <2>4 DEF Matching
  <1>4. NoSpuriousError
    BY <1>1 DEF NoSpuriousError, Innocent
  <1> QED BY <1>1, <1>2, <1>3, <1>4 DEF Safety, VerdictRight

\* For documents of every number and size, the empty ones included, and whatever
\* the child does wrong, if only back() of an empty string is no newline (what
\* it is, the language does not say): b64filter_main.cc prints no document with other answers
\* than its own or another end unless an answer was left out or added, never
\* returns without having printed every document right, also if the child has
\* added an answer and done nothing else wrong, and never accuses a child that
\* does nothing wrong.  Only the very last answer may lack its end, and only if
\* the child stopped or left an answer out.
THEOREM B64Safety ==
  ASSUME BackOfEmpty = {FALSE}
  PROVE  Spec => []Safety
  <1>1. Init => B64Inv /\ CutAt
    BY InitInv, CutInit
  <1>4. B64Inv /\ CutAt /\ [Next]_vars => CutAt' /\ (Reader /\ AppendLine => cut' \subseteq {LineRead})
    BY CutStep DEF B64Inv
  <1>2. B64Inv /\ CutAt /\ [Next]_vars => B64Inv'
    <2> SUFFICES ASSUME B64Inv, CutAt, [Next]_vars PROVE B64Inv'
      OBVIOUS
    <2>1. ASSUME NEW n \in 0..MaxDocLines, NEW rest \in BOOLEAN, NEW p \in 0..MaxParts,
                 NEW back \in BackOfEmpty, ReadDocument(n, rest, p, back)
          PROVE  B64Inv'
      <3>1. back = FALSE
        OBVIOUS
      <3> QED BY <2>1, <3>1, ReadDocumentInv
    <2>2. CASE SendDocument
      BY <2>2, SendDocumentInv
    <2>3. CASE FeederEof
      BY <2>3, FeederEofInv
    <2>4. CASE FeederFlush
      BY <2>4, FeederFlushInv
    <2>5. CASE FeederClose
      BY <2>5, FeederCloseInv
    <2>6. CASE FeederPush \/ FeederBroken
      BY <2>6, FeederPushInv
    <2>7. CASE ConsumeDescription
      BY <2>7, ConsumeDescriptionInv
    <2>8. CASE ReaderReads
      BY <2>8, ReaderReadsInv
    <2>9. CASE Reader /\ AppendLine
      BY <1>4, <2>9, AppendLineInv
    <2>10. CASE ReaderEof \/ FinalPeek \/ Return
      BY <2>10, ReaderEndsInv
    <2>11. CASE ChildStep
      <3>1. \/ ChildRead \/ ChildWrite(rpc = "done")
            \/ ChildSigpipe(rpc = "done") \/ ChildFinish
            \/ ChildDrop \/ ChildExtra(rpc = "done") \/ ChildFails
        BY <2>11 DEF ChildStep, Child
      <3> QED BY <2>11, <3>1, ChildPassesInv, ChildEndsInv, ChildErrsInv
    <2>12. CASE UNCHANGED vars
      <3>0. /\ UNCHANGED <<buffer, toWrite, inPipe, inOpen, held, child, faults, outPipe, partial, cut>>
            /\ UNCHANGED <<documents, queue, sent, content, fpc, rpc, document, doc, printed>>
            /\ UNCHANGED <<outcome, status>>
        BY <2>12 DEF vars, childSideVars, streamVars, childVars, readVars, feederVars, readerVars, endVars
      <3>1. TypeOK' /\ Innocent'
        BY <3>0 DEF B64Inv, TypeOK, Innocent
      <3>2. DocumentsAt' /\ QueueAt'
        BY <3>0, DocumentsKept, QueueKept DEF B64Inv
      <3>3. EndsAt'
        BY <3>0 DEF B64Inv, EndsAt
      <3>4. Read' = Read
        BY <3>0, ReadKept
      <3>5. TokensAt' /\ Counted'
        BY <3>0, <3>4, TokensKept DEF B64Inv
      <3>6. InStep'
        BY <3>0, WayKept, InStepKept DEF B64Inv
      <3> QED BY <3>1, <3>2, <3>3, <3>5, <3>6 DEF B64Inv
    <2> QED BY <2>1, <2>2, <2>3, <2>4, <2>5, <2>6, <2>7, <2>8, <2>9, <2>10, <2>11, <2>12
          DEF Next, Feeder, Reader
  <1>3. B64Inv /\ CutAt => Safety
    BY InvImpliesSafety
  <1> QED BY <1>1, <1>2, <1>3, <1>4, PTL DEF Spec
=============================================================================
