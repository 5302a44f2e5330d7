------------------------ MODULE CaptiveChild_proofs ------------------------
(***************************************************************************)
(* Lemmas about the way of a line from the feeder's FileStream through the *)
(* pipes and the child to the reader's FilePiece, which cache, foldfilter  *)
(* and b64filter share.                                                    *)
(***************************************************************************)
EXTENDS CaptiveChild, SequenceTheorems, FunctionTheorems, FiniteSetTheorems, TLAPS

\* The line to which the token behind this one belongs.
After(token) == IF token.eol THEN token.line + 1 ELSE token.line

Token == [line : Nat, eol : BOOLEAN]

\* The tokens of T are those of the lines from first on, each line up to its
\* end of line before the next one, and the token behind T belongs to next.
Gapless(T, first, next) ==
    /\ Len(T) > 0 => T[1].line = first
    /\ \A i \in 1..(Len(T) - 1) : T[i + 1].line = After(T[i])
    /\ next = IF Len(T) = 0 THEN first ELSE After(T[Len(T)])

\* The lines of T do not come before first nor reach next, and do not go back.
Ascending(T, first, next) ==
    /\ first \in Nat /\ next \in Nat /\ first <= next
    /\ \A i \in 1..Len(T) : first <= T[i].line /\ After(T[i]) <= next
    /\ \A i, j \in 1..Len(T) : i < j => After(T[i]) <= T[j].line

\* The lines of T.  A child that has left out an answer, which is among the
\* faults then, has made a gap or run two lines together.
Gaps(wrong) == "drop" \in wrong
Run(T, first, next, wrong) == Ascending(T, first, next) /\ (Gaps(wrong) \/ Gapless(T, first, next))

-----------------------------------------------------------------------------
(* Sequences, with the facts about them that the steps below need *)

LEMMA AppendFacts ==
  ASSUME NEW S, NEW s \in Seq(S), NEW x \in S
  PROVE  /\ Append(s, x) \in Seq(S)
         /\ Len(s) \in Nat /\ Len(Append(s, x)) = Len(s) + 1
         /\ \A i \in 1..Len(s) : Append(s, x)[i] = s[i]
         /\ Append(s, x)[Len(s) + 1] = x
  OBVIOUS

LEMMA TailFacts ==
  ASSUME NEW S, NEW s \in Seq(S), s # <<>>
  PROVE  /\ Tail(s) \in Seq(S) /\ Head(s) \in S /\ Head(s) = s[1]
         /\ Len(s) \in Nat \ {0} /\ Len(Tail(s)) = Len(s) - 1
         /\ \A i \in 1..(Len(s) - 1) : Tail(s)[i] = s[i + 1]
  <1>1. Len(s) \in Nat \ {0} /\ Head(s) = s[1] /\ 1 \in 1..Len(s)
    OBVIOUS
  <1>2. s[1] \in S
    BY <1>1, ElementOfSeq
  <1>3. Tail(s) \in Seq(S) /\ Len(Tail(s)) = Len(s) - 1
        /\ \A i \in 1..(Len(s) - 1) : Tail(s)[i] = s[i + 1]
    OBVIOUS
  <1> QED BY <1>1, <1>2, <1>3

LEMMA ConcatFacts ==
  ASSUME NEW S, NEW s \in Seq(S), NEW t \in Seq(S)
  PROVE  /\ s \o t \in Seq(S)
         /\ Len(s) \in Nat /\ Len(t) \in Nat /\ Len(s \o t) = Len(s) + Len(t)
         /\ \A i \in 1..Len(s) : (s \o t)[i] = s[i]
         /\ \A i \in 1..Len(t) : (s \o t)[Len(s) + i] = t[i]
  <1>1. Len(s) \in Nat /\ Len(t) \in Nat
    OBVIOUS
  <1>2. /\ s \o t \in Seq(S) /\ Len(s \o t) = Len(s) + Len(t)
        /\ \A i \in 1..(Len(s) + Len(t)) : (s \o t)[i] = IF i <= Len(s) THEN s[i] ELSE t[i - Len(s)]
    BY ConcatProperties
  <1>3. \A i \in 1..Len(s) : (s \o t)[i] = s[i]
    BY <1>1, <1>2
  <1>4. \A i \in 1..Len(t) : (s \o t)[Len(s) + i] = t[i]
    <2> SUFFICES ASSUME NEW i \in 1..Len(t) PROVE (s \o t)[Len(s) + i] = t[i]
      OBVIOUS
    <2>1. Len(s) + i \in 1..(Len(s) + Len(t)) /\ ~(Len(s) + i <= Len(s)) /\ Len(s) + i - Len(s) = i
      BY <1>1
    <2> QED BY <1>2, <2>1
  <1> QED BY <1>1, <1>2, <1>3, <1>4

LEMMA EmptyFacts ==
  ASSUME NEW S, NEW s \in Seq(S)
  PROVE  /\ <<>> \in Seq(S) /\ Len(<<>>) = 0
         /\ (s = <<>> <=> Len(s) = 0) /\ Len(s) \in Nat
  BY EmptySeq

-----------------------------------------------------------------------------
(* Lines without a gap *)

LEMMA EmptyGapless ==
  ASSUME NEW first
  PROVE  Gapless(<<>>, first, first)
  <1>1. Len(<<>>) = 0
    OBVIOUS
  <1> QED BY <1>1 DEF Gapless

\* A line that starts, or goes on, at the end of the run.
LEMMA GaplessAppend ==
  ASSUME NEW S, NEW s \in Seq(S), NEW x \in S, NEW first, NEW next,
         Gapless(s, first, next), x.line = next
  PROVE  Gapless(Append(s, x), first, After(x))
  <1> DEFINE t == Append(s, x)
  <1>1. /\ Len(s) \in Nat /\ Len(t) = Len(s) + 1
        /\ \A i \in 1..Len(s) : t[i] = s[i]
        /\ t[Len(s) + 1] = x
    BY AppendFacts
  <1> HIDE DEF t
  <1>2. t[1].line = first
    BY <1>1 DEF Gapless
  <1>3. \A i \in 1..(Len(t) - 1) : t[i + 1].line = After(t[i])
    <2> SUFFICES ASSUME NEW i \in 1..(Len(t) - 1) PROVE t[i + 1].line = After(t[i])
      OBVIOUS
    <2>1. CASE i = Len(s)
      BY <1>1, <2>1 DEF Gapless
    <2>2. CASE i # Len(s)
      <3>1. i \in 1..(Len(s) - 1) /\ i \in 1..Len(s) /\ i + 1 \in 1..Len(s)
        BY <1>1, <2>2
      <3> QED BY <1>1, <3>1 DEF Gapless
    <2> QED BY <2>1, <2>2
  <1>4. Gapless(t, first, After(x))
    BY <1>1, <1>2, <1>3 DEF Gapless
  <1> QED BY <1>4 DEF t

\* The first token of a run, and the run without it.
LEMMA GaplessTail ==
  ASSUME NEW S, NEW s \in Seq(S), s # <<>>, NEW first, NEW next, Gapless(s, first, next)
  PROVE  /\ Head(s).line = first
         /\ Gapless(Tail(s), After(Head(s)), next)
  <1> DEFINE t == Tail(s)
             h == Head(s)
  <1>1. /\ h = s[1] /\ Len(s) \in Nat \ {0} /\ Len(t) = Len(s) - 1
        /\ \A i \in 1..(Len(s) - 1) : t[i] = s[i + 1]
    BY TailFacts
  <1> HIDE DEF t, h
  <1>2. Len(t) > 0 => t[1].line = After(h)
    BY <1>1 DEF Gapless
  <1>3. \A i \in 1..(Len(t) - 1) : t[i + 1].line = After(t[i])
    <2> SUFFICES ASSUME NEW i \in 1..(Len(t) - 1) PROVE t[i + 1].line = After(t[i])
      OBVIOUS
    <2>1. i \in 1..(Len(s) - 1) /\ i + 1 \in 1..(Len(s) - 1) /\ (i + 1) + 1 \in Int
      BY <1>1
    <2>2. s[(i + 1) + 1].line = After(s[i + 1])
      BY <2>1 DEF Gapless
    <2> QED BY <1>1, <2>1, <2>2
  <1>4. next = IF Len(t) = 0 THEN After(h) ELSE After(t[Len(t)])
    BY <1>1 DEF Gapless
  <1>5. h.line = first
    BY <1>1 DEF Gapless
  <1>6. Gapless(t, After(h), next)
    BY <1>2, <1>3, <1>4 DEF Gapless
  <1> QED BY <1>5, <1>6 DEF t, h

\* One behind another.
LEMMA GaplessConcat ==
  ASSUME NEW S, NEW s \in Seq(S), NEW t \in Seq(S), NEW first, NEW middle, NEW next,
         Gapless(s, first, middle), Gapless(t, middle, next)
  PROVE  Gapless(s \o t, first, next)
  <1> DEFINE u == s \o t
  <1>1. /\ Len(s) \in Nat /\ Len(t) \in Nat /\ Len(u) = Len(s) + Len(t)
        /\ \A i \in 1..Len(s) : u[i] = s[i]
        /\ \A i \in 1..Len(t) : u[Len(s) + i] = t[i]
    BY ConcatFacts
  <1> HIDE DEF u
  <1>2. Len(u) > 0 => u[1].line = first
    <2>1. CASE Len(s) = 0
      <3>1. Len(u) > 0 => u[1] = t[1] /\ Len(t) > 0
        BY <1>1, <2>1
      <3> QED BY <2>1, <3>1 DEF Gapless
    <2>2. CASE Len(s) # 0
      BY <1>1, <2>2 DEF Gapless
    <2> QED BY <2>1, <2>2
  <1>3. \A i \in 1..(Len(u) - 1) : u[i + 1].line = After(u[i])
    <2> SUFFICES ASSUME NEW i \in 1..(Len(u) - 1) PROVE u[i + 1].line = After(u[i])
      OBVIOUS
    <2>1. CASE i < Len(s)
      <3>1. i \in 1..(Len(s) - 1) /\ i \in 1..Len(s) /\ i + 1 \in 1..Len(s)
        BY <1>1, <2>1
      <3> QED BY <1>1, <3>1 DEF Gapless
    <2>2. CASE i = Len(s)
      <3>1. i \in 1..Len(s) /\ 1 \in 1..Len(t) /\ i + 1 = Len(s) + 1 /\ Len(t) > 0 /\ Len(s) # 0
        BY <1>1, <2>2
      <3>2. u[i] = s[Len(s)] /\ u[i + 1] = t[1]
        BY <1>1, <2>2, <3>1
      <3> QED BY <3>1, <3>2 DEF Gapless
    <2>3. CASE i > Len(s)
      <3> DEFINE j == i - Len(s)
      <3>2. j \in 1..(Len(t) - 1) /\ j \in 1..Len(t) /\ j + 1 \in 1..Len(t)
            /\ i = Len(s) + j /\ i + 1 = Len(s) + (j + 1)
        BY <1>1, <2>3
      <3> HIDE DEF j
      <3>3. u[i] = t[j] /\ u[i + 1] = t[j + 1]
        BY <1>1, <3>2
      <3> QED BY <3>2, <3>3 DEF Gapless
    <2> QED BY <1>1, <2>1, <2>2, <2>3
  <1>4. next = IF Len(u) = 0 THEN first ELSE After(u[Len(u)])
    <2>1. CASE Len(t) = 0
      <3>1. Len(u) = Len(s) /\ middle = next /\ (Len(s) # 0 => Len(s) \in 1..Len(s))
        BY <1>1, <2>1 DEF Gapless
      <3> QED BY <1>1, <3>1 DEF Gapless
    <2>2. CASE Len(t) # 0
      <3>1. Len(t) \in 1..Len(t) /\ Len(u) # 0 /\ Len(u) = Len(s) + Len(t)
        BY <1>1, <2>2
      <3> QED BY <1>1, <2>2, <3>1 DEF Gapless
    <2> QED BY <2>1, <2>2
  <1>5. Gapless(u, first, next)
    BY <1>2, <1>3, <1>4 DEF Gapless
  <1> QED BY <1>5 DEF u

\* The parts of one line.
LEMMA GaplessParts ==
  ASSUME NEW S, NEW line, NEW n \in Nat, Part(line) \in S
  PROVE  /\ Parts(line, n) \in Seq(S) /\ Len(Parts(line, n)) = n
         /\ \A i \in 1..n : Parts(line, n)[i] = Part(line)
         /\ Gapless(Parts(line, n), line, line)
  <1> DEFINE p == Parts(line, n)
             x == Part(line)
  <1>1. p \in Seq(S) /\ Len(p) = n /\ \A i \in 1..n : p[i] = x
    <2>1. p \in [1..n -> S] /\ \A i \in 1..n : p[i] = x
      BY DEF Parts
    <2> HIDE DEF p, x
    <2>2. p \in Seq(S)
      BY <2>1, SeqDef
    <2>3. Len(p) = n
      BY <2>1, <2>2, LenProperties
    <2> QED BY <2>1, <2>2, <2>3
  <1>2. x.line = line /\ After(x) = line
    BY DEF Part, After
  <1> HIDE DEF p, x
  <1>3. Gapless(p, line, line)
    BY <1>1, <1>2 DEF Gapless
  <1> QED BY <1>1, <1>3 DEF p, x

-----------------------------------------------------------------------------
(* Lines that do not go back *)

LEMMA AfterFacts ==
  ASSUME NEW x \in Token
  PROVE  /\ x.line \in Nat /\ After(x) \in Nat /\ x.line <= After(x)
         /\ x.eol => After(x) = x.line + 1
         /\ ~x.eol => After(x) = x.line
  BY DEF Token, After

LEMMA AscendingAppend ==
  ASSUME NEW s \in Seq(Token), NEW x \in Token, NEW first, NEW next,
         Ascending(s, first, next), next <= x.line
  PROVE  Ascending(Append(s, x), first, After(x))
  <1> DEFINE t == Append(s, x)
  <1>1. /\ Len(s) \in Nat /\ Len(t) = Len(s) + 1
        /\ \A i \in 1..Len(s) : t[i] = s[i]
        /\ t[Len(s) + 1] = x
    BY AppendFacts
  <1> HIDE DEF t
  <1>2. x.line \in Nat /\ After(x) \in Nat /\ x.line <= After(x)
    BY AfterFacts
  <1>3. \A i \in 1..Len(s) : s[i].line \in Nat /\ After(s[i]) \in Nat
    BY AfterFacts, ElementOfSeq
  <1>4. first \in Nat /\ next \in Nat /\ first <= next
    BY DEF Ascending
  <1>5. \A i \in 1..Len(s) : first <= s[i].line /\ After(s[i]) <= next
    BY DEF Ascending
  <1>6. \A i \in 1..Len(s) : After(s[i]) <= x.line /\ After(s[i]) <= After(x)
    BY <1>2, <1>3, <1>4, <1>5
  <1>7. \A i \in 1..Len(t) : i \in 1..Len(s) \/ i = Len(s) + 1
    BY <1>1
  <1>8. first <= After(x) /\ first <= x.line
    BY <1>2, <1>4
  <1>9. \A i \in 1..Len(t) : first <= t[i].line /\ After(t[i]) <= After(x)
    BY <1>1, <1>2, <1>5, <1>6, <1>7, <1>8
  <1>10. ASSUME NEW i \in 1..Len(t), NEW j \in 1..Len(t), i < j PROVE After(t[i]) <= t[j].line
    <2>1. i \in 1..Len(s)
      BY <1>1, <1>10
    <2>2. CASE j \in 1..Len(s)
      BY <1>1, <1>10, <2>1, <2>2 DEF Ascending
    <2>3. CASE j = Len(s) + 1
      BY <1>1, <1>6, <2>1, <2>3
    <2> QED BY <1>7, <2>2, <2>3
  <1>11. Ascending(t, first, After(x))
    BY <1>2, <1>4, <1>8, <1>9, <1>10 DEF Ascending
  <1> QED BY <1>11 DEF t

LEMMA AscendingTail ==
  ASSUME NEW s \in Seq(Token), s # <<>>, NEW first, NEW next, Ascending(s, first, next)
  PROVE  /\ first <= Head(s).line /\ After(Head(s)) <= next
         /\ Ascending(Tail(s), After(Head(s)), next)
  <1> DEFINE t == Tail(s)
             h == Head(s)
  <1>1. /\ h = s[1] /\ h \in Token /\ Len(s) \in Nat \ {0} /\ Len(t) = Len(s) - 1
        /\ \A i \in 1..(Len(s) - 1) : t[i] = s[i + 1]
    BY TailFacts
  <1> HIDE DEF t, h
  <1>2. h.line \in Nat /\ After(h) \in Nat
    BY <1>1, AfterFacts
  <1>3. 1 \in 1..Len(s) /\ first <= h.line /\ After(h) <= next /\ next \in Nat
    BY <1>1 DEF Ascending
  <1>4. \A i \in 1..Len(t) : t[i] = s[i + 1] /\ i + 1 \in 1..Len(s) /\ 1 < i + 1
    BY <1>1
  <1>5. \A i \in 1..Len(t) : After(h) <= t[i].line /\ After(t[i]) <= next
    BY <1>1, <1>3, <1>4 DEF Ascending
  <1>6. ASSUME NEW i \in 1..Len(t), NEW j \in 1..Len(t), i < j PROVE After(t[i]) <= t[j].line
    <2>1. i + 1 < j + 1
      BY <1>1, <1>6
    <2> QED BY <1>4, <2>1 DEF Ascending
  <1>7. Ascending(t, After(h), next)
    BY <1>2, <1>3, <1>5, <1>6 DEF Ascending
  <1> QED BY <1>3, <1>7 DEF t, h

LEMMA AscendingConcat ==
  ASSUME NEW s \in Seq(Token), NEW t \in Seq(Token), NEW first, NEW middle, NEW next,
         Ascending(s, first, middle), Ascending(t, middle, next)
  PROVE  Ascending(s \o t, first, next)
  <1> DEFINE u == s \o t
  <1>1. /\ Len(s) \in Nat /\ Len(t) \in Nat /\ Len(u) = Len(s) + Len(t)
        /\ \A i \in 1..Len(s) : u[i] = s[i]
        /\ \A i \in 1..Len(t) : u[Len(s) + i] = t[i]
    BY ConcatFacts
  <1> HIDE DEF u
  <1>2. first \in Nat /\ middle \in Nat /\ next \in Nat /\ first <= middle /\ middle <= next
    BY DEF Ascending
  <1>3. /\ \A i \in 1..Len(s) : s[i].line \in Nat /\ After(s[i]) \in Nat
        /\ \A i \in 1..Len(t) : t[i].line \in Nat /\ After(t[i]) \in Nat
    BY AfterFacts, ElementOfSeq
  <1>4. \A i \in 1..Len(s) : first <= s[i].line /\ After(s[i]) <= middle
    BY DEF Ascending
  <1>5. \A i \in 1..Len(t) : middle <= t[i].line /\ After(t[i]) <= next
    BY DEF Ascending
  <1>6. ASSUME NEW i \in 1..Len(u)
        PROVE  i \in 1..Len(s) \/ (i - Len(s) \in 1..Len(t) /\ u[i] = t[i - Len(s)])
    <2> SUFFICES ASSUME i \notin 1..Len(s)
                 PROVE  i - Len(s) \in 1..Len(t) /\ u[i] = t[i - Len(s)]
      OBVIOUS
    <2> DEFINE j == i - Len(s)
    <2>1. j \in 1..Len(t) /\ i = Len(s) + j
      BY <1>1
    <2> HIDE DEF j
    <2>2. u[i] = t[j]
      BY <1>1, <2>1
    <2> QED BY <2>1, <2>2 DEF j
  <1>7. ASSUME NEW i \in 1..Len(u) PROVE first <= u[i].line /\ After(u[i]) <= next
    <2>1. CASE i \in 1..Len(s)
      BY <1>1, <1>2, <1>3, <1>4, <2>1
    <2>2. CASE i \notin 1..Len(s)
      <3>1. PICK j \in 1..Len(t) : u[i] = t[j]
        BY <1>6, <2>2
      <3> QED BY <1>2, <1>3, <1>5, <3>1
    <2> QED BY <2>1, <2>2
  <1>8. ASSUME NEW i \in 1..Len(u), NEW j \in 1..Len(u), i < j PROVE After(u[i]) <= u[j].line
    <2>1. CASE i \in 1..Len(s) /\ j \in 1..Len(s)
      BY <1>1, <1>8, <2>1 DEF Ascending
    <2>2. CASE i \in 1..Len(s) /\ j \notin 1..Len(s)
      <3>1. PICK k \in 1..Len(t) : u[j] = t[k]
        BY <1>6, <2>2
      <3>2. After(s[i]) <= middle /\ middle <= t[k].line /\ After(s[i]) \in Nat /\ t[k].line \in Nat
        BY <1>3, <1>4, <1>5, <2>2
      <3>3. After(s[i]) <= t[k].line
        BY <1>2, <3>2
      <3> QED BY <1>1, <2>2, <3>1, <3>3
    <2>3. CASE i \notin 1..Len(s)
      <3>1. j \notin 1..Len(s)
        BY <1>1, <1>8, <2>3
      <3>2. PICK k \in 1..Len(t), l \in 1..Len(t) : u[i] = t[k] /\ u[j] = t[l] /\ k = i - Len(s) /\ l = j - Len(s)
        BY <1>6, <2>3, <3>1
      <3>3. k < l
        BY <1>1, <1>8, <3>2
      <3> QED BY <3>2, <3>3 DEF Ascending
    <2> QED BY <2>1, <2>2, <2>3
  <1>9. first <= next
    BY <1>2
  <1>10. Ascending(u, first, next)
    BY <1>2, <1>7, <1>8, <1>9 DEF Ascending
  <1> QED BY <1>10 DEF u

-----------------------------------------------------------------------------
(* Runs of lines *)

LEMMA EmptyRun ==
  ASSUME NEW first \in Nat, NEW wrong
  PROVE  Run(<<>>, first, first, wrong)
  <1>1. Len(<<>>) = 0
    OBVIOUS
  <1>2. Ascending(<<>>, first, first)
    BY <1>1 DEF Ascending
  <1> QED BY <1>2, EmptyGapless DEF Run

\* An empty buffer holds nothing between two lines.
LEMMA RunOfNone ==
  ASSUME NEW first, NEW next, NEW wrong, Run(<<>>, first, next, wrong)
  PROVE  /\ first \in Nat /\ next \in Nat /\ first <= next
         /\ Gaps(wrong) \/ first = next
  <1>1. Len(<<>>) = 0
    OBVIOUS
  <1> QED BY <1>1 DEF Run, Ascending, Gapless

\* A line that starts, or goes on, at the end of the run.
LEMMA RunAppend ==
  ASSUME NEW s \in Seq(Token), NEW x \in Token, NEW first, NEW next, NEW wrong,
         Run(s, first, next, wrong), next <= x.line, Gaps(wrong) \/ x.line = next
  PROVE  Run(Append(s, x), first, After(x), wrong)
  <1>1. Ascending(Append(s, x), first, After(x))
    BY AscendingAppend DEF Run
  <1>2. ~Gaps(wrong) => Gapless(Append(s, x), first, After(x))
    BY GaplessAppend DEF Run
  <1> QED BY <1>1, <1>2 DEF Run

\* The first token of a run, and the run without it.
LEMMA RunTail ==
  ASSUME NEW s \in Seq(Token), s # <<>>, NEW first, NEW next, NEW wrong,
         Run(s, first, next, wrong)
  PROVE  /\ first <= Head(s).line /\ (Gaps(wrong) \/ Head(s).line = first)
         /\ After(Head(s)) <= next
         /\ Run(Tail(s), After(Head(s)), next, wrong)
  <1>1. /\ first <= Head(s).line /\ After(Head(s)) <= next
        /\ Ascending(Tail(s), After(Head(s)), next)
    BY AscendingTail DEF Run
  <1>2. ~Gaps(wrong) => Head(s).line = first /\ Gapless(Tail(s), After(Head(s)), next)
    BY GaplessTail DEF Run
  <1> QED BY <1>1, <1>2 DEF Run

\* A token that moves on to the next buffer: the two buffers still hold one run.
LEMMA RunShift ==
  ASSUME NEW s \in Seq(Token), NEW t \in Seq(Token), t # <<>>,
         NEW first, NEW middle, NEW next, NEW wrong,
         Run(s, first, middle, wrong), Run(t, middle, next, wrong)
  PROVE  \E new : Run(Append(s, Head(t)), first, new, wrong) /\ Run(Tail(t), new, next, wrong)
  <1>1. PICK h : h = Head(t)
    OBVIOUS
  <1>2. h \in Token
    BY <1>1, TailFacts
  <1>3. middle <= h.line /\ (Gaps(wrong) \/ h.line = middle) /\ Run(Tail(t), After(h), next, wrong)
    BY <1>1, RunTail
  <1>4. Run(Append(s, h), first, After(h), wrong)
    BY <1>2, <1>3, RunAppend
  <1> QED BY <1>1, <1>3, <1>4

\* One run behind another.
LEMMA RunConcat ==
  ASSUME NEW s \in Seq(Token), NEW t \in Seq(Token), NEW first, NEW middle, NEW next,
         NEW wrong, Run(s, first, middle, wrong), Run(t, middle, next, wrong)
  PROVE  Run(s \o t, first, next, wrong)
  <1>1. Ascending(s \o t, first, next)
    BY AscendingConcat DEF Run
  <1>2. ~Gaps(wrong) => Gapless(s \o t, first, next)
    BY GaplessConcat DEF Run
  <1> QED BY <1>1, <1>2 DEF Run

\* A run that may have gaps may begin earlier.
LEMMA RunEarlier ==
  ASSUME NEW s \in Seq(Token), NEW first, NEW next, NEW wrong, Run(s, first, next, wrong),
         NEW earlier \in Nat, earlier <= first, NEW more, Gaps(more)
  PROVE  Run(s, earlier, next, more)
  <1>1. /\ first \in Nat /\ next \in Nat /\ first <= next
        /\ \A i \in 1..Len(s) : first <= s[i].line /\ After(s[i]) <= next
    BY DEF Run, Ascending
  <1>2. \A i \in 1..Len(s) : s[i].line \in Nat
    BY AfterFacts, ElementOfSeq
  <1>3. earlier <= next /\ \A i \in 1..Len(s) : earlier <= s[i].line /\ After(s[i]) <= next
    BY <1>1, <1>2
  <1> QED BY <1>1, <1>3 DEF Run, Ascending

\* The parts of one line.
LEMMA RunParts ==
  ASSUME NEW S, NEW line \in Nat, NEW n \in Nat, Part(line) \in S, NEW wrong
  PROVE  /\ Parts(line, n) \in Seq(S) /\ Len(Parts(line, n)) = n
         /\ \A i \in 1..n : Parts(line, n)[i] = Part(line)
         /\ Run(Parts(line, n), line, line, wrong)
  <1>1. PICK t : t = Parts(line, n)
    OBVIOUS
  <1>2. /\ t \in Seq(S) /\ Len(t) = n /\ \A i \in 1..n : t[i] = Part(line)
        /\ Gapless(t, line, line)
    BY <1>1, GaplessParts
  <1>3. Part(line).line = line /\ After(Part(line)) = line
    BY DEF Part, After
  <1>4. Ascending(t, line, line)
    BY <1>2, <1>3 DEF Ascending
  <1> QED BY <1>1, <1>2, <1>4 DEF Run

\* A run behind an empty buffer.
LEMMA RunAfterNone ==
  ASSUME NEW s \in Seq(Token), NEW first, NEW old, NEW next, NEW wrong,
         Run(<<>>, first, old, wrong), Run(s, old, next, wrong)
  PROVE  Run(s, first, next, wrong)
  <1>1. first \in Nat /\ first <= old /\ (Gaps(wrong) \/ first = old)
    BY RunOfNone
  <1>2. CASE Gaps(wrong)
    BY <1>1, <1>2, RunEarlier
  <1>3. CASE ~Gaps(wrong)
    BY <1>1, <1>3
  <1> QED BY <1>2, <1>3

LEMMA SeqOfTokens ==
  ASSUME NEW S, S \subseteq Token, NEW s \in Seq(S)
  PROVE  s \in Seq(Token)
  OBVIOUS

-----------------------------------------------------------------------------
(* The FileStream: what is sent comes behind what was sent before *)

LEMMA StreamWriteRun ==
  ASSUME NEW S, S \subseteq Token, buffer \in Seq(S), Len(buffer) <= StreamCap, toWrite = <<>>,
         NEW tokens \in Seq(S), StreamWrite(tokens)
  PROVE  /\ buffer' \in Seq(S) /\ Len(buffer') <= StreamCap /\ toWrite' \in Seq(S)
         /\ \A first, old, last, next, wrong :
               Run(toWrite, first, old, wrong) /\ Run(buffer, old, last, wrong) /\ Run(tokens, last, next, wrong) =>
                   \E new : Run(toWrite', first, new, wrong) /\ Run(buffer', new, next, wrong)
  <1>0. <<>> \in Seq(S) /\ Len(<<>>) = 0 /\ Len(buffer) \in Nat /\ Len(tokens) \in Nat
        /\ StreamCap \in Nat
    BY EmptyFacts, CapacityAssumption
  <1>1. buffer \o tokens \in Seq(S) /\ Len(buffer \o tokens) = Len(buffer) + Len(tokens)
    BY ConcatFacts
  <1>2. buffer' \in Seq(S) /\ Len(buffer') <= StreamCap /\ toWrite' \in Seq(S)
    <2> DEFINE both == buffer \o tokens
               none == <<>>
    <2>1. /\ both \in Seq(S) /\ Len(both) = Len(buffer) + Len(tokens)
          /\ none \in Seq(S) /\ Len(none) = 0 /\ toWrite = none
          /\ StreamCap \in Nat
      BY <1>0, <1>1
    <2>2. \/ Len(buffer) + Len(tokens) <= StreamCap /\ buffer' = both /\ toWrite' = toWrite
          \/ Len(tokens) <= StreamCap /\ toWrite' = buffer /\ buffer' = tokens
          \/ toWrite' = both /\ buffer' = none
      BY DEF StreamWrite, Room
    <2> HIDE DEF both, none
    <2>3. Len(buffer') <= StreamCap
      BY <2>1, <2>2
    <2> QED BY <2>1, <2>2, <2>3
  <1>3. ASSUME NEW first, NEW old, NEW wrong, NEW last, NEW next,
               Run(toWrite, first, old, wrong), Run(buffer, old, last, wrong), Run(tokens, last, next, wrong)
        PROVE  \E new : Run(toWrite', first, new, wrong) /\ Run(buffer', new, next, wrong)
    <2>0. buffer \in Seq(Token) /\ tokens \in Seq(Token)
      BY SeqOfTokens
    <2>1. Run(buffer, first, last, wrong)
      BY <1>3, <2>0, RunAfterNone
    <2>2. Run(buffer \o tokens, old, next, wrong)
      BY <1>3, <2>0, RunConcat
    <2>3. Run(buffer \o tokens, first, next, wrong)
      BY <1>3, <2>0, <2>1, RunConcat
    <2>4. Run(<<>>, next, next, wrong)
      BY <1>3, EmptyRun DEF Run, Ascending
    <2> QED BY <1>3, <2>1, <2>2, <2>3, <2>4 DEF StreamWrite
  <1> QED BY <1>2, <1>3

LEMMA StreamPutRun ==
  ASSUME NEW S, S \subseteq Token, buffer \in Seq(S), Len(buffer) <= StreamCap, toWrite = <<>>,
         NEW token \in S, StreamPut(token)
  PROVE  /\ buffer' \in Seq(S) /\ Len(buffer') <= StreamCap /\ toWrite' \in Seq(S)
         /\ \A first, old, wrong :
               Run(toWrite, first, old, wrong) /\ Run(buffer, old, token.line, wrong) =>
                   \E new : Run(toWrite', first, new, wrong) /\ Run(buffer', new, After(token), wrong)
  <1>0. <<>> \in Seq(S) /\ Len(<<>>) = 0 /\ Len(buffer) \in Nat
        /\ StreamCap \in Nat \ {0}
    BY EmptyFacts, CapacityAssumption
  <1>1. Append(buffer, token) \in Seq(S) /\ Len(Append(buffer, token)) = Len(buffer) + 1
        /\ <<token>> \in Seq(S) /\ Len(<<token>>) = 1 /\ <<token>> = Append(<<>>, token)
    BY <1>0, AppendFacts
  <1>2. buffer' \in Seq(S) /\ Len(buffer') <= StreamCap /\ toWrite' \in Seq(S)
    <2> DEFINE both == Append(buffer, token)
               none == <<>>
               one == <<token>>
    <2>1. /\ both \in Seq(S) /\ Len(both) = Len(buffer) + 1
          /\ one \in Seq(S) /\ Len(one) = 1 /\ none \in Seq(S) /\ toWrite = none
      BY <1>0, <1>1
    <2>2. \/ Len(buffer) + 1 <= StreamCap /\ buffer' = both /\ toWrite' = toWrite
          \/ toWrite' = buffer /\ buffer' = one
      BY DEF StreamPut, Room
    <2> HIDE DEF both, none, one
    <2> QED BY <1>0, <2>1, <2>2
  <1>3. ASSUME NEW first, NEW old, NEW wrong, Run(toWrite, first, old, wrong), Run(buffer, old, token.line, wrong)
        PROVE  \E new : Run(toWrite', first, new, wrong) /\ Run(buffer', new, After(token), wrong)
    <2>0. buffer \in Seq(Token) /\ <<>> \in Seq(Token) /\ token \in Token /\ token.line \in Nat
      BY SeqOfTokens, EmptyFacts, AfterFacts
    <2>1. Run(buffer, first, token.line, wrong)
      BY <1>3, <2>0, RunAfterNone
    <2>2. token.line <= token.line /\ Run(<<>>, token.line, token.line, wrong)
      BY <1>3, <2>0, EmptyRun
    <2>3. Run(Append(buffer, token), old, After(token), wrong)
      BY <1>3, <2>0, <2>2, RunAppend
    <2>4. Run(Append(<<>>, token), token.line, After(token), wrong)
      BY <1>3, <2>0, <2>2, RunAppend
    <2> QED BY <1>1, <1>3, <2>1, <2>3, <2>4 DEF StreamPut
  <1> QED BY <1>2, <1>3

LEMMA StreamFlushRun ==
  ASSUME NEW S, S \subseteq Token, buffer \in Seq(S), toWrite = <<>>, StreamFlush
  PROVE  /\ buffer' = <<>> /\ toWrite' \in Seq(S)
         /\ \A first, old, next, wrong :
               Run(toWrite, first, old, wrong) /\ Run(buffer, old, next, wrong) =>
                   \E new : Run(toWrite', first, new, wrong) /\ Run(buffer', new, next, wrong)
  <1>1. buffer' = <<>> /\ toWrite' = buffer
    BY DEF StreamFlush
  <1>2. ASSUME NEW first, NEW old, NEW wrong, NEW next, Run(toWrite, first, old, wrong), Run(buffer, old, next, wrong)
        PROVE  \E new : Run(toWrite', first, new, wrong) /\ Run(buffer', new, next, wrong)
    <2>0. buffer \in Seq(Token)
      BY SeqOfTokens
    <2>1. Run(buffer, first, next, wrong)
      BY <1>2, <2>0, RunAfterNone
    <2>2. Run(<<>>, next, next, wrong)
      BY <1>2, EmptyRun DEF Run, Ascending
    <2> QED BY <1>1, <1>2, <2>1, <2>2
  <1> QED BY <1>1, <1>2

-----------------------------------------------------------------------------
(* The ends of line among tokens, and how many there are *)

Eols(s) == {i \in 1..Len(s) : s[i].eol}
Ends(s) == Cardinality(Eols(s))

LEMMA EndsNat ==
  ASSUME NEW S, NEW s \in Seq(S)
  PROVE  IsFiniteSet(Eols(s)) /\ Ends(s) \in Nat
  <1>1. IsFiniteSet(1..Len(s))
    BY FS_Interval
  <1>2. Eols(s) \subseteq 1..Len(s)
    BY DEF Eols
  <1> QED BY <1>1, <1>2, FS_Subset, FS_CardinalityType DEF Ends

LEMMA EndsEmpty ==
  Eols(<<>>) = {} /\ Ends(<<>>) = 0
  <1>1. Eols(<<>>) = {}
    BY DEF Eols
  <1> QED BY <1>1, FS_EmptySet DEF Ends

LEMMA EndsNone ==
  ASSUME NEW s, \A i \in 1..Len(s) : ~s[i].eol
  PROVE  Eols(s) = {} /\ Ends(s) = 0
  <1>1. Eols(s) = {}
    BY DEF Eols
  <1> QED BY <1>1, FS_EmptySet DEF Ends

LEMMA EndsOne ==
  ASSUME NEW x
  PROVE  Ends(<<x>>) = IF x.eol THEN 1 ELSE 0
  <1>1. PICK s : s = <<x>>
    OBVIOUS
  <1>2. Len(s) = 1 /\ s[1] = x
    BY <1>1
  <1>3. CASE x.eol
    <2>1. Eols(s) = {1}
      BY <1>2, <1>3 DEF Eols
    <2> QED BY <1>1, <1>3, <2>1, FS_Singleton DEF Ends
  <1>4. CASE ~x.eol
    <2>1. \A i \in 1..Len(s) : ~s[i].eol
      BY <1>2, <1>4
    <2> QED BY <1>1, <1>4, <2>1, EndsNone
  <1> QED BY <1>3, <1>4

\* A set of positions is as large when all are moved on.
Moved(S, k) == {k + i : i \in S}

LEMMA MovedAsLarge ==
  ASSUME NEW S \in SUBSET Int, IsFiniteSet(S), NEW k \in Nat
  PROVE  IsFiniteSet(Moved(S, k)) /\ Cardinality(Moved(S, k)) = Cardinality(S)
  <1> DEFINE T == {k + i : i \in S}
             f == [i \in S |-> k + i]
  <1>1. f \in [S -> T]
    OBVIOUS
  <1>2. \A a, b \in S : f[a] = f[b] => a = b
    OBVIOUS
  <1>3. \A t \in T : \E i \in S : f[i] = t
    OBVIOUS
  <1> HIDE DEF f, T
  <1>4. f \in Bijection(S, T)
    BY <1>1, <1>2, <1>3 DEF Bijection, Injection, Surjection, IsInjective
  <1>5. ExistsBijection(S, T)
    BY <1>4 DEF ExistsBijection
  <1>6. IsFiniteSet(T) /\ Cardinality(T) = Cardinality(S)
    BY <1>5, FS_Bijection
  <1> QED BY <1>6 DEF T, Moved

LEMMA EndsConcat ==
  ASSUME NEW S, NEW s \in Seq(S), NEW t \in Seq(S)
  PROVE  Ends(s \o t) = Ends(s) + Ends(t)
  <1> DEFINE u == s \o t
  <1>1. /\ Len(s) \in Nat /\ Len(t) \in Nat /\ Len(u) = Len(s) + Len(t)
        /\ \A i \in 1..Len(s) : u[i] = s[i]
        /\ \A i \in 1..Len(t) : u[Len(s) + i] = t[i]
    BY ConcatFacts
  <1> HIDE DEF u
  <1>2. PICK k \in Nat : k = Len(s)
    BY <1>1
  <1> DEFINE T == {k + i : i \in Eols(t)}
  <1>3. ASSUME NEW j PROVE j \in Eols(u) <=> j \in Eols(s) \cup T
    <2>1. CASE j \in Eols(s)
      <3>1. j \in 1..Len(s) /\ s[j].eol
        BY <2>1 DEF Eols
      <3>2. j \in 1..Len(u) /\ u[j] = s[j]
        BY <1>1, <3>1
      <3> QED BY <2>1, <3>1, <3>2 DEF Eols
    <2>2. ASSUME NEW i \in Eols(t), j = k + i PROVE j \in Eols(u)
      <3>1. i \in 1..Len(t) /\ t[i].eol
        BY <2>2 DEF Eols
      <3>2. j \in 1..Len(u) /\ u[j] = t[i]
        BY <1>1, <1>2, <2>2, <3>1
      <3> QED BY <3>1, <3>2 DEF Eols
    <2>3. ASSUME j \in Eols(u), j \notin Eols(s) PROVE j \in T
      <3>1. j \in 1..Len(u) /\ u[j].eol
        BY <2>3 DEF Eols
      <3>2. j \notin 1..Len(s)
        BY <1>1, <2>3, <3>1 DEF Eols
      <3>3. PICK i : i = j - k
        OBVIOUS
      <3>4. i \in 1..Len(t) /\ j = k + i
        BY <1>1, <1>2, <3>1, <3>2, <3>3
      <3>5. i \in Eols(t)
        BY <1>1, <1>2, <3>1, <3>4 DEF Eols
      <3> QED BY <3>4, <3>5
    <2> QED BY <2>1, <2>2, <2>3
  <1>4. Eols(u) = Eols(s) \cup T
    <2> HIDE DEF T
    <2> QED BY <1>3
  <1>5. Eols(s) \cap T = {}
    BY <1>1, <1>2 DEF Eols
  <1>6. IsFiniteSet(Eols(s)) /\ IsFiniteSet(Eols(t)) /\ Ends(s) \in Nat /\ Ends(t) \in Nat
    BY EndsNat
  <1>7. IsFiniteSet(T) /\ Cardinality(T) = Ends(t)
    <2>1. Eols(t) \in SUBSET Int
      BY DEF Eols
    <2>2. IsFiniteSet(Moved(Eols(t), k)) /\ Cardinality(Moved(Eols(t), k)) = Cardinality(Eols(t))
      BY <1>6, <2>1, MovedAsLarge
    <2> QED BY <2>2 DEF Moved, Ends
  <1> HIDE DEF T
  <1>8. Cardinality(Eols(u)) = Cardinality(Eols(s)) + Cardinality(T) - Cardinality({})
    <2>1. PICK A : A = Eols(s)
      OBVIOUS
    <2>2. IsFiniteSet(A) /\ IsFiniteSet(T) /\ A \cap T = {} /\ Eols(u) = A \cup T
      BY ONLY <1>4, <1>5, <1>6, <1>7, <2>1
    <2>3. Cardinality(A \cup T) = Cardinality(A) + Cardinality(T) - Cardinality(A \cap T)
      BY ONLY <2>2, FS_Union
    <2> QED BY ONLY <2>1, <2>2, <2>3
  <1>9. Ends(u) = Ends(s) + Ends(t)
    BY <1>6, <1>7, <1>8, FS_EmptySet DEF Ends
  <1> QED BY <1>9 DEF u

LEMMA EndsAppend ==
  ASSUME NEW S, NEW s \in Seq(S), NEW x \in S
  PROVE  Ends(Append(s, x)) = Ends(s) + (IF x.eol THEN 1 ELSE 0)
  <1>1. Append(s, x) = s \o <<x>> /\ <<x>> \in Seq(S)
    OBVIOUS
  <1>2. PICK one \in Seq(S) : one = <<x>>
    BY <1>1
  <1>3. Ends(s \o one) = Ends(s) + Ends(one)
    BY EndsConcat
  <1>4. Ends(one) = IF x.eol THEN 1 ELSE 0
    BY <1>2, EndsOne
  <1> QED BY ONLY <1>1, <1>2, <1>3, <1>4

LEMMA EndsTail ==
  ASSUME NEW S, NEW s \in Seq(S), s # <<>>
  PROVE  Ends(s) = (IF Head(s).eol THEN 1 ELSE 0) + Ends(Tail(s))
  <1>1. s = <<Head(s)>> \o Tail(s) /\ <<Head(s)>> \in Seq(S) /\ Tail(s) \in Seq(S)
    OBVIOUS
  <1>2. PICK one \in Seq(S) : one = <<Head(s)>>
    BY <1>1
  <1>3. PICK rest \in Seq(S) : rest = Tail(s)
    BY <1>1
  <1>4. Ends(one \o rest) = Ends(one) + Ends(rest)
    BY EndsConcat
  <1>5. Ends(one) = IF Head(s).eol THEN 1 ELSE 0
    BY <1>2, EndsOne
  <1>6. s = one \o rest
    BY ONLY <1>1, <1>2, <1>3
  <1> QED BY ONLY <1>3, <1>4, <1>5, <1>6

\* A token that moves on to the next buffer.
LEMMA EndsShift ==
  ASSUME NEW S, NEW s \in Seq(S), NEW t \in Seq(S), t # <<>>
  PROVE  Ends(Append(s, Head(t))) + Ends(Tail(t)) = Ends(s) + Ends(t)
  <1>1. Head(t) \in S /\ Tail(t) \in Seq(S)
    BY TailFacts
  <1>2. PICK e \in Nat : e = IF Head(t).eol THEN 1 ELSE 0
    OBVIOUS
  <1>3. Ends(Append(s, Head(t))) = Ends(s) + e /\ Ends(t) = e + Ends(Tail(t))
    BY <1>1, <1>2, EndsAppend, EndsTail
  <1>4. Ends(s) \in Nat /\ Ends(Tail(t)) \in Nat
    BY <1>1, EndsNat
  <1> QED BY <1>3, <1>4

\* The FileStream gives its tokens to the pipe later, but loses none.
LEMMA EndsStreamWrite ==
  ASSUME NEW S, buffer \in Seq(S), toWrite = <<>>, NEW tokens \in Seq(S), StreamWrite(tokens)
  PROVE  Ends(toWrite') + Ends(buffer') = Ends(buffer) + Ends(tokens)
  <1>1. /\ Ends(buffer \o tokens) = Ends(buffer) + Ends(tokens)
        /\ Ends(buffer) \in Nat /\ Ends(tokens) \in Nat /\ Ends(<<>>) = 0
    BY EndsConcat, EndsNat, EndsEmpty
  <1>2. \/ buffer' = buffer \o tokens /\ toWrite' = <<>>
        \/ toWrite' = buffer /\ buffer' = tokens
        \/ toWrite' = buffer \o tokens /\ buffer' = <<>>
    BY DEF StreamWrite
  <1>3. PICK both : both = buffer \o tokens
    OBVIOUS
  <1>4. PICK none : none = <<>>
    OBVIOUS
  <1>5. CASE buffer' = both /\ toWrite' = none
    BY ONLY <1>1, <1>3, <1>4, <1>5
  <1>6. CASE toWrite' = buffer /\ buffer' = tokens
    BY ONLY <1>1, <1>6
  <1>7. CASE toWrite' = both /\ buffer' = none
    BY ONLY <1>1, <1>3, <1>4, <1>7
  <1> QED BY <1>2, <1>3, <1>4, <1>5, <1>6, <1>7

-----------------------------------------------------------------------------
(* The end of the last answer *)

\* The last token of s, if any, is an end of line.
Whole(s) == s = <<>> \/ s[Len(s)].eol

\* The last token on its way is an end of line, wherever it is.
WholeWay(b, t, i, h, o, p) ==
    /\ Whole(b)
    /\ b = <<>> => Whole(t)
    /\ b = <<>> /\ t = <<>> => Whole(i)
    /\ b = <<>> /\ t = <<>> /\ i = <<>> => Whole(h)
    /\ b = <<>> /\ t = <<>> /\ i = <<>> /\ h = <<>> => Whole(o)
    /\ b = <<>> /\ t = <<>> /\ i = <<>> /\ h = <<>> /\ o = <<>> => Whole(p)

\* What there is to the answers that end too early.  As long as the child has
\* neither stopped nor left anything out, and the reader has not closed its
\* end of the pipe, what is on its way ends with a line, unless the feeder is
\* amid one.
CutInv(closed, amid) ==
    /\ CutIsLast
    /\ faults \cap Stopping = {} /\ ~closed =>
        /\ ~amid /\ child = "running" => WholeWay(buffer, toWrite, inPipe, held, outPipe, partial)
        /\ child # "running" => Whole(outPipe) /\ (outPipe = <<>> => Whole(partial))
    /\ ~inOpen => ~amid /\ buffer = <<>> /\ toWrite = <<>>

\* All that is on its way is sequences of tokens.
WayOfTokens == {buffer, toWrite, inPipe, held, outPipe, partial} \subseteq Seq(Token)

LEMMA WholeAppend ==
  ASSUME NEW s \in Seq(Token), NEW x \in Token
  PROVE  Append(s, x) # <<>> /\ (x.eol => Whole(Append(s, x)))
  <1>1. Len(Append(s, x)) = Len(s) + 1 /\ Append(s, x)[Len(s) + 1] = x /\ Len(s) \in Nat
    BY AppendFacts
  <1>2. Append(s, x) # <<>>
    BY <1>1
  <1> QED BY <1>1, <1>2 DEF Whole

\* A token moves on to the next place.
LEMMA WholeShift ==
  ASSUME NEW s \in Seq(Token), NEW t \in Seq(Token), t # <<>>
  PROVE  /\ Append(s, Head(t)) # <<>>
         /\ Whole(t) => Whole(Tail(t))
         /\ Whole(t) /\ Tail(t) = <<>> => Whole(Append(s, Head(t)))
  <1>1. /\ Tail(t) \in Seq(Token) /\ Head(t) \in Token /\ Head(t) = t[1]
        /\ Len(t) \in Nat \ {0} /\ Len(Tail(t)) = Len(t) - 1
        /\ \A i \in 1..(Len(t) - 1) : Tail(t)[i] = t[i + 1]
    BY TailFacts
  <1>2. Append(s, Head(t)) # <<>> /\ (Head(t).eol => Whole(Append(s, Head(t))))
    BY <1>1, WholeAppend
  <1>3. ASSUME Whole(t), Tail(t) # <<>> PROVE Tail(t)[Len(Tail(t))].eol
    <2>1. Len(Tail(t)) > 0
      BY <1>1, <1>3, EmptySeq
    <2>2. Tail(t)[Len(t) - 1] = t[Len(t)]
      BY <1>1, <2>1
    <2> QED BY <1>1, <1>3, <2>2 DEF Whole
  <1>4. ASSUME Whole(t), Tail(t) = <<>> PROVE Head(t).eol
    <2>0. Len(Tail(t)) = 0
      BY <1>1, <1>4, EmptySeq
    <2>5. PICK n : n \in Nat /\ n = Len(t)
      BY <1>1
    <2>6. 0 = n - 1
      BY <1>1, <2>0, <2>5, Zenon
    <2>8. n \in Nat
      BY <2>5
    <2>7. n = 1
      BY ONLY <2>6, <2>8
    <2>1. Len(t) = 1
      BY <2>5, <2>7
    <2> QED BY <1>1, <1>4, <2>1 DEF Whole
  <1> QED BY <1>2, <1>3, <1>4 DEF Whole

LEMMA WholeConcat ==
  ASSUME NEW s \in Seq(Token), NEW t \in Seq(Token)
  PROVE  /\ t = <<>> => s \o t = s
         /\ t # <<>> => s \o t # <<>>
         /\ t # <<>> /\ Whole(t) => Whole(s \o t)
  <1>1. t = <<>> => s \o t = s
    OBVIOUS
  <1>2. ASSUME t # <<>> PROVE s \o t # <<>> /\ (s \o t)[Len(s \o t)] = t[Len(t)]
    <2>1. Len(t) \in Nat /\ Len(t) > 0 /\ Len(s) \in Nat
      BY <1>2
    <2>2. Len(s \o t) = Len(s) + Len(t) /\ (s \o t)[Len(s) + Len(t)] = t[Len(t)]
      BY <2>1
    <2> QED BY <2>1, <2>2
  <1> QED BY <1>1, <1>2 DEF Whole

LEMMA CutPush ==
  ASSUME NEW closed, NEW amid, WayOfTokens, CutInv(closed, amid), Push
  PROVE  CutInv(closed, amid)'
  <1>0. /\ toWrite # <<>> /\ child = "running"
        /\ inPipe' = Append(inPipe, Head(toWrite)) /\ toWrite' = Tail(toWrite)
        /\ UNCHANGED <<buffer, inOpen, held, child, faults, outPipe, partial, cut>>
    BY DEF Push, childVars, readVars
  <1>1. inPipe \in Seq(Token) /\ toWrite \in Seq(Token)
    BY DEF WayOfTokens
  <1>2. /\ inPipe' # <<>>
        /\ Whole(toWrite) => Whole(toWrite')
        /\ Whole(toWrite) /\ toWrite' = <<>> => Whole(inPipe')
    BY <1>0, <1>1, WholeShift
  <1>3. WholeWay(buffer, toWrite, inPipe, held, outPipe, partial) =>
        WholeWay(buffer, toWrite, inPipe, held, outPipe, partial)'
    BY <1>0, <1>2 DEF WholeWay
  <1>4. CutIsLast /\ inOpen
    BY <1>0 DEF CutInv
  <1>5. CutIsLast'
    BY <1>0, <1>4 DEF CutIsLast, NoLine, AtEof
  <1> QED BY <1>0, <1>3, <1>4, <1>5 DEF CutInv

LEMMA CutReadMore ==
  ASSUME NEW closed, NEW amid, WayOfTokens, CutInv(closed, amid), ReadMore
  PROVE  CutInv(closed, amid)'
  <1>0. /\ outPipe # <<>>
        /\ partial' = Append(partial, Head(outPipe)) /\ outPipe' = Tail(outPipe)
        /\ UNCHANGED <<buffer, toWrite, inPipe, inOpen, held, child, faults, cut>>
    BY DEF ReadMore, streamVars, childVars
  <1>1. partial \in Seq(Token) /\ outPipe \in Seq(Token)
    BY DEF WayOfTokens
  <1>2. /\ partial' # <<>>
        /\ Whole(outPipe) => Whole(outPipe')
        /\ Whole(outPipe) /\ outPipe' = <<>> => Whole(partial')
    BY <1>0, <1>1, WholeShift
  <1>3. WholeWay(buffer, toWrite, inPipe, held, outPipe, partial) =>
        WholeWay(buffer, toWrite, inPipe, held, outPipe, partial)'
    BY <1>0, <1>2 DEF WholeWay
  <1>4. cut = {}
    BY <1>0 DEF CutInv, CutIsLast, NoLine, AtEof
  <1>5. CutIsLast'
    BY <1>0, <1>4 DEF CutIsLast
  <1> QED BY <1>0, <1>2, <1>3, <1>5 DEF CutInv

\* A line that is read in part is the last one, and of a child that stopped.
LEMMA CutTake ==
  ASSUME NEW closed, NEW amid, WayOfTokens, CutInv(closed, amid), ~closed, TakeLine,
         UNCHANGED <<buffer, toWrite, inPipe, inOpen, held, child, faults, outPipe>>
  PROVE  CutInv(closed, amid)' /\ cut' \subseteq {LineRead}
  <1>0. /\ partial # <<>> /\ partial' = <<>>
        /\ partial[Len(partial)].eol \/ AtEof
        /\ cut' = IF partial[Len(partial)].eol THEN cut ELSE cut \cup {LineRead}
    BY DEF TakeLine, LineReady
  <1>1. cut = {}
    BY <1>0 DEF CutInv, CutIsLast, NoLine
  <1>2. ASSUME ~partial[Len(partial)].eol PROVE NoLine' /\ faults' \cap Stopping # {}
    <2>1. child # "running" /\ outPipe = <<>>
      BY <1>0, <1>2 DEF AtEof
    <2>2. ~Whole(partial)
      BY <1>0, <1>2 DEF Whole
    <2>3. faults \cap Stopping # {}
      BY <2>1, <2>2 DEF CutInv
    <2> QED BY <1>0, <2>1, <2>3 DEF NoLine, AtEof
  <1>3. CutIsLast' /\ cut' \subseteq {LineRead}
    BY <1>0, <1>1, <1>2 DEF CutIsLast
  <1>4. Whole(partial')
    BY <1>0 DEF Whole
  <1>5. WholeWay(buffer, toWrite, inPipe, held, outPipe, partial) =>
        WholeWay(buffer, toWrite, inPipe, held, outPipe, partial)'
    BY <1>4 DEF WholeWay
  <1> QED BY <1>3, <1>4, <1>5 DEF CutInv

\* The feeder begins a line, or writes whole ones.
LEMMA CutWrite ==
  ASSUME NEW closed, NEW amid, NEW amidNow, WayOfTokens, CutInv(closed, amid),
         NEW tokens \in Seq(Token), StreamWrite(tokens), toWrite = <<>>, inOpen,
         amidNow \/ (~amid /\ Whole(tokens)),
         UNCHANGED <<inPipe, inOpen, held, child, faults, outPipe, partial, cut>>
  PROVE  CutInv(closed, amidNow)'
  <1>1. CutIsLast'
    BY DEF CutInv, CutIsLast, NoLine, AtEof
  <1>2. buffer \in Seq(Token)
    BY DEF WayOfTokens
  <1>3. \/ buffer' = buffer \o tokens /\ toWrite' = <<>>
        \/ toWrite' = buffer /\ buffer' = tokens
        \/ toWrite' = buffer \o tokens /\ buffer' = <<>>
    BY DEF StreamWrite
  <1>4. ASSUME ~amidNow, WholeWay(buffer, toWrite, inPipe, held, outPipe, partial)
        PROVE  WholeWay(buffer, toWrite, inPipe, held, outPipe, partial)'
    <2>1. /\ tokens = <<>> => buffer \o tokens = buffer
          /\ tokens # <<>> => buffer \o tokens # <<>>
          /\ tokens # <<>> => Whole(buffer \o tokens)
      BY <1>2, <1>4, WholeConcat
    <2>2. Whole(<<>>)
      BY DEF Whole
    <2>3. Whole(tokens)
      BY <1>4
    <2> QED BY <1>3, <1>4, <2>1, <2>2, <2>3 DEF WholeWay
  <1> QED BY <1>1, <1>4 DEF CutInv

\* The feeder ends a line.
LEMMA CutPut ==
  ASSUME NEW closed, NEW amid, WayOfTokens, CutInv(closed, amid),
         NEW token \in Token, token.eol, StreamPut(token), toWrite = <<>>, inOpen,
         UNCHANGED <<inPipe, inOpen, held, child, faults, outPipe, partial, cut>>
  PROVE  CutInv(closed, FALSE)'
  <1>1. CutIsLast'
    BY DEF CutInv, CutIsLast, NoLine, AtEof
  <1>2. /\ Append(buffer, token) # <<>> /\ Whole(Append(buffer, token))
    BY WholeAppend DEF WayOfTokens
  <1>6. <<token>> # <<>> /\ Whole(<<token>>)
    BY DEF Whole
  <1>3. buffer' # <<>> /\ Whole(buffer')
    BY <1>2, <1>6 DEF StreamPut
  <1>4. WholeWay(buffer, toWrite, inPipe, held, outPipe, partial)'
    BY <1>3 DEF WholeWay
  <1>5. ASSUME child # "running", faults \cap Stopping = {}, ~closed
        PROVE  Whole(outPipe') /\ (outPipe' = <<>> => Whole(partial'))
    BY <1>5 DEF CutInv
  <1> QED BY <1>1, <1>4, <1>5 DEF CutInv

LEMMA CutFlush ==
  ASSUME NEW closed, NEW amid, CutInv(closed, amid), StreamFlush, toWrite = <<>>, inOpen,
         UNCHANGED <<inPipe, inOpen, held, child, faults, outPipe, partial, cut>>
  PROVE  CutInv(closed, amid)'
  <1>1. CutIsLast'
    BY DEF CutInv, CutIsLast, NoLine, AtEof
  <1>2. WholeWay(buffer, toWrite, inPipe, held, outPipe, partial) =>
        WholeWay(buffer, toWrite, inPipe, held, outPipe, partial)'
    <2>1. Whole(<<>>)
      BY DEF Whole
    <2> QED BY <2>1 DEF WholeWay, StreamFlush
  <1> QED BY <1>1, <1>2 DEF CutInv

\* Nothing the child does, unless it stops or leaves something out, makes the
\* last token another one than an end of line.
LEMMA CutChild ==
  ASSUME NEW closed, NEW amid, WayOfTokens, CutInv(closed, amid), Child(closed)
  PROVE  CutInv(closed, amid)'
  <1>0. child = "running" /\ UNCHANGED <<buffer, toWrite, inOpen, partial, cut>>
    BY DEF Child, ChildRead, ChildWrite, ChildSigpipe, ChildFinish, ChildDrop, ChildExtra, ChildFails,
           streamVars, readVars
  <1>1. cut = {} /\ CutIsLast'
    BY <1>0 DEF CutInv, CutIsLast, NoLine, AtEof
  <1>2. /\ inPipe \in Seq(Token) /\ held \in Seq(Token) /\ outPipe \in Seq(Token)
        /\ Eol(0) \in Token /\ Eol(0).eol
    BY DEF WayOfTokens, Eol, Token
  <1>3. CASE ChildRead
    <2>1. /\ inPipe # <<>> /\ held' = Append(held, Head(inPipe)) /\ inPipe' = Tail(inPipe)
          /\ UNCHANGED <<child, faults, outPipe>>
      BY <1>3 DEF ChildRead
    <2>2. /\ held' # <<>>
          /\ Whole(inPipe) => Whole(inPipe')
          /\ Whole(inPipe) /\ inPipe' = <<>> => Whole(held')
      BY <1>2, <2>1, WholeShift
    <2>3. WholeWay(buffer, toWrite, inPipe, held, outPipe, partial) =>
          WholeWay(buffer, toWrite, inPipe, held, outPipe, partial)'
      BY <1>0, <2>1, <2>2 DEF WholeWay
    <2> QED BY <1>0, <1>1, <2>1, <2>3 DEF CutInv
  <1>4. CASE ChildWrite(closed)
    <2>1. /\ held # <<>> /\ outPipe' = Append(outPipe, Head(held)) /\ held' = Tail(held)
          /\ UNCHANGED <<child, faults, inPipe>>
      BY <1>4 DEF ChildWrite, Answerable
    <2>2. /\ outPipe' # <<>>
          /\ Whole(held) => Whole(held')
          /\ Whole(held) /\ held' = <<>> => Whole(outPipe')
      BY <1>2, <2>1, WholeShift
    <2>3. WholeWay(buffer, toWrite, inPipe, held, outPipe, partial) =>
          WholeWay(buffer, toWrite, inPipe, held, outPipe, partial)'
      BY <1>0, <2>1, <2>2 DEF WholeWay
    <2> QED BY <1>0, <1>1, <2>1, <2>3 DEF CutInv
  <1>5. CASE ChildSigpipe(closed)
    BY <1>0, <1>1, <1>5 DEF CutInv, ChildSigpipe
  <1>6. CASE ChildFinish
    <2>1. /\ inPipe = <<>> /\ ~inOpen /\ held = <<>> /\ child' # "running"
          /\ UNCHANGED <<inPipe, held, faults, outPipe>>
      BY <1>6 DEF ChildFinish
    <2>2. ~amid /\ buffer = <<>> /\ toWrite = <<>>
      BY <2>1 DEF CutInv
    <2>3. WholeWay(buffer, toWrite, inPipe, held, outPipe, partial) =>
          Whole(outPipe) /\ (outPipe = <<>> => Whole(partial))
      BY <2>1, <2>2 DEF WholeWay
    <2> QED BY <1>0, <1>1, <2>1, <2>2, <2>3 DEF CutInv
  <1>7. CASE ChildDrop
    <2>1. "drop" \in faults' /\ child' = child
      BY <1>7 DEF ChildDrop
    <2>2. faults' \cap Stopping # {}
      BY <2>1 DEF Stopping
    <2> QED BY <1>0, <1>1, <2>1, <2>2 DEF CutInv
  <1>8. CASE ChildExtra(closed)
    <2>1. /\ outPipe' = Append(outPipe, Eol(0)) /\ faults' = faults \cup {"extra"}
          /\ UNCHANGED <<inPipe, held, child>>
      BY <1>8 DEF ChildExtra
    <2>2. outPipe' # <<>> /\ Whole(outPipe')
      BY <1>2, <2>1, WholeAppend
    <2>3. WholeWay(buffer, toWrite, inPipe, held, outPipe, partial) =>
          WholeWay(buffer, toWrite, inPipe, held, outPipe, partial)'
      BY <1>0, <2>1, <2>2 DEF WholeWay
    <2>4. faults' \cap Stopping = {} => faults \cap Stopping = {}
      BY <2>1
    <2> QED BY <1>0, <1>1, <2>1, <2>3, <2>4 DEF CutInv
  <1>9. CASE ChildFails
    <2>1. "exit" \in faults' \/ "kill" \in faults'
      BY <1>9 DEF ChildFails
    <2>2. faults' \cap Stopping # {}
      BY <2>1 DEF Stopping
    <2> QED BY <1>0, <1>1, <2>2 DEF CutInv
  <1> QED BY <1>3, <1>4, <1>5, <1>6, <1>7, <1>8, <1>9 DEF Child
=============================================================================
