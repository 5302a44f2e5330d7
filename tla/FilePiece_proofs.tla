-------------------------- MODULE FilePiece_proofs --------------------------
(***************************************************************************)
(* Proofs about the window of util/file_piece.cc, for files of every       *)
(* length, pages of every size, and whatever the mappings and the reads    *)
(* do: the window always shows the file, and every operation returns what  *)
(* it would return if the whole file were in memory.                       *)
(*                                                                         *)
(* The inductive invariant says of every stage of an operation which part  *)
(* of the file it has looked at and what it has found there.  It speaks of *)
(* positions in the file, which a Shift does not change, so that one lemma *)
(* about Shift serves the stages that call it.                             *)
(***************************************************************************)
EXTENDS FilePiece, FiniteSetTheorems, SequenceTheorems, TLAPS

(* The inductive invariant *)

\* The window: where it lies in the file, and what its end and last_space_ mean.
WindowAt ==
    /\ fallback => taken <= Len(file) /\ offset + Len(data) <= taken
    /\ ~fallback => offset + Len(data) <= Len(file) /\ offset % PageSize = 0
    /\ op = "open" =>
        /\ data = <<>> /\ pos = 0 /\ offset = 0 /\ taken = 0
        /\ mapSize = 2 * PageSize /\ ~atEnd /\ last = NoText
    /\ atEnd => Base + Len(data) = Len(file)
    /\ ~atEnd /\ ~fallback /\ op # "open" => Len(data) = mapSize /\ offset + mapSize < Len(file)
    /\ lastSpace > pos => data[lastSpace] \in Spaces

\* The operation o has begun and returned nothing yet.
Begun(o) == last = [op |-> o, from |-> from, to |-> 0, text |-> <<>>, ok |-> TRUE]

\* What an operation of a word or a number looks for first.
Sought(o) == (Chars \ Spaces) \cup IF o = "word" THEN {"nl"} ELSE {}

\* None of these bytes is in the file behind position f, up to position t.
NoneOf(bytes, f, t) == t <= Len(file) /\ \A i \in (f + 1)..t : file[i] \notin bytes

\* What is looked for begins at the position.
Reached(o) ==
    /\ Begun(o)
    /\ from <= Base + pos /\ Base + pos < Len(file)
    /\ NoneOf(Sought(o), from, Base + pos)
    /\ file[Base + pos + 1] \in Chars \ Spaces

\* What an operation under way knows of the file.
OperationAt ==
    /\ op = "line" =>
        /\ Begun("line") /\ from = Base + pos
        /\ NoneOf({"nl"}, from, from + skip)
    /\ op = "get" => Begun("get") /\ from = Base + pos
    /\ op \in Skipping =>
        /\ skip = 0
        /\ \E o \in {"delimited", "word", "number"} :
            /\ op = FirstStage[o] /\ Begun(o)
            /\ from <= Base + pos
            /\ NoneOf(Sought(o), from, Base + pos)
    /\ op = "find" =>
        /\ Reached("delimited") \/ Reached("word")
        /\ NoneOf(Spaces, Base + pos, Base + pos + skip)
    /\ op = "number" => Reached("number")

\* What an operation returns, a return at the end of the file included.
ScanLine(f) ==
    LET e == NextOf(file, f, {"nl"})
    IN  IF f = Len(file) THEN [to |-> f, text |-> <<>>, ok |-> FALSE]
        ELSE IF e > Len(file) THEN [to |-> Len(file), text |-> SubSeq(file, f + 1, Len(file)), ok |-> TRUE]
        ELSE [to |-> e, text |-> WithoutCr(SubSeq(file, f + 1, e - 1)), ok |-> TRUE]

Scanned(o, f) ==
    CASE o = "line" -> ScanLine(f)
      [] o = "delimited" -> WordAt(f, {})
      [] o = "word" -> WordAt(f, {"nl"})
      [] o = "number" -> NumberAt(f)
      [] o = "get" -> ByteAt(f)

ReadsScanned ==
    Idle /\ last.op # "none" =>
        /\ \/ Result = Scanned(last.op, last.from)
           \/ /\ last.op = "get" /\ ~last.ok /\ ~fallback
              /\ last.to = last.from /\ last.from > 0
              /\ pos < Len(data) /\ Base + Len(data) = Len(file)
        /\ Base + pos = last.to

\* The last operation was one of those and began at some position.
LastAt ==
    /\ DOMAIN last = {"op", "from", "to", "text", "ok"}
    /\ last.op \in Operations \cup {"none"}
    /\ last.from \in Nat

PieceInv == TypeOK /\ WindowShowsFile /\ WindowAt /\ OperationAt /\ ReadsScanned
-----------------------------------------------------------------------------
(* The least and the greatest number of a set *)

\* A set of numbers has a least one: NextOf, which stands for std::find, is
\* defined by it.
LEMMA LeastExists ==
  ASSUME NEW S \in SUBSET Nat, S # {}
  PROVE  \E x \in S : \A y \in S : x <= y
<1> DEFINE T == {0..x : x \in S}
<1>1. T \subseteq FiniteSubsetsOf(Nat) /\ T # {}
  <2>1. ASSUME NEW x \in S PROVE 0..x \in SUBSET Nat /\ IsFiniteSet(0..x)
    BY FS_Interval
  <2> QED BY <2>1 DEF FiniteSubsetsOf
<1>2. PICK t \in T : \A u \in T : ~(<<u, t>> \in StrictSubsetOrdering(Nat))
  BY <1>1, FS_StrictSubsetOrderingWellFounded, WFMin
<1>3. PICK x \in S : t = 0..x
  OBVIOUS
<1>4. ASSUME NEW y \in S PROVE x <= y
  <2>1. SUFFICES ASSUME y < x PROVE FALSE
    OBVIOUS
  <2>2. /\ 0..y \subseteq 0..x /\ x \in 0..x /\ x \notin 0..y
        /\ 0..x \in SUBSET Nat /\ 0..y \in SUBSET Nat
    BY <2>1
  <2>3. <<0..y, 0..x>> \in StrictSubsetOrdering(Nat)
    BY <2>2 DEF StrictSubsetOrdering
  <2> QED BY <1>2, <1>3, <2>3
<1> QED BY <1>4

\* What Min chooses.
LEMMA MinFacts ==
  ASSUME NEW S \in SUBSET Nat, S # {}
  PROVE  Min(S) \in S /\ \A y \in S : Min(S) <= y
BY LeastExists DEF Min

\* What Max chooses, of a set with a bound.
LEMMA MaxIsMember ==
  ASSUME NEW S \in SUBSET Nat, S # {}, NEW n \in Nat, \A y \in S : y <= n
  PROVE  Max(S) \in S
<1> DEFINE T == {n - y : y \in S}
<1>1. T \in SUBSET Nat /\ T # {}
  <2>1. ASSUME NEW y \in S PROVE n - y \in Nat
    OBVIOUS
  <2>2. \A t \in T : t \in Nat
    BY <2>1
  <2>3. PICK y \in S : TRUE
    OBVIOUS
  <2> QED BY <2>2, <2>3
<1>2. PICK t \in T : \A u \in T : t <= u
  BY <1>1, LeastExists
<1>3. PICK x \in S : t = n - x
  OBVIOUS
<1>4. ASSUME NEW y \in S PROVE x >= y
  <2>1. n - x <= n - y
    BY <1>2, <1>3
  <2> QED BY <2>1
<1> QED BY <1>4 DEF Max

\* The smaller of two numbers: the size of a mapping, the bytes of a read().
LEMMA MinOfTwo ==
  ASSUME NEW a \in Int, NEW b \in Int
  PROVE  /\ Min({a, b}) \in {a, b}
         /\ Min({a, b}) <= a /\ Min({a, b}) <= b
<1>1. \E x \in {a, b} : \A y \in {a, b} : x <= y
  OBVIOUS
<1> QED BY <1>1 DEF Min

-----------------------------------------------------------------------------
(* Whole pages *)

\* Division: the part of a position that MMapShift calls ignore.
LEMMA Remainder ==
  ASSUME NEW a \in Nat, NEW p \in Nat \ {0}
  PROVE  /\ a % p \in 0..(p - 1)
         /\ a \div p \in Nat
         /\ a = (p * (a \div p)) + (a % p)
OBVIOUS

\* The page a position is in.
LEMMA PageOrder ==
  ASSUME NEW p \in Nat \ {0}, NEW q \in Nat, NEW r \in 0..(p - 1), NEW k \in Nat,
         (p * q) + r >= p * k
  PROVE  q >= k
<1>1. SUFFICES ASSUME q + 1 <= k PROVE FALSE
  OBVIOUS
<1>2. p * (q + 1) <= p * k
  BY <1>1
<1> QED BY <1>2

\* The beginning of a page is one.
LEMMA PageStart ==
  ASSUME NEW p \in Nat \ {0}, NEW q \in Nat
  PROVE  (p * q) % p = 0
<1>1. PICK a \in Nat : a = p * q
  OBVIOUS
<1>2. PICK d \in Nat : d = a \div p
  BY Remainder
<1>3. PICK r \in 0..(p - 1) : r = a % p
  BY Remainder
<1>4. a = (p * d) + r
  BY <1>2, <1>3, Remainder
<1>5. (p * d) + r >= p * q /\ (p * q) + 0 >= p * d
  BY <1>1, <1>4
<1>6. d >= q /\ q >= d
  BY <1>5, PageOrder
<1> QED BY <1>1, <1>3, <1>4, <1>6

\* A mapping begins at a page at or before the desired position, and not before
\* the mapping it replaces.
LEMMA WholePages ==
  ASSUME NEW p \in Nat \ {0}, NEW a \in Nat, a % p = 0, NEW b \in Nat, b >= a
  PROVE  /\ b % p \in Nat /\ b - (b % p) \in Nat
         /\ b - (b % p) >= a
         /\ (b - (b % p)) % p = 0
<1>1. PICK k \in Nat : k = a \div p /\ a = p * k
  BY Remainder
<1>2. PICK r \in 0..(p - 1) : r = b % p
  BY Remainder
<1>3. PICK q \in Nat : b = (p * q) + r
  BY <1>2, Remainder
<1>4. PICK c \in Nat : c = p * q
  OBVIOUS
<1>5. q >= k
  BY <1>1, <1>3, PageOrder
<1>6. p * q >= p * k
  BY <1>5
<1>7. c % p = 0
  BY <1>4, PageStart
<1> QED BY <1>1, <1>2, <1>3, <1>4, <1>6, <1>7

-----------------------------------------------------------------------------
(* Searches *)

\* What std::find and the loops over kSpaces return: the first of the bytes
\* behind position p, or the end.
LEMMA NextFacts ==
  ASSUME NEW C, NEW s \in Seq(C), NEW p \in Nat, NEW bytes
  PROVE  /\ NextOf(s, p, bytes) \in 1..(Len(s) + 1)
         /\ NextOf(s, p, bytes) <= Len(s) =>
              NextOf(s, p, bytes) > p /\ s[NextOf(s, p, bytes)] \in bytes
         /\ \A j \in (p + 1)..Len(s) : j < NextOf(s, p, bytes) => s[j] \notin bytes
<1> DEFINE S == {j \in (p + 1)..Len(s) : s[j] \in bytes} \cup {Len(s) + 1}
<1>1. S \in SUBSET Nat /\ S # {} /\ Len(s) + 1 \in S
  OBVIOUS
<1>2. Min(S) \in S /\ \A y \in S : Min(S) <= y
  BY <1>1, MinFacts
<1>3. NextOf(s, p, bytes) = Min(S)
  BY DEF NextOf
<1>4. PICK n : n = Min(S)
  OBVIOUS
<1>5. n \in 1..(Len(s) + 1) /\ (n <= Len(s) => n > p /\ s[n] \in bytes)
  BY <1>1, <1>2, <1>4
<1>6. ASSUME NEW j \in (p + 1)..Len(s), j < n PROVE s[j] \notin bytes
  <2>1. j \in S => n <= j
    BY <1>2, <1>4
  <2> QED BY <1>5, <1>6, <2>1
<1> QED BY <1>3, <1>4, <1>5, <1>6

\* The first of the bytes is found wherever the search begins, if there is none
\* before it.
LEMMA NextIs ==
  ASSUME NEW C, NEW s \in Seq(C), NEW p \in Nat, NEW bytes,
         NEW n \in (p + 1)..(Len(s) + 1),
         n <= Len(s) => s[n] \in bytes,
         \A j \in (p + 1)..(n - 1) : s[j] \notin bytes
  PROVE  NextOf(s, p, bytes) = n
<1>1. PICK m : m = NextOf(s, p, bytes)
  OBVIOUS
<1>2. /\ m \in 1..(Len(s) + 1)
      /\ m <= Len(s) => m > p /\ s[m] \in bytes
      /\ \A j \in (p + 1)..Len(s) : j < m => s[j] \notin bytes
  BY <1>1, NextFacts
<1>3. ~(m < n)
  <2>1. SUFFICES ASSUME m < n PROVE FALSE
    OBVIOUS
  <2>2. m \in (p + 1)..(n - 1) /\ m <= Len(s)
    BY <1>2, <2>1
  <2> QED BY <1>2, <2>2
<1>4. ~(n < m)
  BY <1>2
<1> QED BY <1>1, <1>2, <1>3, <1>4

-----------------------------------------------------------------------------
(* The file and the window *)

\* The constants and the variables that are numbers or sequences.
LEMMA Types ==
  ASSUME TypeOK
  PROVE  /\ MaxLength \in Nat /\ PageSize \in Nat /\ PageSize > 0
         /\ file \in Seq(Chars) /\ Len(file) \in Nat /\ Len(file) <= MaxLength
         /\ data \in Seq(Chars) /\ Len(data) \in Nat
         /\ pos \in Nat /\ pos <= Len(data)
         /\ offset \in Nat /\ taken \in Nat /\ mapSize \in Nat /\ Len(data) <= mapSize
         /\ lastSpace \in Nat /\ lastSpace <= Len(data)
         /\ skip \in Nat /\ from \in Nat
<1>1. MaxLength \in Nat /\ PageSize \in Nat /\ PageSize > 0
  BY SizeAssumption
<1>2. PICK n \in 0..MaxLength : file \in [1..n -> Chars]
  BY DEF TypeOK, Files
<1>3. file \in Seq(Chars) /\ Len(file) = n
  BY <1>1, <1>2
<1>4. data \in Seq(Chars) /\ Len(data) \in Nat
  BY DEF TypeOK
<1>5. pos \in Nat /\ pos <= Len(data) /\ lastSpace \in Nat /\ lastSpace <= Len(data)
  BY <1>4 DEF TypeOK
<1>6. /\ offset \in Nat /\ taken \in Nat /\ mapSize \in Nat /\ Len(data) <= mapSize
      /\ skip \in Nat /\ from \in Nat
  BY <1>1, <1>4 DEF TypeOK
<1> QED BY <1>1, <1>2, <1>3, <1>4, <1>5, <1>6

\* Where the window lies.
LEMMA BaseFacts ==
  ASSUME TypeOK, WindowAt
  PROVE  /\ Base \in Nat
         /\ Base + Len(data) <= Len(file)
         /\ Base + pos \in Nat /\ Base + pos <= Base + Len(data)
<1>1. CASE fallback
  <2>1. PICK b : b = Base
    OBVIOUS
  <2>2. b = taken - Len(data) /\ taken <= Len(file) /\ offset + Len(data) <= taken
    BY <1>1, <2>1 DEF Base, WindowAt
  <2>3. b \in Nat /\ b + Len(data) <= Len(file) /\ b + pos \in Nat /\ b + pos <= b + Len(data)
    <3>1. /\ Len(data) \in Nat /\ pos \in Nat /\ pos <= Len(data)
          /\ offset \in Nat /\ taken \in Nat /\ Len(file) \in Nat
      BY Types
    <3> QED BY ONLY <2>2, <3>1
  <2> QED BY ONLY <2>1, <2>3
<1>2. CASE ~fallback
  <2>1. Base = offset /\ offset + Len(data) <= Len(file)
    BY <1>2 DEF Base, WindowAt
  <2> QED BY <2>1, Types
<1> QED BY <1>1, <1>2

\* A part of the file is a sequence of bytes.
LEMMA PartFacts ==
  ASSUME NEW C, NEW s \in Seq(C), NEW a \in Nat, NEW n \in Nat, a + n <= Len(s)
  PROVE  /\ SubSeq(s, a + 1, a + n) \in Seq(C)
         /\ Len(SubSeq(s, a + 1, a + n)) = n
         /\ \A i \in 1..n : SubSeq(s, a + 1, a + n)[i] = s[a + i]
<1>1. \A i \in (a + 1)..(a + n) : s[i] \in C
  <2>1. ASSUME NEW i \in (a + 1)..(a + n) PROVE i \in 1..Len(s)
    OBVIOUS
  <2> QED BY <2>1, ElementOfSeq
<1>2. a + 1 \in Int /\ a + n \in Int /\ (a + n) - (a + 1) + 1 = n
  OBVIOUS
<1>3. /\ SubSeq(s, a + 1, a + n) \in Seq(C)
      /\ Len(SubSeq(s, a + 1, a + n)) = IF a + 1 <= a + n THEN (a + n) - (a + 1) + 1 ELSE 0
      /\ \A i \in 1..((a + n) - (a + 1) + 1) : SubSeq(s, a + 1, a + n)[i] = s[(a + 1) + i - 1]
  BY <1>1, <1>2, SubSeqProperties
<1>4. Len(SubSeq(s, a + 1, a + n)) = n
  BY <1>3
<1>5. ASSUME NEW i \in 1..n PROVE SubSeq(s, a + 1, a + n)[i] = s[a + i]
  <2>1. (a + 1) + i - 1 = a + i /\ i \in 1..((a + n) - (a + 1) + 1)
    OBVIOUS
  <2> QED BY <1>3, <2>1
<1> QED BY <1>3, <1>4, <1>5

\* A text between two positions of the window is that of the file.
LEMMA SameText ==
  ASSUME NEW C, NEW d \in Seq(C), NEW f \in Seq(C), NEW b \in Nat,
         b + Len(d) <= Len(f), \A i \in 1..Len(d) : d[i] = f[b + i],
         NEW p \in 0..Len(d), NEW q \in p..Len(d)
  PROVE  SubSeq(d, p + 1, q) = SubSeq(f, b + p + 1, b + q)
<1>1. PICK n \in Nat : q = p + n
  <2>1. q - p \in Nat /\ q = p + (q - p)
    OBVIOUS
  <2> QED BY <2>1
<1>2. PICK a \in Nat : a = b + p
  OBVIOUS
<1>3. p \in Nat /\ p + n <= Len(d) /\ a + n <= Len(f) /\ b + q = a + n /\ b + p + 1 = a + 1
  BY <1>1, <1>2
<1>4. /\ SubSeq(d, p + 1, p + n) \in Seq(C) /\ Len(SubSeq(d, p + 1, p + n)) = n
      /\ \A i \in 1..n : SubSeq(d, p + 1, p + n)[i] = d[p + i]
  BY <1>3, PartFacts
<1>5. /\ SubSeq(f, a + 1, a + n) \in Seq(C) /\ Len(SubSeq(f, a + 1, a + n)) = n
      /\ \A i \in 1..n : SubSeq(f, a + 1, a + n)[i] = f[a + i]
  BY <1>3, PartFacts
<1>6. ASSUME NEW i \in 1..n PROVE d[p + i] = f[a + i]
  <2>1. p + i \in 1..Len(d) /\ b + (p + i) = a + i
    BY <1>2, <1>3
  <2> QED BY <2>1
<1>7. SubSeq(d, p + 1, p + n) = SubSeq(f, a + 1, a + n)
  <2> DEFINE t == SubSeq(d, p + 1, p + n)
             u == SubSeq(f, a + 1, a + n)
  <2>1. t \in Seq(C) /\ u \in Seq(C) /\ Len(t) = Len(u) /\ Len(t) = n
    BY <1>4, <1>5
  <2>2. \A i \in 1..n : t[i] = u[i]
    BY <1>4, <1>5, <1>6
  <2> HIDE DEF t, u
  <2>3. t = u
    BY <2>1, <2>2, SeqEqual
  <2> QED BY <2>3 DEF t, u
<1> QED BY <1>1, <1>3, <1>7

\* The window shows the file.
LEMMA Shown ==
  ASSUME TypeOK, WindowAt, WindowShowsFile
  PROVE  /\ \A i \in 1..Len(data) : data[i] = file[Base + i]
         /\ \A j \in (Base + 1)..(Base + Len(data)) : file[j] = data[j - Base]
<1>1. \A i \in 1..Len(data) : data[i] = file[Base + i]
  BY DEF WindowShowsFile
<1>2. PICK b \in Nat : b = Base
  BY BaseFacts
<1>3. ASSUME NEW j \in (b + 1)..(b + Len(data)) PROVE file[j] = data[j - b]
  <2>1. j - b \in 1..Len(data) /\ b + (j - b) = j
    BY Types
  <2> QED BY <1>1, <1>2, <2>1
<1> QED BY <1>1, <1>2, <1>3

-----------------------------------------------------------------------------
(* Shift *)

\* The part of the type invariant that is about the window.
WindowType ==
    /\ fallback \in BOOLEAN
    /\ data \in Seq(Chars)
    /\ pos \in 0..Len(data)
    /\ offset \in 0..MaxLength
    /\ mapSize \in PageSize..(2 * (MaxLength + 2 * PageSize))
    /\ Len(data) <= mapSize
    /\ atEnd \in BOOLEAN
    /\ lastSpace \in 0..Len(data)
    /\ taken \in 0..MaxLength

\* last_space_ is a space, if it is behind position_.
LEMMA LastSpaceFacts ==
  ASSUME NEW d \in Seq(Chars), NEW p \in 0..Len(d)
  PROVE  /\ LastSpace(d, p) \in p..Len(d)
         /\ LastSpace(d, p) > p => d[LastSpace(d, p)] \in Spaces
<1> DEFINE S == {i \in (p + 1)..Len(d) : d[i] \in Spaces} \cup {p}
<1>1. S \in SUBSET Nat /\ S # {} /\ \A y \in S : y <= Len(d)
  OBVIOUS
<1>2. Max(S) \in S
  <2>1. Len(d) \in Nat
    OBVIOUS
  <2> HIDE DEF S
  <2> QED BY <1>1, <2>1, MaxIsMember
<1>3. PICK m : m = Max(S)
  OBVIOUS
<1>4. m \in p..Len(d) /\ (m > p => d[m] \in Spaces)
  BY <1>2, <1>3
<1> QED BY <1>3, <1>4 DEF LastSpace

\* What read() adds to a buffer d that shows the file up to position a.
LEMMA FilledFacts ==
  ASSUME NEW f \in Seq(Chars), NEW d \in Seq(Chars), NEW a \in Nat, NEW n \in Nat,
         a + n <= Len(f), Len(d) <= a,
         \A i \in 1..Len(d) : d[i] = f[a - Len(d) + i],
         NEW s, s = d \o SubSeq(f, a + 1, a + n)
  PROVE  /\ s \in Seq(Chars) /\ Len(s) = Len(d) + n
         /\ \A i \in 1..(Len(d) + n) : s[i] = f[a - Len(d) + i]
<1> DEFINE t == SubSeq(f, a + 1, a + n)
<1>1. t \in Seq(Chars) /\ Len(t) = n /\ \A i \in 1..n : t[i] = f[a + i]
  BY PartFacts
<1> HIDE DEF t
<1>2. /\ d \o t \in Seq(Chars) /\ Len(d \o t) = Len(d) + n
      /\ \A i \in 1..(Len(d) + n) : (d \o t)[i] = IF i <= Len(d) THEN d[i] ELSE t[i - Len(d)]
  BY <1>1, ConcatProperties
<1>3. ASSUME NEW i \in 1..(Len(d) + n) PROVE (d \o t)[i] = f[a - Len(d) + i]
  <2>1. CASE i <= Len(d)
    <3>1. i \in 1..Len(d)
      BY <2>1
    <3> QED BY <1>2, <2>1, <3>1
  <2>2. CASE ~(i <= Len(d))
    <3>1. i - Len(d) \in 1..n /\ a + (i - Len(d)) = a - Len(d) + i
      BY <2>2
    <3> QED BY <1>1, <1>2, <2>2, <3>1
  <2> QED BY <2>1, <2>2
<1>4. s = d \o t
  BY DEF t
<1> QED BY ONLY <1>2, <1>3, <1>4

\* The window after a Shift: it shows the file from the same position on.
Shifted ==
    /\ WindowType'
    /\ WindowShowsFile'
    /\ WindowAt'
    /\ Base' + pos' = Base + pos
    /\ fallback' /\ atEnd' /\ pos = Len(data) => pos' = Len(data')

\* Before a Shift: what is known of the window, and the size that MMapShift asks for.
LEMMA EnlargedFacts ==
  ASSUME TypeOK, WindowAt, ~atEnd, ~fallback, NEW ignore
  PROVE  /\ Enlarged(ignore) \in PageSize..(2 * (MaxLength + 2 * PageSize))
         /\ Enlarged(ignore) \in Nat /\ mapSize <= Enlarged(ignore)
         /\ op # "open" => Len(data) = mapSize
<1>1. /\ MaxLength \in Nat /\ PageSize \in Nat /\ PageSize > 0 /\ mapSize \in Nat
      /\ Len(file) <= MaxLength /\ Len(file) \in Nat /\ offset \in Nat
      /\ PageSize <= mapSize /\ mapSize <= 2 * (MaxLength + 2 * PageSize)
  BY Types DEF TypeOK
<1>2. op # "open" => Len(data) = mapSize /\ offset + mapSize < Len(file)
  BY DEF WindowAt
<1>3. Enlarged(ignore) = mapSize \/ (op # "open" /\ Enlarged(ignore) = 2 * mapSize)
  BY DEF Enlarged
<1> QED BY <1>1, <1>2, <1>3

\* A mapping of whole pages shows the file, and all that the one before it
\* showed from the position on.
LEMMA MMapShiftFacts ==
  ASSUME TypeOK, WindowAt, ~atEnd, MMapShift, file' = file, op' # "open"
  PROVE  Shifted /\ Len(data') - pos' >= Len(data) - pos
<1>1. /\ MaxLength \in Nat /\ PageSize \in Nat \ {0} /\ file \in Seq(Chars)
      /\ Len(file) \in Nat /\ Len(file) <= MaxLength /\ Len(data) \in Nat
      /\ pos \in Nat /\ pos <= Len(data) /\ offset \in Nat /\ mapSize \in Nat
      /\ taken \in 0..MaxLength
  BY Types DEF TypeOK
<1>2. ~fallback /\ fallback' = fallback /\ taken' = taken
  BY DEF MMapShift
<1>3. /\ offset + Len(data) <= Len(file) /\ offset % PageSize = 0
      /\ op = "open" => pos = 0 /\ offset = 0 /\ Len(data) = 0
  BY <1>2 DEF WindowAt
<1>4. PICK desired \in Nat : desired = pos + offset /\ desired >= offset /\ desired <= Len(file)
  BY <1>1, <1>3
<1>5. PICK ignore : ignore = desired % PageSize
  OBVIOUS
<1>6. PICK base : base = desired - ignore
  OBVIOUS
<1>7. ignore \in Nat /\ base \in Nat /\ base >= offset /\ base % PageSize = 0
  BY <1>1, <1>3, <1>4, <1>5, <1>6, WholePages
<1>8. PICK size : size = Min({Enlarged(ignore), Len(file) - base})
  OBVIOUS
<1>9. PICK e : e = Enlarged(ignore)
  OBVIOUS
<1>10. /\ e \in PageSize..(2 * (MaxLength + 2 * PageSize)) /\ e \in Nat /\ mapSize <= e
       /\ op # "open" => Len(data) = mapSize
  BY <1>2, <1>9, EnlargedFacts
<1>11. /\ size > 0 /\ mapSize' = e /\ atEnd' = (size = Len(file) - base)
       /\ data' = SubSeq(file, base + 1, base + size)
       /\ offset' = base /\ pos' = ignore
       /\ lastSpace' = LastSpace(data', pos')
  BY <1>4, <1>5, <1>6, <1>8, <1>9 DEF MMapShift
<1>12. /\ size = e \/ size = Len(file) - base
       /\ size <= e /\ size <= Len(file) - base
  <2>1. Len(file) - base \in Int /\ e \in Int
    BY <1>1, <1>7, <1>10
  <2> QED BY <1>8, <1>9, <2>1, MinOfTwo
<1>13. size \in Nat /\ base + size <= Len(file)
  BY <1>1, <1>7, <1>10, <1>11, <1>12
<1>14. /\ data' \in Seq(Chars) /\ Len(data') = size
       /\ \A i \in 1..size : data'[i] = file[base + i]
  BY <1>1, <1>7, <1>11, <1>13, PartFacts
<1>15. base + size >= offset + Len(data)
  <2>1. CASE size = Len(file) - base
    BY <1>1, <1>3, <1>7, <2>1
  <2>2. CASE size = e
    BY <1>1, <1>3, <1>7, <1>10, <2>2
  <2> QED BY <1>12, <2>1, <2>2
<1>16. ignore <= size /\ size - ignore >= Len(data) - pos /\ base + ignore = offset + pos
  BY <1>1, <1>4, <1>6, <1>7, <1>13, <1>15
<1>17. /\ lastSpace' \in 0..Len(data')
       /\ lastSpace' > pos' => data'[lastSpace'] \in Spaces
  <2>1. data' \in Seq(Chars) /\ pos' \in 0..Len(data')
    BY <1>7, <1>11, <1>13, <1>14, <1>16
  <2>2. /\ LastSpace(data', pos') \in pos'..Len(data')
        /\ LastSpace(data', pos') > pos' => data'[LastSpace(data', pos')] \in Spaces
    BY <2>1, LastSpaceFacts
  <2>3. pos' \in Nat /\ Len(data') \in Nat
    BY <2>1
  <2>4. PICK l : l = LastSpace(data', pos')
    OBVIOUS
  <2>5. l \in 0..Len(data') /\ (l > pos' => data'[l] \in Spaces)
    BY ONLY <2>2, <2>3, <2>4
  <2>6. lastSpace' = l
    BY <1>11, <2>4
  <2> QED BY ONLY <2>5, <2>6
<1>18. Base = offset /\ Base' = base
  BY <1>2, <1>11 DEF Base
<1>19. WindowType'
  <2>1. pos' \in 0..Len(data') /\ Len(data') <= mapSize' /\ offset' \in 0..MaxLength
    BY <1>1, <1>7, <1>11, <1>12, <1>13, <1>14, <1>16
  <2>2. atEnd' \in BOOLEAN /\ fallback' \in BOOLEAN
    BY <1>2, <1>11 DEF TypeOK
  <2>3. mapSize' \in PageSize..(2 * (MaxLength + 2 * PageSize)) /\ taken' \in 0..MaxLength
    BY <1>1, <1>2, <1>10, <1>11
  <2> QED BY <1>14, <1>17, <2>1, <2>2, <2>3 DEF WindowType
<1>20. WindowShowsFile'
  <2>1. ASSUME NEW i \in 1..size PROVE base + i \in 1..Len(file)
    BY <1>1, <1>7, <1>13
  <2> QED BY <1>14, <1>18, <2>1 DEF WindowShowsFile
<1>21. WindowAt'
  <2>1. offset' + Len(data') <= Len(file') /\ offset' % PageSize = 0
    BY <1>7, <1>11, <1>13, <1>14
  <2>2. atEnd' => Base' + Len(data') = Len(file')
    <3>1. SUFFICES ASSUME atEnd' PROVE Base' + Len(data') = Len(file')
      OBVIOUS
    <3>2. size = Len(file) - base
      BY <1>11, <3>1
    <3>3. base + size = Len(file)
      BY <1>1, <1>7, <1>13, <3>2
    <3> QED BY <1>14, <1>18, <3>3
  <2>3. ~atEnd' => Len(data') = mapSize' /\ offset' + mapSize' < Len(file')
    <3>1. SUFFICES ASSUME ~atEnd' PROVE Len(data') = mapSize' /\ offset' + mapSize' < Len(file')
      OBVIOUS
    <3>2. size # Len(file) - base
      BY <1>11, <3>1
    <3>3. size = e /\ base + size < Len(file)
      BY <1>1, <1>7, <1>12, <1>13, <3>2
    <3> QED BY <1>11, <1>14, <3>3
  <2> QED BY <1>2, <1>17, <2>1, <2>2, <2>3 DEF WindowAt
<1>22. Base' + pos' = Base + pos /\ Len(data') - pos' >= Len(data) - pos
  BY <1>1, <1>11, <1>14, <1>16, <1>18
<1> QED BY <1>2, <1>19, <1>20, <1>21, <1>22 DEF Shifted

\* read() of as much as there is room for puts the bytes that follow in the file
\* behind the bytes d that the buffer keeps.
LEMMA ReadFacts ==
  ASSUME TypeOK, NEW d \in Seq(Chars), NEW p \in 0..Len(d), NEW start \in Nat,
         NEW size \in PageSize..(2 * (MaxLength + 2 * PageSize)), Len(d) <= size,
         NEW at \in Nat, at <= Len(file), start + Len(d) <= at,
         \A i \in 1..Len(d) : d[i] = file[at - Len(d) + i],
         NEW n \in ReadSizes(size - Len(d), at),
         fallback' = TRUE, data' = d \o SubSeq(file, at + 1, at + n), taken' = at + n,
         atEnd' \in BOOLEAN, atEnd' <=> n = 0, pos' = p, offset' = start, mapSize' = size,
         lastSpace' = LastSpace(data', pos'), file' = file, op' # "open"
  PROVE  /\ WindowType' /\ WindowShowsFile' /\ WindowAt'
         /\ Base' = at - Len(d) /\ Len(data') = Len(d) + n /\ n \in Nat
         /\ atEnd' => n = 0
<1>1. /\ MaxLength \in Nat /\ PageSize \in Nat /\ PageSize > 0 /\ file \in Seq(Chars)
      /\ Len(file) \in Nat /\ Len(file) <= MaxLength
  BY Types
<1>2. Len(d) \in Nat /\ size \in Nat /\ p \in Nat /\ p <= Len(d) /\ Len(d) <= at
  BY <1>1
<1>3. n \in Nat /\ at + n <= Len(file) /\ Len(d) + n <= size /\ (n = 0 => at = Len(file))
  <2>1. CASE at = Len(file)
    <3>1. n = 0
      BY <2>1 DEF ReadSizes
    <3> QED BY <1>1, <1>2, <2>1, <3>1
  <2>2. CASE at # Len(file)
    <3>1. n \in 1..Min({size - Len(d), Len(file) - at})
      BY <2>2 DEF ReadSizes
    <3>2. PICK m : m = Min({size - Len(d), Len(file) - at})
      OBVIOUS
    <3>3. size - Len(d) \in Int /\ Len(file) - at \in Int
      BY <1>1, <1>2
    <3>4. m \in Int /\ m <= size - Len(d) /\ m <= Len(file) - at
      BY <3>2, <3>3, MinOfTwo
    <3>5. n \in 1..m
      BY <3>1, <3>2
    <3> QED BY <1>1, <1>2, <3>4, <3>5
  <2> QED BY <2>1, <2>2
<1>4. /\ data' \in Seq(Chars) /\ Len(data') = Len(d) + n
      /\ \A i \in 1..(Len(d) + n) : data'[i] = file[at - Len(d) + i]
  <2>1. /\ d \in Seq(Chars) /\ at \in Nat /\ data' = d \o SubSeq(file, at + 1, at + n)
        /\ \A i \in 1..Len(d) : d[i] = file[at - Len(d) + i]
    OBVIOUS
  <2>2. file \in Seq(Chars) /\ n \in Nat /\ at + n <= Len(file) /\ Len(d) <= at
    BY <1>1, <1>2, <1>3
  <2>3. PICK s : s = data'
    OBVIOUS
  <2>4. s = d \o SubSeq(file, at + 1, at + n)
    BY ONLY <2>1, <2>3
  <2>5. /\ s \in Seq(Chars) /\ Len(s) = Len(d) + n
        /\ \A i \in 1..(Len(d) + n) : s[i] = file[at - Len(d) + i]
    BY ONLY <2>1, <2>2, <2>4, FilledFacts
  <2> QED BY ONLY <2>3, <2>5
<1>5. pos' \in 0..Len(data') /\ Len(data') \in Nat
  <2>1. Len(data') = Len(d) + n /\ pos' = p
    BY <1>4
  <2> QED BY ONLY <1>2, <1>3, <2>1
<1>6. /\ lastSpace' \in 0..Len(data')
      /\ lastSpace' > pos' => data'[lastSpace'] \in Spaces
  <2>1. /\ LastSpace(data', pos') \in pos'..Len(data')
        /\ LastSpace(data', pos') > pos' => data'[LastSpace(data', pos')] \in Spaces
    BY <1>4, <1>5, LastSpaceFacts
  <2>2. PICK l : l = LastSpace(data', pos')
    OBVIOUS
  <2>3. pos' \in Nat
    BY <1>2
  <2>4. l \in 0..Len(data') /\ (l > pos' => data'[l] \in Spaces)
    BY ONLY <1>5, <2>1, <2>2, <2>3
  <2>5. lastSpace' = l
    BY <2>2
  <2> QED BY ONLY <2>4, <2>5
<1>7. PICK base \in Nat : base = at - Len(d)
  <2>1. at \in Nat
    OBVIOUS
  <2>2. at - Len(d) \in Nat
    BY ONLY <1>2, <2>1
  <2> QED BY ONLY <2>2
<1>8. Base' = base
  <2>1. Base' = taken' - Len(data')
    BY DEF Base
  <2> QED BY <1>2, <1>3, <1>4, <1>7, <2>1
<1>9. WindowType'
  <2>1. start \in 0..MaxLength /\ at + n \in 0..MaxLength /\ Len(data') <= size
    BY <1>1, <1>2, <1>3, <1>4
  <2>2. atEnd' \in BOOLEAN /\ fallback' \in BOOLEAN
    OBVIOUS
  <2> QED BY <1>4, <1>5, <1>6, <2>1, <2>2 DEF WindowType
<1>10. WindowShowsFile'
  <2>1. ASSUME NEW i \in 1..(Len(d) + n) PROVE base + i \in 1..Len(file)
    <3>1. i \in Nat /\ i > 0 /\ i <= Len(d) + n /\ at \in Nat
      BY <1>2, <1>3
    <3> QED BY ONLY <1>1, <1>2, <1>3, <1>7, <3>1
  <2>2. \A i \in 1..(Len(d) + n) : data'[i] = file[base + i]
    BY <1>4, <1>7
  <2> QED BY <1>4, <1>8, <2>1, <2>2 DEF WindowShowsFile
<1>11. WindowAt'
  <2>1. taken' <= Len(file') /\ offset' + Len(data') <= taken'
    <3>1. /\ Len(data') = Len(d) + n /\ taken' = at + n /\ offset' = start /\ file' = file
          /\ start \in Nat /\ at \in Nat /\ start + Len(d) <= at
      BY <1>4
    <3>2. start + (Len(d) + n) <= at + n
      BY ONLY <1>2, <1>3, <3>1
    <3> QED BY ONLY <1>3, <3>1, <3>2
  <2>2. atEnd' => Base' + Len(data') = Len(file')
    <3>1. SUFFICES ASSUME n = 0 PROVE Base' + Len(data') = Len(file')
      OBVIOUS
    <3>2. base + (Len(d) + n) = Len(file)
      BY <1>1, <1>2, <1>3, <1>7, <3>1
    <3> QED BY <1>4, <1>8, <3>2
  <2> QED BY <1>6, <2>1, <2>2 DEF WindowAt
<1> QED BY <1>3, <1>4, <1>7, <1>8, <1>9, <1>10, <1>11

\* A buffer k that has everything of the window behind the position.
KeptOK(k) ==
    /\ k.data \in Seq(Chars) /\ Len(k.data) <= Len(data)
    /\ k.pos \in 0..Len(k.data)
    /\ Len(k.data) - k.pos = Len(data) - pos
    /\ k.offset \in Nat /\ k.offset + Len(k.data) <= taken
    /\ k.size \in PageSize..(2 * (MaxLength + 2 * PageSize)) /\ Len(k.data) <= k.size
    /\ \A i \in 1..Len(k.data) : k.data[i] = data[Len(data) - Len(k.data) + i]
    /\ pos = Len(data) => Len(k.data) = 0

\* What ReadShift keeps of a buffer: all that follows the position.
LEMMA KeptFacts ==
  ASSUME TypeOK, WindowAt, ~atEnd, fallback
  PROVE  KeptOK(Kept)
<1>1. /\ MaxLength \in Nat /\ PageSize \in Nat /\ PageSize > 0
      /\ Len(file) \in Nat /\ Len(file) <= MaxLength
      /\ data \in Seq(Chars) /\ Len(data) \in Nat
      /\ pos \in Nat /\ pos <= Len(data) /\ offset \in Nat /\ taken \in Nat
      /\ mapSize \in PageSize..(2 * (MaxLength + 2 * PageSize)) /\ Len(data) <= mapSize
  BY Types DEF TypeOK
<1>2. taken <= Len(file) /\ offset + Len(data) <= taken
  BY DEF WindowAt
<1>3. CASE pos = Len(data)
  <2>1. PICK k : k = [data |-> <<>>, pos |-> 0, offset |-> offset + Len(data), size |-> mapSize]
    OBVIOUS
  <2>2. /\ k.data \in Seq(Chars) /\ Len(k.data) = 0 /\ k.pos = 0
        /\ k.offset = offset + Len(data) /\ k.size = mapSize
    BY <2>1
  <2>3. Kept = k
    BY <1>3, <2>1 DEF Kept
  <2>4. KeptOK(k)
    BY ONLY <1>1, <1>2, <1>3, <2>2 DEF KeptOK
  <2> QED BY <2>3, <2>4
<1>4. CASE pos # Len(data) /\ Len(data) < mapSize
  <2>1. PICK k : k = [data |-> data, pos |-> pos, offset |-> offset, size |-> mapSize]
    OBVIOUS
  <2>2. k.data = data /\ k.pos = pos /\ k.offset = offset /\ k.size = mapSize
    BY <2>1
  <2>3. Kept = k
    BY <1>4, <2>1 DEF Kept
  <2>4. \A i \in 1..Len(data) : Len(data) - Len(data) + i = i
    BY <1>1
  <2>5. KeptOK(k)
    BY ONLY <1>1, <1>2, <1>4, <2>2, <2>4 DEF KeptOK
  <2> QED BY <2>3, <2>5
<1>5. CASE pos # Len(data) /\ ~(Len(data) < mapSize) /\ pos = 0
  <2>1. PICK k : k = [data |-> data, pos |-> 0, offset |-> offset, size |-> 2 * mapSize]
    OBVIOUS
  <2>2. k.data = data /\ k.pos = 0 /\ k.offset = offset /\ k.size = 2 * mapSize
    BY <2>1
  <2>3. Kept = k
    BY <1>5, <2>1 DEF Kept
  <2>4. \A i \in 1..Len(data) : Len(data) - Len(data) + i = i
    BY <1>1
  <2>5. mapSize = Len(data) /\ 2 * mapSize \in PageSize..(2 * (MaxLength + 2 * PageSize))
    BY <1>1, <1>2, <1>5
  <2>6. KeptOK(k)
    BY ONLY <1>1, <1>2, <1>5, <2>2, <2>4, <2>5 DEF KeptOK
  <2> QED BY <2>3, <2>6
<1>6. CASE pos # Len(data) /\ ~(Len(data) < mapSize) /\ pos # 0
  <2>1. PICK n \in Nat : Len(data) = pos + n
    <3>1. Len(data) - pos \in Nat /\ Len(data) = pos + (Len(data) - pos)
      BY <1>1
    <3> QED BY <3>1
  <2>2. PICK rest : rest = SubSeq(data, pos + 1, pos + n)
    OBVIOUS
  <2>3. rest \in Seq(Chars) /\ Len(rest) = n /\ \A i \in 1..n : rest[i] = data[pos + i]
    BY <1>1, <2>1, <2>2, PartFacts
  <2>4. PICK k : k = [data |-> rest, pos |-> 0, offset |-> offset, size |-> mapSize]
    OBVIOUS
  <2>5. k.data = rest /\ k.pos = 0 /\ k.offset = offset /\ k.size = mapSize
    BY <2>4
  <2>6. Kept = k
    BY <1>6, <2>1, <2>2, <2>4 DEF Kept
  <2>7. \A i \in 1..n : Len(data) - n + i = pos + i
    BY <1>1, <2>1
  <2>8. /\ n <= Len(data) /\ 0 \in 0..n /\ n - 0 = Len(data) - pos
        /\ offset + n <= taken /\ n <= mapSize
    BY <1>1, <1>2, <2>1
  <2>9. KeptOK(k)
    BY ONLY <1>1, <1>6, <2>3, <2>5, <2>7, <2>8 DEF KeptOK
  <2> QED BY <2>6, <2>9
<1> QED BY <1>3, <1>4, <1>5, <1>6

\* read() appends to what is kept: nothing is lost and nothing comes twice.
LEMMA ReadShiftFacts ==
  ASSUME TypeOK, WindowAt, WindowShowsFile, ~atEnd, ReadShift, file' = file, op' # "open"
  PROVE  Shifted /\ Len(data') - pos' >= Len(data) - pos
<1>1. PICK k : k = Kept
  OBVIOUS
<1>2. fallback /\ fallback' = TRUE
  BY DEF ReadShift, TypeOK
<1>3. KeptOK(k)
  BY <1>1, <1>2, KeptFacts
<1>4. PICK d, p, start, size : d = k.data /\ p = k.pos /\ start = k.offset /\ size = k.size
  OBVIOUS
<1>5. PICK n \in ReadSizes(size - Len(d), taken) :
        /\ data' = d \o SubSeq(file, taken + 1, taken + n)
        /\ taken' = taken + n /\ atEnd' = (n = 0)
  BY <1>1, <1>4 DEF ReadShift, Filled
<1>6. pos' = p /\ offset' = start /\ mapSize' = size /\ lastSpace' = LastSpace(data', pos')
  BY <1>1, <1>4 DEF ReadShift
<1>7. /\ d \in Seq(Chars) /\ Len(d) <= Len(data)
      /\ p \in 0..Len(d) /\ Len(d) - p = Len(data) - pos
      /\ start \in Nat /\ start + Len(d) <= taken
      /\ size \in PageSize..(2 * (MaxLength + 2 * PageSize)) /\ Len(d) <= size
      /\ \A i \in 1..Len(d) : d[i] = data[Len(data) - Len(d) + i]
      /\ pos = Len(data) => Len(d) = 0
  BY ONLY <1>3, <1>4 DEF KeptOK
<1>8. /\ Len(data) \in Nat /\ pos \in Nat /\ taken \in Nat /\ Len(d) \in Nat /\ p \in Nat
      /\ p <= Len(d) /\ Len(d) <= taken /\ taken <= Len(file)
      /\ offset \in Nat /\ offset + Len(data) <= taken
  <2>1. /\ Len(data) \in Nat /\ pos \in Nat /\ taken \in Nat /\ offset \in Nat
        /\ taken <= Len(file) /\ offset + Len(data) <= taken
    BY <1>2, Types DEF WindowAt
  <2>2. Len(d) \in Nat /\ p \in Nat /\ p <= Len(d)
    BY <1>7
  <2> QED BY ONLY <1>7, <2>1, <2>2
<1>9. Base = taken - Len(data)
  BY <1>2 DEF Base
<1>10. ASSUME NEW i \in 1..Len(d) PROVE d[i] = file[taken - Len(d) + i]
  <2>1. PICK j \in 1..Len(data) : j = Len(data) - Len(d) + i
    <3>1. i \in Nat /\ i > 0 /\ i <= Len(d) /\ Len(d) <= Len(data)
      BY <1>7, <1>8
    <3>2. Len(data) - Len(d) + i \in 1..Len(data)
      BY ONLY <1>8, <3>1
    <3> QED BY ONLY <3>2
  <2>2. d[i] = data[j] /\ data[j] = file[Base + j]
    BY <1>7, <2>1, TypeOK, Shown
  <2>3. Base + j = taken - Len(d) + i
    BY <1>8, <1>9, <2>1
  <2> QED BY <2>2, <2>3
<1>11. atEnd' \in BOOLEAN /\ (atEnd' <=> n = 0)
  BY <1>5
<1>12. /\ WindowType' /\ WindowShowsFile' /\ WindowAt'
       /\ Base' = taken - Len(d) /\ Len(data') = Len(d) + n /\ n \in Nat
       /\ atEnd' => n = 0
  BY ONLY <1>2, <1>5, <1>6, <1>7, <1>8, <1>10, <1>11, ReadFacts, TypeOK, file' = file, op' # "open"
<1>13. Base' + pos' = Base + pos /\ Len(data') - pos' >= Len(data) - pos
  <2>1. Len(d) - p = Len(data) - pos /\ Len(data') = Len(d) + n /\ n \in Nat /\ pos' = p
    BY <1>6, <1>7, <1>12
  <2>2. Base' = taken - Len(d)
    BY <1>12
  <2> QED BY ONLY <1>8, <1>9, <2>1, <2>2
<1>14. atEnd' /\ pos = Len(data) => pos' = Len(data')
  BY ONLY <1>6, <1>7, <1>8, <1>12
<1> QED BY <1>12, <1>13, <1>14 DEF Shifted

\* When a mapping fails, reading goes on at the position.
LEMMA MapFailedFacts ==
  ASSUME TypeOK, WindowAt, ~atEnd, MapFailed, file' = file, op' # "open"
  PROVE  Shifted /\ (op # "open" => op \in MapFails)
<1>1. /\ MaxLength \in Nat /\ PageSize \in Nat \ {0} /\ Len(file) \in Nat
      /\ Len(data) \in Nat /\ pos \in Nat /\ pos <= Len(data) /\ offset \in Nat /\ mapSize \in Nat
  BY Types
<1>2. ~fallback /\ fallback' = TRUE
  BY DEF MapFailed
<1>3. offset + Len(data) <= Len(file) /\ Base = offset
  BY <1>2 DEF WindowAt, Base
<1>4. PICK desired \in Nat : desired = pos + offset /\ desired <= Len(file) /\ offset <= desired
  BY <1>1, <1>3
<1>5. PICK ignore : ignore = desired % PageSize
  OBVIOUS
<1>6. PICK e : e = Enlarged(ignore)
  OBVIOUS
<1>7. PICK nothing : nothing = [data |-> <<>>, pos |-> 0, offset |-> offset, size |-> e]
  OBVIOUS
<1>8. nothing.data = <<>> /\ nothing.offset = offset /\ nothing.size = e
  BY <1>7
<1>9. PICK n \in ReadSizes(nothing.size, desired) :
        /\ data' = Filled(nothing, desired, n)
        /\ taken' = desired + n /\ atEnd' = (n = 0)
  BY <1>4, <1>5, <1>6, <1>7 DEF MapFailed
<1>10. pos' = 0 /\ offset' = nothing.offset /\ mapSize' = nothing.size /\ lastSpace' = LastSpace(data', pos')
  BY <1>4, <1>5, <1>6, <1>7 DEF MapFailed
<1>11. e \in PageSize..(2 * (MaxLength + 2 * PageSize)) /\ e \in Nat
  BY <1>2, <1>6, EnlargedFacts
<1>12. PICK d : d = <<>>
  OBVIOUS
<1>13. /\ d \in Seq(Chars) /\ Len(d) = 0 /\ 0 \in 0..Len(d) /\ Len(d) <= e
       /\ offset + Len(d) <= desired /\ e - Len(d) = e
       /\ \A i \in 1..Len(d) : d[i] = file[desired - Len(d) + i]
  <2>1. d \in Seq(Chars) /\ Len(d) = 0
    BY <1>12
  <2> QED BY <1>1, <1>4, <1>11, <2>1
<1>14. /\ n \in ReadSizes(e - Len(d), desired)
       /\ data' = d \o SubSeq(file, desired + 1, desired + n)
       /\ taken' = desired + n /\ atEnd' \in BOOLEAN /\ (atEnd' <=> n = 0)
       /\ pos' = 0 /\ offset' = offset /\ mapSize' = e
  BY <1>8, <1>9, <1>10, <1>12, <1>13 DEF Filled
<1>15. PICK p, start : p = 0 /\ start = offset
  OBVIOUS
<1>16. /\ WindowType' /\ WindowShowsFile' /\ WindowAt'
       /\ Base' = desired - Len(d) /\ Len(data') = Len(d) + n /\ n \in Nat
       /\ atEnd' => n = 0
  <2>1. /\ pos' = p /\ offset' = start /\ p \in 0..Len(d) /\ start \in Nat
        /\ start + Len(d) <= desired
    BY <1>1, <1>13, <1>14, <1>15
  <2>2. data' = d \o SubSeq(file, desired + 1, desired + n) /\ taken' = desired + n
    BY <1>14
  <2>3. atEnd' \in BOOLEAN /\ (atEnd' <=> n = 0) /\ mapSize' = e
    BY <1>14
  <2>4. d \in Seq(Chars) /\ Len(d) <= e /\ n \in ReadSizes(e - Len(d), desired)
    BY <1>13, <1>14
  <2>5. \A i \in 1..Len(d) : d[i] = file[desired - Len(d) + i]
    BY <1>13
  <2>6. /\ fallback' = TRUE /\ lastSpace' = LastSpace(data', pos')
        /\ desired \in Nat /\ desired <= Len(file)
        /\ e \in PageSize..(2 * (MaxLength + 2 * PageSize))
    BY <1>2, <1>4, <1>10, <1>11
  <2> QED BY ONLY <2>1, <2>2, <2>3, <2>4, <2>5, <2>6,
                  ReadFacts, TypeOK, file' = file, op' # "open"
<1>17. Base' + pos' = Base + pos /\ (atEnd' => pos' = Len(data'))
  <2>1. Base' = desired /\ pos' = 0 /\ Len(data') = n /\ n \in Nat /\ (atEnd' => n = 0)
    BY <1>4, <1>13, <1>14, <1>16
  <2>2. Base' + pos' = Base + pos
    BY ONLY <1>1, <1>3, <1>4, <2>1
  <2> QED BY <2>1, <2>2
<1>18. op # "open" => op \in MapFails
  <2>1. SUFFICES ASSUME op # "open", desired = Len(file) PROVE FALSE
    BY <1>4 DEF MapFailed
  <2>2. Len(data) = mapSize /\ offset + mapSize < Len(file)
    BY <1>2, <2>1 DEF WindowAt
  <2> QED BY <1>1, <1>4, <2>1, <2>2
<1> QED BY <1>16, <1>17, <1>18 DEF Shifted

\* A Shift does not change what follows the position, and unless a mapping
\* fails the window shows no less of it than before.
LEMMA ShiftFacts ==
  ASSUME TypeOK, WindowAt, WindowShowsFile, Shift, file' = file, op' # "open"
  PROVE  /\ Shifted
         /\ op # "open" /\ op \notin MapFails => Len(data') - pos' >= Len(data) - pos
<1>1. ~atEnd /\ (MMapShift \/ ReadShift \/ MapFailed)
  BY DEF Shift
<1> QED BY <1>1, MMapShiftFacts, ReadShiftFacts, MapFailedFacts

-----------------------------------------------------------------------------
(* Searches in the window and in the file *)

\* A search that begins in the window, where the file up to there has been
\* looked at, finds what a search of the file would find, or what is looked for
\* is not in what the window shows.
LEMMA SearchFacts ==
  ASSUME TypeOK, WindowAt, WindowShowsFile,
         NEW bytes, NEW k \in Nat, pos <= k, NEW f \in Nat, f <= Base + pos,
         NoneOf(bytes, f, Base + k)
  PROVE  /\ NextOf(data, k, bytes) \in 1..(Len(data) + 1)
         /\ NextOf(data, k, bytes) <= Len(data) =>
              /\ NextOf(data, k, bytes) > k /\ data[NextOf(data, k, bytes)] \in bytes
              /\ NextOf(file, f, bytes) = Base + NextOf(data, k, bytes)
         /\ NextOf(data, k, bytes) > Len(data) => NoneOf(bytes, f, Base + Len(data))
         /\ NextOf(data, k, bytes) > Len(data) /\ Base + Len(data) = Len(file) =>
              NextOf(file, f, bytes) = Len(file) + 1
<1>1. PICK i : i = NextOf(data, k, bytes)
  OBVIOUS
<1>2. PICK b \in Nat : b = Base
  BY BaseFacts
<1>3. /\ data \in Seq(Chars) /\ file \in Seq(Chars) /\ Len(data) \in Nat /\ Len(file) \in Nat
      /\ pos \in Nat /\ b + Len(data) <= Len(file) /\ f <= b + pos /\ pos <= Len(data)
  BY <1>2, Types, BaseFacts
<1>4. /\ i \in 1..(Len(data) + 1)
      /\ i <= Len(data) => i > k /\ data[i] \in bytes
      /\ \A j \in (k + 1)..Len(data) : j < i => data[j] \notin bytes
  BY <1>1, <1>3, NextFacts
<1>5. i \in Nat /\ i > 0 /\ i <= Len(data) + 1
  BY <1>3, <1>4
<1>6. \A j \in (b + 1)..(b + Len(data)) : file[j] = data[j - b]
  BY <1>2, Shown
<1>7. b + k <= Len(file) /\ \A j \in (f + 1)..(b + k) : file[j] \notin bytes
  BY <1>2 DEF NoneOf
<1>8. ASSUME NEW j \in (f + 1)..(b + Len(data)), j < b + i PROVE file[j] \notin bytes
  <2>1. CASE j <= b + k
    <3>1. j \in (f + 1)..(b + k)
      BY <2>1
    <3> QED BY <1>7, <3>1
  <2>2. CASE j > b + k
    <3>1. j \in Nat
      OBVIOUS
    <3>2. j - b \in (k + 1)..Len(data) /\ j - b < i /\ j \in (b + 1)..(b + Len(data))
      BY <1>3, <1>5, <1>8, <2>2, <3>1
    <3>3. data[j - b] \notin bytes /\ file[j] = data[j - b]
      BY <1>4, <1>6, <3>2
    <3> QED BY <3>3
  <2> QED BY <2>1, <2>2
<1>9. ASSUME i <= Len(data) PROVE NextOf(file, f, bytes) = b + i
  <2>1. i > k /\ data[i] \in bytes
    BY <1>4, <1>9
  <2>2. b + i \in (f + 1)..(Len(file) + 1) /\ b + i \in (b + 1)..(b + Len(data)) /\ (b + i) - b = i
    BY <1>3, <1>5, <1>9, <2>1
  <2>3. file[b + i] \in bytes
    <3>1. file[b + i] = data[(b + i) - b]
      BY <1>6, <2>2
    <3> QED BY <2>1, <2>2, <3>1
  <2>4. ASSUME NEW j \in (f + 1)..((b + i) - 1) PROVE file[j] \notin bytes
    <3>1. j \in (f + 1)..(b + Len(data)) /\ j < b + i
      BY <1>3, <1>5, <1>9
    <3> QED BY <1>8, <3>1
  <2>5. PICK n : n = b + i
    OBVIOUS
  <2>6. NextOf(file, f, bytes) = n
    BY <1>3, <2>2, <2>3, <2>4, <2>5, NextIs
  <2> QED BY <2>5, <2>6
<1>10. ASSUME i > Len(data), NEW j \in (f + 1)..(b + Len(data)) PROVE file[j] \notin bytes
  <2>1. j < b + i
    BY <1>3, <1>5, <1>10
  <2> QED BY <1>8, <2>1
<1>11. i > Len(data) => NoneOf(bytes, f, b + Len(data))
  BY <1>3, <1>10 DEF NoneOf
<1>12. ASSUME i > Len(data), b + Len(data) = Len(file)
       PROVE  NextOf(file, f, bytes) = Len(file) + 1
  <2>1. PICK n \in Nat : n = Len(file) + 1
    BY <1>3
  <2>2. n \in (f + 1)..(Len(file) + 1) /\ ~(n <= Len(file))
    BY <1>3, <1>12, <2>1
  <2>3. ASSUME NEW j \in (f + 1)..(n - 1) PROVE file[j] \notin bytes
    <3>1. j \in (f + 1)..(b + Len(data))
      BY <1>3, <1>12, <2>1
    <3> QED BY <1>10, <1>12, <3>1
  <2>4. NextOf(file, f, bytes) = n
    BY <1>3, <2>2, <2>3, NextIs
  <2> QED BY <2>1, <2>4
<1> QED BY <1>1, <1>2, <1>3, <1>4, <1>9, <1>11, <1>12

\* What is looked for first is found at the position.
LEMMA ReachedIs ==
  ASSUME TypeOK, WindowAt, NEW o, Reached(o)
  PROVE  NextOf(file, from, Sought(o)) = Base + pos + 1
<1>1. PICK h \in Nat : h = Base + pos
  BY BaseFacts
<1>2. /\ from \in Nat /\ from <= h /\ h < Len(file) /\ Len(file) \in Nat /\ file \in Seq(Chars)
      /\ \A i \in (from + 1)..h : file[i] \notin Sought(o)
      /\ file[h + 1] \in Sought(o)
  BY <1>1, Types DEF Reached, NoneOf, Sought
<1>3. PICK n \in Nat : n = h + 1
  OBVIOUS
<1>4. n \in (from + 1)..(Len(file) + 1) /\ n - 1 = h /\ file[n] \in Sought(o)
  BY <1>2, <1>3
<1>5. NextOf(file, from, Sought(o)) = n
  BY <1>2, <1>4, NextIs
<1> QED BY <1>1, <1>3, <1>5

\* A byte that is not looked for may be left out.
LEMMA NextFromNext ==
  ASSUME NEW C, NEW s \in Seq(C), NEW p \in Nat, p < Len(s), NEW bytes, s[p + 1] \notin bytes
  PROVE  NextOf(s, p + 1, bytes) = NextOf(s, p, bytes)
<1>1. PICK n : n = NextOf(s, p, bytes)
  OBVIOUS
<1>2. /\ n \in 1..(Len(s) + 1) /\ Len(s) \in Nat
      /\ n <= Len(s) => n > p /\ s[n] \in bytes
      /\ \A j \in (p + 1)..Len(s) : j < n => s[j] \notin bytes
  BY <1>1, NextFacts
<1>3. PICK q \in Nat : q = p + 1
  OBVIOUS
<1>4. n # q
  BY <1>2, <1>3
<1>5. n \in (q + 1)..(Len(s) + 1) /\ (n <= Len(s) => s[n] \in bytes)
  BY <1>2, <1>3, <1>4
<1>6. ASSUME NEW j \in (q + 1)..(n - 1) PROVE s[j] \notin bytes
  <2>1. j \in (p + 1)..Len(s) /\ j < n
    BY <1>2, <1>3, <1>5
  <2> QED BY <1>2, <2>1
<1>7. NextOf(s, q, bytes) = n
  BY <1>5, <1>6, NextIs
<1> QED BY <1>1, <1>3, <1>7

-----------------------------------------------------------------------------
(* What the steps have in common *)

\* An operation that uses up part of the window, or nothing of it.
LEMMA Moved ==
  ASSUME TypeOK, WindowAt, WindowShowsFile, op # "open", op' # "open",
         pos' \in Nat, pos <= pos', pos' <= Len(data), UNCHANGED <<file, windowVars>>
  PROVE  WindowType' /\ WindowShowsFile' /\ WindowAt' /\ Base' = Base
<1>1. /\ fallback' = fallback /\ data' = data /\ offset' = offset /\ mapSize' = mapSize
      /\ atEnd' = atEnd /\ lastSpace' = lastSpace /\ taken' = taken /\ file' = file
  BY DEF windowVars
<1>2. Base' = Base
  BY <1>1 DEF Base
<1>3. WindowType'
  BY <1>1, Types DEF TypeOK, WindowType
<1>4. WindowShowsFile'
  BY <1>1, <1>2 DEF WindowShowsFile
<1>5. lastSpace > pos' => data[lastSpace] \in Spaces
  BY Types DEF WindowAt
<1>6. WindowAt'
  BY <1>1, <1>2, <1>5 DEF WindowAt
<1> QED BY <1>2, <1>3, <1>4, <1>6

\* The type invariant after a step.
LEMMA TypeAfter ==
  ASSUME TypeOK, WindowType', UNCHANGED <<file, kind>>,
         op' \in {"open", "idle", "line", "find", "number", "get"} \cup Skipping,
         skip' \in 0..MaxLength, from' \in 0..MaxLength
  PROVE  TypeOK'
<1>1. file' \in Files /\ kind' \in Kinds
  BY DEF TypeOK
<1> QED BY <1>1 DEF TypeOK, WindowType

\* What an operation is to return depends on the file, which no step changes.
LEMMA ScannedStays ==
  ASSUME file' = file, NEW o, NEW f, last'.op = o, last'.from = f
  PROVE  Scanned(last.op, last.from)' = Scanned(o, f)
<1>1. ScanLine(last.from)' = ScanLine(f)
  BY DEF ScanLine
<1>2. ByteAt(last.from)' = ByteAt(f)
  BY DEF ByteAt
<1>3. NumberAt(last.from)' = NumberAt(f)
  BY DEF NumberAt
<1>4. WordAt(last.from, {})' = WordAt(f, {})
  BY DEF WordAt
<1>5. WordAt(last.from, {"nl"})' = WordAt(f, {"nl"})
  BY DEF WordAt
<1> QED BY <1>1, <1>2, <1>3, <1>4, <1>5 DEF Scanned

\* An operation returns.
LEMMA ReturnFacts ==
  ASSUME TypeOK, WindowAt, WindowShowsFile, op # "open",
         NEW o, Begun(o), NEW p \in Nat, pos <= p, p <= Len(data), NEW text,
         Scanned(o, from) = [to |-> Base + p, text |-> text, ok |-> TRUE],
         Return(text, p)
  PROVE  PieceInv'
<1>1. /\ op' = "idle" /\ last' = [last EXCEPT !.text = text, !.to = Base + p] /\ pos' = p
      /\ UNCHANGED <<file, kind, windowVars, skip, from>>
  BY DEF Return
<1>2. WindowType' /\ WindowShowsFile' /\ WindowAt' /\ Base' = Base
  BY <1>1, Moved
<1>3. TypeOK'
  BY <1>1, <1>2, TypeAfter DEF TypeOK
<1>4. OperationAt'
  BY <1>1 DEF OperationAt, Skipping
<1>5. last' = [op |-> o, from |-> from, to |-> Base + p, text |-> text, ok |-> TRUE]
  BY <1>1 DEF Begun
<1>6. PICK e : e = Scanned(o, from)
  OBVIOUS
<1>7. Scanned(last.op, last.from)' = e
  <2>1. last'.op = o /\ last'.from = from
    BY <1>5
  <2> QED BY <1>1, <1>6, <2>1, ScannedStays
<1>8. ReadsScanned'
  <2>1. [to |-> last'.to, text |-> last'.text, ok |-> last'.ok] = e
    BY <1>5, <1>6
  <2>2. Base' + pos' = last'.to
    BY <1>1, <1>2, <1>5
  <2> QED BY <1>7, <2>1, <2>2 DEF ReadsScanned, Result
<1> QED BY <1>2, <1>3, <1>4, <1>8 DEF PieceInv

\* An operation finds nothing.
LEMMA FailFacts ==
  ASSUME TypeOK, WindowAt, WindowShowsFile, op # "open",
         NEW o, Begun(o), NEW p \in Nat, pos <= p, p <= Len(data),
         Scanned(o, from) = [to |-> Base + p, text |-> <<>>, ok |-> FALSE],
         Fail(p)
  PROVE  PieceInv'
<1>1. /\ op' = "idle" /\ last' = [last EXCEPT !.ok = FALSE, !.to = Base + p] /\ pos' = p
      /\ UNCHANGED <<file, kind, windowVars, skip, from>>
  BY DEF Fail
<1>2. WindowType' /\ WindowShowsFile' /\ WindowAt' /\ Base' = Base
  BY <1>1, Moved
<1>3. TypeOK'
  BY <1>1, <1>2, TypeAfter DEF TypeOK
<1>4. OperationAt'
  BY <1>1 DEF OperationAt, Skipping
<1>5. last' = [op |-> o, from |-> from, to |-> Base + p, text |-> <<>>, ok |-> FALSE]
  BY <1>1 DEF Begun
<1>6. PICK e : e = Scanned(o, from)
  OBVIOUS
<1>7. Scanned(last.op, last.from)' = e
  <2>1. last'.op = o /\ last'.from = from
    BY <1>5
  <2> QED BY <1>1, <1>6, <2>1, ScannedStays
<1>8. ReadsScanned'
  <2>1. [to |-> last'.to, text |-> last'.text, ok |-> last'.ok] = e
    BY <1>5, <1>6
  <2>2. Base' + pos' = last'.to
    BY <1>1, <1>2, <1>5
  <2> QED BY <1>7, <2>1, <2>2 DEF ReadsScanned, Result
<1> QED BY <1>2, <1>3, <1>4, <1>8 DEF PieceInv

\* A stage that goes on with another window: what it knows is about positions in
\* the file.
LEMMA KeepsOn ==
  ASSUME PieceInv, op \in {"get", "number"} \cup Skipping,
         UNCHANGED <<file, kind, op, skip, from, last>>,
         WindowType' /\ WindowShowsFile' /\ WindowAt', Base' + pos' = Base + pos
  PROVE  PieceInv'
<1>1. /\ file' = file /\ kind' = kind /\ op' = op /\ skip' = skip /\ from' = from /\ last' = last
      /\ TypeOK /\ OperationAt
  BY DEF PieceInv
<1>2. TypeOK'
  BY <1>1, TypeAfter DEF TypeOK
<1>3. PICK h : h = Base + pos
  OBVIOUS
<1>4. OperationAt'
  BY <1>1, <1>3 DEF OperationAt, Begun, Reached, NoneOf, Sought, FirstStage, Skipping
<1>5. ReadsScanned'
  BY <1>1 DEF ReadsScanned, Result, Idle, Skipping
<1> QED BY <1>2, <1>4, <1>5 DEF PieceInv

-----------------------------------------------------------------------------
(* The steps *)

\* Nothing is in the window before the file is opened.
LEMMA InitInv ==
  ASSUME Init
  PROVE  PieceInv
<1>1. /\ MaxLength \in Nat /\ PageSize \in Nat /\ PageSize > 0
  BY SizeAssumption
<1>2. /\ file \in Files /\ kind \in Kinds /\ fallback = (kind = "pipe")
      /\ data = <<>> /\ pos = 0 /\ offset = 0 /\ mapSize = 2 * PageSize /\ atEnd = FALSE
      /\ lastSpace = 0 /\ taken = 0 /\ op = "open" /\ skip = 0 /\ from = 0 /\ last = NoText
  BY DEF Init
<1>3. data \in Seq(Chars) /\ Len(data) = 0
  BY <1>2
<1>4. TypeOK
  <2>1. mapSize \in PageSize..(2 * (MaxLength + 2 * PageSize)) /\ Len(data) <= mapSize
    BY <1>1, <1>2, <1>3
  <2>2. /\ pos \in 0..Len(data) /\ lastSpace \in 0..Len(data) /\ offset \in 0..MaxLength
        /\ taken \in 0..MaxLength /\ skip \in 0..MaxLength /\ from \in 0..MaxLength
    BY <1>1, <1>2, <1>3
  <2>3. fallback \in BOOLEAN /\ atEnd \in BOOLEAN
    BY <1>2
  <2> QED BY <1>2, <1>3, <2>1, <2>2, <2>3 DEF TypeOK
<1>5. WindowShowsFile
  BY <1>3 DEF WindowShowsFile
<1>6. WindowAt
  <2>1. Len(file) \in Nat
    BY <1>4, Types
  <2>2. 0 % PageSize = 0
    <3>1. PageSize * 0 = 0
      BY <1>1
    <3>2. (PageSize * 0) % PageSize = 0
      BY <1>1, PageStart
    <3> QED BY <3>1, <3>2
  <2>3. taken <= Len(file) /\ offset + Len(data) <= taken /\ offset + Len(data) <= Len(file)
    BY <1>2, <1>3, <2>1
  <2>4. ~(lastSpace > pos) /\ ~atEnd
    BY <1>2
  <2>5. offset % PageSize = 0
    BY <1>2, <2>2
  <2> QED BY <1>2, <2>3, <2>4, <2>5 DEF WindowAt
<1>7. OperationAt
  BY <1>2 DEF OperationAt, Skipping
<1>8. ReadsScanned
  BY <1>2 DEF ReadsScanned, Result, Idle
<1> QED BY <1>4, <1>5, <1>6, <1>7, <1>8 DEF PieceInv

\* The file is opened: its first part is mapped or read, or its contents turn out
\* to be compressed.
LEMMA OpenInv ==
  ASSUME PieceInv, Open
  PROVE  PieceInv'
<1>1. /\ TypeOK /\ WindowAt /\ WindowShowsFile
      /\ op = "open" /\ op' = "idle"
      /\ file' = file /\ kind' = kind /\ skip' = skip /\ from' = from /\ last' = last
  BY DEF PieceInv, Open
<1>2. /\ data = <<>> /\ pos = 0 /\ offset = 0 /\ taken = 0 /\ ~atEnd /\ last = NoText
  BY <1>1 DEF WindowAt
<1>3. WindowType' /\ WindowShowsFile' /\ WindowAt'
  <2>1. CASE Shift
    BY <1>1, <2>1, ShiftFacts DEF Shifted
  <2>2. CASE fallback' = TRUE /\ UNCHANGED <<data, pos, offset, mapSize, atEnd, lastSpace, taken>>
    <3>1. /\ data' = data /\ pos' = pos /\ offset' = offset /\ mapSize' = mapSize
          /\ atEnd' = atEnd /\ lastSpace' = lastSpace /\ taken' = taken /\ fallback' = TRUE
      BY <2>2
    <3>2. WindowType'
      BY <1>1, <3>1 DEF TypeOK, WindowType
    <3>3. Len(data) = 0 /\ Len(file) \in Nat /\ lastSpace = 0
      BY <1>1, <1>2, Types
    <3>4. WindowShowsFile'
      BY <3>1, <3>3 DEF WindowShowsFile
    <3>5. taken <= Len(file) /\ offset + Len(data) <= taken /\ ~(lastSpace > pos)
      BY <1>2, <3>3
    <3>6. WindowAt'
      BY <1>1, <1>2, <3>1, <3>5 DEF WindowAt
    <3> QED BY <3>2, <3>4, <3>6
  <2> QED BY <2>1, <2>2 DEF Open
<1>4. TypeOK'
  BY <1>1, <1>3, TypeAfter DEF TypeOK
<1>5. OperationAt' /\ ReadsScanned'
  BY <1>1, <1>2 DEF OperationAt, Skipping, ReadsScanned, NoText
<1> QED BY <1>3, <1>4, <1>5 DEF PieceInv

\* An operation is called.
LEMMA BeginInv ==
  ASSUME PieceInv, NEW o \in Operations, Begin(o)
  PROVE  PieceInv'
<1>1. TypeOK /\ WindowAt /\ WindowShowsFile
  BY DEF PieceInv
<1>2. /\ op = "idle" /\ op' = FirstStage[o] /\ skip' = 0 /\ from' = Base + pos
      /\ last' = [NoText EXCEPT !.op = o, !.from = Base + pos]
      /\ file' = file /\ kind' = kind /\ pos' = pos /\ UNCHANGED windowVars
  BY DEF Begin
<1>3. PICK h \in Nat : h = Base + pos /\ h <= Len(file)
  BY <1>1, BaseFacts, Types
<1>4. /\ op' \in {"line", "get"} \cup Skipping
      /\ o \in {"line", "delimited", "word", "number", "get"}
      /\ op' = "line" => o = "line"
      /\ op' = "get" => o = "get"
      /\ op' \in Skipping => o \in {"delimited", "word", "number"}
  <2>1. o \in {"line", "delimited", "word", "number", "get"}
    BY EnvironmentAssumption
  <2>2. /\ FirstStage["line"] = "line" /\ FirstStage["get"] = "get"
        /\ FirstStage["delimited"] = "skip delimited" /\ FirstStage["word"] = "skip word"
        /\ FirstStage["number"] = "skip number"
    BY DEF FirstStage
  <2> QED BY <1>2, <2>1, <2>2 DEF Skipping
<1>5. op' \notin {"open", "idle", "find", "number"}
  BY <1>4 DEF Skipping
<1>6. WindowType' /\ WindowShowsFile' /\ WindowAt' /\ Base' = Base
  BY <1>1, <1>2, <1>5, Types, Moved
<1>7. TypeOK'
  <2>1. skip' \in 0..MaxLength /\ from' \in 0..MaxLength
    BY <1>1, <1>2, <1>3, Types
  <2> QED BY <1>1, <1>2, <1>4, <1>6, <2>1, TypeAfter
<1>8. last' = [op |-> o, from |-> from', to |-> 0, text |-> <<>>, ok |-> TRUE]
  BY <1>2 DEF NoText
<1>9. Base' + pos' = h /\ from' = h
  BY <1>2, <1>3, <1>6
<1>10. Len(file) \in Nat /\ h + 0 = h /\ (h + 1)..h = {}
  BY <1>1, <1>3, Types
<1>11. OperationAt'
  <2>1. Begun(o)'
    BY <1>8 DEF Begun
  <2>2. op' = "line" => Begun("line")' /\ from' = Base' + pos' /\ NoneOf({"nl"}, from, from + skip)'
    BY <1>2, <1>3, <1>4, <1>9, <1>10, <2>1 DEF NoneOf
  <2>3. op' = "get" => Begun("get")' /\ from' = Base' + pos'
    BY <1>4, <1>9, <2>1
  <2>4. op' \in Skipping =>
          /\ skip' = 0 /\ o \in {"delimited", "word", "number"} /\ op' = FirstStage[o]
          /\ Begun(o)' /\ from' <= Base' + pos'
          /\ NoneOf(Sought(o), from, Base + pos)'
    BY <1>2, <1>3, <1>4, <1>9, <1>10, <2>1 DEF NoneOf
  <2> QED BY <1>5, <2>2, <2>3, <2>4 DEF OperationAt, Skipping
<1>12. ReadsScanned'
  BY <1>5 DEF ReadsScanned, Result, Idle
<1> QED BY <1>6, <1>7, <1>11, <1>12 DEF PieceInv

\* What is known where a search for the end of a line goes on.
LEMMA LineStage ==
  ASSUME PieceInv, op = "line"
  PROVE  /\ TypeOK /\ WindowAt /\ WindowShowsFile
         /\ Begun("line") /\ from = Base + pos
         /\ NoneOf({"nl"}, from, Base + Looked)
         /\ Looked \in Nat /\ pos <= Looked /\ from \in Nat
<1>1. TypeOK /\ WindowAt /\ WindowShowsFile
  BY DEF PieceInv
<1>2. Begun("line") /\ from = Base + pos /\ NoneOf({"nl"}, from, from + skip)
  BY DEF PieceInv, OperationAt
<1>3. PICK b \in Nat : b = Base
  BY <1>1, BaseFacts
<1>4. pos \in Nat /\ skip \in Nat
  BY <1>1, Types
<1>5. /\ b + (pos + skip) = (b + pos) + skip /\ pos + skip \in Nat /\ pos <= pos + skip
      /\ b + pos \in Nat
  BY <1>4
<1> QED BY <1>1, <1>2, <1>3, <1>5 DEF Looked

\* The same for a word, of which the first byte has been found.
LEMMA WordStage ==
  ASSUME PieceInv, op = "find"
  PROVE  /\ TypeOK /\ WindowAt /\ WindowShowsFile
         /\ Reached("delimited") \/ Reached("word")
         /\ NoneOf(Spaces, Base + pos, Base + Looked)
         /\ Looked \in Nat /\ pos <= Looked
<1>1. TypeOK /\ WindowAt /\ WindowShowsFile
  BY DEF PieceInv
<1>2. /\ Reached("delimited") \/ Reached("word")
      /\ NoneOf(Spaces, Base + pos, Base + pos + skip)
  BY DEF PieceInv, OperationAt
<1>3. PICK b \in Nat : b = Base
  BY <1>1, BaseFacts
<1>4. pos \in Nat /\ skip \in Nat
  BY <1>1, Types
<1>5. b + (pos + skip) = (b + pos) + skip /\ pos + skip \in Nat /\ pos <= pos + skip
  BY <1>4
<1> QED BY <1>1, <1>2, <1>3, <1>5 DEF Looked

\* A line ends in the window.
LEMMA LineFoundInv ==
  ASSUME PieceInv, LineFound
  PROVE  PieceInv'
<1>1. op = "line"
  BY DEF LineFound
<1>2. /\ TypeOK /\ WindowAt /\ WindowShowsFile
      /\ Begun("line") /\ from = Base + pos
      /\ NoneOf({"nl"}, from, Base + Looked)
      /\ Looked \in Nat /\ pos <= Looked /\ from \in Nat
  BY <1>1, LineStage
<1>3. PICK i : i = NextOf(data, Looked, {"nl"})
  OBVIOUS
<1>4. PICK b \in Nat : b = Base
  BY <1>2, BaseFacts
<1>5. /\ data \in Seq(Chars) /\ file \in Seq(Chars) /\ Len(data) \in Nat /\ Len(file) \in Nat
      /\ pos \in Nat /\ pos <= Len(data) /\ b + Len(data) <= Len(file)
  BY <1>2, <1>4, Types, BaseFacts
<1>6. i <= Len(data) /\ Return(WithoutCr(SubSeq(data, pos + 1, i - 1)), i)
  BY <1>3 DEF LineFound
<1>7. i \in 1..(Len(data) + 1) /\ i > Looked /\ NextOf(file, from, {"nl"}) = b + i
  <2>1. from <= Base + pos
    BY <1>2
  <2> QED BY <1>2, <1>3, <1>4, <1>6, <2>1, SearchFacts
<1>8. i \in Nat /\ pos < i /\ pos \in 0..Len(data) /\ i - 1 \in pos..Len(data)
  BY <1>2, <1>5, <1>6, <1>7
<1>9. SubSeq(data, pos + 1, i - 1) = SubSeq(file, b + pos + 1, b + (i - 1))
  <2>1. PICK q : q = i - 1
    OBVIOUS
  <2>2. \A j \in 1..Len(data) : data[j] = file[b + j]
    BY <1>2, <1>4, Shown
  <2>3. SubSeq(data, pos + 1, q) = SubSeq(file, b + pos + 1, b + q)
    <3>1. q \in pos..Len(data) /\ pos \in 0..Len(data)
      BY <1>8, <2>1
    <3>2. data \in Seq(Chars) /\ file \in Seq(Chars) /\ b + Len(data) <= Len(file)
      BY <1>5
    <3> QED BY ONLY <2>2, <3>1, <3>2, SameText
  <2> QED BY <2>1, <2>3
<1>10. /\ b + i <= Len(file) /\ from = b + pos /\ from # Len(file) /\ b + (i - 1) = (b + i) - 1
       /\ ~(b + i > Len(file))
  BY <1>2, <1>4, <1>5, <1>6, <1>8
<1>11. PICK text : text = WithoutCr(SubSeq(data, pos + 1, i - 1))
  OBVIOUS
<1>12. Scanned("line", from) = [to |-> b + i, text |-> text, ok |-> TRUE]
  <2>1. ScanLine(from) = [to |-> b + i, text |-> text, ok |-> TRUE]
    BY <1>7, <1>9, <1>10, <1>11 DEF ScanLine
  <2> QED BY <2>1 DEF Scanned
<1> QED BY <1>1, <1>2, <1>4, <1>6, <1>8, <1>11, <1>12, ReturnFacts

\* The last line has no end.
LEMMA LineAtEndInv ==
  ASSUME PieceInv, LineAtEnd
  PROVE  PieceInv'
<1>1. op = "line" /\ atEnd
  BY DEF LineAtEnd
<1>2. /\ TypeOK /\ WindowAt /\ WindowShowsFile
      /\ Begun("line") /\ from = Base + pos
      /\ NoneOf({"nl"}, from, Base + Looked)
      /\ Looked \in Nat /\ pos <= Looked /\ from \in Nat
  BY <1>1, LineStage
<1>3. PICK b \in Nat : b = Base
  BY <1>2, BaseFacts
<1>4. /\ data \in Seq(Chars) /\ file \in Seq(Chars) /\ Len(data) \in Nat /\ Len(file) \in Nat
      /\ pos \in Nat /\ pos <= Len(data) /\ b + Len(data) <= Len(file)
  BY <1>2, <1>3, Types, BaseFacts
<1>5. b + Len(data) = Len(file)
  BY <1>1, <1>2, <1>3 DEF WindowAt
<1>6. NextOf(file, from, {"nl"}) = Len(file) + 1
  <2>1. NextOf(data, Looked, {"nl"}) > Len(data) /\ from <= Base + pos
    BY <1>2 DEF LineAtEnd
  <2> QED BY <1>2, <1>3, <1>5, <2>1, SearchFacts
<1>7. CASE pos = Len(data)
  <2>1. Fail(pos)
    BY <1>7 DEF LineAtEnd
  <2>2. from = Len(file) /\ from = Base + pos
    BY <1>2, <1>3, <1>5, <1>7
  <2>3. ScanLine(from) = [to |-> from, text |-> <<>>, ok |-> FALSE]
    BY <2>2 DEF ScanLine
  <2>4. Scanned("line", from) = [to |-> Base + pos, text |-> <<>>, ok |-> FALSE]
    BY <2>2, <2>3 DEF Scanned
  <2> QED BY <1>1, <1>2, <1>4, <2>1, <2>4, FailFacts
<1>8. CASE pos # Len(data)
  <2>1. Return(SubSeq(data, pos + 1, Len(data)), Len(data))
    BY <1>8 DEF LineAtEnd
  <2>2. PICK text : text = SubSeq(data, pos + 1, Len(data))
    OBVIOUS
  <2>3. pos \in 0..Len(data) /\ Len(data) \in pos..Len(data)
    BY <1>4
  <2>4. text = SubSeq(file, b + pos + 1, b + Len(data))
    <3>1. PICK q : q = Len(data)
      OBVIOUS
    <3>2. \A j \in 1..Len(data) : data[j] = file[b + j]
      BY <1>2, <1>3, Shown
    <3>3. data \in Seq(Chars) /\ file \in Seq(Chars) /\ b + Len(data) <= Len(file)
      BY <1>4
    <3>4. q \in pos..Len(data) /\ pos \in 0..Len(data)
      BY <2>3, <3>1
    <3>5. SubSeq(data, pos + 1, q) = SubSeq(file, b + pos + 1, b + q)
      BY ONLY <3>2, <3>3, <3>4, SameText
    <3> QED BY ONLY <2>2, <3>1, <3>5
  <2>5. from = b + pos /\ from # Len(file) /\ Len(file) + 1 > Len(file)
    BY <1>2, <1>3, <1>4, <1>5, <1>8
  <2>6. ScanLine(from) = [to |-> Len(file), text |-> text, ok |-> TRUE]
    BY <1>5, <1>6, <2>4, <2>5 DEF ScanLine
  <2>7. Scanned("line", from) = [to |-> Base + Len(data), text |-> text, ok |-> TRUE]
    BY <1>3, <1>5, <2>6 DEF Scanned
  <2>8. Return(text, Len(data))
    BY <2>1, <2>2
  <2> QED BY <1>1, <1>2, <1>4, <2>7, <2>8, ReturnFacts
<1> QED BY <1>7, <1>8

\* A word ends in the window, or with the file.
LEMMA WordFoundInv ==
  ASSUME PieceInv, WordFound
  PROVE  PieceInv'
<1>1. op = "find"
  BY DEF WordFound
<1>2. /\ TypeOK /\ WindowAt /\ WindowShowsFile
      /\ NoneOf(Spaces, Base + pos, Base + Looked)
      /\ Looked \in Nat /\ pos <= Looked
  BY <1>1, WordStage
<1>3. PICK o \in {"delimited", "word"} : Reached(o)
  BY <1>1, WordStage
<1>4. PICK i : i = NextOf(data, Looked, Spaces)
  OBVIOUS
<1>5. PICK b \in Nat : b = Base
  BY <1>2, BaseFacts
<1>6. /\ data \in Seq(Chars) /\ file \in Seq(Chars) /\ Len(data) \in Nat /\ Len(file) \in Nat
      /\ pos \in Nat /\ pos <= Len(data) /\ b + Len(data) <= Len(file) /\ b + pos \in Nat
  BY <1>2, <1>5, Types, BaseFacts
<1>7. i <= Len(data) \/ (atEnd /\ pos < Len(data))
  BY <1>4 DEF WordFound
<1>8. Return(SubSeq(data, pos + 1, i - 1), i - 1)
  BY <1>4 DEF WordFound
<1>9. /\ i \in 1..(Len(data) + 1)
      /\ i <= Len(data) => i > Looked /\ NextOf(file, b + pos, Spaces) = b + i
      /\ i > Len(data) /\ b + Len(data) = Len(file) => NextOf(file, b + pos, Spaces) = Len(file) + 1
  BY <1>2, <1>4, <1>5, <1>6, SearchFacts
<1>10. atEnd => b + Len(data) = Len(file)
  BY <1>2, <1>5 DEF WindowAt
<1>11. /\ NextOf(file, b + pos, Spaces) = b + i /\ i \in Nat /\ pos < i /\ i <= Len(data) + 1
       /\ i - 1 \in Nat /\ pos <= i - 1 /\ i - 1 <= Len(data)
  <2>1. CASE i <= Len(data)
    BY <1>2, <1>6, <1>9, <2>1
  <2>2. CASE ~(i <= Len(data))
    <3>1. atEnd /\ pos < Len(data) /\ i = Len(data) + 1 /\ i > Len(data)
      BY <1>6, <1>7, <1>9, <2>2
    <3>2. NextOf(file, b + pos, Spaces) = Len(file) + 1 /\ b + Len(data) = Len(file)
      BY <1>9, <1>10, <3>1
    <3> QED BY <1>6, <3>1, <3>2
  <2> QED BY <2>1, <2>2
<1>12. PICK n \in Nat : n = b + pos + 1
  BY <1>6
<1>13. /\ NextOf(file, from, Sought(o)) = n /\ n <= Len(file)
       /\ file[n] \in Chars \ Spaces
  <2>1. NextOf(file, from, Sought(o)) = Base + pos + 1
    BY <1>2, <1>3, ReachedIs
  <2>2. Base + pos < Len(file) /\ file[Base + pos + 1] \in Chars \ Spaces
    BY <1>3 DEF Reached
  <2> QED BY <1>5, <1>6, <1>12, <2>1, <2>2
<1>14. NextOf(file, n, Spaces) = b + i
  <2>1. PICK h \in Nat : h = b + pos
    BY <1>6
  <2>2. h < Len(file) /\ h + 1 = n /\ file[h + 1] \notin Spaces
    BY <1>6, <1>12, <1>13, <2>1
  <2>3. NextOf(file, h + 1, Spaces) = NextOf(file, h, Spaces)
    BY <1>6, <2>2, NextFromNext
  <2> QED BY <1>11, <2>1, <2>2, <2>3
<1>15. PICK text : text = SubSeq(data, pos + 1, i - 1)
  OBVIOUS
<1>16. text = SubSeq(file, n, (b + i) - 1)
  <2>1. pos \in 0..Len(data) /\ i - 1 \in pos..Len(data)
    BY <1>6, <1>11
  <2>2. text = SubSeq(file, b + pos + 1, b + (i - 1))
    <3>1. PICK q : q = i - 1
      OBVIOUS
    <3>2. \A j \in 1..Len(data) : data[j] = file[b + j]
      BY <1>2, <1>5, Shown
    <3>3. SubSeq(data, pos + 1, q) = SubSeq(file, b + pos + 1, b + q)
      <4>1. q \in pos..Len(data) /\ pos \in 0..Len(data)
        BY <2>1, <3>1
      <4>2. data \in Seq(Chars) /\ file \in Seq(Chars) /\ b + Len(data) <= Len(file)
        BY <1>6
      <4> QED BY ONLY <4>1, <4>2, <3>2, SameText
    <3> QED BY <1>15, <3>1, <3>3
  <2>3. b + (i - 1) = (b + i) - 1
    BY <1>11
  <2> QED BY <1>12, <2>2, <2>3
<1>17. PICK stop : stop = IF o = "word" THEN {"nl"} ELSE {}
  OBVIOUS
<1>18. WordAt(from, stop) = [to |-> (b + i) - 1, text |-> text, ok |-> TRUE]
  <2>1. Sought(o) = (Chars \ Spaces) \cup stop
    BY <1>17 DEF Sought
  <2>2. file[n] \notin stop
    BY <1>13, <1>17 DEF Spaces
  <2>3. ~(n > Len(file))
    BY <1>6, <1>13
  <2> QED BY <1>13, <1>14, <1>16, <2>1, <2>2, <2>3 DEF WordAt
<1>19. Scanned(o, from) = WordAt(from, stop)
  BY <1>3, <1>17 DEF Scanned
<1>20. Scanned(o, from) = [to |-> Base + (i - 1), text |-> text, ok |-> TRUE]
  <2>1. (b + i) - 1 = b + (i - 1)
    BY <1>11
  <2> QED BY <1>5, <1>18, <1>19, <2>1
<1>21. Begun(o)
  BY <1>3 DEF Reached
<1> QED BY <1>1, <1>2, <1>8, <1>11, <1>15, <1>20, <1>21, ReturnFacts

\* The window holds no end of the line or word: the next one is searched behind
\* what has been looked at.
LEMMA SearchShiftInv ==
  ASSUME PieceInv, SearchShift
  PROVE  PieceInv'
<1>1. /\ TypeOK /\ WindowAt /\ WindowShowsFile /\ OperationAt
      /\ op \in {"line", "find"} /\ op # "open" /\ Shift
      /\ op' = op /\ file' = file /\ kind' = kind /\ from' = from /\ last' = last
      /\ skip' = Len(data) - pos
  BY DEF PieceInv, SearchShift
<1>2. WindowType' /\ WindowShowsFile' /\ WindowAt' /\ Base' + pos' = Base + pos
  BY <1>1, ShiftFacts DEF Shifted
<1>3. PICK b \in Nat : b = Base
  BY <1>1, BaseFacts
<1>4. /\ Len(data) \in Nat /\ Len(file) \in Nat /\ pos \in Nat /\ pos <= Len(data)
      /\ MaxLength \in Nat /\ Len(file) <= MaxLength
      /\ b + Len(data) <= Len(file) /\ b + pos \in Nat
  BY <1>1, <1>3, Types, BaseFacts
<1>5. skip' \in 0..MaxLength /\ (b + pos) + skip' = b + Len(data)
  BY <1>1, <1>4
<1>6. TypeOK'
  <2>1. from' \in 0..MaxLength /\ op' \in {"open", "idle", "line", "find", "number", "get"} \cup Skipping
    BY <1>1 DEF TypeOK
  <2> QED BY <1>1, <1>2, <1>5, <2>1, TypeAfter
<1>7. PICK h : h = Base + pos
  OBVIOUS
<1>8. PICK t : t = b + Len(data) /\ h + skip' = t
  BY <1>3, <1>5, <1>7
<1>9. CASE op = "line"
  <2>1. /\ Begun("line") /\ from = Base + pos
        /\ NoneOf({"nl"}, from, Base + Looked)
        /\ Looked \in Nat /\ pos <= Looked /\ from \in Nat
    BY <1>9, LineStage
  <2>2. NextOf(data, Looked, {"nl"}) > Len(data) /\ from <= Base + pos
    BY <1>9, <2>1 DEF SearchShift
  <2>3. NoneOf({"nl"}, from, t)
    BY <1>1, <1>3, <1>8, <2>1, <2>2, SearchFacts
  <2>4. Begun("line")' /\ from' = Base' + pos' /\ NoneOf({"nl"}, from, from + skip)'
    BY <1>1, <1>2, <1>7, <1>8, <2>1, <2>3 DEF Begun, NoneOf
  <2>5. OperationAt'
    BY <1>1, <1>9, <2>4 DEF OperationAt, Skipping
  <2> QED BY <1>1, <1>2, <1>6, <1>9, <2>5 DEF PieceInv, ReadsScanned, Idle
<1>10. CASE op = "find"
  <2>1. /\ Reached("delimited") \/ Reached("word")
        /\ NoneOf(Spaces, Base + pos, Base + Looked)
        /\ Looked \in Nat /\ pos <= Looked
    BY <1>10, WordStage
  <2>2. NextOf(data, Looked, Spaces) > Len(data) /\ b + pos <= Base + pos
    BY <1>3, <1>4, <1>10 DEF SearchShift
  <2>3. NoneOf(Spaces, b + pos, Base + Len(data))
    BY <1>1, <1>3, <1>4, <2>1, <2>2, SearchFacts
  <2>4. NoneOf(Spaces, h, t)
    BY <1>3, <1>7, <1>8, <2>3
  <2>5. NoneOf(Spaces, Base + pos, Base + pos + skip)'
    BY <1>1, <1>2, <1>7, <1>8, <2>4 DEF NoneOf
  <2>6. Reached("delimited")' \/ Reached("word")'
    BY <1>1, <1>2, <1>7, <2>1 DEF Reached, Begun, NoneOf, Sought
  <2>7. OperationAt'
    BY <1>1, <1>10, <2>5, <2>6 DEF OperationAt, Skipping
  <2> QED BY <1>1, <1>2, <1>6, <1>10, <2>7 DEF PieceInv, ReadsScanned, Idle
<1> QED BY <1>1, <1>9, <1>10

\* What is known while spaces are skipped.
LEMMA SkippingStage ==
  ASSUME PieceInv, op \in Skipping
  PROVE  /\ TypeOK /\ WindowAt /\ WindowShowsFile /\ skip = 0 /\ op # "open"
         /\ \E o \in {"delimited", "word", "number"} :
              /\ op = FirstStage[o] /\ Begun(o)
              /\ from \in Nat /\ from <= Base + pos
              /\ NoneOf(Sought(o), from, Base + pos)
              /\ Stops = Sought(o)
              /\ op = "skip word" <=> o = "word"
              /\ op = "skip number" <=> o = "number"
<1>1. TypeOK /\ WindowAt /\ WindowShowsFile /\ OperationAt
  BY DEF PieceInv
<1>2. PICK o \in {"delimited", "word", "number"} :
        /\ op = FirstStage[o] /\ Begun(o)
        /\ from <= Base + pos
        /\ NoneOf(Sought(o), from, Base + pos)
  BY <1>1 DEF OperationAt
<1>3. skip = 0
  BY <1>1 DEF OperationAt
<1>4. /\ FirstStage["delimited"] = "skip delimited" /\ FirstStage["word"] = "skip word"
      /\ FirstStage["number"] = "skip number"
  BY DEF FirstStage
<1>5. (op = "skip word" <=> o = "word") /\ (op = "skip number" <=> o = "number")
  BY <1>2, <1>4
<1>6. Stops = Sought(o)
  BY <1>5 DEF Stops, Sought
<1>7. from \in Nat
  BY <1>1, Types
<1> QED BY <1>1, <1>2, <1>3, <1>5, <1>6, <1>7 DEF Skipping

\* What an operation returns if what it looks for first is not in the file, or if
\* a newline comes before the word.
LEMMA NotFoundIs ==
  ASSUME TypeOK, NEW o \in {"delimited", "word", "number"}, NEW n,
         NextOf(file, from, Sought(o)) = n
  PROVE  /\ n = Len(file) + 1 =>
              Scanned(o, from) = [to |-> Len(file), text |-> <<>>, ok |-> FALSE]
         /\ n \in 1..Len(file) /\ o = "word" /\ file[n] = "nl" =>
              Scanned(o, from) = [to |-> n - 1, text |-> <<>>, ok |-> FALSE]
<1>1. Len(file) \in Nat
  BY Types
<1>2. n = Len(file) + 1 => n > Len(file)
  BY <1>1
<1>3. n \in 1..Len(file) => ~(n > Len(file))
  BY <1>1
<1>4. CASE o = "delimited"
  <2>1. Sought(o) = (Chars \ Spaces) \cup {} /\ Scanned(o, from) = WordAt(from, {})
    BY <1>4 DEF Sought, Scanned
  <2> QED BY <1>2, <1>4, <2>1 DEF WordAt
<1>5. CASE o = "word"
  <2>1. Sought(o) = (Chars \ Spaces) \cup {"nl"} /\ Scanned(o, from) = WordAt(from, {"nl"})
    BY <1>5 DEF Sought, Scanned
  <2> QED BY <1>2, <1>3, <2>1 DEF WordAt
<1>6. CASE o = "number"
  <2>1. Sought(o) = Chars \ Spaces /\ Scanned(o, from) = NumberAt(from)
    BY <1>6 DEF Sought, Scanned
  <2> QED BY <1>2, <1>6, <2>1 DEF NumberAt
<1> QED BY <1>4, <1>5, <1>6

\* Spaces end in the window.
LEMMA SkippedInv ==
  ASSUME PieceInv, Skipped
  PROVE  PieceInv'
<1>1. op \in Skipping
  BY DEF Skipped
<1>2. TypeOK /\ WindowAt /\ WindowShowsFile /\ skip = 0 /\ op # "open"
  BY <1>1, SkippingStage
<1>3. PICK o \in {"delimited", "word", "number"} :
        /\ op = FirstStage[o] /\ Begun(o)
        /\ from \in Nat /\ from <= Base + pos
        /\ NoneOf(Sought(o), from, Base + pos)
        /\ Stops = Sought(o)
        /\ op = "skip word" <=> o = "word"
        /\ op = "skip number" <=> o = "number"
  BY <1>1, SkippingStage
<1>4. PICK i : i = NextOf(data, pos, Stops)
  OBVIOUS
<1>5. PICK b \in Nat : b = Base
  BY <1>2, BaseFacts
<1>6. /\ data \in Seq(Chars) /\ file \in Seq(Chars) /\ Len(data) \in Nat /\ Len(file) \in Nat
      /\ pos \in Nat /\ pos <= Len(data) /\ b + Len(data) <= Len(file)
  BY <1>2, <1>5, Types, BaseFacts
<1>7. i <= Len(data)
  BY <1>4 DEF Skipped
<1>8. /\ i \in 1..(Len(data) + 1) /\ i > pos /\ data[i] \in Sought(o)
      /\ NextOf(file, from, Sought(o)) = b + i
  <2>1. pos <= pos
    BY <1>6
  <2> QED BY <1>2, <1>3, <1>4, <1>5, <1>6, <1>7, <2>1, SearchFacts
<1>9. PICK n \in Nat : n = b + i /\ n - 1 = b + (i - 1) /\ n <= Len(file) /\ n > 0
  BY <1>6, <1>7, <1>8
<1>10. /\ i - 1 \in Nat /\ pos <= i - 1 /\ i - 1 <= Len(data) /\ i \in 1..Len(data)
       /\ n \in 1..Len(file)
  BY <1>6, <1>7, <1>8, <1>9
<1>11. file[n] = data[i]
  BY <1>2, <1>5, <1>9, <1>10, Shown
<1>12. CASE op = "skip word" /\ data[i] = "nl"
  <2>1. Fail(i - 1)
    BY <1>4, <1>12 DEF Skipped
  <2>2. NextOf(file, from, Sought(o)) = n
    BY <1>8, <1>9
  <2>3. Scanned(o, from) = [to |-> n - 1, text |-> <<>>, ok |-> FALSE]
    BY <1>2, <1>3, <1>10, <1>11, <1>12, <2>2, NotFoundIs
  <2>4. Scanned(o, from) = [to |-> Base + (i - 1), text |-> <<>>, ok |-> FALSE]
    BY <1>5, <1>9, <2>3
  <2> QED BY <1>2, <1>3, <1>10, <2>1, <2>4, FailFacts
<1>13. CASE ~(op = "skip word" /\ data[i] = "nl")
  <2>1. /\ op' = IF op = "skip number" THEN "number" ELSE "find"
        /\ pos' = i - 1
        /\ UNCHANGED <<file, kind, windowVars, skip, from, last>>
    BY <1>4, <1>13 DEF Skipped
  <2>2. op' \in {"find", "number"} /\ op' # "open" /\ op' # "idle"
    BY <2>1
  <2>3. WindowType' /\ WindowShowsFile' /\ WindowAt' /\ Base' = Base
    BY <1>2, <1>10, <2>1, <2>2, Moved
  <2>4. TypeOK'
    BY <1>2, <2>1, <2>2, <2>3, TypeAfter DEF TypeOK
  <2>5. PICK h \in Nat : h = n - 1
    BY <1>9
  <2>6. Base' + pos' = h /\ h + 1 = n /\ h < Len(file) /\ from <= h
    <3>1. from \in Nat /\ from <= b + pos
      BY <1>3, <1>5
    <3>2. b \in Nat /\ n \in Nat /\ h \in Nat
      OBVIOUS
    <3>3. h + 1 = n /\ h < Len(file) /\ from <= h /\ b + (i - 1) = h
      BY ONLY <1>6, <1>9, <1>10, <2>5, <3>1, <3>2
    <3>4. Base' = b /\ pos' = i - 1
      BY <1>5, <2>1, <2>3
    <3> QED BY ONLY <3>3, <3>4
  <2>7. NoneOf(Sought(o), from, h)
    <3>1. \A j \in (from + 1)..Len(file) : j < n => file[j] \notin Sought(o)
      <4>1. from \in Nat /\ file \in Seq(Chars) /\ NextOf(file, from, Sought(o)) = n
        BY <1>3, <1>6, <1>8, <1>9
      <4> QED BY ONLY <4>1, NextFacts
    <3>2. ASSUME NEW j \in (from + 1)..h PROVE j \in (from + 1)..Len(file) /\ j < n
      <4>1. from \in Nat /\ Len(file) \in Nat /\ h \in Nat /\ h + 1 = n /\ h < Len(file)
        BY <1>3, <1>6, <2>6
      <4> QED BY ONLY <4>1
    <3>3. h <= Len(file)
      BY <1>6, <2>6
    <3> QED BY <3>1, <3>2, <3>3 DEF NoneOf
  <2>8. file[n] \in Chars \ Spaces
    <3>1. data[i] \in Sought(o) /\ ~(o = "word" /\ data[i] = "nl")
      BY <1>3, <1>8, <1>13
    <3> QED BY <1>11, <3>1 DEF Sought
  <2>9. Reached(o)'
    BY <1>3, <2>1, <2>6, <2>7, <2>8 DEF Reached, Begun, NoneOf, Sought
  <2>10. skip' = 0
    BY <1>2, <2>1
  <2>11. NoneOf(Spaces, Base + pos, Base + pos + skip)'
    <3>1. h + 0 = h /\ (h + 1)..h = {} /\ h <= Len(file)
      BY <1>6, <2>6
    <3> QED BY <2>1, <2>6, <2>10, <3>1 DEF NoneOf
  <2>12. OperationAt'
    <3>1. op' = "number" => o = "number"
      BY <1>3, <2>1
    <3>2. op' = "find" => o \in {"delimited", "word"}
      BY <1>3, <2>1
    <3> QED BY <2>2, <2>9, <2>11, <3>1, <3>2 DEF OperationAt, Skipping
  <2> QED BY <2>2, <2>3, <2>4, <2>12 DEF PieceInv, ReadsScanned, Idle
<1> QED BY <1>12, <1>13

\* The window holds nothing but spaces.
LEMMA SkipShiftInv ==
  ASSUME PieceInv, SkipShift
  PROVE  PieceInv'
<1>1. op \in Skipping /\ NextOf(data, pos, Stops) > Len(data)
  BY DEF SkipShift
<1>2. TypeOK /\ WindowAt /\ WindowShowsFile /\ skip = 0 /\ op # "open"
  BY <1>1, SkippingStage
<1>3. PICK o \in {"delimited", "word", "number"} :
        /\ op = FirstStage[o] /\ Begun(o)
        /\ from \in Nat /\ from <= Base + pos
        /\ NoneOf(Sought(o), from, Base + pos)
        /\ Stops = Sought(o)
        /\ op = "skip word" <=> o = "word"
        /\ op = "skip number" <=> o = "number"
  BY <1>1, SkippingStage
<1>4. PICK b \in Nat : b = Base
  BY <1>2, BaseFacts
<1>5. /\ Len(data) \in Nat /\ Len(file) \in Nat
      /\ pos \in Nat /\ pos <= Len(data) /\ pos <= pos /\ b + Len(data) <= Len(file)
  BY <1>2, <1>4, Types, BaseFacts
<1>6. /\ NoneOf(Sought(o), from, Base + Len(data))
      /\ Base + Len(data) = Len(file) => NextOf(file, from, Sought(o)) = Len(file) + 1
  BY <1>1, <1>2, <1>3, <1>5, SearchFacts
<1>7. CASE atEnd /\ Fail(Len(data))
  <2>1. Base + Len(data) = Len(file)
    BY <1>2, <1>7 DEF WindowAt
  <2>2. PICK n : n = Len(file) + 1
    OBVIOUS
  <2>3. NextOf(file, from, Sought(o)) = n
    BY <1>6, <2>1, <2>2
  <2>4. Scanned(o, from) = [to |-> Base + Len(data), text |-> <<>>, ok |-> FALSE]
    BY <1>2, <2>1, <2>2, <2>3, NotFoundIs
  <2>5. PICK p \in Nat : p = Len(data)
    BY <1>5
  <2>6. /\ Fail(p) /\ pos <= p /\ p <= Len(data) /\ Begun(o)
        /\ Scanned(o, from) = [to |-> Base + p, text |-> <<>>, ok |-> FALSE]
    <3>1. Begun(o)
      BY <1>3
    <3>2. Fail(p) /\ Scanned(o, from) = [to |-> Base + p, text |-> <<>>, ok |-> FALSE]
      BY ONLY <1>7, <2>4, <2>5
    <3>3. pos <= p /\ p <= Len(data)
      BY ONLY <1>5, <2>5
    <3> QED BY ONLY <3>1, <3>2, <3>3
  <2> QED BY <1>2, <2>6, FailFacts
<1>8. CASE /\ pos < Len(data) /\ ~atEnd /\ pos' = Len(data)
           /\ UNCHANGED <<file, kind, windowVars, op, skip, from, last>>
  <2>1. WindowType' /\ WindowShowsFile' /\ WindowAt' /\ Base' = Base
    BY <1>2, <1>5, <1>8, Moved
  <2>2. TypeOK'
    BY <1>2, <1>8, <2>1, TypeAfter DEF TypeOK
  <2>3. PICK t \in Nat : t = b + Len(data)
    BY <1>5
  <2>4. /\ Base' + pos' = t /\ NoneOf(Sought(o), from, t) /\ from <= t
        /\ file' = file /\ from' = from /\ last' = last /\ op' = op /\ skip' = skip
    <3>1. from \in Nat /\ from <= b + pos
      BY <1>3, <1>4
    <3>2. from <= t
      BY ONLY <1>5, <2>3, <3>1
    <3> QED BY <1>4, <1>6, <1>8, <2>1, <2>3, <3>2
  <2>5. Begun(o)' /\ from' <= Base' + pos' /\ NoneOf(Sought(o), from, Base + pos)'
    BY <1>3, <2>4 DEF Begun, NoneOf, Sought
  <2>6. op' = FirstStage[o] /\ skip' = 0 /\ op' \in Skipping
    BY <1>1, <1>2, <1>3, <2>4
  <2>7. OperationAt'
    BY <2>5, <2>6 DEF OperationAt, Skipping
  <2>8. ReadsScanned'
    BY <2>6 DEF ReadsScanned, Result, Idle, Skipping
  <2> QED BY <2>1, <2>2, <2>7, <2>8 DEF PieceInv
<1>9. CASE /\ pos = Len(data) /\ Shift
           /\ UNCHANGED <<file, kind, op, skip, from, last>>
  <2>1. WindowType' /\ WindowShowsFile' /\ WindowAt' /\ Base' + pos' = Base + pos
    BY <1>2, <1>9, ShiftFacts DEF Shifted
  <2> QED BY <1>1, <1>9, <2>1, KeepsOn
<1> QED BY <1>7, <1>8, <1>9 DEF SkipShift

\* A number is parsed: a space behind it is in the window, or the window is the
\* last.
LEMMA NumberReadInv ==
  ASSUME PieceInv, NumberRead
  PROVE  PieceInv'
<1>1. op = "number" /\ (NumberComplete \/ atEnd) /\ op # "open"
  BY DEF NumberRead
<1>2. TypeOK /\ WindowAt /\ WindowShowsFile /\ Reached("number")
  BY <1>1 DEF PieceInv, OperationAt
<1>3. PICK bytes : bytes = Chars \ {"d"}
  OBVIOUS
<1>4. PICK i : i = NextOf(data, pos, bytes)
  OBVIOUS
<1>5. PICK b \in Nat : b = Base
  BY <1>2, BaseFacts
<1>6. /\ data \in Seq(Chars) /\ file \in Seq(Chars) /\ Len(data) \in Nat /\ Len(file) \in Nat
      /\ pos \in Nat /\ pos <= Len(data) /\ pos <= pos /\ b + Len(data) <= Len(file)
      /\ lastSpace \in Nat /\ lastSpace <= Len(data)
  BY <1>2, <1>5, Types, BaseFacts
<1>7. PICK h \in Nat : h = b + pos
  BY <1>6
<1>8. /\ Begun("number") /\ h < Len(file) /\ NextOf(file, from, Sought("number")) = h + 1
  <2>1. Begun("number") /\ Base + pos < Len(file)
    BY <1>2 DEF Reached
  <2>2. NextOf(file, from, Sought("number")) = Base + pos + 1
    BY <1>2, ReachedIs
  <2> QED BY <1>5, <1>7, <2>1, <2>2
<1>9. NoneOf(bytes, h, Base + pos) /\ h <= Base + pos
  BY <1>5, <1>6, <1>7, <1>8 DEF NoneOf
<1>10. /\ i \in 1..(Len(data) + 1)
       /\ i <= Len(data) => i > pos /\ NextOf(file, h, bytes) = b + i
       /\ i > Len(data) /\ b + Len(data) = Len(file) => NextOf(file, h, bytes) = Len(file) + 1
  BY <1>2, <1>4, <1>5, <1>6, <1>9, SearchFacts
<1>11. \A j \in (pos + 1)..Len(data) : j < i => data[j] \notin bytes
  BY <1>4, <1>6, NextFacts
<1>12. i > Len(data) => b + Len(data) = Len(file)
  <2>1. SUFFICES ASSUME i > Len(data), ~atEnd PROVE FALSE
    BY <1>2, <1>5 DEF WindowAt
  <2>2. lastSpace > pos
    BY <1>1, <2>1 DEF NumberComplete
  <2>3. data[lastSpace] \in Spaces
    BY <1>2, <2>2 DEF WindowAt
  <2>4. lastSpace \in (pos + 1)..Len(data) /\ lastSpace < i /\ lastSpace \in 1..Len(data)
    BY <1>6, <1>10, <2>1, <2>2
  <2>5. data[lastSpace] \in Chars
    BY <1>6, <2>4, ElementOfSeq
  <2>6. data[lastSpace] \in bytes
    BY <1>3, <2>3, <2>5 DEF Spaces
  <2> QED BY <1>11, <2>4, <2>6
<1>13. NextOf(file, h, bytes) = b + i /\ i > pos /\ i \in Nat /\ i <= Len(data) + 1
  <2>1. CASE i <= Len(data)
    BY <1>6, <1>10, <2>1
  <2>2. CASE i > Len(data)
    <3>1. NextOf(file, h, bytes) = Len(file) + 1 /\ b + Len(data) = Len(file)
      BY <1>10, <1>12, <2>2
    <3>2. i = Len(data) + 1
      BY <1>6, <1>10, <2>2
    <3>3. b + i = Len(file) + 1 /\ i > pos /\ i \in Nat
      BY ONLY <1>6, <3>1, <3>2
    <3> QED BY <1>10, <3>1, <3>2, <3>3
  <2> QED BY <1>6, <1>10, <2>1, <2>2
<1>14. PICK n \in Nat : n = h + 1 /\ n - 1 = h /\ ~(n > Len(file))
  BY <1>6, <1>8
<1>15. PICK e \in Nat : e = b + i /\ e - 1 = b + (i - 1)
  BY <1>13
<1>16. NextOf(file, from, Chars \ Spaces) = n /\ NextOf(file, n - 1, Chars \ {"d"}) = e
  <2>1. Sought("number") = Chars \ Spaces
    BY DEF Sought
  <2> QED BY <1>3, <1>8, <1>13, <1>14, <1>15, <2>1
<1>17. Scanned("number", from) = NumberAt(from)
  BY DEF Scanned
<1>18. CASE i = pos + 1
  <2>1. Fail(pos)
    BY <1>3, <1>4, <1>18 DEF NumberRead
  <2>2. e = n /\ n - 1 = Base + pos
    BY <1>5, <1>6, <1>7, <1>14, <1>15, <1>18
  <2>3. NumberAt(from) = [to |-> n - 1, text |-> <<>>, ok |-> FALSE]
    BY <1>14, <1>16, <2>2 DEF NumberAt
  <2>4. Scanned("number", from) = [to |-> Base + pos, text |-> <<>>, ok |-> FALSE]
    BY <1>17, <2>2, <2>3
  <2> QED BY <1>1, <1>2, <1>6, <1>8, <2>1, <2>4, FailFacts
<1>19. CASE i # pos + 1
  <2>1. Return(SubSeq(data, pos + 1, i - 1), i - 1)
    BY <1>3, <1>4, <1>19 DEF NumberRead
  <2>2. PICK q : q = i - 1
    OBVIOUS
  <2>3. PICK text : text = SubSeq(data, pos + 1, q)
    OBVIOUS
  <2>4. q \in pos..Len(data) /\ pos \in 0..Len(data) /\ q \in Nat /\ pos <= q /\ q <= Len(data)
    BY <1>6, <1>13, <2>2
  <2>5. text = SubSeq(file, b + pos + 1, b + q)
    <3>1. \A j \in 1..Len(data) : data[j] = file[b + j]
      BY <1>2, <1>5, Shown
    <3>2. data \in Seq(Chars) /\ file \in Seq(Chars) /\ b + Len(data) <= Len(file)
      BY <1>6
    <3>3. SubSeq(data, pos + 1, q) = SubSeq(file, b + pos + 1, b + q)
      BY ONLY <2>4, <3>1, <3>2, SameText
    <3> QED BY <2>3, <3>3
  <2>6. b + pos + 1 = n /\ b + q = e - 1 /\ e # n
    BY <1>6, <1>7, <1>13, <1>14, <1>15, <1>19, <2>2
  <2>7. NumberAt(from) = [to |-> e - 1, text |-> text, ok |-> TRUE]
    BY <1>14, <1>16, <2>5, <2>6 DEF NumberAt
  <2>8. Scanned("number", from) = [to |-> Base + q, text |-> text, ok |-> TRUE]
    BY <1>5, <1>17, <2>6, <2>7
  <2>9. Return(text, q)
    BY <2>1, <2>2, <2>3
  <2> QED BY <1>1, <1>2, <1>8, <2>4, <2>8, <2>9, ReturnFacts
<1> QED BY <1>18, <1>19

\* More of the file is needed before a number can be parsed.
LEMMA NumberShiftInv ==
  ASSUME PieceInv, NumberShift
  PROVE  PieceInv'
<1>1. op = "number" /\ Shift /\ UNCHANGED <<file, kind, op, skip, from, last>>
  BY DEF NumberShift
<1>2. WindowType' /\ WindowShowsFile' /\ WindowAt' /\ Base' + pos' = Base + pos
  BY <1>1, ShiftFacts DEF Shifted, PieceInv
<1> QED BY <1>1, <1>2, KeepsOn

\* get() takes a byte of the window, or shifts it first, and throws if the last
\* part of the file has then been mapped.
LEMMA GetInv ==
  ASSUME PieceInv, Get
  PROVE  PieceInv'
<1>1. op = "get" /\ op # "open"
  BY DEF Get
<1>2. TypeOK /\ WindowAt /\ WindowShowsFile /\ Begun("get") /\ from = Base + pos
  BY <1>1 DEF PieceInv, OperationAt
<1>3. PICK b \in Nat : b = Base
  BY <1>2, BaseFacts
<1>4. /\ data \in Seq(Chars) /\ Len(data) \in Nat /\ Len(file) \in Nat
      /\ pos \in Nat /\ pos <= Len(data) /\ b + Len(data) <= Len(file)
      /\ offset \in Nat /\ mapSize \in Nat /\ mapSize > 0 /\ from \in Nat
  BY <1>2, <1>3, Types, BaseFacts DEF TypeOK
<1>5. Scanned("get", from) = ByteAt(from)
  BY DEF Scanned
<1>6. CASE pos < Len(data) /\ Return(<<data[pos + 1]>>, pos + 1)
  <2>1. PICK text : text = <<data[pos + 1]>>
    OBVIOUS
  <2>2. pos + 1 \in 1..Len(data) /\ from + 1 = b + (pos + 1) /\ from # Len(file)
    BY <1>2, <1>3, <1>4, <1>6
  <2>3. data[pos + 1] = file[b + (pos + 1)]
    BY <1>2, <1>3, <2>2, Shown
  <2>4. ByteAt(from) = [to |-> from + 1, text |-> text, ok |-> TRUE]
    BY <2>1, <2>2, <2>3 DEF ByteAt
  <2>5. PICK p \in Nat : p = pos + 1 /\ pos <= p /\ p <= Len(data)
    BY <1>4, <1>6
  <2>6. Scanned("get", from) = [to |-> Base + p, text |-> text, ok |-> TRUE]
    BY <1>3, <1>5, <2>2, <2>4, <2>5
  <2>7. Return(text, p)
    BY <1>6, <2>1, <2>5
  <2> QED BY <1>1, <1>2, <2>5, <2>6, <2>7, ReturnFacts
<1>7. CASE pos = Len(data) /\ atEnd /\ Fail(pos)
  <2>1. from = Len(file) /\ from = Base + pos
    BY <1>2, <1>7 DEF WindowAt
  <2>2. ByteAt(from) = [to |-> from, text |-> <<>>, ok |-> FALSE]
    BY <2>1 DEF ByteAt
  <2>3. Scanned("get", from) = [to |-> Base + pos, text |-> <<>>, ok |-> FALSE]
    BY <1>5, <2>1, <2>2
  <2> QED BY <1>1, <1>2, <1>4, <1>7, <2>3, FailFacts
<1>8. CASE /\ pos = Len(data) /\ Shift
           /\ IF atEnd'
              THEN /\ op' = "idle"
                   /\ last' = [last EXCEPT !.ok = FALSE, !.to = Base' + pos']
              ELSE UNCHANGED <<op, last>>
           /\ UNCHANGED <<file, kind, skip, from>>
  <2>1. op' # "open"
    BY <1>1, <1>8
  <2>2. /\ WindowType' /\ WindowShowsFile' /\ WindowAt' /\ Base' + pos' = Base + pos
        /\ fallback' /\ atEnd' /\ pos = Len(data) => pos' = Len(data')
    BY <1>2, <1>8, <2>1, ShiftFacts DEF Shifted
  <2>3. CASE ~atEnd'
    BY <1>1, <1>8, <2>2, <2>3, KeepsOn
  <2>4. CASE atEnd'
    <3>1. op' = "idle" /\ last' = [last EXCEPT !.ok = FALSE, !.to = Base' + pos']
      BY <1>8, <2>4
    <3>2. last' = [op |-> "get", from |-> from, to |-> from, text |-> <<>>, ok |-> FALSE]
      BY <1>2, <2>2, <3>1 DEF Begun
    <3>3. Base' + pos' = last'.to
      BY <1>2, <2>2, <3>2
    <3>4. TypeOK'
      BY <1>2, <1>8, <2>2, <3>1, TypeAfter DEF TypeOK
    <3>5. OperationAt'
      BY <3>1 DEF OperationAt, Skipping
    <3>6. Base' + Len(data') = Len(file)
      BY <1>8, <2>2, <2>4 DEF WindowAt
    <3>7. CASE from = Len(file)
      <4>1. ByteAt(from) = [to |-> from, text |-> <<>>, ok |-> FALSE]
        BY <3>7 DEF ByteAt
      <4>2. last'.op = "get" /\ last'.from = from
        BY <3>2
      <4>3. Scanned(last.op, last.from)' = Scanned("get", from)
        BY <1>8, <4>2, ScannedStays
      <4>4. [to |-> last'.to, text |-> last'.text, ok |-> last'.ok] = Scanned("get", from)
        BY <1>5, <3>2, <4>1
      <4>5. ReadsScanned'
        BY <3>3, <4>3, <4>4 DEF ReadsScanned, Result
      <4> QED BY <2>2, <3>4, <3>5, <4>5 DEF PieceInv
    <3>8. CASE from # Len(file)
      <4>1. PICK bb \in Int : bb = Base'
        <5>1. taken' \in Nat /\ offset' \in Nat /\ Len(data') \in Nat
          BY <2>2, SizeAssumption DEF WindowType
        <5>2. Base' \in Int
          BY <5>1 DEF Base
        <5> QED BY <5>2
      <4>2. pos' \in Nat /\ pos' <= Len(data') /\ Len(data') \in Nat
        BY <2>2 DEF WindowType
      <4>3. bb + pos' = from /\ bb + Len(data') = Len(file)
        BY <1>2, <2>2, <3>6, <4>1
      <4>4. pos' < Len(data')
        BY ONLY <3>8, <4>2, <4>3
      <4>5. ~fallback'
        BY <1>8, <2>2, <2>4, <4>2, <4>4
      <4>6. from > 0
        <5>1. ~fallback /\ ~atEnd
          BY <1>8, <4>5 DEF Shift, MMapShift, ReadShift, MapFailed
        <5>2. Len(data) = mapSize
          BY <1>1, <1>2, <5>1 DEF WindowAt
        <5> QED BY <1>2, <1>3, <1>4, <1>8, <5>2
      <4>7. /\ last'.op = "get" /\ ~last'.ok /\ last'.to = last'.from /\ last'.from > 0
            /\ Base' + Len(data') = Len(file')
        BY <1>8, <3>2, <3>6, <4>6
      <4>8. ReadsScanned'
        BY <3>3, <4>4, <4>5, <4>7 DEF ReadsScanned, Result
      <4> QED BY <2>2, <3>4, <3>5, <4>8 DEF PieceInv
    <3> QED BY <3>7, <3>8
  <2> QED BY <2>3, <2>4
<1> QED BY <1>6, <1>7, <1>8 DEF Get

\* Every step keeps the invariant.
LEMMA NextInv ==
  ASSUME PieceInv, [Next]_vars
  PROVE  PieceInv'
<1>1. CASE UNCHANGED vars
  <2>1. /\ file' = file /\ kind' = kind /\ fallback' = fallback /\ data' = data /\ pos' = pos
        /\ offset' = offset /\ mapSize' = mapSize /\ atEnd' = atEnd /\ lastSpace' = lastSpace
        /\ taken' = taken /\ op' = op /\ skip' = skip /\ from' = from /\ last' = last
    BY <1>1 DEF vars
  <2>2. TypeOK' /\ Base' = Base
    BY <2>1 DEF PieceInv, TypeOK, Base
  <2>3. WindowShowsFile' /\ WindowAt'
    BY <2>1, <2>2 DEF PieceInv, WindowShowsFile, WindowAt
  <2>4. OperationAt'
    BY <2>1, <2>2 DEF PieceInv, OperationAt, Begun, Reached, NoneOf, Sought
  <2>5. ReadsScanned'
    <3>1. PICK o, f : o = last.op /\ f = last.from
      OBVIOUS
    <3>2. Scanned(last.op, last.from)' = Scanned(o, f)
      BY <2>1, <3>1, ScannedStays
    <3>3. Result' = Result
      BY <2>1 DEF Result
    <3> QED BY <2>1, <2>2, <3>1, <3>2, <3>3 DEF PieceInv, ReadsScanned, Idle
  <2> QED BY <2>2, <2>3, <2>4, <2>5 DEF PieceInv
<1>2. CASE Open
  BY <1>2, OpenInv
<1>3. ASSUME NEW o \in Operations, Begin(o) PROVE PieceInv'
  BY <1>3, BeginInv
<1>4. CASE LineFound
  BY <1>4, LineFoundInv
<1>5. CASE LineAtEnd
  BY <1>5, LineAtEndInv
<1>6. CASE WordFound
  BY <1>6, WordFoundInv
<1>7. CASE SearchShift
  BY <1>7, SearchShiftInv
<1>8. CASE Skipped
  BY <1>8, SkippedInv
<1>9. CASE SkipShift
  BY <1>9, SkipShiftInv
<1>10. CASE NumberRead
  BY <1>10, NumberReadInv
<1>11. CASE NumberShift
  BY <1>11, NumberShiftInv
<1>12. CASE Get
  BY <1>12, GetInv
<1> QED BY <1>1, <1>2, <1>3, <1>4, <1>5, <1>6, <1>7, <1>8, <1>9, <1>10, <1>11, <1>12 DEF Next

\* The inductive invariant holds always.
LEMMA PieceInvariant == Spec => []PieceInv
<1>1. Init => PieceInv
  BY InitInv
<1>2. PieceInv /\ [Next]_vars => PieceInv'
  BY NextInv
<1> QED BY <1>1, <1>2, PTL DEF Spec

\* For files and pages of every size: whatever Shift maps, reads, moves or
\* enlarges, and wherever a mapping fails, the window of a FilePiece shows the
\* bytes of the file that follow those consumed before, and position_,
\* mapped_offset_ and last_space_ stay within their bounds.
THEOREM FilePieceSafety == Spec => []Safety
<1>1. PieceInv => Safety
  BY DEF PieceInv, Safety
<1> QED BY <1>1, PieceInvariant, PTL

-----------------------------------------------------------------------------
(* What a scan returns is what is documented, but for a return at the end *)

\* Every step keeps the beginning of the last operation a position.
LEMMA LastAtStep ==
  ASSUME PieceInv, LastAt, [Next]_vars
  PROVE  LastAt'
<1>1. CASE UNCHANGED vars
  BY <1>1 DEF LastAt, vars
<1>2. ASSUME NEW o \in Operations, Begin(o) PROVE LastAt'
  <2>1. PICK f \in Nat : f = Base + pos
    BY BaseFacts DEF PieceInv
  <2>2. last' = [op |-> o, from |-> f, to |-> 0, text |-> <<>>, ok |-> TRUE]
    BY <1>2, <2>1 DEF Begin, NoText
  <2> QED BY <2>2 DEF LastAt
<1>3. ASSUME NEW text, NEW p, Return(text, p) PROVE LastAt'
  <2>1. PICK t : t = Base + p
    OBVIOUS
  <2>2. last' = [last EXCEPT !.text = text, !.to = t]
    BY <1>3, <2>1 DEF Return
  <2> QED BY <2>2 DEF LastAt
<1>4. ASSUME NEW p, Fail(p) PROVE LastAt'
  <2>1. PICK t : t = Base + p
    OBVIOUS
  <2>2. last' = [last EXCEPT !.ok = FALSE, !.to = t]
    BY <1>4, <2>1 DEF Fail
  <2> QED BY <2>2 DEF LastAt
<1>5. CASE Get
  <2>1. CASE last' = last
    BY <2>1 DEF LastAt
  <2>2. CASE last' = [last EXCEPT !.ok = FALSE, !.to = Base' + pos']
    <3>1. PICK t : t = Base' + pos'
      OBVIOUS
    <3>2. last' = [last EXCEPT !.ok = FALSE, !.to = t]
      BY <2>2, <3>1
    <3> QED BY <3>2 DEF LastAt
  <2> QED BY <1>3, <1>4, <1>5, <2>1, <2>2 DEF Get
<1>6. CASE LineFound
  BY <1>3, <1>6 DEF LineFound
<1>7. CASE LineAtEnd
  BY <1>3, <1>4, <1>7 DEF LineAtEnd
<1>8. CASE WordFound
  BY <1>3, <1>8 DEF WordFound
<1>9. CASE NumberRead
  BY <1>3, <1>4, <1>9 DEF NumberRead
<1>10. CASE Skipped
  <2>1. CASE last' = last
    BY <2>1 DEF LastAt
  <2> QED BY <1>4, <1>10, <2>1 DEF Skipped
<1>11. CASE SkipShift
  <2>1. CASE last' = last
    BY <2>1 DEF LastAt
  <2> QED BY <1>4, <1>11, <2>1 DEF SkipShift
<1>12. CASE Open \/ SearchShift \/ NumberShift
  <2>1. last' = last
    BY <1>12 DEF Open, SearchShift, NumberShift
  <2> QED BY <2>1 DEF LastAt
<1> QED BY <1>1, <1>2, <1>5, <1>6, <1>7, <1>8, <1>9, <1>10, <1>11, <1>12 DEF Next

\* Without a newline behind it the last line is returned as it is, so that it
\* differs from what is documented at most by a return that ends the file.
LEMMA ScannedIsExact ==
  ASSUME TypeOK, ReadsScanned, LastAt
  PROVE  ReadsExact
<1>1. SUFFICES ASSUME Idle, last.op = "line", last.ok, last.to = Len(file),
                      NEW f \in Nat, f = last.from, f # Len(file),
                      NextOf(file, f, {"nl"}) > Len(file),
                      last.text = SubSeq(file, f + 1, Len(file))
               PROVE  \/ Result = LineAt(f)
                      \/ /\ last.to = Len(file) /\ file[Len(file)] = "cr"
                         /\ Shortened = LineAt(f)
  <2>1. PICK f \in Nat : f = last.from
    BY DEF LastAt
  <2>2. CASE last.op # "line"
    <3>1. ASSUME last.op # "none" PROVE Scanned(last.op, last.from) = Expected(last.op, last.from)
      <4>1. last.op \in {"delimited", "word", "number", "get"}
        BY <2>2, <3>1, EnvironmentAssumption DEF LastAt
      <4> QED BY <4>1 DEF Scanned, Expected
    <3> QED BY <3>1 DEF ReadsScanned, ReadsExact
  <2>3. CASE last.op = "line"
    <3>1. file \in Seq(Chars) /\ Len(file) \in Nat
      BY Types
    <3>2. PICK e : e = NextOf(file, f, {"nl"})
      OBVIOUS
    <3>3. e \in 1..(Len(file) + 1)
      BY <3>1, <3>2, NextFacts
    <3>4. CASE e <= Len(file) \/ f = Len(file)
      <4>1. ASSUME f = Len(file) PROVE ScanLine(f) = LineAt(f)
        BY <4>1 DEF ScanLine, LineAt
      <4>2. ASSUME f # Len(file) PROVE ScanLine(f) = LineAt(f)
        <5>1. PICK m : m = Min({e, Len(file)})
          OBVIOUS
        <5>2. e \in Int /\ Len(file) \in Int
          BY <3>1, <3>3
        <5>3. m \in {e, Len(file)} /\ m <= e /\ m <= Len(file)
          BY <5>1, <5>2, MinOfTwo
        <5>4. m = e /\ ~(e > Len(file))
          BY ONLY <3>4, <4>2, <5>2, <5>3
        <5> QED BY <3>2, <4>2, <5>1, <5>4 DEF ScanLine, LineAt
      <4>5. ScanLine(f) = LineAt(f)
        BY <4>1, <4>2
      <4>3. Scanned("line", f) = Expected("line", f)
        BY <4>5 DEF Scanned, Expected
      <4> QED BY <2>1, <2>3, <4>3 DEF ReadsScanned, ReadsExact
    <3>5. CASE e > Len(file) /\ f # Len(file)
      <4>1. ScanLine(f) = [to |-> Len(file), text |-> SubSeq(file, f + 1, Len(file)), ok |-> TRUE]
        BY <3>2, <3>5 DEF ScanLine
      <4>2. Scanned("line", f) = ScanLine(f) /\ Expected("line", f) = LineAt(f)
        BY DEF Scanned, Expected
      <4>3. ASSUME Idle
            PROVE  /\ Result = [to |-> Len(file), text |-> SubSeq(file, f + 1, Len(file)), ok |-> TRUE]
                   /\ Base + pos = last.to
        BY <2>1, <2>3, <4>1, <4>2, <4>3 DEF ReadsScanned
      <4>4. ASSUME Idle
            PROVE  \/ Result = LineAt(f)
                   \/ /\ last.to = Len(file) /\ file[Len(file)] = "cr"
                      /\ Shortened = LineAt(f)
        <5>1. last.ok /\ last.to = Len(file) /\ last.text = SubSeq(file, f + 1, Len(file))
          BY <4>3, <4>4 DEF Result
        <5>2. NextOf(file, f, {"nl"}) > Len(file)
          BY <3>2, <3>5
        <5> QED BY <1>1, <2>1, <2>3, <3>5, <4>4, <5>1, <5>2
      <4> QED BY <2>1, <2>3, <4>2, <4>3, <4>4 DEF ReadsExact
    <3> QED BY <3>1, <3>3, <3>4, <3>5
  <2> QED BY <2>2, <2>3
<1>2. file \in Seq(Chars) /\ Len(file) \in Nat
  BY Types
<1>3. NextOf(file, f, {"nl"}) = Len(file) + 1
  BY <1>1, <1>2, NextFacts
<1>4. LineAt(f) = [to |-> Len(file), text |-> WithoutCr(last.text), ok |-> TRUE]
  <2>1. PICK n \in Nat : n = Len(file)
    BY <1>2
  <2>2. n + 1 \in Int /\ n \in Int /\ n + 1 - 1 = n
    OBVIOUS
  <2>3. PICK m : m = Min({n + 1, n})
    OBVIOUS
  <2>4. m \in {n + 1, n} /\ m <= n
    BY ONLY <2>2, <2>3, MinOfTwo
  <2>5. m = n
    BY ONLY <2>2, <2>4
  <2>6. PICK e : e = n + 1
    OBVIOUS
  <2>7. NextOf(file, f, {"nl"}) = e /\ Min({e, Len(file)}) = n /\ e - 1 = Len(file)
    BY <1>3, <2>1, <2>2, <2>3, <2>5, <2>6
  <2> QED BY <1>1, <2>1, <2>7 DEF LineAt
<1>5. Result = [to |-> Len(file), text |-> last.text, ok |-> last.ok]
  BY <1>1 DEF Result
<1>6. last.ok = TRUE
  BY <1>1
<1>7. CASE WithoutCr(last.text) = last.text
  BY <1>4, <1>5, <1>6, <1>7
<1>8. CASE last.text # <<>> /\ last.text[Len(last.text)] = "cr"
  <2>1. file[Len(file)] = "cr"
    <3>1. CASE f < Len(file)
      <4>1. PICK m \in Nat : m = Len(file)
        BY <1>2
      <4>2. PICK n \in Nat : n = m - f
        BY <1>1, <3>1, <4>1
      <4>4. f \in Nat
        BY <1>1
      <4>5. f + n = m /\ n > 0 /\ f + n <= m /\ n \in 1..n
        BY ONLY <3>1, <4>1, <4>2, <4>4
      <4>6. last.text = SubSeq(file, f + 1, Len(file))
        BY <1>1
      <4>7. PICK t : t = SubSeq(file, f + 1, f + n)
        OBVIOUS
      <4>8. Len(t) = n /\ \A i \in 1..n : t[i] = file[f + i]
        <5>1. f + n <= Len(file)
          BY ONLY <4>1, <4>5
        <5> QED BY ONLY <1>2, <4>4, <4>7, <5>1, n \in Nat, PartFacts
      <4>9. last.text = t
        BY ONLY <4>1, <4>5, <4>6, <4>7
      <4>3. Len(last.text) = n /\ last.text[n] = file[f + n]
        BY ONLY <4>5, <4>8, <4>9
      <4> QED BY <1>8, <4>1, <4>5, <4>3
    <3>2. CASE f > Len(file)
      <4>1. last.text = <<>>
        BY <1>1, <1>2, <3>2
      <4> QED BY <1>8, <4>1
    <3> QED BY <1>1, <1>2, <3>1, <3>2
  <2>2. Shortened = [to |-> Len(file), text |-> WithoutCr(last.text), ok |-> TRUE]
    BY <1>1, <1>6 DEF Shortened
  <2> QED BY <1>1, <1>4, <2>1, <2>2
<1> QED BY <1>7, <1>8 DEF WithoutCr

-----------------------------------------------------------------------------
(* A line is searched inside the window *)

\* If no mapping fails while the end of a line is searched, a Shift shows no
\* less behind the position than before, so that the search goes on inside the
\* window.
LEMMA SearchStep ==
  ASSUME "line" \notin MapFails, PieceInv, SearchInWindow, [Next]_vars
  PROVE  SearchInWindow'
<1>1. SUFFICES ASSUME op' = "line" PROVE pos' + skip' <= Len(data')
  BY DEF SearchInWindow, Looked
<1>2. /\ TypeOK /\ WindowAt /\ WindowShowsFile
      /\ Len(data) \in Nat /\ pos \in Nat /\ pos <= Len(data) /\ skip \in Nat
  BY Types DEF PieceInv
<1>3. CASE UNCHANGED vars
  BY <1>1, <1>3 DEF SearchInWindow, Looked, vars
<1>4. ASSUME NEW o \in Operations, Begin(o) PROVE pos' + skip' <= Len(data')
  BY <1>2, <1>4 DEF Begin, windowVars
<1>5. CASE SearchShift
  <2>1. /\ op \in {"line", "find"} /\ op # "open" /\ Shift /\ file' = file /\ op' = op
        /\ skip' = Len(data) - pos /\ op \notin MapFails
    BY <1>1, <1>5 DEF SearchShift
  <2>2. WindowType' /\ Len(data') - pos' >= Len(data) - pos
    BY <1>2, <2>1, ShiftFacts DEF Shifted
  <2>3. pos' \in Nat /\ Len(data') \in Nat
    BY <2>2 DEF WindowType
  <2> QED BY ONLY <1>2, <2>1, <2>2, <2>3
<1>6. CASE \/ Open \/ LineFound \/ LineAtEnd \/ WordFound \/ Skipped \/ SkipShift
           \/ NumberRead \/ NumberShift \/ Get
  BY <1>1, <1>6 DEF Open, LineFound, LineAtEnd, WordFound, Skipped, SkipShift, NumberRead, NumberShift,
                    Get, Return, Fail, Skipping
<1> QED BY <1>3, <1>4, <1>5, <1>6 DEF Next

\* For files and pages of every size: every ReadLine, ReadDelimited,
\* ReadWordSameLine, number and get() returns what it would return if the whole
\* file were in memory and leaves the position behind it, wherever windows end
\* and mappings fail (but for a return that ends the file, and a get() that
\* throws early); and if no mapping fails in the middle of a search for the end
\* of a line, that search goes on inside the window.
THEOREM FilePieceReadsExact ==
  /\ Spec => []ReadsExact
  /\ "line" \notin MapFails => (Spec => []SearchInWindow)
<1>1. Init => LastAt
  BY DEF Init, LastAt, NoText
<1>2. PieceInv /\ LastAt /\ [Next]_vars => LastAt'
  BY LastAtStep
<1>3. PieceInv /\ LastAt => ReadsExact
  BY ScannedIsExact DEF PieceInv
<1>4. Spec => []ReadsExact
  BY <1>1, <1>2, <1>3, PieceInvariant, PTL DEF Spec
<1>5. ASSUME "line" \notin MapFails
      PROVE  Spec => []SearchInWindow
  <2>1. Init => SearchInWindow
    BY DEF Init, SearchInWindow
  <2>2. PieceInv /\ SearchInWindow /\ [Next]_vars => SearchInWindow'
    BY <1>5, SearchStep
  <2> QED BY <2>1, <2>2, PieceInvariant, PTL DEF Spec
<1> QED BY <1>4, <1>5
=============================================================================
