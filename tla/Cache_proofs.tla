---------------------------- MODULE Cache_proofs ----------------------------
(***************************************************************************)
(* Proofs about preprocess/cache_main.cc for every set of keys, number of  *)
(* input lines and size of the buffers and pipes, and about the queue that *)
(* joins its threads, the UnboundedSingleQueue of util/pcqueue.hh, for     *)
(* every page size and every number of items.                              *)
(***************************************************************************)
EXTENDS Cache, UnboundedSingleQueue, CaptiveChild_proofs

(***************************************************************************)
(* The queue between the two threads                                       *)
(***************************************************************************)

\* Pages that were allocated: the one being filled and all that are linked.
Chain == {p \in Pages : p = filling \/ next[p] # Null}

\* The positions and the semaphore say how many items went in and out.
Counting ==
    /\ filling + fillPos = Len(produced) + (IF ppc = "bumped" THEN 1 ELSE 0)
    /\ reading + readPos = Len(consumed)
    /\ Len(produced) = Len(consumed) + valid + (IF cpc = "idle" THEN 0 ELSE 1)
                                             + (IF ppc = "stored" THEN 1 ELSE 0)

\* What the producer knows in the middle of a call.
ProducerAt ==
    /\ Len(produced) <= MaxProduce
    /\ ppc \in {"linked", "room", "bumped"} => Len(produced) < MaxProduce
    /\ ppc = "linked" => fillPos = PageSize /\ next[filling] = filling + PageSize
    /\ ppc = "room" => fillPos = 0
    /\ ppc = "bumped" => fillPos > 0
    /\ cpc = "reading" => readPos = 0

\* The pages form a chain that leads from reading_ to filling_.
Chained ==
    /\ reading \in Chain
    /\ \A p \in Chain : p <= filling
    /\ \A p \in Chain : p < filling => next[p] = p + PageSize /\ p + PageSize \in Chain
    /\ \A p, q \in Chain : p < q => p + PageSize <= q

\* The entries hold what was produced, and the consumer moved it out in order.
Stored ==
    /\ \A a \in 0..(Len(produced) - 1) : entries[a] = produced[a + 1]
    /\ \A i \in 1..Len(consumed) : consumed[i] = produced[i]

PageInv == QueueTypeOK /\ Counting /\ ProducerAt /\ Chained /\ PagesReleased /\ Stored

\* The invariant holds initially.
LEMMA PageInit == QueueInit => PageInv
  BY PageSizeAssumption, MaxProduceAssumption, NullAssumption
  DEF QueueInit, PageInv, QueueTypeOK, Counting, ProducerAt, Chained, Chain, PagesReleased, Stored,
      Pages, Addresses, Items

\* The consumer in a call has an item to take, and the next page to turn to.
LEMMA ConsumerAt ==
  ASSUME PageInv, cpc # "idle"
  PROVE  /\ Len(consumed) < Len(produced)
         /\ cpc = "valid" /\ readPos = PageSize =>
               reading < filling /\ next[reading] = reading + PageSize /\ reading + PageSize \in Chain
  <1>1. Len(consumed) < Len(produced)
    BY DEF PageInv, QueueTypeOK, Counting
  <1>2. cpc = "valid" /\ readPos = PageSize => reading < filling
    BY <1>1, PageSizeAssumption DEF PageInv, QueueTypeOK, Counting, Pages
  <1> QED BY <1>1, <1>2 DEF PageInv, Chained

\* A step that leaves the pages alone leaves the chain alone.
LEMMA ChainUnchanged ==
  ASSUME PageInv, next' = next, freed' = freed, filling' = filling, reading' = reading
  PROVE  Chained' /\ PagesReleased'
  BY DEF PageInv, Chained, Chain, PagesReleased

\* The producer links a page behind the full one.
LEMMA StepLinkPage == PageInv /\ LinkPage => PageInv'
  <1> SUFFICES ASSUME PageInv, LinkPage PROVE PageInv'
    OBVIOUS
  <1> USE PageSizeAssumption, MaxProduceAssumption, NullAssumption DEF PageInv, LinkPage
  <1>1. filling + PageSize \in Pages /\ filling + PageSize = Len(produced)
    BY DEF QueueTypeOK, Counting, Pages
  <1>2. QueueTypeOK'
    BY <1>1 DEF QueueTypeOK
  <1>3. Counting' /\ ProducerAt' /\ Stored'
    BY DEF Counting, ProducerAt, Stored, QueueTypeOK
  <1>4. Chain' = Chain
    BY <1>1 DEF Chain, QueueTypeOK, Pages
  <1>5. Chained'
    BY <1>4 DEF Chained, QueueTypeOK, Pages
  <1>6. PagesReleased'
    <2>1. reading <= filling
      BY DEF Chained
    <2> QED BY <2>1 DEF PagesReleased, QueueTypeOK, Pages
  <1> QED BY <1>2, <1>3, <1>5, <1>6

\* The producer turns to the page it linked.
LEMMA StepSetFilling == PageInv /\ SetFilling => PageInv'
  <1> SUFFICES ASSUME PageInv, SetFilling PROVE PageInv'
    OBVIOUS
  <1> USE PageSizeAssumption, MaxProduceAssumption, NullAssumption DEF PageInv, SetFilling, pageVars
  <1>1. filling + PageSize \in Pages /\ filling + PageSize = Len(produced)
    BY DEF QueueTypeOK, Counting, ProducerAt, Pages
  <1>2. QueueTypeOK'
    BY <1>1 DEF QueueTypeOK
  <1>3. Counting' /\ ProducerAt' /\ Stored'
    BY <1>1 DEF Counting, ProducerAt, Stored, QueueTypeOK, Pages
  <1>4. Chain' = Chain \cup {filling + PageSize} /\ filling \in Chain /\ Chain \subseteq Nat
    BY <1>1 DEF Chain, QueueTypeOK, Pages, ProducerAt
  <1>5. Chained'
    <2>1. reading \in Chain' /\ \A p \in Chain' : p <= filling'
      BY <1>4 DEF Chained
    <2>2. \A p \in Chain' : p < filling' => next'[p] = p + PageSize /\ p + PageSize \in Chain'
      <3> SUFFICES ASSUME NEW p \in Chain', p < filling'
                   PROVE  next[p] = p + PageSize /\ p + PageSize \in Chain'
        OBVIOUS
      <3>1. p \in Chain /\ p <= filling
        BY <1>4 DEF Chained
      <3>2. CASE p = filling
        BY <3>2, <1>4 DEF ProducerAt
      <3>3. CASE p < filling
        BY <3>1, <3>3, <1>4 DEF Chained
      <3> QED BY <3>1, <3>2, <3>3, <1>4 DEF QueueTypeOK, Pages
    <2>3. \A p, q \in Chain' : p < q => p + PageSize <= q
      <3> SUFFICES ASSUME NEW p \in Chain', NEW q \in Chain', p < q
                   PROVE  p + PageSize <= q
        OBVIOUS
      <3>1. p \in Chain /\ p <= filling
        BY <1>4, <2>1 DEF QueueTypeOK, Pages, Chained
      <3>2. CASE q \in Chain
        BY <3>1, <3>2 DEF Chained
      <3>3. CASE q = filling + PageSize
        BY <3>1, <3>3, <1>4 DEF QueueTypeOK, Pages
      <3> QED BY <3>2, <3>3, <1>4
    <2> QED BY <2>1, <2>2, <2>3 DEF Chained
  <1>6. PagesReleased'
    BY DEF PagesReleased
  <1> QED BY <1>2, <1>3, <1>5, <1>6

\* The producer takes the next entry of its page.
LEMMA StepBump == PageInv /\ Bump => PageInv'
  <1> SUFFICES ASSUME PageInv, Bump PROVE PageInv'
    OBVIOUS
  <1> USE PageSizeAssumption, MaxProduceAssumption DEF PageInv, Bump, pageVars
  <1>1. QueueTypeOK' /\ Counting' /\ ProducerAt'
    <2>1. QueueTypeOK'
      BY DEF QueueTypeOK, ProducerAt
    <2>2. Counting'
      BY DEF QueueTypeOK, Counting, Pages
    <2>3. ProducerAt'
      BY DEF QueueTypeOK, ProducerAt
    <2> QED BY ONLY <2>1, <2>2, <2>3
  <1>2. Stored'
    BY DEF Stored
  <1> QED BY <1>1, <1>2, ChainUnchanged

\* The producer stores its item behind all others.
LEMMA StepStore == PageInv /\ Store => PageInv'
  <1> SUFFICES ASSUME PageInv, Store PROVE PageInv'
    OBVIOUS
  <1> USE PageSizeAssumption, MaxProduceAssumption, NullAssumption DEF PageInv, Store
  <1>1. /\ filling + fillPos - 1 = Len(produced) /\ Len(produced) \in Addresses
        /\ Len(produced) + 1 \in Items /\ Len(produced) \in Nat
    BY DEF QueueTypeOK, Counting, ProducerAt, Pages, Addresses, Items
  <1>2. /\ Len(produced') = Len(produced) + 1
        /\ \A i \in 1..Len(produced) : produced'[i] = produced[i]
        /\ produced'[Len(produced) + 1] = Len(produced) + 1
    BY DEF QueueTypeOK
  <1>3. QueueTypeOK'
    BY <1>1 DEF QueueTypeOK
  <1>4. Counting' /\ ProducerAt'
    BY <1>1, <1>2 DEF Counting, ProducerAt, QueueTypeOK
  <1>5. Stored'
    <2>1. ASSUME NEW a \in 0..(Len(produced') - 1) PROVE entries'[a] = produced'[a + 1]
      <3>1. CASE a = Len(produced)
        BY <3>1, <1>1, <1>2 DEF QueueTypeOK
      <3>2. CASE a \in 0..(Len(produced) - 1)
        <4>1. a + 1 \in 1..Len(produced) /\ a \in Addresses /\ a # Len(produced)
          BY <3>2, <1>1 DEF Addresses
        <4> QED BY <3>2, <4>1, <1>1, <1>2 DEF QueueTypeOK, Stored
      <3> QED BY <3>1, <3>2, <1>1, <1>2
    <2>2. \A i \in 1..Len(consumed) : consumed'[i] = produced'[i]
      <3>1. Len(consumed) <= Len(produced)
        BY DEF Counting, QueueTypeOK
      <3> QED BY <3>1, <1>1, <1>2 DEF Stored, QueueTypeOK
    <2> QED BY <2>1, <2>2 DEF Stored
  <1> QED BY <1>3, <1>4, <1>5, ChainUnchanged

\* The semaphore is posted after the item is stored.
LEMMA StepPostValid == PageInv /\ PostValid => PageInv'
  <1> SUFFICES ASSUME PageInv, PostValid PROVE PageInv'
    OBVIOUS
  <1> USE DEF PageInv, PostValid, pageVars
  <1>1. QueueTypeOK' /\ Counting' /\ ProducerAt'
    <2>1. QueueTypeOK'
      BY DEF QueueTypeOK
    <2>2. Counting'
      BY DEF QueueTypeOK, Counting
    <2>3. ProducerAt'
      BY DEF QueueTypeOK, ProducerAt
    <2> QED BY ONLY <2>1, <2>2, <2>3
  <1>2. Stored'
    BY DEF Stored
  <1> QED BY <1>1, <1>2, ChainUnchanged

\* The consumer gets past the semaphore.
LEMMA StepWaitValid == PageInv /\ WaitValid => PageInv'
  <1> SUFFICES ASSUME PageInv, WaitValid PROVE PageInv'
    OBVIOUS
  <1> USE DEF PageInv, WaitValid, pageVars
  <1>1. QueueTypeOK' /\ Counting' /\ ProducerAt'
    <2>1. QueueTypeOK'
      BY DEF QueueTypeOK
    <2>2. Counting'
      BY DEF QueueTypeOK, Counting
    <2>3. ProducerAt'
      BY DEF QueueTypeOK, ProducerAt
    <2> QED BY ONLY <2>1, <2>2, <2>3
  <1>2. Stored'
    BY DEF Stored
  <1> QED BY <1>1, <1>2, ChainUnchanged

\* The consumer turns the page and deletes the one it leaves.
LEMMA StepSetReading == PageInv /\ SetReading => PageInv'
  <1> SUFFICES ASSUME PageInv, SetReading PROVE PageInv'
    OBVIOUS
  <1> USE PageSizeAssumption, MaxProduceAssumption, NullAssumption DEF PageInv, SetReading
  <1>1. reading < filling /\ next[reading] = reading + PageSize /\ reading + PageSize \in Chain
    BY ConsumerAt
  <1>2. QueueTypeOK'
    BY <1>1 DEF QueueTypeOK, Chain
  <1>3. Counting' /\ ProducerAt' /\ Stored'
    <2>1. Counting'
      <3>1. reading' + readPos' = Len(consumed')
        BY <1>1 DEF Counting, QueueTypeOK, Pages
      <3>2. UNCHANGED <<produced, consumed, valid, filling, fillPos, ppc>> /\ cpc # "idle" /\ cpc' # "idle"
        OBVIOUS
      <3> QED BY <3>1, <3>2 DEF Counting
    <2>2. ProducerAt'
      BY DEF ProducerAt
    <2> QED BY <2>1, <2>2 DEF Stored
  <1>4. Chain' = Chain
    BY DEF Chain
  <1>5. Chained'
    BY <1>1, <1>4 DEF Chained
  <1>6. PagesReleased'
    <2> SUFFICES ASSUME NEW p \in Pages
                 PROVE  /\ p \in freed' => p < reading'
                        /\ next[p] \in Pages /\ p < reading' => p \in freed'
      BY DEF PagesReleased
    <2>1. p \in freed' => p < reading'
      BY <1>1 DEF PagesReleased, QueueTypeOK, Pages
    <2>2. ASSUME next[p] \in Pages, p < reading' PROVE p \in freed'
      <3>1. p \in Chain
        BY <2>2 DEF Chain, Pages
      <3>2. p <= reading
        <4> SUFFICES ASSUME reading < p PROVE FALSE
          BY DEF QueueTypeOK, Pages
        <4>1. reading + PageSize <= p
          BY <3>1 DEF Chained
        <4> QED BY <4>1, <1>1, <2>2 DEF QueueTypeOK, Pages
      <3> QED BY <3>2, <2>2 DEF PagesReleased, QueueTypeOK, Pages
    <2> QED BY <2>1, <2>2
  <1> QED BY <1>2, <1>3, <1>5, <1>6

\* The consumer takes the oldest item.
LEMMA StepTake == PageInv /\ Take => PageInv' /\ Fifo!Get
  <1> SUFFICES ASSUME PageInv, Take PROVE PageInv' /\ Fifo!Get
    OBVIOUS
  <1> USE PageSizeAssumption, MaxProduceAssumption, NullAssumption DEF PageInv, Take, pageVars
  <1>1. Len(consumed) < Len(produced) /\ reading + readPos = Len(consumed)
    BY ConsumerAt DEF Counting
  <1>2. entries[reading + readPos] = produced[Len(consumed) + 1]
    <2>1. Stored /\ Len(produced) \in Nat /\ Len(consumed) \in Nat
      BY DEF QueueTypeOK
    <2>2. PICK a \in 0..(Len(produced) - 1) : a = Len(consumed)
      BY <1>1, <2>1
    <2>3. entries[a] = produced[a + 1]
      BY ONLY <2>1 DEF Stored
    <2> QED BY ONLY <1>1, <2>2, <2>3
  <1>3. produced[Len(consumed) + 1] \in Items
    BY <1>1 DEF QueueTypeOK
  <1>4. QueueTypeOK' /\ Counting' /\ ProducerAt'
    <2>1. readPos' \in 0..PageSize
      BY DEF QueueTypeOK, ProducerAt
    <2>2. Len(consumed') = Len(consumed) + 1
      BY DEF QueueTypeOK
    <2>3. QueueTypeOK'
      BY <1>2, <1>3, <2>1 DEF QueueTypeOK
    <2>4. Counting'
      <3>1. reading' + readPos' = Len(consumed')
        BY <1>1, <2>2 DEF QueueTypeOK, Pages
      <3>2. UNCHANGED <<produced, valid, filling, fillPos, ppc>> /\ cpc # "idle" /\ cpc' = "idle"
        OBVIOUS
      <3>3. Len(produced) \in Nat /\ Len(consumed) \in Nat /\ valid \in Nat
        BY DEF QueueTypeOK
      <3> QED BY <2>2, <3>1, <3>2, <3>3 DEF Counting
    <2> QED BY <2>3, <2>4 DEF ProducerAt
  <1>5. Stored'
    BY <1>1, <1>2 DEF Stored, QueueTypeOK
  <1>6. Fifo!Get
    BY <1>1, <1>2 DEF Fifo!Get
  <1> QED BY <1>4, <1>5, <1>6, ChainUnchanged

\* The invariant is inductive, and a step is a step of the FIFO or none.
LEMMA PageInductive == PageInv /\ [QueueNext]_queueVars => PageInv' /\ [Fifo!Next]_(Fifo!fifoVars)
  <1> SUFFICES ASSUME PageInv, [QueueNext]_queueVars PROVE PageInv' /\ [Fifo!Next]_(Fifo!fifoVars)
    OBVIOUS
  <1> USE DEF Fifo!fifoVars
  <1>1. CASE LinkPage
    BY <1>1, StepLinkPage DEF LinkPage
  <1>2. CASE SetFilling
    BY <1>2, StepSetFilling DEF SetFilling
  <1>3. CASE Bump
    BY <1>3, StepBump DEF Bump
  <1>4. CASE Store
    <2>1. Fifo!Put(Len(produced) + 1) /\ Len(produced) + 1 \in Items
      BY <1>4, MaxProduceAssumption
      DEF Store, Fifo!Put, PageInv, ProducerAt, QueueTypeOK, Items
    <2> QED BY <1>4, <2>1, StepStore DEF Fifo!Next
  <1>5. CASE PostValid
    BY <1>5, StepPostValid DEF PostValid
  <1>6. CASE WaitValid
    BY <1>6, StepWaitValid DEF WaitValid
  <1>7. CASE SetReading
    BY <1>7, StepSetReading DEF SetReading
  <1>8. CASE Take
    BY <1>8, StepTake DEF Fifo!Next
  <1>9. CASE UNCHANGED queueVars
    <2>1. QueueTypeOK' /\ Counting' /\ ProducerAt' /\ Stored'
      BY <1>9 DEF queueVars, pageVars, PageInv, QueueTypeOK, Counting, ProducerAt, Stored
    <2> QED BY <1>9, <2>1, ChainUnchanged DEF queueVars, pageVars, PageInv
  <1> QED BY <1>1, <1>2, <1>3, <1>4, <1>5, <1>6, <1>7, <1>8, <1>9 DEF QueueNext, Produce, Consume

\* What the invariant gives at every moment.
LEMMA PageInvImplies == PageInv => QueueTypeOK /\ NoUseAfterFree /\ PagesReleased /\ EmptyIsSafe
  <1> SUFFICES ASSUME PageInv PROVE NoUseAfterFree /\ EmptyIsSafe
    BY DEF PageInv
  <1>1. filling \notin freed /\ reading \notin freed
    BY DEF PageInv, PagesReleased, Chained, QueueTypeOK, Pages
  <1>2. cpc = "valid" /\ readPos = PageSize => next[reading] \in Pages
    BY ConsumerAt DEF Chain
  <1>3. EmptyIsSafe
    BY DEF PageInv, EmptyIsSafe, Empty, Counting, QueueTypeOK
  <1> QED BY <1>1, <1>2, <1>3 DEF NoUseAfterFree

\* For every page size, the hand-over of pages is safe although the threads of
\* util/pcqueue.hh share no lock: no page is used after it was deleted, the
\* consumer never follows a null next pointer, and pages are not leaked.
THEOREM HandOverSafe == QueueSpec => [](QueueTypeOK /\ NoUseAfterFree /\ PagesReleased)
  <1>1. PageInv /\ [QueueNext]_queueVars => PageInv'
    BY PageInductive
  <1> QED BY <1>1, PageInit, PageInvImplies, PTL DEF QueueSpec

\* When the racy Empty() answers true, everything posted has been consumed.
THEOREM EmptyIsSafeHolds == QueueSpec => []EmptyIsSafe
  <1>1. PageInv /\ [QueueNext]_queueVars => PageInv'
    BY PageInductive
  <1> QED BY <1>1, PageInit, PageInvImplies, PTL DEF QueueSpec

\* UnboundedSingleQueue delivers every item once and in order.
THEOREM UnboundedImplementsFifo == QueueSpec => ImplementsFifo
  <1>1. QueueInit => Fifo!Init
    BY DEF QueueInit, Fifo!Init
  <1> QED BY <1>1, PageInit, PageInductive, PTL DEF QueueSpec, ImplementsFifo, Fifo!Spec

(***************************************************************************)
(* The threads, the child and the table of answers                         *)
(***************************************************************************)

\* The lines on their way: answered is the number of lines that Output has
\* read, and the tokens in Output's line, the pipe, the child, the other pipe
\* and Input's stream are those of the lines that follow, in order.  What is
\* behind a child that has stopped reaches nobody.
OnTheWay(answered, p, o, h, i, w) ==
    /\ Run(partial, answered + 1, p, {})
    /\ \A j \in 1..Len(partial) : partial[j].line = answered + 1
    /\ cut \subseteq {answered}
    /\ Run(outPipe, p, o, {})
    /\ child = "running" =>
        /\ Run(held, o, h, {}) /\ Run(inPipe, h, i, {}) /\ Run(toWrite, i, w, {})
        /\ Run(buffer, w, IF ipc = "eol" THEN sent ELSE sent + 1, {})

\* The hash table: each key that was read has a line of its own, the lines are
\* given to keys in the order in which the keys appear, and exactly the keys of
\* the answered lines have a value.
Table(answered) ==
    /\ answered <= sent
    /\ \A k \in Keys : entry[k] <= sent
    /\ \A k \in Keys : value[k] = IF entry[k] <= answered THEN entry[k] ELSE 0
    /\ \A n \in 1..Len(inputs) : entry[inputs[n]] > 0
    /\ \A n \in 1..Len(inputs) : \A line \in 1..entry[inputs[n]] :
        \E m \in 1..n : entry[inputs[m]] = line
    /\ \A line \in 1..sent : \E m \in 1..Len(inputs) : entry[inputs[m]] = line
    /\ \A k, l \in Keys : entry[k] = entry[l] /\ entry[k] > 0 => k = l
    /\ \A n \in 1..Len(printed) : printed[n] = entry[inputs[n]] /\ printed[n] <= answered

\* The queue has the keys of the lines that were read and not printed, and
\* poison behind them once Input is done.
QueueAt ==
    /\ sent <= Len(inputs) /\ Len(inputs) <= MaxLines
    /\ Len(inputs) = Len(printed) + Len(queue)
                     + (IF ipc \in {"eol", "flush", "produce"} THEN 1 ELSE 0)
                     - (IF ipc = "done" /\ opc = "consume" THEN 1 ELSE 0)
    /\ \A n \in 1..Len(queue) :
        IF ipc = "done" /\ n = Len(queue) THEN queue[n] = Poison ELSE queue[n] = inputs[Len(printed) + n]
    /\ ipc = "done" /\ opc = "consume" => Len(queue) > 0
    /\ opc = "done" => ipc = "done" /\ Len(queue) = 0
    /\ outcome = "exit" => opc = "done"

\* The new lines in the stream's buffer were all counted since the last flush.
FlushAt ==
    /\ Cardinality(Eols(buffer)) <= FlushRate - flushCount
    /\ ipc # "flush" => flushCount > 0

Way(answered) == \E p, o, h, i, w : OnTheWay(answered, p, o, h, i, w)

InStep ==
    \E answered \in Nat : Table(answered) /\ Way(answered)

CacheInv == TypeOK /\ InStep /\ QueueAt /\ FlushAt

-----------------------------------------------------------------------------
(* New lines in the buffer *)

LEMMA CacheTokens ==
  /\ Tokens \subseteq Token
  /\ \A s \in Seq(Tokens) : s \in Seq(Token)
  <1>1. Tokens \subseteq Token
    BY CacheBoundsAssumption DEF Tokens, Token
  <1> QED BY <1>1, SeqOfTokens

LEMMA EolsFinite ==
  ASSUME NEW s \in Seq(Tokens)
  PROVE  IsFiniteSet(Eols(s)) /\ Cardinality(Eols(s)) \in Nat
  BY EndsNat DEF Ends

LEMMA EolsAppend ==
  ASSUME NEW s \in Seq(Tokens), NEW x \in Tokens
  PROVE  Cardinality(Eols(Append(s, x))) <= Cardinality(Eols(s)) + 1
  <1> DEFINE t == Append(s, x)
             n == Len(s) + 1
  <1>1. /\ t \in Seq(Tokens) /\ Len(s) \in Nat /\ Len(t) = n
        /\ \A i \in 1..Len(s) : t[i] = s[i]
    BY AppendFacts
  <1> HIDE DEF t
  <1>2. Eols(t) \subseteq Eols(s) \cup {n}
    BY <1>1 DEF Eols
  <1>3. n \notin Eols(s)
    BY <1>1 DEF Eols
  <1>4. IsFiniteSet(Eols(s)) /\ Cardinality(Eols(s)) \in Nat
    BY EolsFinite
  <1> HIDE DEF n
  <1>5. IsFiniteSet(Eols(s) \cup {n}) /\ Cardinality(Eols(s) \cup {n}) = Cardinality(Eols(s)) + 1
    BY <1>3, <1>4, FS_AddElement
  <1>6. Cardinality(Eols(t)) <= Cardinality(Eols(s) \cup {n})
    BY <1>2, <1>5, FS_Subset
  <1>7. Cardinality(Eols(t)) <= Cardinality(Eols(s)) + 1
    BY <1>5, <1>6
  <1> QED BY <1>7 DEF t

LEMMA EolsEmpty ==
  Cardinality(Eols(<<>>)) = 0
  BY EndsEmpty DEF Ends

\* The parts of a line hold no new line.
LEMMA EolsParts ==
  ASSUME NEW s \in Seq(Tokens), NEW t \in Seq(Tokens), \A i \in 1..Len(t) : ~t[i].eol
  PROVE  Eols(s \o t) = Eols(s) /\ Eols(t) = {}
  <1> DEFINE u == s \o t
  <1>1. /\ Len(s) \in Nat /\ Len(t) \in Nat /\ Len(u) = Len(s) + Len(t)
        /\ \A i \in 1..Len(s) : u[i] = s[i]
        /\ \A i \in 1..Len(t) : u[Len(s) + i] = t[i]
    BY ConcatFacts
  <1> HIDE DEF u
  <1>2. \A i \in 1..Len(u) : i \notin 1..Len(s) => ~u[i].eol
    <2> SUFFICES ASSUME NEW i \in 1..Len(u), i \notin 1..Len(s) PROVE ~u[i].eol
      OBVIOUS
    <2> DEFINE j == i - Len(s)
    <2>1. j \in 1..Len(t) /\ i = Len(s) + j
      BY <1>1
    <2> HIDE DEF j
    <2> QED BY <1>1, <2>1
  <1>3. Eols(u) = Eols(s)
    <2>1. \A i \in 1..Len(s) : i \in 1..Len(u)
      BY <1>1
    <2> QED BY <1>1, <1>2, <2>1 DEF Eols
  <1>4. Eols(t) = {}
    BY EndsNone
  <1> QED BY <1>3, <1>4 DEF u

-----------------------------------------------------------------------------
(* What a step that leaves a part of the state alone keeps *)

LEMMA TableKept ==
  ASSUME NEW answered, Table(answered), UNCHANGED <<inputs, entry, value, sent, printed>>
  PROVE  Table(answered)'
  <1>1. inputs' = inputs /\ entry' = entry /\ value' = value /\ sent' = sent /\ printed' = printed
    OBVIOUS
  <1> QED BY ONLY <1>1, Table(answered) DEF Table

LEMMA QueueKept ==
  ASSUME QueueAt, UNCHANGED <<inputs, sent, printed, queue, ipc, opc>>,
         outcome' = "exit" => outcome = "exit" \/ opc = "done"
  PROVE  QueueAt'
  BY DEF QueueAt

LEMMA FlushKept ==
  ASSUME FlushAt, UNCHANGED <<buffer, flushCount, ipc>>
  PROVE  FlushAt'
  BY DEF FlushAt, Eols

LEMMA InitInv ==
  Init => CacheInv
  <1> SUFFICES ASSUME Init PROVE CacheInv
    OBVIOUS
  <1> USE DEF Init, ChildInit
  <1>0. Len(<<>>) = 0
    OBVIOUS
  <1>1. TypeOK
    BY CapacityAssumption, CacheBoundsAssumption, <1>0 DEF TypeOK
  <1>2. Table(0)
    BY <1>0, CacheBoundsAssumption DEF Table
  <1>3. OnTheWay(0, 1, 1, 1, 1, 1)
    <2>1. Run(<<>>, 1, 1, {})
      BY EmptyRun
    <2> QED BY <1>0, <2>1 DEF OnTheWay
  <1>4. QueueAt
    BY <1>0, CacheBoundsAssumption DEF QueueAt
  <1>5. FlushAt
    BY EolsEmpty, CacheBoundsAssumption DEF FlushAt
  <1> QED BY <1>1, <1>2, <1>3, <1>4, <1>5 DEF CacheInv, InStep, Way

-----------------------------------------------------------------------------
(* Input *)

\* The table after a line whose key is known.
LEMMA TableKnown ==
  ASSUME TypeOK, NEW answered \in Nat, Table(answered), NEW k \in Keys, entry[k] # 0,
         Len(printed) <= Len(inputs),
         inputs' = Append(inputs, k), UNCHANGED <<entry, sent, value, printed>>
  PROVE  Table(answered)'
  <1>1. /\ Len(inputs) \in Nat /\ Len(inputs') = Len(inputs) + 1
        /\ \A n \in 1..Len(inputs) : inputs'[n] = inputs[n]
        /\ inputs'[Len(inputs) + 1] = k
    BY AppendFacts DEF TypeOK
  <1>2. entry \in [Keys -> Nat] /\ sent \in Nat /\ entry[k] \in Nat
    BY CacheBoundsAssumption DEF TypeOK
  <1>3. \A n \in 1..Len(inputs') : n \in 1..Len(inputs) \/ n = Len(inputs) + 1
    BY <1>1
  <1>4. \A n \in 1..Len(inputs') : entry[inputs'[n]] > 0
    BY <1>1, <1>2, <1>3 DEF Table
  <1>5. ASSUME NEW n \in 1..Len(inputs'), NEW line \in 1..entry[inputs'[n]]
        PROVE  \E m \in 1..n : entry[inputs'[m]] = line
    <2>1. CASE n \in 1..Len(inputs)
      <3>1. PICK m \in 1..n : entry[inputs[m]] = line
        BY <1>1, <2>1 DEF Table
      <3> QED BY <1>1, <2>1, <3>1
    <2>2. CASE n = Len(inputs) + 1
      <3>1. line \in 1..sent
        BY <1>1, <1>2, <2>2 DEF Table
      <3>2. PICK m \in 1..Len(inputs) : entry[inputs[m]] = line
        BY <3>1 DEF Table
      <3>3. m \in 1..n
        BY <1>1, <2>2
      <3> QED BY <1>1, <3>2, <3>3
    <2> QED BY <1>3, <2>1, <2>2
  <1>6. \A line \in 1..sent : \E m \in 1..Len(inputs') : entry[inputs'[m]] = line
    BY <1>1 DEF Table
  <1>7. \A n \in 1..Len(printed) : printed[n] = entry[inputs'[n]] /\ printed[n] <= answered
    <2>1. \A n \in 1..Len(printed) : n \in 1..Len(inputs)
      BY <1>1 DEF TypeOK
    <2> QED BY <1>1, <2>1 DEF Table
  <1> QED BY <1>4, <1>5, <1>6, <1>7 DEF Table

\* The table after a line whose key is new.
LEMMA TableNew ==
  ASSUME TypeOK, NEW answered \in Nat, Table(answered), NEW k \in Keys, entry[k] = 0,
         Len(printed) <= Len(inputs),
         inputs' = Append(inputs, k), entry' = [entry EXCEPT ![k] = sent + 1], sent' = sent + 1,
         UNCHANGED <<value, printed>>
  PROVE  Table(answered)'
  <1>1. /\ Len(inputs) \in Nat /\ Len(inputs') = Len(inputs) + 1
        /\ \A n \in 1..Len(inputs) : inputs'[n] = inputs[n]
        /\ inputs'[Len(inputs) + 1] = k
    BY AppendFacts DEF TypeOK
  <1>13. \A n \in 1..Len(inputs) : inputs[n] \in Keys
    BY ElementOfSeq DEF TypeOK
  <1>2. entry \in [Keys -> Nat] /\ sent \in Nat
    BY CacheBoundsAssumption DEF TypeOK
  <1>3. \A n \in 1..Len(inputs') : n \in 1..Len(inputs) \/ n = Len(inputs) + 1
    BY <1>1
  <1>4. \A n \in 1..Len(inputs) : inputs[n] # k
    BY <1>1, <1>2, <1>13 DEF Table
  <1>5. /\ \A n \in 1..Len(inputs) : entry'[inputs'[n]] = entry[inputs[n]]
        /\ entry'[inputs'[Len(inputs) + 1]] = sent + 1
        /\ \A l \in Keys : entry'[l] = IF l = k THEN sent + 1 ELSE entry[l]
    BY <1>1, <1>2, <1>4, <1>13
  <1>6. \A n \in 1..Len(inputs') : entry'[inputs'[n]] > 0
    BY <1>1, <1>2, <1>3, <1>5 DEF Table
  <1>7. ASSUME NEW n \in 1..Len(inputs'), NEW line \in 1..entry'[inputs'[n]]
        PROVE  \E m \in 1..n : entry'[inputs'[m]] = line
    <2>1. CASE n \in 1..Len(inputs)
      <3>1. PICK m \in 1..n : entry[inputs[m]] = line
        BY <1>5, <2>1 DEF Table
      <3>2. m \in 1..Len(inputs)
        BY <1>1, <2>1
      <3> QED BY <1>5, <3>1, <3>2
    <2>2. CASE n = Len(inputs) + 1 /\ line # sent + 1
      <3>1. line \in 1..sent
        BY <1>1, <1>2, <1>5, <2>2
      <3>2. PICK m \in 1..Len(inputs) : entry[inputs[m]] = line
        BY <3>1 DEF Table
      <3>3. m \in 1..n
        BY <1>1, <2>2
      <3> QED BY <1>5, <3>2, <3>3
    <2>3. CASE n = Len(inputs) + 1 /\ line = sent + 1
      BY <1>1, <1>5, <2>3
    <2> QED BY <1>3, <2>1, <2>2, <2>3
  <1>8. ASSUME NEW line \in 1..sent'
        PROVE  \E m \in 1..Len(inputs') : entry'[inputs'[m]] = line
    <2>1. CASE line = sent + 1
      BY <1>1, <1>5, <2>1
    <2>2. CASE line # sent + 1
      <3>1. line \in 1..sent
        BY <1>2, <2>2
      <3>2. PICK m \in 1..Len(inputs) : entry[inputs[m]] = line
        BY <3>1 DEF Table
      <3>3. m \in 1..Len(inputs')
        BY <1>1
      <3> QED BY <1>5, <3>2, <3>3
    <2> QED BY <2>1, <2>2
  <1>9. \A n \in 1..Len(printed) : printed[n] = entry'[inputs'[n]] /\ printed[n] <= answered
    <2>1. \A n \in 1..Len(printed) : n \in 1..Len(inputs)
      BY <1>1 DEF TypeOK
    <2> QED BY <1>5, <2>1 DEF Table
  <1>10. \A j, l \in Keys : entry'[j] = entry'[l] /\ entry'[j] > 0 => j = l
    BY <1>2, <1>5 DEF Table
  <1>11. answered <= sent' /\ \A l \in Keys : entry'[l] <= sent'
    BY <1>2, <1>5 DEF Table
  <1>12. \A l \in Keys : value'[l] = IF entry'[l] <= answered THEN entry'[l] ELSE 0
    BY <1>2, <1>5 DEF Table
  <1> QED BY <1>6, <1>7, <1>8, <1>9, <1>10, <1>11, <1>12 DEF Table

\* How many lines are printed, and where in the queue a line is.
LEMMA QueueLengths ==
  ASSUME TypeOK, QueueAt
  PROVE  /\ Len(inputs) \in Nat /\ Len(printed) \in Nat /\ Len(queue) \in Nat
         /\ Len(printed) <= Len(inputs)
         /\ ipc = "next" => Len(inputs) = Len(printed) + Len(queue)
  <1>1. Len(inputs) \in Nat /\ Len(printed) \in Nat /\ Len(queue) \in Nat
    BY DEF TypeOK
  <1> DEFINE more == IF ipc \in {"eol", "flush", "produce"} THEN 1 ELSE 0
             less == IF ipc = "done" /\ opc = "consume" THEN 1 ELSE 0
  <1>2. Len(inputs) = Len(printed) + Len(queue) + more - less /\ (less = 1 => Len(queue) > 0)
    BY DEF QueueAt
  <1>3. more \in {0, 1} /\ less \in {0, 1} /\ (ipc = "next" => more = 0 /\ less = 0)
    OBVIOUS
  <1> HIDE DEF more, less
  <1> QED BY <1>1, <1>2, <1>3

LEMMA ReadInputInv ==
  ASSUME CacheInv, NEW k \in Keys, NEW n \in 0..MaxParts, ReadInput(k, n)
  PROVE  CacheInv'
  <1> USE DEF ReadInput
  <1>1. TypeOK /\ QueueAt /\ FlushAt /\ InStep
    BY DEF CacheInv
  <1>2. PICK answered \in Nat : Table(answered) /\ Way(answered)
    BY <1>1 DEF InStep
  <1>3. PICK p, o, h, i, w : OnTheWay(answered, p, o, h, i, w)
    BY <1>2 DEF Way
  <1>4. /\ Len(inputs) \in Nat /\ Len(printed) \in Nat /\ Len(queue) \in Nat
        /\ Len(printed) <= Len(inputs) /\ Len(inputs) = Len(printed) + Len(queue)
    BY <1>1, QueueLengths
  <1>5. /\ inputs' \in Seq(Keys) /\ Len(inputs') = Len(inputs) + 1
        /\ \A j \in 1..Len(inputs) : inputs'[j] = inputs[j]
    BY <1>1, AppendFacts DEF TypeOK
  <1>6. Len(inputs') <= MaxLines /\ MaxLines \in Nat /\ sent \in Nat
    BY <1>1, <1>4, <1>5, CacheBoundsAssumption DEF TypeOK
  <1>7. sent' <= Len(inputs') /\ sent' \in 0..MaxLines /\ sent' \in {sent, sent + 1}
    BY <1>1, <1>4, <1>5, <1>6 DEF QueueAt
  <1>8. QueueAt'
    <2>1. ipc' \in {"eol", "produce"} /\ ipc = "next" /\ opc # "done" /\ queue' = queue /\ printed' = printed
          /\ opc' = opc /\ outcome' = outcome
      BY <1>1 DEF QueueAt, outputVars, endVars
    <2>2. Len(inputs') = Len(printed') + Len(queue')
                     + (IF ipc' \in {"eol", "flush", "produce"} THEN 1 ELSE 0)
                     - (IF ipc' = "done" /\ opc' = "consume" THEN 1 ELSE 0)
      BY <1>4, <1>5, <2>1
    <2>3. \A j \in 1..Len(queue) : queue[j] = inputs'[Len(printed) + j]
      <3> SUFFICES ASSUME NEW j \in 1..Len(queue) PROVE queue[j] = inputs'[Len(printed) + j]
        OBVIOUS
      <3>1. Len(printed) + j \in 1..Len(inputs)
        BY <1>4
      <3> QED BY <1>1, <1>5, <2>1, <3>1 DEF QueueAt
    <2> QED BY <1>1, <1>6, <1>7, <2>1, <2>2, <2>3 DEF QueueAt
  <1>9. CASE entry[k] # 0 /\ UNCHANGED <<entry, sent, streamVars>> /\ ipc' = "produce"
    <2>1. TypeOK'
      BY <1>1, <1>5, <1>9
      DEF TypeOK, childVars, readVars, outputVars, endVars, streamVars
    <2>2. Table(answered)'
      BY <1>1, <1>2, <1>4, <1>9, TableKnown DEF outputVars
    <2>3. OnTheWay(answered, p, o, h, i, w)'
      BY <1>3, <1>9 DEF OnTheWay, streamVars, childVars, readVars
    <2>4. FlushAt'
      BY <1>1, <1>9 DEF FlushAt, streamVars, Eols
    <2> QED BY <1>8, <2>1, <2>2, <2>3, <2>4 DEF CacheInv, InStep, Way
  <1>10. CASE /\ entry[k] = 0 /\ entry' = [entry EXCEPT ![k] = sent + 1] /\ sent' = sent + 1
              /\ StreamWrite(Parts(sent + 1, n)) /\ ipc' = "eol"
    <2> DEFINE part == Part(sent + 1)
    <2>1. part \in Tokens /\ ~part.eol /\ n \in Nat /\ sent + 1 \in Nat
          /\ sent + 1 \in 0..MaxLines
      BY <1>6, <1>7, <1>10, CacheBoundsAssumption DEF Part, Tokens
    <2>2. PICK parts : parts = Parts(sent + 1, n)
      OBVIOUS
    <2>3. /\ parts \in Seq(Tokens) /\ Run(parts, sent + 1, sent + 1, {})
          /\ \A j \in 1..Len(parts) : ~parts[j].eol
      BY <2>1, <2>2, RunParts
    <2>4. /\ buffer \in Seq(Tokens) /\ Len(buffer) <= StreamCap /\ toWrite = <<>>
          /\ StreamWrite(parts)
      BY <1>1, <1>10, <2>2 DEF TypeOK
    <2>5. buffer' \in Seq(Tokens) /\ Len(buffer') <= StreamCap /\ toWrite' \in Seq(Tokens)
      BY <2>3, <2>4, CacheTokens, StreamWriteRun
    <2>6. entry' \in [Keys -> 0..MaxLines]
      BY <1>1, <1>10, <2>1 DEF TypeOK
    <2>7. TypeOK'
      BY <1>1, <1>5, <1>7, <1>10, <2>5, <2>6
      DEF TypeOK, childVars, readVars, outputVars, endVars
    <2>8. Table(answered)'
      BY <1>1, <1>2, <1>4, <1>10, TableNew DEF outputVars
    <2>9. \E x : OnTheWay(answered, p, o, h, i, x)'
      <3>1. UNCHANGED <<child, held, inPipe, outPipe, partial, cut>>
        BY DEF childVars, readVars
      <3>2. CASE child = "running"
        <4>1. Run(toWrite, i, w, {}) /\ Run(buffer, w, sent + 1, {})
          BY <1>3, <3>2 DEF OnTheWay
        <4>2. PICK x : Run(toWrite', i, x, {}) /\ Run(buffer', x, sent + 1, {})
          BY <2>3, <2>4, <4>1, CacheTokens, StreamWriteRun
        <4>3. OnTheWay(answered, p, o, h, i, x)'
          BY <1>3, <1>10, <3>1, <3>2, <4>2 DEF OnTheWay, Run
        <4> QED BY <4>3
      <3>3. CASE child # "running"
        BY <1>3, <3>1, <3>3 DEF OnTheWay, Run
      <3> QED BY <3>2, <3>3
    <2>10. FlushAt'
      <3>1. /\ flushCount' = flushCount /\ flushCount > 0 /\ flushCount \in 0..FlushRate
            /\ Cardinality(Eols(buffer)) <= FlushRate - flushCount
        BY <1>1 DEF FlushAt, TypeOK
      <3>2. Eols(buffer \o parts) = Eols(buffer) /\ Eols(parts) = {}
        BY <2>3, <2>4, EolsParts
      <3>3. buffer' \in {buffer \o parts, parts, <<>>}
        BY <2>4 DEF StreamWrite
      <3>4. Cardinality(Eols(buffer')) = Cardinality(Eols(buffer)) \/ Cardinality(Eols(buffer')) = 0
        BY <3>2, <3>3, EolsEmpty, FS_EmptySet
      <3>5. Cardinality(Eols(buffer')) <= FlushRate - flushCount'
        BY <3>1, <3>4, CacheBoundsAssumption
      <3> QED BY <1>10, <3>1, <3>5 DEF FlushAt
    <2> QED BY <1>8, <2>7, <2>8, <2>9, <2>10 DEF CacheInv, InStep, Way
  <1> QED BY <1>9, <1>10

LEMMA PutEolInv ==
  ASSUME CacheInv, PutEol
  PROVE  CacheInv'
  <1> USE DEF PutEol
  <1>1. TypeOK /\ QueueAt /\ FlushAt /\ InStep
    BY DEF CacheInv
  <1>2. PICK answered \in Nat : Table(answered) /\ Way(answered)
    BY <1>1 DEF InStep
  <1>3. PICK p, o, h, i, w : OnTheWay(answered, p, o, h, i, w)
    BY <1>2 DEF Way
  <1>4. PICK eol : eol = Eol(sent)
    OBVIOUS
  <1>5. eol \in Tokens /\ eol.line = sent /\ After(eol) = sent + 1
    BY <1>1, <1>4 DEF TypeOK, Eol, Tokens, After
  <1>6. /\ buffer \in Seq(Tokens) /\ Len(buffer) <= StreamCap /\ toWrite = <<>>
        /\ StreamPut(eol)
    BY <1>1, <1>4 DEF TypeOK
  <1>7. buffer' \in Seq(Tokens) /\ Len(buffer') <= StreamCap /\ toWrite' \in Seq(Tokens)
    BY <1>5, <1>6, CacheTokens, StreamPutRun
  <1>8. /\ flushCount \in 1..FlushRate /\ flushCount' = flushCount - 1 /\ flushCount' \in 0..FlushRate
        /\ ipc' \in {"flush", "produce"} /\ (ipc' # "flush" => flushCount' > 0)
    BY <1>1, CacheBoundsAssumption DEF TypeOK, FlushAt
  <1>9. TypeOK'
    BY <1>1, <1>7, <1>8 DEF TypeOK, childVars, readVars, outputVars, endVars
  <1>10. Table(answered)'
    BY <1>2, TableKept DEF outputVars
  <1>11. \E x : OnTheWay(answered, p, o, h, i, x)'
    <2>1. UNCHANGED <<child, held, inPipe, outPipe, partial, cut, sent>> /\ ipc = "eol" /\ ipc' # "eol"
      BY <1>8 DEF childVars, readVars
    <2>2. CASE child = "running"
      <3>1. Run(toWrite, i, w, {}) /\ Run(buffer, w, eol.line, {})
        BY <1>3, <1>5, <2>1, <2>2 DEF OnTheWay
      <3>2. PICK x : Run(toWrite', i, x, {}) /\ Run(buffer', x, sent + 1, {})
        BY <1>5, <1>6, <3>1, CacheTokens, StreamPutRun
      <3>3. OnTheWay(answered, p, o, h, i, x)'
        BY <1>3, <2>1, <2>2, <3>2 DEF OnTheWay, Run
      <3> QED BY <3>3
    <2>3. CASE child # "running"
      BY <1>3, <2>1, <2>3 DEF OnTheWay, Run
    <2> QED BY <2>2, <2>3
  <1>12. QueueAt'
    BY <1>1, <1>8 DEF QueueAt, outputVars, endVars
  <1>13. FlushAt'
    <2>1. Cardinality(Eols(buffer)) <= FlushRate - flushCount /\ Cardinality(Eols(buffer)) \in Nat
      BY <1>1, <1>6, EolsFinite DEF FlushAt
    <2>2. <<>> \in Seq(Tokens) /\ Append(<<>>, eol) = <<eol>>
      BY EmptyFacts
    <2>3. Cardinality(Eols(Append(buffer, eol))) <= Cardinality(Eols(buffer)) + 1
      BY <1>5, <1>6, EolsAppend
    <2>4. Cardinality(Eols(Append(<<>>, eol))) <= Cardinality(Eols(<<>>)) + 1
      BY <1>5, <2>2, EolsAppend
    <2>5. buffer' = Append(buffer, eol) \/ buffer' = Append(<<>>, eol)
      BY <1>6, <2>2 DEF StreamPut
    <2>6. Cardinality(Eols(buffer')) \in Nat
      BY <1>7, EolsFinite
    <2>7. Cardinality(Eols(buffer')) <= Cardinality(Eols(buffer)) + 1 \/ Cardinality(Eols(buffer')) <= 1
      <3> DEFINE c(t) == Cardinality(Eols(t))
      <3>1. c(Append(buffer, eol)) <= c(buffer) + 1 /\ c(Append(<<>>, eol)) <= 1
        BY <2>3, <2>4, EolsEmpty
      <3> HIDE DEF c
      <3>2. c(buffer') <= c(buffer) + 1 \/ c(buffer') <= 1
        BY <2>5, <3>1
      <3> QED BY <3>2 DEF c
    <2>8. Cardinality(Eols(buffer')) <= FlushRate - flushCount'
      BY <1>8, <2>1, <2>6, <2>7, CacheBoundsAssumption
    <2> QED BY <1>8, <2>8 DEF FlushAt
  <1> QED BY <1>9, <1>10, <1>11, <1>12, <1>13 DEF CacheInv, InStep, Way

\* FlushInput, and the flush of the FileStream's destructor.
LEMMA FlushInv ==
  ASSUME CacheInv, FlushInput \/ InputEof
  PROVE  CacheInv'
  <1>0. /\ UNCHANGED <<inPipe, inOpen, held, child, faults, outPipe, partial, cut>>
        /\ UNCHANGED <<inputs, entry, sent, queue, value, opc, printed, outcome, status>>
    BY DEF FlushInput, InputEof, childVars, readVars, outputVars, endVars
  <1>1. TypeOK /\ QueueAt /\ FlushAt /\ InStep
    BY DEF CacheInv
  <1>2. PICK answered \in Nat : Table(answered) /\ Way(answered)
    BY <1>1 DEF InStep
  <1>3. PICK p, o, h, i, w : OnTheWay(answered, p, o, h, i, w)
    BY <1>2 DEF Way
  <1>4. buffer \in Seq(Tokens) /\ toWrite = <<>> /\ StreamFlush
    BY <1>1 DEF TypeOK, FlushInput, InputEof
  <1>5. buffer' = <<>> /\ toWrite' \in Seq(Tokens) /\ buffer' \in Seq(Tokens) /\ Len(buffer') = 0
    BY <1>4, CacheTokens, StreamFlushRun, EmptyFacts
  <1>6. /\ flushCount' \in 0..FlushRate /\ StreamCap \in Nat
        /\ \/ ipc = "flush" /\ ipc' = "produce"
           \/ ipc = "next" /\ ipc' = "close"
    <2>1. \/ ipc = "flush" /\ ipc' = "produce" /\ flushCount' = FlushRate
          \/ ipc = "next" /\ ipc' = "close" /\ flushCount' = flushCount
      BY DEF FlushInput, InputEof
    <2>2. flushCount \in 0..FlushRate /\ FlushRate \in 0..FlushRate /\ StreamCap \in Nat
      <3>1. flushCount \in 0..FlushRate
        BY <1>1 DEF TypeOK
      <3>2. FlushRate \in Nat /\ StreamCap \in Nat
        BY CacheBoundsAssumption, CapacityAssumption
      <3> QED BY ONLY <3>1, <3>2
    <2> QED BY ONLY <2>1, <2>2
  <1>7. TypeOK'
    BY <1>0, <1>1, <1>5, <1>6 DEF TypeOK
  <1>8. Table(answered)'
    BY <1>0, <1>2, TableKept
  <1>9. \E x : OnTheWay(answered, p, o, h, i, x)'
    <2>1. UNCHANGED <<child, held, inPipe, outPipe, partial, cut, sent>> /\ ipc # "eol" /\ ipc' # "eol"
      BY <1>0, <1>6
    <2>2. CASE child = "running"
      <3>1. Run(toWrite, i, w, {}) /\ Run(buffer, w, sent + 1, {})
        BY <1>3, <2>1, <2>2 DEF OnTheWay
      <3>2. PICK x : Run(toWrite', i, x, {}) /\ Run(buffer', x, sent + 1, {})
        BY <1>4, <3>1, CacheTokens, StreamFlushRun
      <3>3. OnTheWay(answered, p, o, h, i, x)'
        BY <1>3, <2>1, <2>2, <3>2 DEF OnTheWay, Run
      <3> QED BY <3>3
    <2>3. CASE child # "running"
      BY <1>3, <2>1, <2>3 DEF OnTheWay, Run
    <2> QED BY <2>2, <2>3
  <1>10. QueueAt'
    BY <1>0, <1>1, <1>6 DEF QueueAt
  <1>11. FlushAt'
    <2>1. Cardinality(Eols(buffer')) = 0
      BY <1>5, EolsEmpty
    <2>2. flushCount' \in 1..FlushRate /\ FlushRate \in Nat
      BY <1>1, CacheBoundsAssumption DEF TypeOK, FlushAt, FlushInput, InputEof
    <2>3. \A c \in 1..FlushRate : 0 <= FlushRate - c /\ c > 0
      BY <2>2
    <2> QED BY <2>1, <2>2, <2>3 DEF FlushAt
  <1> QED BY <1>7, <1>8, <1>9, <1>10, <1>11 DEF CacheInv, InStep, Way

LEMMA ProduceInv ==
  ASSUME CacheInv, ProduceEntry \/ PoisonQueue
  PROVE  CacheInv'
  <1>0. /\ UNCHANGED <<buffer, toWrite, inPipe, inOpen, held, child, faults, outPipe, partial, cut>>
        /\ UNCHANGED <<inputs, entry, sent, flushCount, value, opc, printed, outcome, status>>
        /\ \/ ipc = "produce" /\ ipc' = "next" /\ queue' = Append(queue, inputs[Len(inputs)])
           \/ ipc = "poison" /\ ipc' = "done" /\ queue' = Append(queue, Poison)
    BY DEF ProduceEntry, PoisonQueue, childSideVars, streamVars, childVars, readVars, outputVars, endVars
  <1>1. TypeOK /\ QueueAt /\ FlushAt /\ InStep
    BY DEF CacheInv
  <1>2. PICK answered \in Nat : Table(answered) /\ Way(answered)
    BY <1>1 DEF InStep
  <1>3. PICK p, o, h, i, w : OnTheWay(answered, p, o, h, i, w)
    BY <1>2 DEF Way
  <1>4. /\ Len(inputs) \in Nat /\ Len(printed) \in Nat /\ Len(queue) \in Nat
        /\ Len(printed) <= Len(inputs)
    BY <1>1, QueueLengths
  <1>5. opc = "consume"
    BY <1>0, <1>1 DEF QueueAt, TypeOK
  <1>6. PICK x : x = IF ipc = "produce" THEN inputs[Len(inputs)] ELSE Poison
    OBVIOUS
  <1>7. x \in Keys \cup {Poison} /\ queue' = Append(queue, x)
    <2>1. CASE ipc = "produce"
      <3>1. Len(inputs) \in 1..Len(inputs)
        BY <1>1, <1>4, <2>1 DEF QueueAt
      <3>2. inputs[Len(inputs)] \in Keys
        BY <1>1, <3>1, ElementOfSeq DEF TypeOK
      <3> QED BY <1>0, <1>6, <2>1, <3>2
    <2>2. CASE ipc # "produce"
      BY <1>0, <1>6, <2>2
    <2> QED BY <2>1, <2>2
  <1>8. /\ queue' \in Seq(Keys \cup {Poison}) /\ Len(queue') = Len(queue) + 1
        /\ \A j \in 1..Len(queue) : queue'[j] = queue[j]
        /\ queue'[Len(queue) + 1] = x
    BY <1>1, <1>7, AppendFacts DEF TypeOK
  <1>9. TypeOK'
    BY <1>0, <1>1, <1>8 DEF TypeOK
  <1>10. Table(answered)'
    BY <1>0, <1>2, TableKept
  <1>11. OnTheWay(answered, p, o, h, i, w)'
    BY <1>0, <1>3 DEF OnTheWay
  <1>12. FlushAt'
    BY <1>0, <1>1 DEF FlushAt, Eols
  <1>13. QueueAt'
    <2>1. \A j \in 1..Len(queue') : j \in 1..Len(queue) \/ j = Len(queue) + 1
      BY <1>4, <1>8
    <2>2. CASE ipc = "produce"
      <3>1. Len(inputs) = Len(printed) + (Len(queue) + 1)
        BY <1>1, <1>4, <2>2 DEF QueueAt
      <3>2. queue'[Len(queue) + 1] = inputs[Len(printed) + (Len(queue) + 1)]
        BY <1>6, <1>8, <2>2, <3>1
      <3>3. \A j \in 1..Len(queue') : queue'[j] = inputs[Len(printed) + j]
        BY <1>1, <1>8, <2>1, <2>2, <3>2 DEF QueueAt
      <3>4. ipc' = "next"
        BY <1>0, <2>2
      <3> QED BY <1>0, <1>1, <1>4, <1>5, <1>8, <3>1, <3>3, <3>4 DEF QueueAt
    <2>3. CASE ipc = "poison"
      <3>1. Len(inputs) = Len(printed) + Len(queue)
        BY <1>1, <1>4, <2>3 DEF QueueAt
      <3>2. \A j \in 1..Len(queue) : queue'[j] = inputs[Len(printed) + j] /\ j # Len(queue')
        BY <1>1, <1>4, <1>8, <2>3 DEF QueueAt
      <3>3. queue'[Len(queue')] = Poison
        BY <1>6, <1>8, <2>3
      <3>4. ipc' = "done" /\ Len(queue') > 0
        BY <1>0, <1>4, <1>8, <2>3
      <3>5. \A j \in 1..Len(queue') : IF j = Len(queue') THEN queue'[j] = Poison
                                      ELSE queue'[j] = inputs[Len(printed) + j]
        BY <1>4, <1>8, <2>1, <3>2, <3>3
      <3> QED BY <1>0, <1>1, <1>4, <1>5, <1>8, <3>1, <3>4, <3>5 DEF QueueAt
    <2> QED BY <1>0, <2>2, <2>3
  <1> QED BY <1>9, <1>10, <1>11, <1>12, <1>13 DEF CacheInv, InStep, Way

LEMMA CloseInputInv ==
  ASSUME CacheInv, CloseInput
  PROVE  CacheInv'
  <1> USE DEF CloseInput
  <1>1. TypeOK /\ QueueAt /\ FlushAt /\ InStep
    BY DEF CacheInv
  <1>2. PICK answered \in Nat : Table(answered) /\ Way(answered)
    BY <1>1 DEF InStep
  <1>3. PICK p, o, h, i, w : OnTheWay(answered, p, o, h, i, w)
    BY <1>2 DEF Way
  <1>4. TypeOK'
    BY <1>1 DEF TypeOK, streamVars, childVars, readVars, outputVars, endVars
  <1>5. Table(answered)'
    BY <1>2, TableKept DEF outputVars
  <1>6. OnTheWay(answered, p, o, h, i, w)'
    BY <1>3 DEF OnTheWay, streamVars, childVars, readVars
  <1>7. FlushAt' /\ QueueAt'
    BY <1>1 DEF FlushAt, Eols, QueueAt, streamVars, outputVars, endVars
  <1> QED BY <1>4, <1>5, <1>6, <1>7 DEF CacheInv, InStep, Way

\* A token leaves the FileStream for the pipe, or the write fails.
LEMMA PushInv ==
  ASSUME CacheInv, PushInput \/ InputBroken
  PROVE  CacheInv'
  <1>1. TypeOK /\ QueueAt /\ FlushAt /\ InStep
    BY DEF CacheInv
  <1>2. PICK answered \in Nat : Table(answered) /\ Way(answered)
    BY <1>1 DEF InStep
  <1>3. PICK p, o, h, i, w : OnTheWay(answered, p, o, h, i, w)
    BY <1>2 DEF Way
  <1>4. CASE PushInput
    <2>0. /\ UNCHANGED <<buffer, inOpen, held, child, faults, outPipe, partial, cut>>
          /\ UNCHANGED <<inputs, entry, sent, flushCount, ipc, queue, value, opc, printed, outcome, status>>
          /\ toWrite # <<>> /\ child = "running" /\ Len(inPipe) < PipeCap
          /\ inPipe' = Append(inPipe, Head(toWrite)) /\ toWrite' = Tail(toWrite)
      BY <1>4 DEF PushInput, Push, childVars, readVars, inputVars, outputVars, endVars
    <2>1. toWrite \in Seq(Tokens) /\ inPipe \in Seq(Tokens) /\ PipeCap \in Nat
      BY <1>1, CapacityAssumption DEF TypeOK
    <2>2. Head(toWrite) \in Tokens /\ toWrite' \in Seq(Tokens)
      BY <2>0, <2>1, TailFacts
    <2>3. inPipe' \in Seq(Tokens) /\ Len(inPipe') = Len(inPipe) + 1 /\ Len(inPipe) \in Nat
      BY <2>0, <2>1, <2>2, AppendFacts
    <2>4. Len(inPipe') <= PipeCap
      BY <2>0, <2>1, <2>3
    <2>5. TypeOK'
      BY <1>1, <2>0, <2>2, <2>3, <2>4 DEF TypeOK
    <2>6. Table(answered)' /\ QueueAt' /\ FlushAt'
      BY <1>1, <1>2, <2>0, TableKept, QueueKept, FlushKept
    <2>7. Run(inPipe, h, i, {}) /\ Run(toWrite, i, w, {})
      BY <1>3, <2>0 DEF OnTheWay
    <2>8. PICK x : Run(inPipe', h, x, {}) /\ Run(toWrite', x, w, {})
      BY <2>0, <2>1, <2>7, CacheTokens, RunShift
    <2>9. OnTheWay(answered, p, o, h, x, w)'
      BY <1>3, <2>0, <2>8 DEF OnTheWay
    <2> QED BY <2>5, <2>6, <2>9 DEF CacheInv, InStep, Way
  <1>5. CASE InputBroken
    <2>0. /\ UNCHANGED <<buffer, toWrite, inPipe, inOpen, held, child, faults, outPipe, partial, cut>>
          /\ UNCHANGED <<inputs, entry, sent, flushCount, ipc, queue, value, opc, printed, status>>
          /\ outcome' = "sigpipe"
      BY <1>5 DEF InputBroken, childSideVars, streamVars, childVars, readVars, inputVars, outputVars
    <2>1. TypeOK'
      BY <1>1, <2>0 DEF TypeOK
    <2>2. Table(answered)' /\ QueueAt' /\ FlushAt'
      BY <1>1, <1>2, <2>0, TableKept, QueueKept, FlushKept
    <2>3. OnTheWay(answered, p, o, h, i, w)'
      BY <1>3, <2>0 DEF OnTheWay
    <2> QED BY <2>1, <2>2, <2>3 DEF CacheInv, InStep, Way
  <1> QED BY <1>4, <1>5

-----------------------------------------------------------------------------
(* Output *)

\* The key at the head of the queue is that of the first line not printed.
LEMMA HeadOfQueue ==
  ASSUME TypeOK, QueueAt, queue # <<>>, Head(queue) # Poison
  PROVE  /\ Head(queue) \in Keys /\ Head(queue) = inputs[Len(printed) + 1]
         /\ Len(printed) + 1 \in 1..Len(inputs)
         /\ ipc = "done" => Len(queue) > 1
  <1>1. /\ Len(inputs) \in Nat /\ Len(printed) \in Nat /\ Len(printed) <= Len(inputs)
    BY QueueLengths
  <1>2. Head(queue) \in Keys \cup {Poison} /\ Head(queue) = queue[1] /\ Len(queue) \in Nat \ {0}
    BY TailFacts DEF TypeOK
  <1>3. ~(ipc = "done" /\ Len(queue) = 1) /\ queue[1] = inputs[Len(printed) + 1]
    BY <1>2 DEF QueueAt
  <1> DEFINE more == IF ipc \in {"eol", "flush", "produce"} THEN 1 ELSE 0
             less == IF ipc = "done" /\ opc = "consume" THEN 1 ELSE 0
  <1>4. Len(inputs) = Len(printed) + Len(queue) + more - less
    BY DEF QueueAt
  <1>7. Len(queue) \in Nat /\ Len(queue) > 0 /\ (ipc = "done" => Len(queue) > 1)
    <2>1. PICK n \in Nat \ {0} : n = Len(queue)
      BY <1>2
    <2>2. ~(ipc = "done" /\ n = 1)
      BY <1>3, <2>1
    <2>3. n \in Nat /\ n > 0 /\ (ipc = "done" => n > 1)
      BY <2>2
    <2> QED BY <2>1, <2>3
  <1>5. more \in {0, 1} /\ less \in {0, 1} /\ (less = 1 => Len(queue) > 1)
    BY <1>7
  <1> HIDE DEF more, less
  <1>6. Len(printed) + 1 \in 1..Len(inputs)
    BY <1>1, <1>4, <1>5, <1>7
  <1> QED BY <1>2, <1>3, <1>6, <1>7

\* The queue after a line is printed.
LEMMA QueuePrinted ==
  ASSUME TypeOK, QueueAt, opc = "consume", queue # <<>>, Head(queue) # Poison,
         UNCHANGED <<inputs, sent, ipc, opc, outcome>>,
         NEW x \in 0..MaxLines, printed' = Append(printed, x), queue' = Tail(queue)
  PROVE  /\ QueueAt'
         /\ printed' \in Seq(0..MaxLines) /\ queue' \in Seq(Keys \cup {Poison})
         /\ Len(printed') = Len(printed) + 1 /\ printed'[Len(printed) + 1] = x
         /\ \A n \in 1..Len(printed) : printed'[n] = printed[n]
  <1>1. /\ Len(inputs) \in Nat /\ Len(printed) \in Nat /\ Len(printed) <= Len(inputs)
    BY QueueLengths
  <1>2. /\ queue' \in Seq(Keys \cup {Poison}) /\ Len(queue) \in Nat \ {0} /\ Len(queue') = Len(queue) - 1
        /\ \A n \in 1..(Len(queue) - 1) : queue'[n] = queue[n + 1]
    BY TailFacts DEF TypeOK
  <1>3. /\ printed' \in Seq(0..MaxLines)
        /\ Len(printed') = Len(printed) + 1 /\ printed'[Len(printed) + 1] = x
        /\ \A n \in 1..Len(printed) : printed'[n] = printed[n]
    BY AppendFacts DEF TypeOK
  <1>4. ipc = "done" => Len(queue) > 1
    BY HeadOfQueue
  <1> DEFINE more == IF ipc \in {"eol", "flush", "produce"} THEN 1 ELSE 0
             less == IF ipc = "done" /\ opc = "consume" THEN 1 ELSE 0
  <1>5. Len(inputs) = Len(printed) + Len(queue) + more - less /\ more \in Int /\ less \in Int
    BY DEF QueueAt
  <1>6. Len(inputs) = Len(printed') + Len(queue') + more - less
    <2> HIDE DEF more, less
    <2> QED BY <1>1, <1>2, <1>3, <1>5
  <1>7. ASSUME NEW n \in 1..Len(queue')
        PROVE  IF ipc = "done" /\ n = Len(queue') THEN queue'[n] = Poison
               ELSE queue'[n] = inputs[Len(printed') + n]
    <2>1. n + 1 \in 1..Len(queue) /\ queue'[n] = queue[n + 1] /\ (n = Len(queue') <=> n + 1 = Len(queue))
          /\ Len(printed') + n = Len(printed) + (n + 1)
      BY <1>1, <1>2, <1>3
    <2>2. IF ipc = "done" /\ n + 1 = Len(queue) THEN queue[n + 1] = Poison
          ELSE queue[n + 1] = inputs[Len(printed) + (n + 1)]
      BY <2>1 DEF QueueAt
    <2> QED BY <2>1, <2>2
  <1>8. Len(queue') > 0 \/ ipc # "done"
    BY <1>2, <1>4
  <1>9. outcome = "exit" => FALSE
    BY DEF QueueAt
  <1>10. QueueAt'
    BY <1>6, <1>7, <1>8, <1>9 DEF QueueAt
  <1> QED BY <1>2, <1>3, <1>10

LEMMA PrintCachedInv ==
  ASSUME CacheInv, PrintCached
  PROVE  CacheInv'
  <1>0. /\ UNCHANGED <<buffer, toWrite, inPipe, inOpen, held, child, faults, outPipe, partial, cut>>
        /\ UNCHANGED <<inputs, entry, sent, flushCount, ipc, value, opc, outcome, status>>
        /\ opc = "consume" /\ queue # <<>> /\ Head(queue) # Poison /\ value[Head(queue)] # 0
        /\ printed' = Append(printed, value[Head(queue)]) /\ queue' = Tail(queue)
    BY DEF PrintCached, childSideVars, streamVars, childVars, readVars, inputVars, endVars
  <1>1. TypeOK /\ QueueAt /\ FlushAt /\ InStep
    BY DEF CacheInv
  <1>2. PICK answered \in Nat : Table(answered) /\ Way(answered)
    BY <1>1 DEF InStep
  <1>3. PICK p, o, h, i, w : OnTheWay(answered, p, o, h, i, w)
    BY <1>2 DEF Way
  <1>4. PICK k, x : k = Head(queue) /\ x = value[Head(queue)]
    OBVIOUS
  <1>5. /\ k \in Keys /\ k = inputs[Len(printed) + 1] /\ Len(printed) + 1 \in 1..Len(inputs)
    BY <1>0, <1>1, <1>4, HeadOfQueue
  <1>6. x \in 0..MaxLines /\ x = entry[k] /\ x <= answered
    <2>1. x \in 0..MaxLines /\ x # 0 /\ x = value[k]
      BY <1>0, <1>1, <1>4, <1>5 DEF TypeOK
    <2>2. value[k] = IF entry[k] <= answered THEN entry[k] ELSE 0
      BY <1>2, <1>5 DEF Table
    <2> QED BY <2>1, <2>2
  <1>7. /\ QueueAt' /\ printed' \in Seq(0..MaxLines) /\ queue' \in Seq(Keys \cup {Poison})
        /\ Len(printed') = Len(printed) + 1 /\ printed'[Len(printed) + 1] = x
        /\ \A n \in 1..Len(printed) : printed'[n] = printed[n]
    BY <1>0, <1>1, <1>4, <1>6, QueuePrinted
  <1>8. TypeOK'
    BY <1>0, <1>1, <1>7 DEF TypeOK
  <1>9. Table(answered)'
    <2>1. Len(printed) \in Nat
      BY <1>1, QueueLengths
    <2>2. \A n \in 1..Len(printed') : n \in 1..Len(printed) \/ n = Len(printed) + 1
      BY <1>7, <2>1
    <2>3. \A n \in 1..Len(printed') : printed'[n] = entry[inputs[n]] /\ printed'[n] <= answered
      BY <1>2, <1>5, <1>6, <1>7, <2>2 DEF Table
    <2> QED BY <1>0, <1>2, <2>3 DEF Table
  <1>10. FlushAt' /\ OnTheWay(answered, p, o, h, i, w)'
    BY <1>0, <1>1, <1>3, FlushKept DEF OnTheWay
  <1> QED BY <1>7, <1>8, <1>9, <1>10 DEF CacheInv, InStep, Way

\* The line that Output reads is the first one sent that is not answered.
LEMMA PrintNewInv ==
  ASSUME CacheInv, PrintNew, cut' \subseteq {LineRead}
  PROVE  CacheInv'
  <1>0. /\ UNCHANGED <<buffer, toWrite, inPipe, inOpen, held, child, faults, outPipe>>
        /\ UNCHANGED <<inputs, entry, sent, flushCount, ipc, opc, outcome, status>>
        /\ opc = "consume" /\ queue # <<>> /\ Head(queue) # Poison /\ value[Head(queue)] = 0
        /\ LineReady
        /\ value' = [value EXCEPT ![Head(queue)] = LineRead]
        /\ printed' = Append(printed, LineRead) /\ queue' = Tail(queue) /\ partial' = <<>>
    BY DEF PrintNew, TakeLine, streamVars, childVars, inputVars, endVars
  <1>1. TypeOK /\ QueueAt /\ FlushAt /\ InStep
    BY DEF CacheInv
  <1>2. PICK answered \in Nat : Table(answered) /\ Way(answered)
    BY <1>1 DEF InStep
  <1>3. PICK p, o, h, i, w : OnTheWay(answered, p, o, h, i, w)
    BY <1>2 DEF Way
  <1>4. PICK k, x : k = Head(queue) /\ x = LineRead
    OBVIOUS
  <1>5. /\ k \in Keys /\ k = inputs[Len(printed) + 1] /\ Len(printed) + 1 \in 1..Len(inputs)
    BY <1>0, <1>1, <1>4, HeadOfQueue
  <1>6. /\ Len(partial) \in Nat \ {0} /\ Len(partial) \in 1..Len(partial)
        /\ (partial[Len(partial)].eol \/ (child # "running" /\ outPipe = <<>>))
    BY <1>0, <1>1, EmptyFacts DEF TypeOK, LineReady, AtEof
  <1>7. x = answered + 1
    BY <1>3, <1>4, <1>6 DEF OnTheWay, LineRead
  <1>8. entry[k] = answered + 1
    <2>1. entry[k] \in Nat /\ entry[k] > answered
      <3>1. value[k] = IF entry[k] <= answered THEN entry[k] ELSE 0
        BY <1>2, <1>5 DEF Table
      <3>2. value[k] = 0 /\ entry[k] \in Nat
        <4>1. value[k] = 0
          BY ONLY <1>0, <1>4
        <4>2. entry \in [Keys -> 0..MaxLines]
          BY ONLY <1>1 DEF TypeOK
        <4>3. entry[k] \in 0..MaxLines
          BY ONLY <1>5, <4>2
        <4> QED BY ONLY <4>1, <4>3, CacheBoundsAssumption
      <3>3. entry[k] > 0
        BY <1>2, <1>5 DEF Table
      <3> QED BY <3>1, <3>2, <3>3
    <2>2. SUFFICES ASSUME entry[k] # answered + 1 PROVE FALSE
      OBVIOUS
    <2>3. answered + 1 \in 1..entry[inputs[Len(printed) + 1]]
      BY <1>5, <2>1, <2>2
    <2>4. PICK m \in 1..(Len(printed) + 1) : entry[inputs[m]] = answered + 1
      BY <1>2, <1>5, <2>3 DEF Table
    <2>5. m # Len(printed) + 1
      BY <1>5, <2>2, <2>4
    <2>6. m \in 1..Len(printed)
      BY <1>1, <2>4, <2>5, QueueLengths
    <2> QED BY <1>2, <2>4, <2>6 DEF Table
  <1>9. x \in 0..MaxLines
    BY <1>1, <1>5, <1>7, <1>8 DEF TypeOK
  <1>10. /\ QueueAt' /\ printed' \in Seq(0..MaxLines) /\ queue' \in Seq(Keys \cup {Poison})
         /\ Len(printed') = Len(printed) + 1 /\ printed'[Len(printed) + 1] = x
         /\ \A n \in 1..Len(printed) : printed'[n] = printed[n]
    BY <1>0, <1>1, <1>4, <1>9, QueuePrinted
  <1>11. value' \in [Keys -> 0..MaxLines] /\ \A l \in Keys : value'[l] = IF l = k THEN x ELSE value[l]
    BY <1>0, <1>1, <1>4, <1>5, <1>9 DEF TypeOK
  <1>12. partial' \in Seq(Tokens) /\ Len(partial') = 0
    BY <1>0, EmptyFacts
  <1>17. cut' \subseteq {answered + 1} /\ cut' \subseteq 0..MaxLines
    BY <1>4, <1>7, <1>9
  <1>13. TypeOK'
    BY <1>0, <1>1, <1>10, <1>11, <1>12, <1>17 DEF TypeOK
  <1>14. Table(answered + 1)'
    <2>1. Len(printed) \in Nat /\ sent \in Nat /\ entry \in [Keys -> Nat]
      BY <1>1, QueueLengths, CacheBoundsAssumption DEF TypeOK
    <2>2. \A n \in 1..Len(printed') : n \in 1..Len(printed) \/ n = Len(printed) + 1
      BY <1>10, <2>1
    <2>3. \A n \in 1..Len(printed) : printed[n] \in Nat
      BY <1>1, ElementOfSeq, CacheBoundsAssumption DEF TypeOK
    <2>4. \A n \in 1..Len(printed') : printed'[n] = entry[inputs[n]] /\ printed'[n] <= answered + 1
      <3>1. \A n \in 1..Len(printed) : printed[n] = entry[inputs[n]] /\ printed[n] <= answered
        BY <1>2 DEF Table
      <3>2. \A n \in 1..Len(printed) : printed[n] <= answered + 1
        BY <2>3, <3>1
      <3> QED BY <1>5, <1>7, <1>8, <1>10, <2>2, <3>1, <3>2
    <2>5. answered + 1 <= sent
      BY <1>2, <1>5, <1>8 DEF Table
    <2>6. \A l \in Keys : value'[l] = IF entry[l] <= answered + 1 THEN entry[l] ELSE 0
      <3> SUFFICES ASSUME NEW l \in Keys PROVE value'[l] = IF entry[l] <= answered + 1 THEN entry[l] ELSE 0
        OBVIOUS
      <3>1. value[l] = IF entry[l] <= answered THEN entry[l] ELSE 0
        BY <1>2 DEF Table
      <3>2. entry[l] = answered + 1 => l = k
        BY <1>2, <1>5, <1>8 DEF Table
      <3>3. entry[l] \in Nat
        BY <2>1
      <3> QED BY <1>7, <1>8, <1>11, <3>1, <3>2, <3>3
    <2> QED BY <1>0, <1>2, <2>4, <2>5, <2>6 DEF Table
  <1>15. FlushAt'
    BY <1>0, <1>1, FlushKept
  <1>16. Way(answered + 1)'
    <2>0. PICK following \in Nat : following = (answered + 1) + 1
      OBVIOUS
    <2>1. Run(partial', following, following, {})
      BY <1>0, EmptyRun
    <2>2. CASE partial[Len(partial)].eol
      <3>1. p = following
        BY <1>3, <1>6, <2>0, <2>2 DEF OnTheWay, Run, Gaps, Gapless, After
      <3>2. OnTheWay(answered + 1, p, o, h, i, w)'
        BY <1>0, <1>3, <1>12, <1>17, <2>0, <2>1, <3>1 DEF OnTheWay
      <3> QED BY <3>2 DEF Way
    <2>3. CASE child # "running" /\ outPipe = <<>>
      <3>1. Run(outPipe', following, following, {})
        BY <1>0, <2>3, EmptyRun
      <3>2. OnTheWay(answered + 1, following, following, h, i, w)'
        BY <1>0, <1>12, <1>17, <2>0, <2>1, <2>3, <3>1 DEF OnTheWay
      <3> QED BY <3>2 DEF Way
    <2> QED BY <1>6, <2>2, <2>3
  <1> QED BY <1>10, <1>13, <1>14, <1>15, <1>16 DEF CacheInv, InStep

\* Bytes of the answer arrive, and all are of the line that Output waits for.
LEMMA AwaitLineInv ==
  ASSUME CacheInv, AwaitLine
  PROVE  CacheInv'
  <1>0. /\ UNCHANGED <<buffer, toWrite, inPipe, inOpen, held, child, faults, cut>>
        /\ UNCHANGED <<inputs, entry, sent, flushCount, ipc, queue, value, opc, printed, outcome, status>>
        /\ outPipe # <<>> /\ (partial # <<>> => ~partial[Len(partial)].eol)
        /\ partial' = Append(partial, Head(outPipe)) /\ outPipe' = Tail(outPipe)
    BY DEF AwaitLine, ReadMore, streamVars, childVars, readVars, inputVars, outputVars, endVars
  <1>1. TypeOK /\ QueueAt /\ FlushAt /\ InStep
    BY DEF CacheInv
  <1>2. PICK answered \in Nat : Table(answered) /\ Way(answered)
    BY <1>1 DEF InStep
  <1>3. PICK p, o, h, i, w : OnTheWay(answered, p, o, h, i, w)
    BY <1>2 DEF Way
  <1>4. outPipe \in Seq(Tokens) /\ partial \in Seq(Tokens) /\ Len(outPipe) <= PipeCap /\ PipeCap \in Nat
    BY <1>1, CapacityAssumption DEF TypeOK
  <1>5. /\ Head(outPipe) \in Tokens /\ outPipe' \in Seq(Tokens)
        /\ Len(outPipe') = Len(outPipe) - 1 /\ Len(outPipe) \in Nat \ {0}
    BY <1>0, <1>4, TailFacts
  <1>6. /\ partial' \in Seq(Tokens) /\ Len(partial) \in Nat /\ Len(partial') = Len(partial) + 1
        /\ \A j \in 1..Len(partial) : partial'[j] = partial[j]
        /\ partial'[Len(partial) + 1] = Head(outPipe)
    BY <1>0, <1>4, <1>5, AppendFacts
  <1>7. Len(outPipe') <= PipeCap
    BY <1>4, <1>5
  <1>8. TypeOK'
    BY <1>0, <1>1, <1>5, <1>6, <1>7 DEF TypeOK
  <1>9. Table(answered)' /\ QueueAt' /\ FlushAt'
    BY <1>0, <1>1, <1>2, TableKept, QueueKept, FlushKept
  <1>10. Run(partial, answered + 1, p, {}) /\ Run(outPipe, p, o, {})
    BY <1>3 DEF OnTheWay
  <1>11. PICK x : Run(partial', answered + 1, x, {}) /\ Run(outPipe', x, o, {})
    BY <1>0, <1>4, <1>10, CacheTokens, RunShift
  <1>12. p = answered + 1
    <2>1. CASE Len(partial) = 0
      BY <1>10, <2>1 DEF Run, Gaps, Gapless
    <2>2. CASE Len(partial) # 0
      <3>1. ~partial[Len(partial)].eol /\ Len(partial) \in 1..Len(partial)
        BY <1>0, <1>4, <1>6, <2>2, EmptyFacts
      <3> QED BY <1>3, <1>10, <2>2, <3>1 DEF Run, Gaps, Gapless, After, OnTheWay
    <2> QED BY <2>1, <2>2
  <1>13. Head(outPipe).line = answered + 1
    BY <1>0, <1>4, <1>10, <1>12, CacheTokens, RunTail DEF Gaps
  <1>14. \A j \in 1..Len(partial') : partial'[j].line = answered + 1
    <2>1. \A j \in 1..Len(partial') : j \in 1..Len(partial) \/ j = Len(partial) + 1
      BY <1>6
    <2> QED BY <1>3, <1>6, <1>13, <2>1 DEF OnTheWay
  <1>15. OnTheWay(answered, x, o, h, i, w)'
    BY <1>0, <1>3, <1>11, <1>14 DEF OnTheWay
  <1> QED BY <1>8, <1>9, <1>15 DEF CacheInv, InStep, Way

\* The ends of Output and of the process.
LEMMA OutputEndsInv ==
  ASSUME CacheInv, OutputThrows \/ OutputDone \/ Return
  PROVE  CacheInv'
  <1>0. /\ UNCHANGED <<buffer, toWrite, inPipe, inOpen, held, child, faults, outPipe, partial, cut>>
        /\ UNCHANGED <<inputs, entry, sent, flushCount, ipc, value, printed>>
    BY DEF OutputThrows, OutputDone, Return, childSideVars, streamVars, childVars, readVars, inputVars, outputVars
  <1>1. TypeOK /\ QueueAt /\ FlushAt /\ InStep
    BY DEF CacheInv
  <1>2. PICK answered \in Nat : Table(answered) /\ Way(answered)
    BY <1>1 DEF InStep
  <1>3. PICK p, o, h, i, w : OnTheWay(answered, p, o, h, i, w)
    BY <1>2 DEF Way
  <1>4. Table(answered)' /\ FlushAt'
    BY <1>0, <1>1, <1>2, TableKept, FlushKept
  <1>5. OnTheWay(answered, p, o, h, i, w)'
    BY <1>0, <1>3 DEF OnTheWay
  <1>6. CASE OutputThrows
    <2>1. UNCHANGED <<queue, opc, status>> /\ outcome' = "aborted"
      BY <1>6 DEF OutputThrows, outputVars
    <2>2. TypeOK' /\ QueueAt'
      BY <1>0, <1>1, <2>1, QueueKept DEF TypeOK
    <2> QED BY <1>4, <1>5, <2>2 DEF CacheInv, InStep, Way
  <1>7. CASE OutputDone
    <2>1. /\ opc = "consume" /\ queue # <<>> /\ Head(queue) = Poison
          /\ queue' = Tail(queue) /\ opc' = "done" /\ UNCHANGED <<outcome, status>>
      BY <1>7 DEF OutputDone, endVars
    <2>2. /\ queue' \in Seq(Keys \cup {Poison}) /\ Head(queue) = queue[1]
          /\ Len(queue) \in Nat \ {0} /\ Len(queue') = Len(queue) - 1
      BY <1>1, <2>1, TailFacts DEF TypeOK
    <2>3. TypeOK'
      BY <1>0, <1>1, <2>1, <2>2 DEF TypeOK
    <2>4. ipc = "done" /\ Len(queue) = 1
      <3>1. IF ipc = "done" /\ 1 = Len(queue) THEN queue[1] = Poison ELSE queue[1] = inputs[Len(printed) + 1]
        BY <1>1, <2>2 DEF QueueAt
      <3>2. SUFFICES ASSUME ~(ipc = "done" /\ 1 = Len(queue)) PROVE FALSE
        OBVIOUS
      <3> DEFINE more == IF ipc \in {"eol", "flush", "produce"} THEN 1 ELSE 0
                 less == IF ipc = "done" THEN 1 ELSE 0
      <3>3. Len(inputs) = Len(printed) + Len(queue) + more - less
        BY <1>1, <2>1 DEF QueueAt
      <3>4. more \in {0, 1} /\ less \in {0, 1} /\ (less = 1 => Len(queue) # 1)
        BY <3>2
      <3>5. Len(printed) \in Nat /\ Len(inputs) \in Nat
        BY <1>1, QueueLengths
      <3> HIDE DEF more, less
      <3>6. Len(printed) + 1 \in 1..Len(inputs)
        BY <2>2, <3>3, <3>4, <3>5
      <3>7. inputs[Len(printed) + 1] \in Keys
        BY <1>1, <3>6, ElementOfSeq DEF TypeOK
      <3> QED BY <2>1, <2>2, <3>1, <3>2, <3>7, PoisonAssumption
    <2>5. Len(inputs) = Len(printed) /\ Len(printed) \in Nat
      BY <1>1, <2>1, <2>4, QueueLengths DEF QueueAt
    <2>6. Len(queue') = 0
      BY <2>2, <2>4
    <2>7. outcome' # "exit"
      BY <1>1, <2>1 DEF QueueAt
    <2>8. QueueAt'
      BY <1>0, <1>1, <2>1, <2>4, <2>5, <2>6, <2>7 DEF QueueAt
    <2> QED BY <1>4, <1>5, <2>3, <2>8 DEF CacheInv, InStep, Way
  <1>8. CASE Return
    <2>1. /\ UNCHANGED <<queue, opc>> /\ opc = "done" /\ child # "running"
          /\ outcome' = "exit" /\ status' = WaitStatus
      BY <1>8 DEF Return, outputVars
    <2>2. WaitStatus \in 0..255
      BY <1>1, <2>1 DEF WaitStatus, TypeOK
    <2>3. TypeOK' /\ QueueAt'
      BY <1>0, <1>1, <2>1, <2>2, QueueKept DEF TypeOK
    <2> QED BY <1>4, <1>5, <2>3 DEF CacheInv, InStep, Way
  <1> QED BY <1>6, <1>7, <1>8

-----------------------------------------------------------------------------
(* The child *)

\* A child that answers every line with one line and may stop at any time.
LEMMA ChildInv ==
  ASSUME CacheInv, Faults \subseteq {"exit", "kill"}, ChildStep
  PROVE  CacheInv'
  <1>0. /\ UNCHANGED <<buffer, toWrite, inOpen, partial, cut>>
        /\ UNCHANGED <<inputs, entry, sent, flushCount, ipc, queue, value, opc, printed, outcome, status>>
        /\ child = "running"
    BY DEF ChildStep, Child, ChildRead, ChildWrite, ChildSigpipe, ChildFinish, ChildDrop, ChildExtra,
           ChildFails, streamVars, readVars, inputVars, outputVars, endVars
  <1>1. TypeOK /\ QueueAt /\ FlushAt /\ InStep
    BY DEF CacheInv
  <1>2. PICK answered \in Nat : Table(answered) /\ Way(answered)
    BY <1>1 DEF InStep
  <1>3. PICK p, o, h, i, w : OnTheWay(answered, p, o, h, i, w)
    BY <1>2 DEF Way
  <1>4. Table(answered)' /\ QueueAt' /\ FlushAt'
    BY <1>0, <1>1, <1>2, TableKept, QueueKept, FlushKept
  <1>5. /\ {outPipe, held, inPipe} \subseteq Seq(Tokens) /\ {PipeCap, ChildCap} \subseteq Nat
        /\ Len(outPipe) <= PipeCap /\ Len(held) <= ChildCap /\ Len(inPipe) <= PipeCap
    BY <1>1, CapacityAssumption DEF TypeOK
  <1>6. Run(outPipe, p, o, {}) /\ Run(held, o, h, {}) /\ Run(inPipe, h, i, {})
    BY <1>0, <1>3 DEF OnTheWay
  <1>7. CASE ChildRead
    <2>1. /\ inPipe # <<>> /\ Len(held) < ChildCap
          /\ held' = Append(held, Head(inPipe)) /\ inPipe' = Tail(inPipe)
          /\ UNCHANGED <<child, faults, outPipe>>
      BY <1>7 DEF ChildRead
    <2>2. Head(inPipe) \in Tokens /\ inPipe' \in Seq(Tokens) /\ Len(inPipe') = Len(inPipe) - 1
          /\ Len(inPipe) \in Nat
      BY <1>5, <2>1, TailFacts
    <2>3. held' \in Seq(Tokens) /\ Len(held') = Len(held) + 1 /\ Len(held) \in Nat
      BY <1>5, <2>1, <2>2, AppendFacts
    <2>4. Len(inPipe') <= PipeCap /\ Len(held') <= ChildCap
      BY <1>5, <2>1, <2>2, <2>3
    <2>5. TypeOK'
      BY <1>0, <1>1, <2>1, <2>2, <2>3, <2>4 DEF TypeOK
    <2>6. PICK x : Run(held', o, x, {}) /\ Run(inPipe', x, i, {})
      BY <1>5, <1>6, <2>1, CacheTokens, RunShift
    <2>7. OnTheWay(answered, p, o, x, i, w)'
      BY <1>0, <1>3, <2>1, <2>6 DEF OnTheWay
    <2> QED BY <1>4, <2>5, <2>7 DEF CacheInv, InStep, Way
  <1>8. CASE ChildWrite(opc = "done")
    <2>1. /\ held # <<>> /\ Len(outPipe) < PipeCap
          /\ outPipe' = Append(outPipe, Head(held)) /\ held' = Tail(held)
          /\ UNCHANGED <<child, faults, inPipe>>
      BY <1>8 DEF ChildWrite, Answerable
    <2>2. Head(held) \in Tokens /\ held' \in Seq(Tokens) /\ Len(held') = Len(held) - 1
          /\ Len(held) \in Nat
      BY <1>5, <2>1, TailFacts
    <2>3. outPipe' \in Seq(Tokens) /\ Len(outPipe') = Len(outPipe) + 1 /\ Len(outPipe) \in Nat
      BY <1>5, <2>1, <2>2, AppendFacts
    <2>4. Len(held') <= ChildCap /\ Len(outPipe') <= PipeCap
      BY <1>5, <2>1, <2>2, <2>3
    <2>5. TypeOK'
      BY <1>0, <1>1, <2>1, <2>2, <2>3, <2>4 DEF TypeOK
    <2>6. PICK x : Run(outPipe', p, x, {}) /\ Run(held', x, h, {})
      BY <1>5, <1>6, <2>1, CacheTokens, RunShift
    <2>7. OnTheWay(answered, p, x, h, i, w)'
      BY <1>0, <1>3, <2>1, <2>6 DEF OnTheWay
    <2> QED BY <1>4, <2>5, <2>7 DEF CacheInv, InStep, Way
  <1>9. CASE ChildSigpipe(opc = "done") \/ ChildFinish \/ ChildFails
    <2>1. /\ child' \in {"success", "failure", "killed"} /\ held' = <<>> /\ inPipe' = <<>>
          /\ outPipe' = outPipe /\ faults' \subseteq Faults
      BY <1>1, <1>9 DEF ChildSigpipe, ChildFinish, ChildFails, TypeOK
    <2>2. held' \in Seq(Tokens) /\ inPipe' \in Seq(Tokens) /\ Len(held') = 0 /\ Len(inPipe') = 0
      BY <2>1, EmptyFacts
    <2>3. Len(held') <= ChildCap /\ Len(inPipe') <= PipeCap
      BY <1>5, <2>2
    <2>4. TypeOK'
      BY <1>0, <1>1, <2>1, <2>2, <2>3 DEF TypeOK
    <2>5. OnTheWay(answered, p, o, h, i, w)'
      BY <1>0, <1>3, <2>1 DEF OnTheWay
    <2> QED BY <1>4, <2>4, <2>5 DEF CacheInv, InStep, Way
  <1>10. ~ChildDrop /\ ~ChildExtra(opc = "done")
    BY DEF ChildDrop, ChildExtra
  <1> QED BY <1>7, <1>8, <1>9, <1>10 DEF ChildStep, Child

-----------------------------------------------------------------------------
(* Answers read in part *)

\* Input closes the pipe when nothing is left to be written to it.
ClosedAt ==
    /\ ipc = "close" => buffer = <<>>
    /\ ipc \in {"poison", "done"} => buffer = <<>> /\ toWrite = <<>>
    /\ ~inOpen => ipc \in {"poison", "done"}

CutAt == CutInv(opc = "done", ipc = "eol") /\ ClosedAt

LEMMA CutTokens ==
  ASSUME TypeOK
  PROVE  WayOfTokens /\ sent \in Nat
  <1>1. sent \in Nat
    BY CacheBoundsAssumption DEF TypeOK
  <1> QED BY <1>1, CacheTokens DEF WayOfTokens, TypeOK

LEMMA CutInit ==
  Init => CutAt
  <1> SUFFICES ASSUME Init PROVE CutAt
    OBVIOUS
  <1> USE DEF Init, ChildInit
  <1>1. Whole(<<>>)
    BY DEF Whole
  <1> QED BY <1>1 DEF CutAt, CutInv, CutIsLast, WholeWay, ClosedAt

LEMMA CutInput ==
  ASSUME TypeOK, CutAt, Input
  PROVE  CutAt'
  <1>0. WayOfTokens /\ sent \in Nat
    BY CutTokens
  <1>1. PICK closed : closed \in BOOLEAN /\ (closed <=> opc = "done")
    OBVIOUS
  <1>2. opc' = opc
    BY DEF Input, ReadInput, PutEol, FlushInput, ProduceEntry, InputEof, CloseInput, PoisonQueue, PushInput,
           InputBroken, outputVars
  <1>3. ASSUME ipc = "eol" PROVE CutInv(closed, TRUE)
    BY <1>1, <1>3 DEF CutAt, CutInv
  <1>4. ASSUME NEW k \in Keys, NEW n \in 0..MaxParts, ReadInput(k, n) PROVE CutAt'
    <2>1. ipc = "next" /\ toWrite = <<>> /\ UNCHANGED <<inPipe, inOpen, held, child, faults, outPipe, partial, cut>>
      BY <1>4 DEF ReadInput, childVars, readVars
    <2>2. CutInv(closed, FALSE) /\ inOpen
      BY <1>1, <2>1 DEF CutAt, ClosedAt
    <2>3. CASE ipc' = "produce" /\ UNCHANGED streamVars
      BY <1>1, <1>2, <2>1, <2>2, <2>3
         DEF CutAt, CutInv, CutIsLast, NoLine, AtEof, ClosedAt, streamVars, WholeWay
    <2>4. CASE ipc' = "eol" /\ StreamWrite(Parts(sent + 1, n))
      <3>1. Parts(sent + 1, n) \in Seq(Token)
        BY <1>0, CacheBoundsAssumption DEF Parts, Part, Token
      <3>2. CutInv(closed, TRUE)'
        BY <1>0, <2>1, <2>2, <2>4, <3>1, CutWrite
      <3> QED BY <1>1, <1>2, <2>1, <2>2, <2>4, <3>2 DEF CutAt, CutInv, ClosedAt
    <2> QED BY <1>4, <2>3, <2>4 DEF ReadInput
  <1>5. CASE PutEol
    <2>1. /\ ipc = "eol" /\ toWrite = <<>> /\ StreamPut(Eol(sent)) /\ ipc' \in {"flush", "produce"}
          /\ UNCHANGED <<inPipe, inOpen, held, child, faults, outPipe, partial, cut>>
      BY <1>5 DEF PutEol, childVars, readVars
    <2>2. inOpen /\ Eol(sent) \in Token /\ Eol(sent).eol
      BY <1>0, <2>1 DEF CutAt, ClosedAt, Eol, Token
    <2>3. CutInv(closed, FALSE)'
      BY <1>0, <1>3, <2>1, <2>2, CutPut
    <2> QED BY <1>1, <1>2, <2>1, <2>2, <2>3 DEF CutAt, CutInv, ClosedAt
  <1>6. CASE FlushInput \/ InputEof
    <2>1. /\ ipc \in {"flush", "next"} /\ toWrite = <<>> /\ StreamFlush /\ ipc' \in {"produce", "close"}
          /\ UNCHANGED <<inPipe, inOpen, held, child, faults, outPipe, partial, cut>>
      BY <1>6 DEF FlushInput, InputEof, childVars, readVars
    <2>2. CutInv(closed, FALSE) /\ inOpen
      BY <1>1, <2>1 DEF CutAt, ClosedAt
    <2>3. CutInv(closed, FALSE)' /\ buffer' = <<>>
      BY <2>1, <2>2, CutFlush DEF StreamFlush
    <2> QED BY <1>1, <1>2, <2>1, <2>2, <2>3 DEF CutAt, CutInv, ClosedAt
  <1>7. CASE ProduceEntry \/ CloseInput \/ PoisonQueue \/ InputBroken
    <2>1. /\ UNCHANGED <<buffer, toWrite, inPipe, held, child, faults, outPipe, partial, cut>>
          /\ ipc' = ipc \/ (ipc' \in {"next", "poison", "done"} /\ ipc # "eol")
      BY <1>7 DEF ProduceEntry, CloseInput, PoisonQueue, InputBroken, childSideVars, streamVars, childVars,
                  readVars, inputVars
    <2>2. ClosedAt' /\ (~inOpen' => ipc' # "eol" /\ buffer = <<>> /\ toWrite = <<>>)
      BY <1>7 DEF CutAt, ProduceEntry, CloseInput, PoisonQueue, InputBroken, childSideVars, streamVars, childVars,
                  readVars, inputVars, ClosedAt
    <2> QED BY <1>2, <2>1, <2>2 DEF CutAt, CutInv, CutIsLast, NoLine, AtEof, WholeWay
  <1>8. CASE PushInput
    <2>1. Push /\ ipc' = ipc /\ buffer' = buffer /\ inOpen' = inOpen /\ toWrite # <<>>
      BY <1>8 DEF PushInput, Push, inputVars
    <2>2. ClosedAt'
      BY <2>1 DEF CutAt, ClosedAt
    <2>3. PICK amid : amid \in BOOLEAN /\ (amid <=> ipc = "eol")
      OBVIOUS
    <2>4. CutInv(closed, amid)
      BY <1>1, <2>3 DEF CutAt, CutInv
    <2>5. CutInv(closed, amid)'
      BY <1>0, <2>1, <2>4, CutPush
    <2> QED BY <1>1, <1>2, <2>1, <2>2, <2>3, <2>5 DEF CutAt, CutInv
  <1> QED BY <1>4, <1>5, <1>6, <1>7, <1>8 DEF Input

LEMMA CutOutput ==
  ASSUME TypeOK, QueueAt, CutAt, Output
  PROVE  CutAt' /\ (PrintNew => cut' \subseteq {LineRead})
  <1>0. WayOfTokens
    BY CutTokens
  <1>1. PICK amid : amid \in BOOLEAN /\ (amid <=> ipc = "eol")
    OBVIOUS
  <1>2. ipc' = ipc /\ UNCHANGED <<buffer, toWrite, inOpen>> /\ ClosedAt'
    <2>1. ipc' = ipc /\ UNCHANGED <<buffer, toWrite, inOpen>>
      BY DEF Output, PrintCached, AwaitLine, ReadMore, PrintNew, OutputThrows, OutputDone, Return,
             childSideVars, streamVars, inputVars
    <2> QED BY <2>1 DEF CutAt, ClosedAt
  <1>3. CASE AwaitLine
    <2>1. ReadMore /\ opc = "consume" /\ opc' = opc
      BY <1>3 DEF AwaitLine, outputVars
    <2>2. CutInv(FALSE, amid)
      BY <1>1, <2>1 DEF CutAt, CutInv
    <2>3. CutInv(FALSE, amid)'
      BY <1>0, <2>1, <2>2, CutReadMore
    <2>4. CutAt'
      BY <1>1, <1>2, <2>1, <2>3 DEF CutAt, CutInv
    <2> QED BY <1>3, <2>1, <2>4 DEF PrintNew, ReadMore, AtEof, LineReady, TakeLine
  <1>4. CASE PrintNew
    <2>1. /\ TakeLine /\ opc = "consume" /\ opc' = opc
          /\ UNCHANGED <<buffer, toWrite, inPipe, inOpen, held, child, faults, outPipe>>
      BY <1>4 DEF PrintNew, streamVars, childVars
    <2>2. CutInv(FALSE, amid)
      BY <1>1, <2>1 DEF CutAt, CutInv
    <2>3. CutInv(FALSE, amid)' /\ cut' \subseteq {LineRead}
      BY <1>0, <2>1, <2>2, CutTake
    <2> QED BY <1>1, <1>2, <2>1, <2>3 DEF CutAt, CutInv
  <1>5. CASE PrintCached \/ OutputThrows \/ OutputDone \/ Return
    <2>1. /\ UNCHANGED <<buffer, toWrite, inPipe, inOpen, held, child, faults, outPipe, partial, cut>>
          /\ opc' = opc \/ opc' = "done"
      BY <1>5 DEF PrintCached, OutputThrows, OutputDone, Return, childSideVars, streamVars, childVars, readVars,
                  outputVars
    <2>2. CutAt'
      BY <1>2, <2>1 DEF CutAt, CutInv, CutIsLast, NoLine, AtEof, WholeWay
    <2>3. PrintNew => cut' \subseteq {LineRead}
      BY <2>1 DEF PrintNew, TakeLine, LineReady
    <2> QED BY <2>2, <2>3
  <1> QED BY <1>3, <1>4, <1>5 DEF Output

LEMMA CutChildStep ==
  ASSUME TypeOK, CutAt, ChildStep
  PROVE  CutAt'
  <1>0. WayOfTokens
    BY CutTokens
  <1>1. PICK closed, amid : /\ closed \in BOOLEAN /\ (closed <=> opc = "done")
                            /\ amid \in BOOLEAN /\ (amid <=> ipc = "eol")
    OBVIOUS
  <1>2. /\ Child(closed) /\ UNCHANGED <<ipc, opc, buffer, toWrite, inOpen>>
    <2>1. closed = (opc = "done")
      BY <1>1
    <2> QED BY <2>1 DEF ChildStep, Child, ChildRead, ChildWrite, ChildSigpipe, ChildFinish, ChildDrop, ChildExtra,
           ChildFails, streamVars, inputVars, outputVars
  <1>3. CutInv(closed, amid)
    BY <1>1 DEF CutAt, CutInv
  <1>4. CutInv(closed, amid)'
    BY <1>0, <1>2, <1>3, CutChild
  <1> QED BY <1>1, <1>2, <1>4 DEF CutAt, CutInv, ClosedAt

-----------------------------------------------------------------------------
(* The theorem *)

LEMMA InvImpliesSafety ==
  CacheInv /\ CutAt => Safety
  <1> SUFFICES ASSUME CacheInv, CutAt PROVE Safety
    OBVIOUS
  <1>1. TypeOK /\ QueueAt /\ FlushAt /\ InStep
    BY DEF CacheInv
  <1>2. AnswersMatch
    BY <1>1 DEF InStep, Table, AnswersMatch
  <1>3. FlushedInTime
    <2>1. flushCount \in Nat /\ FlushRate \in Nat /\ Cardinality(Eols(buffer)) \in Nat
      BY <1>1, EolsFinite, CacheBoundsAssumption DEF TypeOK
    <2>2. ipc \in {"next", "produce"} => Cardinality(Eols(buffer)) < FlushRate
      BY <1>1, <2>1 DEF FlushAt
    <2> QED BY <2>2 DEF FlushedInTime, Eols
  <1>4. ZeroMeansComplete
    <2>1. outcome = "exit" => Len(printed) = Len(inputs) /\ ipc = "done"
      BY <1>1, QueueLengths DEF QueueAt
    <2>2. PICK answered \in Nat : Table(answered) /\ cut \subseteq {answered}
      BY <1>1 DEF InStep, Way, OnTheWay
    <2>3. ASSUME outcome = "exit" PROVE cut \subseteq {sent}
      <3>1. sent \in Nat /\ Len(printed) = Len(inputs) /\ printed \in Seq(0..MaxLines)
        BY <1>1, <2>1, <2>3, CutTokens DEF TypeOK
      <3>2. answered <= sent
        BY <2>2 DEF Table
      <3>3. CASE sent = 0
        BY <2>2, <3>1, <3>2, <3>3
      <3>4. CASE sent > 0
        <4>1. PICK m \in 1..Len(printed) : entry[inputs[m]] = sent
          <5>1. sent \in 1..sent
            BY <3>1, <3>4
          <5> QED BY <2>2, <3>1, <5>1 DEF Table
        <4>2. sent <= answered
          BY <2>2, <4>1 DEF Table
        <4> QED BY <2>2, <3>1, <3>2, <4>2
      <3> QED BY <3>1, <3>3, <3>4
    <2> QED BY <2>1, <2>3 DEF ZeroMeansComplete, CutAt, CutInv
  <1> QED BY <1>1, <1>2, <1>3, <1>4 DEF Safety

\* With a child that answers every line with one line, although it may keep
\* answers back, stop early or be killed, cache prints for every line the
\* answer to the first line with its key, keeps fewer than flush_rate new
\* lines from the child between two lines, and exits with zero only if every
\* line is answered, at most the last line sent in part, and that only if the
\* child has stopped: for all keys, numbers of lines and sizes of the buffers.
THEOREM CacheSafety ==
  ASSUME Faults \subseteq {"exit", "kill"}
  PROVE  Spec => []Safety
  <1>1. Init => CacheInv /\ CutAt
    BY InitInv, CutInit
  <1>4. CacheInv /\ CutAt /\ [Next]_vars => CutAt' /\ (Output /\ PrintNew => cut' \subseteq {LineRead})
    <2> SUFFICES ASSUME CacheInv, CutAt, [Next]_vars
                 PROVE  CutAt' /\ (Output /\ PrintNew => cut' \subseteq {LineRead})
      OBVIOUS
    <2>0. TypeOK /\ QueueAt
      BY DEF CacheInv
    <2>1. Output => cut' \subseteq {LineRead} \/ ~PrintNew
      BY <2>0, CutOutput
    <2>2. CASE UNCHANGED vars
      <3>1. UNCHANGED <<buffer, toWrite, inPipe, inOpen, held, child, faults, outPipe, partial, cut, ipc, opc>>
        BY <2>2 DEF vars, childSideVars, streamVars, childVars, readVars, inputVars, outputVars
      <3>2. CutAt'
        BY <3>1 DEF CutAt, CutInv, CutIsLast, NoLine, AtEof, WholeWay, ClosedAt
      <3> QED BY <2>1, <3>2
    <2> QED BY <2>0, <2>1, <2>2, CutInput, CutOutput, CutChildStep DEF Next
  <1>2. CacheInv /\ CutAt /\ [Next]_vars => CacheInv'
    <2> SUFFICES ASSUME CacheInv, CutAt, [Next]_vars PROVE CacheInv'
      OBVIOUS
    <2>1. CASE Input
      <3>1. ASSUME NEW k \in Keys, NEW n \in 0..MaxParts, ReadInput(k, n) PROVE CacheInv'
        BY <3>1, ReadInputInv
      <3> QED BY <2>1, <3>1, PutEolInv, FlushInv, ProduceInv, CloseInputInv, PushInv DEF Input
    <2>2. CASE Output
      BY <1>4, <2>2, PrintCachedInv, AwaitLineInv, PrintNewInv, OutputEndsInv DEF Output
    <2>3. CASE ChildStep
      BY <2>3, ChildInv
    <2>4. CASE UNCHANGED vars
      <3>0. /\ UNCHANGED <<buffer, toWrite, inPipe, inOpen, held, child, faults, outPipe, partial, cut>>
            /\ UNCHANGED <<inputs, entry, sent, flushCount, ipc, queue, value, opc, printed, outcome, status>>
        BY <2>4 DEF vars, childSideVars, streamVars, childVars, readVars, inputVars, outputVars, endVars
      <3>1. PICK answered \in Nat : Table(answered) /\ Way(answered)
        BY DEF CacheInv, InStep
      <3>2. TypeOK'
        BY <3>0 DEF CacheInv, TypeOK
      <3>3. Table(answered)' /\ QueueAt' /\ FlushAt'
        BY <3>0, <3>1, TableKept, QueueKept, FlushKept DEF CacheInv
      <3>4. Way(answered)'
        BY <3>0, <3>1 DEF Way, OnTheWay
      <3> QED BY <3>2, <3>3, <3>4 DEF CacheInv, InStep
    <2> QED BY <2>1, <2>2, <2>3, <2>4 DEF Next
  <1>3. CacheInv /\ CutAt => Safety
    BY InvImpliesSafety
  <1> QED BY <1>1, <1>2, <1>3, <1>4, PTL DEF Spec

=============================================================================
