------------------------ MODULE WarcParallel_proofs ------------------------
(***************************************************************************)
(* Proofs about the pool of preprocess/warc_parallel_main.cc for every     *)
(* number of workers, input files and records, and every size of pipe, and *)
(* about the queue its readers and workers share, the PCQueue of           *)
(* util/pcqueue.hh, for every size and any number of threads, calls and    *)
(* exceptions.                                                             *)
(***************************************************************************)
EXTENDS WarcParallel, PCQueue, SequenceTheorems, FiniteSetTheorems, TLAPS

(***************************************************************************)
(* The queue between the readers and the workers                           *)
(***************************************************************************)

\* The next slot of the ring is a slot.
LEMMA AdvanceType == \A at \in Slots : Advance(at) \in Slots
  BY SizeAssumption DEF Advance, Slots

\* The type invariant holds initially.
LEMMA TypeInit == QueueInit => QueueTypeOK
  BY SizeAssumption, BoundsAssumption
  DEF QueueInit, QueueTypeOK, Slots, Contents, Items, Threads, Labels

\* Every step of a producer keeps the types.
LEMMA TypeProducer ==
  ASSUME QueueTypeOK, NEW p \in Producers, ProducerStep(p)
  PROVE  QueueTypeOK'
  <1> USE DEF QueueTypeOK, Goto, Labels, Threads
  <1> USE BoundsAssumption
  <1>1. ASSUME NEW k \in Kinds, WaitEmpty(p, k) PROVE QueueTypeOK'
    <2>1. calls + 1 \in Items /\ calls' \in 0..MaxProduce
      BY <1>1 DEF WaitEmpty, Items
    <2>2. k \in {"copy", "swap"}
      BY KindsAssumption
    <2> QED BY <1>1, <2>1, <2>2 DEF WaitEmpty, Contents
  <1>2. CASE LockProduce(p)
    BY <1>2 DEF LockProduce, ghostVars, Contents
  <1>3. CASE AssignSlot(p)
    BY <1>3 DEF AssignSlot, ghostVars, Contents
  <1>4. CASE SwapToProducer(p)
    BY <1>4 DEF SwapToProducer, queueVars, ghostVars
  <1>5. CASE AdvanceProduce(p)
    <2>1. produceAt' \in Slots
      BY <1>5, AdvanceType DEF AdvanceProduce
    <2> QED BY <1>5, <2>1 DEF AdvanceProduce
  <1>6. CASE PostUsed(p)
    BY <1>6 DEF PostUsed, ghostVars
  <1>7. CASE ThrowProduce(p)
    BY <1>7 DEF ThrowProduce
  <1>8. CASE UnwindProduce(p)
    BY <1>8 DEF UnwindProduce, ghostVars
  <1> QED BY <1>1, <1>2, <1>3, <1>4, <1>5, <1>6, <1>7, <1>8 DEF ProducerStep

\* Every step of a consumer keeps the types.
LEMMA TypeConsumer ==
  ASSUME QueueTypeOK, NEW c \in Consumers, ConsumerStep(c)
  PROVE  QueueTypeOK'
  <1> USE DEF QueueTypeOK, Goto, Labels, Threads
  <1> USE BoundsAssumption
  <1>1. ASSUME NEW k \in Kinds, WaitUsed(c, k) PROVE QueueTypeOK'
    <2>1. k \in {"copy", "swap"}
      BY KindsAssumption
    <2> QED BY <1>1, <2>1 DEF WaitUsed, ghostVars
  <1>2. CASE LockConsume(c)
    BY <1>2 DEF LockConsume, ghostVars, Contents
  <1>3. CASE AssignOut(c)
    BY <1>3 DEF AssignOut, ghostVars, Contents
  <1>4. CASE SwapToSlot(c)
    BY <1>4 DEF SwapToSlot, ghostVars
  <1>5. CASE AdvanceConsume(c)
    <2>1. consumeAt' \in Slots
      BY <1>5, AdvanceType DEF AdvanceConsume
    <2> QED BY <1>5, <2>1 DEF AdvanceConsume
  <1>6. CASE PostEmpty(c)
    BY <1>6 DEF PostEmpty, ghostVars
  <1>7. CASE ThrowConsume(c)
    BY <1>7 DEF ThrowConsume
  <1>8. CASE UnwindConsume(c)
    BY <1>8 DEF UnwindConsume, ghostVars
  <1> QED BY <1>1, <1>2, <1>3, <1>4, <1>5, <1>6, <1>7, <1>8 DEF ConsumerStep

\* Type correctness of util/pcqueue.hh's PCQueue: positions stay inside the
\* ring and neither semaphore is driven below zero.
THEOREM TypeCorrect == QueueSpec => []QueueTypeOK
  <1>1. QueueTypeOK /\ [QueueNext]_pcqueueVars => QueueTypeOK'
    <2> SUFFICES ASSUME QueueTypeOK, [QueueNext]_pcqueueVars PROVE QueueTypeOK'
      OBVIOUS
    <2>1. CASE QueueNext
      BY <2>1, TypeProducer, TypeConsumer DEF QueueNext
    <2>2. CASE UNCHANGED pcqueueVars
      BY <2>2 DEF pcqueueVars, queueVars, threadVars, ghostVars, QueueTypeOK
    <2> QED BY <2>1, <2>2
  <1> QED BY <1>1, TypeInit, PTL DEF QueueSpec

-----------------------------------------------------------------------------
(***************************************************************************)
(* The inductive invariant behind NoSlotRace.  A mutex is held exactly by  *)
(* the thread that is in its critical section, the semaphores account for  *)
(* the slots, and produce_at_ is as far ahead of consume_at_ on the ring   *)
(* as there are items held.  A producer in a slot has reserved one, so     *)
(* Held < Size; a consumer in a slot has reserved one, so Held > 0; hence  *)
(* the two positions differ.                                               *)
(***************************************************************************)
Critical == {"assigning", "swapping", "advancing", "unwinding"}

MutexHeld ==
    /\ \A p \in Producers : pc[p] \in Critical <=> produceMutex = p
    /\ \A c \in Consumers : pc[c] \in Critical <=> consumeMutex = c

RingDistance == produceAt = SlotOf(Held)

RaceInv == QueueTypeOK /\ MutexHeld /\ SlotsAccounted /\ RingDistance

\* What adding and removing a thread does to the size of a set of threads.
LEMMA CardinalityStep ==
  ASSUME NEW T, IsFiniteSet(T), NEW S \in SUBSET T, NEW t \in T
  PROVE  /\ Cardinality(S) \in Nat
         /\ t \notin S => Cardinality(S \cup {t}) = Cardinality(S) + 1
         /\ t \in S => Cardinality(S \ {t}) = Cardinality(S) - 1
         /\ t \in S => Cardinality(S) >= 1
  <1>1. IsFiniteSet(S)
    BY FS_Subset
  <1>2. Cardinality(S) \in Nat
    BY <1>1, FS_CardinalityType
  <1>3. t \notin S => Cardinality(S \cup {t}) = Cardinality(S) + 1
    BY <1>1, FS_AddElement
  <1>4. t \in S => Cardinality(S \ {t}) = Cardinality(S) - 1
    BY <1>1, FS_RemoveElement
  <1>5. t \in S => Cardinality(S) >= 1
    <2> HAVE t \in S
    <2>1. IsFiniteSet(S \ {t})
      BY <1>1, FS_RemoveElement
    <2>2. Cardinality(S \ {t}) \in Nat
      BY <2>1, FS_CardinalityType
    <2> QED BY <1>2, <1>4, <2>2
  <1> QED BY <1>2, <1>3, <1>4, <1>5

\* A thread of the other side leaves the counts alone.
LEMMA OtherSide ==
  ASSUME NEW T \in SUBSET Threads, NEW t \in Threads \ T, NEW label,
         QueueTypeOK, Goto(t, label)
  PROVE  Reserved(T)' = Reserved(T) /\ Posting(T)' = Posting(T)
  BY DEF Goto, Reserved, Posting, QueueTypeOK

\* A thread that goes from one label to another moves between the two sets.
LEMMA OwnSide ==
  ASSUME NEW T \in SUBSET Threads, NEW t \in T, NEW label, IsFiniteSet(T),
         QueueTypeOK, Goto(t, label)
  PROVE  /\ Cardinality(Reserved(T)) \in Nat /\ Cardinality(Posting(T)) \in Nat
         /\ t \in Reserved(T) => Cardinality(Reserved(T)) >= 1
         /\ t \in Posting(T) => Cardinality(Posting(T)) >= 1
         /\ Cardinality(Reserved(T))' =
                IF (t \in Reserved(T)) = (t \in Reserved(T)') THEN Cardinality(Reserved(T))
                ELSE IF t \in Reserved(T) THEN Cardinality(Reserved(T)) - 1
                ELSE Cardinality(Reserved(T)) + 1
         /\ Cardinality(Posting(T))' =
                IF (t \in Posting(T)) = (t \in Posting(T)') THEN Cardinality(Posting(T))
                ELSE IF t \in Posting(T) THEN Cardinality(Posting(T)) - 1
                ELSE Cardinality(Posting(T)) + 1
  <1>1. Reserved(T) \in SUBSET T /\ Posting(T) \in SUBSET T
    BY DEF Reserved, Posting
  <1>2. \A u \in T : u # t => pc'[u] = pc[u]
    BY DEF Goto, QueueTypeOK
  <1>3. Reserved(T)' = IF t \in Reserved(T)' THEN Reserved(T) \cup {t} ELSE Reserved(T) \ {t}
    BY <1>2 DEF Reserved
  <1>4. Posting(T)' = IF t \in Posting(T)' THEN Posting(T) \cup {t} ELSE Posting(T) \ {t}
    BY <1>2 DEF Posting
  <1>5. /\ Cardinality(Reserved(T)) \in Nat
        /\ t \notin Reserved(T) => Cardinality(Reserved(T) \cup {t}) = Cardinality(Reserved(T)) + 1
        /\ t \in Reserved(T) => Cardinality(Reserved(T) \ {t}) = Cardinality(Reserved(T)) - 1
        /\ t \in Reserved(T) => Cardinality(Reserved(T)) >= 1
    BY <1>1, CardinalityStep
  <1>6. /\ Cardinality(Posting(T)) \in Nat
        /\ t \notin Posting(T) => Cardinality(Posting(T) \cup {t}) = Cardinality(Posting(T)) + 1
        /\ t \in Posting(T) => Cardinality(Posting(T) \ {t}) = Cardinality(Posting(T)) - 1
        /\ t \in Posting(T) => Cardinality(Posting(T)) >= 1
    BY <1>1, CardinalityStep
  <1>7. /\ t \in Reserved(T) => Reserved(T) \cup {t} = Reserved(T)
        /\ t \notin Reserved(T) => Reserved(T) \ {t} = Reserved(T)
        /\ t \in Posting(T) => Posting(T) \cup {t} = Posting(T)
        /\ t \notin Posting(T) => Posting(T) \ {t} = Posting(T)
    OBVIOUS
  <1>8. Cardinality(Reserved(T))' = Cardinality(Reserved(T)') /\ Cardinality(Posting(T))' = Cardinality(Posting(T)')
    OBVIOUS
  <1> QED BY <1>3, <1>4, <1>5, <1>6, <1>7, <1>8

\* The count of a side is a pair of natural numbers.
LEMMA CountType ==
  ASSUME NEW T \in SUBSET Threads, IsFiniteSet(T)
  PROVE  /\ Cardinality(Reserved(T)) \in Nat /\ Cardinality(Posting(T)) \in Nat
         /\ \A t \in Reserved(T) : Cardinality(Reserved(T)) >= 1
  <1>1. Reserved(T) \in SUBSET T /\ Posting(T) \in SUBSET T
    BY DEF Reserved, Posting
  <1>2. Cardinality(Reserved(T)) \in Nat /\ Cardinality(Posting(T)) \in Nat
    BY <1>1, FS_Subset, FS_CardinalityType
  <1>3. \A t \in Reserved(T) : Cardinality(Reserved(T)) >= 1
    BY <1>1, CardinalityStep
  <1> QED BY <1>2, <1>3

\* A mutex is held by exactly the thread in its critical section.
LEMMA MutexStep ==
  ASSUME QueueTypeOK, MutexHeld, [QueueNext]_pcqueueVars
  PROVE  MutexHeld'
  <1> USE ThreadsAssumption, StagesAssumption DEF QueueTypeOK, MutexHeld, Critical, Goto, Threads
  <1>1. ASSUME NEW p \in Producers, ProducerStep(p) PROVE MutexHeld'
    <2>1. ASSUME NEW k \in Kinds, WaitEmpty(p, k) PROVE MutexHeld'
      BY <2>1 DEF WaitEmpty
    <2>2. CASE LockProduce(p)
      BY <2>2 DEF LockProduce
    <2>3. CASE AssignSlot(p)
      BY <2>3 DEF AssignSlot
    <2>4. CASE SwapToProducer(p)
      BY <2>4 DEF SwapToProducer, queueVars
    <2>5. CASE AdvanceProduce(p)
      BY <2>5 DEF AdvanceProduce
    <2>6. CASE PostUsed(p)
      BY <2>6 DEF PostUsed
    <2>7. CASE ThrowProduce(p)
      BY <2>7 DEF ThrowProduce
    <2>8. CASE UnwindProduce(p)
      BY <2>8 DEF UnwindProduce
    <2> QED BY <1>1, <2>1, <2>2, <2>3, <2>4, <2>5, <2>6, <2>7, <2>8 DEF ProducerStep
  <1>2. ASSUME NEW c \in Consumers, ConsumerStep(c) PROVE MutexHeld'
    <2>1. ASSUME NEW k \in Kinds, WaitUsed(c, k) PROVE MutexHeld'
      BY <2>1 DEF WaitUsed
    <2>2. CASE LockConsume(c)
      BY <2>2 DEF LockConsume
    <2>3. CASE AssignOut(c)
      BY <2>3 DEF AssignOut
    <2>4. CASE SwapToSlot(c)
      BY <2>4 DEF SwapToSlot
    <2>5. CASE AdvanceConsume(c)
      BY <2>5 DEF AdvanceConsume
    <2>6. CASE PostEmpty(c)
      BY <2>6 DEF PostEmpty
    <2>7. CASE ThrowConsume(c)
      BY <2>7 DEF ThrowConsume
    <2>8. CASE UnwindConsume(c)
      BY <2>8 DEF UnwindConsume
    <2> QED BY <1>2, <2>1, <2>2, <2>3, <2>4, <2>5, <2>6, <2>7, <2>8 DEF ConsumerStep
  <1>3. CASE UNCHANGED pcqueueVars
    BY <1>3 DEF pcqueueVars, queueVars, threadVars
  <1> QED BY <1>1, <1>2, <1>3 DEF QueueNext

\* The accounting survives every step of a producer.
LEMMA AccountedProducer ==
  ASSUME QueueTypeOK, SlotsAccounted, NEW p \in Producers, ProducerStep(p)
  PROVE  SlotsAccounted'
  <1> DEFINE RP == Cardinality(Reserved(Producers))
             PP == Cardinality(Posting(Producers))
             RC == Cardinality(Reserved(Consumers))
             PC == Cardinality(Posting(Consumers))
  <1>0. PICK label : Goto(p, label)
    BY DEF ProducerStep, WaitEmpty, LockProduce, AssignSlot, SwapToProducer,
           AdvanceProduce, PostUsed, ThrowProduce, UnwindProduce
  <1>1. /\ RP \in Nat /\ PP \in Nat /\ RC \in Nat /\ PC \in Nat
        /\ empty + RP + PC = Size - Held
        /\ used + RC + PP = Held
        /\ empty \in Nat /\ used \in Nat /\ Held \in Int /\ Size \in Nat
    BY CountType, ThreadsAssumption, SizeAssumption DEF SlotsAccounted, QueueTypeOK, Held, Threads
  <1>2. RC' = RC /\ PC' = PC
    BY <1>0, OtherSide, ThreadsAssumption DEF Threads
  <1>3. /\ RP' = IF (p \in Reserved(Producers)) = (p \in Reserved(Producers)') THEN RP
                 ELSE IF p \in Reserved(Producers) THEN RP - 1 ELSE RP + 1
        /\ PP' = IF (p \in Posting(Producers)) = (p \in Posting(Producers)') THEN PP
                 ELSE IF p \in Posting(Producers) THEN PP - 1 ELSE PP + 1
    BY <1>0, OwnSide, ThreadsAssumption DEF Threads
  <1>4. SUFFICES /\ empty' + RP' + PC' = Size - Held'
                 /\ used' + RC' + PP' = Held'
    BY DEF SlotsAccounted
  <1> HIDE DEF RP, PP, RC, PC
  <1> USE DEF Reserved, Posting, Goto, QueueTypeOK, Threads
  <1>5. ASSUME NEW k \in Kinds, WaitEmpty(p, k) PROVE /\ empty' + RP' + PC' = Size - Held'
                                                      /\ used' + RC' + PP' = Held'
    <2>1. RP' = RP + 1 /\ PP' = PP /\ empty' = empty - 1 /\ used' = used /\ Held' = Held
      BY <1>3, <1>5 DEF WaitEmpty, Held
    <2> QED BY <1>1, <1>2, <2>1
  <1>6. CASE LockProduce(p)
    <2>1. RP' = RP /\ PP' = PP /\ empty' = empty /\ used' = used /\ Held' = Held
      BY <1>3, <1>6 DEF LockProduce, Held, ghostVars
    <2> QED BY <1>1, <1>2, <2>1
  <1>7. CASE AssignSlot(p)
    <2>1. RP' = RP /\ PP' = PP /\ empty' = empty /\ used' = used /\ Held' = Held
      BY <1>3, <1>7 DEF AssignSlot, Held, ghostVars
    <2> QED BY <1>1, <1>2, <2>1
  <1>8. CASE SwapToProducer(p)
    <2>1. RP' = RP /\ PP' = PP /\ empty' = empty /\ used' = used /\ Held' = Held
      BY <1>3, <1>8 DEF SwapToProducer, Held, ghostVars, queueVars
    <2> QED BY <1>1, <1>2, <2>1
  <1>9. CASE AdvanceProduce(p)
    <2>1. RP' = RP - 1 /\ PP' = PP + 1 /\ empty' = empty /\ used' = used
      BY <1>3, <1>9 DEF AdvanceProduce
    <2>2. Held' = Held + 1
      BY <1>9 DEF AdvanceProduce, Held
    <2> QED BY <1>1, <1>2, <2>1, <2>2
  <1>10. CASE PostUsed(p)
    <2>1. RP' = RP /\ PP' = PP - 1 /\ empty' = empty /\ used' = used + 1 /\ Held' = Held
      BY <1>3, <1>10 DEF PostUsed, Held, ghostVars
    <2> QED BY <1>1, <1>2, <2>1
  <1>11. CASE ThrowProduce(p)
    <2>1. RP' = RP - 1 /\ PP' = PP /\ empty' = empty + 1 /\ used' = used /\ Held' = Held
      BY <1>3, <1>11, StagesAssumption DEF ThrowProduce, Held
    <2> QED BY <1>1, <1>2, <2>1
  <1>12. CASE UnwindProduce(p)
    <2>1. RP' = RP /\ PP' = PP /\ empty' = empty /\ used' = used /\ Held' = Held
      BY <1>3, <1>12 DEF UnwindProduce, Held, ghostVars
    <2> QED BY <1>1, <1>2, <2>1
  <1> QED BY <1>5, <1>6, <1>7, <1>8, <1>9, <1>10, <1>11, <1>12 DEF ProducerStep

\* The accounting survives every step of a consumer.
LEMMA AccountedConsumer ==
  ASSUME QueueTypeOK, SlotsAccounted, NEW c \in Consumers, ConsumerStep(c)
  PROVE  SlotsAccounted'
  <1> DEFINE RP == Cardinality(Reserved(Producers))
             PP == Cardinality(Posting(Producers))
             RC == Cardinality(Reserved(Consumers))
             PC == Cardinality(Posting(Consumers))
  <1>0. PICK label : Goto(c, label)
    BY DEF ConsumerStep, WaitUsed, LockConsume, AssignOut, SwapToSlot,
           AdvanceConsume, PostEmpty, ThrowConsume, UnwindConsume
  <1>1. /\ RP \in Nat /\ PP \in Nat /\ RC \in Nat /\ PC \in Nat
        /\ empty + RP + PC = Size - Held
        /\ used + RC + PP = Held
        /\ empty \in Nat /\ used \in Nat /\ Held \in Int /\ Size \in Nat
    BY CountType, ThreadsAssumption, SizeAssumption DEF SlotsAccounted, QueueTypeOK, Held, Threads
  <1>2. RP' = RP /\ PP' = PP
    BY <1>0, OtherSide, ThreadsAssumption DEF Threads
  <1>3. /\ RC' = IF (c \in Reserved(Consumers)) = (c \in Reserved(Consumers)') THEN RC
                 ELSE IF c \in Reserved(Consumers) THEN RC - 1 ELSE RC + 1
        /\ PC' = IF (c \in Posting(Consumers)) = (c \in Posting(Consumers)') THEN PC
                 ELSE IF c \in Posting(Consumers) THEN PC - 1 ELSE PC + 1
    BY <1>0, OwnSide, ThreadsAssumption DEF Threads
  <1>4. SUFFICES /\ empty' + RP' + PC' = Size - Held'
                 /\ used' + RC' + PP' = Held'
    BY DEF SlotsAccounted
  <1> HIDE DEF RP, PP, RC, PC
  <1> USE DEF Reserved, Posting, Goto, QueueTypeOK, Threads
  <1>5. ASSUME NEW k \in Kinds, WaitUsed(c, k) PROVE /\ empty' + RP' + PC' = Size - Held'
                                                      /\ used' + RC' + PP' = Held'
    <2>1. RC' = RC + 1 /\ PC' = PC /\ empty' = empty /\ used' = used - 1 /\ Held' = Held
      BY <1>3, <1>5 DEF WaitUsed, Held, ghostVars
    <2> QED BY <1>1, <1>2, <2>1
  <1>6. CASE LockConsume(c)
    <2>1. RC' = RC /\ PC' = PC /\ empty' = empty /\ used' = used /\ Held' = Held
      BY <1>3, <1>6 DEF LockConsume, Held, ghostVars
    <2> QED BY <1>1, <1>2, <2>1
  <1>7. CASE AssignOut(c)
    <2>1. RC' = RC /\ PC' = PC /\ empty' = empty /\ used' = used /\ Held' = Held
      BY <1>3, <1>7 DEF AssignOut, Held, ghostVars
    <2> QED BY <1>1, <1>2, <2>1
  <1>8. CASE SwapToSlot(c)
    <2>1. RC' = RC /\ PC' = PC /\ empty' = empty /\ used' = used /\ Held' = Held
      BY <1>3, <1>8 DEF SwapToSlot, Held, ghostVars, queueVars
    <2> QED BY <1>1, <1>2, <2>1
  <1>9. CASE AdvanceConsume(c)
    <2>1. RC' = RC - 1 /\ PC' = PC + 1 /\ empty' = empty /\ used' = used
      BY <1>3, <1>9 DEF AdvanceConsume
    <2>2. Held' = Held - 1
      BY <1>9 DEF AdvanceConsume, Held
    <2> QED BY <1>1, <1>2, <2>1, <2>2
  <1>10. CASE PostEmpty(c)
    <2>1. RC' = RC /\ PC' = PC - 1 /\ empty' = empty + 1 /\ used' = used /\ Held' = Held
      BY <1>3, <1>10 DEF PostEmpty, Held, ghostVars
    <2> QED BY <1>1, <1>2, <2>1
  <1>11. CASE ThrowConsume(c)
    <2>1. RC' = RC - 1 /\ PC' = PC /\ empty' = empty /\ used' = used + 1 /\ Held' = Held
      BY <1>3, <1>11, StagesAssumption DEF ThrowConsume, Held
    <2> QED BY <1>1, <1>2, <2>1
  <1>12. CASE UnwindConsume(c)
    <2>1. RC' = RC /\ PC' = PC /\ empty' = empty /\ used' = used /\ Held' = Held
      BY <1>3, <1>12 DEF UnwindConsume, Held, ghostVars
    <2> QED BY <1>1, <1>2, <2>1
  <1> QED BY <1>5, <1>6, <1>7, <1>8, <1>9, <1>10, <1>11, <1>12 DEF ConsumerStep

\* A thread with a reservation limits how many items are held.
LEMMA HeldRange ==
  ASSUME QueueTypeOK, SlotsAccounted
  PROVE  /\ Held \in 0..Size
         /\ \A p \in Reserved(Producers) : Held < Size
         /\ \A c \in Reserved(Consumers) : Held > 0
  <1> DEFINE RP == Cardinality(Reserved(Producers))
             PP == Cardinality(Posting(Producers))
             RC == Cardinality(Reserved(Consumers))
             PC == Cardinality(Posting(Consumers))
  <1>1. /\ RP \in Nat /\ PP \in Nat /\ RC \in Nat /\ PC \in Nat
        /\ \A p \in Reserved(Producers) : RP >= 1
        /\ \A c \in Reserved(Consumers) : RC >= 1
    BY CountType, ThreadsAssumption DEF Threads
  <1>2. /\ empty + RP + PC = Size - Held /\ used + RC + PP = Held
        /\ empty \in Nat /\ used \in Nat /\ Held \in Int /\ Size \in Nat
    BY SizeAssumption DEF SlotsAccounted, QueueTypeOK, Held
  <1> HIDE DEF RP, PP, RC, PC
  <1> QED BY <1>1, <1>2

\* produce_at_ keeps its distance from consume_at_.
LEMMA RingStep ==
  ASSUME RaceInv, [QueueNext]_pcqueueVars
  PROVE  RingDistance'
  <1> USE SizeAssumption DEF RaceInv, RingDistance, SlotOf
  <1>0. Held \in 0..Size /\ produceAt \in Slots /\ consumeAt \in Slots
    BY HeldRange DEF QueueTypeOK
  <1>1. ASSUME NEW p \in Producers, AdvanceProduce(p) PROVE RingDistance'
    <2>1. p \in Reserved(Producers)
      BY <1>1 DEF AdvanceProduce, Reserved
    <2>2. Held < Size
      BY <2>1, HeldRange
    <2>3. Held' = Held + 1
      BY <1>1 DEF AdvanceProduce, Held, QueueTypeOK
    <2> QED BY <1>0, <1>1, <2>2, <2>3 DEF AdvanceProduce, Advance, Slots
  <1>2. ASSUME NEW c \in Consumers, AdvanceConsume(c) PROVE RingDistance'
    <2>1. c \in Reserved(Consumers)
      BY <1>2 DEF AdvanceConsume, Reserved
    <2>2. Held > 0
      BY <2>1, HeldRange
    <2>3. Held' = Held - 1
      BY <1>2 DEF AdvanceConsume, Held, QueueTypeOK
    <2> QED BY <1>0, <1>2, <2>2, <2>3 DEF AdvanceConsume, Advance, Slots
  <1>3. CASE UNCHANGED <<produceAt, consumeAt, produced, consumed>>
    BY <1>3 DEF Held
  <1>4. \/ \E p \in Producers : AdvanceProduce(p)
        \/ \E c \in Consumers : AdvanceConsume(c)
        \/ UNCHANGED <<produceAt, consumeAt, produced, consumed>>
    BY DEF QueueNext, ProducerStep, ConsumerStep, WaitEmpty, LockProduce, AssignSlot, SwapToProducer,
           PostUsed, ThrowProduce, UnwindProduce, WaitUsed, LockConsume, AssignOut, SwapToSlot,
           PostEmpty, ThrowConsume, UnwindConsume, pcqueueVars, queueVars, ghostVars
  <1> QED BY <1>1, <1>2, <1>3, <1>4

\* The invariant holds initially: nothing is reserved, held or being posted.
LEMMA RaceInit == QueueInit => RaceInv
  <1> SUFFICES ASSUME QueueInit PROVE RaceInv
    OBVIOUS
  <1>1. QueueTypeOK
    BY TypeInit
  <1>2. MutexHeld
    BY ThreadsAssumption DEF QueueInit, MutexHeld, Critical, Threads
  <1>3. /\ Reserved(Producers) = {} /\ Posting(Producers) = {}
        /\ Reserved(Consumers) = {} /\ Posting(Consumers) = {}
    BY DEF QueueInit, Reserved, Posting, Threads
  <1>4. SlotsAccounted
    BY <1>3, FS_EmptySet, SizeAssumption DEF QueueInit, SlotsAccounted, Held
  <1>5. RingDistance
    BY SizeAssumption DEF QueueInit, RingDistance, SlotOf, Held
  <1> QED BY <1>1, <1>2, <1>4, <1>5 DEF RaceInv

\* The invariant is inductive.
LEMMA RaceInductive == RaceInv /\ [QueueNext]_pcqueueVars => RaceInv'
  <1> SUFFICES ASSUME RaceInv, [QueueNext]_pcqueueVars PROVE RaceInv'
    OBVIOUS
  <1>1. QueueTypeOK'
    <2>1. CASE QueueNext
      BY <2>1, TypeProducer, TypeConsumer DEF QueueNext, RaceInv
    <2>2. CASE UNCHANGED pcqueueVars
      BY <2>2 DEF pcqueueVars, queueVars, threadVars, ghostVars, QueueTypeOK, RaceInv
    <2> QED BY <2>1, <2>2
  <1>2. MutexHeld'
    BY MutexStep DEF RaceInv
  <1>3. SlotsAccounted'
    <2>1. CASE QueueNext
      BY <2>1, AccountedProducer, AccountedConsumer DEF QueueNext, RaceInv
    <2>2. CASE UNCHANGED pcqueueVars
      BY <2>2 DEF pcqueueVars, queueVars, threadVars, ghostVars, RaceInv, SlotsAccounted, Held, Reserved, Posting
    <2> QED BY <2>1, <2>2
  <1>4. RingDistance'
    BY RingStep
  <1> QED BY <1>1, <1>2, <1>3, <1>4 DEF RaceInv

\* At most one thread holds a mutex, so at most one of a side is in a slot.
LEMMA OneOfASide ==
  ASSUME NEW S, NEW t, S \subseteq {t}
  PROVE  Cardinality(S) <= 1
  <1>1. IsFiniteSet({t}) /\ Cardinality({t}) = 1
    BY FS_Singleton
  <1>2. Cardinality(S) <= Cardinality({t})
    BY <1>1, FS_Subset
  <1> QED BY <1>1, <1>2

\* The invariant excludes a race on a slot.
LEMMA RaceInvImplies == RaceInv => NoSlotRace
  <1> SUFFICES ASSUME RaceInv PROVE NoSlotRace
    OBVIOUS
  <1>1. ASSUME NEW p \in Accessing \cap Producers, NEW c \in Accessing \cap Consumers
        PROVE  produceAt # consumeAt
    <2>1. p \in Reserved(Producers) /\ c \in Reserved(Consumers)
      BY DEF Accessing, Reserved
    <2>2. 0 < Held /\ Held < Size /\ Held \in 0..Size
      BY <2>1, HeldRange DEF RaceInv
    <2> QED BY <2>2, SizeAssumption DEF RaceInv, RingDistance, SlotOf, QueueTypeOK, Slots
  <1>2. Cardinality(Accessing \cap Producers) <= 1
    <2>1. Accessing \cap Producers \subseteq {produceMutex}
      BY DEF RaceInv, MutexHeld, Critical, Accessing
    <2> QED BY <2>1, OneOfASide
  <1>3. Cardinality(Accessing \cap Consumers) <= 1
    <2>1. Accessing \cap Consumers \subseteq {consumeMutex}
      BY DEF RaceInv, MutexHeld, Critical, Accessing
    <2> QED BY <2>1, OneOfASide
  <1> QED BY <1>1, <1>2, <1>3 DEF NoSlotRace

\* For any number of threads, any size and any pattern of exceptions, the
\* semaphores empty_ and used_ alone keep a producer and a consumer out of
\* the same slot of storage_, and the counts they keep are exact.
THEOREM NoSlotRaceHolds == QueueSpec => [](NoSlotRace /\ SlotsAccounted)
  <1>1. RaceInv => NoSlotRace /\ SlotsAccounted
    BY RaceInvImplies DEF RaceInv
  <1> QED BY <1>1, RaceInit, RaceInductive, PTL DEF QueueSpec

-----------------------------------------------------------------------------
(***************************************************************************)
(* The queue is a FIFO.  On top of RaceInv: a producer carries an item and *)
(* then its slot does, a consumer that has assigned out carries the oldest *)
(* item held, and the held slots are intact.  This needs that the second   *)
(* assignment of a swap does not throw.                                    *)
(***************************************************************************)
ProducersCarry ==
    \A p \in Producers :
        /\ pc[p] \in {"locking", "assigning"} => var[p] \in Items
        /\ pc[p] \in {"swapping", "advancing"} => storage[produceAt] \in Items

ConsumersCarry ==
    \A c \in Consumers :
        pc[c] \in {"swapping", "advancing"} => var[c] = produced[Len(consumed) + 1]

OnlySwapsSwap == \A t \in Threads : pc[t] = "swapping" => kind[t] = "swap"

FifoInv == RaceInv /\ ProducersCarry /\ ConsumersCarry /\ OnlySwapsSwap /\ ContentsIntact

\* Only the swapping calls have a second assignment.
LEMMA SwapsStep ==
  ASSUME QueueTypeOK, OnlySwapsSwap, [QueueNext]_pcqueueVars
  PROVE  OnlySwapsSwap'
  <1> USE DEF OnlySwapsSwap, QueueTypeOK, Threads, Goto
  <1>1. ASSUME NEW p \in Producers, ProducerStep(p) PROVE OnlySwapsSwap'
    BY <1>1 DEF ProducerStep, WaitEmpty, LockProduce, AssignSlot, SwapToProducer,
                AdvanceProduce, PostUsed, ThrowProduce, UnwindProduce
  <1>2. ASSUME NEW c \in Consumers, ConsumerStep(c) PROVE OnlySwapsSwap'
    BY <1>2 DEF ConsumerStep, WaitUsed, LockConsume, AssignOut, SwapToSlot, AdvanceConsume,
                PostEmpty, ThrowConsume, UnwindConsume
  <1>3. CASE UNCHANGED pcqueueVars
    BY <1>3 DEF pcqueueVars, threadVars
  <1> QED BY <1>1, <1>2, <1>3 DEF QueueNext

\* The slots of the ring are visited one after the other without repetition.
LEMMA SlotsDistinct ==
  ASSUME QueueTypeOK, SlotsAccounted
  PROVE  /\ \A k \in 0..(Held - 1) : SlotOf(k) \in Slots
         /\ \A k \in 1..(Held - 1) : SlotOf(k) # consumeAt
         /\ Held < Size => \A k \in 0..(Held - 1) : SlotOf(k) # SlotOf(Held)
         /\ SlotOf(0) = consumeAt
  BY HeldRange, SizeAssumption DEF QueueTypeOK, Slots, SlotOf

\* What a producer does to the contents.
LEMMA FifoProducer ==
  ASSUME FifoInv, NEW p \in Producers, ProducerStep(p), QueueTypeOK'
  PROVE  ProducersCarry' /\ ConsumersCarry' /\ ContentsIntact'
  <1> USE ThreadsAssumption DEF FifoInv, RaceInv, Threads, Goto
  <1>a. /\ Held \in 0..Size /\ SlotOf(Held) = produceAt
        /\ Len(produced) \in Nat /\ Len(consumed) \in Nat
        /\ Size \in Nat /\ Held = Len(produced) - Len(consumed)
        /\ produceAt \in Slots
    BY HeldRange, SizeAssumption DEF RingDistance, QueueTypeOK, Held
  <1>b. \A q \in Producers : q # p => pc'[q] = pc[q] /\ var'[q] = var[q]
    BY DEF ProducerStep, WaitEmpty, LockProduce, AssignSlot, SwapToProducer, AdvanceProduce,
           PostUsed, ThrowProduce, UnwindProduce, QueueTypeOK
  <1>c. \A c \in Consumers : pc'[c] = pc[c] /\ var'[c] = var[c] /\ kind'[c] = kind[c]
    BY DEF ProducerStep, WaitEmpty, LockProduce, AssignSlot, SwapToProducer, AdvanceProduce,
           PostUsed, ThrowProduce, UnwindProduce, QueueTypeOK
  <1>d. consumed' = consumed /\ consumeAt' = consumeAt
    BY DEF ProducerStep, WaitEmpty, LockProduce, AssignSlot, SwapToProducer, AdvanceProduce,
           PostUsed, ThrowProduce, UnwindProduce, ghostVars, queueVars
  <1>e. \A q \in Producers : q # p /\ pc[p] \in Critical => pc[q] \notin Critical
    BY DEF MutexHeld
  <1>1. CASE /\ storage' = storage /\ produceAt' = produceAt /\ produced' = produced
             /\ pc'[p] \in {"locking", "assigning"} => var'[p] \in Items
             /\ pc'[p] \in {"swapping", "advancing"} => storage[produceAt] \in Items
    <2>1. Held' = Held /\ \A k \in 0..(Held - 1) : SlotOf(k)' = SlotOf(k)
      BY <1>1, <1>d DEF Held, SlotOf
    <2>2. ProducersCarry'
      BY <1>1, <1>b DEF ProducersCarry
    <2>3. ConsumersCarry'
      BY <1>1, <1>c, <1>d DEF ConsumersCarry
    <2>4. ContentsIntact'
      BY <1>1, <1>c, <1>d, <2>1 DEF ContentsIntact
    <2> QED BY <2>2, <2>3, <2>4
  <1>2. CASE /\ pc[p] \in {"locking", "assigning"}
             /\ \A q \in Producers : q # p => pc[q] \notin Critical
             /\ produceAt' = produceAt /\ produced' = produced
             /\ \E x : storage' = [storage EXCEPT ![produceAt] = x]
             /\ pc'[p] \in {"locking", "assigning"} => var'[p] \in Items
             /\ pc'[p] \in {"swapping", "advancing"} => storage'[produceAt] \in Items
    <2>0. Held < Size
      BY <1>2, HeldRange DEF Reserved
    <2>1. Held' = Held /\ \A k \in 0..(Held - 1) : SlotOf(k)' = SlotOf(k)
      BY <1>2, <1>d DEF Held, SlotOf
    <2>2. \A k \in 0..(Held - 1) : storage'[SlotOf(k)] = storage[SlotOf(k)]
      <3> SUFFICES ASSUME NEW k \in 0..(Held - 1)
                   PROVE  storage'[SlotOf(k)] = storage[SlotOf(k)]
        OBVIOUS
      <3>1. QueueTypeOK /\ SlotsAccounted
        OBVIOUS
      <3>2. SlotOf(k) # SlotOf(Held) /\ SlotOf(k) \in Slots
        BY ONLY <2>0, <3>1, k \in 0..(Held - 1), SlotsDistinct
      <3>3. SlotOf(k) # produceAt
        BY ONLY <1>a, <3>2
      <3>4. PICK s, j : s = storage /\ j = SlotOf(k)
        OBVIOUS
      <3>5. s \in [Slots -> Contents]
        BY <3>4 DEF QueueTypeOK
      <3>6. PICK x : storage' = [s EXCEPT ![produceAt] = x]
        BY <1>2, <3>4
      <3>7. storage'[j] = s[j]
        BY ONLY <3>2, <3>3, <3>4, <3>5, <3>6
      <3> QED BY ONLY <3>4, <3>7
    <2>3. ProducersCarry'
      BY <1>2, <1>b DEF ProducersCarry, Critical
    <2>4. ConsumersCarry'
      BY <1>2, <1>c, <1>d DEF ConsumersCarry
    <2>5. ContentsIntact'
      BY <1>2, <1>c, <1>d, <2>1, <2>2 DEF ContentsIntact
    <2> QED BY <2>3, <2>4, <2>5
  <1>3. CASE AdvanceProduce(p)
    <2>0. Held < Size
      BY <1>3, HeldRange DEF Reserved, AdvanceProduce
    <2>1. /\ Held' = Held + 1 /\ \A k \in 0..Held : SlotOf(k)' = SlotOf(k)
          /\ storage' = storage
      BY <1>3, <1>d DEF Held, SlotOf, AdvanceProduce, QueueTypeOK
    <2>2. /\ \A i \in 1..Len(produced) : produced'[i] = produced[i]
          /\ produced'[Len(produced) + 1] = storage[produceAt]
      BY <1>3 DEF AdvanceProduce, QueueTypeOK
    <2>3. ProducersCarry'
      <3>1. pc[p] \in Critical /\ pc'[p] = "posting" /\ storage' = storage
        BY <1>3 DEF AdvanceProduce, QueueTypeOK, Critical
      <3> QED BY <3>1, <1>b, <1>e DEF ProducersCarry, Critical
    <2>4. ConsumersCarry'
      <3> SUFFICES ASSUME NEW c \in Consumers, pc'[c] \in {"swapping", "advancing"}
                   PROVE  var'[c] = produced'[Len(consumed') + 1]
        BY DEF ConsumersCarry
      <3>1. pc[c] \in {"swapping", "advancing"} /\ var'[c] = produced[Len(consumed) + 1]
        BY <1>c DEF ConsumersCarry
      <3>2. Held > 0
        BY <3>1, HeldRange DEF Reserved
      <3>3. Len(consumed) + 1 \in 1..Len(produced)
        BY <3>2, <1>a
      <3> QED BY <3>1, <3>3, <2>2, <1>d
    <2>5. ContentsIntact'
      <3>0. 0..(Held' - 1) = 0..Held
        BY <1>a, <2>1
      <3> SUFFICES ASSUME NEW k \in 0..Held
                   PROVE  \/ storage[SlotOf(k)] = produced'[Len(consumed) + k + 1]
                          \/ k = 0 /\ \E c \in Consumers : kind'[c] = "swap" /\ pc'[c] \in {"swapping", "advancing"}
        BY <3>0, <1>d, <2>1 DEF ContentsIntact
      <3>1. CASE k = Held
        BY <3>1, <1>a, <2>2
      <3>2. CASE k \in 0..(Held - 1)
        <4>1. Len(consumed) + k + 1 \in 1..Len(produced)
          BY <3>2, <1>a
        <4> QED BY <3>2, <4>1, <1>c, <2>2 DEF ContentsIntact
      <3> QED BY <3>1, <3>2, <1>a
    <2> QED BY <2>3, <2>4, <2>5
  <1>4. ASSUME NEW k \in Kinds, WaitEmpty(p, k) PROVE ProducersCarry' /\ ConsumersCarry' /\ ContentsIntact'
    <2>1. var'[p] = calls + 1 /\ calls + 1 \in Items /\ pc'[p] = "locking"
      BY <1>4, BoundsAssumption DEF WaitEmpty, QueueTypeOK, Items
    <2> QED BY <1>4, <1>1, <2>1 DEF WaitEmpty
  <1>5. CASE LockProduce(p)
    <2>1. /\ pc'[p] = "assigning" /\ var'[p] \in Items
          /\ \A q \in Producers : pc[q] \notin Critical
      BY <1>5 DEF LockProduce, QueueTypeOK, ProducersCarry, MutexHeld, Critical
    <2>2. CASE kind[p] = "copy"
      BY <1>5, <1>1, <2>1, <2>2 DEF LockProduce, ghostVars
    <2>3. CASE kind[p] = "swap"
      BY <1>5, <1>2, <2>1, <2>3 DEF LockProduce, ghostVars
    <2> QED BY <2>2, <2>3 DEF QueueTypeOK
  <1>6. CASE AssignSlot(p)
    <2>1. /\ pc'[p] \in {"swapping", "advancing"} /\ var[p] \in Items
          /\ storage'[produceAt] = var[p]
      BY <1>6 DEF AssignSlot, QueueTypeOK, ProducersCarry
    <2> QED BY <1>6, <1>2, <1>e, <2>1 DEF AssignSlot, ghostVars, Critical
  <1>7. CASE SwapToProducer(p)
    <2>1. pc'[p] = "advancing" /\ storage[produceAt] \in Items
      BY <1>7 DEF SwapToProducer, QueueTypeOK, ProducersCarry
    <2> QED BY <1>7, <1>1, <2>1 DEF SwapToProducer, queueVars, ghostVars
  <1>8. CASE PostUsed(p)
    <2>1. pc'[p] = "calling"
      BY <1>8 DEF PostUsed, QueueTypeOK
    <2> QED BY <1>8, <1>1, <2>1 DEF PostUsed, ghostVars
  <1>9. CASE ThrowProduce(p)
    <2>1. pc'[p] = "unwinding"
      BY <1>9 DEF ThrowProduce, QueueTypeOK
    <2> QED BY <1>9, <1>1, <2>1 DEF ThrowProduce
  <1>10. CASE UnwindProduce(p)
    <2>1. pc'[p] = "calling"
      BY <1>10 DEF UnwindProduce, QueueTypeOK
    <2> QED BY <1>10, <1>1, <2>1 DEF UnwindProduce, ghostVars
  <1> QED BY <1>3, <1>4, <1>5, <1>6, <1>7, <1>8, <1>9, <1>10 DEF ProducerStep

\* What a consumer does to the contents.
LEMMA FifoConsumer ==
  ASSUME FifoInv, NEW c \in Consumers, ConsumerStep(c), QueueTypeOK',
         "swapping" \notin ThrowingStages
  PROVE  ProducersCarry' /\ ConsumersCarry' /\ ContentsIntact'
  <1> USE ThreadsAssumption DEF FifoInv, RaceInv, Threads, Goto
  <1>a. /\ Held \in 0..Size /\ SlotOf(Held) = produceAt /\ SlotOf(0) = consumeAt
        /\ Len(produced) \in Nat /\ Len(consumed) \in Nat
        /\ Size \in Nat /\ Held = Len(produced) - Len(consumed)
        /\ consumeAt \in Slots
    BY HeldRange, SizeAssumption, SlotsDistinct DEF RingDistance, QueueTypeOK, Held
  <1>b. \A d \in Consumers : d # c => pc'[d] = pc[d] /\ var'[d] = var[d] /\ kind'[d] = kind[d]
    BY DEF ConsumerStep, WaitUsed, LockConsume, AssignOut, SwapToSlot, AdvanceConsume,
           PostEmpty, ThrowConsume, UnwindConsume, QueueTypeOK
  <1>c. \A p \in Producers : pc'[p] = pc[p] /\ var'[p] = var[p]
    BY DEF ConsumerStep, WaitUsed, LockConsume, AssignOut, SwapToSlot, AdvanceConsume,
           PostEmpty, ThrowConsume, UnwindConsume, QueueTypeOK
  <1>d. produced' = produced /\ produceAt' = produceAt
    BY DEF ConsumerStep, WaitUsed, LockConsume, AssignOut, SwapToSlot, AdvanceConsume,
           PostEmpty, ThrowConsume, UnwindConsume, ghostVars
  <1>e. \A d \in Consumers : d # c /\ pc[c] \in Critical => pc[d] \notin Critical
    BY DEF MutexHeld
  <1>f. ASSUME NEW p \in Producers, pc[p] \in {"swapping", "advancing"},
               pc[c] \in {"assigning", "swapping", "advancing"}
        PROVE  produceAt # consumeAt
    <2>1. 0 < Held /\ Held < Size
      BY <1>f, HeldRange DEF Reserved
    <2> QED BY <1>a, <2>1, SizeAssumption DEF SlotOf, Slots
  <1>1. CASE /\ storage' = storage /\ consumeAt' = consumeAt /\ consumed' = consumed
             /\ pc'[c] \in {"swapping", "advancing"} => var'[c] = produced[Len(consumed) + 1]
             /\ kind[c] = "swap" /\ pc[c] \in {"swapping", "advancing"}
                   => kind'[c] = "swap" /\ pc'[c] \in {"swapping", "advancing"}
    <2>1. Held' = Held /\ \A k \in 0..(Held - 1) : SlotOf(k)' = SlotOf(k)
      BY <1>1, <1>d DEF Held, SlotOf
    <2>2. ProducersCarry'
      BY <1>1, <1>c, <1>d DEF ProducersCarry
    <2>3. ConsumersCarry'
      BY <1>1, <1>b, <1>d DEF ConsumersCarry
    <2>4. ContentsIntact'
      BY <1>1, <1>b, <1>d, <2>1 DEF ContentsIntact
    <2> QED BY <2>2, <2>3, <2>4
  <1>2. CASE /\ pc[c] \in {"assigning", "swapping"}
             /\ consumeAt' = consumeAt /\ consumed' = consumed
             /\ \E x : storage' = [storage EXCEPT ![consumeAt] = x]
             /\ var'[c] = produced[Len(consumed) + 1]
             /\ kind'[c] = "swap" /\ pc'[c] \in {"swapping", "advancing"}
    <2>1. Held' = Held /\ \A k \in 0..(Held - 1) : SlotOf(k)' = SlotOf(k)
      BY <1>2, <1>d DEF Held, SlotOf
    <2>2. \A k \in 1..(Held - 1) : storage'[SlotOf(k)] = storage[SlotOf(k)]
      <3> SUFFICES ASSUME NEW k \in 1..(Held - 1)
                   PROVE  storage'[SlotOf(k)] = storage[SlotOf(k)]
        OBVIOUS
      <3>1. k \in 0..(Held - 1)
        BY ONLY <1>a, k \in 1..(Held - 1)
      <3>2. QueueTypeOK /\ SlotsAccounted
        OBVIOUS
      <3>3. SlotOf(k) # consumeAt /\ SlotOf(k) \in Slots
        BY ONLY <3>1, <3>2, k \in 1..(Held - 1), SlotsDistinct
      <3>4. PICK s, j : s = storage /\ j = SlotOf(k)
        OBVIOUS
      <3>5. s \in [Slots -> Contents]
        BY <3>4 DEF QueueTypeOK
      <3>6. PICK x : storage' = [s EXCEPT ![consumeAt] = x]
        BY <1>2, <3>4
      <3>7. storage'[j] = s[j]
        BY ONLY <3>3, <3>4, <3>5, <3>6
      <3> QED BY ONLY <3>4, <3>7
    <2>3. ProducersCarry'
      <3> SUFFICES ASSUME NEW p \in Producers
                   PROVE  /\ pc[p] \in {"locking", "assigning"} => var[p] \in Items
                          /\ pc[p] \in {"swapping", "advancing"} => storage'[produceAt] \in Items
        BY <1>c, <1>d DEF ProducersCarry
      <3>1. pc[p] \in {"swapping", "advancing"} => storage'[produceAt] = storage[produceAt]
        BY <1>2, <1>f DEF QueueTypeOK
      <3> QED BY <3>1 DEF ProducersCarry
    <2>4. ConsumersCarry'
      BY <1>2, <1>b, <1>d DEF ConsumersCarry
    <2>5. ContentsIntact'
      <3> SUFFICES ASSUME NEW k \in 0..(Held - 1)
                   PROVE  \/ storage'[SlotOf(k)] = produced[Len(consumed) + k + 1]
                          \/ k = 0 /\ \E d \in Consumers : kind'[d] = "swap" /\ pc'[d] \in {"swapping", "advancing"}
        BY <1>2, <1>d, <2>1 DEF ContentsIntact
      <3>1. CASE k = 0
        BY <3>1, <1>2
      <3>2. CASE k \in 1..(Held - 1)
        BY <3>2, <2>2 DEF ContentsIntact
      <3> QED BY <3>1, <3>2, <1>a
    <2> QED BY <2>3, <2>4, <2>5
  <1>3. CASE AdvanceConsume(c)
    <2>0. Held > 0
      BY <1>3, HeldRange DEF Reserved, AdvanceConsume
    <2>1. /\ Held' = Held - 1 /\ Len(consumed') = Len(consumed) + 1
          /\ storage' = storage /\ consumeAt' = Advance(consumeAt)
      BY <1>3, <1>a, <1>d DEF Held, AdvanceConsume, QueueTypeOK
    <2>2. \A k \in 0..(Held - 2) : SlotOf(k)' = SlotOf(k + 1)
      BY <1>a, <2>0, <2>1, SizeAssumption DEF SlotOf, Advance, Slots
    <2>3. ProducersCarry'
      BY <1>c, <1>d, <2>1 DEF ProducersCarry
    <2>4. ConsumersCarry'
      <3>1. pc[c] \in Critical /\ pc'[c] = "posting"
        BY <1>3 DEF AdvanceConsume, QueueTypeOK, Critical
      <3> QED BY <3>1, <1>b, <1>e DEF ConsumersCarry, Critical
    <2>5. ContentsIntact'
      <3>0. 0..(Held' - 1) = 0..(Held - 2)
        BY <1>a, <2>1
      <3> SUFFICES ASSUME NEW k \in 0..(Held - 2)
                   PROVE  storage[SlotOf(k)'] = produced[Len(consumed') + k + 1]
        BY <3>0, <1>d, <2>1 DEF ContentsIntact
      <3>1. k + 1 \in 0..(Held - 1) /\ k + 1 # 0 /\ Len(consumed') + k + 1 = Len(consumed) + (k + 1) + 1
        BY <1>a, <2>1
      <3>2. storage[SlotOf(k + 1)] = produced[Len(consumed) + (k + 1) + 1]
        BY <3>1 DEF ContentsIntact
      <3> QED BY <3>1, <3>2, <2>2
    <2> QED BY <2>3, <2>4, <2>5
  <1>4. ASSUME NEW k \in Kinds, WaitUsed(c, k) PROVE ProducersCarry' /\ ConsumersCarry' /\ ContentsIntact'
    <2>1. pc[c] = "calling" /\ pc'[c] = "locking"
      BY <1>4 DEF WaitUsed, QueueTypeOK
    <2> QED BY <1>4, <1>1, <2>1 DEF WaitUsed, ghostVars
  <1>5. CASE LockConsume(c)
    <2>1. pc[c] = "locking" /\ pc'[c] = "assigning"
      BY <1>5 DEF LockConsume, QueueTypeOK
    <2> QED BY <1>5, <1>1, <2>1 DEF LockConsume, ghostVars
  <1>6. CASE AssignOut(c)
    <2>1. /\ pc[c] = "assigning" /\ pc'[c] \in {"swapping", "advancing"}
          /\ var'[c] = storage[consumeAt] /\ kind' = kind
      BY <1>6 DEF AssignOut, QueueTypeOK
    <2>2. Held > 0
      BY <2>1, HeldRange DEF Reserved
    <2>3. \A d \in Consumers : pc[d] \notin {"swapping", "advancing"}
      BY <1>e, <2>1 DEF Critical
    <2>4. storage[SlotOf(0)] = produced[Len(consumed) + 0 + 1]
      <3>1. 0 \in 0..(Held - 1)
        BY <1>a, <2>2
      <3> QED BY <3>1, <2>3 DEF ContentsIntact
    <2>5. var'[c] = produced[Len(consumed) + 1]
      BY <1>a, <2>1, <2>4
    <2>6. CASE kind[c] = "copy"
      BY <1>6, <1>1, <2>1, <2>5, <2>6 DEF AssignOut, ghostVars
    <2>7. CASE kind[c] = "swap"
      BY <1>6, <1>2, <2>1, <2>5, <2>7 DEF AssignOut, ghostVars
    <2> QED BY <2>6, <2>7 DEF QueueTypeOK
  <1>7. CASE SwapToSlot(c)
    <2>1. /\ pc[c] = "swapping" /\ pc'[c] = "advancing" /\ kind' = kind
          /\ var'[c] = produced[Len(consumed) + 1]
      BY <1>7 DEF SwapToSlot, QueueTypeOK, ConsumersCarry
    <2>2. kind[c] = "swap"
      BY <2>1 DEF OnlySwapsSwap
    <2> QED BY <1>7, <1>2, <2>1, <2>2 DEF SwapToSlot, ghostVars
  <1>8. CASE PostEmpty(c)
    <2>1. pc[c] = "posting" /\ pc'[c] = "calling"
      BY <1>8 DEF PostEmpty, QueueTypeOK
    <2> QED BY <1>8, <1>1, <2>1 DEF PostEmpty, ghostVars
  <1>9. CASE ThrowConsume(c)
    <2>1. pc[c] = "assigning" /\ pc'[c] = "unwinding"
      BY <1>9, StagesAssumption DEF ThrowConsume, QueueTypeOK
    <2> QED BY <1>9, <1>1, <2>1 DEF ThrowConsume
  <1>10. CASE UnwindConsume(c)
    <2>1. pc[c] = "unwinding" /\ pc'[c] = "calling"
      BY <1>10 DEF UnwindConsume, QueueTypeOK
    <2> QED BY <1>10, <1>1, <2>1 DEF UnwindConsume, ghostVars
  <1> QED BY <1>3, <1>4, <1>5, <1>6, <1>7, <1>8, <1>9, <1>10 DEF ConsumerStep

\* The FIFO invariant holds initially: no item is held.
LEMMA FifoInit == QueueInit => FifoInv
  <1> SUFFICES ASSUME QueueInit PROVE FifoInv
    OBVIOUS
  <1>1. RaceInv
    BY RaceInit
  <1>2. ProducersCarry /\ ConsumersCarry /\ OnlySwapsSwap
    BY DEF QueueInit, ProducersCarry, ConsumersCarry, OnlySwapsSwap, Threads
  <1>3. Held = 0
    BY DEF QueueInit, Held
  <1>4. ContentsIntact
    BY <1>3 DEF ContentsIntact
  <1> QED BY <1>1, <1>2, <1>4 DEF FifoInv

\* The FIFO invariant is inductive.
LEMMA FifoInductive ==
  ASSUME "swapping" \notin ThrowingStages
  PROVE  FifoInv /\ [QueueNext]_pcqueueVars => FifoInv'
  <1> SUFFICES ASSUME FifoInv, [QueueNext]_pcqueueVars PROVE FifoInv'
    OBVIOUS
  <1>1. RaceInv' /\ QueueTypeOK'
    BY RaceInductive DEF FifoInv, RaceInv
  <1>2. OnlySwapsSwap'
    BY SwapsStep DEF FifoInv, RaceInv
  <1>3. CASE QueueNext
    BY <1>1, <1>2, <1>3, FifoProducer, FifoConsumer DEF QueueNext, FifoInv
  <1>4. CASE UNCHANGED pcqueueVars
    <2>1. ProducersCarry' /\ ConsumersCarry'
      BY <1>4 DEF pcqueueVars, queueVars, threadVars, ghostVars, FifoInv, ProducersCarry, ConsumersCarry
    <2>2. Held' = Held /\ \A k \in 0..(Held - 1) : SlotOf(k)' = SlotOf(k)
      BY <1>4 DEF pcqueueVars, queueVars, ghostVars, Held, SlotOf
    <2>3. ContentsIntact'
      BY <1>4, <2>2 DEF pcqueueVars, queueVars, threadVars, ghostVars, FifoInv, ContentsIntact
    <2> QED BY <1>1, <1>2, <2>1, <2>3 DEF FifoInv
  <1> QED BY <1>3, <1>4

\* If the second assignment of a swap cannot throw, an exception in any other
\* assignment leaves every item that was accepted where the next Consume of
\* util/pcqueue.hh finds it.
THEOREM ContentsIntactHolds ==
  ASSUME "swapping" \notin ThrowingStages
  PROVE  QueueSpec => []ContentsIntact
  <1>1. FifoInv => ContentsIntact
    BY DEF FifoInv
  <1> QED BY <1>1, FifoInit, FifoInductive, PTL DEF QueueSpec

\* A step of the queue is a step of the FIFO or leaves it alone.
LEMMA StepSimulation ==
  FifoInv /\ [QueueNext]_pcqueueVars => [Fifo!Next]_(Fifo!fifoVars)
  <1> SUFFICES ASSUME FifoInv, [QueueNext]_pcqueueVars PROVE [Fifo!Next]_(Fifo!fifoVars)
    OBVIOUS
  <1> USE DEF Fifo!fifoVars
  <1>1. ASSUME NEW p \in Producers, AdvanceProduce(p) PROVE Fifo!Next
    <2>1. storage[produceAt] \in Items
      BY <1>1 DEF FifoInv, ProducersCarry, AdvanceProduce
    <2>2. p \in Reserved(Producers)
      BY <1>1 DEF AdvanceProduce, Reserved
    <2>3. Len(produced) - Len(consumed) < Size
      BY <2>2, HeldRange DEF FifoInv, RaceInv, Held
    <2>4. Fifo!Put(storage[produceAt])
      BY <1>1, <2>3 DEF Fifo!Put, AdvanceProduce
    <2> QED BY <2>1, <2>4 DEF Fifo!Next
  <1>2. ASSUME NEW c \in Consumers, AdvanceConsume(c) PROVE Fifo!Next
    <2>1. var[c] = produced[Len(consumed) + 1]
      BY <1>2 DEF FifoInv, ConsumersCarry, AdvanceConsume
    <2>2. c \in Reserved(Consumers)
      BY <1>2 DEF AdvanceConsume, Reserved
    <2>3. Len(produced) - Len(consumed) > 0
      BY <2>2, HeldRange DEF FifoInv, RaceInv, Held
    <2>4. Len(consumed) < Len(produced)
      BY <2>3 DEF FifoInv, RaceInv, QueueTypeOK
    <2>5. Fifo!Get
      BY <1>2, <2>1, <2>4 DEF Fifo!Get, AdvanceConsume
    <2> QED BY <2>5 DEF Fifo!Next
  <1>3. \/ \E p \in Producers : AdvanceProduce(p)
        \/ \E c \in Consumers : AdvanceConsume(c)
        \/ UNCHANGED <<produced, consumed>>
    BY DEF QueueNext, ProducerStep, ConsumerStep, WaitEmpty, LockProduce, AssignSlot, SwapToProducer,
           PostUsed, ThrowProduce, UnwindProduce, WaitUsed, LockConsume, AssignOut, SwapToSlot,
           PostEmpty, ThrowConsume, UnwindConsume, pcqueueVars, ghostVars
  <1> QED BY <1>1, <1>2, <1>3

\* For any number of threads and any size PCQueue implements a bounded FIFO:
\* no item is lost, duplicated or overtaken, and at most size items are held.
THEOREM QueueImplementsFifo ==
  ASSUME "swapping" \notin ThrowingStages
  PROVE  QueueSpec => ImplementsFifo
  <1>1. QueueInit => Fifo!Init
    BY DEF QueueInit, Fifo!Init
  <1> QED BY <1>1, FifoInit, FifoInductive, StepSimulation, PTL DEF QueueSpec, ImplementsFifo, Fifo!Spec

(***************************************************************************)
(* The pool                                                                *)
(***************************************************************************)

Ended == {"success", "failure", "killed"}

\* Where main is, and what cannot have happened before.
Phases ==
    /\ mpc = "launch" => /\ launched < NumWorkers
                         /\ queue = <<>> /\ reaped = {} /\ inOpen = 1..launched
                         /\ \A r \in Readers : hand[r] = None
    /\ mpc = "readers" => inOpen = Workers /\ \A i \in 1..Len(queue) : queue[i] # Poison
    /\ mpc \in {"launch", "readers"} => poisoned = 0
    /\ mpc = "poison" => poisoned < NumWorkers
    /\ mpc \in {"poison", "join"} => reading = {}
    /\ \A r \in Readers : hand[r] # None => r \in reading
    /\ \A v \in Workers : v > launched => child[v] = "none"

\* Poison is at the end of the queue, and alone in it once one was taken out.
PoisonTail ==
    /\ \A i, j \in 1..Len(queue) : queue[i] = Poison /\ i <= j => queue[j] = Poison
    /\ mpc # "launch" /\ inOpen # Workers => \A i \in 1..Len(queue) : queue[i] = Poison

\* What the threads of a worker and its child know of each other.
WorkerAt ==
    \A w \in Workers :
        /\ input[w] # None => w \in inOpen
        /\ child[w] # "running" => inPipe[w] = <<>> /\ held[w] = <<>>
        /\ opc[w] = "done" => outPipe[w] = <<>> /\ child[w] \in Ended
        /\ opc[w] \in {"lock", "half"} => output[w] # None
        /\ w \in reaped => child[w] = "success"

\* The mutex is held by the one thread in the middle of a record.
OutAt ==
    /\ \A w \in Workers : w \in outMutex <=> opc[w] = "half"
    /\ \A w, v \in outMutex : w = v
    /\ Len(out) % 2 = IF outMutex = {} THEN 0 ELSE 1
    /\ \A w \in outMutex : Len(out) > 0 /\ out[Len(out)] = output[w]

\* The records of a sequence, and that none is in it twice.
Elems(s) == {x \in Records : \E i \in 1..Len(s) : s[i] = x}
Distinct(s) == \A i, j \in 1..Len(s) : s[i] = s[j] /\ s[i] # Poison => i = j

\* The places a record can be at: the places of a reader, of a worker and of
\* the pool.  A record at "lost" went down with a child.
Unread == <<"unread", 0>>
Queued == <<"queue", 0>>
Written == <<"out", 0>>
Lost == <<"lost", 0>>
WorkerPlaces == {"input", "inPipe", "held", "outPipe", "output"}
Places == {Unread, Queued, Written, Lost} \cup ({"hand"} \X Readers) \cup (WorkerPlaces \X Workers)

\* The records that place puts at p.
Holding(place, p) == {x \in Records : place[x] = p}

\* Every record is at one place, in one copy.
PlacedBy(place) ==
    /\ place \in [Records -> Places]
    /\ \A x \in Records : place[x] = Unread <=> x > records
    /\ \A r \in Readers : Holding(place, <<"hand", r>>) = {hand[r]} \ {None}
    /\ Holding(place, Queued) = Elems(queue) /\ Distinct(queue)
    /\ \A w \in Workers :
        /\ Holding(place, <<"input", w>>) = {input[w]} \ {None}
        /\ Holding(place, <<"inPipe", w>>) = Elems(inPipe[w]) /\ Distinct(inPipe[w])
        /\ Holding(place, <<"held", w>>) = Elems(held[w]) /\ Distinct(held[w])
        /\ Holding(place, <<"outPipe", w>>) = Elems(outPipe[w]) /\ Distinct(outPipe[w])
        /\ Holding(place, <<"output", w>>) = IF opc[w] = "lock" THEN {output[w]} ELSE {}
    /\ Holding(place, Written) = Elems(out)
    /\ Holding(place, Lost) # {} => \E w \in Workers : child[w] \in {"failure", "killed"}

Placed == \E place \in [Records -> Places] : PlacedBy(place)

PoolInv ==
    /\ TypeOK /\ RecordsWhole /\ ExitMeansComplete
    /\ Phases /\ PoisonTail /\ WorkerAt /\ OutAt /\ Placed

-----------------------------------------------------------------------------
(* Sequences of records *)

\* Records and the two marks are different numbers.
LEMMA Marks ==
  /\ Poison \notin Records /\ None \notin Records /\ Poison # None
  /\ Records \subseteq Nat
  BY PoolAssumption DEF Poison, None, Records

\* Appending a record that is not there.
LEMMA AppendElems ==
  ASSUME NEW s \in Seq(Records \cup {Poison}), NEW x \in Records \cup {Poison}
  PROVE  /\ Append(s, x) \in Seq(Records \cup {Poison})
         /\ Len(Append(s, x)) = Len(s) + 1
         /\ \A i \in 1..Len(s) : Append(s, x)[i] = s[i]
         /\ Append(s, x)[Len(s) + 1] = x
         /\ x \in Records => Elems(Append(s, x)) = Elems(s) \cup {x}
         /\ x = Poison => Elems(Append(s, x)) = Elems(s)
         /\ Distinct(s) /\ x \notin Elems(s) => Distinct(Append(s, x))
  <1> DEFINE t == Append(s, x)
  <1>1. /\ t \in Seq(Records \cup {Poison}) /\ Len(t) = Len(s) + 1 /\ Len(s) \in Nat
        /\ \A i \in 1..Len(s) : t[i] = s[i]
        /\ t[Len(s) + 1] = x
    OBVIOUS
  <1> HIDE DEF t
  <1>2. \A i \in 1..Len(t) : i \in 1..Len(s) \/ i = Len(s) + 1
    BY <1>1
  <1>3. \A i \in 1..Len(s) : i \in 1..Len(t) /\ i # Len(s) + 1
    BY <1>1
  <1>4. Len(s) + 1 \in 1..Len(t)
    BY <1>1
  <1>5. x \in Records => Elems(t) = Elems(s) \cup {x}
    BY <1>1, <1>2, <1>3, <1>4 DEF Elems
  <1>6. x = Poison => Elems(t) = Elems(s)
    BY <1>1, <1>2, <1>3, Marks DEF Elems
  <1>7. Distinct(s) /\ x \notin Elems(s) => Distinct(t)
    <2> SUFFICES ASSUME Distinct(s), x \notin Elems(s), NEW i \in 1..Len(t), NEW j \in 1..Len(t),
                        t[i] = t[j], t[i] # Poison
                 PROVE  i = j
      BY DEF Distinct
    <2>1. \A k \in 1..Len(s) : s[k] = x => x = Poison
      BY DEF Elems
    <2>2. CASE i \in 1..Len(s) /\ j \in 1..Len(s)
      BY <1>1, <2>2 DEF Distinct
    <2>3. CASE i \notin 1..Len(s) \/ j \notin 1..Len(s)
      BY <1>1, <1>2, <2>1, <2>3
    <2> QED BY <2>2, <2>3
  <1> QED BY <1>1, <1>5, <1>6, <1>7 DEF t

\* Taking the first record out.
LEMMA TailElems ==
  ASSUME NEW s \in Seq(Records \cup {Poison}), s # <<>>
  PROVE  /\ Tail(s) \in Seq(Records \cup {Poison}) /\ Len(Tail(s)) = Len(s) - 1
         /\ Len(s) \in Nat \ {0}
         /\ \A i \in 1..(Len(s) - 1) : Tail(s)[i] = s[i + 1]
         /\ Head(s) = s[1] /\ Head(s) \in Records \cup {Poison}
         /\ Head(s) # Poison => Head(s) \in Elems(s)
         /\ Distinct(s) => Distinct(Tail(s)) /\ Elems(Tail(s)) = Elems(s) \ {Head(s)}
  <1> DEFINE t == Tail(s)
             h == Head(s)
  <1>1. /\ t \in Seq(Records \cup {Poison}) /\ Len(t) = Len(s) - 1 /\ Len(s) \in Nat \ {0}
        /\ \A i \in 1..(Len(s) - 1) : t[i] = s[i + 1]
        /\ h = s[1] /\ h \in Records \cup {Poison}
    <2>1. Len(s) \in Nat \ {0} /\ h = s[1] /\ 1 \in 1..Len(s)
      OBVIOUS
    <2>2. s[1] \in Records \cup {Poison}
      BY <2>1, ElementOfSeq
    <2>3. t \in Seq(Records \cup {Poison}) /\ Len(t) = Len(s) - 1
          /\ \A i \in 1..(Len(s) - 1) : t[i] = s[i + 1]
      OBVIOUS
    <2> QED BY <2>1, <2>2, <2>3
  <1> HIDE DEF t, h
  <1>2. h # Poison => h \in Elems(s)
    BY <1>1 DEF Elems
  <1>3. \A i \in 1..Len(s) : i = 1 \/ (i - 1 \in 1..Len(t) /\ t[i - 1] = s[i])
    <2> SUFFICES ASSUME NEW i \in 1..Len(s), i # 1 PROVE i - 1 \in 1..Len(t) /\ t[i - 1] = s[i]
      OBVIOUS
    <2>1. i - 1 \in 1..(Len(s) - 1) /\ (i - 1) + 1 = i
      BY <1>1
    <2> QED BY <1>1, <2>1
  <1>4. \A i \in 1..Len(t) : i + 1 \in 1..Len(s) /\ t[i] = s[i + 1] /\ i + 1 # 1
    BY <1>1
  <1>5. Distinct(s) => Distinct(t)
    <2> SUFFICES ASSUME Distinct(s), NEW i \in 1..Len(t), NEW j \in 1..Len(t), t[i] = t[j], t[i] # Poison
                 PROVE  i = j
      BY DEF Distinct
    <2>1. i + 1 = j + 1
      BY <1>4 DEF Distinct
    <2> QED BY <1>1, <2>1
  <1>6. Distinct(s) => Elems(t) = Elems(s) \ {h}
    <2> SUFFICES ASSUME Distinct(s) PROVE Elems(t) = Elems(s) \ {h}
      OBVIOUS
    <2>1. ASSUME NEW x \in Elems(t) PROVE x \in Elems(s) \ {h}
      <3>1. PICK i \in 1..Len(t) : t[i] = x /\ x \in Records
        BY DEF Elems
      <3>2. i + 1 \in 1..Len(s) /\ s[i + 1] = x /\ i + 1 # 1
        BY <1>4, <3>1
      <3>3. x # Poison /\ 1 \in 1..Len(s)
        BY <1>1, <3>1, Marks
      <3>4. x # h
        BY <1>1, <3>2, <3>3 DEF Distinct
      <3> QED BY <3>1, <3>2, <3>4 DEF Elems
    <2>2. ASSUME NEW x \in Elems(s), x # h PROVE x \in Elems(t)
      BY <1>1, <1>3, <2>2 DEF Elems
    <2> QED BY <2>1, <2>2
  <1> QED BY <1>1, <1>2, <1>5, <1>6 DEF t, h

\* Sequences that hold nothing.
LEMMA EmptyElems == Elems(<<>>) = {} /\ Distinct(<<>>)
  BY DEF Elems, Distinct

-----------------------------------------------------------------------------
(* Places *)

\* One record moves from place p to place q.
LEMMA RecordMoves ==
  ASSUME NEW place \in [Records -> Places], NEW x \in Records, NEW p, NEW q \in Places,
         place[x] = p, p # q
  PROVE  \E new \in [Records -> Places] :
             /\ Holding(new, q) = Holding(place, q) \cup {x}
             /\ Holding(new, p) = Holding(place, p) \ {x}
             /\ \A o : o # q /\ o # p => Holding(new, o) = Holding(place, o)
             /\ x \notin Holding(place, q)
             /\ \A y \in Records : new[y] = IF y = x THEN q ELSE place[y]
  <1>1. [place EXCEPT ![x] = q] \in [Records -> Places]
    OBVIOUS
  <1> WITNESS [place EXCEPT ![x] = q] \in [Records -> Places]
  <1> QED BY DEF Holding

\* The places are places, and different ones are different.
LEMMA PlaceFacts ==
  /\ {Unread, Queued, Written, Lost} \subseteq Places
  /\ \A r \in Readers : <<"hand", r>> \in Places
  /\ \A w \in Workers, p \in WorkerPlaces : <<p, w>> \in Places
  BY DEF Places

\* A step that moves no record.
LEMMA PlacedKept ==
  ASSUME Placed, UNCHANGED <<records, hand, input, inPipe, held, outPipe>>,
         Elems(queue') = Elems(queue), Distinct(queue) => Distinct(queue'),
         Elems(out') = Elems(out),
         \A w \in Workers : /\ opc'[w] = "lock" <=> opc[w] = "lock"
                            /\ opc[w] = "lock" => output'[w] = output[w]
                            /\ child[w] \in {"failure", "killed"} => child'[w] = child[w]
  PROVE  Placed'
  <1>1. PICK place \in [Records -> Places] : PlacedBy(place)
    BY DEF Placed
  <1>2. PlacedBy(place)'
    BY <1>1 DEF PlacedBy
  <1> QED BY <1>1, <1>2 DEF Placed

\* The invariant holds initially: no record has been read.
LEMMA PoolInit == Init => PoolInv
  <1> SUFFICES ASSUME Init PROVE PoolInv
    OBVIOUS
  <1> USE PoolAssumption DEF Init
  <1>1. TypeOK
    <2>1. <<>> \in Seq(Records) /\ <<>> \in Seq(Records \cup {Poison})
      OBVIOUS
    <2> QED BY <2>1 DEF TypeOK
  <1>2. RecordsWhole /\ ExitMeansComplete /\ PoisonTail
    BY DEF RecordsWhole, ExitMeansComplete, PoisonTail
  <1>3. Phases
    BY DEF Phases
  <1>4. WorkerAt /\ OutAt
    BY DEF WorkerAt, OutAt
  <1>5. Placed
    <2> DEFINE place == [x \in Records |-> Unread]
    <2>1. place \in [Records -> Places]
      BY PlaceFacts
    <2>2. \A p : p # Unread => Holding(place, p) = {}
      BY DEF Holding
    <2>3. \A x \in Records : place[x] = Unread /\ x > records
      BY DEF Records
    <2> HIDE DEF place
    <2>4. /\ \A r \in Readers : Holding(place, <<"hand", r>>) = {}
          /\ Holding(place, Queued) = {} /\ Holding(place, Written) = {} /\ Holding(place, Lost) = {}
          /\ \A w \in Workers, p \in WorkerPlaces : Holding(place, <<p, w>>) = {}
      BY <2>2 DEF Unread, Queued, Written, Lost, WorkerPlaces
    <2>5. \A w \in Workers : /\ Holding(place, <<"input", w>>) = {} /\ Holding(place, <<"inPipe", w>>) = {}
                             /\ Holding(place, <<"held", w>>) = {} /\ Holding(place, <<"outPipe", w>>) = {}
                             /\ Holding(place, <<"output", w>>) = {}
      BY <2>4 DEF WorkerPlaces
    <2>6. PlacedBy(place)
      BY <2>1, <2>3, <2>4, <2>5, EmptyElems DEF PlacedBy
    <2> QED BY <2>1, <2>6 DEF Placed
  <1> QED BY <1>1, <1>2, <1>3, <1>4, <1>5 DEF PoolInv

-----------------------------------------------------------------------------
(* main *)

LEMMA StepLaunch ==
  ASSUME PoolInv, LaunchWorker, outcome = "running"
  PROVE  PoolInv'
  <1> USE PoolAssumption DEF PoolInv, LaunchWorker, readVars
  <1>1. launched + 1 \in Workers /\ child[launched + 1] = "none"
    BY DEF TypeOK, Phases, Workers
  <1>2. TypeOK'
    BY <1>1 DEF TypeOK
  <1>3. RecordsWhole' /\ ExitMeansComplete' /\ OutAt'
    BY DEF RecordsWhole, ExitMeansComplete, OutAt
  <1>4. Phases' /\ PoisonTail'
    BY <1>1 DEF Phases, PoisonTail, TypeOK, Workers
  <1>5. WorkerAt'
    BY <1>1 DEF WorkerAt, TypeOK, Ended
  <1>6. Placed'
    BY <1>1, PlacedKept DEF TypeOK
  <1> QED BY <1>2, <1>3, <1>4, <1>5, <1>6

LEMMA StepReadersJoined ==
  ASSUME PoolInv, ReadersJoined, outcome = "running"
  PROVE  PoolInv'
  <1> USE PoolAssumption DEF PoolInv, ReadersJoined, readVars, workVars
  <1>1. poisoned < NumWorkers
    BY DEF Phases
  <1>2. TypeOK'
    BY DEF TypeOK
  <1>3. RecordsWhole' /\ ExitMeansComplete' /\ OutAt' /\ PoisonTail' /\ WorkerAt'
    BY DEF RecordsWhole, ExitMeansComplete, OutAt, PoisonTail, WorkerAt
  <1>4. Phases'
    BY <1>1 DEF Phases
  <1>5. Placed'
    BY PlacedKept
  <1> QED BY <1>2, <1>3, <1>4, <1>5

LEMMA StepPoisonQueue ==
  ASSUME PoolInv, PoisonQueue, outcome = "running"
  PROVE  PoolInv'
  <1> USE PoolAssumption DEF PoolInv, PoisonQueue, readVars, workVars
  <1>1. /\ queue' \in Seq(Records \cup {Poison}) /\ Len(queue') = Len(queue) + 1
        /\ Len(queue) \in Nat
        /\ \A i \in 1..Len(queue) : queue'[i] = queue[i]
        /\ queue'[Len(queue) + 1] = Poison
        /\ Elems(queue') = Elems(queue)
        /\ Distinct(queue) => Distinct(queue')
    <2>1. queue \in Seq(Records \cup {Poison}) /\ queue' = Append(queue, Poison)
      BY DEF TypeOK
    <2>2. Poison \in Records \cup {Poison} /\ Poison \notin Elems(queue)
      BY Marks DEF Elems
    <2> QED BY <2>1, <2>2, AppendElems
  <1>2. TypeOK'
    BY <1>1 DEF TypeOK, Phases
  <1>3. RecordsWhole' /\ ExitMeansComplete' /\ OutAt' /\ WorkerAt'
    BY DEF RecordsWhole, ExitMeansComplete, OutAt, WorkerAt
  <1>4. Phases'
    BY <1>1 DEF Phases, TypeOK
  <1>5. PoisonTail'
    <2>1. \A i \in 1..Len(queue') : i \in 1..Len(queue) \/ i = Len(queue) + 1
      BY <1>1
    <2>2. \A i, j \in 1..Len(queue') : queue'[i] = Poison /\ i <= j => queue'[j] = Poison
      <3> SUFFICES ASSUME NEW i \in 1..Len(queue'), NEW j \in 1..Len(queue'), queue'[i] = Poison, i <= j
                   PROVE  queue'[j] = Poison
        OBVIOUS
      <3>1. CASE j = Len(queue) + 1
        BY <1>1, <3>1
      <3>2. CASE j \in 1..Len(queue)
        <4>1. i \in 1..Len(queue)
          BY <1>1, <3>2
        <4> QED BY <1>1, <3>2, <4>1 DEF PoisonTail
      <3> QED BY <2>1, <3>1, <3>2
    <2> QED BY <1>1, <2>1, <2>2 DEF PoisonTail
  <1>6. Placed'
    BY <1>1, PlacedKept
  <1> QED BY <1>2, <1>3, <1>4, <1>5, <1>6

-----------------------------------------------------------------------------
(* The readers *)

\* The next record, which nobody has read, is in the hand of reader r.
LEMMA StepReadRecord ==
  ASSUME PoolInv, NEW r \in Readers, ReadRecord(r), outcome = "running"
  PROVE  PoolInv'
  <1> USE PoolAssumption DEF PoolInv, ReadRecord, mainVars, workVars
  <1> DEFINE x == records + 1
             q == <<"hand", r>>
  <1>1. x \in Records /\ records \in Nat /\ x # None
    BY Marks DEF TypeOK, Records
  <1>2. TypeOK'
    BY <1>1 DEF TypeOK
  <1>3. RecordsWhole' /\ ExitMeansComplete' /\ OutAt' /\ PoisonTail' /\ WorkerAt'
    BY DEF RecordsWhole, ExitMeansComplete, OutAt, PoisonTail, WorkerAt
  <1>4. Phases'
    BY DEF Phases, TypeOK
  <1>5. Placed'
    <2>1. PICK place \in [Records -> Places] : PlacedBy(place)
      BY DEF Placed
    <2>2. place[x] = Unread /\ q \in Places /\ q # Unread
      BY <1>1, <2>1, PlaceFacts DEF PlacedBy, Unread
    <2>3. PICK new \in [Records -> Places] :
             /\ Holding(new, q) = Holding(place, q) \cup {x}
             /\ \A o : o # q /\ o # Unread => Holding(new, o) = Holding(place, o)
             /\ \A y \in Records : new[y] = IF y = x THEN q ELSE place[y]
      <3> HIDE DEF x, q
      <3> QED BY <1>1, <2>1, <2>2, RecordMoves
    <2>4. \A y \in Records : new[y] = Unread <=> y > records'
      BY <1>1, <2>1, <2>2, <2>3 DEF PlacedBy, Records
    <2>5. \A s \in Readers : Holding(new, <<"hand", s>>) = {hand'[s]} \ {None}
      <3>1. ASSUME NEW s \in Readers, s # r
            PROVE  Holding(new, <<"hand", s>>) = {hand'[s]} \ {None}
        <4>1. hand'[s] = hand[s] /\ <<"hand", s>> # q /\ <<"hand", s>> # Unread
          BY <3>1 DEF TypeOK, Unread
        <4> QED BY <2>1, <2>3, <4>1 DEF PlacedBy
      <3>2. Holding(new, q) = {hand'[r]} \ {None}
        <4>1. Holding(place, q) = {} /\ hand'[r] = x
          BY <2>1 DEF PlacedBy, TypeOK
        <4> QED BY <1>1, <2>3, <4>1
      <3> QED BY <3>1, <3>2
    <2>6. PlacedBy(new)'
      BY <2>1, <2>3, <2>4, <2>5 DEF PlacedBy, Unread, Queued, Written, Lost
    <2> QED BY <2>3, <2>6 DEF Placed
  <1> QED BY <1>2, <1>3, <1>4, <1>5

\* The record in the hand of reader r is queued, while no poison is.
LEMMA StepProduceRecord ==
  ASSUME PoolInv, NEW r \in Readers, ProduceRecord(r), outcome = "running"
  PROVE  PoolInv'
  <1> USE PoolAssumption DEF PoolInv, ProduceRecord, mainVars, workVars
  <1> DEFINE x == hand[r]
             q == <<"hand", r>>
  <1>1. x \in Records /\ x # Poison /\ mpc = "readers" /\ queue \in Seq(Records \cup {Poison})
    BY Marks DEF TypeOK, Phases
  <1>2. /\ queue' \in Seq(Records \cup {Poison}) /\ Len(queue') = Len(queue) + 1
        /\ Len(queue) \in Nat
        /\ \A i \in 1..Len(queue) : queue'[i] = queue[i]
        /\ queue'[Len(queue) + 1] = x
        /\ Elems(queue') = Elems(queue) \cup {x}
        /\ Distinct(queue) /\ x \notin Elems(queue) => Distinct(queue')
    BY <1>1, AppendElems
  <1>3. TypeOK'
    BY <1>1, <1>2 DEF TypeOK
  <1>4. RecordsWhole' /\ ExitMeansComplete' /\ OutAt' /\ WorkerAt'
    BY DEF RecordsWhole, ExitMeansComplete, OutAt, WorkerAt
  <1>5. \A i \in 1..Len(queue') : queue'[i] # Poison
    BY <1>1, <1>2 DEF Phases
  <1>6. Phases' /\ PoisonTail'
    BY <1>1, <1>5 DEF Phases, PoisonTail, TypeOK
  <1>7. Placed'
    <2>1. PICK place \in [Records -> Places] : PlacedBy(place)
      BY DEF Placed
    <2>2. place[x] = q /\ Queued \in Places /\ q # Queued
      BY <1>1, <2>1, PlaceFacts, Marks DEF PlacedBy, Queued, Holding
    <2>3. PICK new \in [Records -> Places] :
             /\ Holding(new, Queued) = Holding(place, Queued) \cup {x}
             /\ Holding(new, q) = Holding(place, q) \ {x}
             /\ \A o : o # Queued /\ o # q => Holding(new, o) = Holding(place, o)
             /\ x \notin Holding(place, Queued)
             /\ \A y \in Records : new[y] = IF y = x THEN Queued ELSE place[y]
      <3>1. x \in Records /\ place[x] = q /\ q # Queued /\ Queued \in Places
        BY <1>1, <2>2
      <3> HIDE DEF x, q, PoolInv, ProduceRecord
      <3> QED BY <3>1, RecordMoves
    <2>4. \A y \in Records : new[y] = Unread <=> y > records'
      BY <2>1, <2>2, <2>3 DEF PlacedBy, Unread, Queued
    <2>5. \A s \in Readers : Holding(new, <<"hand", s>>) = {hand'[s]} \ {None}
      BY <1>1, <2>1, <2>2, <2>3 DEF PlacedBy, Queued, TypeOK
    <2>6. Holding(new, Queued) = Elems(queue') /\ Distinct(queue')
      BY <1>2, <2>1, <2>3 DEF PlacedBy
    <2>7. PlacedBy(new)'
      BY <2>1, <2>3, <2>4, <2>5, <2>6 DEF PlacedBy, Queued, Written, Lost
    <2> QED BY <2>3, <2>7 DEF Placed
  <1> QED BY <1>3, <1>4, <1>6, <1>7

LEMMA StepReaderEnds ==
  ASSUME PoolInv, NEW r \in Readers, ReaderEnds(r), outcome = "running"
  PROVE  PoolInv'
  <1> USE PoolAssumption DEF PoolInv, ReaderEnds, mainVars, workVars
  <1>1. TypeOK'
    BY DEF TypeOK
  <1>2. RecordsWhole' /\ ExitMeansComplete' /\ OutAt' /\ PoisonTail' /\ WorkerAt'
    BY DEF RecordsWhole, ExitMeansComplete, OutAt, PoisonTail, WorkerAt
  <1>3. Phases'
    BY DEF Phases
  <1>4. Placed'
    BY PlacedKept
  <1> QED BY <1>1, <1>2, <1>3, <1>4

-----------------------------------------------------------------------------
(* The input threads *)

\* Sequences of records only.
LEMMA OnlyRecords ==
  ASSUME NEW s \in Seq(Records)
  PROVE  /\ s \in Seq(Records \cup {Poison})
         /\ \A x \in Records : Append(s, x) \in Seq(Records)
         /\ s # <<>> => Head(s) \in Records /\ Tail(s) \in Seq(Records)
  <1>1. s # <<>> => Head(s) = s[1] /\ 1 \in 1..Len(s) /\ Tail(s) \in Seq(Records)
    OBVIOUS
  <1>2. s # <<>> => Head(s) \in Records
    BY <1>1, ElementOfSeq
  <1> QED BY <1>1, <1>2

\* The input thread of worker w takes what is first in the queue.
LEMMA StepConsumeRecord ==
  ASSUME PoolInv, NEW w \in Workers, ConsumeRecord(w), outcome = "running"
  PROVE  PoolInv'
  <1> USE PoolAssumption DEF PoolInv, ConsumeRecord, mainVars, readVars
  <1> DEFINE x == Head(queue)
             q == <<"input", w>>
  <1>1. queue \in Seq(Records \cup {Poison}) /\ queue # <<>> /\ queue' = Tail(queue) /\ mpc # "launch"
    BY DEF TypeOK, Phases
  <1>2. /\ queue' \in Seq(Records \cup {Poison}) /\ Len(queue') = Len(queue) - 1
        /\ Len(queue) \in Nat \ {0}
        /\ \A i \in 1..(Len(queue) - 1) : queue'[i] = queue[i + 1]
        /\ x = queue[1] /\ x \in Records \cup {Poison}
        /\ x # Poison => x \in Elems(queue)
        /\ Distinct(queue) => Distinct(queue') /\ Elems(queue') = Elems(queue) \ {x}
    BY <1>1, TailElems
  <1>3. \A i \in 1..Len(queue') : i + 1 \in 1..Len(queue) /\ queue'[i] = queue[i + 1]
    BY <1>2
  <1>4. 1 \in 1..Len(queue)
    BY <1>2
  <1>5. RecordsWhole' /\ ExitMeansComplete' /\ OutAt'
    BY DEF RecordsWhole, ExitMeansComplete, OutAt
  <1>6. CASE x = Poison
    <2>1. \A i \in 1..Len(queue) : queue[i] = Poison
      BY <1>2, <1>4, <1>6 DEF PoisonTail
    <2>2. inOpen' = inOpen \ {w} /\ input' = input /\ mpc # "readers"
      BY <1>2, <1>4, <1>6 DEF Phases
    <2>3. TypeOK'
      BY <1>2, <2>2 DEF TypeOK
    <2>4. Phases' /\ PoisonTail'
      BY <1>1, <1>3, <2>1, <2>2 DEF Phases, PoisonTail
    <2>5. WorkerAt'
      BY <2>2 DEF WorkerAt
    <2>6. Elems(queue) = {} /\ Elems(queue') = {} /\ Distinct(queue')
      BY <1>3, <2>1, Marks DEF Elems, Distinct
    <2>7. Placed'
      BY <2>2, <2>6, PlacedKept
    <2> QED BY <1>5, <2>3, <2>4, <2>5, <2>7
  <1>7. CASE x # Poison
    <2>1. x \in Records /\ x \in Elems(queue) /\ x # None
      BY <1>2, <1>7, Marks
    <2>2. inOpen' = inOpen /\ input' = [input EXCEPT ![w] = x]
      BY <1>7
    <2>3. TypeOK'
      BY <1>2, <2>1, <2>2 DEF TypeOK
    <2>4. Phases'
      BY <1>1, <1>3, <2>2 DEF Phases
    <2>5. PoisonTail'
      <3>1. \A i, j \in 1..Len(queue') : queue'[i] = Poison /\ i <= j => queue'[j] = Poison
        <4> SUFFICES ASSUME NEW i \in 1..Len(queue'), NEW j \in 1..Len(queue'), queue'[i] = Poison, i <= j
                     PROVE  queue'[j] = Poison
          OBVIOUS
        <4>1. i + 1 \in 1..Len(queue) /\ j + 1 \in 1..Len(queue) /\ i + 1 <= j + 1
          BY <1>2, <1>3
        <4> QED BY <1>3, <4>1 DEF PoisonTail
      <3> QED BY <1>1, <1>3, <2>2, <3>1 DEF PoisonTail
    <2>6. WorkerAt'
      BY <2>2 DEF WorkerAt, TypeOK
    <2>7. Placed'
      <3>1. PICK place \in [Records -> Places] : PlacedBy(place)
        BY DEF Placed
      <3>2. place[x] = Queued /\ q \in Places /\ q # Queued
        BY <2>1, <3>1, PlaceFacts DEF PlacedBy, Queued, Holding, WorkerPlaces
      <3>3. PICK new \in [Records -> Places] :
               /\ Holding(new, q) = Holding(place, q) \cup {x}
               /\ Holding(new, Queued) = Holding(place, Queued) \ {x}
               /\ \A o : o # q /\ o # Queued => Holding(new, o) = Holding(place, o)
               /\ x \notin Holding(place, q)
               /\ \A y \in Records : new[y] = IF y = x THEN q ELSE place[y]
        <4>1. x \in Records /\ place[x] = Queued /\ q # Queued /\ q \in Places
          BY <2>1, <3>2
        <4> HIDE DEF x, q, PoolInv, ConsumeRecord
        <4> QED BY <4>1, RecordMoves
      <3>4. \A y \in Records : new[y] = Unread <=> y > records'
        BY <3>1, <3>2, <3>3 DEF PlacedBy, Unread, Queued
      <3>5. \A v \in Workers : Holding(new, <<"input", v>>) = {input'[v]} \ {None}
        <4>1. ASSUME NEW v \in Workers, v # w
              PROVE  Holding(new, <<"input", v>>) = {input'[v]} \ {None}
          <5>1. input'[v] = input[v] /\ <<"input", v>> # q /\ <<"input", v>> # Queued
            BY <2>2, <4>1 DEF TypeOK, Queued
          <5> QED BY <3>1, <3>3, <5>1 DEF PlacedBy
        <4>2. Holding(new, q) = {input'[w]} \ {None}
          <5>1. Holding(place, q) = {} /\ input'[w] = x
            BY <2>2, <3>1 DEF PlacedBy, TypeOK
          <5> QED BY <2>1, <3>3, <5>1
        <4> QED BY <4>1, <4>2
      <3>6. Holding(new, Queued) = Elems(queue') /\ Distinct(queue')
        BY <1>2, <3>1, <3>3 DEF PlacedBy
      <3>7. PlacedBy(new)'
        BY <3>1, <3>3, <3>4, <3>5, <3>6 DEF PlacedBy, Queued, Written, Lost
      <3> QED BY <3>3, <3>7 DEF Placed
    <2> QED BY <1>5, <2>3, <2>4, <2>5, <2>6, <2>7
  <1> QED BY <1>6, <1>7

\* A record goes from the input thread of worker w into the pipe.
LEMMA StepWriteRecord ==
  ASSUME PoolInv, NEW w \in Workers, WriteRecord(w), outcome = "running"
  PROVE  PoolInv'
  <1> USE PoolAssumption DEF PoolInv, WriteRecord, mainVars, readVars
  <1> DEFINE x == input[w]
             p == <<"input", w>>
             q == <<"inPipe", w>>
  <1>1. x \in Records /\ inPipe[w] \in Seq(Records)
    BY DEF TypeOK
  <1>2. /\ inPipe'[w] = Append(inPipe[w], x) /\ input'[w] = None
        /\ \A v \in Workers : v # w => inPipe'[v] = inPipe[v] /\ input'[v] = input[v]
    BY DEF TypeOK
  <1>3. /\ Elems(inPipe'[w]) = Elems(inPipe[w]) \cup {x}
        /\ Distinct(inPipe[w]) /\ x \notin Elems(inPipe[w]) => Distinct(inPipe'[w])
        /\ inPipe'[w] \in Seq(Records)
    BY <1>1, <1>2, OnlyRecords, AppendElems
  <1>4. TypeOK'
    BY <1>1, <1>3 DEF TypeOK
  <1>5. RecordsWhole' /\ ExitMeansComplete' /\ OutAt' /\ Phases' /\ PoisonTail'
    BY DEF RecordsWhole, ExitMeansComplete, OutAt, Phases, PoisonTail
  <1>6. WorkerAt'
    BY <1>2 DEF WorkerAt
  <1>7. Placed'
    <2>1. PICK place \in [Records -> Places] : PlacedBy(place)
      BY DEF Placed
    <2>2. place[x] = p /\ q \in Places /\ p # q
      <3>0. Holding(place, p) = {x} \ {None} /\ x # None
        BY <2>1 DEF PlacedBy
      <3>1. x \in Holding(place, p)
        BY <3>0
      <3>2. "inPipe" \in WorkerPlaces
        BY DEF WorkerPlaces
      <3> QED BY <3>1, <3>2, PlaceFacts DEF Holding
    <2>3. PICK new \in [Records -> Places] :
             /\ Holding(new, q) = Holding(place, q) \cup {x}
             /\ Holding(new, p) = Holding(place, p) \ {x}
             /\ \A o : o # q /\ o # p => Holding(new, o) = Holding(place, o)
             /\ x \notin Holding(place, q)
             /\ \A y \in Records : new[y] = IF y = x THEN q ELSE place[y]
      <3>1. x \in Records /\ place[x] = p /\ p # q /\ q \in Places
        BY <1>1, <2>2
      <3> HIDE DEF x, p, q, PoolInv, WriteRecord
      <3> QED BY <3>1, RecordMoves
    <2>4. \A y \in Records : new[y] = Unread <=> y > records'
      BY <2>1, <2>2, <2>3 DEF PlacedBy, Unread
    <2>5. ASSUME NEW v \in Workers
          PROVE  /\ Holding(new, <<"input", v>>) = {input'[v]} \ {None}
                 /\ Holding(new, <<"inPipe", v>>) = Elems(inPipe'[v]) /\ Distinct(inPipe'[v])
      <3>1. CASE v = w
        <4>1. /\ Holding(place, p) = {x} \ {None}
              /\ Holding(place, q) = Elems(inPipe[w]) /\ Distinct(inPipe[w])
          BY <2>1 DEF PlacedBy
        <4>2. Holding(new, p) = {} /\ Holding(new, q) = Elems(inPipe'[w]) /\ Distinct(inPipe'[w])
          BY <1>3, <2>3, <4>1
        <4> QED BY <1>2, <3>1, <4>2
      <3>2. CASE v # w
        <4>1. <<"input", v>> \notin {p, q} /\ <<"inPipe", v>> \notin {p, q}
          BY <3>2
        <4>2. /\ Holding(new, <<"input", v>>) = Holding(place, <<"input", v>>)
              /\ Holding(new, <<"inPipe", v>>) = Holding(place, <<"inPipe", v>>)
          BY <2>3, <4>1
        <4> QED BY <1>2, <2>1, <3>2, <4>2 DEF PlacedBy
      <3> QED BY <3>1, <3>2
    <2>6. PlacedBy(new)'
      BY <2>1, <2>3, <2>4, <2>5 DEF PlacedBy, Queued, Written, Lost
    <2> QED BY <2>3, <2>6 DEF Placed
  <1> QED BY <1>4, <1>5, <1>6, <1>7

-----------------------------------------------------------------------------
(* The children *)

\* A child reads a record of its pipe.
LEMMA StepChildReads ==
  ASSUME PoolInv, NEW w \in Workers, ChildReads(w), outcome = "running"
  PROVE  PoolInv'
  <1> USE PoolAssumption DEF PoolInv, ChildReads, mainVars, readVars
  <1> DEFINE x == Head(inPipe[w])
             p == <<"inPipe", w>>
             q == <<"held", w>>
  <1>1. inPipe[w] \in Seq(Records) /\ held[w] \in Seq(Records) /\ inPipe[w] # <<>>
    BY DEF TypeOK
  <1>2. /\ inPipe'[w] = Tail(inPipe[w]) /\ held'[w] = Append(held[w], x)
        /\ \A v \in Workers : v # w => inPipe'[v] = inPipe[v] /\ held'[v] = held[v]
    BY DEF TypeOK
  <1>3. /\ x \in Records /\ inPipe'[w] \in Seq(Records) /\ x \in Elems(inPipe[w])
        /\ Distinct(inPipe[w]) =>
              Distinct(inPipe'[w]) /\ Elems(inPipe'[w]) = Elems(inPipe[w]) \ {x}
    <2>1. x \in Records /\ Tail(inPipe[w]) \in Seq(Records) /\ inPipe[w] \in Seq(Records \cup {Poison})
      BY <1>1, OnlyRecords
    <2>2. x # Poison
      BY <2>1, Marks
    <2> QED BY <1>1, <1>2, <2>1, <2>2, TailElems
  <1>4. /\ Elems(held'[w]) = Elems(held[w]) \cup {x}
        /\ Distinct(held[w]) /\ x \notin Elems(held[w]) => Distinct(held'[w])
        /\ held'[w] \in Seq(Records)
    <2> HIDE DEF x
    <2>1. /\ Append(held[w], x) \in Seq(Records)
          /\ held[w] \in Seq(Records \cup {Poison}) /\ x \in Records \cup {Poison}
      BY <1>1, <1>3, OnlyRecords
    <2>2. /\ Elems(Append(held[w], x)) = Elems(held[w]) \cup {x}
          /\ Distinct(held[w]) /\ x \notin Elems(held[w]) => Distinct(Append(held[w], x))
      BY <1>3, <2>1, AppendElems
    <2> QED BY <1>2, <2>1, <2>2
  <1>5. TypeOK'
    BY <1>3, <1>4 DEF TypeOK
  <1>6. RecordsWhole' /\ ExitMeansComplete' /\ OutAt' /\ Phases' /\ PoisonTail'
    BY DEF RecordsWhole, ExitMeansComplete, OutAt, Phases, PoisonTail
  <1>7. WorkerAt'
    BY <1>2 DEF WorkerAt, Ended
  <1>8. Placed'
    <2>1. PICK place \in [Records -> Places] : PlacedBy(place)
      BY DEF Placed
    <2>2. /\ Holding(place, p) = Elems(inPipe[w]) /\ Distinct(inPipe[w])
          /\ Holding(place, q) = Elems(held[w]) /\ Distinct(held[w])
      BY <2>1 DEF PlacedBy
    <2>3. place[x] = p /\ q \in Places /\ p # q
      <3>1. "held" \in WorkerPlaces
        BY DEF WorkerPlaces
      <3> QED BY <1>3, <2>2, <3>1, PlaceFacts DEF Holding
    <2>4. PICK new \in [Records -> Places] :
             /\ Holding(new, q) = Holding(place, q) \cup {x}
             /\ Holding(new, p) = Holding(place, p) \ {x}
             /\ \A o : o # q /\ o # p => Holding(new, o) = Holding(place, o)
             /\ x \notin Holding(place, q)
             /\ \A y \in Records : new[y] = IF y = x THEN q ELSE place[y]
      <3>1. x \in Records /\ place[x] = p /\ p # q /\ q \in Places
        BY <1>3, <2>3
      <3> HIDE DEF x, p, q, PoolInv, ChildReads
      <3> QED BY <3>1, RecordMoves
    <2>5. \A y \in Records : new[y] = Unread <=> y > records'
      BY <2>1, <2>3, <2>4 DEF PlacedBy, Unread
    <2>6. ASSUME NEW v \in Workers
          PROVE  /\ Holding(new, <<"inPipe", v>>) = Elems(inPipe'[v]) /\ Distinct(inPipe'[v])
                 /\ Holding(new, <<"held", v>>) = Elems(held'[v]) /\ Distinct(held'[v])
      <3>1. CASE v = w
        <4>1. /\ Holding(new, p) = Elems(inPipe'[w]) /\ Distinct(inPipe'[w])
              /\ Holding(new, q) = Elems(held'[w]) /\ Distinct(held'[w])
          BY <1>3, <1>4, <2>2, <2>4
        <4> QED BY <3>1, <4>1
      <3>2. CASE v # w
        <4>1. <<"inPipe", v>> \notin {p, q} /\ <<"held", v>> \notin {p, q}
          BY <3>2
        <4>2. /\ Holding(new, <<"inPipe", v>>) = Holding(place, <<"inPipe", v>>)
              /\ Holding(new, <<"held", v>>) = Holding(place, <<"held", v>>)
          BY <2>4, <4>1
        <4> QED BY <1>2, <2>1, <3>2, <4>2 DEF PlacedBy
      <3> QED BY <3>1, <3>2
    <2>7. PlacedBy(new)'
      BY <2>1, <2>4, <2>5, <2>6 DEF PlacedBy, Queued, Written, Lost
    <2> QED BY <2>4, <2>7 DEF Placed
  <1> QED BY <1>5, <1>6, <1>7, <1>8

\* A child writes the record it has held longest.
LEMMA StepChildWrites ==
  ASSUME PoolInv, NEW w \in Workers, ChildWrites(w), outcome = "running"
  PROVE  PoolInv'
  <1> USE PoolAssumption DEF PoolInv, ChildWrites, mainVars, readVars
  <1> DEFINE x == Head(held[w])
             p == <<"held", w>>
             q == <<"outPipe", w>>
  <1>1. held[w] \in Seq(Records) /\ outPipe[w] \in Seq(Records) /\ held[w] # <<>>
    BY DEF TypeOK
  <1>2. /\ held'[w] = Tail(held[w]) /\ outPipe'[w] = Append(outPipe[w], x)
        /\ \A v \in Workers : v # w => held'[v] = held[v] /\ outPipe'[v] = outPipe[v]
    BY DEF TypeOK
  <1>3. /\ x \in Records /\ held'[w] \in Seq(Records) /\ x \in Elems(held[w])
        /\ Distinct(held[w]) =>
              Distinct(held'[w]) /\ Elems(held'[w]) = Elems(held[w]) \ {x}
    <2>1. x \in Records /\ Tail(held[w]) \in Seq(Records) /\ held[w] \in Seq(Records \cup {Poison})
      BY <1>1, OnlyRecords
    <2>2. x # Poison
      BY <2>1, Marks
    <2> QED BY <1>1, <1>2, <2>1, <2>2, TailElems
  <1>4. /\ Elems(outPipe'[w]) = Elems(outPipe[w]) \cup {x}
        /\ Distinct(outPipe[w]) /\ x \notin Elems(outPipe[w]) => Distinct(outPipe'[w])
        /\ outPipe'[w] \in Seq(Records)
    <2> HIDE DEF x
    <2>1. /\ Append(outPipe[w], x) \in Seq(Records)
          /\ outPipe[w] \in Seq(Records \cup {Poison}) /\ x \in Records \cup {Poison}
      BY <1>1, <1>3, OnlyRecords
    <2>2. /\ Elems(Append(outPipe[w], x)) = Elems(outPipe[w]) \cup {x}
          /\ Distinct(outPipe[w]) /\ x \notin Elems(outPipe[w]) => Distinct(Append(outPipe[w], x))
      BY <1>3, <2>1, AppendElems
    <2> QED BY <1>2, <2>1, <2>2
  <1>5. TypeOK'
    BY <1>3, <1>4 DEF TypeOK
  <1>6. RecordsWhole' /\ ExitMeansComplete' /\ OutAt' /\ Phases' /\ PoisonTail'
    BY DEF RecordsWhole, ExitMeansComplete, OutAt, Phases, PoisonTail
  <1>7. WorkerAt'
    BY <1>2 DEF WorkerAt, Ended
  <1>8. Placed'
    <2>1. PICK place \in [Records -> Places] : PlacedBy(place)
      BY DEF Placed
    <2>2. /\ Holding(place, p) = Elems(held[w]) /\ Distinct(held[w])
          /\ Holding(place, q) = Elems(outPipe[w]) /\ Distinct(outPipe[w])
      BY <2>1 DEF PlacedBy
    <2>3. place[x] = p /\ q \in Places /\ p # q
      <3>1. "outPipe" \in WorkerPlaces
        BY DEF WorkerPlaces
      <3> QED BY <1>3, <2>2, <3>1, PlaceFacts DEF Holding
    <2>4. PICK new \in [Records -> Places] :
             /\ Holding(new, q) = Holding(place, q) \cup {x}
             /\ Holding(new, p) = Holding(place, p) \ {x}
             /\ \A o : o # q /\ o # p => Holding(new, o) = Holding(place, o)
             /\ x \notin Holding(place, q)
             /\ \A y \in Records : new[y] = IF y = x THEN q ELSE place[y]
      <3>1. x \in Records /\ place[x] = p /\ p # q /\ q \in Places
        BY <1>3, <2>3
      <3> HIDE DEF x, p, q, PoolInv, ChildWrites
      <3> QED BY <3>1, RecordMoves
    <2>5. \A y \in Records : new[y] = Unread <=> y > records'
      BY <2>1, <2>3, <2>4 DEF PlacedBy, Unread
    <2>6. ASSUME NEW v \in Workers
          PROVE  /\ Holding(new, <<"held", v>>) = Elems(held'[v]) /\ Distinct(held'[v])
                 /\ Holding(new, <<"outPipe", v>>) = Elems(outPipe'[v]) /\ Distinct(outPipe'[v])
      <3>1. CASE v = w
        <4>1. /\ Holding(new, p) = Elems(held'[w]) /\ Distinct(held'[w])
              /\ Holding(new, q) = Elems(outPipe'[w]) /\ Distinct(outPipe'[w])
          BY <1>3, <1>4, <2>2, <2>4
        <4> QED BY <3>1, <4>1
      <3>2. CASE v # w
        <4>1. <<"held", v>> \notin {p, q} /\ <<"outPipe", v>> \notin {p, q}
          BY <3>2
        <4>2. /\ Holding(new, <<"held", v>>) = Holding(place, <<"held", v>>)
              /\ Holding(new, <<"outPipe", v>>) = Holding(place, <<"outPipe", v>>)
          BY <2>4, <4>1
        <4> QED BY <1>2, <2>1, <3>2, <4>2 DEF PlacedBy
      <3> QED BY <3>1, <3>2
    <2>7. PlacedBy(new)'
      BY <2>1, <2>4, <2>5, <2>6 DEF PlacedBy, Queued, Written, Lost
    <2> QED BY <2>4, <2>7 DEF Placed
  <1> QED BY <1>5, <1>6, <1>7, <1>8

\* A child exits at the end of its input.
LEMMA StepChildExits ==
  ASSUME PoolInv, NEW w \in Workers, ChildExits(w), outcome = "running"
  PROVE  PoolInv'
  <1> USE PoolAssumption DEF PoolInv, ChildExits, mainVars, readVars
  <1>1. child'[w] = "success" /\ \A v \in Workers : v # w => child'[v] = child[v]
    BY DEF TypeOK
  <1>2. TypeOK'
    BY DEF TypeOK
  <1>3. RecordsWhole' /\ ExitMeansComplete' /\ OutAt' /\ PoisonTail'
    BY DEF RecordsWhole, ExitMeansComplete, OutAt, PoisonTail
  <1>4. Phases'
    BY <1>1 DEF Phases
  <1>5. WorkerAt'
    BY <1>1 DEF WorkerAt, Ended
  <1>6. Placed'
    BY <1>1, PlacedKept
  <1> QED BY <1>2, <1>3, <1>4, <1>5, <1>6

\* The records that went down with a child are lost.
LEMMA StepChildFails ==
  ASSUME PoolInv, NEW w \in Workers, ChildFails(w), outcome = "running"
  PROVE  PoolInv'
  <1> USE PoolAssumption DEF PoolInv, mainVars, readVars
  <1>1. /\ child'[w] \in {"failure", "killed"} /\ child[w] = "running"
        /\ inPipe'[w] = <<>> /\ held'[w] = <<>>
        /\ \A v \in Workers : v # w => /\ child'[v] = child[v]
                                       /\ inPipe'[v] = inPipe[v]
                                       /\ held'[v] = held[v]
        /\ child' \in [Workers -> {"none", "running", "success", "failure", "killed"}]
        /\ UNCHANGED <<mainVars, readVars, queue, input, inOpen, outPipe, output, opc, outMutex, out,
                       reaped, outcome>>
    BY DEF TypeOK, ChildFails
  <1>2. TypeOK'
    <2>1. <<>> \in Seq(Records)
      OBVIOUS
    <2>2. inPipe' \in [Workers -> Seq(Records)] /\ held' \in [Workers -> Seq(Records)]
      BY <2>1 DEF TypeOK, ChildFails
    <2> QED BY <1>1, <2>2 DEF TypeOK
  <1>3. RecordsWhole' /\ ExitMeansComplete' /\ OutAt' /\ PoisonTail'
    BY <1>1 DEF RecordsWhole, ExitMeansComplete, OutAt, PoisonTail
  <1>4. Phases'
    BY <1>1 DEF Phases
  <1>5. WorkerAt'
    BY <1>1 DEF WorkerAt, Ended
  <1>6. Placed'
    <2>1. PICK place \in [Records -> Places] : PlacedBy(place)
      BY DEF Placed
    <2> DEFINE gone == {<<"inPipe", w>>, <<"held", w>>}
               new == [x \in Records |-> IF place[x] \in gone THEN Lost ELSE place[x]]
    <2>2. new \in [Records -> Places]
      BY PlaceFacts
    <2>3. /\ \A o : o \notin gone /\ o # Lost => Holding(new, o) = Holding(place, o)
          /\ \A o \in gone : o # Lost => Holding(new, o) = {}
      BY DEF Holding
    <2>4. \A y \in Records : new[y] = Unread <=> y > records
      BY <2>1 DEF PlacedBy, Unread, Lost
    <2> HIDE DEF new
    <2>5. ASSUME NEW v \in Workers
          PROVE  /\ Holding(new, <<"inPipe", v>>) = Elems(inPipe'[v]) /\ Distinct(inPipe'[v])
                 /\ Holding(new, <<"held", v>>) = Elems(held'[v]) /\ Distinct(held'[v])
      <3>1. CASE v = w
        <4>1. Holding(new, <<"inPipe", w>>) = {} /\ Holding(new, <<"held", w>>) = {}
          BY <2>3 DEF Lost
        <4> QED BY <1>1, <3>1, <4>1, EmptyElems
      <3>2. CASE v # w
        <4>1. <<"inPipe", v>> \notin gone \cup {Lost} /\ <<"held", v>> \notin gone \cup {Lost}
          BY <3>2 DEF Lost
        <4>2. /\ Holding(new, <<"inPipe", v>>) = Holding(place, <<"inPipe", v>>)
              /\ Holding(new, <<"held", v>>) = Holding(place, <<"held", v>>)
          BY <2>3, <4>1
        <4> QED BY <1>1, <2>1, <3>2, <4>2 DEF PlacedBy
      <3> QED BY <3>1, <3>2
    <2>6. /\ \A v \in Workers : /\ Holding(new, <<"input", v>>) = Holding(place, <<"input", v>>)
                                /\ Holding(new, <<"outPipe", v>>) = Holding(place, <<"outPipe", v>>)
                                /\ Holding(new, <<"output", v>>) = Holding(place, <<"output", v>>)
          /\ \A r \in Readers : Holding(new, <<"hand", r>>) = Holding(place, <<"hand", r>>)
          /\ Holding(new, Queued) = Holding(place, Queued)
          /\ Holding(new, Written) = Holding(place, Written)
      BY <2>3 DEF Lost, Queued, Written
    <2>7. PICK f \in [Records -> Places] : f = new
      BY <2>2
    <2>8. PlacedBy(f)'
      BY <1>1, <2>1, <2>2, <2>4, <2>5, <2>6, <2>7 DEF PlacedBy
    <2> QED BY <2>7, <2>8 DEF Placed
  <1> QED BY <1>2, <1>3, <1>4, <1>5, <1>6

-----------------------------------------------------------------------------
(* The output threads *)

\* The output thread of worker w reads an answer of its child.
LEMMA StepReadAnswer ==
  ASSUME PoolInv, NEW w \in Workers, ReadAnswer(w), outcome = "running"
  PROVE  PoolInv'
  <1> USE PoolAssumption DEF PoolInv, ReadAnswer, mainVars, readVars
  <1> DEFINE x == Head(outPipe[w])
             p == <<"outPipe", w>>
             q == <<"output", w>>
  <1>1. outPipe[w] \in Seq(Records) /\ outPipe[w] # <<>>
    BY DEF TypeOK
  <1>2. /\ outPipe'[w] = Tail(outPipe[w]) /\ output'[w] = x /\ opc'[w] = "lock" /\ opc[w] = "read"
        /\ \A v \in Workers : v # w => /\ outPipe'[v] = outPipe[v]
                                       /\ output'[v] = output[v]
                                       /\ opc'[v] = opc[v]
    BY DEF TypeOK
  <1>3. /\ x \in Records /\ outPipe'[w] \in Seq(Records) /\ x \in Elems(outPipe[w])
        /\ Distinct(outPipe[w]) =>
              Distinct(outPipe'[w]) /\ Elems(outPipe'[w]) = Elems(outPipe[w]) \ {x}
    <2>1. x \in Records /\ Tail(outPipe[w]) \in Seq(Records) /\ outPipe[w] \in Seq(Records \cup {Poison})
      BY <1>1, OnlyRecords
    <2>2. x # Poison
      BY <2>1, Marks
    <2> QED BY <1>1, <1>2, <2>1, <2>2, TailElems
  <1>4. TypeOK'
    BY <1>3 DEF TypeOK
  <1>5. RecordsWhole' /\ ExitMeansComplete' /\ Phases' /\ PoisonTail'
    BY DEF RecordsWhole, ExitMeansComplete, Phases, PoisonTail
  <1>6. WorkerAt'
    BY <1>2, <1>3, Marks DEF WorkerAt
  <1>7. OutAt'
    <2>1. w \notin outMutex
      BY <1>2 DEF OutAt
    <2> QED BY <1>2, <2>1 DEF OutAt, TypeOK
  <1>8. Placed'
    <2>1. PICK place \in [Records -> Places] : PlacedBy(place)
      BY DEF Placed
    <2>2. /\ Holding(place, p) = Elems(outPipe[w]) /\ Distinct(outPipe[w])
          /\ Holding(place, q) = {}
      BY <1>2, <2>1 DEF PlacedBy
    <2>3. place[x] = p /\ q \in Places /\ p # q
      <3>1. "output" \in WorkerPlaces
        BY DEF WorkerPlaces
      <3> QED BY <1>3, <2>2, <3>1, PlaceFacts DEF Holding
    <2>4. PICK new \in [Records -> Places] :
             /\ Holding(new, q) = Holding(place, q) \cup {x}
             /\ Holding(new, p) = Holding(place, p) \ {x}
             /\ \A o : o # q /\ o # p => Holding(new, o) = Holding(place, o)
             /\ x \notin Holding(place, q)
             /\ \A y \in Records : new[y] = IF y = x THEN q ELSE place[y]
      <3>1. x \in Records /\ place[x] = p /\ p # q /\ q \in Places
        BY <1>3, <2>3
      <3> HIDE DEF x, p, q, PoolInv, ReadAnswer
      <3> QED BY <3>1, RecordMoves
    <2>5. \A y \in Records : new[y] = Unread <=> y > records'
      BY <2>1, <2>3, <2>4 DEF PlacedBy, Unread
    <2>6. ASSUME NEW v \in Workers
          PROVE  /\ Holding(new, <<"outPipe", v>>) = Elems(outPipe'[v]) /\ Distinct(outPipe'[v])
                 /\ Holding(new, <<"output", v>>) = IF opc'[v] = "lock" THEN {output'[v]} ELSE {}
      <3>1. CASE v = w
        <4>1. /\ Holding(new, p) = Elems(outPipe'[w]) /\ Distinct(outPipe'[w])
              /\ Holding(new, q) = {x}
          BY <1>3, <2>2, <2>4
        <4> QED BY <1>2, <3>1, <4>1
      <3>2. CASE v # w
        <4>1. <<"outPipe", v>> \notin {p, q} /\ <<"output", v>> \notin {p, q}
          BY <3>2
        <4>2. /\ Holding(new, <<"outPipe", v>>) = Holding(place, <<"outPipe", v>>)
              /\ Holding(new, <<"output", v>>) = Holding(place, <<"output", v>>)
          BY <2>4, <4>1
        <4> QED BY <1>2, <2>1, <3>2, <4>2 DEF PlacedBy
      <3> QED BY <3>1, <3>2
    <2>7. PlacedBy(new)'
      BY <2>1, <2>4, <2>5, <2>6 DEF PlacedBy, Queued, Written, Lost
    <2> QED BY <2>4, <2>7 DEF Placed
  <1> QED BY <1>4, <1>5, <1>6, <1>7, <1>8

\* The output grows by a record that is at its end, whole records before it.
LEMMA OutAppended ==
  ASSUME out \in Seq(Records), NEW x \in Records, out' = Append(out, x)
  PROVE  /\ out' \in Seq(Records) /\ Len(out) \in Nat /\ Len(out') = Len(out) + 1
         /\ \A i \in 1..Len(out) : out'[i] = out[i]
         /\ out'[Len(out) + 1] = x
         /\ Elems(out') = Elems(out) \cup {x}
         /\ \A i \in 1..Len(out') : i \in 1..Len(out) \/ i = Len(out) + 1
  <1>1. out \in Seq(Records \cup {Poison}) /\ Append(out, x) \in Seq(Records) /\ x \in Records \cup {Poison}
    BY OnlyRecords
  <1>2. /\ Len(Append(out, x)) = Len(out) + 1
        /\ \A i \in 1..Len(out) : Append(out, x)[i] = out[i]
        /\ Append(out, x)[Len(out) + 1] = x
        /\ Elems(Append(out, x)) = Elems(out) \cup {x}
    BY <1>1, AppendElems
  <1>3. \A i \in 1..(Len(out) + 1) : i \in 1..Len(out) \/ i = Len(out) + 1
    OBVIOUS
  <1> QED BY <1>1, <1>2, <1>3

\* Even and odd lengths.
LEMMA Parity ==
  ASSUME NEW n \in Nat
  PROVE  /\ n % 2 = 0 => (n + 1) % 2 = 1
         /\ n % 2 = 1 => (n + 1) % 2 = 0 /\ (n - 1) \div 2 = n \div 2
         /\ 1 % 2 = 1
  BY Z3

\* The first half of a record: nobody else is in the middle of one.
LEMMA StepLockOutput ==
  ASSUME PoolInv, NEW w \in Workers, LockOutput(w), outcome = "running"
  PROVE  PoolInv'
  <1> USE PoolAssumption DEF PoolInv, LockOutput, mainVars, readVars
  <1> DEFINE x == output[w]
             p == <<"output", w>>
  <1>1. x \in Records /\ out' = Append(out, x) /\ out \in Seq(Records)
    BY DEF TypeOK, WorkerAt
  <1>2. opc'[w] = "half" /\ opc[w] = "lock" /\ \A v \in Workers : v # w => opc'[v] = opc[v]
    BY DEF TypeOK
  <1>3. /\ out' \in Seq(Records) /\ Len(out) \in Nat /\ Len(out') = Len(out) + 1
        /\ \A i \in 1..Len(out) : out'[i] = out[i]
        /\ out'[Len(out) + 1] = x
        /\ Elems(out') = Elems(out) \cup {x}
        /\ \A i \in 1..Len(out') : i \in 1..Len(out) \/ i = Len(out) + 1
    BY <1>1, OutAppended
  <1>4. Len(out) % 2 = 0
    BY DEF OutAt
  <1>5. PICK place \in [Records -> Places] : PlacedBy(place)
    BY DEF Placed
  <1>6. Holding(place, p) = {x} /\ Holding(place, Written) = Elems(out)
    BY <1>2, <1>5 DEF PlacedBy
  <1>7. place[x] = p /\ Written \in Places /\ p # Written
    BY <1>1, <1>6, PlaceFacts DEF Holding, Written
  <1>8. x \notin Elems(out)
    BY <1>6, <1>7 DEF Holding
  <1>9. TypeOK'
    BY <1>3 DEF TypeOK
  <1>10. ExitMeansComplete' /\ Phases' /\ PoisonTail'
    BY DEF ExitMeansComplete, Phases, PoisonTail
  <1>11. WorkerAt'
    BY <1>2 DEF WorkerAt
  <1>12. OutAt'
    <2>1. (Len(out) + 1) % 2 = 1
      BY <1>3, <1>4, Parity
    <2>2. outMutex = {} /\ outMutex' = {w}
      OBVIOUS
    <2>3. \A v \in Workers : v \in outMutex' <=> opc'[v] = "half"
      BY <1>2, <2>2 DEF OutAt
    <2>4. Len(out') > 0 /\ out'[Len(out')] = output'[w]
      BY <1>3
    <2> QED BY <1>3, <2>1, <2>2, <2>3, <2>4 DEF OutAt
  <1>13. RecordsWhole'
    <2>1. \A i \in 1..Len(out') : i % 2 = 0 => out'[i] = out'[i - 1]
      <3> SUFFICES ASSUME NEW i \in 1..Len(out'), i % 2 = 0 PROVE out'[i] = out'[i - 1]
        OBVIOUS
      <3>1. i # Len(out) + 1 /\ i # 1
        BY <1>3, <1>4, Parity
      <3>2. i \in 1..Len(out) /\ i - 1 \in 1..Len(out)
        BY <1>3, <3>1
      <3> QED BY <1>3, <3>2 DEF RecordsWhole
    <2>2. \A i, j \in 1..Len(out') : out'[i] = out'[j] => (i - 1) \div 2 = (j - 1) \div 2
      <3> SUFFICES ASSUME NEW i \in 1..Len(out'), NEW j \in 1..Len(out'), out'[i] = out'[j]
                   PROVE  (i - 1) \div 2 = (j - 1) \div 2
        OBVIOUS
      <3>1. \A k \in 1..Len(out) : out'[k] # x
        BY <1>1, <1>3, <1>8 DEF Elems
      <3>2. CASE i \in 1..Len(out) /\ j \in 1..Len(out)
        BY <1>3, <3>2 DEF RecordsWhole
      <3>3. CASE i \notin 1..Len(out) \/ j \notin 1..Len(out)
        <4>1. i = j
          BY <1>3, <3>1, <3>3
        <4> QED BY <4>1
      <3> QED BY <3>2, <3>3
    <2> QED BY <2>1, <2>2 DEF RecordsWhole
  <1>14. Placed'
    <2>1. PICK new \in [Records -> Places] :
             /\ Holding(new, Written) = Holding(place, Written) \cup {x}
             /\ Holding(new, p) = Holding(place, p) \ {x}
             /\ \A o : o # Written /\ o # p => Holding(new, o) = Holding(place, o)
             /\ x \notin Holding(place, Written)
             /\ \A y \in Records : new[y] = IF y = x THEN Written ELSE place[y]
      <3>1. x \in Records /\ place[x] = p /\ p # Written /\ Written \in Places
        BY <1>1, <1>7
      <3> HIDE DEF x, p, PoolInv, LockOutput
      <3> QED BY <3>1, RecordMoves
    <2>2. \A y \in Records : new[y] = Unread <=> y > records'
      <3>1. p # Unread /\ Written # Unread /\ \A y \in Records : place[y] = Unread <=> y > records
        BY <1>5 DEF PlacedBy, Unread, Written
      <3> QED BY <1>7, <2>1, <3>1
    <2>3. ASSUME NEW v \in Workers
          PROVE  Holding(new, <<"output", v>>) = IF opc'[v] = "lock" THEN {output'[v]} ELSE {}
      <3>1. CASE v = w
        BY <1>2, <1>6, <2>1, <3>1
      <3>2. CASE v # w
        <4>1. <<"output", v>> \notin {p, Written}
          BY <3>2 DEF Written
        <4>2. Holding(new, <<"output", v>>) = Holding(place, <<"output", v>>)
          BY <2>1, <4>1
        <4> QED BY <1>2, <1>5, <3>2, <4>2 DEF PlacedBy
      <3> QED BY <3>1, <3>2
    <2>4. PlacedBy(new)'
      BY <1>3, <1>5, <1>6, <2>1, <2>2, <2>3 DEF PlacedBy, Queued, Written, Lost
    <2> QED BY <2>1, <2>4 DEF Placed
  <1> QED BY <1>9, <1>10, <1>11, <1>12, <1>13, <1>14

\* The second half follows the first.
LEMMA StepFinishRecord ==
  ASSUME PoolInv, NEW w \in Workers, FinishRecord(w), outcome = "running"
  PROVE  PoolInv'
  <1> USE PoolAssumption DEF PoolInv, FinishRecord, mainVars, readVars
  <1> DEFINE x == output[w]
  <1>1. x \in Records /\ out' = Append(out, x) /\ out \in Seq(Records)
    BY DEF TypeOK, WorkerAt
  <1>2. /\ opc'[w] = "read" /\ opc[w] = "half" /\ output'[w] = None
        /\ \A v \in Workers : v # w => opc'[v] = opc[v] /\ output'[v] = output[v]
    BY DEF TypeOK
  <1>3. /\ out' \in Seq(Records) /\ Len(out) \in Nat /\ Len(out') = Len(out) + 1
        /\ \A i \in 1..Len(out) : out'[i] = out[i]
        /\ out'[Len(out) + 1] = x
        /\ Elems(out') = Elems(out) \cup {x}
        /\ \A i \in 1..Len(out') : i \in 1..Len(out) \/ i = Len(out) + 1
    BY <1>1, OutAppended
  <1>4. /\ w \in outMutex /\ outMutex' = {} /\ Len(out) % 2 = 1
        /\ Len(out) > 0 /\ out[Len(out)] = x
    BY <1>2 DEF OutAt, TypeOK
  <1>5. Len(out) \in 1..Len(out) /\ Elems(out') = Elems(out)
    BY <1>1, <1>3, <1>4 DEF Elems
  <1>6. TypeOK'
    BY <1>3, <1>4 DEF TypeOK
  <1>7. ExitMeansComplete' /\ Phases' /\ PoisonTail'
    BY DEF ExitMeansComplete, Phases, PoisonTail
  <1>8. WorkerAt'
    BY <1>2 DEF WorkerAt
  <1>9. OutAt'
    <2>1. (Len(out) + 1) % 2 = 0
      BY <1>3, <1>4, Parity
    <2>2. \A v \in Workers : opc'[v] # "half"
      BY <1>2, <1>4 DEF OutAt
    <2> QED BY <1>3, <1>4, <2>1, <2>2 DEF OutAt
  <1>10. RecordsWhole'
    <2>1. \A i \in 1..Len(out') : i % 2 = 0 => out'[i] = out'[i - 1]
      <3> SUFFICES ASSUME NEW i \in 1..Len(out'), i % 2 = 0 PROVE out'[i] = out'[i - 1]
        OBVIOUS
      <3>1. CASE i = Len(out) + 1
        <4>1. i - 1 = Len(out)
          BY <1>3, <3>1
        <4> QED BY <1>3, <1>4, <1>5, <3>1, <4>1
      <3>2. CASE i \in 1..Len(out)
        <4>1. i # 1
          OBVIOUS
        <4>2. i - 1 \in 1..Len(out)
          BY <1>3, <3>2, <4>1
        <4> QED BY <1>3, <3>2, <4>2 DEF RecordsWhole
      <3> QED BY <1>3, <3>1, <3>2
    <2>2. \A i, j \in 1..Len(out') : out'[i] = out'[j] => (i - 1) \div 2 = (j - 1) \div 2
      <3> DEFINE n == Len(out)
      <3>1. \A k \in 1..n : out[k] = x => (k - 1) \div 2 = (n - 1) \div 2
        BY <1>4, <1>5 DEF RecordsWhole
      <3>2. (n - 1) \div 2 = n \div 2 /\ (n + 1) - 1 = n
        BY <1>3, <1>4, Parity
      <3>3. \A k \in 1..n : out'[k] = x => (k - 1) \div 2 = ((n + 1) - 1) \div 2
        BY <1>3, <3>1, <3>2
      <3>4. \A i, j \in 1..n : out'[i] = out'[j] => (i - 1) \div 2 = (j - 1) \div 2
        BY <1>3 DEF RecordsWhole
      <3> QED BY <1>3, <3>3, <3>4
    <2> QED BY <2>1, <2>2 DEF RecordsWhole
  <1>11. Placed'
    BY <1>2, <1>5, PlacedKept
  <1> QED BY <1>6, <1>7, <1>8, <1>9, <1>10, <1>11

\* The output thread of worker w ends.
LEMMA StepOutputEnds ==
  ASSUME PoolInv, NEW w \in Workers, OutputEnds(w), outcome = "running"
  PROVE  PoolInv'
  <1> USE PoolAssumption DEF PoolInv, OutputEnds, mainVars, readVars
  <1>1. opc'[w] = "done" /\ opc[w] = "read" /\ \A v \in Workers : v # w => opc'[v] = opc[v]
    BY DEF TypeOK
  <1>2. TypeOK'
    BY DEF TypeOK
  <1>3. RecordsWhole' /\ ExitMeansComplete' /\ Phases' /\ PoisonTail'
    BY DEF RecordsWhole, ExitMeansComplete, Phases, PoisonTail
  <1>4. WorkerAt'
    BY <1>1 DEF WorkerAt, Ended
  <1>5. OutAt'
    BY <1>1 DEF OutAt, TypeOK
  <1>6. Placed'
    BY <1>1, PlacedKept
  <1> QED BY <1>2, <1>3, <1>4, <1>5, <1>6

-----------------------------------------------------------------------------
(* The end *)

\* The reaper collects a child that succeeded.
LEMMA StepReaped ==
  ASSUME PoolInv, NEW w \in Workers, child[w] = "success", mpc # "launch", reaped' = reaped \cup {w},
         UNCHANGED <<mainVars, readVars, queue, workVars, outcome>>
  PROVE  PoolInv'
  <1> USE DEF PoolInv, mainVars, readVars, workVars
  <1>1. TypeOK'
    BY DEF TypeOK
  <1>2. RecordsWhole' /\ ExitMeansComplete' /\ OutAt' /\ Phases' /\ PoisonTail'
    BY DEF RecordsWhole, ExitMeansComplete, OutAt, Phases, PoisonTail
  <1>3. WorkerAt'
    BY DEF WorkerAt
  <1>4. Placed'
    BY PlacedKept
  <1> QED BY <1>1, <1>2, <1>3, <1>4

\* The process ends, or nothing happens: the pool stays as it is.
LEMMA StepEnds ==
  ASSUME PoolInv, UNCHANGED <<mainVars, readVars, queue, workVars, reaped>>,
         outcome' \in {"running", "exit", "aborted", "sigpipe"}, ExitMeansComplete'
  PROVE  PoolInv'
  <1> USE DEF PoolInv, mainVars, readVars, workVars
  <1>1. TypeOK'
    BY DEF TypeOK
  <1>2. RecordsWhole' /\ OutAt' /\ Phases' /\ PoisonTail' /\ WorkerAt'
    BY DEF RecordsWhole, OutAt, Phases, PoisonTail, WorkerAt
  <1>3. Placed'
    BY PlacedKept
  <1> QED BY <1>1, <1>2, <1>3

\* When main has joined everything, every record that was read is written: it
\* can be neither with a reader nor in the queue nor with a worker, and no
\* child took it down.
LEMMA AllWritten ==
  ASSUME PoolInv, JoinPool
  PROVE  Range(out) = 1..records
  <1>1. /\ TypeOK /\ Phases /\ PoisonTail /\ WorkerAt
        /\ mpc = "join" /\ inOpen = {} /\ reaped = Workers
        /\ \A w \in Workers : opc[w] = "done"
    BY DEF PoolInv, JoinPool
  <1>2. PICK place \in [Records -> Places] : PlacedBy(place)
    BY DEF PoolInv, Placed
  <1>3. \A r \in Readers : Holding(place, <<"hand", r>>) = {}
    <2>1. \A r \in Readers : hand[r] = None
      BY <1>1 DEF Phases
    <2> QED BY <1>2, <2>1 DEF PlacedBy
  <1>4. Holding(place, Queued) = {}
    <2>1. Workers # {}
      BY PoolAssumption DEF Workers
    <2>2. \A i \in 1..Len(queue) : queue[i] = Poison
      BY <1>1, <2>1 DEF PoisonTail
    <2>3. Elems(queue) = {}
      BY <2>2, Marks DEF Elems
    <2> QED BY <1>2, <2>3 DEF PlacedBy
  <1>5. ASSUME NEW w \in Workers, NEW p \in WorkerPlaces
        PROVE  Holding(place, <<p, w>>) = {}
    <2>1. input[w] = None /\ inPipe[w] = <<>> /\ held[w] = <<>> /\ outPipe[w] = <<>> /\ opc[w] = "done"
      BY <1>1 DEF WorkerAt
    <2>2. /\ Holding(place, <<"input", w>>) = {} /\ Holding(place, <<"inPipe", w>>) = {}
          /\ Holding(place, <<"held", w>>) = {} /\ Holding(place, <<"outPipe", w>>) = {}
          /\ Holding(place, <<"output", w>>) = {}
      BY <1>2, <2>1, EmptyElems DEF PlacedBy
    <2> QED BY <2>2 DEF WorkerPlaces
  <1>6. Holding(place, Lost) = {}
    BY <1>1, <1>2 DEF PlacedBy, WorkerAt
  <1>7. ASSUME NEW x \in Records
        PROVE  x \in Elems(out) <=> x <= records
    <2>1. place[x] = Unread \/ place[x] = Written
      <3>1. x \in Holding(place, place[x]) /\ place[x] \in Places
        BY <1>2 DEF Holding
      <3>2. place[x] # Queued /\ place[x] # Lost
        BY <1>4, <1>6, <3>1
      <3>3. place[x] \notin {"hand"} \X Readers
        BY <1>3, <3>1
      <3>4. place[x] \notin WorkerPlaces \X Workers
        BY <1>5, <3>1
      <3> QED BY <3>1, <3>2, <3>3, <3>4 DEF Places
    <2>2. x \in Elems(out) <=> place[x] = Written
      BY <1>2 DEF PlacedBy, Holding
    <2>3. place[x] = Unread <=> x > records
      BY <1>2 DEF PlacedBy
    <2>4. Unread # Written /\ x \in Nat /\ records \in Nat
      BY <1>1, Marks DEF Unread, Written, TypeOK
    <2> QED BY <2>1, <2>2, <2>3, <2>4
  <1>8. Elems(out) = Range(out)
    <2>1. out \in Seq(Records) /\ DOMAIN out = 1..Len(out)
      BY <1>1 DEF TypeOK
    <2>2. \A i \in 1..Len(out) : out[i] \in Records
      BY <2>1, ElementOfSeq
    <2> QED BY <2>1, <2>2 DEF Elems, Range
  <1>9. Elems(out) = 1..records
    <2>1. Elems(out) \subseteq Records
      BY DEF Elems
    <2>2. records \in 0..MaxRecords
      BY <1>1 DEF TypeOK
    <2>3. ASSUME NEW x \in Elems(out) PROVE x \in 1..records
      <3>1. x \in Records /\ x <= records
        BY <1>7, <2>1
      <3> QED BY <2>2, <3>1 DEF Records
    <2>4. ASSUME NEW x \in 1..records PROVE x \in Elems(out)
      <3>1. x \in Records /\ x <= records
        BY <2>2, PoolAssumption DEF Records
      <3> QED BY <1>7, <3>1
    <2> QED BY <2>3, <2>4
  <1> QED BY <1>8, <1>9

\* Every step of every thread and child preserves the invariant.
LEMMA PoolNext == PoolInv /\ [Next]_vars => PoolInv'
  <1> SUFFICES ASSUME PoolInv, [Next]_vars PROVE PoolInv'
    OBVIOUS
  <1> USE DEF Die
  <1>1. CASE UNCHANGED vars
    <2>1. UNCHANGED <<mainVars, readVars, queue, workVars, reaped>> /\ outcome' = outcome
          /\ UNCHANGED <<out, records>>
      BY <1>1 DEF vars, mainVars, readVars, workVars
    <2>2. outcome \in {"running", "exit", "aborted", "sigpipe"} /\ ExitMeansComplete'
      BY <2>1 DEF PoolInv, TypeOK, ExitMeansComplete
    <2> QED BY <2>1, <2>2, StepEnds
  <1>2. ASSUME NEW how \in {"aborted", "sigpipe"}, Die(how) PROVE PoolInv'
    <2>1. ExitMeansComplete'
      BY <1>2 DEF ExitMeansComplete
    <2> QED BY <1>2, <2>1, StepEnds
  <1>3. CASE outcome = "running" /\ Main
    <2>1. CASE JoinPool
      <3>1. ExitMeansComplete'
        BY <2>1, AllWritten DEF ExitMeansComplete, JoinPool, readVars, workVars
      <3> QED BY <2>1, <3>1, StepEnds DEF JoinPool
    <2>2. CASE LaunchFails
      BY <1>2, <2>2 DEF LaunchFails
    <2> QED BY <1>3, <2>1, <2>2, StepLaunch, StepReadersJoined, StepPoisonQueue DEF Main
  <1>4. CASE outcome = "running" /\ \E r \in Readers : Reader(r)
    <2>1. PICK r \in Readers : Reader(r)
      BY <1>4
    <2>2. CASE RecordFails(r)
      BY <1>2, <2>2 DEF RecordFails
    <2> QED BY <1>4, <2>1, <2>2, StepReadRecord, StepProduceRecord, StepReaderEnds DEF Reader
  <1>5. ASSUME outcome = "running", NEW w \in Workers, Input(w) \/ Child(w) \/ Output(w) \/ ReapChild(w)
        PROVE  PoolInv'
    <2>1. CASE Input(w)
      <3>1. CASE WriteBroken(w)
        BY <1>2, <3>1 DEF WriteBroken
      <3> QED BY <1>5, <2>1, <3>1, StepConsumeRecord, StepWriteRecord DEF Input
    <2>2. CASE Child(w)
      BY <1>5, <2>2, StepChildReads, StepChildWrites, StepChildExits, StepChildFails DEF Child
    <2>3. CASE Output(w)
      <3>1. CASE AnswerFails(w)
        BY <1>2, <3>1 DEF AnswerFails
      <3> QED BY <1>5, <2>3, <3>1, StepReadAnswer, StepLockOutput, StepFinishRecord, StepOutputEnds DEF Output
    <2>4. CASE ReapChild(w)
      BY <1>2, <2>4, StepReaped DEF ReapChild
    <2> QED BY <1>5, <2>1, <2>2, <2>3, <2>4
  <1> QED BY <1>1, <1>3, <1>4, <1>5 DEF Next

\* In the queue only poison follows poison, and only when all is read.
LEMMA PoolPoisonLast ==
  ASSUME PoolInv
  PROVE  PoisonIsLast
  <1>1. TypeOK /\ Phases /\ PoisonTail
    BY DEF PoolInv
  <1>2. queue \in Seq(Records \cup {Poison}) /\ DOMAIN queue = 1..Len(queue) /\ Len(queue) \in Nat
    BY <1>1 DEF TypeOK
  <1> SUFFICES ASSUME Poison \in Range(queue) \/ (mpc # "launch" /\ inOpen # Workers)
               PROVE  /\ reading = {}
                      /\ \A i \in 1..Len(queue) : queue[i] = Poison =>
                            \A j \in i..Len(queue) : queue[j] = Poison
                      /\ inOpen # Workers => Range(queue) \subseteq {Poison}
    BY DEF PoisonIsLast
  <1>3. mpc \in {"poison", "join"}
    <2>1. mpc # "launch"
      BY <1>1, <1>2 DEF Phases, Range
    <2>2. mpc # "readers"
      BY <1>1, <1>2 DEF Phases, Range
    <2> QED BY <1>1, <2>1, <2>2 DEF TypeOK
  <1>4. \A i \in 1..Len(queue) : queue[i] = Poison => \A j \in i..Len(queue) : queue[j] = Poison
    BY <1>1, <1>2 DEF PoisonTail
  <1>5. inOpen # Workers => Range(queue) \subseteq {Poison}
    BY <1>1, <1>2, <1>3 DEF PoisonTail, Range
  <1> QED BY <1>1, <1>3, <1>4, <1>5 DEF Phases

\* What Elems finds in a sequence is in its range.
LEMMA ElemsInRange ==
  ASSUME NEW S, NEW s \in Seq(S), NEW x \in Elems(s)
  PROVE  x \in Range(s)
  BY DEF Elems, Range

\* Each record that was read has its place, and it is not lost.
LEMMA PoolNothingLost ==
  ASSUME PoolInv
  PROVE  NothingLost
  <1> SUFFICES ASSUME \A w \in Workers : child[w] \notin {"failure", "killed"},
                      NEW x \in 1..records
               PROVE  OnItsWay(x)
    BY DEF NothingLost
  <1>1. PICK place \in [Records -> Places] : PlacedBy(place)
    BY DEF PoolInv, Placed
  <1>2. x \in Records /\ x <= records /\ x \in Int /\ records \in Int
    BY PoolAssumption DEF PoolInv, TypeOK, Records
  <1>3. place[x] # Unread /\ place[x] # Lost /\ place[x] \in Places /\ x \in Holding(place, place[x])
    BY <1>1, <1>2 DEF PlacedBy, Holding
  <1>4. CASE place[x] \in {Queued, Written}
    <2>1. x \in Elems(queue) \/ x \in Elems(out)
      BY <1>1, <1>3, <1>4 DEF PlacedBy
    <2>2. queue \in Seq(Records \cup {Poison}) /\ out \in Seq(Records)
      BY DEF PoolInv, TypeOK
    <2>3. x \in Range(queue) \/ x \in Range(out)
      BY ONLY <2>1, <2>2, ElemsInRange
    <2> QED BY <2>3 DEF OnItsWay
  <1>5. CASE place[x] \in {"hand"} \X Readers
    <2>1. PICK r \in Readers : place[x] = <<"hand", r>>
      BY <1>5
    <2> QED BY <1>1, <1>3, <2>1 DEF PlacedBy, OnItsWay
  <1>6. CASE place[x] \in WorkerPlaces \X Workers
    <2>1. PICK w \in Workers, p \in WorkerPlaces : place[x] = <<p, w>>
      BY <1>6
    <2>2. p \in {"input", "output"} => x = input[w] \/ x = output[w]
      <3>1. /\ Holding(place, <<"input", w>>) \subseteq {input[w]}
            /\ Holding(place, <<"output", w>>) \subseteq {output[w]}
        BY <1>1 DEF PlacedBy
      <3> QED BY <1>3, <2>1, <3>1
    <2>3. p \in {"inPipe", "held", "outPipe"} =>
             x \in Elems(inPipe[w]) \cup Elems(held[w]) \cup Elems(outPipe[w])
      BY <1>1, <1>3, <2>1 DEF PlacedBy
    <2>4. /\ inPipe[w] \in Seq(Records) /\ held[w] \in Seq(Records) /\ outPipe[w] \in Seq(Records)
      BY DEF PoolInv, TypeOK
    <2>5. p \in {"inPipe", "held", "outPipe"} =>
             x \in Range(inPipe[w]) \cup Range(held[w]) \cup Range(outPipe[w])
      BY ONLY <2>3, <2>4, ElemsInRange
    <2> QED BY ONLY <2>1, <2>2, <2>5, w \in Workers, p \in WorkerPlaces DEF WorkerPlaces, OnItsWay
  <1> QED BY <1>3, <1>4, <1>5, <1>6 DEF Places

\* The invariant gives the properties the run checks.
LEMMA PoolSafe == PoolInv => Safety
  BY PoolPoisonLast, PoolNothingLost DEF PoolInv, Safety

\* For every number of workers, readers and records and every size of pipe: the
\* output threads of warc_parallel write whole records and none twice, main
\* poisons the queue behind all records, a record is lost only when a child fails,
\* and when the process exits normally every record that was read has been written.
THEOREM PoolSafety == Spec => []Safety
  <1>1. Init => PoolInv
    BY PoolInit
  <1>2. PoolInv /\ [Next]_vars => PoolInv'
    BY PoolNext
  <1>3. PoolInv => Safety
    BY PoolSafe
  <1> QED BY <1>1, <1>2, <1>3, PTL DEF Spec
=============================================================================
