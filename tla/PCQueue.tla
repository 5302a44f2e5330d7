------------------------------ MODULE PCQueue ------------------------------
(***************************************************************************)
(* The bounded producer/consumer queue of util/pcqueue.hh, used by any     *)
(* number of threads.  Producers and consumers are kept apart by two       *)
(* counting semaphores only: empty_ counts the slots that may be filled,   *)
(* used_ the slots that may be emptied.  Each side has a mutex of its own, *)
(* so a producer and a consumer are inside the queue at the same time.     *)
(*                                                                         *)
(* The element type T is a template parameter.  Its assignment takes time  *)
(* (it begins, and ends in a later step) and may throw in the stages that  *)
(* ThrowingStages names.  The swapping calls do what std::swap does: a     *)
(* move to a temporary, and two assignments.                               *)
(***************************************************************************)
EXTENDS Integers, Sequences, FiniteSets

CONSTANTS
    Producers,        \* threads that call Produce or ProduceSwap
    Consumers,        \* threads that call Consume or ConsumeSwap
    Size,             \* the constructor's size
    Kinds,            \* the calls in use: "copy", "swap" or both
    ThrowingStages,   \* stages of a call in which T::operator= may throw
    MaxProduce,       \* bound: number of calls that producers make
    MaxThrows,        \* bound: number of exceptions thrown
    NoThread,         \* the holder of a mutex that is free
    Blank,            \* a default-constructed T
    Moved             \* a T that was moved from

Threads == Producers \cup Consumers
Items == 1..MaxProduce
Contents == Items \cup {Blank, Moved}
Slots == 0..(Size - 1)

ASSUME SizeAssumption == Size \in Nat \ {0}
ASSUME BoundsAssumption == MaxProduce \in Nat /\ MaxThrows \in Nat
ASSUME KindsAssumption == Kinds \subseteq {"copy", "swap"}
ASSUME StagesAssumption == ThrowingStages \subseteq {"assigning", "swapping"}
ASSUME ThreadsAssumption ==
    /\ IsFiniteSet(Producers) /\ IsFiniteSet(Consumers)
    /\ Producers \cap Consumers = {}
    /\ NoThread \notin Threads
ASSUME ContentsAssumption == Blank # Moved /\ {Blank, Moved} \cap Nat = {}

VARIABLES
    empty,            \* semaphore empty_
    used,             \* semaphore used_
    storage,          \* the slots of storage_
    produceAt,        \* index of produce_at_
    consumeAt,        \* index of consume_at_
    produceMutex,     \* holder of produce_at_mutex_
    consumeMutex,     \* holder of consume_at_mutex_
    pc,               \* where each thread is in its call
    kind,             \* which call each thread is making
    var,              \* the caller's val or out
    tmp,              \* the temporary of std::swap
    calls,            \* number of produce calls begun so far
    throws,           \* number of exceptions so far
    produced,         \* history: what was stored when produce_at_ advanced
    consumed          \* history: what was in out when consume_at_ advanced

queueVars == <<empty, used, storage, produceAt, consumeAt, produceMutex, consumeMutex>>
threadVars == <<pc, kind, var, tmp>>
ghostVars == <<calls, throws, produced, consumed>>
pcqueueVars == <<queueVars, threadVars, ghostVars>>

QueueInit ==
    /\ empty = Size
    /\ used = 0
    /\ storage = [s \in Slots |-> Blank]
    /\ produceAt = 0
    /\ consumeAt = 0
    /\ produceMutex = NoThread
    /\ consumeMutex = NoThread
    /\ pc = [t \in Threads |-> "calling"]
    /\ kind = [t \in Threads |-> "copy"]
    /\ var = [t \in Threads |-> Blank]
    /\ tmp = [t \in Threads |-> Blank]
    /\ calls = 0
    /\ throws = 0
    /\ produced = <<>>
    /\ consumed = <<>>

\* `if (++at == end_) at = storage_.get()`
Advance(at) == IF at + 1 = Size THEN 0 ELSE at + 1

Goto(t, label) == pc' = [pc EXCEPT ![t] = label]

-----------------------------------------------------------------------------
(* Produce and ProduceSwap *)

\* A call begins and gets past empty_.wait().
WaitEmpty(p, k) ==
    /\ pc[p] = "calling"
    /\ calls < MaxProduce
    /\ empty > 0
    /\ empty' = empty - 1
    /\ calls' = calls + 1
    /\ kind' = [kind EXCEPT ![p] = k]
    /\ var' = [var EXCEPT ![p] = calls + 1]
    /\ Goto(p, "locking")
    /\ UNCHANGED <<used, storage, produceAt, consumeAt, produceMutex, consumeMutex,
                   tmp, throws, produced, consumed>>

\* Slip: the critical section is entered without taking the mutex.
LockProduceUnlocked(p) ==
    /\ pc[p] = "locking"
    /\ produceMutex' = p
    /\ Goto(p, "assigning")
    /\ UNCHANGED <<empty, used, storage, produceAt, consumeAt, consumeMutex, kind, var, tmp, ghostVars>>

\* The lock is taken and the first assignment begins; a swap has then moved
\* the old content of the slot to its temporary.
LockProduce(p) ==
    /\ pc[p] = "locking"
    /\ produceMutex = NoThread
    /\ produceMutex' = p
    /\ \/ /\ kind[p] = "copy"
          /\ UNCHANGED <<storage, tmp>>
       \/ /\ kind[p] = "swap"
          /\ tmp' = [tmp EXCEPT ![p] = storage[produceAt]]
          /\ storage' = [storage EXCEPT ![produceAt] = Moved]
    /\ Goto(p, "assigning")
    /\ UNCHANGED <<empty, used, produceAt, consumeAt, consumeMutex, kind, var, ghostVars>>

\* `*produce_at_ = val` ends; in a swap val is moved from.
AssignSlot(p) ==
    /\ pc[p] = "assigning"
    /\ storage' = [storage EXCEPT ![produceAt] = var[p]]
    /\ \/ /\ kind[p] = "copy"
          /\ Goto(p, "advancing")
          /\ UNCHANGED var
       \/ /\ kind[p] = "swap"
          /\ Goto(p, "swapping")
          /\ var' = [var EXCEPT ![p] = Moved]
    /\ UNCHANGED <<empty, used, produceAt, consumeAt, produceMutex, consumeMutex,
                   kind, tmp, ghostVars>>

\* The second assignment of the swap gives the caller the slot's old content.
SwapToProducer(p) ==
    /\ pc[p] = "swapping"
    /\ var' = [var EXCEPT ![p] = tmp[p]]
    /\ Goto(p, "advancing")
    /\ UNCHANGED <<queueVars, kind, tmp, ghostVars>>

\* produce_at_ advances and the lock is released.
AdvanceProduce(p) ==
    /\ pc[p] = "advancing"
    /\ produceAt' = Advance(produceAt)
    /\ produceMutex' = NoThread
    /\ produced' = Append(produced, storage[produceAt])
    /\ Goto(p, "posting")
    /\ UNCHANGED <<empty, used, storage, consumeAt, consumeMutex, kind, var, tmp,
                   calls, throws, consumed>>

PostUsed(p) ==
    /\ pc[p] = "posting"
    /\ used' = used + 1
    /\ Goto(p, "calling")
    /\ UNCHANGED <<empty, storage, produceAt, consumeAt, produceMutex, consumeMutex,
                   kind, var, tmp, ghostVars>>

\* operator= throws: the handler posts empty_ while the lock is still held ...
ThrowProduce(p) ==
    /\ pc[p] \in ThrowingStages
    /\ throws < MaxThrows
    /\ throws' = throws + 1
    /\ empty' = empty + 1
    /\ Goto(p, "unwinding")
    /\ UNCHANGED <<used, storage, produceAt, consumeAt, produceMutex, consumeMutex,
                   kind, var, tmp, calls, produced, consumed>>

\* ... and the exception leaves the block, which releases it.
UnwindProduce(p) ==
    /\ pc[p] = "unwinding"
    /\ produceMutex' = NoThread
    /\ Goto(p, "calling")
    /\ UNCHANGED <<empty, used, storage, produceAt, consumeAt, consumeMutex,
                   kind, var, tmp, ghostVars>>

ProducerStep(p) ==
    \/ \E k \in Kinds : WaitEmpty(p, k)
    \/ LockProduce(p)
    \/ AssignSlot(p)
    \/ SwapToProducer(p)
    \/ AdvanceProduce(p)
    \/ PostUsed(p)
    \/ ThrowProduce(p)
    \/ UnwindProduce(p)

-----------------------------------------------------------------------------
(* Consume and ConsumeSwap *)

\* A call begins and gets past used_.wait().
WaitUsed(c, k) ==
    /\ pc[c] = "calling"
    /\ used > 0
    /\ used' = used - 1
    /\ kind' = [kind EXCEPT ![c] = k]
    /\ Goto(c, "locking")
    /\ UNCHANGED <<empty, storage, produceAt, consumeAt, produceMutex, consumeMutex,
                   var, tmp, ghostVars>>

\* The lock is taken and the first assignment begins; a swap has then moved
\* out to its temporary.
LockConsume(c) ==
    /\ pc[c] = "locking"
    /\ consumeMutex = NoThread
    /\ consumeMutex' = c
    /\ \/ /\ kind[c] = "copy"
          /\ UNCHANGED <<var, tmp>>
       \/ /\ kind[c] = "swap"
          /\ tmp' = [tmp EXCEPT ![c] = var[c]]
          /\ var' = [var EXCEPT ![c] = Moved]
    /\ Goto(c, "assigning")
    /\ UNCHANGED <<empty, used, storage, produceAt, consumeAt, produceMutex, kind, ghostVars>>

\* `out = *consume_at_` ends; in a swap the slot is moved from.
AssignOut(c) ==
    /\ pc[c] = "assigning"
    /\ var' = [var EXCEPT ![c] = storage[consumeAt]]
    /\ \/ /\ kind[c] = "copy"
          /\ Goto(c, "advancing")
          /\ UNCHANGED storage
       \/ /\ kind[c] = "swap"
          /\ Goto(c, "swapping")
          /\ storage' = [storage EXCEPT ![consumeAt] = Moved]
    /\ UNCHANGED <<empty, used, produceAt, consumeAt, produceMutex, consumeMutex,
                   kind, tmp, ghostVars>>

\* Slip: the swap goes on after consume_at_ has moved to the next slot.
SwapToNextSlot(c) ==
    /\ pc[c] = "swapping"
    /\ storage' = [storage EXCEPT ![Advance(consumeAt)] = tmp[c]]
    /\ Goto(c, "advancing")
    /\ UNCHANGED <<empty, used, produceAt, consumeAt, produceMutex, consumeMutex,
                   kind, var, tmp, ghostVars>>

\* The second assignment of the swap leaves the caller's old out in the slot.
SwapToSlot(c) ==
    /\ pc[c] = "swapping"
    /\ storage' = [storage EXCEPT ![consumeAt] = tmp[c]]
    /\ Goto(c, "advancing")
    /\ UNCHANGED <<empty, used, produceAt, consumeAt, produceMutex, consumeMutex,
                   kind, var, tmp, ghostVars>>

\* Slip: the lock is released and consume_at_ stays where it is.
AdvanceConsumeForgotten(c) ==
    /\ pc[c] = "advancing"
    /\ consumeMutex' = NoThread
    /\ consumed' = Append(consumed, var[c])
    /\ Goto(c, "posting")
    /\ UNCHANGED <<empty, used, storage, produceAt, consumeAt, produceMutex, kind, var, tmp,
                   calls, throws, produced>>

\* consume_at_ advances and the lock is released.
AdvanceConsume(c) ==
    /\ pc[c] = "advancing"
    /\ consumeAt' = Advance(consumeAt)
    /\ consumeMutex' = NoThread
    /\ consumed' = Append(consumed, var[c])
    /\ Goto(c, "posting")
    /\ UNCHANGED <<empty, used, storage, produceAt, produceMutex, kind, var, tmp,
                   calls, throws, produced>>

PostEmpty(c) ==
    /\ pc[c] = "posting"
    /\ empty' = empty + 1
    /\ Goto(c, "calling")
    /\ UNCHANGED <<used, storage, produceAt, consumeAt, produceMutex, consumeMutex,
                   kind, var, tmp, ghostVars>>

\* Slip: the handler does not give the reserved item back.
ThrowConsumeKeepsItem(c) ==
    /\ pc[c] \in ThrowingStages
    /\ throws < MaxThrows
    /\ throws' = throws + 1
    /\ Goto(c, "unwinding")
    /\ UNCHANGED <<queueVars, kind, var, tmp, calls, produced, consumed>>

\* operator= throws: the handler posts used_ while the lock is still held.
ThrowConsume(c) ==
    /\ pc[c] \in ThrowingStages
    /\ throws < MaxThrows
    /\ throws' = throws + 1
    /\ used' = used + 1
    /\ Goto(c, "unwinding")
    /\ UNCHANGED <<empty, storage, produceAt, consumeAt, produceMutex, consumeMutex,
                   kind, var, tmp, calls, produced, consumed>>

UnwindConsume(c) ==
    /\ pc[c] = "unwinding"
    /\ consumeMutex' = NoThread
    /\ Goto(c, "calling")
    /\ UNCHANGED <<empty, used, storage, produceAt, consumeAt, produceMutex,
                   kind, var, tmp, ghostVars>>

ConsumerStep(c) ==
    \/ \E k \in Kinds : WaitUsed(c, k)
    \/ LockConsume(c)
    \/ AssignOut(c)
    \/ SwapToSlot(c)
    \/ AdvanceConsume(c)
    \/ PostEmpty(c)
    \/ ThrowConsume(c)
    \/ UnwindConsume(c)

QueueNext ==
    \/ \E p \in Producers : ProducerStep(p)
    \/ \E c \in Consumers : ConsumerStep(c)

QueueSpec == QueueInit /\ [][QueueNext]_pcqueueVars

(* Every thread keeps running: a call under way goes on, a consumer calls    *)
(* again, a producer calls until it has made its calls.  No fairness is      *)
(* assumed between threads that wait on one semaphore or mutex.              *)
FairQueueSpec ==
    /\ QueueSpec
    /\ \A p \in Producers : WF_pcqueueVars(ProducerStep(p))
    /\ \A c \in Consumers : WF_pcqueueVars(ConsumerStep(c))

-----------------------------------------------------------------------------
(* Properties *)

Labels == {"calling", "locking", "assigning", "swapping", "advancing", "posting", "unwinding"}

\* Type invariant of the queue and of the threads that call it.
QueueTypeOK ==
    /\ empty \in Nat
    /\ used \in Nat
    /\ storage \in [Slots -> Contents]
    /\ produceAt \in Slots
    /\ consumeAt \in Slots
    /\ produceMutex \in Producers \cup {NoThread}
    /\ consumeMutex \in Consumers \cup {NoThread}
    /\ pc \in [Threads -> Labels]
    /\ kind \in [Threads -> {"copy", "swap"}]
    /\ var \in [Threads -> Contents]
    /\ tmp \in [Threads -> Contents]
    /\ calls \in 0..MaxProduce
    /\ throws \in 0..MaxThrows
    /\ produced \in Seq(Contents)
    /\ consumed \in Seq(Contents)

\* Items stored and not yet consumed.
Held == Len(produced) - Len(consumed)

\* The slot that holds the k-th oldest item held, k = 0 for the oldest.
SlotOf(k) == IF consumeAt + k < Size THEN consumeAt + k ELSE consumeAt + k - Size

\* A thread in these stages has a slot of storage_ in its hands.
Accessing == {t \in Threads : pc[t] \in {"assigning", "swapping"}}

\* Threads that took a unit of their semaphore and neither advanced nor gave
\* it back, and threads that advanced and have not yet posted the other one.
Reserved(T) == {t \in T : pc[t] \in {"locking", "assigning", "swapping", "advancing"}}
Posting(T) == {t \in T : pc[t] = "posting"}

\* The mutexes are separate, so only the semaphores keep a producer and a
\* consumer from being in the same slot at the same time; two threads of the
\* same side never touch a slot together either.
NoSlotRace ==
    /\ \A p \in Accessing \cap Producers, c \in Accessing \cap Consumers : produceAt # consumeAt
    /\ Cardinality(Accessing \cap Producers) <= 1
    /\ Cardinality(Accessing \cap Consumers) <= 1

\* The semaphores account for every slot, through waits, posts, and the posts
\* of the exception handlers: a slot is free, reserved, held or being given up.
SlotsAccounted ==
    /\ empty + Cardinality(Reserved(Producers)) + Cardinality(Posting(Consumers)) = Size - Held
    /\ used + Cardinality(Reserved(Consumers)) + Cardinality(Posting(Producers)) = Held

\* "Strong exception guarantee if operator= throws" (util/pcqueue.hh:126) as
\* the next consumer sees it: every slot between consume_at_ and produce_at_
\* holds the item stored there, unless a consumer is just moving it out.  It is
\* kept when the assignment of a copying call or the first assignment of a swap
\* throws ("assigning"); with the second assignment of a swap ("swapping" in
\* ThrowingStages too) the code breaks it, for the slot has been moved from.
ContentsIntact ==
    \A k \in 0..(Held - 1) :
        \/ storage[SlotOf(k)] = produced[Len(consumed) + k + 1]
        \/ k = 0 /\ \E c \in Consumers : kind[c] = "swap" /\ pc[c] \in {"swapping", "advancing"}

\* The queue implements a bounded FIFO: items are accepted when produce_at_
\* advances and delivered, in that order and once, when consume_at_ advances.
Fifo == INSTANCE BoundedFifo WITH
            Items <- Items, Capacity <- Size, accepted <- produced, delivered <- consumed
ImplementsFifo == Fifo!Spec

\* However the calls interleave and throw, all of them come to an end and every
\* item stored is consumed: no lost post leaves a thread waiting for good.
EventuallyDrained ==
    <>[](calls = MaxProduce /\ Held = 0 /\ \A t \in Threads : pc[t] = "calling")
=============================================================================
