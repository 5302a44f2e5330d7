------------------------ MODULE UnboundedSingleQueue ------------------------
(***************************************************************************)
(* The unbounded queue of util/pcqueue.hh between one producer and one     *)
(* consumer: a chain of pages, the semaphore valid_ between the threads    *)
(* and no lock.  The producer links a new page when the last one is full;  *)
(* the consumer frees a page when it turns to the next one.                *)
(*                                                                         *)
(* A page is named by the number of entries that were allocated before it, *)
(* so the entry at position i of page p is entry p + i of the memory.      *)
(***************************************************************************)
EXTENDS Integers, Sequences

CONSTANTS
    PageSize,     \* entries of an UnboundedPage (1023 in the code)
    MaxProduce,   \* bound: number of calls of Produce
    Null,         \* a null next pointer
    Blank         \* a default-constructed entry

Items == 1..MaxProduce
Pages == 0..MaxProduce
Addresses == 0..(MaxProduce + PageSize)

ASSUME PageSizeAssumption == PageSize \in Nat \ {0}
ASSUME MaxProduceAssumption == MaxProduce \in Nat
ASSUME NullAssumption == Null \notin Nat /\ Blank \notin Nat

VARIABLES
    valid,        \* semaphore valid_
    next,         \* next pointer of every page
    entries,      \* memory of the pages
    freed,        \* pages that were deleted
    filling,      \* page filling_
    fillPos,      \* filling_current_, relative to the page
    reading,      \* page reading_
    readPos,      \* reading_current_, relative to the page
    ppc,          \* where the producer is in Produce
    cpc,          \* where the consumer is in Consume
    produced,     \* history: items stored
    consumed      \* history: items moved out

pageVars == <<next, entries, freed>>
queueVars == <<valid, pageVars, filling, fillPos, reading, readPos, ppc, cpc, produced, consumed>>

QueueInit ==
    /\ valid = 0
    /\ next = [p \in Pages |-> Null]
    /\ entries = [a \in Addresses |-> Blank]
    /\ freed = {}
    /\ filling = 0 /\ fillPos = 0
    /\ reading = 0 /\ readPos = 0
    /\ ppc = "idle" /\ cpc = "idle"
    /\ produced = <<>> /\ consumed = <<>>

-----------------------------------------------------------------------------
(* Produce *)

\* Slip: the new page is not linked behind the full one.
LinkPageForgotten ==
    /\ ppc = "idle"
    /\ Len(produced) < MaxProduce
    /\ fillPos = PageSize
    /\ ppc' = "linked"
    /\ UNCHANGED <<valid, pageVars, filling, fillPos, reading, readPos, cpc, produced, consumed>>

\* The page is full: a new one is allocated and linked behind it.
LinkPage ==
    /\ ppc = "idle"
    /\ Len(produced) < MaxProduce
    /\ fillPos = PageSize
    /\ next' = [next EXCEPT ![filling] = filling + PageSize]
    /\ ppc' = "linked"
    /\ UNCHANGED <<valid, entries, freed, filling, fillPos, reading, readPos, cpc, produced, consumed>>

SetFilling ==
    /\ ppc = "linked"
    /\ filling' = filling + PageSize
    /\ fillPos' = 0
    /\ ppc' = "room"
    /\ UNCHANGED <<valid, pageVars, reading, readPos, cpc, produced, consumed>>

\* `filling_current_++`, of which the consumer's Empty() knows at once.
Bump ==
    /\ \/ ppc = "room"
       \/ ppc = "idle" /\ fillPos # PageSize
    /\ Len(produced) < MaxProduce
    /\ fillPos' = fillPos + 1
    /\ ppc' = "bumped"
    /\ UNCHANGED <<valid, pageVars, filling, reading, readPos, cpc, produced, consumed>>

\* The item is moved into the entry.
Store ==
    /\ ppc = "bumped"
    /\ entries' = [entries EXCEPT ![filling + fillPos - 1] = Len(produced) + 1]
    /\ produced' = Append(produced, Len(produced) + 1)
    /\ ppc' = "stored"
    /\ UNCHANGED <<valid, next, freed, filling, fillPos, reading, readPos, cpc, consumed>>

\* Slip: the consumer is only woken when it has nothing to do.
PostValidIfEmpty ==
    /\ ppc = "stored"
    /\ valid' = IF valid = 0 THEN 1 ELSE valid
    /\ ppc' = "idle"
    /\ UNCHANGED <<pageVars, filling, fillPos, reading, readPos, cpc, produced, consumed>>

PostValid ==
    /\ ppc = "stored"
    /\ valid' = valid + 1
    /\ ppc' = "idle"
    /\ UNCHANGED <<pageVars, filling, fillPos, reading, readPos, cpc, produced, consumed>>

Produce == LinkPage \/ SetFilling \/ Bump \/ Store \/ PostValid

-----------------------------------------------------------------------------
(* Consume *)

WaitValid ==
    /\ cpc = "idle"
    /\ valid > 0
    /\ valid' = valid - 1
    /\ cpc' = "valid"
    /\ UNCHANGED <<pageVars, filling, fillPos, reading, readPos, ppc, produced, consumed>>

\* SetReading(reading_->next): the page just read is deleted.
SetReading ==
    /\ cpc = "valid"
    /\ readPos = PageSize
    /\ reading' = next[reading]
    /\ freed' = freed \cup {reading}
    /\ readPos' = 0
    /\ cpc' = "reading"
    /\ UNCHANGED <<valid, next, entries, filling, fillPos, ppc, produced, consumed>>

\* Slip: reading_current_ is advanced before it is read.
TakeAfterAdvance ==
    /\ \/ cpc = "reading"
       \/ cpc = "valid" /\ readPos # PageSize
    /\ consumed' = Append(consumed, entries[reading + readPos + 1])
    /\ readPos' = readPos + 1
    /\ cpc' = "idle"
    /\ UNCHANGED <<valid, pageVars, filling, fillPos, reading, ppc, produced>>

\* `out = std::move(*(reading_current_++))`
Take ==
    /\ \/ cpc = "reading"
       \/ cpc = "valid" /\ readPos # PageSize
    /\ consumed' = Append(consumed, entries[reading + readPos])
    /\ readPos' = readPos + 1
    /\ cpc' = "idle"
    /\ UNCHANGED <<valid, pageVars, filling, fillPos, reading, ppc, produced>>

Consume == WaitValid \/ SetReading \/ Take

\* Slip: the positions are compared without their pages.
EmptyIgnoresPage == readPos = fillPos

\* What Empty() answers the consumer, comparing two pointers without a lock.
Empty == reading = filling /\ readPos = fillPos

QueueNext == Produce \/ Consume

QueueSpec == QueueInit /\ [][QueueNext]_queueVars
FairQueueSpec == QueueSpec /\ WF_queueVars(Produce) /\ WF_queueVars(Consume)

-----------------------------------------------------------------------------
(* Properties *)

\* Type invariant; reading_ is never a null pointer.
QueueTypeOK ==
    /\ valid \in Nat
    /\ next \in [Pages -> Pages \cup {Null}]
    /\ entries \in [Addresses -> Items \cup {Blank}]
    /\ freed \subseteq Pages
    /\ filling \in Pages /\ fillPos \in 0..PageSize
    /\ reading \in Pages /\ readPos \in 0..PageSize
    /\ ppc \in {"idle", "linked", "room", "bumped", "stored"}
    /\ cpc \in {"idle", "valid", "reading"}
    /\ produced \in Seq(Items)
    /\ consumed \in Seq(Items \cup {Blank})

\* The page hand-over: no thread uses a page that was deleted, and a consumer
\* about to turn the page finds a next page that the producer has linked.
NoUseAfterFree ==
    /\ filling \notin freed
    /\ reading \notin freed
    /\ cpc = "valid" /\ readPos = PageSize => next[reading] \in Pages

\* Only the pages from reading_ to filling_ are alive: a consumed page is
\* deleted when the consumer leaves it, and none before.
PagesReleased ==
    \A p \in Pages :
        /\ p \in freed => p < reading
        /\ next[p] \in Pages /\ p < reading => p \in freed

\* Empty() races with the producer, but an answer of "empty" can be trusted as
\* far as the consumer needs it: everything posted has been consumed.
EmptyIsSafe ==
    cpc = "idle" /\ Empty => valid = 0 /\ Len(consumed) = Len(produced)

\* The queue is a FIFO without a limit (the bound on calls stands for it).
Fifo == INSTANCE BoundedFifo WITH
            Items <- Items, Capacity <- MaxProduce, accepted <- produced, delivered <- consumed
ImplementsFifo == Fifo!Spec

\* Every item gets through, across all the page turns, and Empty() says so.
EventuallyDrained == <>[](Len(consumed) = MaxProduce /\ Empty)
=============================================================================
