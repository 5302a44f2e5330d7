---------------------------- MODULE MemoryTools ----------------------------
(***************************************************************************)
(* Every sequence of a few calls to a pool, and of a few sizes of a piece  *)
(* of memory that is reallocated, with a caller that fills what it gets.   *)
(***************************************************************************)
EXTENDS Memory, ToolRun

CONSTANTS
    MaxPoolCalls,    \* bound: calls to the pool
    MaxReallocs      \* bound: sizes of a piece of memory

-----------------------------------------------------------------------------
(* Pool *)

PoolInputs ==
    BoundedSeq([call : {"allocate"}, n : {0, 1, 3, 5}] \cup [call : {"continue"}, n : {-1, 2, 4}]
               \cup [call : {"free"}, n : {0}], MaxPoolCalls)

\* The caller writes the number of the piece into the bytes from `from` on.
Fill(pool, piece, from, number) ==
    IF piece.size <= from THEN pool
    ELSE [pool EXCEPT !.chunks[piece.base.chunk] =
             [i \in DOMAIN @ |-> IF i \in (piece.base.at + from + 1)..(piece.base.at + piece.size) THEN number ELSE @[i]]]

PoolPiece(g, size) == [base |-> g.base, size |-> size]

NewPiece(s, g, size) ==
    [pool |-> Fill(g.pool, PoolPiece(g, size), 0, Len(s.pieces) + 1), pieces |-> Append(s.pieces, PoolPiece(g, size))]

ChangedPiece(s, g, old, size) ==
    [pool |-> Fill(g.pool, PoolPiece(g, size), old, Len(s.pieces)), pieces |-> Front(s.pieces) \o <<PoolPiece(g, size)>>]

PoolCall(s, c) ==
    CASE c.call = "free" -> [pool |-> EmptyPool, pieces |-> <<>>]
      [] c.call = "allocate" -> NewPiece(s, Allocate(s.pool, c.n), c.n)
      [] c.call = "continue" ->
            IF s.pieces = <<>> \/ Last(s.pieces).size + c.n < 0 THEN s
            ELSE ChangedPiece(s, Continue(s.pool, Last(s.pieces).base, c.n), Last(s.pieces).size,
                              Last(s.pieces).size + c.n)

UsePool == Return("pool", FoldLeft(PoolCall, [pool |-> EmptyPool, pieces |-> <<>>], input))

-----------------------------------------------------------------------------
(* Memory that is reallocated *)

MemoryInputs ==
    [sizes : BoundedSeq({0, 1, 3, 4, 5, 8, 9, 17}, MaxReallocs), zero : BOOLEAN,
     granted : [pools : {{}, {"mmap 2M"}, {"mmap 2M", "mmap 1G"}}, skew : {0, 1, 3}, anonymous : BOOLEAN,
                mremap : {"in place", "moves", "fails"}]]

\* The caller writes the number of the call into the bytes that are new.
Refilled(mem, old, number) ==
    [mem EXCEPT !.bytes = [i \in DOMAIN @ |-> IF i \in (old + 1)..mem.size THEN number ELSE @[i]]]

Noted(s, h) ==
    [os |-> h.os, mem |-> Refilled(h.mem, s.mem.size, Len(s.steps) + 1), steps |-> Append(s.steps, h)]

ReallocCall(s, to) == Noted(s, HugeRealloc(s.os, to, input.zero, s.mem))

AtEnd(s) == [steps |-> s.steps, os |-> Released(s.os, s.mem)]

UseMemory ==
    Return("memory", AtEnd(FoldLeft(ReallocCall, [os |-> FreshSystem(input.granted), mem |-> NoMemory, steps |-> <<>>],
                                    input.sizes)))

SizeBefore(k) == IF k = 1 THEN 0 ELSE input.sizes[k - 1]
WriterOf(i, k) == Max({j \in 1..(k - 1) : i \in (SizeBefore(j) + 1)..input.sizes[j]})
Shrinks(k) == input.sizes[k] < SizeBefore(k)

-----------------------------------------------------------------------------
(* Properties *)

\* Pieces of a pool lie in its chunks, do not overlap, and keep their contents
\* for as long as the pool does not free everything, also the last one while
\* it is extended, contracted or moved to a larger chunk.
PiecesIntact ==
    \A k \in DOMAIN result.pieces :
        LET piece == result.pieces[k]
            bytes == result.pool.chunks[piece.base.chunk]
        IN  piece.size > 0 => /\ piece.base.at + piece.size <= Len(bytes)
                              /\ \A i \in 1..piece.size : bytes[piece.base.at + i] = k

\* Up to step k, memory has been made smaller; and the system refused to.
HasShrunk(k) == \E j \in 1..k : Shrinks(j)
HasShrunkByCopy(k) == input.granted.mremap = "fails" /\ HasShrunk(k)

\* Memory keeps its contents however it moves between malloc and mappings, and
\* nothing is written behind its end; if the caller wants zeros and never shrank
\* it, what is added is zero; what the system holds for it is what it consists
\* of.
StepExact(k) ==
    LET mem == result.steps[k].mem
        os == result.steps[k].os
        size == input.sizes[k]
        old == SizeBefore(k)
    IN  /\ mem.size = size
        /\ \A i \in 1..Min({old, size}) : mem.bytes[i] = WriterOf(i, k)
        /\ input.zero /\ ~HasShrunk(k) => \A i \in (old + 1)..size : mem.bytes[i] = 0
        /\ os.mapped = (IF mem.source \in {"none", "malloc"} THEN {} ELSE PagesOf(mem.address, RoundUpSize(mem)))
        /\ os.blocks = (IF mem.source = "malloc" THEN {mem.address} ELSE {})
        /\ old = 0 /\ mem.source \notin {"none", "malloc"} => mem.address % HugePage = 0
        /\ os.intact

ReallocExact ==
    /\ \A k \in DOMAIN result.steps : ~HasShrunkByCopy(k) => StepExact(k)
    /\ result.os.mapped = {} /\ result.os.blocks = {}

\* HugeRealloc writes nothing behind the end of the memory it returns, whether
\* that is larger or smaller than what was there.
NothingBehindMemory == Returned("memory") => \A k \in DOMAIN result.steps : result.steps[k].os.intact

\* With zero_new, all that HugeRealloc adds to the memory is zero.
NewIsZero ==
    Returned("memory") /\ input.zero =>
        \A k \in DOMAIN result.steps :
            \A i \in (SizeBefore(k) + 1)..input.sizes[k] : result.steps[k].mem.bytes[i] = 0

\* Memory is what its owner left in it: pieces of a pool and a piece of memory
\* that is reallocated keep their contents, and the system gets all of it back.
\* What is written where mremap refuses to shrink memory is left to
\* NothingBehindMemory, zeros in memory that was larger before to NewIsZero.
MemoryExact ==
    /\ Returned("pool") => PiecesIntact
    /\ Returned("memory") => ReallocExact
=============================================================================
