------------------------------- MODULE Memory -------------------------------
(***************************************************************************)
(* util/pool.hh and pool.cc: memory in chunks that is only freed all at    *)
(* once.  util/mmap.cc: one piece of memory that grows, from malloc while  *)
(* it is small and from mappings, with huge pages if there are any.        *)
(***************************************************************************)
EXTENDS Integers, SequencesExt

CONSTANTS
    FirstChunk,   \* bytes of a pool's first chunk (32)
    PageBytes,    \* SizePage()
    HugePage,     \* a huge page (2^21)
    GiantPage     \* the largest huge page (2^30)

ASSUME PagesAssumption ==
    FirstChunk > 0 /\ PageBytes > 0 /\ HugePage % PageBytes = 0 /\ GiantPage % HugePage = 0

\* A byte that nobody has written.
Garbage == -1
Bytes(n, b) == [i \in 1..n |-> b]

-----------------------------------------------------------------------------
(* Pool: current_ is the offset `at` in the last chunk, current_end_ its length *)

EmptyPool == [chunks |-> <<>>, at |-> 0]
ChunkEnd(pool) == IF pool.chunks = <<>> THEN 0 ELSE Len(Last(pool.chunks))

\* Slip: a chunk is always as large as its turn says.
ChunkSizeAlone(pool, size) == FirstChunk * 2^Len(pool.chunks)

\* Every chunk is twice as large as the one before, or as large as needed.
ChunkSize(pool, size) == Max({FirstChunk * 2^Len(pool.chunks), size})

More(pool, size) == [chunks |-> Append(pool.chunks, Bytes(ChunkSize(pool, size), Garbage)), at |-> size]

GivenFrom(pool, at) == [pool |-> pool, base |-> [chunk |-> Len(pool.chunks), at |-> at]]

Allocate(pool, size) ==
    IF pool.at + size > ChunkEnd(pool) THEN GivenFrom(More(pool, size), 0)
    ELSE GivenFrom([pool EXCEPT !.at = @ + size], pool.at)

\* The first bytes of the last chunk become n bytes from elsewhere.
CopiedToLast(pool, base, n) ==
    IF n = 0 THEN pool
    ELSE [pool EXCEPT !.chunks[Len(pool.chunks)] =
             [i \in DOMAIN @ |-> IF i <= n THEN pool.chunks[base.chunk][base.at + i] ELSE @[i]]]

\* Extends or contracts the allocation that was the last.
Continue(pool, base, additional) ==
    LET total == pool.at + additional - base.at
    IN  IF pool.at + additional > ChunkEnd(pool)
        THEN GivenFrom(CopiedToLast(More(pool, total), base, total - additional), 0)
        ELSE [pool |-> [pool EXCEPT !.at = @ + additional], base |-> base]

-----------------------------------------------------------------------------
(* The operating system: the pages that are mapped, and the blocks that    *)
(* malloc gave out.  A mapping begins at any page; `granted` says which    *)
(* requests succeed.                                                       *)

FreshSystem(granted) == [mapped |-> {}, blocks |-> {}, next |-> GiantPage, intact |-> TRUE, granted |-> granted]

RoundUpPow2(value, mult) == ((value - 1) \div mult) * mult + mult
PagesOf(address, size) == {address \div PageBytes + k : k \in 0..(RoundUpPow2(size, PageBytes) \div PageBytes - 1)}

NextAddress(os, size) == os.next + RoundUpPow2(size, GiantPage) + 2 * GiantPage

Mapped(os, address, size) ==
    [os EXCEPT !.mapped = @ \cup PagesOf(address, size), !.next = NextAddress(os, size)]

\* Pages can be unmapped singly; huge pages of the pool only whole.
Unmapped(os, address, size, unit) ==
    [os EXCEPT !.mapped = @ \ PagesOf(address, size), !.intact = @ /\ size % unit = 0]

-----------------------------------------------------------------------------
(* scoped_memory *)

NoMemory == [source |-> "none", address |-> 0, size |-> 0, bytes |-> <<>>]

UnitOf(source) ==
    CASE source = "mmap 1G" -> GiantPage
      [] source = "mmap 2M" -> HugePage
      [] source = "mmap page" -> PageBytes
      [] OTHER -> 1

\* Slip: what was mapped is taken to be as large as what was asked for.
RoundUpSizeExact(mem) == mem.size

RoundUpSize(mem) == RoundUpPow2(mem.size, UnitOf(mem.source))

\* The system after reset() has given back what was there.
Released(os, mem) ==
    CASE mem.source = "none" -> os
      [] mem.source = "malloc" -> [os EXCEPT !.blocks = @ \ {mem.address}]
      [] OTHER -> Unmapped(os, mem.address, RoundUpSize(mem),
                           IF mem.source = "mmap page" THEN 1 ELSE UnitOf(mem.source))

Holding(os, mem) == [os |-> os, mem |-> mem]
Block(os, size, bytes) ==
    Holding([os EXCEPT !.blocks = @ \cup {os.next}, !.next = NextAddress(os, size)],
            [source |-> "malloc", address |-> os.next, size |-> size, bytes |-> bytes])

\* More is mapped than needed, and what lies before the first multiple of a
\* huge page and behind the end is given back.
AlignedAt(os, size, base, rounded, ask, up) ==
    LET all == Mapped(os, base, ask)
        front == IF base = rounded THEN all ELSE Unmapped(all, base, rounded - base, 1)
        left == ask - (rounded - base)
    IN  Holding(IF left > up THEN Unmapped(front, rounded + up, left - up, 1) ELSE front,
                [source |-> "mmap page", address |-> rounded, size |-> size, bytes |-> Bytes(up, 0)])

Aligned(os, size, unit) ==
    LET up == RoundUpPow2(size, PageBytes)
        base == os.next + os.granted.skew * PageBytes
    IN  AlignedAt(os, size, base, RoundUpPow2(base, unit), up + unit - PageBytes, up)

HugeBytes(size, unit) == Bytes(RoundUpPow2(size, unit), 0)

\* A set of at most one: the memory, if it can be had.
TryHuge(os, size, unit, scheme) ==
    IF size < unit \/ unit < PageBytes THEN {}
    ELSE IF scheme \in os.granted.pools
         THEN {Holding(Mapped(os, os.next, RoundUpPow2(size, unit)),
                       [source |-> scheme, address |-> os.next, size |-> size, bytes |-> HugeBytes(size, unit)])}
    ELSE IF os.granted.anonymous THEN {Aligned(os, size, unit)} ELSE {}

FirstGranted(giant, huge, small) ==
    CASE giant # {} -> CHOOSE h \in giant : TRUE
      [] giant = {} /\ huge # {} -> CHOOSE h \in huge : TRUE
      [] OTHER -> small

HugeMalloc(os, size, zeroed) ==
    FirstGranted(IF size >= GiantPage THEN TryHuge(os, size, GiantPage, "mmap 1G") ELSE {},
            IF size >= HugePage THEN TryHuge(os, size, HugePage, "mmap 2M") ELSE {},
            Block(os, size, Bytes(size, IF zeroed THEN 0 ELSE Garbage)))

-----------------------------------------------------------------------------
(* HugeRealloc *)

Overlaid(bytes, old, n) == [i \in DOMAIN bytes |-> IF i <= n /\ i <= Len(old) THEN old[i] ELSE bytes[i]]

\* memcpy of all that was there, which has to fit.
CopiedOver(h, mem) ==
    [os |-> [Released(h.os, mem) EXCEPT !.intact = @ /\ mem.size <= Len(h.mem.bytes)],
     mem |-> [h.mem EXCEPT !.bytes = Overlaid(@, mem.bytes, mem.size)]]

ReplaceAndCopy(os, to, zero_new, mem) == CopiedOver(HugeMalloc(os, to, zero_new), mem)

NewBytes(size, to, zero_new) ==
    [i \in 1..to |-> IF zero_new /\ i > size THEN 0 ELSE Garbage]

\* A block of malloc with the first bytes of what was there.
MovedToBlock(os, to, zero_new, mem) ==
    LET block == Block(os, to, Overlaid(NewBytes(mem.size, to, zero_new), mem.bytes, mem.size))
    IN  [block EXCEPT !.os = Released(@, mem)]

\* The mapping ends at another page, in place or elsewhere; new pages are zero.
MRemap(os, to, mem) ==
    LET unit == UnitOf(mem.source)
        address == IF os.granted.mremap = "moves" THEN os.next ELSE mem.address
        freed == [os EXCEPT !.mapped = @ \ PagesOf(mem.address, RoundUpSize(mem))]
    IN  Holding(Mapped(freed, address, RoundUpPow2(to, unit)),
                [mem EXCEPT !.address = address, !.size = to,
                            !.bytes = Overlaid(HugeBytes(to, unit), mem.bytes, Len(mem.bytes))])

HugeRealloc(os, to, zero_new, mem) ==
    CASE to = 0 -> Holding(Released(os, mem), NoMemory)
      [] to > 0 /\ mem.source = "none" -> HugeMalloc(os, to, zero_new)
      [] to > 0 /\ mem.source = "malloc" ->
            IF to >= Max({HugePage, PageBytes}) /\ mem.size < Max({HugePage, PageBytes})
            THEN ReplaceAndCopy(os, to, zero_new, mem)
            ELSE MovedToBlock(os, to, zero_new, mem)
      [] OTHER ->
            IF to <= PageBytes THEN MovedToBlock(os, to, zero_new, mem)
            ELSE IF os.granted.mremap = "fails" THEN ReplaceAndCopy(os, to, zero_new, mem)
            ELSE MRemap(os, to, mem)
=============================================================================
