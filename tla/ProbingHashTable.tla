-------------------------- MODULE ProbingHashTable --------------------------
(***************************************************************************)
(* util/probing_hash_table.hh: a hash table with linear probing of fixed   *)
(* size (ProbingHashTable) and the one that doubles itself (AutoProbing).  *)
(*                                                                         *)
(* An entry is its key.  The hash of every key is chosen at the start, so  *)
(* that all collisions and all wrap-arounds occur.                         *)
(***************************************************************************)
EXTENDS Integers, Sequences, FiniteSets, FiniteSetsExt

CONSTANTS
    Keys,           \* keys, all of them different from the invalid one
    Invalid,        \* the key of an empty bucket
    Hashes,         \* hash values
    Autos,          \* whether the table is an AutoProbing: a set of truth values
    InitialSizes,   \* initial_size for AutoProbing, else the number of buckets
    MaxBuckets,     \* bound: a larger table does not grow any more
    MaxEntries      \* bound: on the count, which goes on when the table is full

ASSUME KeysAssumption == Invalid \notin Keys /\ Hashes \subseteq Nat
ASSUME SizesAssumption == Autos \subseteq BOOLEAN /\ InitialSizes \subseteq Nat /\ {MaxBuckets, MaxEntries} \subseteq Nat

VARIABLES
    auto,        \* whether this is an AutoProbing
    hash,        \* hash function
    buckets,     \* number of buckets
    table,       \* key in each bucket
    entries_,    \* entries_
    threshold,   \* AutoProbing doubles the table at this many entries
    inserted,    \* keys inserted since the table was empty
    said         \* outcome of the last operation

tableVars == <<auto, hash, buckets, table, entries_, threshold, inserted, said>>

-----------------------------------------------------------------------------
(* Mod: DivMod and, for powers of two, Power2Mod compute the same *)

Slots(n) == 0..(n - 1)
Ideal(key, n) == hash[key] % n

\* The bucket reached after d steps from the ideal one.
SlotAt(key, d, n) == (Ideal(key, n) + d) % n

RoundBuckets(n) == Min({p \in {2^k : k \in 0..n} : p >= n})

\* Size(entries, 1.4) in buckets
BucketsFor(n) == RoundBuckets(Max({n + 1, (14 * n) \div 10}))

ThresholdFor(n) == Min({n - 1, (3 * n) \div 4})

ASSUME FitAssumption ==
    \A size \in InitialSizes : size \in 1..MaxBuckets /\ BucketsFor(size) \in 1..MaxBuckets

-----------------------------------------------------------------------------
(* Probing; the loops of the code end at the first bucket with the key or, *)
(* unless the key is looked for, with the invalid key.                     *)

EmptyTable(n) == [i \in Slots(n) |-> Invalid]

\* The number of steps to the first bucket that holds one of the keys given.
\* Without such a bucket the code loops forever.
Steps(t, n, key, stop) ==
    Min({d \in Slots(n) : t[SlotAt(key, d, n)] \in stop} \cup {n})

\* Slip: only the ideal bucket is looked at.
FindIdealOnly(t, n, key) == t[Ideal(key, n)] = key

\* Find, MustFind and their variants
Find(t, n, key) == t[SlotAt(key, Steps(t, n, key, {key, Invalid}), n)] = key

UncheckedInsert(t, n, key) ==
    [t EXCEPT ![SlotAt(key, Steps(t, n, key, {Invalid}), n)] = key]

-----------------------------------------------------------------------------
(* Double *)

Enlarged(t, n) == [i \in Slots(2 * n) |-> IF i < n THEN t[i] ELSE Invalid]

\* How many entries at the beginning may have been rolled over.
RolledOver(t, n) == Min({i \in Slots(n) : t[i] = Invalid} \cup {n})

\* The entry in bucket i is taken out and inserted again.
Reinserted(t, n, i) ==
    IF t[i] = Invalid THEN t
    ELSE UncheckedInsert([t EXCEPT ![i] = Invalid], n, t[i])

\* Slip: the entries at the beginning are treated like all others.
DoubleInPlace(t, n) ==
    LET moved[i \in 0..n] ==
            IF i = 0 THEN Enlarged(t, n) ELSE Reinserted(moved[i - 1], 2 * n, i - 1)
    IN  moved[n]

\* The table without the rolled-over entries, which are set aside.
WithoutRolled(t, n) ==
    [i \in Slots(2 * n) |-> IF i < RolledOver(t, n) THEN Invalid ELSE Enlarged(t, n)[i]]

\* The others are inserted again, from the first of the old buckets to the last.
Moved(t, n) ==
    LET moved[i \in 0..n] ==
            IF i = 0 THEN WithoutRolled(t, n) ELSE Reinserted(moved[i - 1], 2 * n, i - 1)
    IN  moved

\* Then those set aside are put back in.
PutBack(t, n) ==
    LET back[i \in 0..RolledOver(t, n)] ==
            IF i = 0 THEN Moved(t, n)[n] ELSE UncheckedInsert(back[i - 1], 2 * n, t[i - 1])
    IN  back

Double(t, n) == PutBack(t, n)[RolledOver(t, n)]

-----------------------------------------------------------------------------
(* Operations *)

TableInit ==
    /\ auto \in Autos
    /\ hash \in [Keys -> Hashes]
    /\ \E size \in InitialSizes : buckets = IF auto THEN BucketsFor(size) ELSE size
    /\ table = EmptyTable(buckets)
    /\ entries_ = 0
    /\ threshold = IF auto THEN ThresholdFor(buckets) ELSE buckets
    /\ inserted = {}
    /\ said = "none"

\* The table as an insertion finds it when `count` entries are counted.
DoubledIfNeeded(count) ==
    IF auto /\ count >= threshold
    THEN [t |-> Double(table, buckets), n |-> 2 * buckets, limit |-> ThresholdFor(2 * buckets)]
    ELSE [t |-> table, n |-> buckets, limit |-> threshold]

MayGrow(count) ==
    /\ auto /\ count >= threshold => 2 * buckets <= MaxBuckets
    /\ count <= MaxEntries

\* Insert, of a key that is not in the table: the entry is counted first.
Insert(key) ==
    /\ key \notin inserted
    /\ MayGrow(entries_ + 1)
    /\ entries_' = entries_ + 1
    /\ LET now == DoubledIfNeeded(entries_ + 1)
       IN  /\ buckets' = now.n /\ threshold' = now.limit
           /\ IF ~auto /\ entries_' >= buckets
              THEN UNCHANGED <<table, inserted>> /\ said' = "full"
              ELSE /\ table' = UncheckedInsert(now.t, now.n, key)
                   /\ inserted' = inserted \cup {key}
                   /\ said' = "inserted"
    /\ UNCHANGED <<auto, hash>>

\* FindOrInsert, whose check comes only when the key has not been found.
FindOrInsert(key) ==
    /\ MayGrow(entries_)
    /\ LET now == DoubledIfNeeded(entries_)
       IN  /\ buckets' = now.n /\ threshold' = now.limit
           /\ IF Find(now.t, now.n, key)
              THEN table' = now.t /\ said' = "found" /\ UNCHANGED <<entries_, inserted>>
              ELSE /\ entries_' = entries_ + 1
                   /\ IF entries_' >= now.n
                      THEN table' = now.t /\ said' = "full" /\ UNCHANGED inserted
                      ELSE /\ table' = UncheckedInsert(now.t, now.n, key)
                           /\ inserted' = inserted \cup {key}
                           /\ said' = "inserted"
    /\ UNCHANGED <<auto, hash>>

\* Slip: the count is kept.
ClearKeepsCount ==
    /\ table' = EmptyTable(buckets)
    /\ inserted' = {}
    /\ said' = "cleared"
    /\ UNCHANGED <<auto, hash, buckets, entries_, threshold>>

Clear ==
    /\ table' = EmptyTable(buckets)
    /\ entries_' = 0
    /\ inserted' = {}
    /\ said' = "cleared"
    /\ UNCHANGED <<auto, hash, buckets, threshold>>

TableNext ==
    \/ \E key \in Keys : Insert(key) \/ FindOrInsert(key)
    \/ Clear

TableSpec == TableInit /\ [][TableNext]_tableVars

-----------------------------------------------------------------------------
(* CheckConsistency, "mostly for tests": whether it throws *)

CheckConsistencyThrows ==
    LET last == Max({i \in Slots(buckets) : table[i] = Invalid} \cup {-1})
        gap == Min({i \in Slots(buckets) : table[i] = Invalid})
        PreGap(i) == Max({j \in gap..i : table[j] = Invalid} \cup {gap})
    IN  \/ last = 0
        \/ \E i \in 0..(gap - 1) : Ideal(table[i], buckets) > i /\ Ideal(table[i], buckets) <= last
        \/ \E i \in gap..(buckets - 1) :
            /\ table[i] # Invalid
            /\ Ideal(table[i], buckets) > i \/ Ideal(table[i], buckets) <= PreGap(i)

-----------------------------------------------------------------------------
(* Properties *)

\* Type invariant of the table.
TableTypeOK ==
    /\ auto \in BOOLEAN
    /\ hash \in [Keys -> Hashes]
    /\ buckets \in 1..MaxBuckets
    /\ table \in [Slots(buckets) -> Keys \cup {Invalid}]
    /\ entries_ \in 0..(MaxEntries + 1)
    /\ threshold \in Nat
    /\ inserted \subseteq Keys
    /\ said \in {"none", "inserted", "found", "full", "cleared"}

\* A bucket is always free, so that every search for a key that is not there
\* comes to an end.
SearchEnds == \E i \in Slots(buckets) : table[i] = Invalid

\* After every sequence of insertions, doublings and clearings, the keys that
\* Find finds are exactly those that were inserted, and each is stored once.
FindIsExact ==
    /\ \A key \in Keys : Find(table, buckets, key) <=> key \in inserted
    /\ \A key \in Keys : Cardinality({i \in Slots(buckets) : table[i] = key}) <= 1

\* The table implements a set of keys: whatever hashes collide, wherever entries
\* wrap around and whenever the table doubles, an operation adds its own key or
\* nothing, says "inserted" exactly when the key was not in any bucket before
\* and "found" exactly when it was, and doubling adds and removes nothing.
Contents == {table[i] : i \in Slots(buckets)} \ {Invalid}
Set == INSTANCE KeySet WITH Keys <- Keys, members <- Contents, answer <- said
ImplementsKeySet == Set!Spec

\* Every entry lies between its ideal bucket and the next free one, as
\* CheckConsistency demands of it, through doublings and wrap-arounds.  The
\* function itself takes a table whose only free bucket is the first one for a
\* full one; it throws in no other case.
EntriesInPlace ==
    CheckConsistencyThrows => \A i \in Slots(buckets) : table[i] = Invalid <=> i = 0

\* A table that doubles never reports that it is full, and it counts its
\* entries exactly; a table of fixed size reports it only if one bucket is left.
FullOnlyIfFull ==
    /\ auto => said # "full" /\ entries_ = Cardinality(inserted)
    /\ said = "full" => Cardinality(inserted) + 1 = buckets

\* The table at every moment: types, a free bucket, every key found that was
\* inserted and no other, every entry in its place, and an exact count.
TableSafety == TableTypeOK /\ SearchEnds /\ FindIsExact /\ EntriesInPlace /\ FullOnlyIfFull
=============================================================================
