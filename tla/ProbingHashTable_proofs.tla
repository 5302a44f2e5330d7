---------------------- MODULE ProbingHashTable_proofs ----------------------
(***************************************************************************)
(* The hash table finds exactly what was inserted, and its searches end,   *)
(* for every hash function, every number of buckets and any keys.          *)
(*                                                                         *)
(* The invariant says of an entry that no bucket is free between its ideal *)
(* bucket and its own, round the end of the table if need be.  That        *)
(* doubling in place keeps it is shown by induction over the buckets it    *)
(* visits.  Induction is over sets of numbers, whose least member exists.  *)
(***************************************************************************)
EXTENDS ProbingHashTable, FiniteSetTheorems, TLAPS

(* The inductive invariant *)

\* Whether a search that begins at bucket a passes bucket s on its way to j.
Between(a, j, s) == IF a <= j THEN a <= s /\ s <= j ELSE a <= s \/ s <= j

Table(n) == [Slots(n) -> Keys \cup {Invalid}]

\* The entry in bucket j of a table of n buckets is where a search finds it.
Reached(h, t, n, j) ==
    \A s \in Slots(n) : Between(h[t[j]] % n, j, s) => t[s] # Invalid

Reachable(h, t, n) == \A j \in Slots(n) : t[j] # Invalid => Reached(h, t, n, j)

Once(t, n) == \A i, j \in Slots(n) : t[i] = t[j] /\ t[i] # Invalid => i = j

\* The table t has exactly the keys given.
Holds(t, n, keys) == \A k \in Keys : k \in keys <=> \E j \in Slots(n) : t[j] = k

InOrder(h, t, n, keys) ==
    t \in Table(n) /\ Reachable(h, t, n) /\ Once(t, n) /\ Holds(t, n, keys)

\* Entries are counted up to the number of buckets, of which one stays free.
CountAt ==
    /\ IsFiniteSet(inserted)
    /\ Cardinality(inserted) = IF entries_ < buckets THEN entries_ ELSE buckets - 1
    /\ auto => entries_ < buckets /\ threshold = ThresholdFor(buckets)
    /\ said = "full" => ~auto /\ entries_ >= buckets

TableInv == TableTypeOK /\ InOrder(hash, table, buckets, inserted) /\ CountAt

-----------------------------------------------------------------------------
(* Numbers *)

\* A set of numbers has a least one.
LEMMA LeastExists ==
  ASSUME NEW S \in SUBSET Nat, S # {}
  PROVE  \E x \in S : \A y \in S : x <= y
<1> DEFINE T == {0..x : x \in S}
<1>1. T \subseteq FiniteSubsetsOf(Nat) /\ T # {}
  <2>1. ASSUME NEW x \in S PROVE 0..x \in SUBSET Nat /\ IsFiniteSet(0..x)
    BY FS_Interval
  <2> QED BY <2>1 DEF FiniteSubsetsOf
<1>2. PICK t \in T : \A u \in T : ~(<<u, t>> \in StrictSubsetOrdering(Nat))
  BY <1>1, FS_StrictSubsetOrderingWellFounded, WFMin
<1>3. PICK x \in S : t = 0..x
  OBVIOUS
<1>4. ASSUME NEW y \in S PROVE x <= y
  <2>1. SUFFICES ASSUME y < x PROVE FALSE
    OBVIOUS
  <2>2. /\ 0..y \subseteq 0..x /\ x \in 0..x /\ x \notin 0..y
        /\ 0..x \in SUBSET Nat /\ 0..y \in SUBSET Nat
    BY <2>1
  <2>3. <<0..y, 0..x>> \in StrictSubsetOrdering(Nat)
    BY <2>2 DEF StrictSubsetOrdering
  <2> QED BY <1>2, <1>3, <2>3
<1> QED BY <1>4

\* What Min chooses.
LEMMA MinFacts ==
  ASSUME NEW S \in SUBSET Nat, S # {}
  PROVE  Min(S) \in S /\ \A y \in S : Min(S) <= y
BY LeastExists DEF Min

\* Induction up to n, over a set.
LEMMA InductionTo ==
  ASSUME NEW n \in Nat, NEW S, 0 \in S, \A i \in 1..n : i - 1 \in S => i \in S
  PROVE  0..n \subseteq S
<1> SUFFICES ASSUME ~(0..n \subseteq S) PROVE FALSE
  OBVIOUS
<1> DEFINE M == {i \in 0..n : i \notin S}
<1>0. M \in SUBSET Nat /\ M # {}
  OBVIOUS
<1>1. PICK x \in M : \A y \in M : x <= y
  <2> HIDE DEF M
  <2> QED BY <1>0, LeastExists
<1>2. x \in 1..n
  OBVIOUS
<1>3. x - 1 \in 0..n /\ x - 1 \notin M
  BY <1>1, <1>2
<1> QED BY <1>2, <1>3

\* f is the course of a recursion of m steps that begins with a.
Course(m, T, a, step, f) ==
    f \in [0..m -> T] /\ f[0] = a /\ \A i \in 1..m : f[i] = step[<<f[i - 1], i>>]

\* The steps of a recursion can be taken one after the other.
LEMMA RecursionTo ==
  ASSUME NEW n \in Nat, NEW T, NEW a \in T, NEW step \in [T \X (1..n) -> T]
  PROVE  \E f : Course(n, T, a, step, f)
<1> DEFINE Done(m, f) == Course(m, T, a, step, f)
           S == {m \in 0..n : \E f : Done(m, f)}
<1>1. 0 \in S
  <2>1. Done(0, [i \in 0..0 |-> a])
    BY DEF Course
  <2> HIDE DEF Done
  <2>2. 0 \in 0..n
    OBVIOUS
  <2> QED BY <2>1, <2>2
<1>2. ASSUME NEW m \in 1..n, m - 1 \in S PROVE m \in S
  <2>1. PICK f : Done(m - 1, f)
    BY <1>2
  <2>0. f \in [0..(m - 1) -> T] /\ f[0] = a /\ \A i \in 1..(m - 1) : f[i] = step[<<f[i - 1], i>>]
    BY <2>1 DEF Course
  <2> DEFINE g == [i \in 0..m |-> IF i = m THEN step[<<f[m - 1], m>>] ELSE f[i]]
  <2>2. f[m - 1] \in T /\ step[<<f[m - 1], m>>] \in T
    BY <2>0
  <2>3. g \in [0..m -> T] /\ g[0] = a
    BY <2>0, <2>2
  <2>4. ASSUME NEW i \in 1..m PROVE g[i] = step[<<g[i - 1], i>>]
    <3>1. i - 1 \in 0..m /\ i - 1 # m /\ i \in 0..m
      OBVIOUS
    <3>2. g[i - 1] = f[i - 1]
      BY <3>1
    <3>3. CASE i = m
      BY <3>1, <3>2, <3>3
    <3>4. CASE i # m
      <4>1. i \in 1..(m - 1)
        BY <3>4
      <4>2. f[i] = step[<<f[i - 1], i>>]
        BY <2>0, <4>1
      <4> QED BY <3>1, <3>2, <3>4, <4>2
    <3> QED BY <3>3, <3>4
  <2>5. Done(m, g)
    BY <2>3, <2>4 DEF Course
  <2> HIDE DEF Done, g
  <2>6. m \in 0..n
    OBVIOUS
  <2> QED BY <2>5, <2>6
<1>3. n \in S
  <2> HIDE DEF S
  <2>1. 0..n \subseteq S
    BY <1>1, <1>2, InductionTo
  <2> QED BY <2>1
<1> QED BY <1>3

\* The remainder of a sum of two numbers below n, and of a number for twice n.
LEMMA SumMod ==
  ASSUME NEW n \in Nat \ {0}, NEW a \in 0..(n - 1), NEW d \in 0..n
  PROVE  (a + d) % n = IF a + d < n THEN a + d ELSE a + d - n
OBVIOUS

LEMMA ModIs ==
  ASSUME NEW n \in Nat \ {0}, NEW q \in Nat, NEW r \in 0..(n - 1), NEW v \in Nat, v = n * q + r
  PROVE  v % n = r
OBVIOUS

LEMMA DivMod ==
  ASSUME NEW n \in Nat \ {0}, NEW v \in Nat
  PROVE  v \div n \in Nat /\ v % n \in 0..(n - 1) /\ v = n * (v \div n) + (v % n)
OBVIOUS

LEMMA TwiceMod ==
  ASSUME NEW n \in Nat \ {0}, NEW v \in Nat
  PROVE  /\ v % n \in 0..(n - 1) /\ v % (2 * n) \in 0..(2 * n - 1)
         /\ v % (2 * n) = v % n \/ v % (2 * n) = (v % n) + n
<1>0. PICK m \in Nat \ {0} : m = 2 * n
  OBVIOUS
<1>1. PICK q \in Nat, r \in 0..(m - 1) : r = v % m /\ v = m * q + r
  BY DivMod
<1>2. CASE r < n
  <2>1. PICK p \in Nat : p = 2 * q
    OBVIOUS
  <2>2. v = n * p + r
    BY <1>0, <1>1, <2>1
  <2>3. r \in 0..(n - 1)
    BY <1>2
  <2>4. v % n = r
    BY ONLY n \in Nat \ {0}, v \in Nat, <2>2, <2>3, p \in Nat, ModIs
  <2> QED BY <1>0, <1>1, <2>3, <2>4
<1>3. CASE r >= n
  <2>1. PICK p \in Nat : p = 2 * q + 1
    OBVIOUS
  <2>2. PICK e \in 0..(n - 1) : r = n + e
    BY <1>0, <1>3
  <2>3. v = n * p + e
    BY <1>0, <1>1, <2>1, <2>2
  <2>4. v % n = e
    BY ONLY n \in Nat \ {0}, v \in Nat, <2>2, <2>3, p \in Nat, ModIs
  <2> QED BY <1>0, <1>1, <2>2, <2>4
<1> QED BY <1>2, <1>3

-----------------------------------------------------------------------------
(* Probing *)

\* Buckets and ideal buckets.
LEMMA IdealFacts ==
  ASSUME NEW n \in Nat \ {0}, NEW key \in Keys, hash \in [Keys -> Hashes]
  PROVE  Ideal(key, n) \in Slots(n) /\ Ideal(key, n) = hash[key] % n
<1>1. hash[key] \in Nat
  BY KeysAssumption
<1>2. PICK v \in Nat : v = hash[key]
  BY <1>1
<1>3. v % n \in 0..(n - 1)
  BY DivMod
<1> QED BY <1>2, <1>3 DEF Ideal, Slots

\* The bucket that a search comes to after d steps, and the ones it has passed.
LEMMA SlotFacts ==
  ASSUME NEW n \in Nat \ {0}, NEW key \in Keys, hash \in [Keys -> Hashes], NEW d \in Slots(n)
  PROVE  /\ SlotAt(key, d, n) \in Slots(n)
         /\ \A s \in Slots(n) : Between(Ideal(key, n), SlotAt(key, d, n), s) =>
                \E e \in 0..d : s = SlotAt(key, e, n)
         /\ \A s \in Slots(n) : \E e \in Slots(n) : s = SlotAt(key, e, n)
<1>1. PICK a \in 0..(n - 1) : a = Ideal(key, n)
  BY IdealFacts DEF Slots
<1>2. \A e \in 0..n : SlotAt(key, e, n) = IF a + e < n THEN a + e ELSE a + e - n
  BY <1>1, SumMod DEF SlotAt
<1>3. d \in 0..(n - 1) /\ d \in 0..n
  BY DEF Slots
<1>4. SlotAt(key, d, n) = IF a + d < n THEN a + d ELSE a + d - n
  BY <1>2, <1>3
<1>5. SlotAt(key, d, n) \in Slots(n)
  BY <1>3, <1>4 DEF Slots
<1>6. ASSUME NEW s \in Slots(n), NEW e \in 0..(n - 1), s = (IF a + e < n THEN a + e ELSE a + e - n)
      PROVE  s = SlotAt(key, e, n)
  BY <1>2, <1>6
<1>7. ASSUME NEW s \in Slots(n)
      PROVE  \E e \in Slots(n) : s = SlotAt(key, e, n)
  <2>1. s \in 0..(n - 1)
    BY DEF Slots
  <2>2. PICK e \in 0..(n - 1) : s = IF a + e < n THEN a + e ELSE a + e - n
    <3>1. CASE s >= a
      <4>1. s - a \in 0..(n - 1) /\ a + (s - a) < n /\ s = a + (s - a)
        BY <2>1, <3>1
      <4> QED BY <4>1
    <3>2. CASE s < a
      <4>1. s - a + n \in 0..(n - 1) /\ ~(a + (s - a + n) < n) /\ s = a + (s - a + n) - n
        BY <2>1, <3>2
      <4> QED BY <4>1
    <3> QED BY <2>1, <3>1, <3>2
  <2>3. s = SlotAt(key, e, n)
    BY <1>6, <2>2
  <2> QED BY <2>3 DEF Slots
<1>8. ASSUME NEW s \in Slots(n), Between(a, SlotAt(key, d, n), s)
      PROVE  \E e \in 0..d : s = SlotAt(key, e, n)
  <2>1. s \in 0..(n - 1)
    BY DEF Slots
  <2>2. PICK j \in 0..(n - 1) : j = SlotAt(key, d, n) /\ j = IF a + d < n THEN a + d ELSE a + d - n
    BY <1>4, <1>5 DEF Slots
  <2>3. IF a <= j THEN a <= s /\ s <= j ELSE a <= s \/ s <= j
    BY <1>8, <2>2 DEF Between
  <2>4. PICK e \in 0..(n - 1) : e <= d /\ s = IF a + e < n THEN a + e ELSE a + e - n
    <3>1. CASE s >= a
      <4>1. s - a \in 0..(n - 1) /\ s - a <= d /\ a + (s - a) < n /\ s = a + (s - a)
        BY <1>3, <2>1, <2>2, <2>3, <3>1
      <4> QED BY <4>1
    <3>2. CASE s < a
      <4>1. s - a + n \in 0..(n - 1) /\ s - a + n <= d /\ ~(a + (s - a + n) < n) /\ s = a + (s - a + n) - n
        BY <1>3, <2>1, <2>2, <2>3, <3>2
      <4> QED BY <4>1
    <3> QED BY <2>1, <3>1, <3>2
  <2>5. s = SlotAt(key, e, n)
    BY <1>6, <2>4
  <2>6. e \in 0..d
    BY <1>3, <2>4
  <2> QED BY <2>5, <2>6
<1> QED BY <1>1, <1>5, <1>7, <1>8

\* If there is a bucket to stop at, a search stops at one, and has passed none.
LEMMA Probe ==
  ASSUME NEW n \in Nat \ {0}, NEW key \in Keys, hash \in [Keys -> Hashes],
         NEW t, NEW stop, NEW f \in Slots(n), t[f] \in stop
  PROVE  \E j \in Slots(n) :
            /\ SlotAt(key, Steps(t, n, key, stop), n) = j
            /\ t[j] \in stop
            /\ \A s \in Slots(n) : Between(hash[key] % n, j, s) /\ s # j => t[s] \notin stop
<1> DEFINE D == {d \in Slots(n) : t[SlotAt(key, d, n)] \in stop}
           E == D \cup {n}
<1>1. E \in SUBSET Nat /\ E # {}
  BY DEF Slots
<1>2. PICK m : m = Min(E)
  OBVIOUS
<1>3. m \in E /\ \A y \in E : m <= y
  <2> HIDE DEF E
  <2> QED BY <1>1, <1>2, MinFacts
<1>4. PICK g \in Slots(n) : f = SlotAt(key, g, n)
  <2>1. 0 \in Slots(n)
    BY DEF Slots
  <2> QED BY <2>1, SlotFacts
<1>5. g \in D
  BY <1>4
<1>6. m \in Slots(n) /\ t[SlotAt(key, m, n)] \in stop
  <2>1. m <= g /\ g < n /\ g \in Nat
    BY <1>3, <1>5 DEF Slots
  <2>2. m # n
    BY <1>1, <1>3, <2>1
  <2> QED BY <1>3, <2>2
<1>7. m = Steps(t, n, key, stop)
  BY <1>2 DEF Steps
<1>8. PICK j \in Slots(n) : j = SlotAt(key, m, n)
  BY <1>6, SlotFacts
<1>9. ASSUME NEW s \in Slots(n), Between(hash[key] % n, j, s), s # j PROVE t[s] \notin stop
  <2>1. PICK e \in 0..m : s = SlotAt(key, e, n)
    <3>1. Between(Ideal(key, n), SlotAt(key, m, n), s)
      BY <1>8, <1>9, IdealFacts
    <3> QED BY <1>6, <3>1, SlotFacts
  <2>2. e # m
    BY <1>8, <1>9, <2>1
  <2>3. e \in Slots(n) /\ ~(m <= e)
    BY <1>6, <2>1, <2>2 DEF Slots
  <2>4. e \notin D
    BY <1>3, <2>3
  <2> QED BY <2>1, <2>3, <2>4
<1> QED BY <1>6, <1>7, <1>8, <1>9

-----------------------------------------------------------------------------
(* Operations on a table in order *)

\* A table with fewer keys than buckets has a free bucket.
LEMMA FreeBucket ==
  ASSUME NEW n \in Nat \ {0}, NEW t \in Table(n), Once(t, n),
         NEW keys, IsFiniteSet(keys), Cardinality(keys) < n,
         \A j \in Slots(n) : t[j] # Invalid => t[j] \in keys
  PROVE  \E f \in Slots(n) : t[f] = Invalid
<1> SUFFICES ASSUME \A f \in Slots(n) : t[f] # Invalid PROVE FALSE
  OBVIOUS
<1> DEFINE g == [j \in Slots(n) |-> t[j]]
<1>1. g \in [Slots(n) -> keys] /\ \A i, j \in Slots(n) : g[i] = g[j] => i = j
  BY DEF Once
<1>2. g \in Injection(Slots(n), keys)
  BY <1>1 DEF Injection, IsInjective
<1>3. Cardinality(Slots(n)) <= Cardinality(keys)
  BY ONLY <1>2, IsFiniteSet(keys), FS_Injection
<1>4. Cardinality(Slots(n)) = n
  BY FS_Interval DEF Slots
<1>5. Cardinality(keys) \in Nat
  BY FS_CardinalityType
<1> QED BY <1>3, <1>4, <1>5

\* Find finds the keys of a table that has a free bucket, and no other.
LEMMA FindFacts ==
  ASSUME NEW n \in Nat \ {0}, hash \in [Keys -> Hashes], NEW t, NEW keys,
         InOrder(hash, t, n, keys), NEW f \in Slots(n), t[f] = Invalid, NEW key \in Keys
  PROVE  Find(t, n, key) <=> key \in keys
<1>1. PICK j \in Slots(n) :
            /\ SlotAt(key, Steps(t, n, key, {key, Invalid}), n) = j
            /\ t[j] \in {key, Invalid}
            /\ \A s \in Slots(n) : Between(hash[key] % n, j, s) /\ s # j => t[s] \notin {key, Invalid}
  BY Probe
<1>2. Find(t, n, key) <=> t[j] = key
  BY <1>1 DEF Find
<1>3. ASSUME t[j] = key PROVE key \in keys
  BY <1>3 DEF InOrder, Holds
<1>4. ASSUME key \in keys, t[j] # key PROVE FALSE
  <2>1. PICK i \in Slots(n) : t[i] = key
    BY <1>4 DEF InOrder, Holds
  <2>2. t[j] = Invalid /\ t[i] # Invalid
    BY <1>1, <1>4, <2>1, KeysAssumption
  <2>3. ~Between(hash[key] % n, i, j)
    BY <2>1, <2>2 DEF InOrder, Reachable, Reached
  <2>4. ~Between(hash[key] % n, j, i)
    BY <1>1, <2>1, <2>2
  <2>5. hash[key] % n \in Int /\ i \in Int /\ j \in Int
    BY IdealFacts DEF Slots
  <2> QED BY ONLY <2>3, <2>4, <2>5 DEF Between
<1> QED BY <1>2, <1>3, <1>4

\* UncheckedInsert puts a new key where it is found, and moves nothing.
LEMMA InsertFacts ==
  ASSUME NEW n \in Nat \ {0}, hash \in [Keys -> Hashes], NEW t, NEW keys,
         InOrder(hash, t, n, keys), NEW f \in Slots(n), t[f] = Invalid, NEW key \in Keys, key \notin keys
  PROVE  InOrder(hash, UncheckedInsert(t, n, key), n, keys \cup {key})
<1>1. PICK j \in Slots(n) :
            /\ SlotAt(key, Steps(t, n, key, {Invalid}), n) = j
            /\ t[j] \in {Invalid}
            /\ \A s \in Slots(n) : Between(hash[key] % n, j, s) /\ s # j => t[s] \notin {Invalid}
  BY Probe
<1>2. PICK u : u = UncheckedInsert(t, n, key)
  OBVIOUS
<1>3. u = [t EXCEPT ![j] = key]
  BY <1>1, <1>2 DEF UncheckedInsert
<1>4. t \in Table(n)
  BY DEF InOrder
<1>5. /\ u \in Table(n) /\ u[j] = key
      /\ \A s \in Slots(n) : s # j => u[s] = t[s]
  BY <1>3, <1>4 DEF Table
<1>6. key # Invalid
  BY KeysAssumption
<1>7. Reachable(hash, u, n)
  <2> SUFFICES ASSUME NEW i \in Slots(n), u[i] # Invalid, NEW s \in Slots(n), Between(hash[u[i]] % n, i, s)
               PROVE  u[s] # Invalid
    BY DEF Reachable, Reached
  <2>1. CASE s = j
    BY <1>5, <1>6, <2>1
  <2>2. CASE s # j /\ i = j
    BY <1>1, <1>5, <2>2
  <2>3. CASE s # j /\ i # j
    <3>1. t[i] # Invalid /\ Between(hash[t[i]] % n, i, s)
      BY <1>5, <2>3
    <3> QED BY <1>5, <2>3, <3>1 DEF InOrder, Reachable, Reached
  <2> QED BY <2>1, <2>2, <2>3
<1>8. \A s \in Slots(n) : t[s] # key
  BY DEF InOrder, Holds
<1>9. Once(u, n)
  BY <1>5, <1>8 DEF InOrder, Once
<1>10. Holds(u, n, keys \cup {key})
  <2> SUFFICES ASSUME NEW k \in Keys PROVE k \in keys \cup {key} <=> \E i \in Slots(n) : u[i] = k
    BY DEF Holds
  <2>1. k \in keys <=> \E i \in Slots(n) : t[i] = k
    BY DEF InOrder, Holds
  <2>2. CASE k = key
    BY <1>5, <2>2
  <2>3. CASE k # key
    <3>1. t[j] # k
      BY <1>1, KeysAssumption
    <3> QED BY <1>5, <2>1, <2>3, <3>1
  <2> QED BY <2>2, <2>3
<1> QED BY <1>2, <1>5, <1>7, <1>9, <1>10 DEF InOrder

\* A table that was cleared has no keys.
LEMMA EmptyFacts ==
  ASSUME NEW n \in Nat \ {0}
  PROVE  InOrder(hash, EmptyTable(n), n, {}) /\ IsFiniteSet({}) /\ Cardinality({}) = 0
<1>1. \A j \in Slots(n) : EmptyTable(n)[j] = Invalid
  BY DEF EmptyTable
<1>2. EmptyTable(n) \in Table(n)
  BY DEF EmptyTable, Table
<1> QED BY <1>1, <1>2, FS_EmptySet, KeysAssumption DEF InOrder, Reachable, Once, Holds

-----------------------------------------------------------------------------
(* Doubling: the entries that are moved *)

\* The table m of 2 * n buckets after buckets 0..(i - 1) of the old table t have
\* been visited.  Later ones are as they were; an entry that was moved is at or
\* before its old place in its half of the table, and no search for it goes
\* round the end or from one half to the other.
Settled(h, m, n, j) ==
    /\ h[m[j]] % (2 * n) <= j
    /\ j >= n => h[m[j]] % (2 * n) >= n
    /\ \A s \in Slots(2 * n) : h[m[j]] % (2 * n) <= s /\ s <= j => m[s] # Invalid

MovedAt(h, t, n, m, i) ==
    /\ m \in Table(2 * n)
    /\ \A j \in Slots(2 * n) : i <= j /\ j < n => m[j] = WithoutRolled(t, n)[j]
    /\ \A j \in Slots(2 * n) : n + i <= j => m[j] = Invalid
    /\ \A j \in Slots(2 * n) : (j < i \/ n <= j) /\ m[j] # Invalid => Settled(h, m, n, j)
    /\ Once(m, 2 * n)
    /\ \A k \in Keys : (\E j \in Slots(2 * n) : m[j] = k) <=> \E j \in Slots(2 * n) : WithoutRolled(t, n)[j] = k

\* The rolled-over entries end at a free bucket.
LEMMA RolledFacts ==
  ASSUME NEW n \in Nat \ {0}, NEW t \in Table(n), NEW f \in Slots(n), t[f] = Invalid
  PROVE  /\ RolledOver(t, n) \in Slots(n) /\ t[RolledOver(t, n)] = Invalid
         /\ \A i \in Slots(n) : i < RolledOver(t, n) => t[i] # Invalid
<1> DEFINE E == {i \in Slots(n) : t[i] = Invalid} \cup {n}
<1>1. E \in SUBSET Nat /\ E # {} /\ f \in E
  BY DEF Slots
<1>2. PICK r : r = Min(E)
  OBVIOUS
<1>3. r \in E /\ \A y \in E : r <= y
  <2> HIDE DEF E
  <2> QED BY <1>1, <1>2, MinFacts
<1>4. r = RolledOver(t, n)
  BY <1>2 DEF RolledOver
<1>5. f < n /\ f \in Nat
  BY DEF Slots
<1>6. r # n
  BY <1>1, <1>3, <1>5
<1>7. r \in Slots(n) /\ t[r] = Invalid
  BY <1>3, <1>6
<1>8. ASSUME NEW i \in Slots(n), i < r PROVE t[i] # Invalid
  <2>1. ~(r <= i)
    BY <1>7, <1>8 DEF Slots
  <2> QED BY <1>3, <2>1
<1> QED BY <1>4, <1>7, <1>8

\* What is left after the rolled-over entries were set aside: old buckets, with
\* entries that a search from their ideal bucket meets without going round.
LEMMA WithoutFacts ==
  ASSUME NEW n \in Nat \ {0}, hash \in [Keys -> Hashes], NEW t, NEW keys,
         InOrder(hash, t, n, keys), NEW f \in Slots(n), t[f] = Invalid
  PROVE  /\ WithoutRolled(t, n) \in Table(2 * n)
         /\ \A j \in Slots(2 * n) : n <= j \/ j < RolledOver(t, n) => WithoutRolled(t, n)[j] = Invalid
         /\ \A j \in Slots(n) : RolledOver(t, n) <= j => WithoutRolled(t, n)[j] = t[j]
         /\ \A j \in Slots(n) : WithoutRolled(t, n)[j] # Invalid => t[j] \in Keys /\ hash[t[j]] % n <= j
<1>1. t \in Table(n)
  BY DEF InOrder
<1>2. PICK r : r = RolledOver(t, n)
  OBVIOUS
<1>3. r \in Slots(n) /\ t[r] = Invalid
  BY <1>1, <1>2, RolledFacts
<1>4. PICK w : w = WithoutRolled(t, n)
  OBVIOUS
<1>5. \A j \in Slots(2 * n) : w[j] = IF j < r THEN Invalid ELSE Enlarged(t, n)[j]
  BY <1>2, <1>4 DEF WithoutRolled
<1>6. \A j \in Slots(2 * n) : Enlarged(t, n)[j] = IF j < n THEN t[j] ELSE Invalid
  BY DEF Enlarged
<1>7. \A j \in Slots(2 * n) : w[j] = IF j < r \/ n <= j THEN Invalid ELSE t[j]
  BY <1>3, <1>5, <1>6 DEF Slots
<1>8. w = [j \in Slots(2 * n) |-> w[j]]
  BY <1>4 DEF WithoutRolled
<1>9. \A j \in Slots(2 * n) : j < n => j \in Slots(n)
  BY DEF Slots
<1>10. \A j \in Slots(2 * n) : w[j] \in Keys \cup {Invalid}
  BY <1>1, <1>7, <1>9 DEF Table, Slots
<1>11. w \in Table(2 * n)
  BY <1>8, <1>10 DEF Table
<1>12. \A j \in Slots(n) : j \in Slots(2 * n) /\ j < n
  BY DEF Slots
<1>13. ASSUME NEW j \in Slots(n), w[j] # Invalid PROVE t[j] \in Keys /\ hash[t[j]] % n <= j
  <2>1. w[j] = t[j] /\ ~(j < r)
    BY <1>7, <1>12, <1>13
  <2>2. t[j] \in Keys
    BY <1>1, <1>13, <2>1 DEF Table
  <2>3. PICK a \in Slots(n) : a = hash[t[j]] % n
    BY <2>2, IdealFacts
  <2>4. ~Between(a, j, r)
    BY <1>3, <1>13, <2>1, <2>3 DEF InOrder, Reachable, Reached
  <2>5. a \in Int /\ j \in Int /\ r \in Int
    BY <1>3 DEF Slots
  <2>6. a <= j
    BY ONLY <2>1, <2>4, <2>5 DEF Between
  <2> QED BY <2>2, <2>3, <2>6
<1> QED BY <1>2, <1>3, <1>4, <1>7, <1>11, <1>12, <1>13 DEF Slots

\* An entry x is taken from bucket i of the old table and put in bucket j: no
\* later than before, in one half of the table or the other.
GoesTo(v, n, x, i, j) ==
    /\ SlotAt(x, Steps(v, 2 * n, x, {Invalid}), 2 * n) = j
    /\ j <= i \/ n <= j
    /\ j <= n + i
    /\ v[j] = Invalid
    /\ hash[x] % (2 * n) <= j
    /\ n <= j => n <= hash[x] % (2 * n)
    /\ \A s \in Slots(2 * n) : hash[x] % (2 * n) <= s /\ s <= j /\ s # j => v[s] # Invalid

\* When bucket i is visited, its entry goes to such a bucket.
LEMMA MoveTarget ==
  ASSUME NEW n \in Nat \ {0}, hash \in [Keys -> Hashes], NEW v, NEW x \in Keys, NEW i \in Slots(n),
         hash[x] % n <= i, v[i] = Invalid, v[n + i] = Invalid
  PROVE  \E j \in Slots(2 * n) : GoesTo(v, n, x, i, j)
<1>1. PICK N \in Nat \ {0} : N = 2 * n
  OBVIOUS
<1>2. i \in Slots(N) /\ n + i \in Slots(N) /\ i \in Nat /\ i < n
  BY <1>1 DEF Slots
<1>3. PICK j \in Slots(N) :
            /\ SlotAt(x, Steps(v, N, x, {Invalid}), N) = j
            /\ v[j] \in {Invalid}
            /\ \A s \in Slots(N) : Between(hash[x] % N, j, s) /\ s # j => v[s] \notin {Invalid}
  BY <1>2, Probe
<1>4. PICK h \in Nat : h = hash[x]
  BY KeysAssumption
<1>5. PICK a \in 0..(n - 1) : a = hash[x] % n
  BY <1>4, TwiceMod
<1>6. PICK b \in 0..(N - 1) : b = hash[x] % N /\ (b = a \/ b = a + n)
  BY <1>1, <1>4, <1>5, TwiceMod
<1>7. a <= i
  BY <1>5
<1>8. ~Between(b, j, i) \/ i = j
  BY <1>2, <1>3, <1>6
<1>9. ~Between(b, j, n + i) \/ n + i = j
  BY <1>2, <1>3, <1>6
<1>10. j \in 0..(N - 1)
  BY DEF Slots
<1>11. b <= j /\ (j <= i \/ n <= j) /\ j <= n + i /\ (n <= j => n <= b)
  BY ONLY <1>1, <1>2, <1>6, <1>7, <1>8, <1>9, <1>10, n \in Nat \ {0} DEF Between
<1>12. ASSUME NEW s \in Slots(N), b <= s, s <= j, s # j PROVE v[s] # Invalid
  <2>1. Between(b, j, s)
    BY <1>11, <1>12 DEF Between
  <2> QED BY <1>3, <1>6, <1>12, <2>1
<1> QED BY <1>1, <1>3, <1>6, <1>11, <1>12 DEF GoesTo

\* Visiting a bucket.
LEMMA MoveStep ==
  ASSUME NEW n \in Nat \ {0}, hash \in [Keys -> Hashes], NEW t, NEW keys,
         InOrder(hash, t, n, keys), NEW f \in Slots(n), t[f] = Invalid,
         NEW i \in Slots(n), NEW m, MovedAt(hash, t, n, m, i)
  PROVE  MovedAt(hash, t, n, Reinserted(m, 2 * n, i), i + 1)
<1>1. PICK w : w = WithoutRolled(t, n)
  OBVIOUS
<1>2. /\ m \in Table(2 * n)
      /\ \A j \in Slots(2 * n) : i <= j /\ j < n => m[j] = w[j]
      /\ \A j \in Slots(2 * n) : n + i <= j => m[j] = Invalid
      /\ \A j \in Slots(2 * n) : (j < i \/ n <= j) /\ m[j] # Invalid => Settled(hash, m, n, j)
      /\ Once(m, 2 * n)
      /\ \A k \in Keys : (\E j \in Slots(2 * n) : m[j] = k) <=> \E j \in Slots(2 * n) : w[j] = k
  BY <1>1 DEF MovedAt
<1>3. i \in Slots(2 * n) /\ n + i \in Slots(2 * n) /\ i \in Nat /\ i < n
  BY DEF Slots
<1>4. \A j \in Slots(2 * n) : j \in Nat
  BY DEF Slots
<1>5. CASE m[i] = Invalid
  <2>1. Reinserted(m, 2 * n, i) = m
    BY <1>5 DEF Reinserted
  <2>2. \A j \in Slots(2 * n) : i + 1 <= j /\ j < n => m[j] = w[j]
    BY <1>2, <1>3, <1>4
  <2>3. \A j \in Slots(2 * n) : n + (i + 1) <= j => m[j] = Invalid
    BY <1>2, <1>3, <1>4
  <2>4. ASSUME NEW j \in Slots(2 * n), j < i + 1 \/ n <= j, m[j] # Invalid PROVE Settled(hash, m, n, j)
    <3>1. j # i
      BY <1>5, <2>4
    <3>2. j < i \/ n <= j
      BY <1>3, <1>4, <2>4, <3>1
    <3> QED BY <1>2, <2>4, <3>2
  <2> QED BY <1>1, <1>2, <2>1, <2>2, <2>3, <2>4 DEF MovedAt
<1>6. CASE m[i] # Invalid
  <2>1. PICK x : x = m[i]
    OBVIOUS
  <2>2. x \in Keys /\ x # Invalid
    BY <1>2, <1>3, <1>6, <2>1 DEF Table
  <2>3. x = t[i] /\ hash[x] % n <= i
    <3>1. w[i] = x
      BY <1>2, <1>3, <2>1
    <3>2. /\ \A j \in Slots(2 * n) : n <= j \/ j < RolledOver(t, n) => w[j] = Invalid
          /\ \A j \in Slots(n) : RolledOver(t, n) <= j => w[j] = t[j]
          /\ \A j \in Slots(n) : w[j] # Invalid => t[j] \in Keys /\ hash[t[j]] % n <= j
      BY <1>1, WithoutFacts
    <3>3. RolledOver(t, n) \in Nat
      BY RolledFacts DEF InOrder, Slots
    <3>4. RolledOver(t, n) <= i
      BY <1>3, <2>2, <3>1, <3>2, <3>3
    <3> QED BY <2>2, <3>1, <3>2, <3>4
  <2>4. PICK v : v = [m EXCEPT ![i] = Invalid]
    OBVIOUS
  <2>5. /\ v \in Table(2 * n) /\ v[i] = Invalid
        /\ \A s \in Slots(2 * n) : s # i => v[s] = m[s]
    BY <1>2, <1>3, <2>4 DEF Table
  <2>6. v[n + i] = Invalid
    <3>1. n + i # i /\ n + i <= n + i
      BY <1>3
    <3> QED BY <1>2, <1>3, <2>5, <3>1
  <2>7. PICK e \in Slots(2 * n) :
            /\ SlotAt(x, Steps(v, 2 * n, x, {Invalid}), 2 * n) = e
            /\ e <= i \/ n <= e
            /\ e <= n + i
            /\ v[e] = Invalid
            /\ hash[x] % (2 * n) <= e
            /\ n <= e => n <= hash[x] % (2 * n)
            /\ \A s \in Slots(2 * n) : hash[x] % (2 * n) <= s /\ s <= e /\ s # e => v[s] # Invalid
    <3>1. hash[x] % n <= i /\ v[i] = Invalid
      BY <2>3, <2>5
    <3>2. PICK e \in Slots(2 * n) : GoesTo(v, n, x, i, e)
      BY ONLY n \in Nat \ {0}, hash \in [Keys -> Hashes], i \in Slots(n), <2>2, <2>6, <3>1, MoveTarget
    <3> QED BY <3>2 DEF GoesTo
  <2>8. PICK u : u = Reinserted(m, 2 * n, i)
    OBVIOUS
  <2>9. u = [v EXCEPT ![e] = x]
    BY <1>6, <2>1, <2>4, <2>7, <2>8 DEF Reinserted, UncheckedInsert
  <2>10. /\ u \in Table(2 * n) /\ u[e] = x
         /\ \A s \in Slots(2 * n) : s # e => u[s] = v[s]
    BY <2>2, <2>5, <2>9 DEF Table
  <2>11. \A s \in Slots(2 * n) : s # e /\ s # i => u[s] = m[s]
    BY <2>5, <2>10
  <2>12. i # e => u[i] = Invalid
    BY <1>3, <2>5, <2>10
  <2>13. ASSUME NEW j \in Slots(2 * n), i + 1 <= j, j < n PROVE u[j] = w[j]
    <3>1. j # e /\ j # i /\ i <= j
      BY <1>3, <1>4, <2>7, <2>13
    <3> QED BY <1>2, <2>11, <2>13, <3>1
  <2>14. ASSUME NEW j \in Slots(2 * n), n + (i + 1) <= j PROVE u[j] = Invalid
    <3>1. j # e /\ j # i /\ n + i <= j
      BY <1>3, <1>4, <2>7, <2>14
    <3> QED BY <1>2, <2>11, <3>1
  <2>15. ASSUME NEW j \in Slots(2 * n), j < i + 1 \/ n <= j, u[j] # Invalid PROVE Settled(hash, u, n, j)
    <3>1. CASE j = e
      <4>1. ASSUME NEW s \in Slots(2 * n), hash[x] % (2 * n) <= s, s <= e PROVE u[s] # Invalid
        <5>1. CASE s = e
          BY <2>2, <2>10, <5>1
        <5>2. CASE s # e
          BY <2>7, <2>10, <4>1, <5>2
        <5> QED BY <5>1, <5>2
      <4>2. u[j] = x
        BY <2>10, <3>1
      <4> QED BY <2>7, <3>1, <4>1, <4>2 DEF Settled
    <3>2. CASE j # e
      <4>1. j # i
        BY <2>12, <2>15, <3>2
      <4>2. u[j] = m[j] /\ (j < i \/ n <= j)
        BY <1>3, <1>4, <2>11, <2>15, <3>2, <4>1
      <4>3. Settled(hash, m, n, j)
        BY <1>2, <2>15, <4>2
      <4>4. PICK b \in 0..(2 * n - 1) : b = hash[m[j]] % (2 * n)
        <5>1. m[j] \in Keys
          BY <1>2, <2>15, <4>2 DEF Table
        <5>2. hash[m[j]] \in Nat
          BY <5>1, KeysAssumption
        <5> QED BY <5>2, TwiceMod
      <4>5. b <= j /\ (n <= j => n <= b) /\ \A s \in Slots(2 * n) : b <= s /\ s <= j => m[s] # Invalid
        BY <4>3, <4>4 DEF Settled
      <4>6. ASSUME NEW s \in Slots(2 * n), b <= s, s <= j PROVE u[s] # Invalid
        <5>1. s # i
          BY <1>3, <1>4, <4>2, <4>4, <4>5, <4>6
        <5>2. CASE s = e
          BY <2>2, <2>10, <5>2
        <5>3. CASE s # e
          BY <2>11, <4>5, <4>6, <5>1, <5>3
        <5> QED BY <5>2, <5>3
      <4>7. hash[u[j]] % (2 * n) = b
        BY <4>2, <4>4
      <4> QED BY <4>5, <4>6, <4>7 DEF Settled
    <3> QED BY <3>1, <3>2
  <2>16. ASSUME NEW s \in Slots(2 * n), s # i PROVE m[s] # x
    BY <1>2, <1>3, <1>6, <2>1, <2>16 DEF Once
  <2>17. Once(u, 2 * n)
    <3> SUFFICES ASSUME NEW j \in Slots(2 * n), NEW k \in Slots(2 * n), u[j] = u[k], u[j] # Invalid PROVE j = k
      BY DEF Once
    <3>1. (j = e \/ j # i) /\ (k = e \/ k # i)
      BY <2>12
    <3>2. CASE j = e /\ k # e
      BY <2>10, <2>11, <2>16, <3>1, <3>2
    <3>3. CASE j # e /\ k = e
      BY <2>10, <2>11, <2>16, <3>1, <3>3
    <3>4. CASE j # e /\ k # e
      <4>1. m[j] = m[k] /\ m[j] # Invalid
        BY <2>11, <3>1, <3>4
      <4> QED BY <1>2, <4>1 DEF Once
    <3> QED BY <3>2, <3>3, <3>4
  <2>18. ASSUME NEW k \in Keys
         PROVE  (\E j \in Slots(2 * n) : u[j] = k) <=> \E j \in Slots(2 * n) : m[j] = k
    <3>0. k # Invalid
      BY KeysAssumption
    <3>1. CASE k = x
      BY <1>3, <2>1, <2>10, <3>1
    <3>2. CASE k # x
      <4>1. ASSUME NEW j \in Slots(2 * n), u[j] = k PROVE m[j] = k
        <5>1. j # e /\ j # i
          BY <2>10, <2>12, <3>0, <3>2, <4>1
        <5> QED BY <2>11, <4>1, <5>1
      <4>2. ASSUME NEW j \in Slots(2 * n), m[j] = k PROVE u[j] = k
        <5>1. j # i
          BY <2>1, <3>2, <4>2
        <5>2. j # e
          BY <2>5, <2>7, <3>0, <4>2, <5>1
        <5> QED BY <2>11, <4>2, <5>1, <5>2
      <4> QED BY <4>1, <4>2
    <3> QED BY <3>1, <3>2
  <2>19. \A k \in Keys : (\E j \in Slots(2 * n) : u[j] = k) <=> \E j \in Slots(2 * n) : w[j] = k
    BY <1>2, <2>18
  <2> QED BY <1>1, <2>8, <2>10, <2>13, <2>14, <2>15, <2>17, <2>19 DEF MovedAt
<1> QED BY <1>5, <1>6

\* What the recursion over the old buckets computes.
LEMMA MovedFacts ==
  ASSUME NEW n \in Nat \ {0}, hash \in [Keys -> Hashes], NEW t, NEW keys,
         InOrder(hash, t, n, keys), NEW f \in Slots(n), t[f] = Invalid
  PROVE  MovedAt(hash, t, n, Moved(t, n)[n], n)
<1> DEFINE G(g) == [i \in 0..n |-> IF i = 0 THEN WithoutRolled(t, n) ELSE Reinserted(g[i - 1], 2 * n, i - 1)]
<1>1. Moved(t, n) = CHOOSE g : g = G(g)
  BY DEF Moved
<1>2. \E g : g = G(g)
  <2> DEFINE step == [p \in Table(2 * n) \X (1..n) |-> Reinserted(p[1], 2 * n, p[2] - 1)]
  <2>1. ASSUME NEW m \in Table(2 * n), NEW i \in 1..n
        PROVE  Reinserted(m, 2 * n, i - 1) \in Table(2 * n)
    <3>1. i - 1 \in Slots(2 * n)
      BY DEF Slots
    <3>2. CASE m[i - 1] = Invalid
      BY <3>2 DEF Reinserted
    <3>3. CASE m[i - 1] # Invalid
      <4>1. PICK s : s = SlotAt(m[i - 1], Steps([m EXCEPT ![i - 1] = Invalid], 2 * n, m[i - 1], {Invalid}), 2 * n)
        OBVIOUS
      <4>2. Reinserted(m, 2 * n, i - 1) = [[m EXCEPT ![i - 1] = Invalid] EXCEPT ![s] = m[i - 1]]
        BY <3>3, <4>1 DEF Reinserted, UncheckedInsert
      <4>3. m[i - 1] \in Keys \cup {Invalid}
        BY <3>1 DEF Table
      <4> QED BY <4>2, <4>3 DEF Table
    <3> QED BY <3>2, <3>3
  <2>2. step \in [Table(2 * n) \X (1..n) -> Table(2 * n)]
    <3>1. ASSUME NEW p \in Table(2 * n) \X (1..n) PROVE Reinserted(p[1], 2 * n, p[2] - 1) \in Table(2 * n)
      BY <2>1
    <3> QED BY <3>1
  <2>3. WithoutRolled(t, n) \in Table(2 * n)
    BY WithoutFacts
  <2>4. PICK g : Course(n, Table(2 * n), WithoutRolled(t, n), step, g)
    <3> HIDE DEF step
    <3> QED BY <2>2, <2>3, RecursionTo
  <2>0. /\ g \in [0..n -> Table(2 * n)] /\ g[0] = WithoutRolled(t, n)
        /\ \A i \in 1..n : g[i] = step[<<g[i - 1], i>>]
    <3> HIDE DEF step
    <3> QED BY <2>4 DEF Course
  <2>5. ASSUME NEW i \in 0..n
        PROVE  g[i] = IF i = 0 THEN WithoutRolled(t, n) ELSE Reinserted(g[i - 1], 2 * n, i - 1)
    <3>1. CASE i = 0
      BY <2>0, <3>1
    <3>2. CASE i # 0
      <4>1. i \in 1..n /\ i - 1 \in 0..n
        BY <3>2
      <4>2. <<g[i - 1], i>> \in Table(2 * n) \X (1..n)
        BY <2>0, <4>1
      <4>3. step[<<g[i - 1], i>>] = Reinserted(g[i - 1], 2 * n, i - 1)
        BY <4>2
      <4> HIDE DEF step
      <4> QED BY <2>0, <3>2, <4>1, <4>3
    <3> QED BY <3>1, <3>2
  <2>6. g = G(g)
    BY <2>0, <2>5
  <2> QED BY <2>6
<1>3. PICK g : g = Moved(t, n)
  OBVIOUS
<1>4. g = G(g)
  <2> HIDE DEF G
  <2> QED BY <1>1, <1>2, <1>3
<1>5. g[0] = WithoutRolled(t, n) /\ \A i \in 1..n : g[i] = Reinserted(g[i - 1], 2 * n, i - 1)
  BY <1>4
<1> DEFINE S == {i \in 0..n : MovedAt(hash, t, n, g[i], i)}
<1>6. 0 \in S
  <2>1. PICK w : w = WithoutRolled(t, n)
    OBVIOUS
  <2>2. w \in Table(2 * n) /\ \A j \in Slots(2 * n) : n <= j => w[j] = Invalid
    BY <2>1, WithoutFacts
  <2>3. Once(w, 2 * n)
    <3> SUFFICES ASSUME NEW i \in Slots(2 * n), NEW j \in Slots(2 * n), w[i] = w[j], w[i] # Invalid PROVE i = j
      BY DEF Once
    <3>1. /\ \A k \in Slots(2 * n) : n <= k \/ k < RolledOver(t, n) => w[k] = Invalid
          /\ \A k \in Slots(n) : RolledOver(t, n) <= k => w[k] = t[k]
      BY <2>1, WithoutFacts
    <3>2. RolledOver(t, n) \in Nat
      BY RolledFacts DEF InOrder, Slots
    <3>3. i \in Slots(n) /\ j \in Slots(n) /\ RolledOver(t, n) <= i /\ RolledOver(t, n) <= j
      BY <3>1, <3>2 DEF Slots
    <3>4. t[i] = t[j] /\ t[i] # Invalid
      BY <3>1, <3>3
    <3> QED BY <3>3, <3>4 DEF InOrder, Once
  <2>4. \A j \in Slots(2 * n) : j \in Nat /\ (j < 0 \/ n <= j => n <= j) /\ (n + 0 <= j => n <= j)
    BY DEF Slots
  <2>5. MovedAt(hash, t, n, w, 0)
    BY <2>1, <2>2, <2>3, <2>4 DEF MovedAt
  <2> QED BY <1>5, <2>1, <2>5
<1>7. ASSUME NEW i \in 1..n, i - 1 \in S PROVE i \in S
  <2>1. PICK k \in Slots(n) : k = i - 1
    BY DEF Slots
  <2>2. MovedAt(hash, t, n, g[k], k)
    BY <1>7, <2>1
  <2>3. MovedAt(hash, t, n, Reinserted(g[k], 2 * n, k), k + 1)
    BY <2>2, MoveStep
  <2>4. k + 1 = i /\ g[i] = Reinserted(g[k], 2 * n, k) /\ i \in 0..n
    BY <1>5, <2>1
  <2> QED BY <2>3, <2>4
<1>8. n \in S
  <2> HIDE DEF S
  <2>1. 0..n \subseteq S
    BY <1>6, <1>7, InductionTo
  <2> QED BY <2>1
<1> QED BY <1>3, <1>8

-----------------------------------------------------------------------------
(* Doubling: the entries that are put back *)

\* The keys that were not set aside, and those with the first i set aside.
Kept(t, n) == {k \in Keys : \E j \in Slots(2 * n) : WithoutRolled(t, n)[j] = k}
KeptAnd(t, n, i) == Kept(t, n) \cup {t[j] : j \in 0..(i - 1)}

\* When all old buckets were visited the table is in order.
LEMMA MovedInOrder ==
  ASSUME NEW n \in Nat \ {0}, hash \in [Keys -> Hashes], NEW t, NEW m, MovedAt(hash, t, n, m, n)
  PROVE  InOrder(hash, m, 2 * n, Kept(t, n))
<1>1. m \in Table(2 * n) /\ Once(m, 2 * n)
  BY DEF MovedAt
<1>2. Holds(m, 2 * n, Kept(t, n))
  BY DEF MovedAt, Holds, Kept
<1>3. Reachable(hash, m, 2 * n)
  <2> SUFFICES ASSUME NEW j \in Slots(2 * n), m[j] # Invalid,
                      NEW s \in Slots(2 * n), Between(hash[m[j]] % (2 * n), j, s)
               PROVE  m[s] # Invalid
    BY DEF Reachable, Reached
  <2>1. j < n \/ n <= j
    BY DEF Slots
  <2>2. Settled(hash, m, n, j)
    BY <2>1 DEF MovedAt
  <2>3. hash[m[j]] % (2 * n) <= s /\ s <= j
    BY <2>2 DEF Settled, Between
  <2> QED BY <2>2, <2>3 DEF Settled
<1> QED BY <1>1, <1>2, <1>3 DEF InOrder

\* The keys of a table are those kept and those set aside, each once.
LEMMA KeptFacts ==
  ASSUME NEW n \in Nat \ {0}, hash \in [Keys -> Hashes], NEW t, NEW keys,
         InOrder(hash, t, n, keys), NEW f \in Slots(n), t[f] = Invalid
  PROVE  /\ \A k \in Keys : k \in keys <=> k \in KeptAnd(t, n, RolledOver(t, n))
         /\ \A i \in Slots(n) : i < RolledOver(t, n) => t[i] \in Keys /\ t[i] \notin KeptAnd(t, n, i)
         /\ \A i \in 0..RolledOver(t, n) : \A k \in Keys : k \in KeptAnd(t, n, i) => k \in keys
<1>1. t \in Table(n) /\ Once(t, n) /\ Holds(t, n, keys)
  BY DEF InOrder
<1>2. PICK r \in Slots(n) : /\ r = RolledOver(t, n) /\ t[r] = Invalid
                            /\ \A i \in Slots(n) : i < r => t[i] # Invalid
  BY <1>1, RolledFacts
<1>3. PICK w : /\ w = WithoutRolled(t, n)
               /\ \A j \in Slots(2 * n) : n <= j \/ j < r => w[j] = Invalid
               /\ \A j \in Slots(n) : r <= j => w[j] = t[j]
  BY <1>2, WithoutFacts
<1>4. r \in Nat /\ r < n
  BY DEF Slots
<1>5. \A j \in Slots(n) : j \in Slots(2 * n) /\ j \in Nat
  BY DEF Slots
<1>6. \A j \in Slots(2 * n) : j \in Nat /\ (j < n => j \in Slots(n))
  BY DEF Slots
<1>7. \A k \in Keys : k \in Kept(t, n) <=> \E j \in Slots(n) : r <= j /\ t[j] = k
  <2> SUFFICES ASSUME NEW k \in Keys PROVE k \in Kept(t, n) <=> \E j \in Slots(n) : r <= j /\ t[j] = k
    OBVIOUS
  <2>0. k # Invalid
    BY KeysAssumption
  <2>1. ASSUME NEW j \in Slots(2 * n), w[j] = k PROVE j \in Slots(n) /\ r <= j /\ t[j] = k
    <3>1. ~(n <= j) /\ ~(j < r)
      BY <1>3, <2>0, <2>1
    <3>2. j \in Slots(n) /\ r <= j
      BY <1>4, <1>6, <3>1
    <3> QED BY <1>3, <2>1, <3>2
  <2>2. ASSUME NEW j \in Slots(n), r <= j, t[j] = k PROVE j \in Slots(2 * n) /\ w[j] = k
    BY <1>3, <1>5, <2>2
  <2>3. k \in Kept(t, n) <=> \E j \in Slots(2 * n) : w[j] = k
    BY <1>3 DEF Kept
  <2> QED BY <2>1, <2>2, <2>3
<1>8. \A i \in 0..r : \A j \in 0..(i - 1) : j \in Slots(n) /\ j < r
  BY <1>4 DEF Slots
<1>9. ASSUME NEW i \in 0..r, NEW k \in Keys, k \in KeptAnd(t, n, i) PROVE k \in keys
  <2>1. CASE k \in Kept(t, n)
    BY <1>1, <1>7, <2>1 DEF Holds
  <2>2. CASE \E j \in 0..(i - 1) : t[j] = k
    <3>1. PICK j \in 0..(i - 1) : t[j] = k
      BY <2>2
    <3>2. j \in Slots(n)
      BY <1>8
    <3> QED BY <1>1, <3>1, <3>2 DEF Holds
  <2> QED BY <1>9, <2>1, <2>2 DEF KeptAnd
<1>10. ASSUME NEW k \in Keys, k \in keys PROVE k \in KeptAnd(t, n, r)
  <2>1. PICK j \in Slots(n) : t[j] = k
    BY <1>1, <1>10 DEF Holds
  <2>2. CASE r <= j
    BY <1>7, <2>1, <2>2 DEF KeptAnd
  <2>3. CASE j < r
    <3>1. j \in 0..(r - 1)
      BY <1>4, <1>5, <2>3
    <3> QED BY <2>1, <3>1 DEF KeptAnd
  <2> QED BY <1>4, <1>5, <2>2, <2>3
<1>11. ASSUME NEW i \in Slots(n), i < r PROVE t[i] \in Keys /\ t[i] \notin KeptAnd(t, n, i)
  <2>1. t[i] # Invalid
    BY <1>2, <1>11
  <2>2. t[i] \in Keys
    BY <1>1, <2>1 DEF Table
  <2>3. i \in Nat
    BY <1>5
  <2>4. t[i] \notin Kept(t, n)
    <3> SUFFICES ASSUME NEW j \in Slots(n), r <= j, t[j] = t[i] PROVE FALSE
      BY <1>7, <2>2
    <3>1. j = i
      BY <1>1, <2>1 DEF Once
    <3> QED BY <1>4, <1>11, <2>3, <3>1
  <2>5. ASSUME NEW j \in 0..(i - 1), t[j] = t[i] PROVE FALSE
    <3>1. j \in Slots(n) /\ j # i
      BY <2>3 DEF Slots
    <3> QED BY <1>1, <2>1, <2>5, <3>1 DEF Once
  <2> QED BY <2>2, <2>4, <2>5 DEF KeptAnd
<1>12. r \in 0..r
  BY <1>4
<1> QED BY <1>2, <1>9, <1>10, <1>11, <1>12

\* Double keeps the table in order, and all its keys.
LEMMA DoubleFacts ==
  ASSUME NEW n \in Nat \ {0}, hash \in [Keys -> Hashes], NEW t, NEW keys,
         InOrder(hash, t, n, keys), keys \subseteq Keys, IsFiniteSet(keys), Cardinality(keys) < n
  PROVE  InOrder(hash, Double(t, n), 2 * n, keys)
<1>0. t \in Table(n) /\ Once(t, n) /\ Holds(t, n, keys)
  BY DEF InOrder
<1>1. PICK f \in Slots(n) : t[f] = Invalid
  <2>1. \A j \in Slots(n) : t[j] # Invalid => t[j] \in keys
    BY <1>0 DEF Table, Holds
  <2> QED BY <1>0, <2>1, FreeBucket
<1>2. PICK r : r = RolledOver(t, n)
  OBVIOUS
<1>3. r \in Nat /\ r < n
  BY <1>0, <1>1, <1>2, RolledFacts DEF Slots
<1>4. /\ \A k \in Keys : k \in keys <=> k \in KeptAnd(t, n, r)
      /\ \A i \in Slots(n) : i < r => t[i] \in Keys /\ t[i] \notin KeptAnd(t, n, i)
      /\ \A i \in 0..r : \A k \in Keys : k \in KeptAnd(t, n, i) => k \in keys
  BY <1>1, <1>2, KeptFacts
<1>5. InOrder(hash, Moved(t, n)[n], 2 * n, Kept(t, n))
  BY <1>1, MovedFacts, MovedInOrder
<1> DEFINE G(g) == [i \in 0..r |-> IF i = 0 THEN Moved(t, n)[n] ELSE UncheckedInsert(g[i - 1], 2 * n, t[i - 1])]
<1>6. PutBack(t, n) = CHOOSE g : g = G(g)
  BY <1>2 DEF PutBack
<1>7. ASSUME NEW i \in 1..r PROVE i - 1 \in Slots(n) /\ i - 1 < r /\ t[i - 1] \in Keys
  BY <1>3, <1>4, <1>7 DEF Slots
<1>8. \E g : g = G(g)
  <2> DEFINE step == [p \in Table(2 * n) \X (1..r) |-> UncheckedInsert(p[1], 2 * n, t[p[2] - 1])]
  <2>1. ASSUME NEW m \in Table(2 * n), NEW i \in 1..r
        PROVE  UncheckedInsert(m, 2 * n, t[i - 1]) \in Table(2 * n)
    <3>1. t[i - 1] \in Keys
      BY <1>7
    <3> QED BY <3>1 DEF UncheckedInsert, Table
  <2>2. step \in [Table(2 * n) \X (1..r) -> Table(2 * n)]
    <3>1. ASSUME NEW p \in Table(2 * n) \X (1..r) PROVE UncheckedInsert(p[1], 2 * n, t[p[2] - 1]) \in Table(2 * n)
      BY <2>1
    <3> QED BY <3>1
  <2>3. Moved(t, n)[n] \in Table(2 * n)
    BY <1>5 DEF InOrder
  <2>4. PICK g : Course(r, Table(2 * n), Moved(t, n)[n], step, g)
    <3> HIDE DEF step
    <3> QED BY <1>3, <2>2, <2>3, RecursionTo
  <2>5. /\ g \in [0..r -> Table(2 * n)] /\ g[0] = Moved(t, n)[n]
        /\ \A i \in 1..r : g[i] = step[<<g[i - 1], i>>]
    <3> HIDE DEF step
    <3> QED BY <2>4 DEF Course
  <2>6. ASSUME NEW i \in 0..r
        PROVE  g[i] = IF i = 0 THEN Moved(t, n)[n] ELSE UncheckedInsert(g[i - 1], 2 * n, t[i - 1])
    <3>1. CASE i = 0
      BY <2>5, <3>1
    <3>2. CASE i # 0
      <4>1. i \in 1..r /\ i - 1 \in 0..r
        BY <1>3, <3>2
      <4>2. <<g[i - 1], i>> \in Table(2 * n) \X (1..r)
        BY <2>5, <4>1
      <4>3. step[<<g[i - 1], i>>] = UncheckedInsert(g[i - 1], 2 * n, t[i - 1])
        BY <4>2
      <4> HIDE DEF step
      <4> QED BY <2>5, <3>2, <4>1, <4>3
    <3> QED BY <3>1, <3>2
  <2>7. g = G(g)
    BY <2>5, <2>6
  <2> QED BY <2>7
<1>9. PICK g : g = PutBack(t, n)
  OBVIOUS
<1>10. g = G(g)
  <2> HIDE DEF G
  <2> QED BY <1>6, <1>8, <1>9
<1>11. g[0] = Moved(t, n)[n] /\ \A i \in 1..r : g[i] = UncheckedInsert(g[i - 1], 2 * n, t[i - 1])
  BY <1>3, <1>10
<1> DEFINE S == {i \in 0..r : InOrder(hash, g[i], 2 * n, KeptAnd(t, n, i))}
<1>12. 0 \in S
  <2>1. KeptAnd(t, n, 0) = Kept(t, n)
    BY DEF KeptAnd
  <2> QED BY <1>3, <1>5, <1>11, <2>1
<1>13. ASSUME NEW i \in 1..r, i - 1 \in S PROVE i \in S
  <2>1. PICK k \in 0..r : k = i - 1 /\ k \in Slots(n) /\ k < r
    BY <1>3, <1>7
  <2>2. PICK b, N, had : b = g[k] /\ N = 2 * n /\ had = KeptAnd(t, n, k)
    OBVIOUS
  <2>3. InOrder(hash, b, N, had) /\ N \in Nat \ {0} /\ n < N
    BY <1>13, <2>1, <2>2
  <2>4. t[k] \in Keys /\ t[k] \notin had
    BY <1>4, <2>1, <2>2
  <2>5. PICK e \in Slots(N) : b[e] = Invalid
    <3>1. b \in Table(N) /\ Once(b, N) /\ Holds(b, N, had)
      BY <2>3 DEF InOrder
    <3>2. ASSUME NEW j \in Slots(N), b[j] # Invalid PROVE b[j] \in keys
      <4>1. b[j] \in Keys
        BY <3>1, <3>2 DEF Table
      <4>2. b[j] \in had
        BY <3>1, <4>1 DEF Holds
      <4> QED BY <1>4, <2>2, <4>1, <4>2
    <3>3. Cardinality(keys) < N
      <4>1. Cardinality(keys) \in Nat
        BY FS_CardinalityType
      <4> QED BY <2>3, <4>1
    <3> QED BY <2>3, <3>1, <3>2, <3>3, FreeBucket
  <2>6. InOrder(hash, UncheckedInsert(b, N, t[k]), N, had \cup {t[k]})
    BY <2>3, <2>4, <2>5, InsertFacts
  <2>7. had \cup {t[k]} = KeptAnd(t, n, i)
    <3>1. 0..(i - 1) = 0..(k - 1) \cup {k}
      BY <2>1
    <3> QED BY <2>2, <3>1 DEF KeptAnd
  <2>8. g[i] = UncheckedInsert(b, N, t[k])
    BY <1>11, <2>1, <2>2
  <2>9. i \in 0..r
    BY <1>3
  <2> QED BY <2>2, <2>6, <2>7, <2>8, <2>9
<1>14. r \in S
  <2> HIDE DEF S
  <2>1. 0..r \subseteq S
    BY <1>3, <1>12, <1>13, InductionTo
  <2> QED BY <1>3, <2>1
<1>15. InOrder(hash, Double(t, n), 2 * n, KeptAnd(t, n, r))
  BY <1>2, <1>9, <1>14 DEF Double
<1>16. Holds(Double(t, n), 2 * n, keys)
  BY <1>4, <1>15 DEF InOrder, Holds
<1> QED BY <1>15, <1>16 DEF InOrder

-----------------------------------------------------------------------------
(* The operations *)

LEMMA ThresholdFacts ==
  ASSUME NEW n \in Nat \ {0}
  PROVE  ThresholdFor(n) \in Nat /\ ThresholdFor(n) <= n - 1
<1>1. (3 * n) \div 4 \in Nat /\ n - 1 \in Nat
  OBVIOUS
<1>2. PICK a \in Nat, b \in Nat : a = n - 1 /\ b = (3 * n) \div 4
  BY <1>1
<1>3. {a, b} \in SUBSET Nat /\ {a, b} # {}
  OBVIOUS
<1>4. Min({a, b}) \in {a, b} /\ \A y \in {a, b} : Min({a, b}) <= y
  BY ONLY <1>3, MinFacts
<1>5. ThresholdFor(n) = Min({a, b})
  BY <1>2 DEF ThresholdFor
<1> QED BY <1>2, <1>4, <1>5

\* In a table with the keys that the invariant counts a bucket is free.
LEMMA FreeFacts ==
  ASSUME NEW n \in Nat \ {0}, NEW t, NEW keys, InOrder(hash, t, n, keys),
         IsFiniteSet(keys), Cardinality(keys) < n
  PROVE  \E f \in Slots(n) : t[f] = Invalid
<1>1. t \in Table(n) /\ Once(t, n) /\ Holds(t, n, keys)
  BY DEF InOrder
<1>2. \A j \in Slots(n) : t[j] # Invalid => t[j] \in keys
  BY <1>1 DEF Table, Holds
<1> QED BY <1>1, <1>2, FreeBucket

\* The table that an insertion finds.
LEMMA DoubledFacts ==
  ASSUME TableInv, NEW count \in {entries_, entries_ + 1}, MayGrow(count),
         NEW now, now = DoubledIfNeeded(count)
  PROVE  /\ now.n \in 1..MaxBuckets /\ buckets <= now.n /\ now.limit \in Nat
         /\ InOrder(hash, now.t, now.n, inserted)
         /\ \E f \in Slots(now.n) : now.t[f] = Invalid
         /\ auto => entries_ + 1 < now.n /\ now.limit = ThresholdFor(now.n)
         /\ ~auto => now.n = buckets
<1>1. /\ buckets \in 1..MaxBuckets /\ buckets \in Nat \ {0} /\ MaxBuckets \in Nat /\ entries_ \in Nat
      /\ hash \in [Keys -> Hashes] /\ threshold \in Nat /\ inserted \subseteq Keys
  BY SizesAssumption DEF TableInv, TableTypeOK
<1>2. InOrder(hash, table, buckets, inserted)
  BY DEF TableInv
<1>3. IsFiniteSet(inserted) /\ Cardinality(inserted) < buckets
  BY <1>1 DEF TableInv, CountAt
<1>4. auto => entries_ < buckets /\ threshold = ThresholdFor(buckets)
  BY DEF TableInv, CountAt
<1>5. CASE auto /\ count >= threshold
  <2>1. now = [t |-> Double(table, buckets), n |-> 2 * buckets, limit |-> ThresholdFor(2 * buckets)]
    BY <1>5 DEF DoubledIfNeeded
  <2>2. now.t = Double(table, buckets) /\ now.n = 2 * buckets /\ now.limit = ThresholdFor(2 * buckets)
    BY <2>1
  <2>3. 2 * buckets <= MaxBuckets
    BY <1>5 DEF MayGrow
  <2>4. InOrder(hash, Double(table, buckets), 2 * buckets, inserted)
    BY <1>1, <1>2, <1>3, DoubleFacts
  <2>5. PICK N \in Nat \ {0} : N = 2 * buckets
    BY <1>1
  <2>6. N \in 1..MaxBuckets /\ buckets <= N /\ entries_ + 1 < N
    BY <1>1, <1>4, <1>5, <2>3, <2>5
  <2>7. ThresholdFor(N) \in Nat
    BY ThresholdFacts
  <2>8. Cardinality(inserted) < N
    <3>1. Cardinality(inserted) \in Nat
      BY <1>3, FS_CardinalityType
    <3> QED BY <1>1, <1>3, <2>6, <3>1
  <2>9. \E f \in Slots(N) : now.t[f] = Invalid
    BY <1>3, <2>2, <2>4, <2>5, <2>8, FreeFacts
  <2> QED BY <1>5, <2>2, <2>4, <2>5, <2>6, <2>7, <2>9
<1>6. CASE ~(auto /\ count >= threshold)
  <2>1. now = [t |-> table, n |-> buckets, limit |-> threshold]
    BY <1>6 DEF DoubledIfNeeded
  <2>2. now.t = table /\ now.n = buckets /\ now.limit = threshold
    BY <2>1
  <2>3. \E f \in Slots(buckets) : table[f] = Invalid
    BY <1>1, <1>2, <1>3, FreeFacts
  <2>4. auto => entries_ + 1 < buckets
    <3> SUFFICES ASSUME auto PROVE entries_ + 1 < buckets
      OBVIOUS
    <3>1. PICK limit \in Nat : limit = threshold /\ limit <= buckets - 1
      BY <1>1, <1>4, ThresholdFacts
    <3>2. ~(count >= limit) /\ count >= entries_ /\ count \in Nat
      BY <1>1, <1>6, <3>1
    <3> QED BY <1>1, <3>1, <3>2
  <2> QED BY <1>1, <1>2, <1>4, <2>2, <2>3, <2>4
<1> QED BY <1>5, <1>6

\* The invariant holds at the start.
LEMMA InitInv == TableInit => TableInv
<1> SUFFICES ASSUME TableInit PROVE TableInv
  OBVIOUS
<1>1. PICK size \in InitialSizes : buckets = IF auto THEN BucketsFor(size) ELSE size
  BY DEF TableInit
<1>2. buckets \in 1..MaxBuckets
  BY <1>1, FitAssumption
<1>3. buckets \in Nat \ {0}
  BY <1>2, SizesAssumption
<1>4. threshold \in Nat /\ (auto => threshold = ThresholdFor(buckets))
  BY <1>3, ThresholdFacts DEF TableInit
<1>5. InOrder(hash, EmptyTable(buckets), buckets, {}) /\ IsFiniteSet({}) /\ Cardinality({}) = 0
  BY <1>3, EmptyFacts
<1>6. table = EmptyTable(buckets) /\ inserted = {} /\ entries_ = 0 /\ said = "none"
  BY DEF TableInit
<1>7. InOrder(hash, table, buckets, inserted)
  BY <1>5, <1>6
<1>8. CountAt
  BY <1>3, <1>4, <1>5, <1>6 DEF CountAt
<1>9. TableTypeOK
  <2>1. auto \in BOOLEAN /\ hash \in [Keys -> Hashes]
    BY SizesAssumption DEF TableInit
  <2>2. table \in [Slots(buckets) -> Keys \cup {Invalid}]
    BY <1>7 DEF InOrder, Table
  <2>3. entries_ \in 0..(MaxEntries + 1)
    BY <1>6, SizesAssumption
  <2> QED BY <1>2, <1>4, <1>6, <2>1, <2>2, <2>3 DEF TableTypeOK
<1> QED BY <1>7, <1>8, <1>9 DEF TableInv

\* Clear keeps the number of buckets and forgets the keys and the count.
LEMMA ClearInv ==
  ASSUME TableInv, Clear
  PROVE  TableInv'
<1>1. /\ buckets \in 1..MaxBuckets /\ buckets \in Nat \ {0}
      /\ hash \in [Keys -> Hashes] /\ auto \in BOOLEAN /\ threshold \in Nat
  BY SizesAssumption DEF TableInv, TableTypeOK
<1>2. /\ table' = EmptyTable(buckets) /\ entries_' = 0 /\ inserted' = {} /\ said' = "cleared"
      /\ auto' = auto /\ hash' = hash /\ buckets' = buckets /\ threshold' = threshold
  BY DEF Clear
<1>3. InOrder(hash, EmptyTable(buckets), buckets, {}) /\ IsFiniteSet({}) /\ Cardinality({}) = 0
  BY <1>1, EmptyFacts
<1>4. InOrder(hash', table', buckets', inserted')
  BY <1>2, <1>3
<1>5. CountAt'
  BY <1>1, <1>2, <1>3 DEF CountAt, TableInv
<1>6. TableTypeOK'
  <2>1. table' \in [Slots(buckets') -> Keys \cup {Invalid}]
    BY <1>4 DEF InOrder, Table
  <2>2. entries_' \in 0..(MaxEntries + 1)
    BY <1>2, SizesAssumption
  <2> QED BY <1>1, <1>2, <2>1, <2>2 DEF TableTypeOK
<1> QED BY <1>4, <1>5, <1>6 DEF TableInv

\* A step that stores a key in the table that it finds.
LEMMA StoreInv ==
  ASSUME TableInv, NEW count \in {entries_, entries_ + 1}, MayGrow(count),
         NEW now, now = DoubledIfNeeded(count), NEW key \in Keys, key \notin inserted,
         buckets' = now.n, threshold' = now.limit, auto' = auto, hash' = hash,
         table' = UncheckedInsert(now.t, now.n, key), inserted' = inserted \cup {key},
         entries_' = entries_ + 1, entries_ + 1 < now.n, said' = "inserted"
  PROVE  TableInv'
<1>1. /\ buckets \in Nat \ {0} /\ MaxBuckets \in Nat /\ MaxEntries \in Nat /\ entries_ \in Nat
      /\ hash \in [Keys -> Hashes] /\ inserted \subseteq Keys /\ auto \in BOOLEAN
  BY SizesAssumption DEF TableInv, TableTypeOK
<1>2. /\ now.n \in 1..MaxBuckets /\ buckets <= now.n /\ now.limit \in Nat
      /\ InOrder(hash, now.t, now.n, inserted)
      /\ \E f \in Slots(now.n) : now.t[f] = Invalid
      /\ auto => entries_ + 1 < now.n /\ now.limit = ThresholdFor(now.n)
      /\ ~auto => now.n = buckets
  BY DoubledFacts
<1>3. PICK f \in Slots(now.n) : now.t[f] = Invalid
  BY <1>2
<1>4. PICK n, t : n = now.n /\ t = now.t
  OBVIOUS
<1>5. n \in Nat \ {0} /\ n \in 1..MaxBuckets
  BY <1>1, <1>2, <1>4
<1>6. InOrder(hash, UncheckedInsert(t, n, key), n, inserted \cup {key})
  BY <1>1, <1>2, <1>3, <1>4, <1>5, InsertFacts
<1>7. InOrder(hash', table', buckets', inserted')
  BY <1>4, <1>6
<1>8. IsFiniteSet(inserted') /\ Cardinality(inserted') = entries_ + 1
  <2>1. IsFiniteSet(inserted)
    BY DEF TableInv, CountAt
  <2>2. Cardinality(inserted) = IF entries_ < buckets THEN entries_ ELSE buckets - 1
    BY DEF TableInv, CountAt
  <2>3. entries_ < buckets
    <3>1. CASE auto
      BY <3>1 DEF TableInv, CountAt
    <3>2. CASE ~auto
      BY <1>1, <1>2, <3>2
    <3> QED BY <3>1, <3>2
  <2>4. IsFiniteSet(inserted \cup {key}) /\ Cardinality(inserted \cup {key}) = Cardinality(inserted) + 1
    BY <2>1, FS_AddElement
  <2> QED BY <2>2, <2>3, <2>4
<1>9. CountAt'
  <2>1. entries_' < buckets' /\ said' # "full"
    OBVIOUS
  <2>2. auto' => threshold' = ThresholdFor(buckets')
    BY <1>2
  <2>3. (ThresholdFor(buckets))' = ThresholdFor(buckets')
    BY DEF ThresholdFor
  <2> QED BY <1>8, <2>1, <2>2, <2>3 DEF CountAt
<1>10. TableTypeOK'
  <2>1. table' \in [Slots(buckets') -> Keys \cup {Invalid}]
    BY <1>7 DEF InOrder, Table
  <2>2. entries_' \in 0..(MaxEntries + 1)
    <3>1. count <= MaxEntries
      BY DEF MayGrow
    <3> QED BY <1>1, <3>1
  <2>3. inserted' \subseteq Keys
    BY <1>1
  <2> QED BY <1>1, <1>2, <2>1, <2>2, <2>3 DEF TableTypeOK
<1> QED BY <1>7, <1>9, <1>10 DEF TableInv

\* A step that finds the key, or finds no room for it.
LEMMA LeaveInv ==
  ASSUME TableInv, NEW count \in {entries_, entries_ + 1}, MayGrow(count),
         NEW now, now = DoubledIfNeeded(count),
         buckets' = now.n, threshold' = now.limit, auto' = auto, hash' = hash,
         InOrder(hash, table', now.n, inserted), inserted' = inserted,
         \/ entries_' = entries_ /\ said' = "found"
         \/ entries_' = entries_ + 1 /\ said' = "full" /\ now.n <= entries_ + 1
  PROVE  TableInv'
<1>1. /\ buckets \in Nat \ {0} /\ MaxBuckets \in Nat /\ MaxEntries \in Nat /\ entries_ \in Nat
      /\ hash \in [Keys -> Hashes] /\ inserted \subseteq Keys /\ auto \in BOOLEAN
      /\ entries_ <= MaxEntries + 1
  BY SizesAssumption DEF TableInv, TableTypeOK
<1>2. /\ now.n \in 1..MaxBuckets /\ buckets <= now.n /\ now.limit \in Nat
      /\ auto => entries_ + 1 < now.n /\ now.limit = ThresholdFor(now.n)
      /\ ~auto => now.n = buckets
  BY DoubledFacts
<1>3. InOrder(hash', table', buckets', inserted')
  OBVIOUS
<1>4. PICK n \in Nat : n = now.n
  BY <1>1, <1>2
<1>5. IsFiniteSet(inserted)
  BY DEF TableInv, CountAt
<1>6. Cardinality(inserted) = IF entries_ < buckets THEN entries_ ELSE buckets - 1
  BY DEF TableInv, CountAt
<1>7. auto => entries_ < buckets
  BY DEF TableInv, CountAt
<1>8. said' = "full" => ~auto /\ n <= entries_'
  BY <1>1, <1>2, <1>4
<1>9. auto => entries_' < n
  BY <1>1, <1>2, <1>4
<1>10. Cardinality(inserted) = IF entries_' < n THEN entries_' ELSE n - 1
  <2>1. CASE auto
    BY <1>1, <1>2, <1>4, <1>6, <1>7, <1>9, <2>1
  <2>2. CASE ~auto
    BY <1>1, <1>2, <1>4, <1>6, <2>2
  <2> QED BY <2>1, <2>2
<1>11. CountAt'
  <2>1. auto' => threshold' = ThresholdFor(buckets')
    BY <1>2
  <2>2. (ThresholdFor(buckets))' = ThresholdFor(buckets')
    BY DEF ThresholdFor
  <2> QED BY <1>1, <1>4, <1>5, <1>8, <1>9, <1>10, <2>1, <2>2 DEF CountAt
<1>12. TableTypeOK'
  <2>1. table' \in [Slots(buckets') -> Keys \cup {Invalid}]
    BY <1>3 DEF InOrder, Table
  <2>2. entries_' \in 0..(MaxEntries + 1)
    <3>1. count <= MaxEntries
      BY DEF MayGrow
    <3> QED BY <1>1, <3>1
  <2>3. said' \in {"none", "inserted", "found", "full", "cleared"}
    OBVIOUS
  <2> QED BY <1>1, <1>2, <2>1, <2>2, <2>3 DEF TableTypeOK
<1> QED BY <1>3, <1>11, <1>12 DEF TableInv

LEMMA InsertInv ==
  ASSUME TableInv, NEW key \in Keys, Insert(key)
  PROVE  TableInv'
<1>1. PICK now : now = DoubledIfNeeded(entries_ + 1)
  OBVIOUS
<1>2. /\ key \notin inserted /\ MayGrow(entries_ + 1) /\ entries_' = entries_ + 1
      /\ buckets' = now.n /\ threshold' = now.limit /\ auto' = auto /\ hash' = hash
      /\ IF ~auto /\ entries_' >= buckets
         THEN table' = table /\ inserted' = inserted /\ said' = "full"
         ELSE /\ table' = UncheckedInsert(now.t, now.n, key)
              /\ inserted' = inserted \cup {key}
              /\ said' = "inserted"
  BY <1>1 DEF Insert
<1>3. entries_ \in Nat /\ buckets \in Nat
  BY SizesAssumption DEF TableInv, TableTypeOK
<1>4. (auto => entries_ + 1 < now.n) /\ (~auto => now.n = buckets)
  BY <1>1, <1>2, DoubledFacts
<1>5. CASE ~auto /\ entries_' >= buckets
  <2>1. InOrder(hash, table', now.n, inserted)
    BY <1>2, <1>4, <1>5 DEF TableInv
  <2>2. now.n <= entries_ + 1
    BY <1>2, <1>3, <1>4, <1>5
  <2> QED BY <1>1, <1>2, <1>5, <2>1, <2>2, LeaveInv
<1>6. CASE ~(~auto /\ entries_' >= buckets)
  <2>1. entries_ + 1 < now.n
    BY <1>2, <1>3, <1>4, <1>6
  <2> QED BY <1>1, <1>2, <1>6, <2>1, StoreInv
<1> QED BY <1>5, <1>6

LEMMA FindOrInsertInv ==
  ASSUME TableInv, NEW key \in Keys, FindOrInsert(key)
  PROVE  TableInv'
<1>1. PICK now : now = DoubledIfNeeded(entries_)
  OBVIOUS
<1>2. /\ MayGrow(entries_)
      /\ buckets' = now.n /\ threshold' = now.limit /\ auto' = auto /\ hash' = hash
      /\ IF Find(now.t, now.n, key)
         THEN table' = now.t /\ said' = "found" /\ entries_' = entries_ /\ inserted' = inserted
         ELSE /\ entries_' = entries_ + 1
              /\ IF entries_' >= now.n
                 THEN table' = now.t /\ said' = "full" /\ inserted' = inserted
                 ELSE /\ table' = UncheckedInsert(now.t, now.n, key)
                      /\ inserted' = inserted \cup {key}
                      /\ said' = "inserted"
  BY <1>1 DEF FindOrInsert
<1>3. entries_ \in Nat /\ hash \in [Keys -> Hashes] /\ MaxBuckets \in Nat
  BY SizesAssumption DEF TableInv, TableTypeOK
<1>4. /\ now.n \in 1..MaxBuckets
      /\ InOrder(hash, now.t, now.n, inserted)
      /\ \E f \in Slots(now.n) : now.t[f] = Invalid
  BY <1>1, <1>2, DoubledFacts
<1>5. CASE Find(now.t, now.n, key)
  BY <1>1, <1>2, <1>4, <1>5, LeaveInv
<1>6. CASE ~Find(now.t, now.n, key) /\ entries_' >= now.n
  <2>1. now.n <= entries_ + 1
    BY <1>2, <1>3, <1>4, <1>6
  <2> QED BY <1>1, <1>2, <1>4, <1>6, <2>1, LeaveInv
<1>7. CASE ~Find(now.t, now.n, key) /\ ~(entries_' >= now.n)
  <2>1. entries_ + 1 < now.n
    BY <1>2, <1>3, <1>4, <1>7
  <2>2. key \notin inserted
    <3>1. PICK n, t, f : n = now.n /\ t = now.t /\ f \in Slots(n) /\ t[f] = Invalid
      BY <1>4
    <3>2. n \in Nat \ {0} /\ InOrder(hash, t, n, inserted) /\ ~Find(t, n, key)
      BY <1>3, <1>4, <1>7, <3>1
    <3> QED BY <1>3, <3>1, <3>2, FindFacts
  <2> QED BY <1>1, <1>2, <1>7, <2>1, <2>2, StoreInv
<1> QED BY <1>5, <1>6, <1>7

LEMMA NextInv == TableInv /\ [TableNext]_tableVars => TableInv'
<1> SUFFICES ASSUME TableInv, [TableNext]_tableVars PROVE TableInv'
  OBVIOUS
<1>1. CASE TableNext
  BY <1>1, InsertInv, FindOrInsertInv, ClearInv DEF TableNext
<1>2. CASE UNCHANGED tableVars
  <2>1. /\ auto' = auto /\ hash' = hash /\ buckets' = buckets /\ table' = table
        /\ entries_' = entries_ /\ threshold' = threshold /\ inserted' = inserted /\ said' = said
    BY <1>2 DEF tableVars
  <2>2. TableTypeOK'
    BY <2>1 DEF TableInv, TableTypeOK
  <2>3. InOrder(hash', table', buckets', inserted')
    BY <2>1 DEF TableInv
  <2>4. CountAt'
    BY <2>1 DEF TableInv, CountAt, ThresholdFor
  <2> QED BY <2>2, <2>3, <2>4 DEF TableInv
<1> QED BY <1>1, <1>2

-----------------------------------------------------------------------------
(* What the invariant implies *)

\* What Max chooses.
LEMMA MaxFacts ==
  ASSUME NEW n \in Nat, NEW S \in SUBSET ((-1)..n), S # {}
  PROVE  Max(S) \in S /\ \A y \in S : Max(S) >= y
<1> DEFINE T == {n - y : y \in S}
<1>1. T \in SUBSET Nat /\ T # {}
  <2>1. ASSUME NEW y \in S PROVE n - y \in Nat
    OBVIOUS
  <2>2. \A t \in T : t \in Nat
    BY <2>1
  <2>3. PICK y \in S : TRUE
    OBVIOUS
  <2> QED BY <2>2, <2>3
<1>2. PICK t \in T : \A u \in T : t <= u
  BY <1>1, LeastExists
<1>3. PICK x \in S : t = n - x
  OBVIOUS
<1>4. ASSUME NEW y \in S PROVE x >= y
  <2>1. n - x <= n - y
    BY <1>2, <1>3
  <2> QED BY <2>1
<1> QED BY <1>4 DEF Max

\* What a table in order looks like to CheckConsistency.
LEMMA InPlaceFacts ==
  ASSUME TableInv, CheckConsistencyThrows
  PROVE  \A i \in Slots(buckets) : table[i] = Invalid <=> i = 0
<1> DEFINE Free == {i \in Slots(buckets) : table[i] = Invalid}
           last == Max(Free \cup {-1})
           gap == Min(Free)
           Gaps(i) == {j \in gap..i : table[j] = Invalid} \cup {gap}
<1>1. /\ buckets \in Nat \ {0} /\ hash \in [Keys -> Hashes]
      /\ \A i \in Slots(buckets) : i \in Nat /\ i < buckets
  BY SizesAssumption DEF TableInv, TableTypeOK, Slots
<1>2. table \in Table(buckets) /\ Reachable(hash, table, buckets)
  BY DEF TableInv, InOrder
<1>3. PICK f \in Slots(buckets) : table[f] = Invalid
  <2>1. InOrder(hash, table, buckets, inserted) /\ IsFiniteSet(inserted) /\ Cardinality(inserted) < buckets
    BY <1>1 DEF TableInv, CountAt, TableTypeOK
  <2> QED BY <1>1, <2>1, FreeFacts
<1>4. gap \in Slots(buckets) /\ table[gap] = Invalid /\ \A y \in Free : gap <= y
  <2>1. Free \in SUBSET Nat /\ Free # {}
    BY <1>1, <1>3
  <2>2. gap \in Free /\ \A y \in Free : gap <= y
    <3> HIDE DEF Free
    <3> QED BY <2>1, MinFacts
  <2> QED BY <2>2
<1>5. last \in Free \cup {-1} /\ \A y \in Free \cup {-1} : last >= y
  <2>1. Free \cup {-1} \in SUBSET ((-1)..buckets) /\ Free \cup {-1} # {} /\ buckets \in Nat
    BY <1>1
  <2> HIDE DEF Free
  <2> QED BY <2>1, MaxFacts
<1>6. ASSUME NEW i \in Slots(buckets), i >= gap
      PROVE  Max(Gaps(i)) \in Slots(buckets) /\ table[Max(Gaps(i))] = Invalid /\ Max(Gaps(i)) <= i
  <2>1. \A j \in Gaps(i) : j \in Slots(buckets) /\ table[j] = Invalid /\ j <= i /\ j \in (-1)..buckets
    BY <1>1, <1>4, <1>6 DEF Slots
  <2>2. Gaps(i) # {} /\ buckets \in Nat /\ Gaps(i) \in SUBSET ((-1)..buckets)
    BY <1>1, <2>1
  <2>3. Max(Gaps(i)) \in Gaps(i)
    <3> HIDE DEF Gaps
    <3> QED BY <2>2, MaxFacts
  <2> HIDE DEF Gaps
  <2> QED BY <2>1, <2>3
<1>7. ASSUME NEW i \in Slots(buckets), table[i] # Invalid
      PROVE  /\ Ideal(table[i], buckets) \in Slots(buckets)
             /\ \A s \in Slots(buckets) : Between(Ideal(table[i], buckets), i, s) => table[s] # Invalid
  <2>1. table[i] \in Keys
    BY <1>2, <1>7 DEF Table
  <2>2. Ideal(table[i], buckets) \in Slots(buckets) /\ Ideal(table[i], buckets) = hash[table[i]] % buckets
    BY <1>1, <2>1, IdealFacts
  <2> QED BY <1>2, <1>7, <2>2 DEF Reachable, Reached
<1>8. \/ last = 0
      \/ \E i \in 0..(gap - 1) : Ideal(table[i], buckets) > i /\ Ideal(table[i], buckets) <= last
      \/ \E i \in gap..(buckets - 1) :
            /\ table[i] # Invalid
            /\ Ideal(table[i], buckets) > i \/ Ideal(table[i], buckets) <= Max(Gaps(i))
  BY DEF CheckConsistencyThrows
<1> HIDE DEF last, gap, Gaps
<1>9. CASE last = 0
  <2>1. 0 \in Slots(buckets) /\ table[0] = Invalid
    BY <1>5, <1>9
  <2>2. ASSUME NEW i \in Slots(buckets), table[i] = Invalid PROVE i = 0
    BY <1>1, <1>5, <1>9, <2>2
  <2> QED BY <2>1, <2>2
<1>10. ASSUME NEW i \in 0..(gap - 1), Ideal(table[i], buckets) > i, Ideal(table[i], buckets) <= last
       PROVE  FALSE
  <2>1. i \in Slots(buckets) /\ i \notin Free
    BY <1>1, <1>4 DEF Slots
  <2>2. PICK a \in Slots(buckets) :
            a = Ideal(table[i], buckets) /\ \A s \in Slots(buckets) : Between(a, i, s) => table[s] # Invalid
    BY <1>7, <2>1
  <2>3. last \in Slots(buckets) /\ table[last] = Invalid
    BY <1>1, <1>5, <1>10, <2>2
  <2>4. Between(a, i, last)
    BY <1>1, <1>10, <2>1, <2>2 DEF Between
  <2> QED BY <2>2, <2>3, <2>4
<1>11. ASSUME NEW i \in gap..(buckets - 1), table[i] # Invalid,
              Ideal(table[i], buckets) > i \/ Ideal(table[i], buckets) <= Max(Gaps(i))
       PROVE  FALSE
  <2>1. i \in Slots(buckets) /\ i >= gap
    BY <1>1, <1>4 DEF Slots
  <2>2. PICK a \in Slots(buckets) :
            a = Ideal(table[i], buckets) /\ \A s \in Slots(buckets) : Between(a, i, s) => table[s] # Invalid
    BY <1>7, <1>11, <2>1
  <2>3. PICK p \in Slots(buckets) : p = Max(Gaps(i)) /\ table[p] = Invalid /\ p <= i
    BY <1>6, <2>1
  <2>4. a \in Nat /\ i \in Nat /\ p \in Nat /\ gap \in Nat
    BY <1>1, <1>4, <2>1
  <2>5. CASE a > i
    <3>1. Between(a, i, gap)
      BY <2>1, <2>4, <2>5 DEF Between
    <3> QED BY <1>4, <2>2, <3>1
  <2>6. CASE a <= i /\ a <= p
    <3>1. Between(a, i, p)
      BY <2>3, <2>4, <2>6 DEF Between
    <3> QED BY <2>2, <2>3, <3>1
  <2> QED BY <1>11, <2>2, <2>3, <2>4, <2>5, <2>6
<1> QED BY <1>8, <1>9, <1>10, <1>11

\* The inductive invariant holds always.
LEMMA TableInvariant == TableSpec => []TableInv
<1>1. TableInit => TableInv
  BY InitInv
<1>2. TableInv /\ [TableNext]_tableVars => TableInv'
  BY NextInv
<1> QED BY <1>1, <1>2, PTL DEF TableSpec

\* A search finds what is in the table, which has each key once.
LEMMA FindExact ==
  ASSUME TableInv
  PROVE  FindIsExact
<1>1. buckets \in Nat \ {0} /\ hash \in [Keys -> Hashes] /\ entries_ \in Nat
  BY SizesAssumption DEF TableInv, TableTypeOK
<1>2. InOrder(hash, table, buckets, inserted)
  BY DEF TableInv
<1>3. PICK f \in Slots(buckets) : table[f] = Invalid
  <2>1. IsFiniteSet(inserted) /\ Cardinality(inserted) < buckets
    BY <1>1 DEF TableInv, CountAt
  <2> QED BY <1>1, <1>2, <2>1, FreeFacts
<1>4. ASSUME NEW key \in Keys PROVE Find(table, buckets, key) <=> key \in inserted
  BY <1>1, <1>2, <1>3, FindFacts
<1>5. ASSUME NEW key \in Keys PROVE Cardinality({i \in Slots(buckets) : table[i] = key}) <= 1
  <2> DEFINE P == {i \in Slots(buckets) : table[i] = key}
  <2>0. key # Invalid
    BY KeysAssumption
  <2>1. CASE P = {}
    BY <2>1, FS_EmptySet
  <2>2. CASE P # {}
    <3>1. PICK i : i \in P
      BY <2>2
    <3>2. ASSUME NEW j \in P PROVE j = i
      BY <1>2, <2>0, <3>1 DEF InOrder, Once
    <3>3. P = {i}
      BY <3>1, <3>2
    <3>4. Cardinality({i}) = 1
      BY FS_Singleton
    <3> QED BY <3>3, <3>4
  <2> QED BY <2>1, <2>2
<1> QED BY <1>4, <1>5 DEF FindIsExact

\* For every hash function, number of buckets and sequence of operations: a
\* bucket is always free, so that the loops of Find, FindOrInsert and
\* UncheckedInsert end; Find finds exactly the keys that were inserted, whatever
\* doubling has moved, and each is stored in one bucket; every entry is where
\* CheckConsistency wants it; a table that doubles is never full and counts
\* exactly.
THEOREM HashTableSafety == TableSpec => []TableSafety
<1>1. TableInv => TableSafety
  <2> SUFFICES ASSUME TableInv PROVE TableSafety
    OBVIOUS
  <2>1. TableTypeOK
    BY DEF TableInv
  <2>2. buckets \in Nat \ {0} /\ entries_ \in Nat
    BY <2>1, SizesAssumption DEF TableTypeOK
  <2>3. /\ IsFiniteSet(inserted)
        /\ Cardinality(inserted) = IF entries_ < buckets THEN entries_ ELSE buckets - 1
        /\ auto => entries_ < buckets
        /\ said = "full" => ~auto /\ entries_ >= buckets
    BY DEF TableInv, CountAt
  <2>4. SearchEnds
    <3>1. InOrder(hash, table, buckets, inserted) /\ Cardinality(inserted) < buckets
      BY <2>2, <2>3 DEF TableInv
    <3> QED BY <2>2, <2>3, <3>1, FreeFacts DEF SearchEnds
  <2>5. EntriesInPlace
    BY InPlaceFacts DEF EntriesInPlace
  <2>6. FullOnlyIfFull
    BY <2>2, <2>3 DEF FullOnlyIfFull
  <2>7. FindIsExact
    BY FindExact
  <2> QED BY <2>1, <2>4, <2>5, <2>6, <2>7 DEF TableSafety
<1> QED BY <1>1, TableInvariant, PTL

-----------------------------------------------------------------------------
(* The table implements a set of keys *)

\* The keys in the buckets are those that the table in order has.
LEMMA ContentsAre ==
  ASSUME NEW h, NEW t, NEW n, NEW keys \in SUBSET Keys, InOrder(h, t, n, keys)
  PROVE  {t[i] : i \in Slots(n)} \ {Invalid} = keys
<1>1. t \in [Slots(n) -> Keys \cup {Invalid}] /\ \A k \in Keys : k \in keys <=> \E j \in Slots(n) : t[j] = k
  BY DEF InOrder, Table, Holds
<1>2. Invalid \notin Keys
  BY KeysAssumption
<1> QED BY ONLY <1>1, <1>2, keys \in SUBSET Keys

\* FindOrInsert, in the table it finds, says "found" of the members only.
LEMMA FindOrInsertAnswers ==
  ASSUME TableInv, NEW key \in Keys, FindOrInsert(key)
  PROVE  \/ key \in inserted /\ said' = "found" /\ inserted' = inserted
         \/ key \notin inserted /\ said' = "full" /\ inserted' = inserted
         \/ key \notin inserted /\ said' = "inserted" /\ inserted' = inserted \cup {key}
<1>1. PICK now : now = DoubledIfNeeded(entries_)
  OBVIOUS
<1>2. /\ MayGrow(entries_)
      /\ IF Find(now.t, now.n, key)
         THEN said' = "found" /\ inserted' = inserted
         ELSE \/ said' = "full" /\ inserted' = inserted
              \/ said' = "inserted" /\ inserted' = inserted \cup {key}
  BY <1>1 DEF FindOrInsert
<1>3. hash \in [Keys -> Hashes] /\ MaxBuckets \in Nat
  BY SizesAssumption DEF TableInv, TableTypeOK
<1>4. /\ now.n \in 1..MaxBuckets
      /\ InOrder(hash, now.t, now.n, inserted)
      /\ \E f \in Slots(now.n) : now.t[f] = Invalid
  BY <1>1, <1>2, DoubledFacts
<1>5. Find(now.t, now.n, key) <=> key \in inserted
  <2>1. PICK n, t, f : n = now.n /\ t = now.t /\ f \in Slots(n) /\ t[f] = Invalid
    BY <1>4
  <2>2. n \in Nat \ {0} /\ InOrder(hash, t, n, inserted)
    BY <1>3, <1>4, <2>1
  <2>3. Find(t, n, key) <=> key \in inserted
    BY <1>3, <2>1, <2>2, FindFacts
  <2> QED BY <2>1, <2>3
<1> QED BY ONLY <1>2, <1>5

LEMMA SetStep ==
  ASSUME TableInv, TableInv', [TableNext]_tableVars
  PROVE  [Set!Next]_(Set!setVars)
<1>1. Contents = inserted
  <2>1. inserted \in SUBSET Keys /\ InOrder(hash, table, buckets, inserted)
    BY DEF TableInv, TableTypeOK
  <2> QED BY <2>1, ContentsAre DEF Contents
<1>2. Contents' = inserted'
  <2>1. inserted' \in SUBSET Keys /\ InOrder(hash', table', buckets', inserted')
    BY DEF TableInv, TableTypeOK, InOrder, Table, Reachable, Reached, Once, Holds, Slots, Between
  <2>2. Contents' = {table'[i] : i \in Slots(buckets')} \ {Invalid}
    BY DEF Contents, Slots
  <2> QED BY <2>1, <2>2, ContentsAre
<1>3. ASSUME NEW key \in Keys, Insert(key) PROVE Set!Next
  <2>1. /\ key \notin inserted
        /\ \/ said' = "full" /\ inserted' = inserted
           \/ said' = "inserted" /\ inserted' = inserted \cup {key}
    BY <1>3 DEF Insert
  <2> QED BY <1>1, <1>2, <2>1 DEF Set!Next, Set!Add, Set!Refuse
<1>4. ASSUME NEW key \in Keys, FindOrInsert(key) PROVE Set!Next
  <2>1. \/ key \in inserted /\ said' = "found" /\ inserted' = inserted
        \/ key \notin inserted /\ said' = "full" /\ inserted' = inserted
        \/ key \notin inserted /\ said' = "inserted" /\ inserted' = inserted \cup {key}
    BY <1>4, FindOrInsertAnswers
  <2> QED BY <1>1, <1>2, <2>1 DEF Set!Next, Set!Add, Set!Recognise, Set!Refuse
<1>5. ASSUME Clear PROVE Set!Next
  BY <1>2, <1>5 DEF Clear, Set!Next, Set!Clear
<1>6. ASSUME UNCHANGED tableVars PROVE UNCHANGED Set!setVars
  BY <1>1, <1>2, <1>6 DEF tableVars, Set!setVars
<1> QED BY <1>3, <1>4, <1>5, <1>6 DEF TableNext

\* For every hash function, number of buckets and keys the table implements a
\* set of keys: FindOrInsert says that it inserted a key exactly when no bucket
\* held it, so that dedupe prints the first line of each key and no other, and
\* doubling and wrap-around neither add nor remove a key.
THEOREM HashTableImplementsSet == TableSpec => ImplementsKeySet
<1>1. TableInit => Set!Init
  <2> SUFFICES ASSUME TableInit PROVE Set!Init
    OBVIOUS
  <2>1. TableInv /\ inserted = {} /\ said = "none"
    BY InitInv DEF TableInit
  <2>2. inserted \in SUBSET Keys /\ InOrder(hash, table, buckets, inserted)
    BY <2>1 DEF TableInv, TableTypeOK
  <2>3. Contents = {}
    BY <2>1, <2>2, ContentsAre DEF Contents
  <2> QED BY <2>1, <2>3 DEF Set!Init
<1> QED BY <1>1, TableInvariant, SetStep, PTL DEF TableSpec, ImplementsKeySet, Set!Spec
=============================================================================
