----------------------------- MODULE BookProofs -----------------------------
(***************************************************************************)
(* Proofs about Book for every hash function, pool size and feed: the hash *)
(* table with tombstones finds every live order, at least half of it stays *)
(* free, and table and book together are the map of BookMap.               *)
(***************************************************************************)
EXTENDS Book, FiniteSetTheorems, WellFoundedInduction, TLAPS

Entry == [key : Refs \cup {kEmpty, kTombstone}, handle : Handles \cup {NoHandle}]
RestingOrder == [side : {"Buy", "Sell"}, px : 1..(MaxLevel - 1), qty : Nat \ {0}]

LiveIn(table) == {i \in Index : table[i].handle # NoHandle}
UsedIn(orders) == {h \in Handles : orders[h] # NoOrder}
RestingIn(map) == {r \in Refs : map[r] # NoOrder}

\* No slot on the way from a key's place to slot i is empty.
Reaches(table, key, i) ==
  \E k \in Index : Probe(key, k) = i /\ \A j \in 0..(k - 1) : table[Probe(key, j)].key # kEmpty

\* A table, a pool of orders and a map that belong together: live entries have
\* keys and handles of their own, are reached by probing from their key's place,
\* own exactly the orders of the pool, and are the entries of the map.
Agree(table, orders, map) ==
  /\ table \in [Index -> Entry]
  /\ orders \in [Handles -> RestingOrder \cup {NoOrder}]
  /\ map \in [Refs -> RestingOrder \cup {NoOrder}]
  /\ \A i \in Index : table[i].key \in Refs <=> table[i].handle # NoHandle
  /\ \A i, j \in LiveIn(table) :
       table[i].key = table[j].key \/ table[i].handle = table[j].handle => i = j
  /\ \A i \in LiveIn(table) : Reaches(table, table[i].key, i)
  /\ \A h \in UsedIn(orders) : \E i \in LiveIn(table) : table[i].handle = h
  /\ \A i \in LiveIn(table) : /\ orders[table[i].handle] # NoOrder
                              /\ map[table[i].key] = orders[table[i].handle]
  /\ \A r \in RestingIn(map) : \E i \in LiveIn(table) : table[i].key = r

IInv ==
  /\ hash \in [Refs -> Index]
  /\ Agree(slots, pool, live)
  /\ sim \in [side : {"none", "Buy", "Sell"}, px : Nat]
  /\ sim = trade

(***************************************************************************)
(* Arithmetic.                                                             *)
(***************************************************************************)

\* What is assumed of the constants.
LEMMA Constants ==
  /\ PoolSize \in Nat \ {0} /\ PerTick \in Nat \ {0} /\ MaxLevel \in Nat \ {0}
  /\ Refs \subseteq Nat \ {0} /\ Quantities \subseteq Nat \ {0} /\ ItchPrices \subseteq Nat \ {0}
BY BookAssumption DEF BookAssumption

\* A set of natural numbers has its least member.
LEMMA MinOfNats ==
  ASSUME NEW T \in SUBSET Nat, T # {}
  PROVE  Min(T) \in T /\ \A y \in T : Min(T) <= y
<1> DEFINE R == OpToRel(<, Nat)
<1>1. \E x \in T : \A y \in T : ~ (<<y, x>> \in R)
  BY NatLessThanWellFounded, WFMin, Zenon
<1>2. \A x, y \in Nat : ~(<<y, x>> \in R) => ~(y < x)
  BY Zenon DEF OpToRel
<1> HIDE DEF R
<1>3. PICK x \in T : \A y \in T : ~(y < x)
  BY <1>1, <1>2, Zenon
<1>4. \A y \in T : x <= y
  BY <1>3
<1> QED BY <1>4, Zenon DEF Min

\* Division with remainder.
LEMMA Division ==
  ASSUME NEW m \in Nat \ {0}, NEW x \in Int
  PROVE  \E r \in 0..(m - 1), k \in Int : r = x % m /\ x = m * k + r
<1>1. x % m \in 0..(m - 1) /\ x \div m \in Int
  OBVIOUS
<1>2. x = m * (x \div m) + (x % m)
  OBVIOUS
<1> QED BY <1>1, <1>2

\* A product of natural numbers is not negative.
LEMMA ProductOfNats ==
  ASSUME NEW m \in Nat, NEW k \in Nat
  PROVE  m * k >= 0
OBVIOUS

\* A multiple of m strictly between -m and m is 0.
LEMMA SmallMultiple ==
  ASSUME NEW m \in Nat \ {0}, NEW d \in Int, m * d > -m, m * d < m
  PROVE  d = 0
<1>1. ~(d >= 1)
  <2> SUFFICES ASSUME d >= 1 PROVE FALSE
    OBVIOUS
  <2>1. d - 1 >= 0 /\ m * d = m * (d - 1) + m
    OBVIOUS
  <2>2. m * (d - 1) >= 0
    <3>1. m \in Nat /\ d - 1 \in Nat
      BY <2>1
    <3> QED BY <3>1, ProductOfNats, Zenon
  <2> QED BY <2>1, <2>2
<1>2. ~(d <= -1)
  <2> SUFFICES ASSUME d <= -1 PROVE FALSE
    OBVIOUS
  <2>1. -1 - d >= 0 /\ m * d = -(m * (-1 - d)) - m
    OBVIOUS
  <2>2. m * (-1 - d) >= 0
    <3>1. m \in Nat /\ -1 - d \in Nat
      BY <2>1
    <3> QED BY <3>1, ProductOfNats, Zenon
  <2> QED BY <2>1, <2>2
<1> QED BY <1>1, <1>2

\* The remainder is determined by the number.
LEMMA RemainderOnce ==
  ASSUME NEW m \in Nat \ {0}, NEW k \in Int, NEW r \in 0..(m - 1)
  PROVE  (m * k + r) % m = r
<1>1. PICK y \in Int : y = m * k + r
  OBVIOUS
<1>2. PICK z \in 0..(m - 1), h \in Int : z = y % m /\ y = m * h + z
  BY Division, Zenon
<1>3. m * (k - h) = z - r
  BY <1>1, <1>2
<1>4. k - h = 0
  <2>1. k - h \in Int /\ m * (k - h) > -m /\ m * (k - h) < m
    BY <1>3
  <2> QED BY <2>1, SmallMultiple
<1>5. m * (k - h) = 0
  BY <1>4
<1> QED BY <1>1, <1>2, <1>3, <1>5

\* Twice a power of two is one: an odd divisor would divide the half.
LEMMA Doubles ==
  ASSUME NEW n \in Nat \ {0}, PowerOfTwo(n)
  PROVE  PowerOfTwo(2 * n)
<1> SUFFICES ASSUME NEW d \in 2..(2 * n), (2 * n) % d = 0, d % 2 # 0 PROVE FALSE
  BY DEF PowerOfTwo
<1>1. d \in Nat \ {0} /\ d >= 2 /\ d \in Int /\ 2 * n \in Int
  OBVIOUS
<1>2. PICK k \in Int : 2 * n = d * k
  <2>1. PICK r \in 0..(d - 1), k \in Int : r = (2 * n) % d /\ 2 * n = d * k + r
    BY <1>1, Division, Zenon
  <2>2. d * k \in Int /\ r = 0
    BY <1>1, <2>1
  <2>3. d * k + r = d * k
    BY <2>2
  <2> QED BY <2>1, <2>3, Zenon
<1>3. PICK a \in Int : d = 2 * a + 1
  <2>1. 2 \in Nat \ {0}
    OBVIOUS
  <2>2. PICK r \in 0..(2 - 1), a \in Int : r = d % 2 /\ d = 2 * a + r
    BY <1>1, <2>1, Division, Zenon
  <2> QED BY <2>2
<1>4. PICK b \in Int : k = 2 * b
  <2>1. 2 \in Nat \ {0}
    OBVIOUS
  <2>2. PICK r \in 0..(2 - 1), b \in Int : r = k % 2 /\ k = 2 * b + r
    BY <2>1, Division, Zenon
  <2>3. r # 1
    <3> SUFFICES ASSUME r = 1 PROVE FALSE
      OBVIOUS
    <3>1. d * k = d * (2 * b) + d
      BY <1>1, <2>2
    <3>2. d * (2 * b) = 2 * (d * b)
      BY <1>1
    <3>3. PICK c \in Int : c = d * b
      BY <1>1
    <3> QED BY <1>1, <1>2, <1>3, <3>1, <3>2, <3>3
  <2> QED BY <2>2, <2>3
<1>5. n = d * b
  <2>1. d * (2 * b) = 2 * (d * b)
    BY <1>1
  <2>2. PICK c \in Int : c = d * b
    BY <1>1
  <2> QED BY <1>2, <1>4, <2>1, <2>2
<1>6. n % d = 0
  <2>1. 0 \in 0..(d - 1) /\ n = d * b + 0
    BY <1>1, <1>5
  <2> QED BY <1>1, <2>1, RemainderOnce, Zenon
<1>7. d <= n
  <2>1. b >= 1
    BY <1>1, <1>5
  <2>2. d * (b - 1) >= 0 /\ d * b = d * (b - 1) + d
    BY <1>1, <2>1
  <2>3. PICK c \in Int : c = d * (b - 1)
    BY <1>1
  <2> QED BY <1>1, <1>5, <2>2, <2>3
<1>8. d \in 2..n
  BY <1>1, <1>7
<1> QED BY <1>6, <1>8 DEF PowerOfTwo

\* From every number on there is a power of two before its double: the least
\* number without one cannot be.
LEMMA PowerAbove ==
  ASSUME NEW c \in Nat \ {0}
  PROVE  \E n \in c..(2 * c - 1) : PowerOfTwo(n)
<1> DEFINE T == {x \in Nat \ {0} : ~ \E n \in x..(2 * x - 1) : PowerOfTwo(n)}
<1> SUFFICES ASSUME T # {} PROVE FALSE
  BY Zenon
<1>1. T \in SUBSET Nat
  OBVIOUS
<1>2. PICK x \in T : \A y \in T : x <= y
  BY <1>1, MinOfNats, Zenon
<1>3. x \in Nat \ {0} /\ \A n \in x..(2 * x - 1) : ~PowerOfTwo(n)
  BY <1>2
<1>4. x # 1
  <2>1. PowerOfTwo(1)
    BY DEF PowerOfTwo
  <2> QED BY <1>3, <2>1
<1>5. PICK z \in Nat \ {0} : z = x - 1
  BY <1>3, <1>4
<1>6. z \notin T
  BY <1>2, <1>3, <1>5
<1>7. PICK n \in z..(2 * z - 1) : PowerOfTwo(n)
  BY <1>6
<1> HIDE DEF T
<1>8. CASE n = z
  <2>1. PowerOfTwo(2 * z)
    BY <1>7, <1>8, Doubles
  <2>2. 2 * z \in x..(2 * x - 1)
    BY <1>3, <1>4, <1>5
  <2> QED BY <1>3, <2>1, <2>2
<1>9. CASE n # z
  <2>1. n \in x..(2 * x - 1)
    BY <1>3, <1>5, <1>7, <1>9
  <2> QED BY <1>3, <1>7, <2>1
<1> QED BY <1>8, <1>9

\* The loop of the constructor ends with at least twice as many slots as orders.
LEMMA SlotsEnough ==
  NumSlots \in Nat \ {0} /\ 2 * PoolSize <= NumSlots
<1> DEFINE T == {n \in (2 * PoolSize)..(4 * PoolSize) : PowerOfTwo(n)}
<1>1. PICK c \in Nat \ {0} : c = 2 * PoolSize
  BY Constants
<1>2. PICK n \in c..(2 * c - 1) : PowerOfTwo(n)
  BY PowerAbove
<1>3. n \in T
  BY <1>1, <1>2, Constants
<1>4. T \in SUBSET Nat
  BY Constants
<1>5. Min(T) \in T
  BY <1>3, <1>4, MinOfNats
<1> QED BY <1>5, Constants DEF NumSlots

(***************************************************************************)
(* The table.                                                              *)
(***************************************************************************)

\* A probe is a place of the table, and the probes of a key come everywhere.
LEMMA Probes ==
  ASSUME hash \in [Refs -> Index], NEW r \in Refs
  PROVE  /\ \A k \in Nat : Probe(r, k) \in Index
         /\ \A i \in Index : \E k \in Index : Probe(r, k) = i
<1>1. PICK m \in Nat \ {0} : m = NumSlots /\ Index = 0..(m - 1)
  BY SlotsEnough DEF Index
<1>2. PICK a \in 0..(m - 1) : a = hash[r]
  BY <1>1
<1>3. ASSUME NEW k \in Nat PROVE Probe(r, k) \in Index
  <2>1. a + k \in Int
    OBVIOUS
  <2>2. (a + k) % m \in 0..(m - 1)
    BY <2>1, Division, Zenon
  <2> QED BY <1>1, <1>2, <2>2 DEF Probe
<1>4. ASSUME NEW i \in Index PROVE \E k \in Index : Probe(r, k) = i
  <2>1. CASE i >= a
    <3>1. i - a \in 0..(m - 1) /\ a + (i - a) = m * 0 + i /\ i \in 0..(m - 1)
      BY <1>1, <2>1
    <3>2. (m * 0 + i) % m = i
      BY <3>1, RemainderOnce
    <3> QED BY <1>1, <1>2, <3>1, <3>2, Zenon DEF Probe
  <2>2. CASE i < a
    <3>1. i - a + m \in 0..(m - 1) /\ a + (i - a + m) = m * 1 + i /\ i \in 0..(m - 1)
      BY <1>1, <2>2
    <3>2. (m * 1 + i) % m = i
      BY <3>1, RemainderOnce
    <3> QED BY <1>1, <1>2, <3>1, <3>2, Zenon DEF Probe
  <2> QED BY <1>1, <2>1, <2>2
<1> QED BY <1>3, <1>4

\* find returns the entry of a key that has one, past whatever tombstones, and -1
\* for a key that has none.
LEMMA FindIs ==
  ASSUME hash \in [Refs -> Index], Agree(slots, pool, live), NEW r \in Refs
  PROVE  /\ \A i \in LiveSlots : slots[i].key = r => Find(r) = i
         /\ (\A i \in LiveSlots : slots[i].key # r) => Find(r) = -1
<1> DEFINE Stops(t) == (t.key = r /\ t.handle # NoHandle) \/ t.key = kEmpty
           S == {i \in Index : Stops(slots[Probe(r, i)])} \cup {NumSlots}
           k == Min(S)
<1>1. Find(r) = IF k < NumSlots /\ slots[Probe(r, k)].key = r THEN Probe(r, k) ELSE -1
  BY Zenon DEF Find
<1>2. PICK m \in Nat \ {0} : m = NumSlots /\ Index = 0..(m - 1)
  BY SlotsEnough DEF Index
<1>3. S \in SUBSET Nat /\ S # {}
  BY <1>2
<1>4. k \in S /\ \A y \in S : k <= y
  BY <1>3, MinOfNats
<1> HIDE DEF k
<1>5. k \in Nat /\ (k < m => k \in Index /\ Stops(slots[Probe(r, k)]))
  BY <1>2, <1>4
<1>6. r # kEmpty
  BY Constants DEF kEmpty
<1>7. ASSUME NEW i \in LiveSlots, slots[i].key = r PROVE Find(r) = i
  <2>1. PICK l \in Index : Probe(r, l) = i /\ \A j \in 0..(l - 1) : slots[Probe(r, j)].key # kEmpty
    BY <1>7 DEF Agree, LiveIn, LiveSlots, Reaches
  <2>2. l \in S /\ k <= l /\ l \in 0..(m - 1)
    BY <1>2, <1>4, <1>7, <2>1 DEF LiveSlots
  <2>3. k < m /\ k \in Index /\ Stops(slots[Probe(r, k)])
    BY <1>2, <1>5, <2>2
  <2>4. slots[Probe(r, k)].key # kEmpty
    <3>1. CASE k = l
      BY <1>6, <1>7, <2>1, <3>1
    <3>2. CASE k # l
      <4>1. k \in 0..(l - 1)
        BY <1>5, <2>2, <3>2
      <4> QED BY <2>1, <4>1
    <3> QED BY <3>1, <3>2
  <2>5. slots[Probe(r, k)].key = r /\ slots[Probe(r, k)].handle # NoHandle
    BY <2>3, <2>4
  <2>6. Probe(r, k) \in LiveIn(slots) /\ i \in LiveIn(slots)
    BY <1>5, <2>5, Probes DEF LiveIn, LiveSlots
  <2>7. Probe(r, k) = i
    BY <1>7, <2>5, <2>6, Zenon DEF Agree
  <2> QED BY <1>1, <1>2, <2>3, <2>5, <2>7
<1>8. ASSUME \A i \in LiveSlots : slots[i].key # r PROVE Find(r) = -1
  <2> SUFFICES ASSUME k < NumSlots, slots[Probe(r, k)].key = r PROVE FALSE
    BY <1>1, Zenon
  <2>1. Stops(slots[Probe(r, k)]) /\ Probe(r, k) \in Index
    BY <1>2, <1>5, Probes, Zenon
  <2>2. slots[Probe(r, k)].handle # NoHandle
    BY <1>6, <2>1
  <2> QED BY <1>8, <2>1, <2>2 DEF LiveSlots
<1> QED BY <1>7, <1>8

\* Live entries, orders of the pool and resting references are equally many.
LEMMA EquallyMany ==
  ASSUME NEW T, NEW P, NEW L, Agree(T, P, L)
  PROVE  /\ IsFiniteSet(LiveIn(T)) /\ IsFiniteSet(UsedIn(P)) /\ IsFiniteSet(RestingIn(L))
         /\ Cardinality(LiveIn(T)) = Cardinality(UsedIn(P))
         /\ Cardinality(LiveIn(T)) = Cardinality(RestingIn(L))
         /\ Cardinality(UsedIn(P)) \in Nat /\ Cardinality(UsedIn(P)) <= PoolSize
         /\ Cardinality(UsedIn(P)) = PoolSize => UsedIn(P) = Handles
<1>1. IsFiniteSet(Handles) /\ Cardinality(Handles) = PoolSize /\ PoolSize \in Nat
  <2>1. 1 \in Int /\ PoolSize \in Int /\ PoolSize \in Nat /\ ~(1 > PoolSize)
    BY Constants
  <2>2. IsFiniteSet(1..PoolSize) /\ Cardinality(1..PoolSize) = PoolSize - 1 + 1
    BY <2>1, FS_Interval, Zenon
  <2> QED BY <2>1, <2>2 DEF Handles
<1>2. /\ IsFiniteSet(UsedIn(P)) /\ Cardinality(UsedIn(P)) <= Cardinality(Handles)
      /\ Cardinality(UsedIn(P)) = Cardinality(Handles) => UsedIn(P) = Handles
  <2>1. UsedIn(P) \in SUBSET Handles
    BY DEF UsedIn
  <2> QED BY <1>1, <2>1, FS_Subset, Zenon
<1>3. Cardinality(UsedIn(P)) \in Nat
  BY <1>2, FS_CardinalityType
<1> DEFINE f == [i \in LiveIn(T) |-> T[i].handle]
           g == [i \in LiveIn(T) |-> T[i].key]
<1>4. f \in Bijection(LiveIn(T), UsedIn(P))
  <2>1. \A i \in LiveIn(T) : T[i].handle \in UsedIn(P)
    <3> SUFFICES ASSUME NEW i \in LiveIn(T) PROVE T[i].handle \in UsedIn(P)
      OBVIOUS
    <3>1. i \in Index /\ T[i] \in Entry /\ T[i].handle # NoHandle
      BY DEF Agree, LiveIn
    <3>2. T[i].handle \in Handles
      BY <3>1 DEF Entry
    <3> QED BY <3>2 DEF Agree, UsedIn
  <2>2. \A i, j \in LiveIn(T) : f[i] = f[j] => i = j
    BY DEF Agree
  <2>3. \A h \in UsedIn(P) : \E i \in LiveIn(T) : f[i] = h
    BY DEF Agree
  <2>4. f \in [LiveIn(T) -> UsedIn(P)]
    BY <2>1
  <2> HIDE DEF f, g
  <2> QED BY <2>2, <2>3, <2>4 DEF Bijection, Injection, Surjection, IsInjective
<1>5. g \in Bijection(LiveIn(T), RestingIn(L))
  <2>1. \A i \in LiveIn(T) : T[i].key \in RestingIn(L)
    <3> SUFFICES ASSUME NEW i \in LiveIn(T) PROVE T[i].key \in RestingIn(L)
      OBVIOUS
    <3>1. T[i].key \in Refs
      BY DEF Agree, LiveIn
    <3> QED BY <3>1 DEF Agree, RestingIn
  <2>2. \A i, j \in LiveIn(T) : g[i] = g[j] => i = j
    BY DEF Agree
  <2>3. \A r \in RestingIn(L) : \E i \in LiveIn(T) : g[i] = r
    BY DEF Agree
  <2>4. g \in [LiveIn(T) -> RestingIn(L)]
    BY <2>1
  <2> HIDE DEF f, g
  <2> QED BY <2>2, <2>3, <2>4 DEF Bijection, Injection, Surjection, IsInjective
<1> HIDE DEF f, g
<1>6. IsFiniteSet(LiveIn(T))
  <2>1. NumSlots - 1 \in Int /\ 0 \in Int
    BY SlotsEnough
  <2>2. IsFiniteSet(0..(NumSlots - 1))
    BY <2>1, FS_Interval, Zenon
  <2>3. LiveIn(T) \subseteq 0..(NumSlots - 1)
    BY DEF LiveIn, Index
  <2> QED BY <2>2, <2>3, FS_Subset, Zenon
<1>7. Cardinality(LiveIn(T)) = Cardinality(UsedIn(P))
  BY <1>4, <1>6, FS_Bijection DEF ExistsBijection
<1>8. IsFiniteSet(RestingIn(L)) /\ Cardinality(LiveIn(T)) = Cardinality(RestingIn(L))
  BY <1>5, <1>6, FS_Bijection DEF ExistsBijection
<1> QED BY <1>1, <1>2, <1>3, <1>6, <1>7, <1>8

\* What a live entry is.
LEMMA LiveEntry ==
  ASSUME NEW T, NEW P, NEW L, Agree(T, P, L), NEW i \in LiveIn(T)
  PROVE  /\ i \in Index /\ T[i].key \in Refs /\ T[i].handle \in Handles
         /\ T[i].key # kEmpty /\ T[i].key # kTombstone /\ T[i].handle # NoHandle
         /\ P[T[i].handle] \in RestingOrder /\ P[T[i].handle] # NoOrder
         /\ L[T[i].key] = P[T[i].handle]
<1>1. i \in Index /\ T[i] \in Entry /\ T[i].handle # NoHandle /\ T[i].key \in Refs
  BY DEF Agree, LiveIn
<1>2. T[i].handle \in Handles
  BY <1>1 DEF Entry
<1>3. /\ P[T[i].handle] \in RestingOrder \cup {NoOrder} /\ P[T[i].handle] # NoOrder
      /\ L[T[i].key] = P[T[i].handle]
  BY <1>2 DEF Agree
<1>4. T[i].key # kEmpty /\ T[i].key # kTombstone
  BY <1>1, Constants DEF kEmpty, kTombstone
<1> QED BY <1>1, <1>2, <1>3, <1>4

\* eraseOrder: the entry becomes a tombstone and its order leaves the book; chains
\* that run through the slot are not cut.
LEMMA EraseAgrees ==
  ASSUME NEW T, NEW P, NEW L, Agree(T, P, L), hash \in [Refs -> Index], NEW i \in LiveIn(T)
  PROVE  Agree(Erased(T, i), [P EXCEPT ![T[i].handle] = NoOrder], [L EXCEPT ![T[i].key] = NoOrder])
<1> DEFINE U == Erased(T, i)
           Q == [P EXCEPT ![T[i].handle] = NoOrder]
           M == [L EXCEPT ![T[i].key] = NoOrder]
<1>1. /\ T \in [Index -> Entry] /\ P \in [Handles -> RestingOrder \cup {NoOrder}]
      /\ L \in [Refs -> RestingOrder \cup {NoOrder}]
  BY DEF Agree
<1>2. i \in Index /\ T[i].key \in Refs /\ T[i].handle \in Handles
  BY LiveEntry
<1>3. /\ U[i] = [key |-> kTombstone, handle |-> NoHandle]
      /\ \A j \in Index : j # i => U[j] = T[j]
      /\ U \in [Index -> Entry]
  BY <1>1, <1>2 DEF Erased, Entry
<1>4. /\ Q \in [Handles -> RestingOrder \cup {NoOrder}] /\ Q[T[i].handle] = NoOrder
      /\ \A h \in Handles : h # T[i].handle => Q[h] = P[h]
  BY <1>1, <1>2
<1>5. /\ M \in [Refs -> RestingOrder \cup {NoOrder}] /\ M[T[i].key] = NoOrder
      /\ \A r \in Refs : r # T[i].key => M[r] = L[r]
  BY <1>1, <1>2
<1> HIDE DEF U, Q, M
<1>6. /\ U[i].key = kTombstone /\ U[i].handle = NoHandle /\ kTombstone \notin Refs
      /\ kTombstone # kEmpty
  BY <1>3, Constants DEF kTombstone, kEmpty
<1>7. LiveIn(U) = LiveIn(T) \ {i}
  BY <1>2, <1>3, <1>6 DEF LiveIn
<1>8. \A j \in LiveIn(U) : j \in LiveIn(T) /\ j \in Index /\ j # i /\ U[j] = T[j]
  BY <1>3, <1>7 DEF LiveIn
<1>9. \A j, k \in LiveIn(T) : T[j].key = T[k].key \/ T[j].handle = T[k].handle => j = k
  BY DEF Agree
<1>10. \A j \in Index : U[j].key \in Refs <=> U[j].handle # NoHandle
  BY <1>3, <1>6 DEF Agree
<1>11. \A j, k \in LiveIn(U) : U[j].key = U[k].key \/ U[j].handle = U[k].handle => j = k
  BY <1>8, <1>9, Zenon
<1>12. ASSUME NEW j \in LiveIn(U) PROVE Reaches(U, U[j].key, j)
  <2>1. PICK k \in Index : /\ Probe(T[j].key, k) = j
                           /\ \A l \in 0..(k - 1) : T[Probe(T[j].key, l)].key # kEmpty
    BY <1>8, Zenon DEF Agree, Reaches
  <2>2. ASSUME NEW l \in 0..(k - 1) PROVE U[Probe(T[j].key, l)].key # kEmpty
    <3>1. Probe(T[j].key, l) \in Index
      <4>1. l \in Nat /\ T[j].key \in Refs
        BY <1>8, LiveEntry
      <4> QED BY <4>1, Probes
    <3> QED BY <1>3, <1>6, <2>1, <3>1
  <2> QED BY <1>8, <2>1, <2>2 DEF Reaches
<1>13. ASSUME NEW h \in UsedIn(Q) PROVE \E j \in LiveIn(U) : U[j].handle = h
  <2>1. h \in Handles /\ h # T[i].handle /\ h \in UsedIn(P)
    BY <1>4 DEF UsedIn
  <2>2. PICK j \in LiveIn(T) : T[j].handle = h
    BY <2>1 DEF Agree
  <2> QED BY <1>7, <1>8, <2>1, <2>2
<1>14. ASSUME NEW j \in LiveIn(U)
       PROVE  Q[U[j].handle] # NoOrder /\ M[U[j].key] = Q[U[j].handle]
  <2>1. j \in LiveIn(T) /\ U[j] = T[j] /\ T[j].key # T[i].key /\ T[j].handle # T[i].handle
    BY <1>8, <1>9, Zenon
  <2>2. T[j].key \in Refs /\ T[j].handle \in Handles
    BY <2>1, LiveEntry
  <2>3. P[T[j].handle] # NoOrder /\ L[T[j].key] = P[T[j].handle]
    BY <2>1, LiveEntry
  <2> QED BY <1>4, <1>5, <2>1, <2>2, <2>3, ZenonT(30)
<1>15. ASSUME NEW r \in RestingIn(M) PROVE \E j \in LiveIn(U) : U[j].key = r
  <2>1. r \in Refs /\ r # T[i].key /\ r \in RestingIn(L)
    BY <1>5 DEF RestingIn
  <2>2. PICK j \in LiveIn(T) : T[j].key = r
    BY <2>1 DEF Agree
  <2> QED BY <1>7, <1>8, <2>1, <2>2
<1>16. Agree(U, Q, M)
  BY <1>3, <1>4, <1>5, <1>10, <1>11, <1>12, <1>13, <1>14, <1>15, Zenon DEF Agree
<1> QED BY <1>16 DEF U, Q, M

\* decrementOrErase, with something left: the order changes in its place.
LEMMA ReduceAgrees ==
  ASSUME NEW T, NEW P, NEW L, Agree(T, P, L), NEW i \in LiveIn(T), NEW o \in RestingOrder
  PROVE  Agree(T, [P EXCEPT ![T[i].handle] = o], [L EXCEPT ![T[i].key] = o])
<1> DEFINE Q == [P EXCEPT ![T[i].handle] = o]
           M == [L EXCEPT ![T[i].key] = o]
<1>1. /\ T \in [Index -> Entry] /\ P \in [Handles -> RestingOrder \cup {NoOrder}]
      /\ L \in [Refs -> RestingOrder \cup {NoOrder}]
  BY DEF Agree
<1>2. i \in Index /\ T[i].key \in Refs /\ T[i].handle \in Handles
  BY LiveEntry
<1>3. o # NoOrder
  BY DEF RestingOrder, NoOrder
<1>4. /\ Q \in [Handles -> RestingOrder \cup {NoOrder}] /\ Q[T[i].handle] = o
      /\ \A h \in Handles : h # T[i].handle => Q[h] = P[h]
  BY <1>1, <1>2
<1>5. /\ M \in [Refs -> RestingOrder \cup {NoOrder}] /\ M[T[i].key] = o
      /\ \A r \in Refs : r # T[i].key => M[r] = L[r]
  BY <1>1, <1>2
<1> HIDE DEF Q, M
<1>6. \A j, k \in LiveIn(T) : T[j].key = T[k].key \/ T[j].handle = T[k].handle => j = k
  BY DEF Agree
<1>7. ASSUME NEW h \in UsedIn(Q) PROVE \E j \in LiveIn(T) : T[j].handle = h
  <2>1. h \in Handles /\ (h # T[i].handle => h \in UsedIn(P))
    BY <1>4 DEF UsedIn
  <2> QED BY <2>1 DEF Agree
<1>8. ASSUME NEW j \in LiveIn(T) PROVE Q[T[j].handle] # NoOrder /\ M[T[j].key] = Q[T[j].handle]
  <2>1. /\ T[j].key \in Refs /\ T[j].handle \in Handles
        /\ P[T[j].handle] # NoOrder /\ L[T[j].key] = P[T[j].handle]
    BY LiveEntry
  <2>2. CASE j = i
    BY <1>3, <1>4, <1>5, <2>2
  <2>3. CASE j # i
    <3>1. T[j].key # T[i].key /\ T[j].handle # T[i].handle
      BY <1>6, <2>3
    <3> QED BY <1>4, <1>5, <2>1, <3>1, Zenon
  <2> QED BY <2>2, <2>3
<1>9. ASSUME NEW r \in RestingIn(M) PROVE \E j \in LiveIn(T) : T[j].key = r
  <2>1. r \in Refs /\ (r # T[i].key => r \in RestingIn(L))
    BY <1>5 DEF RestingIn
  <2> QED BY <2>1 DEF Agree
<1>10. Agree(T, Q, M)
  BY <1>4, <1>5, <1>7, <1>8, <1>9, Zenon DEF Agree
<1> QED BY <1>10 DEF Q, M

\* insert ends: while the book has room, there is a slot that is not live, the
\* probes come to it, and the first one that is free is taken.
LEMMA FreeSlot ==
  ASSUME NEW T, NEW P, NEW L, Agree(T, P, L), hash \in [Refs -> Index],
         NEW r \in Refs, L[r] = NoOrder, NEW h \in Handles, P[h] = NoOrder
  PROVE  \E k \in Index :
           /\ Inserted(T, r, h) = [T EXCEPT ![Probe(r, k)] = [key |-> r, handle |-> h]]
           /\ Probe(r, k) \in Index /\ Probe(r, k) \notin LiveIn(T)
           /\ \A j \in 0..(k - 1) : T[Probe(r, j)].key # kEmpty
<1> DEFINE S == {i \in Index : T[Probe(r, i)].key \in {kEmpty, kTombstone, r}}
           k == Min(S)
<1>1. PICK m \in Nat \ {0} : m = NumSlots /\ Index = 0..(m - 1) /\ 2 * PoolSize <= m
  BY SlotsEnough DEF Index
<1>2. PICK c \in Nat : c = Cardinality(LiveIn(T)) /\ c < PoolSize
  <2>1. UsedIn(P) # Handles
    BY DEF UsedIn
  <2>2. /\ Cardinality(LiveIn(T)) = Cardinality(UsedIn(P)) /\ Cardinality(UsedIn(P)) \in Nat
        /\ Cardinality(UsedIn(P)) <= PoolSize /\ Cardinality(UsedIn(P)) # PoolSize
    BY <2>1, EquallyMany
  <2> QED BY <2>2, Constants
<1>3. PICK i \in Index : i \notin LiveIn(T)
  <2> SUFFICES ASSUME LiveIn(T) = Index PROVE FALSE
    BY DEF LiveIn
  <2>1. 0 \in Int /\ m - 1 \in Int /\ ~(0 > m - 1)
    BY <1>1
  <2>2. Cardinality(0..(m - 1)) = (m - 1) - 0 + 1
    BY <2>1, FS_Interval, Zenon
  <2> QED BY <1>1, <1>2, <2>2, Constants
<1>4. S # {} /\ S \in SUBSET Nat
  <2>1. PICK j \in Index : Probe(r, j) = i
    BY Probes
  <2>2. T[i] \in Entry /\ T[i].key \notin Refs
    BY <1>3 DEF Agree, LiveIn
  <2>3. T[i].key \in {kEmpty, kTombstone}
    BY <2>2 DEF Entry
  <2>4. j \in S
    BY <2>1, <2>3
  <2> QED BY <1>1, <2>4
<1>5. k \in S /\ \A y \in S : k <= y
  BY <1>4, MinOfNats
<1>6. Inserted(T, r, h) = [T EXCEPT ![Probe(r, k)] = [key |-> r, handle |-> h]]
  BY Zenon DEF Inserted
<1> HIDE DEF k
<1>7. k \in Index /\ k \in Nat /\ Probe(r, k) \in Index
  <2>1. k \in Index /\ k \in Nat
    BY <1>1, <1>5, SMTT(30)
  <2> QED BY <2>1, Probes, Zenon
<1>8. Probe(r, k) \notin LiveIn(T)
  <2> SUFFICES ASSUME Probe(r, k) \in LiveIn(T) PROVE FALSE
    OBVIOUS
  <2>1. PICK p \in LiveIn(T) : p = Probe(r, k)
    OBVIOUS
  <2>2. T[p].key \in {kEmpty, kTombstone, r}
    BY <1>5, <2>1
  <2>3. T[p].key = r
    BY <2>2, LiveEntry
  <2> QED BY <2>3, LiveEntry
<1>9. ASSUME NEW j \in 0..(k - 1) PROVE T[Probe(r, j)].key # kEmpty
  <2>1. j \in Index /\ ~(k <= j)
    BY <1>1, <1>7
  <2> QED BY <1>5, <2>1
<1> QED BY <1>6, <1>7, <1>8, <1>9, Zenon

\* onAdd, when the book takes the order: a new entry, and no chain is cut.
LEMMA InsertAgrees ==
  ASSUME NEW T, NEW P, NEW L, Agree(T, P, L), hash \in [Refs -> Index],
         NEW r \in Refs, L[r] = NoOrder, NEW h \in Handles, P[h] = NoOrder, NEW o \in RestingOrder
  PROVE  Agree(Inserted(T, r, h), [P EXCEPT ![h] = o], [L EXCEPT ![r] = o])
<1> DEFINE U == Inserted(T, r, h)
           Q == [P EXCEPT ![h] = o]
           M == [L EXCEPT ![r] = o]
<1>1. /\ T \in [Index -> Entry] /\ P \in [Handles -> RestingOrder \cup {NoOrder}]
      /\ L \in [Refs -> RestingOrder \cup {NoOrder}]
  BY DEF Agree
<1>2. PICK k \in Index :
        /\ U = [T EXCEPT ![Probe(r, k)] = [key |-> r, handle |-> h]]
        /\ Probe(r, k) \in Index /\ Probe(r, k) \notin LiveIn(T)
        /\ \A j \in 0..(k - 1) : T[Probe(r, j)].key # kEmpty
  BY FreeSlot
<1>3. PICK p \in Index : p = Probe(r, k)
  BY <1>2
<1>4. /\ U[p] = [key |-> r, handle |-> h] /\ \A j \in Index : j # p => U[j] = T[j]
      /\ U \in [Index -> Entry]
  BY <1>1, <1>2, <1>3 DEF Entry
<1>5. /\ Q \in [Handles -> RestingOrder \cup {NoOrder}] /\ Q[h] = o
      /\ \A g \in Handles : g # h => Q[g] = P[g]
  BY <1>1
<1>6. /\ M \in [Refs -> RestingOrder \cup {NoOrder}] /\ M[r] = o
      /\ \A q \in Refs : q # r => M[q] = L[q]
  BY <1>1
<1> HIDE DEF U, Q, M
<1>7. /\ U[p].key = r /\ U[p].handle = h /\ h # NoHandle /\ r # kEmpty /\ o # NoOrder
      /\ p \notin LiveIn(T)
  BY <1>2, <1>3, <1>4, Constants DEF Handles, NoHandle, kEmpty, RestingOrder, NoOrder
<1>8. LiveIn(U) = LiveIn(T) \cup {p}
  BY <1>4, <1>7 DEF LiveIn
<1>9. \A j \in LiveIn(T) : j \in Index /\ j # p /\ U[j] = T[j]
  BY <1>4, <1>7 DEF LiveIn
<1>10. \A j \in LiveIn(T) : T[j].key # r /\ T[j].handle # h
  BY LiveEntry
<1>11. \A j, l \in LiveIn(T) : T[j].key = T[l].key \/ T[j].handle = T[l].handle => j = l
  BY DEF Agree
<1>12. \A j \in Index : U[j].key \in Refs <=> U[j].handle # NoHandle
  BY <1>4, <1>7 DEF Agree
<1>13. \A j, l \in LiveIn(U) : U[j].key = U[l].key \/ U[j].handle = U[l].handle => j = l
  <2> SUFFICES ASSUME NEW j \in LiveIn(U), NEW l \in LiveIn(U),
                      U[j].key = U[l].key \/ U[j].handle = U[l].handle
               PROVE  j = l
    OBVIOUS
  <2>1. CASE j = p /\ l = p
    BY <2>1
  <2>2. CASE j = p /\ l \in LiveIn(T)
    BY <1>7, <1>9, <1>10, <2>2
  <2>3. CASE j \in LiveIn(T) /\ l = p
    BY <1>7, <1>9, <1>10, <2>3
  <2>4. CASE j \in LiveIn(T) /\ l \in LiveIn(T)
    BY <1>9, <1>11, <2>4
  <2> QED BY <1>8, <2>1, <2>2, <2>3, <2>4
<1>14. ASSUME NEW q \in Refs, NEW l \in Nat, T[Probe(q, l)].key # kEmpty
       PROVE  U[Probe(q, l)].key # kEmpty
  <2>1. Probe(q, l) \in Index
    BY Probes
  <2> QED BY <1>4, <1>7, <1>14, <2>1
<1>15. ASSUME NEW j \in LiveIn(U) PROVE Reaches(U, U[j].key, j)
  <2>1. CASE j = p
    <3>1. \A l \in 0..(k - 1) : U[Probe(r, l)].key # kEmpty
      BY <1>2, <1>14
    <3> QED BY <1>3, <1>7, <2>1, <3>1, SMTT(30) DEF Reaches
  <2>2. CASE j \in LiveIn(T)
    <3>1. PICK n \in Index : /\ Probe(T[j].key, n) = j
                             /\ \A l \in 0..(n - 1) : T[Probe(T[j].key, l)].key # kEmpty
      BY <2>2, Zenon DEF Agree, Reaches
    <3>2. T[j].key \in Refs
      BY <2>2, LiveEntry
    <3>3. \A l \in 0..(n - 1) : U[Probe(T[j].key, l)].key # kEmpty
      BY <1>14, <3>1, <3>2
    <3> QED BY <1>9, <2>2, <3>1, <3>3, Zenon DEF Reaches
  <2> QED BY <1>8, <2>1, <2>2
<1>16. ASSUME NEW g \in UsedIn(Q) PROVE \E j \in LiveIn(U) : U[j].handle = g
  <2>1. CASE g = h
    BY <1>7, <1>8, <2>1
  <2>2. CASE g # h
    <3>1. g \in UsedIn(P)
      BY <1>5, <2>2 DEF UsedIn
    <3>2. PICK j \in LiveIn(T) : T[j].handle = g
      BY <3>1, SMTT(30) DEF Agree
    <3> QED BY <1>8, <1>9, <3>2
  <2> QED BY <2>1, <2>2
<1>17. ASSUME NEW j \in LiveIn(U)
       PROVE  Q[U[j].handle] # NoOrder /\ M[U[j].key] = Q[U[j].handle]
  <2>1. CASE j = p
    BY <1>5, <1>6, <1>7, <2>1
  <2>2. CASE j \in LiveIn(T)
    <3>1. /\ T[j].key \in Refs /\ T[j].handle \in Handles
          /\ P[T[j].handle] # NoOrder /\ L[T[j].key] = P[T[j].handle]
      BY <2>2, LiveEntry
    <3>2. U[j] = T[j] /\ T[j].key # r /\ T[j].handle # h
      BY <1>9, <1>10, <2>2
    <3>3. Q[T[j].handle] = P[T[j].handle]
      BY <1>5, <1>6, <3>1, <3>2
    <3>4. M[T[j].key] = L[T[j].key]
      BY <1>5, <1>6, <3>1, <3>2
    <3> QED BY <3>1, <3>2, <3>3, <3>4, Zenon
  <2> QED BY <1>8, <2>1, <2>2, SMTT(30)
<1>18. ASSUME NEW q \in RestingIn(M) PROVE \E j \in LiveIn(U) : U[j].key = q
  <2>1. CASE q = r
    BY <1>7, <1>8, <2>1
  <2>2. CASE q # r
    <3>1. q \in RestingIn(L)
      BY <1>6, <2>2 DEF RestingIn
    <3>2. PICK j \in LiveIn(T) : T[j].key = q
      BY <3>1 DEF Agree
    <3> QED BY <1>8, <1>9, <3>2
  <2> QED BY <2>1, <2>2, SMTT(30)
<1>19. Agree(U, Q, M)
  BY <1>4, <1>5, <1>6, <1>12, <1>13, <1>15, <1>16, <1>17, <1>18, Zenon DEF Agree
<1> QED BY <1>19 DEF U, Q, M

(***************************************************************************)
(* The adapter.                                                            *)
(***************************************************************************)

\* The hash function stays.
LEMMA AgreeNext ==
  ASSUME hash' = hash, Agree(slots', pool', live')
  PROVE  Agree(slots, pool, live)'
<1>1. LiveIn(slots)' = LiveIn(slots') /\ UsedIn(pool)' = UsedIn(pool') /\ RestingIn(live)' = RestingIn(live')
  BY DEF LiveIn, UsedIn, RestingIn
<1>2. ASSUME NEW i \in LiveIn(slots') PROVE Reaches(slots', slots'[i].key, i) => Reaches(slots, slots[i].key, i)'
  BY DEF Reaches, Probe
<1> QED BY <1>1, <1>2, Zenon DEF Agree

\* A price of the feed in ticks, and its range.
LEMMA TicksAre ==
  ASSUME NEW p \in Nat
  PROVE  /\ toTicks(p) \in Nat /\ Map!Ticks(p) = toTicks(p)
         /\ Map!InRange(p) <=> inBookRange(toTicks(p))
         /\ inBookRange(toTicks(p)) => toTicks(p) \in 1..(MaxLevel - 1)
<1>1. PICK t \in Nat : t = p \div PerTick
  <2>1. p \div PerTick \in Int /\ p \div PerTick >= 0
    BY Constants
  <2> QED BY <2>1
<1>2. MaxLevel \in Nat
  BY Constants
<1> QED BY <1>1, <1>2 DEF toTicks, Map!Ticks, Map!InRange, inBookRange

\* What a lookup comes to.
LEMMA FindCases ==
  ASSUME IInv, NEW r \in Refs
  PROVE  \/ /\ Find(r) \in LiveIn(slots) /\ ~(Find(r) < 0) /\ slots[Find(r)].key = r
            /\ slots[Find(r)].handle \in Handles /\ live[r] = Order(Find(r))
            /\ live[r] \in RestingOrder /\ live[r] # NoOrder
         \/ Find(r) = -1 /\ live[r] = NoOrder
<1>1. LiveSlots = LiveIn(slots) /\ Agree(slots, pool, live) /\ hash \in [Refs -> Index]
  BY DEF LiveSlots, LiveIn, IInv
<1>2. CASE \E i \in LiveIn(slots) : slots[i].key = r
  <2>1. PICK i \in LiveIn(slots) : slots[i].key = r
    BY <1>2
  <2>2. Find(r) = i
    BY <1>1, <2>1, FindIs
  <2>3. i \in Index /\ ~(i < 0)
    BY SlotsEnough DEF LiveIn, Index
  <2>4. /\ slots[i].handle \in Handles /\ live[r] = pool[slots[i].handle]
        /\ pool[slots[i].handle] \in RestingOrder /\ pool[slots[i].handle] # NoOrder
    BY <1>1, <2>1, LiveEntry
  <2> QED BY <2>1, <2>2, <2>3, <2>4 DEF Order
<1>3. CASE ~ \E i \in LiveIn(slots) : slots[i].key = r
  <2>1. Find(r) = -1
    BY <1>1, <1>3, FindIs
  <2>2. live[r] = NoOrder
    BY <1>1, <1>3 DEF Agree, RestingIn
  <2> QED BY <2>1, <2>2
<1> QED BY <1>2, <1>3

\* The book takes the order exactly when the map does.
LEMMA RestAgrees ==
  ASSUME NEW T, NEW P, NEW L, Agree(T, P, L), hash \in [Refs -> Index],
         NEW r \in Refs, L[r] = NoOrder, NEW d \in {"Buy", "Sell"}, NEW n \in Nat \ {0},
         NEW p \in Nat, Rest(T, P, r, d, n, toTicks(p))
  PROVE  Agree(slots', pool', IF Map!InRange(p) /\ Cardinality(RestingIn(L)) < PoolSize
                              THEN [L EXCEPT ![r] = Map!Order(d, n, p)] ELSE L)
<1> DEFINE free == {h \in Handles : P[h] = NoOrder}
           o == [side |-> d, px |-> toTicks(p), qty |-> n]
<1>1. /\ Map!InRange(p) <=> inBookRange(toTicks(p))
      /\ Map!Order(d, n, p) = o
      /\ inBookRange(toTicks(p)) => o \in RestingOrder
  BY TicksAre DEF Map!Order, RestingOrder
<1>2. free = {} <=> ~(Cardinality(RestingIn(L)) < PoolSize)
  <2>1. /\ Cardinality(RestingIn(L)) = Cardinality(UsedIn(P)) /\ Cardinality(UsedIn(P)) \in Nat
        /\ Cardinality(UsedIn(P)) <= PoolSize
        /\ Cardinality(UsedIn(P)) = PoolSize => UsedIn(P) = Handles
    BY EquallyMany
  <2>2. free = {} <=> UsedIn(P) = Handles
    BY DEF UsedIn
  <2>3. 1 \in Int /\ PoolSize \in Int /\ PoolSize \in Nat /\ ~(1 > PoolSize)
    BY Constants
  <2>4. Cardinality(Handles) = PoolSize - 1 + 1
    BY <2>3, FS_Interval, Zenon DEF Handles
  <2> QED BY <2>1, <2>2, <2>3, <2>4
<1>3. CASE ~inBookRange(toTicks(p)) \/ free = {}
  <2>1. slots' = T /\ pool' = P
    BY <1>3 DEF Rest
  <2> QED BY <1>1, <1>2, <1>3, <2>1
<1>4. CASE inBookRange(toTicks(p)) /\ free # {}
  <2>1. PICK h \in free : pool' = [P EXCEPT ![h] = o] /\ slots' = Inserted(T, r, h)
    BY <1>4 DEF Rest
  <2>2. h \in Handles /\ P[h] = NoOrder /\ o \in RestingOrder
    BY <1>1, <1>4
  <2>3. Agree(Inserted(T, r, h), [P EXCEPT ![h] = o], [L EXCEPT ![r] = o])
    BY <2>2, InsertAgrees, Zenon
  <2> QED BY <1>1, <1>2, <1>4, <2>1, <2>3, Zenon
<1> QED BY <1>3, <1>4

\* A cancel or an execution of a part, or of all, of an order.
LEMMA DecrementAgrees ==
  ASSUME IInv, NEW r \in Refs, live[r] # NoOrder, NEW n \in Nat \ {0}, decrementOrErase(Find(r), n)
  PROVE  Agree(slots', pool', [live EXCEPT ![r] = Map!Less(live[r], n)])
<1>1. PICK i \in LiveIn(slots) : i = Find(r)
  BY FindCases
<1>2. /\ slots[i].key = r /\ slots[i].handle \in Handles /\ live[r] = Order(i)
      /\ live[r] \in RestingOrder /\ Agree(slots, pool, live) /\ hash \in [Refs -> Index]
  BY <1>1, FindCases DEF IInv
<1>3. PICK h \in Handles : h = slots[i].handle /\ live[r] = pool[h]
  BY <1>2 DEF Order
<1>4. PICK o \in RestingOrder : o = live[r]
  BY <1>2, SMTT(30)
<1>5. o.qty \in Nat \ {0} /\ Order(i) = o
  BY <1>2, <1>4 DEF RestingOrder
<1>6. CASE o.qty - n > 0
  <2>1. PICK c \in RestingOrder : c = [o EXCEPT !.qty = @ - n]
    <3>1. PICK q \in Nat \ {0} : q = o.qty - n
      BY <1>5, <1>6
    <3>2. [o EXCEPT !.qty = q] \in RestingOrder
      BY <3>1 DEF RestingOrder
    <3> QED BY <3>1, <3>2
  <2>2. pool' = [pool EXCEPT ![h].qty = @ - n] /\ slots' = slots
    BY <1>1, <1>3, <1>5, <1>6 DEF decrementOrErase
  <2>3. pool' = [pool EXCEPT ![h] = c]
    BY <1>3, <1>4, <2>1, <2>2
  <2>4. Map!Less(live[r], n) = c
    BY <1>4, <1>5, <1>6, <2>1 DEF Map!Less
  <2>5. Agree(slots, [pool EXCEPT ![h] = c], [live EXCEPT ![r] = c])
    BY <1>2, <1>3, ReduceAgrees
  <2> QED BY <2>2, <2>3, <2>4, <2>5, Zenon
<1>7. CASE ~(o.qty - n > 0)
  <2>1. pool' = [pool EXCEPT ![h] = NoOrder] /\ slots' = Erased(slots, i)
    BY <1>1, <1>3, <1>5, <1>7 DEF decrementOrErase, eraseOrder
  <2>2. Map!Less(live[r], n) = NoOrder
    BY <1>4, <1>5, <1>7 DEF Map!Less, Map!NoOrder, NoOrder
  <2>3. Agree(Erased(slots, i), [pool EXCEPT ![h] = NoOrder], [live EXCEPT ![r] = NoOrder])
    BY <1>2, <1>3, EraseAgrees
  <2> QED BY <2>1, <2>2, <2>3, ZenonT(30)
<1> QED BY <1>6, <1>7

\* The map of BookMap has this map's resting references.
LEMMA SameMap ==
  /\ Map!NoOrder = NoOrder /\ Map!NoTrade = NoTrade /\ Map!Resting = RestingIn(live)
  /\ Map!Cardinality(Map!Resting) = Cardinality(RestingIn(live))
<1>1. Map!NoOrder = NoOrder /\ Map!NoTrade = NoTrade /\ Map!Resting = RestingIn(live)
  BY DEF Map!NoOrder, NoOrder, Map!NoTrade, NoTrade, Map!Resting, RestingIn
<1>2. Map!Cardinality(RestingIn(live)) = Cardinality(RestingIn(live))
  BY DEF Map!Cardinality, Cardinality
<1> QED BY <1>1, <1>2

\* What the callback is given when there was no trade.
LEMMA NoTradeType == NoTrade \in [side : {"none", "Buy", "Sell"}, px : Nat]
BY DEF NoTrade

\* An add.
LEMMA AddKeeps ==
  ASSUME IInv, NEW r \in Refs, NEW d \in {"Buy", "Sell"}, NEW n \in Quantities, NEW p \in ItchPrices,
         onAdd(r, d, n, p)
  PROVE  IInv'
<1>1. n \in Nat \ {0} /\ p \in Nat
  BY Constants
<1>2. /\ live[r] = NoOrder /\ Rest(slots, pool, r, d, n, toTicks(p)) /\ sim' = NoTrade
      /\ hash' = hash /\ trade' = NoTrade
      /\ live' = IF Map!InRange(p) /\ Cardinality(RestingIn(live)) < PoolSize
                 THEN [live EXCEPT ![r] = Map!Order(d, n, p)] ELSE live
  BY SameMap, Zenon DEF onAdd, Map!Add, Fresh
<1>3. Agree(slots', pool', live')
  BY <1>1, <1>2, RestAgrees DEF IInv
<1> QED BY <1>2, <1>3, AgreeNext, NoTradeType DEF IInv

\* A partial cancel.
LEMMA CancelKeeps ==
  ASSUME IInv, NEW r \in Refs, NEW n \in Quantities, onCancelPartial(r, n)
  PROVE  IInv'
<1>1. n \in Nat \ {0}
  BY Constants
<1>2. /\ IF Find(r) < 0 THEN UNCHANGED <<slots, pool>> ELSE decrementOrErase(Find(r), n)
      /\ sim' = NoTrade /\ hash' = hash /\ trade' = NoTrade
      /\ live' = [live EXCEPT ![r] = Map!Less(live[r], n)]
  BY SameMap DEF onCancelPartial, Map!Cancel
<1>3. Agree(slots', pool', live')
  <2>1. CASE live[r] # NoOrder
    <3>1. decrementOrErase(Find(r), n)
      BY <1>2, <2>1, FindCases
    <3> QED BY <1>1, <1>2, <2>1, <3>1, DecrementAgrees, Zenon
  <2>2. CASE live[r] = NoOrder
    <3>1. slots' = slots /\ pool' = pool
      BY <1>2, <2>2, FindCases
    <3>2. Map!Less(live[r], n) = live[r]
      BY <1>1, <2>2 DEF Map!Less, Map!NoOrder, NoOrder
    <3>3. live' = live
      BY <1>2, <3>2 DEF IInv, Agree
    <3> QED BY <3>1, <3>3 DEF IInv
  <2> QED BY <2>1, <2>2
<1> QED BY <1>2, <1>3, AgreeNext, NoTradeType DEF IInv

\* A delete.
LEMMA DeleteKeeps ==
  ASSUME IInv, NEW r \in Refs, onDelete(r)
  PROVE  IInv'
<1>1. /\ IF Find(r) < 0 THEN UNCHANGED <<slots, pool>> ELSE eraseOrder(Find(r))
      /\ sim' = NoTrade /\ hash' = hash /\ trade' = NoTrade
      /\ live' = [live EXCEPT ![r] = NoOrder]
  BY SameMap DEF onDelete, Map!Delete
<1>2. Agree(slots', pool', live')
  <2>1. CASE live[r] # NoOrder
    <3>1. PICK i \in LiveIn(slots) : i = Find(r) /\ slots[i].key = r /\ ~(Find(r) < 0)
      BY <2>1, FindCases
    <3>2. pool' = [pool EXCEPT ![slots[i].handle] = NoOrder] /\ slots' = Erased(slots, i)
      BY <1>1, <3>1 DEF eraseOrder
    <3> QED BY <1>1, <3>1, <3>2, EraseAgrees, Zenon DEF IInv
  <2>2. CASE live[r] = NoOrder
    <3>1. slots' = slots /\ pool' = pool
      BY <1>1, <2>2, FindCases
    <3>2. live' = live
      BY <1>1, <2>2 DEF IInv, Agree
    <3> QED BY <3>1, <3>2 DEF IInv
  <2> QED BY <2>1, <2>2
<1> QED BY <1>1, <1>2, AgreeNext, NoTradeType DEF IInv

\* An execution, and what apply_event shows the simulator.
LEMMA ExecuteKeeps ==
  ASSUME IInv, NEW r \in Refs, NEW n \in Quantities, NEW p \in ItchPrices \cup {0}, onExecute(r, n, p)
  PROVE  IInv'
<1>1. n \in Nat \ {0} /\ p \in Nat
  BY Constants, SMTT(30)
<1>2. /\ IF Find(r) < 0 THEN UNCHANGED <<slots, pool>> ELSE decrementOrErase(Find(r), n)
      /\ sim' = IF Find(r) < 0 THEN NoTrade
                ELSE [side |-> Order(Find(r)).side,
                      px |-> IF p = 0 THEN Order(Find(r)).px ELSE toTicks(p)]
      /\ hash' = hash
      /\ trade' = IF live[r] = NoOrder THEN NoTrade
                  ELSE [side |-> live[r].side, px |-> IF p = 0 THEN live[r].px ELSE toTicks(p)]
      /\ live' = [live EXCEPT ![r] = Map!Less(live[r], n)]
  BY <1>1, SameMap, TicksAre, SMTT(30) DEF onExecute, Map!Execute
<1>3. CASE live[r] # NoOrder
  <2>1. ~(Find(r) < 0) /\ live[r] = Order(Find(r)) /\ live[r] \in RestingOrder
    BY <1>3, FindCases
  <2>2. Agree(slots', pool', live')
    BY <1>1, <1>2, <1>3, <2>1, DecrementAgrees, Zenon
  <2>3. sim' = [side |-> live[r].side, px |-> IF p = 0 THEN live[r].px ELSE toTicks(p)]
    BY <1>2, <2>1, Zenon
  <2>4. trade' = [side |-> live[r].side, px |-> IF p = 0 THEN live[r].px ELSE toTicks(p)]
    BY <1>2, <1>3, Zenon
  <2>5. live[r].side \in {"Buy", "Sell"} /\ live[r].px \in Nat /\ toTicks(p) \in Nat
    <3>1. live[r].side \in {"Buy", "Sell"} /\ live[r].px \in 1..(MaxLevel - 1)
      BY <2>1 DEF RestingOrder
    <3> QED BY <1>1, <3>1, TicksAre
  <2>6. sim' \in [side : {"none", "Buy", "Sell"}, px : Nat]
    BY <2>3, <2>5, SMTT(30)
  <2> QED BY <1>2, <2>2, <2>3, <2>4, <2>6, AgreeNext, ZenonT(30) DEF IInv
<1>4. CASE live[r] = NoOrder
  <2>1. slots' = slots /\ pool' = pool /\ sim' = NoTrade /\ trade' = NoTrade
    BY <1>2, <1>4, FindCases
  <2>2. Map!Less(live[r], n) = live[r]
    BY <1>1, <1>4, SMTT(30) DEF Map!Less, Map!NoOrder, NoOrder
  <2>3. live' = live
    BY <1>2, <2>2 DEF IInv, Agree
  <2>4. Agree(slots', pool', live')
    BY <2>1, <2>3 DEF IInv
  <2> QED BY <1>2, <2>1, <2>4, AgreeNext, NoTradeType DEF IInv
<1> QED BY <1>3, <1>4

\* A replace: the old order makes room for the new one.
LEMMA ReplaceKeeps ==
  ASSUME IInv, NEW old \in Refs, NEW new \in Refs, NEW n \in Quantities, NEW p \in ItchPrices,
         onReplace(old, new, n, p)
  PROVE  IInv'
<1>1. n \in Nat \ {0} /\ p \in Nat
  BY Constants, SMTT(30)
<1>2. /\ live[new] = NoOrder /\ sim' = NoTrade /\ hash' = hash /\ trade' = NoTrade
      /\ IF Find(old) < 0 THEN UNCHANGED <<slots, pool>>
         ELSE Rest(Erased(slots, Find(old)), [pool EXCEPT ![slots[Find(old)].handle] = NoOrder],
                   new, Order(Find(old)).side, n, toTicks(p))
      /\ live' = IF live[old] = NoOrder THEN live
                 ELSE [live EXCEPT ![old] = NoOrder,
                                   ![new] = IF Map!InRange(p) THEN Map!Order(live[old].side, n, p)
                                            ELSE NoOrder]
  BY SameMap, Zenon DEF onReplace, Map!Replace
<1>3. CASE live[old] # NoOrder
  <2>1. PICK i \in LiveIn(slots) :
          /\ i = Find(old) /\ ~(Find(old) < 0) /\ slots[i].key = old /\ slots[i].handle \in Handles
          /\ live[old] = Order(i) /\ live[old] \in RestingOrder
    BY <1>3, FindCases
  <2> DEFINE T == Erased(slots, i)
             P == [pool EXCEPT ![slots[i].handle] = NoOrder]
             L == [live EXCEPT ![old] = NoOrder]
  <2>2. Agree(T, P, L) /\ hash \in [Refs -> Index]
    BY <2>1, EraseAgrees, SMTT(30) DEF IInv
  <2>3. PICK d \in {"Buy", "Sell"} : d = Order(i).side
    BY <2>1 DEF RestingOrder
  <2>4. Rest(T, P, new, d, n, toTicks(p))
    BY <1>2, <2>1, <2>3, Zenon
  <2>5. live \in [Refs -> RestingOrder \cup {NoOrder}] /\ pool \in [Handles -> RestingOrder \cup {NoOrder}]
    BY DEF IInv, Agree
  <2>6. L[new] = NoOrder
    BY <1>2, <2>5
  <2>7. Cardinality(RestingIn(L)) < PoolSize
    <3>1. P[slots[i].handle] = NoOrder
      BY <2>1, <2>5
    <3>2. UsedIn(P) # Handles
      BY <2>1, <3>1, SMTT(30) DEF UsedIn
    <3> HIDE DEF T, P, L
    <3>3. /\ Cardinality(RestingIn(L)) = Cardinality(UsedIn(P)) /\ Cardinality(UsedIn(P)) \in Nat
          /\ Cardinality(UsedIn(P)) <= PoolSize /\ Cardinality(UsedIn(P)) # PoolSize
      BY <2>2, <3>2, EquallyMany
    <3> QED BY <3>3, Constants
  <2>8. live' = IF Map!InRange(p) THEN [L EXCEPT ![new] = Map!Order(d, n, p)] ELSE L
    <3>1. live[old].side = d
      BY <2>1, <2>3
    <3>2. CASE Map!InRange(p)
      <4>1. live' = [live EXCEPT ![old] = NoOrder, ![new] = Map!Order(d, n, p)]
        BY <1>2, <1>3, <3>1, <3>2, Zenon
      <4> QED BY <3>2, <4>1
    <3>3. CASE ~Map!InRange(p)
      <4>1. live' = [live EXCEPT ![old] = NoOrder, ![new] = NoOrder]
        BY <1>2, <1>3, <3>3, Zenon
      <4>2. live' = L
        BY <2>5, <2>6, <4>1, Zenon
      <4> QED BY <3>3, <4>2
    <3> QED BY <3>2, <3>3, SMTT(30)
  <2> HIDE DEF T, P, L
  <2>9. Agree(slots', pool', IF Map!InRange(p) /\ Cardinality(RestingIn(L)) < PoolSize
                             THEN [L EXCEPT ![new] = Map!Order(d, n, p)] ELSE L)
    BY <1>1, <2>2, <2>4, <2>6, RestAgrees, ZenonT(30)
  <2>10. Agree(slots', pool', live')
    BY <2>7, <2>8, <2>9, Zenon
  <2> QED BY <1>2, <2>10, AgreeNext, NoTradeType, Zenon DEF IInv
<1>4. CASE live[old] = NoOrder
  <2>1. slots' = slots /\ pool' = pool /\ live' = live
    BY <1>2, <1>4, FindCases
  <2>2. Agree(slots', pool', live')
    BY <2>1 DEF IInv
  <2> QED BY <1>2, <2>2, AgreeNext, NoTradeType, SMTT(30) DEF IInv
<1> QED BY <1>3, <1>4

\* An empty table and an empty book.
LEMMA InitHolds == Init => IInv
<1> SUFFICES ASSUME Init PROVE IInv
  OBVIOUS
<1>1. /\ slots = [i \in Index |-> [key |-> kEmpty, handle |-> NoHandle]]
      /\ pool = [h \in Handles |-> NoOrder] /\ live = [r \in Refs |-> NoOrder]
      /\ sim = NoTrade /\ trade = NoTrade /\ hash \in [Refs -> Index]
  BY SameMap DEF Init, Map!Init
<1>2. /\ slots \in [Index -> Entry] /\ pool \in [Handles -> RestingOrder \cup {NoOrder}]
      /\ live \in [Refs -> RestingOrder \cup {NoOrder}]
  BY <1>1 DEF Entry
<1>3. \A i \in Index : slots[i].key = kEmpty /\ slots[i].handle = NoHandle /\ kEmpty \notin Refs
  BY <1>1, Constants DEF kEmpty
<1>4. LiveIn(slots) = {} /\ UsedIn(pool) = {} /\ RestingIn(live) = {}
  BY <1>1, <1>3 DEF LiveIn, UsedIn, RestingIn
<1>5. Agree(slots, pool, live)
  BY <1>2, <1>3, <1>4 DEF Agree
<1> QED BY <1>1, <1>5, NoTradeType DEF IInv

\* The inductive invariant: table, book and map belong together.
THEOREM BookInductive == Spec => []IInv
<1>1. IInv /\ [Next]_vars => IInv'
  <2> SUFFICES ASSUME IInv, [Next]_vars PROVE IInv'
    OBVIOUS
  <2>1. CASE UNCHANGED vars
    <3>1. hash' = hash /\ slots' = slots /\ pool' = pool /\ live' = live /\ sim' = sim /\ trade' = trade
      BY <2>1 DEF vars
    <3>2. Agree(slots', pool', live')
      BY <3>1 DEF IInv
    <3> QED BY <3>1, <3>2, AgreeNext DEF IInv
  <2>2. CASE Next
    BY <2>2, AddKeeps, CancelKeeps, DeleteKeeps, ExecuteKeeps, ReplaceKeeps DEF Next
  <2> QED BY <2>1, <2>2
<1> QED BY <1>1, InitHolds, PTL DEF Spec

\* Whatever the hash function and the history of tombstones: every order of the
\* book has exactly one entry, and LiveOrderTable::find comes to it.
THEOREM BookEntries == Spec => []EntriesMatchOrders
<1>1. ASSUME IInv PROVE EntriesMatchOrders
  <2>1. Agree(slots, pool, live) /\ hash \in [Refs -> Index] /\ LiveSlots = LiveIn(slots)
    BY <1>1 DEF IInv, LiveSlots, LiveIn
  <2>2. TypeOK
    BY <1>1, SMTT(30) DEF IInv, Agree, TypeOK, Entry, RestingOrder
  <2>3. \A i \in LiveSlots : Find(slots[i].key) = i
    BY <2>1, FindIs, LiveEntry
  <2>4. ASSUME NEW h \in Handles
        PROVE  pool[h] # NoOrder <=> Cardinality({i \in LiveSlots : slots[i].handle = h}) = 1
    <3> DEFINE S == {i \in LiveSlots : slots[i].handle = h}
    <3>1. CASE pool[h] # NoOrder
      <4>1. PICK i \in LiveSlots : slots[i].handle = h
        BY <2>1, <3>1 DEF Agree, UsedIn
      <4>2. S = {i}
        BY <2>1, <4>1 DEF Agree
      <4> QED BY <3>1, <4>2, FS_Singleton, Zenon
    <3>2. CASE pool[h] = NoOrder
      <4>1. S = {}
        BY <2>1, <3>2, LiveEntry
      <4>2. Cardinality(S) = 0
        BY <4>1, FS_EmptySet, Zenon
      <4> QED BY <3>2, <4>2
    <3> QED BY <3>1, <3>2
  <2>5. Cardinality(LiveSlots) = Cardinality({h \in Handles : pool[h] # NoOrder})
    BY <2>1, EquallyMany, Zenon DEF UsedIn
  <2> QED BY <2>2, <2>3, <2>4, <2>5 DEF EntriesMatchOrders
<1> QED BY <1>1, BookInductive, PTL

\* The table is sized from the pool so that at most half of it is ever live, and
\* LiveOrderTable::insert always comes to a free slot.
THEOREM BookHalfLoad == Spec => []HalfLoad
<1>1. ASSUME IInv PROVE HalfLoad
  <2>1. Agree(slots, pool, live) /\ LiveSlots = LiveIn(slots)
    BY <1>1 DEF IInv, LiveSlots, LiveIn
  <2>2. /\ Cardinality(LiveSlots) = Cardinality(UsedIn(pool)) /\ Cardinality(UsedIn(pool)) \in Nat
        /\ Cardinality(UsedIn(pool)) <= PoolSize
    BY <2>1, EquallyMany
  <2> QED BY <2>2, SlotsEnough, Constants DEF HalfLoad
<1> QED BY <1>1, BookInductive, PTL

\* The adapter is the map of BookMap: after every event each reference has the
\* order the map has, and the simulator saw the trade of the map.
THEOREM BookIsMap == Spec => []TableIsMap
<1>1. ASSUME IInv PROVE TableIsMap
  <2>1. ASSUME NEW r \in Refs PROVE live[r] = IF Find(r) < 0 THEN NoOrder ELSE Order(Find(r))
    <3>1. CASE live[r] = NoOrder
      BY <1>1, <3>1, FindCases
    <3>2. CASE live[r] # NoOrder
      BY <1>1, <3>2, FindCases
    <3> QED BY <3>1, <3>2
  <2> QED BY <1>1, <2>1 DEF TableIsMap, IInv
<1> QED BY <1>1, BookInductive, PTL
=============================================================================
