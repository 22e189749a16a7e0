------------------------ MODULE CacheDirectoryProofs --------------------------
(***************************************************************************)
(* The chunk cache stays within its budget, and its iterators stay valid,  *)
(* for every set of keys, every chunk and cache size and every allocator,  *)
(* even when present keys are inserted.  When none is, it is an LRU cache. *)
(***************************************************************************)
EXTENDS CacheDirectoryLru, FiniteSetTheorems, TLAPS

\* The inductive invariant.  The bound on used_bytes_ needs the bound on what
\* was leaked; the bound on the list needs valid iterators.
DirInv == DirTypeOK /\ IteratorsValid /\ WithinBudget /\ LeavesRoomForOne /\ ListBounded

-----------------------------------------------------------------------------
\* A function has no more values on a finite set than the set has elements.
LEMMA ImageBound ==
    ASSUME NEW f, NEW S, IsFiniteSet(S)
    PROVE  /\ IsFiniteSet({f[x] : x \in S})
           /\ Cardinality({f[x] : x \in S}) <= Cardinality(S)
<1> DEFINE T == {f[x] : x \in S}
           g == [x \in S |-> f[x]]
<1>1. g \in Surjection(S, T)
  BY DEF Surjection
<1>2. QED
  BY <1>1, FS_Surjection

\* Multiplication by the chunk size: the nonlinear facts the proofs below use.
LEMMA ChunkArithmetic ==
    ASSUME NEW a \in Int, NEW b \in Int
    PROVE  /\ ChunkSize * a \in Int
           /\ ChunkSize * (a + b) = ChunkSize * a + ChunkSize * b
           /\ ChunkSize * (a - b) = ChunkSize * a - ChunkSize * b
           /\ a <= b => ChunkSize * a <= ChunkSize * b
  BY SizeAssumption

\* The keys of any positions are finitely many, no more than the positions.
LEMMA KeysAtPositions ==
    ASSUME DirTypeOK, NEW n \in 0..Len(lru)
    PROVE  LET K == {lru[i].key : i \in Oldest(n)}
           IN  /\ IsFiniteSet(K)
               /\ Cardinality(K) \in Nat
               /\ Cardinality(K) <= n
<1> DEFINE f == [i \in Oldest(n) |-> lru[i].key]
           K == {lru[i].key : i \in Oldest(n)}
<1>1. Len(lru) \in Nat
  BY DEF DirTypeOK
<1>2. IsFiniteSet(Oldest(n)) /\ Cardinality(Oldest(n)) = n
  BY <1>1, FS_Interval DEF Oldest
<1>3. K = {f[i] : i \in Oldest(n)}
  OBVIOUS
<1> HIDE DEF f
<1>4. QED
  BY <1>2, <1>3, ImageBound, FS_CardinalityType

\* The table is finite: valid iterators give every entry a position in the list.
LEMMA TableFinite ==
    ASSUME DirTypeOK, IteratorsValid
    PROVE  /\ IsFiniteSet(DOMAIN table)
           /\ Cardinality(DOMAIN table) \in Nat
<1>1. Len(lru) \in 0..Len(lru)
  BY DEF DirTypeOK
<1> DEFINE K == {lru[i].key : i \in Oldest(Len(lru))}
<1>2. IsFiniteSet(K)
  BY <1>1, KeysAtPositions
<1>3. DOMAIN table \subseteq K
  <2> SUFFICES ASSUME NEW k \in DOMAIN table PROVE k \in K
    OBVIOUS
  <2>1. PICK i \in Positions : lru[i] = [key |-> k, addr |-> table[k].lru_it]
    BY DEF IteratorsValid
  <2>2. i \in Oldest(Len(lru)) /\ lru[i].key = k
    BY <2>1, <1>1 DEF Positions, Oldest
  <2>3. QED
    BY <2>2
<1>4. QED
  BY <1>2, <1>3, FS_Subset, FS_CardinalityType

\* Popping every node erases every entry.
LEMMA AllVictims ==
    ASSUME DirTypeOK, IteratorsValid
    PROVE  Victims(Len(lru)) = DOMAIN table
<1> SUFFICES ASSUME NEW k \in DOMAIN table PROVE k \in Victims(Len(lru))
  BY DEF Victims
<1>1. PICK i \in Positions : lru[i] = [key |-> k, addr |-> table[k].lru_it]
  BY DEF IteratorsValid
<1>2. i \in Oldest(Len(lru)) /\ lru[i].key = k
  BY <1>1 DEF Positions, Oldest, DirTypeOK
<1>3. QED
  BY <1>2 DEF Victims

-----------------------------------------------------------------------------
LEMMA InitEstablishesInv == DirInit => DirInv
<1> SUFFICES ASSUME DirInit PROVE DirInv
  OBVIOUS
<1>1. DOMAIN table = {} /\ Len(lru) = 0 /\ used = 0
  BY DEF DirInit
<1>2. DirTypeOK
  BY <1>1 DEF DirInit, DirTypeOK
<1>3. IteratorsValid
  BY <1>1 DEF IteratorsValid, Positions
<1>4. Cardinality(DOMAIN table) = 0
  BY <1>1, FS_EmptySet
<1>5. QED
  BY <1>1, <1>2, <1>3, <1>4, SizeAssumption
  DEF DirInv, WithinBudget, LeavesRoomForOne, ListBounded, Leak

\* touch() moves one node to the front: same keys, same number of nodes.
LEMMA TouchPreservesInv ==
    ASSUME DirInv, NEW k \in Key, contains(k), touch(k), UNCHANGED used
    PROVE  DirInv'
<1> USE DEF DirInv
<1>1. PICK i \in Positions, a \in Addr :
          /\ a \notin AddrsAt(Positions \ {i})
          /\ lru[i].addr = table[k].lru_it
          /\ lru' = MoveToFront(i, [key |-> k, addr |-> a])
          /\ table' = [table EXCEPT ![k] = Node(table[k].data, table[k].valid_size, a)]
  BY DEF touch
<1>2. Len(lru) \in Nat /\ \A j \in Positions : lru[j] \in ListNode
  BY DEF DirTypeOK, Positions
<1>3. \A j \in Positions : j # 1 => j - 1 \in Positions
  BY <1>2 DEF Positions
<1>4. /\ DOMAIN lru' = Positions
      /\ \A j \in Positions : lru'[j] = IF j = 1 THEN [key |-> k, addr |-> a]
                                        ELSE IF j <= i THEN lru[j - 1] ELSE lru[j]
  BY <1>1 DEF MoveToFront
<1>5. lru' \in Seq(ListNode) /\ Len(lru') = Len(lru) /\ Positions' = Positions
  <2>1. \A j \in Positions : lru'[j] \in ListNode
    BY <1>2, <1>3, <1>4, <1>1 DEF ListNode
  <2>2. lru' \in [1..Len(lru) -> ListNode]
    BY <2>1, <1>1, <1>4 DEF MoveToFront, Positions
  <2>3. QED
    BY <2>2, <1>2 DEF Positions
<1>6. /\ DOMAIN table' = DOMAIN table
      /\ table'[k] = Node(table[k].data, table[k].valid_size, a)
      /\ \A x \in DOMAIN table : x # k => table'[x] = table[x]
  BY <1>1 DEF contains
<1>7. DirTypeOK'
  BY <1>5, <1>6, <1>1 DEF DirTypeOK, CacheEntry, Node, contains
<1>8. IteratorsValid'
  <2>1. ASSUME NEW p \in Positions', NEW q \in Positions', lru'[p].addr = lru'[q].addr
        PROVE  p = q
    <3>1. \A j \in Positions : j # 1 =>
              \E m \in Positions \ {i} : /\ lru'[j] = lru[m]
                                         /\ m = IF j <= i THEN j - 1 ELSE j
      BY <1>2, <1>3, <1>4 DEF Positions
    <3>2. \A m \in Positions \ {i} : lru[m].addr # a
      BY <1>1 DEF AddrsAt
    <3>3. lru'[1].addr = a
      BY <1>4, <1>2, <1>1 DEF Positions
    <3>4. CASE p = 1 \/ q = 1
      BY <3>1, <3>2, <3>3, <3>4, <2>1, <1>5
    <3>5. CASE p # 1 /\ q # 1
      <4>1. PICK m1 \in Positions \ {i} : /\ lru'[p] = lru[m1]
                                          /\ m1 = IF p <= i THEN p - 1 ELSE p
        BY <3>1, <3>5, <1>5
      <4>2. PICK m2 \in Positions \ {i} : /\ lru'[q] = lru[m2]
                                          /\ m2 = IF q <= i THEN q - 1 ELSE q
        BY <3>1, <3>5, <1>5
      <4>3. m1 = m2
        BY <4>1, <4>2, <2>1 DEF IteratorsValid
      <4>4. QED
        BY <4>1, <4>2, <4>3, <1>5, <1>2 DEF Positions
    <3>6. QED
      BY <3>4, <3>5
  <2>2. ASSUME NEW x \in DOMAIN table'
        PROVE  \E j \in Positions' : lru'[j] = [key |-> x, addr |-> table'[x].lru_it]
    <3>1. CASE x = k
      <4>1. 1 \in Positions
        BY <1>1, <1>2 DEF Positions
      <4>2. table'[x].lru_it = a
        BY <1>6, <3>1 DEF Node
      <4>3. QED
        BY <4>1, <4>2, <1>4, <1>5, <3>1
    <3>2. CASE x # k
      <4>1. PICK m \in Positions : lru[m] = [key |-> x, addr |-> table[x].lru_it]
        BY <2>2, <1>6 DEF IteratorsValid
      <4>2. m # i
        <5>1. PICK m2 \in Positions : lru[m2] = [key |-> k, addr |-> table[k].lru_it]
          BY DEF IteratorsValid, contains
        <5>2. m2 = i
          BY <5>1, <1>1 DEF IteratorsValid
        <5>3. lru[m].key = x /\ lru[m2].key = k
          BY <4>1, <5>1
        <5>4. QED
          BY <5>2, <5>3, <3>2
      <4> DEFINE j == IF m < i THEN m + 1 ELSE m
      <4>3. j \in Positions /\ j # 1 /\ lru'[j] = lru[m]
        BY <4>2, <1>2, <1>4 DEF Positions
      <4>4. table'[x] = table[x]
        BY <3>2, <1>6, <2>2
      <4>5. QED
        BY <4>1, <4>3, <4>4, <1>5
    <3>3. QED
      BY <3>1, <3>2
  <2>3. QED
    BY <2>1, <2>2 DEF IteratorsValid
<1>9. QED
  BY <1>5, <1>6, <1>7, <1>8 DEF WithinBudget, LeavesRoomForOne, ListBounded, Leak

\* What the eviction loop leaves: room for one more chunk and the same leak.
LEMMA EvictionMakesRoom ==
    ASSUME DirInv, ChunkSize <= CacheSize, NEW n \in 0..Len(lru), Evicts(n)
    PROVE  LET kept == DOMAIN table \ Victims(n)
           IN  /\ IsFiniteSet(kept)
               /\ Cardinality(kept) \in Nat
               /\ UsedAfter(n) \in Int
               /\ UsedAfter(n) = ChunkSize * Cardinality(kept) + Leak
               /\ UsedAfter(n) + ChunkSize <= CacheSize
               /\ ChunkSize * (Len(lru) - n) <= UsedAfter(n)
<1> DEFINE kept == DOMAIN table \ Victims(n)
           K == {lru[i].key : i \in Oldest(n)}
           t == Cardinality(DOMAIN table)
           v == Cardinality(Victims(n))
<1> USE DEF DirInv
<1>1. IsFiniteSet(DOMAIN table) /\ t \in Nat
  BY TableFinite
<1>2. /\ IsFiniteSet(Victims(n))
      /\ v \in Nat
      /\ v <= n
  <2>1. IsFiniteSet(K) /\ Cardinality(K) \in Nat /\ Cardinality(K) <= n
    BY KeysAtPositions
  <2>2. Victims(n) \in SUBSET K
    BY DEF Victims
  <2>3. IsFiniteSet(Victims(n)) /\ v <= Cardinality(K)
    BY <2>1, <2>2, FS_Subset
  <2>4. v \in Nat
    BY <2>3, FS_CardinalityType
  <2>5. QED
    BY <2>1, <2>3, <2>4
<1>3. IsFiniteSet(kept) /\ Cardinality(kept) \in Nat /\ Cardinality(kept) = t - v
  <2>1. IsFiniteSet(kept)
    BY <1>1, FS_Subset
  <2>2. Cardinality(kept) \in Nat
    BY <2>1, FS_CardinalityType
  <2>3. kept \cup Victims(n) = DOMAIN table /\ kept \cap Victims(n) = {}
    BY DEF Victims
  <2>4. Cardinality(kept \cup Victims(n)) =
            Cardinality(kept) + Cardinality(Victims(n)) - Cardinality(kept \cap Victims(n))
    BY <2>1, <1>2, FS_Union
  <2>5. t = Cardinality(kept) + v - 0
    BY <2>3, <2>4, FS_EmptySet
  <2> HIDE DEF kept, t, v
  <2>6. QED
    BY <2>1, <2>2, <2>5, <1>1, <1>2
<1>4. Len(lru) \in Nat /\ used \in Nat /\ n \in Nat
  BY DEF DirTypeOK
<1>5. UsedAfter(n) = used - ChunkSize * v
  BY DEF UsedAfter
<1>6. Leak = used - ChunkSize * t
  BY DEF Leak
<1>7. ChunkSize * Cardinality(kept) = ChunkSize * t - ChunkSize * v
  BY <1>1, <1>2, <1>3, ChunkArithmetic
<1>8. /\ ChunkSize * v \in Int
      /\ ChunkSize * t \in Int
      /\ ChunkSize * v <= ChunkSize * n
      /\ ChunkSize * (Len(lru) - n) = ChunkSize * Len(lru) - ChunkSize * n
      /\ ChunkSize * n \in Int
      /\ ChunkSize * Len(lru) \in Int
  BY <1>1, <1>2, <1>4, ChunkArithmetic
<1>9. UsedAfter(n) \in Int /\ UsedAfter(n) = ChunkSize * Cardinality(kept) + Leak
  BY <1>4, <1>5, <1>6, <1>7, <1>8
<1>10. ChunkSize * (Len(lru) - n) <= UsedAfter(n)
  BY <1>4, <1>5, <1>8 DEF ListBounded
<1>11. UsedAfter(n) + ChunkSize <= CacheSize
  <2>1. CASE n = Len(lru)
    <3>1. kept = {}
      BY <2>1, AllVictims
    <3>2. UsedAfter(n) = Leak
      BY <3>1, <1>1, <1>4, <1>5, <1>6, <1>8, <2>1, AllVictims
    <3>3. Leak <= CacheSize - ChunkSize
      BY DEF LeavesRoomForOne
    <3>4. QED
      BY <3>2, <3>3, <1>9, SizeAssumption
  <2>2. CASE n # Len(lru)
    BY <2>2 DEF Evicts, StopsAfter
  <2>3. QED
    BY <2>1, <2>2
<1>12. QED
  BY <1>3, <1>9, <1>10, <1>11

\* insert() after evicting n nodes, whether or not the key is (still) present.
LEMMA StorePreservesInv ==
    ASSUME DirInv, NEW k \in Key, NEW d \in Content, NEW v \in 1..ChunkSize,
           ChunkSize <= CacheSize, NEW n \in 0..Len(lru), Evicts(n),
           NEW a \in Addr, a \notin AddrsAt(Positions \ Oldest(n)),
           store(k, d, v, n, a)
    PROVE  DirInv'
<1> DEFINE kept == DOMAIN table \ Victims(n)
           node == Node(d, v, a)
           c == Cardinality(kept)
<1> USE DEF DirInv
<1>1. /\ lru' = [j \in 1..(Len(lru) - n + 1) |->
                   IF j = 1 THEN [key |-> k, addr |-> a] ELSE lru[j - 1]]
      /\ table' = [x \in kept \cup {k} |-> IF x = k THEN node ELSE table[x]]
      /\ used' = UsedAfter(n) + ChunkSize
  BY DEF store
<1>2. /\ IsFiniteSet(kept)
      /\ c \in Nat
      /\ UsedAfter(n) \in Int
      /\ UsedAfter(n) = ChunkSize * c + Leak
      /\ UsedAfter(n) + ChunkSize <= CacheSize
      /\ ChunkSize * (Len(lru) - n) <= UsedAfter(n)
  BY EvictionMakesRoom
<1>3. /\ Len(lru) \in Nat
      /\ n \in Nat
      /\ n <= Len(lru)
      /\ \A j \in 1..Len(lru) : lru[j] \in ListNode
  BY DEF DirTypeOK
<1> DEFINE m == Len(lru) - n + 1
<1>4. m \in Nat /\ m >= 1
  BY <1>3
<1>5. lru' \in Seq(ListNode) /\ Len(lru') = m /\ Positions' = 1..m
  <2>1. lru' \in [1..m -> ListNode]
    BY <1>1, <1>3 DEF ListNode
  <2>2. QED
    BY <2>1, <1>4 DEF Positions
<1>6. lru'[1] = [key |-> k, addr |-> a] /\ \A j \in 2..m : lru'[j] = lru[j - 1]
  BY <1>1, <1>3, <1>4
<1>7. Leak \in Int /\ Leak >= 0 /\ ChunkSize * c \in Int /\ ChunkSize * c >= 0
  <2>1. Cardinality(DOMAIN table) \in Nat
    BY TableFinite
  <2>2. ChunkSize * Cardinality(DOMAIN table) \in Int
    BY <2>1, ChunkArithmetic
  <2>3. QED
    BY <2>2, <1>2, SizeAssumption DEF Leak, WithinBudget, DirTypeOK
<1>8. DirTypeOK'
  <2>1. used' \in Nat
    BY <1>1, <1>2, <1>7, SizeAssumption
  <2>2. node \in CacheEntry
    BY DEF CacheEntry, Node
  <2>3. DOMAIN table' \subseteq Key /\ table' \in [DOMAIN table' -> CacheEntry]
    BY <1>1, <2>2 DEF DirTypeOK
  <2>4. QED
    BY <2>1, <2>3, <1>5 DEF DirTypeOK
<1>9. IteratorsValid'
  <2>1. ASSUME NEW p \in Positions', NEW q \in Positions', lru'[p].addr = lru'[q].addr
        PROVE  p = q
    <3>1. \A j \in 2..m : j - 1 \in Positions \ Oldest(n) /\ lru'[j].addr = lru[j - 1].addr
      BY <1>3, <1>6 DEF Positions, Oldest
    <3>2. \A j \in 2..m : lru'[j].addr # a
      BY <3>1 DEF AddrsAt
    <3>3. lru'[1].addr = a
      BY <1>6
    <3>4. CASE p = 1 \/ q = 1
      BY <3>2, <3>3, <3>4, <2>1, <1>4, <1>5
    <3>5. CASE p # 1 /\ q # 1
      <4>1. p \in 2..m /\ q \in 2..m
        BY <3>5, <1>4, <1>5
      <4>2. p - 1 = q - 1
        BY <4>1, <3>1, <2>1 DEF IteratorsValid
      <4>3. QED
        BY <4>1, <4>2
    <3>6. QED
      BY <3>4, <3>5
  <2>2. ASSUME NEW x \in DOMAIN table'
        PROVE  \E j \in Positions' : lru'[j] = [key |-> x, addr |-> table'[x].lru_it]
    <3>1. CASE x = k
      <4>1. table'[x].lru_it = a
        BY <3>1, <1>1 DEF Node
      <4>2. QED
        BY <4>1, <3>1, <1>4, <1>5, <1>6
    <3>2. CASE x # k
      <4>1. x \in kept /\ table'[x] = table[x]
        BY <3>2, <2>2, <1>1
      <4>2. PICK i \in Positions : lru[i] = [key |-> x, addr |-> table[x].lru_it]
        BY <4>1 DEF IteratorsValid
      <4>3. i \notin Oldest(n)
        BY <4>1, <4>2 DEF Victims
      <4>4. i + 1 \in 2..m
        BY <4>3, <1>3 DEF Positions, Oldest
      <4>5. lru'[i + 1] = lru[i]
        <5>1. lru'[i + 1] = lru[(i + 1) - 1]
          BY <4>4, <1>6
        <5>2. (i + 1) - 1 = i
          BY <1>3 DEF Positions
        <5>3. QED
          BY <5>1, <5>2
      <4>6. QED
        BY <4>1, <4>2, <4>4, <4>5, <1>5, <1>4
    <3>3. QED
      BY <3>1, <3>2
  <2>3. QED
    BY <2>1, <2>2 DEF IteratorsValid
<1>10. Cardinality(DOMAIN table') = IF k \in kept THEN c ELSE c + 1
  BY <1>1, <1>2, FS_AddElement
<1> DEFINE U == UsedAfter(n)
           X == ChunkSize * c
           Y == ChunkSize * Cardinality(DOMAIN table')
<1>11. /\ k \in kept => Y = X /\ ChunkSize <= X
       /\ k \notin kept => Y = X + ChunkSize
  <2>1. k \in kept => c # 0
    BY <1>2, FS_EmptySet
  <2> HIDE DEF c, kept
  <2>2. ChunkSize * (c + 1) = ChunkSize * c + ChunkSize
    BY <1>2, SizeAssumption
  <2>3. c # 0 => ChunkSize <= ChunkSize * c
    BY <1>2, SizeAssumption
  <2>4. QED
    BY <2>1, <2>2, <2>3, <1>10
<1>12. /\ used' = U + ChunkSize
       /\ U \in Int
       /\ U = X + Leak
       /\ U + ChunkSize <= CacheSize
       /\ Leak' = used' - Y
       /\ X \in Int
       /\ Leak \in Int
       /\ Leak >= 0
  BY <1>1, <1>2, <1>7 DEF Leak
<1>13. WithinBudget' /\ LeavesRoomForOne'
  <2> DEFINE L == Leak
             N == Leak'
  <2>1. L <= CacheSize - ChunkSize
    BY DEF LeavesRoomForOne
  <2>2. N <= CacheSize - ChunkSize => LeavesRoomForOne'
    BY DEF LeavesRoomForOne
  <2>3. Y <= used' /\ used' <= CacheSize => WithinBudget'
    BY DEF WithinBudget
  <2> HIDE DEF U, X, Y, L, N, kept
  <2>4. QED
    BY <2>1, <2>2, <2>3, <1>11, <1>12, SizeAssumption DEF L, N
<1>14. ListBounded'
  <2>1. ChunkSize * m = ChunkSize * (Len(lru) - n) + ChunkSize
    BY <1>3, SizeAssumption
  <2>2. ChunkSize * (Len(lru) - n) \in Int
    BY <1>3, ChunkArithmetic
  <2>3. QED
    BY <2>1, <2>2, <1>1, <1>2, <1>5, SizeAssumption DEF ListBounded
<1>15. QED
  BY <1>8, <1>9, <1>13, <1>14

\* Any call keeps the invariant.
LEMMA NextPreservesInv == DirInv /\ [DirNext]_dirVars => DirInv'
<1> SUFFICES ASSUME DirInv, [DirNext]_dirVars PROVE DirInv'
  OBVIOUS
<1>1. CASE UNCHANGED dirVars
  BY <1>1 DEF dirVars, DirInv, DirTypeOK, IteratorsValid, Positions, WithinBudget,
              LeavesRoomForOne, ListBounded, Leak
<1>2. ASSUME NEW k \in Key, lookup(k) PROVE DirInv'
  BY <1>1, <1>2, TouchPreservesInv DEF lookup
<1>3. ASSUME NEW k \in Key, NEW d \in Content, NEW v \in 0..ChunkSize, insert(k, d, v)
      PROVE  DirInv'
  <2>1. CASE ~Admits(v)
    BY <2>1, <1>1, <1>3 DEF insert
  <2>2. CASE Admits(v)
    <3>1. PICK n \in 0..Len(lru), a \in Addr :
              /\ Evicts(n)
              /\ a \notin AddrsAt(Positions \ Oldest(n))
              /\ store(k, d, v, n, a)
      BY <2>2, <1>3 DEF insert
    <3>2. v \in 1..ChunkSize /\ ChunkSize <= CacheSize
      BY <2>2 DEF Admits
    <3>3. QED
      BY <3>1, <3>2, StorePreservesInv
  <2>3. QED
    BY <2>1, <2>2
<1>4. QED
  BY <1>1, <1>2, <1>3 DEF DirNext

-----------------------------------------------------------------------------
\* Every reachable directory satisfies the inductive invariant.
THEOREM DirInvariant == DirSpec => []DirInv
  BY InitEstablishesInv, NextPreservesInv, PTL DEF DirSpec

\* Type correctness of table_, lru_ and used_bytes_.
THEOREM DirTypeCorrect == DirSpec => []DirTypeOK
<1>1. DirInv => DirTypeOK
  BY DEF DirInv
<1>2. QED
  BY <1>1, DirInvariant, PTL

\* touch() never erases through a dangling iterator.
THEOREM DirIteratorsValid == DirSpec => []IteratorsValid
<1>1. DirInv => IteratorsValid
  BY DEF DirInv
<1>2. QED
  BY <1>1, DirInvariant, PTL

\* insert() keeps the entries, and used_bytes_, within cache_size_bytes_.
THEOREM DirWithinBudget == DirSpec => []WithinBudget
<1>1. DirInv => WithinBudget
  BY DEF DirInv
<1>2. QED
  BY <1>1, DirInvariant, PTL

\* Leaked bytes never lock the cache: the budget always has room for a chunk.
THEOREM DirLeavesRoomForOne == DirSpec => []LeavesRoomForOne
<1>1. DirInv => LeavesRoomForOne
  BY DEF DirInv
<1>2. QED
  BY <1>1, DirInvariant, PTL

\* The list never has more nodes than chunks fit, orphaned nodes included.
THEOREM DirListBounded == DirSpec => []ListBounded
<1>1. DirInv => ListBounded
  BY DEF DirInv
<1>2. QED
  BY <1>1, DirInvariant, PTL
-----------------------------------------------------------------------------
(* Without duplicate inserts: an LRU cache.                                *)

\* How many chunks fit.
Fits == CacheSize \div ChunkSize

\* The list is the beginning of the order of use, as much of it as fits, every node
\* of it is an entry's, and nothing is counted twice.
OrderInv ==
    /\ recency \in Seq(Key)
    /\ \A i, j \in 1..Len(recency) : recency[i] = recency[j] => i = j
    /\ Len(lru) <= Len(recency)
    /\ \A i \in Positions : recency[i] = lru[i].key
    /\ \A i \in Positions : lru[i].key \in DOMAIN table
    /\ Len(lru) = Len(recency) \/ Len(lru) >= Fits
    /\ used = ChunkSize * Len(lru)

LruInv == DirInv /\ OrderInv

\* n chunks are within the budget exactly when n is at most Fits.
LEMMA FitsMeans ==
    /\ Fits \in Nat
    /\ \A n \in Nat : ChunkSize * n <= CacheSize <=> n <= Fits
<1>1. CacheSize = ChunkSize * Fits + (CacheSize % ChunkSize) /\ (CacheSize % ChunkSize) \in 0..(ChunkSize - 1)
      /\ Fits \in Int
  BY SizeAssumption, SMTT(30) DEF Fits
<1>2. Fits >= 0
  <2> SUFFICES ASSUME Fits <= -1 PROVE FALSE
    BY <1>1
  <2>1. ChunkSize * Fits <= ChunkSize * (-1)
    BY <1>1, ChunkArithmetic
  <2>2. QED
    BY <2>1, <1>1, ChunkArithmetic, SizeAssumption
<1>3. ASSUME NEW n \in Nat, n <= Fits PROVE ChunkSize * n <= CacheSize
  BY <1>1, <1>3, ChunkArithmetic, SizeAssumption
<1>4. ASSUME NEW n \in Nat, n >= Fits + 1 PROVE ChunkSize * n > CacheSize
  <2>1. ChunkSize * (Fits + 1) <= ChunkSize * n
    BY <1>1, <1>4, ChunkArithmetic
  <2>2. ChunkSize * (Fits + 1) = ChunkSize * Fits + ChunkSize * 1
    BY <1>1, ChunkArithmetic
  <2>3. ChunkSize * n \in Int /\ ChunkSize * Fits \in Int
    BY <1>1, ChunkArithmetic
  <2>4. QED
    BY <2>1, <2>2, <2>3, <1>1, SizeAssumption
<1>5. QED
  BY <1>1, <1>2, <1>3, <1>4, ChunkArithmetic, SizeAssumption

\* What becomes of the order of use when k, at place p of it, is used.
LEMMA Reordered ==
    ASSUME NEW r \in Seq(Key), NEW k \in Key, NEW p \in 1..(Len(r) + 1)
    PROVE  LET s == <<k>> \o SubSeq(r, 1, p - 1) \o SubSeq(r, p + 1, Len(r))
           IN  /\ s \in Seq(Key)
               /\ Len(s) = IF p <= Len(r) THEN Len(r) ELSE Len(r) + 1
               /\ \A j \in 1..Len(s) :
                      s[j] = IF j = 1 THEN k ELSE IF j <= p THEN r[j - 1] ELSE r[j]
<1> DEFINE a == SubSeq(r, 1, p - 1)
           b == SubSeq(r, p + 1, Len(r))
           s == <<k>> \o a \o b
<1>1. a \in Seq(Key) /\ Len(a) = p - 1 /\ \A j \in 1..(p - 1) : a[j] = r[j]
  OBVIOUS
<1>2. /\ b \in Seq(Key)
      /\ Len(b) = IF p <= Len(r) THEN Len(r) - p ELSE 0
      /\ \A j \in 1..Len(b) : b[j] = r[p + j]
  OBVIOUS
<1> HIDE DEF a, b
<1> DEFINE c == <<k>> \o a
<1>3. c \in Seq(Key) /\ Len(c) = p /\ \A j \in 1..p : c[j] = IF j = 1 THEN k ELSE r[j - 1]
  <2>1. c \in Seq(Key) /\ Len(c) = p
    BY <1>1
  <2>2. ASSUME NEW j \in 1..p PROVE c[j] = IF j = 1 THEN k ELSE a[j - 1]
    BY <1>1
  <2>3. QED
    BY <1>1, <2>1, <2>2
<1> HIDE DEF c
<1>4. s = c \o b
  BY DEF c
<1> HIDE DEF s
<1>5. s \in Seq(Key) /\ Len(s) = p + Len(b)
  <2>1. \A x, y : x \in Seq(Key) /\ y \in Seq(Key) => x \o y \in Seq(Key) /\ Len(x \o y) = Len(x) + Len(y)
    OBVIOUS
  <2>2. QED
    BY <2>1, <1>2, <1>3, <1>4
<1>6. ASSUME NEW j \in 1..Len(s)
      PROVE  s[j] = IF j = 1 THEN k ELSE IF j <= p THEN r[j - 1] ELSE r[j]
  <2>1. CASE j <= p
    BY <1>2, <1>3, <1>4, <1>5, <2>1
  <2>2. CASE j > p
    <3>1. s[j] = b[j - p] /\ j - p \in 1..Len(b) /\ p + (j - p) = j
      BY <1>2, <1>3, <1>4, <1>5, <2>2
    <3>2. QED
      BY <3>1, <2>2, <1>2
  <2>3. QED
    BY <2>1, <2>2
<1>7. Len(s) = IF p <= Len(r) THEN Len(r) ELSE Len(r) + 1
  BY <1>2, <1>5
<1>8. s = <<k>> \o SubSeq(r, 1, p - 1) \o SubSeq(r, p + 1, Len(r))
  BY DEF s, a, b
<1>9. QED
  BY <1>5, <1>6, <1>7, <1>8

\* The same, of the variable.
LEMMA Used ==
    ASSUME OrderInv, NEW k \in Key, Lru!Use(k)
    PROVE  \E p \in 1..(Len(recency) + 1) :
               /\ \A i \in 1..Len(recency) : recency[i] = k <=> i = p
               /\ recency' \in Seq(Key)
               /\ Len(recency') = IF p <= Len(recency) THEN Len(recency) ELSE Len(recency) + 1
               /\ \A j \in 1..Len(recency') :
                      recency'[j] = IF j = 1 THEN k ELSE IF j <= p THEN recency[j - 1] ELSE recency[j]
               /\ \A i, j \in 1..Len(recency') : recency'[i] = recency'[j] => i = j
<1>1. PICK p \in 1..(Len(recency) + 1) :
          /\ \A i \in 1..Len(recency) : recency[i] = k <=> i = p
          /\ recency' = <<k>> \o SubSeq(recency, 1, p - 1) \o SubSeq(recency, p + 1, Len(recency))
  BY DEF Lru!Use
<1>2. recency \in Seq(Key) /\ Len(recency) \in Nat
  BY DEF OrderInv
<1>3. /\ recency' \in Seq(Key)
      /\ Len(recency') = IF p <= Len(recency) THEN Len(recency) ELSE Len(recency) + 1
      /\ \A j \in 1..Len(recency') :
             recency'[j] = IF j = 1 THEN k ELSE IF j <= p THEN recency[j - 1] ELSE recency[j]
  BY <1>1, <1>2, Reordered
<1>4. ASSUME NEW i \in 1..Len(recency'), NEW j \in 1..Len(recency'), recency'[i] = recency'[j]
      PROVE  i = j
  <2> DEFINE From(x) == IF x <= p THEN x - 1 ELSE x
  <2>1. \A x \in 1..Len(recency') : x # 1 =>
            /\ From(x) \in 1..Len(recency) /\ From(x) # p
            /\ recency'[x] = recency[From(x)]
    BY <1>2, <1>3
  <2>2. \A x \in 1..Len(recency') : x # 1 => recency'[x] # k
    BY <2>1, <1>1
  <2>3. recency'[1] = k
    BY <1>3, <1>4
  <2>4. CASE i = 1 \/ j = 1
    BY <2>2, <2>3, <2>4, <1>4
  <2>5. CASE i # 1 /\ j # 1
    <3>1. From(i) = From(j)
      BY <2>1, <2>5, <1>4 DEF OrderInv
    <3>2. QED
      BY <3>1, <2>1, <2>5, <1>3, <1>2
  <2>6. QED
    BY <2>4, <2>5
<1>5. QED
  BY <1>1, <1>3, <1>4
LEMMA InitOrder == UniqueInit => LruInv
<1> SUFFICES ASSUME UniqueInit PROVE LruInv
  OBVIOUS
<1>1. DirInv
  BY InitEstablishesInv DEF UniqueInit
<1>2. Len(lru) = 0 /\ recency = <<>> /\ Len(recency) = 0 /\ used = 0
  BY DEF UniqueInit, DirInit
<1>3. recency \in Seq(Key)
  BY <1>2
<1>4. QED
  BY <1>1, <1>2, <1>3, SizeAssumption DEF LruInv, OrderInv, Positions

\* A hit moves the same place to the front of the list and of the order of use.
LEMMA HitOrder ==
    ASSUME LruInv, NEW k \in Key, contains(k), touch(k), UNCHANGED used, Lru!Use(k)
    PROVE  OrderInv'
<1> USE DEF LruInv
<1>1. PICK i \in Positions, a \in Addr :
          /\ lru[i].addr = table[k].lru_it
          /\ lru' = MoveToFront(i, [key |-> k, addr |-> a])
          /\ table' = [table EXCEPT ![k] = Node(table[k].data, table[k].valid_size, a)]
  BY DEF touch
<1>2. lru[i].key = k
  <2>1. PICK m \in Positions : lru[m] = [key |-> k, addr |-> table[k].lru_it]
    BY DEF DirInv, IteratorsValid, contains
  <2>2. m = i
    BY <2>1, <1>1 DEF DirInv, IteratorsValid
  <2>3. QED
    BY <2>1, <2>2
<1>3. Len(lru) \in Nat /\ Len(recency) \in Nat /\ i \in 1..Len(lru) /\ Positions = 1..Len(lru)
  BY DEF DirInv, DirTypeOK, Positions, OrderInv
<1>4. /\ DOMAIN lru' = 1..Len(lru)
      /\ \A j \in 1..Len(lru) : lru'[j] = IF j = 1 THEN [key |-> k, addr |-> a]
                                          ELSE IF j <= i THEN lru[j - 1] ELSE lru[j]
  BY <1>1, <1>3 DEF MoveToFront
<1>5. Len(lru') = Len(lru) /\ Positions' = Positions
  <2>1. DirInv'
    BY TouchPreservesInv
  <2>2. lru' \in Seq(ListNode)
    BY <2>1 DEF DirInv, DirTypeOK
  <2>3. QED
    BY <2>2, <1>3, <1>4 DEF Positions
<1>6. PICK p \in 1..(Len(recency) + 1) :
          /\ \A m \in 1..Len(recency) : recency[m] = k <=> m = p
          /\ recency' \in Seq(Key)
          /\ Len(recency') = IF p <= Len(recency) THEN Len(recency) ELSE Len(recency) + 1
          /\ \A j \in 1..Len(recency') :
                 recency'[j] = IF j = 1 THEN k ELSE IF j <= p THEN recency[j - 1] ELSE recency[j]
          /\ \A m, j \in 1..Len(recency') : recency'[m] = recency'[j] => m = j
  BY Used
<1>7. p = i /\ Len(recency') = Len(recency)
  <2>1. i \in 1..Len(recency) /\ recency[i] = k
    BY <1>2, <1>3 DEF OrderInv
  <2>2. QED
    BY <2>1, <1>3, <1>6
<1>8. \A j \in Positions : recency'[j] = lru'[j].key
  <2> SUFFICES ASSUME NEW j \in 1..Len(lru) PROVE recency'[j] = lru'[j].key
    BY <1>3
  <2>1. j \in 1..Len(recency')
    BY <1>3, <1>7 DEF OrderInv
  <2>2. recency'[j] = IF j = 1 THEN k ELSE IF j <= i THEN recency[j - 1] ELSE recency[j]
    BY <2>1, <1>6, <1>7
  <2>3. j # 1 => j - 1 \in 1..Len(lru)
    BY <1>3
  <2>4. recency[j] = lru[j].key /\ (j # 1 => recency[j - 1] = lru[j - 1].key)
    BY <2>3, <1>3 DEF OrderInv
  <2>5. QED
    BY <2>2, <2>4, <1>4
<1>9. DOMAIN table' = DOMAIN table
  BY <1>1
<1>10. \A j \in Positions : lru'[j].key \in DOMAIN table'
  <2> SUFFICES ASSUME NEW j \in 1..Len(lru) PROVE lru'[j].key \in DOMAIN table
    BY <1>3, <1>9
  <2>1. j # 1 => j - 1 \in 1..Len(lru)
    BY <1>3
  <2>2. \A m \in 1..Len(lru) : lru[m].key \in DOMAIN table
    BY <1>3 DEF OrderInv
  <2>3. QED
    BY <2>1, <2>2, <1>4 DEF contains
<1>11. QED
  BY <1>5, <1>6, <1>7, <1>8, <1>10 DEF OrderInv, Fits

\* The eviction loop pops one node when the cache is full and none otherwise.
LEMMA EvictsOne ==
    ASSUME LruInv, ChunkSize <= CacheSize, NEW n \in 0..Len(lru), Evicts(n)
    PROVE  /\ Len(lru) <= Fits
           /\ n = IF Len(lru) = Fits THEN 1 ELSE 0
           /\ UsedAfter(n) = ChunkSize * (Len(lru) - n)
<1> USE DEF LruInv
<1>1. Len(lru) \in Nat /\ Positions = 1..Len(lru) /\ used = ChunkSize * Len(lru)
  BY DEF DirInv, DirTypeOK, OrderInv, Positions
<1>2. Len(lru) <= Fits
  BY <1>1, FitsMeans DEF DirInv, WithinBudget
<1>3. Fits >= 1
  <2>1. ChunkSize * 1 = ChunkSize
    BY SizeAssumption
  <2>2. QED
    BY <2>1, FitsMeans
<1>4. \A i, j \in Positions : lru[i].key = lru[j].key => i = j
  <2>1. \A i \in Positions : i \in 1..Len(recency) /\ recency[i] = lru[i].key
    BY <1>1 DEF OrderInv
  <2>2. QED
    BY <2>1 DEF OrderInv
<1>5. ASSUME NEW m \in 0..Len(lru) PROVE UsedAfter(m) = ChunkSize * (Len(lru) - m)
  <2> DEFINE f == [i \in Oldest(m) |-> lru[i].key]
  <2>1. Oldest(m) \subseteq Positions
    BY <1>1 DEF Oldest
  <2>2. IsFiniteSet(Oldest(m)) /\ Cardinality(Oldest(m)) = m
    BY <1>1, FS_Interval DEF Oldest
  <2>3. Victims(m) = {f[i] : i \in Oldest(m)}
    BY <2>1 DEF Victims, OrderInv
  <2>4. f \in Bijection(Oldest(m), Victims(m))
    BY <2>1, <2>3, <1>4 DEF Bijection, Injection, Surjection, IsInjective
  <2>5. Cardinality(Victims(m)) = m
    BY <2>2, <2>4, FS_Bijection DEF ExistsBijection
  <2>6. QED
    BY <2>5, <1>1, ChunkArithmetic DEF UsedAfter
<1>6. ASSUME NEW m \in 0..Len(lru) PROVE StopsAfter(m) <=> Len(lru) - m + 1 <= Fits \/ m = Len(lru)
  <2>1. Len(lru) - m + 1 \in Nat
    BY <1>1
  <2>2. ChunkSize * (Len(lru) - m + 1) = ChunkSize * (Len(lru) - m) + ChunkSize
    BY <1>1, SizeAssumption
  <2>3. QED
    BY <1>5, <2>1, <2>2, FitsMeans DEF StopsAfter
<1>7. CASE Len(lru) = Fits
  <2>1. ~StopsAfter(0) /\ StopsAfter(1) /\ 0 \in 0..Len(lru) /\ 1 \in 0..Len(lru)
    BY <1>1, <1>3, <1>6, <1>7
  <2>2. n # 0
    BY <2>1 DEF Evicts
  <2>3. ~(n > 1)
    BY <2>1 DEF Evicts
  <2>4. QED
    BY <2>2, <2>3, <1>2, <1>5, <1>7
<1>8. CASE Len(lru) # Fits
  <2>1. StopsAfter(0)
    BY <1>1, <1>2, <1>6, <1>8, FitsMeans
  <2>2. n = 0
    BY <2>1 DEF Evicts
  <2>3. QED
    BY <2>2, <1>2, <1>5, <1>8
<1>9. QED
  BY <1>7, <1>8
\* An admitted insert() of an absent key puts it in front of the list and of the order.
LEMMA FillOrder ==
    ASSUME LruInv, NEW k \in Key, ~contains(k), NEW d \in Content, NEW v \in 1..ChunkSize,
           ChunkSize <= CacheSize, NEW n \in 0..Len(lru), Evicts(n),
           NEW a \in Addr, store(k, d, v, n, a), DirInv', Lru!Use(k)
    PROVE  OrderInv'
<1> USE DEF LruInv
<1> DEFINE l == Len(lru) - n + 1
<1>1. /\ Len(lru) <= Fits
      /\ n = IF Len(lru) = Fits THEN 1 ELSE 0
      /\ UsedAfter(n) = ChunkSize * (Len(lru) - n)
  BY EvictsOne
<1>2. /\ Len(lru) \in Nat /\ Len(recency) \in Nat /\ Len(lru) <= Len(recency)
      /\ Positions = 1..Len(lru) /\ l \in Nat /\ l >= 1 /\ l <= Len(lru) + 1 /\ Fits \in Nat
      /\ Len(lru) = Len(recency) \/ Len(lru) >= Fits
      /\ \A i \in 1..Len(lru) : recency[i] = lru[i].key /\ lru[i].key \in DOMAIN table
  BY FitsMeans DEF DirInv, DirTypeOK, Positions, OrderInv
<1>3. /\ lru' = [j \in 1..l |-> IF j = 1 THEN [key |-> k, addr |-> a] ELSE lru[j - 1]]
      /\ DOMAIN table' = (DOMAIN table \ Victims(n)) \cup {k}
      /\ used' = UsedAfter(n) + ChunkSize
  BY DEF store
<1>4. Len(lru') = l /\ Positions' = 1..l
  <2>1. lru' \in Seq(ListNode) /\ DOMAIN lru' = 1..l
    BY <1>3 DEF DirInv, DirTypeOK
  <2>2. QED
    BY <2>1, <1>2 DEF Positions
<1>5. PICK p \in 1..(Len(recency) + 1) :
          /\ \A m \in 1..Len(recency) : recency[m] = k <=> m = p
          /\ recency' \in Seq(Key)
          /\ Len(recency') = IF p <= Len(recency) THEN Len(recency) ELSE Len(recency) + 1
          /\ \A j \in 1..Len(recency') :
                 recency'[j] = IF j = 1 THEN k ELSE IF j <= p THEN recency[j - 1] ELSE recency[j]
          /\ \A m, j \in 1..Len(recency') : recency'[m] = recency'[j] => m = j
  BY Used
<1>6. p > Len(lru)
  <2> SUFFICES ASSUME p <= Len(lru) PROVE FALSE
    BY <1>2
  <2>1. recency[p] = k /\ recency[p] \in DOMAIN table
    BY <1>2, <1>5
  <2>2. QED
    BY <2>1 DEF contains
<1>7. Len(recency') = IF p <= Len(recency) THEN Len(recency) ELSE Len(recency) + 1
  BY <1>5
<1>8. l <= Len(recency')
  BY <1>2, <1>6, <1>7
<1>9. l = Len(recency') \/ l >= Fits
  <2>1. CASE Len(lru) = Fits
    BY <2>1, <1>1, <1>2
  <2>2. CASE Len(lru) # Fits
    <3>1. n = 0 /\ Len(lru) = Len(recency)
      BY <2>2, <1>1, <1>2
    <3>2. QED
      BY <3>1, <1>2, <1>6, <1>7
  <2>3. QED
    BY <2>1, <2>2
<1>10. ASSUME NEW j \in 1..l PROVE recency'[j] = lru'[j].key /\ lru'[j].key \in DOMAIN table'
  <2>1. CASE j = 1
    BY <2>1, <1>2, <1>3, <1>5, <1>8
  <2>2. CASE j # 1
    <3>1. j - 1 \in 1..Len(lru) /\ j - 1 <= Len(lru) - n /\ j <= p /\ j \in 1..Len(recency')
      BY <2>2, <1>2, <1>6, <1>8
    <3>2. recency'[j] = recency[j - 1] /\ lru'[j] = lru[j - 1]
      BY <3>1, <2>2, <1>3, <1>5
    <3>3. recency'[j] = lru'[j].key /\ lru[j - 1].key \in DOMAIN table
      BY <3>1, <3>2, <1>2
    <3>4. lru[j - 1].key \notin {lru[i].key : i \in Oldest(n)}
      <4> SUFFICES ASSUME NEW i \in Oldest(n), lru[i].key = lru[j - 1].key PROVE FALSE
        OBVIOUS
      <4>1. i \in 1..Len(lru) /\ i > Len(lru) - n
        BY <1>2 DEF Oldest
      <4>2. recency[i] = recency[j - 1] /\ i \in 1..Len(recency) /\ j - 1 \in 1..Len(recency)
        BY <4>1, <3>1, <1>2
      <4>3. i = j - 1
        BY <4>2 DEF OrderInv
      <4>4. QED
        BY <4>1, <4>3, <3>1, <1>2
    <3>5. QED
      BY <3>2, <3>3, <3>4, <1>3 DEF Victims
  <2>3. QED
    BY <2>1, <2>2
<1>11. used' = ChunkSize * l
  <2> DEFINE w == Len(lru) - n
  <2>1. w \in Int /\ 1 \in Int /\ l = w + 1
    BY <1>2
  <2>2. ChunkSize * (w + 1) = ChunkSize * w + ChunkSize * 1 /\ ChunkSize * 1 = ChunkSize
    BY <2>1, ChunkArithmetic, SizeAssumption
  <2>3. used' = ChunkSize * w + ChunkSize
    BY <1>1, <1>3
  <2>4. QED
    BY <2>1, <2>2, <2>3
<1> HIDE DEF l
<1>12. QED
  BY <1>4, <1>5, <1>8, <1>9, <1>10, <1>11 DEF OrderInv, Fits

\* The cache holds the keys that an LRU cache holds.
LEMMA HoldsNewest == LruInv => DOMAIN table = Lru!Newest
<1> SUFFICES ASSUME LruInv PROVE DOMAIN table = Lru!Newest
  OBVIOUS
<1> USE DEF LruInv
<1>1. /\ Len(lru) \in Nat /\ Len(recency) \in Nat /\ Len(lru) <= Len(recency)
      /\ Positions = 1..Len(lru) /\ Fits \in Nat
      /\ Len(lru) = Len(recency) \/ Len(lru) >= Fits
      /\ \A i \in 1..Len(lru) : recency[i] = lru[i].key /\ lru[i].key \in DOMAIN table
  BY FitsMeans DEF DirInv, DirTypeOK, Positions, OrderInv
<1>2. Len(lru) <= Fits
  BY <1>1, FitsMeans DEF DirInv, WithinBudget, OrderInv
<1>3. {j \in 1..Len(recency) : j <= Fits} = 1..Len(lru)
  BY <1>1, <1>2
<1>4. Lru!Newest = {recency[i] : i \in 1..Len(lru)}
  BY <1>3 DEF Lru!Newest, Fits
<1>5. \A k \in DOMAIN table : \E i \in 1..Len(lru) : lru[i].key = k
  <2> SUFFICES ASSUME NEW k \in DOMAIN table PROVE \E i \in 1..Len(lru) : lru[i].key = k
    OBVIOUS
  <2>1. PICK i \in Positions : lru[i] = [key |-> k, addr |-> table[k].lru_it]
    BY DEF DirInv, IteratorsValid
  <2>2. QED
    BY <2>1, <1>1
<1>6. QED
  BY <1>1, <1>4, <1>5

\* Calls with unique inserts are calls of the directory.
LEMMA UniqueIsDir == [UniqueNext]_uniqueVars => [DirNext]_dirVars
  BY DEF UniqueNext, uniqueVars, Hit, Miss, Fill, DirNext, dirVars

LEMMA NextOrder == LruInv /\ [UniqueNext]_uniqueVars => LruInv'
<1> SUFFICES ASSUME LruInv, [UniqueNext]_uniqueVars PROVE LruInv'
  OBVIOUS
<1>1. DirInv'
  BY UniqueIsDir, NextPreservesInv DEF LruInv
<1>2. CASE UNCHANGED uniqueVars
  BY <1>1, <1>2 DEF uniqueVars, LruInv, OrderInv, Positions, Fits
<1>3. ASSUME NEW k \in Key, Hit(k) PROVE OrderInv'
  BY <1>3, HitOrder DEF Hit, lookup, contains
<1>4. ASSUME NEW k \in Key, Miss(k) PROVE UNCHANGED uniqueVars
  BY <1>4 DEF Miss, lookup, dirVars, uniqueVars, contains
<1>5. ASSUME NEW k \in Key, NEW d \in Content, NEW v \in 0..ChunkSize, Fill(k, d, v)
      PROVE  LruInv'
  <2>1. CASE ~Admits(v)
    <3>1. UNCHANGED uniqueVars
      BY <2>1, <1>5 DEF Fill, insert, dirVars, uniqueVars
    <3>2. QED
      BY <3>1, <1>2
  <2>2. CASE Admits(v)
    <3>1. PICK n \in 0..Len(lru), a \in Addr : Evicts(n) /\ store(k, d, v, n, a)
      BY <2>2, <1>5 DEF Fill, insert
    <3>2. v \in 1..ChunkSize /\ ChunkSize <= CacheSize
      BY <2>2 DEF Admits
    <3>3. QED
      BY <3>1, <3>2, <2>2, <1>1, <1>5, FillOrder DEF Fill, LruInv
  <2>3. QED
    BY <2>1, <2>2
<1>6. QED
  BY <1>1, <1>2, <1>3, <1>4, <1>5 DEF UniqueNext, LruInv
-----------------------------------------------------------------------------
\* The entries as the abstract cache sees them.
View == [k \in DOMAIN table |-> Payload(k)]

LEMMA HitIsGet ==
    ASSUME LruInv, NEW k \in Key, Hit(k)
    PROVE  Lru!Get(k)
<1>1. PICK a \in Addr : table' = [table EXCEPT ![k] = Node(table[k].data, table[k].valid_size, a)]
  BY DEF Hit, lookup, touch, contains
<1>2. DOMAIN table' = DOMAIN table /\ k \in DOMAIN table
  BY <1>1 DEF Hit, contains
<1>3. \A x \in DOMAIN table : Payload(x)' = Payload(x)
  BY <1>1, <1>2 DEF Payload, Node
<1>4. View' = View
  BY <1>2, <1>3 DEF View
<1>5. QED
  BY <1>2, <1>4 DEF Lru!Get, Hit, View

LEMMA FillIsPut ==
    ASSUME LruInv, LruInv', NEW k \in Key, NEW d \in Content, NEW v \in 0..ChunkSize,
           Fill(k, d, v), Admits(v)
    PROVE  \E e \in [data : Content, valid_size : 1..ChunkSize] : Lru!Put(k, e)
<1> DEFINE e == [data |-> d, valid_size |-> v]
<1>1. PICK n \in 0..Len(lru), a \in Addr : store(k, d, v, n, a)
  BY DEF Fill, insert
<1>2. e \in [data : Content, valid_size : 1..ChunkSize]
  BY DEF Admits
<1>3. k \notin DOMAIN table /\ Lru!Use(k)
  BY DEF Fill, contains
<1>4. Fits > 0
  <2>1. ChunkSize * 1 = ChunkSize
    BY SizeAssumption
  <2>2. QED
    BY <2>1, FitsMeans DEF Admits
<1>5. DOMAIN table' = Lru!Newest'
  <2>1. (DOMAIN table = Lru!Newest)'
    BY HoldsNewest, PTL
  <2>2. QED
    BY <2>1
<1>6. ASSUME NEW x \in DOMAIN table' PROVE Payload(x)' = IF x = k THEN e ELSE View[x]
  <2>1. x # k => x \in DOMAIN table /\ table'[x] = table[x]
    BY <1>1, <1>6 DEF store
  <2>2. x = k => table'[x] = Node(d, v, a)
    BY <1>1, <1>6 DEF store
  <2>3. QED
    BY <2>1, <2>2 DEF Payload, Node, View
<1>7. View' = [x \in Lru!Newest' |-> IF x = k THEN e ELSE View[x]]
  BY <1>5, <1>6 DEF View
<1>8. Lru!Put(k, e)
  BY <1>3, <1>4, <1>7 DEF Lru!Put, View, Fits
<1>9. QED
  BY <1>2, <1>8

LEMMA StepIsLru == LruInv /\ LruInv' /\ [UniqueNext]_uniqueVars => [Lru!LruNext]_Lru!lruVars
<1> SUFFICES ASSUME LruInv, LruInv', [UniqueNext]_uniqueVars PROVE [Lru!LruNext]_Lru!lruVars
  OBVIOUS
<1>1. CASE UNCHANGED uniqueVars
  <2>1. View' = View
    BY <1>1 DEF uniqueVars, View, Payload
  <2>2. QED
    BY <1>1, <2>1 DEF uniqueVars, View, Lru!lruVars
<1>2. ASSUME NEW k \in Key, Hit(k) PROVE Lru!LruNext
  BY <1>2, HitIsGet DEF Lru!LruNext
<1>3. ASSUME NEW k \in Key, Miss(k) PROVE UNCHANGED uniqueVars
  BY <1>3 DEF Miss, lookup, dirVars, uniqueVars, contains
<1>4. ASSUME NEW k \in Key, NEW d \in Content, NEW v \in 0..ChunkSize, Fill(k, d, v)
      PROVE  Lru!LruNext \/ UNCHANGED uniqueVars
  <2>1. CASE Admits(v)
    <3>1. \E e \in [data : Content, valid_size : 1..ChunkSize] : Lru!Put(k, e)
      BY <2>1, <1>4, FillIsPut
    <3>2. QED
      BY <3>1 DEF Lru!LruNext
  <2>2. CASE ~Admits(v)
    BY <2>2, <1>4 DEF Fill, insert, dirVars, uniqueVars
  <2>3. QED
    BY <2>1, <2>2
<1>5. QED
  BY <1>1, <1>2, <1>3, <1>4 DEF UniqueNext

\* While no present key is inserted, lookup() and insert() make an LRU cache: the keys
\* held are the latest used ones, as many as fit, each with what was last inserted.
THEOREM DirIsLruCache == UniqueSpec => IsLruCache
<1>1. UniqueInit => Lru!LruInit
  <2> SUFFICES ASSUME UniqueInit PROVE Lru!LruInit
    OBVIOUS
  <2>1. DOMAIN table = {} /\ recency = <<>>
    BY DEF UniqueInit, DirInit
  <2>2. View = [k \in {} |-> 0]
    BY <2>1 DEF View
  <2>3. QED
    BY <2>1, <2>2 DEF Lru!LruInit, View
<1>2. QED
  BY <1>1, InitOrder, NextOrder, StepIsLru, PTL DEF UniqueSpec, IsLruCache, Lru!LruSpec
=============================================================================
