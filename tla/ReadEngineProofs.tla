--------------------------- MODULE ReadEngineProofs ---------------------------
(***************************************************************************)
(* What ReadEngine delivers, caches, counts and reports, for any number of *)
(* threads, files, calls and options, and any sizes.                       *)
(***************************************************************************)
EXTENDS ReadEngine, FiniteSetTheorems, SequenceTheorems, WellFoundedInduction, TLAPS

-----------------------------------------------------------------------------
(* Arithmetic of chunks, and sequences.                                    *)

\* An offset is its chunk's beginning and a rest.
LEMMA DivMod ==
    ASSUME NEW a \in Nat
    PROVE  /\ a \div ChunkSize \in Nat /\ a % ChunkSize \in 0..(ChunkSize - 1)
           /\ (a \div ChunkSize) * ChunkSize = a - (a % ChunkSize)
<1> DEFINE q == a \div ChunkSize
           r == a % ChunkSize
<1>1. q \in Nat /\ r \in 0..(ChunkSize - 1)
  BY EngineAssumption
<1>2. a = q * ChunkSize + r
  BY EngineAssumption, SMTT(30)
<1> HIDE DEF q, r
<1>3. q * ChunkSize = a - r
  BY <1>1, <1>2, EngineAssumption
<1>4. QED
  BY <1>1, <1>3 DEF q, r

\* The chunks of the bytes a file may have are keys.
LEMMA ChunkIdBound ==
    ASSUME NEW c \in Nat, c * ChunkSize <= MaxSize
    PROVE  c \in ChunkId
<1> DEFINE q == MaxSize \div ChunkSize
           r == MaxSize % ChunkSize
<1>1. q \in Nat /\ r \in 0..(ChunkSize - 1) /\ q * ChunkSize = MaxSize - r
  BY EngineAssumption, DivMod
<1> HIDE DEF q, r
<1>2. ASSUME c >= q + 1 PROVE FALSE
  <2>1. c * ChunkSize >= (q + 1) * ChunkSize
    BY <1>1, <1>2, EngineAssumption
  <2>2. (q + 1) * ChunkSize = q * ChunkSize + ChunkSize
    BY <1>1, EngineAssumption
  <2>3. QED
    BY <1>1, <2>1, <2>2, EngineAssumption
<1>3. QED
  BY <1>1, <1>2 DEF ChunkId, q

LEMMA FunctionIsSeq ==
    ASSUME NEW S, NEW n \in Nat, NEW f \in [1..n -> S]
    PROVE  f \in Seq(S) /\ Len(f) = n
  OBVIOUS

\* A nonempty set of naturals has a least element.
LEMMA LeastNatural ==
    ASSUME NEW T, T \subseteq Nat, T # {}
    PROVE  \E m \in T : \A k \in T : m <= k
<1> DEFINE R == OpToRel(<, Nat)
<1>1. PICK m \in T : \A k \in T : ~ (<<k, m>> \in R)
  BY NatLessThanWellFounded, WFMin
<1>2. \A k, n \in Nat : k < n => <<k, n>> \in R
  BY DEF OpToRel
<1>3. ASSUME NEW k \in T PROVE m <= k
  <2>1. ~(k < m)
    BY <1>1, <1>2
  <2>2. QED
    BY <2>1
<1>4. QED
  BY <1>3

-----------------------------------------------------------------------------
(* The groups of memtier_readv.                                            *)

Item == [range : FileRange, dst : Nat]

\* The items of one file are in the order of their offsets.
Sorted(s) ==
    \A i, j \in 1..Len(s) : i < j /\ s[i].range.file = s[j].range.file =>
        s[i].range.offset <= s[j].range.offset

\* The first group is not empty, and ends where no item joins it.
LEMMA GroupLenExists ==
    ASSUME NEW s \in Seq(Item), s # <<>>
    PROVE  GroupLen(s) \in 1..Len(s) /\ \A k \in 2..GroupLen(s) : Joins(s, k)
<1> DEFINE Stop(n) == n < Len(s) => ~Joins(s, n + 1)
           T == {n \in 1..Len(s) : Stop(n)}
<1>1. Len(s) \in Nat \ {0}
  BY EmptySeq
<1>2. Len(s) \in T
  BY <1>1
<1>3. T \subseteq Nat
  BY <1>1
<1>4. PICK n \in T : \A k \in T : n <= k
  BY <1>2, <1>3, LeastNatural
<1>5. ASSUME NEW k \in 2..n PROVE Joins(s, k)
  <2>1. k - 1 \in 1..Len(s) /\ k - 1 < Len(s) /\ ~(n <= k - 1) /\ (k - 1) + 1 = k
    BY <1>1, <1>4
  <2>2. QED
    BY <1>4, <2>1
<1>6. n \in 1..Len(s) /\ (\A k \in 2..n : Joins(s, k)) /\ (n < Len(s) => ~Joins(s, n + 1))
  BY <1>4, <1>5
<1>7. QED
  BY <1>6 DEF GroupLen

\* What a group is: items of one file, in the order of their offsets, none of which ends
\* after the last; and what is left is again sorted.
LEMMA GroupFacts ==
    ASSUME NEW s \in Seq(Item), s # <<>>, Sorted(s)
    PROVE  /\ Group(s) \in Seq(Item) /\ Len(Group(s)) = GroupLen(s) /\ GroupLen(s) \in 1..Len(s)
           /\ \A k \in 1..GroupLen(s) :
                  /\ Group(s)[k] = s[k] /\ s[k] \in Item
                  /\ s[k].range.file = s[1].range.file
                  /\ s[1].range.offset <= s[k].range.offset
                  /\ EndOf(s[k].range) <= EndOf(s[GroupLen(s)].range)
           /\ Rest(s) \in Seq(Item) /\ Len(Rest(s)) = Len(s) - GroupLen(s) /\ Sorted(Rest(s))
           /\ \A k \in 1..(Len(s) - GroupLen(s)) : Rest(s)[k] = s[GroupLen(s) + k]
<1> DEFINE n == GroupLen(s)
<1>1. Len(s) \in Nat /\ n \in 1..Len(s) /\ \A k \in 2..n : Joins(s, k)
  BY GroupLenExists
<1> HIDE DEF n
<1>2. \A i \in 1..Len(s) : /\ s[i] \in Item /\ s[i].range.offset \in Nat /\ s[i].range.size \in Nat
                           /\ EndOf(s[i].range) = s[i].range.offset + s[i].range.size
  <2>1. \A i \in 1..Len(s) : s[i] \in Item
    OBVIOUS
  <2>2. \A x \in Item : x.range.offset \in Nat /\ x.range.size \in Nat
    BY DEF Item, FileRange
  <2>3. QED
    BY <2>1, <2>2 DEF EndOf
<1>3. Group(s) \in Seq(Item) /\ Len(Group(s)) = n /\ \A k \in 1..n : Group(s)[k] = s[k]
  <2>1. Group(s) = SubSeq(s, 1, n)
    BY DEF Group, n
  <2>2. \A i \in 1..n : s[i] \in Item
    BY <1>1, <1>2
  <2>3. QED
    BY <1>1, <2>1, <2>2, SubSeqProperties
<1>4. /\ Rest(s) \in Seq(Item) /\ Len(Rest(s)) = Len(s) - n
      /\ \A k \in 1..(Len(s) - n) : Rest(s)[k] = s[n + k]
  <2>1. Rest(s) = SubSeq(s, n + 1, Len(s))
    BY DEF Rest, n
  <2>2. \A i \in (n + 1)..Len(s) : s[i] \in Item
    BY <1>1, <1>2
  <2>3. /\ Rest(s) \in Seq(Item) /\ Len(Rest(s)) = IF n + 1 <= Len(s) THEN Len(s) - (n + 1) + 1 ELSE 0
        /\ \A i \in 1..(Len(s) - (n + 1) + 1) : Rest(s)[i] = s[(n + 1) + i - 1]
    BY <1>1, <2>1, <2>2, SubSeqProperties
  <2>4. \A i \in 1..(Len(s) - n) : (n + 1) + i - 1 = n + i
    BY <1>1
  <2>5. QED
    BY <1>1, <2>3, <2>4
<1>5. Sorted(Rest(s))
  <2> SUFFICES ASSUME NEW i \in 1..(Len(s) - n), NEW j \in 1..(Len(s) - n), i < j,
                      Rest(s)[i].range.file = Rest(s)[j].range.file
               PROVE  Rest(s)[i].range.offset <= Rest(s)[j].range.offset
    BY <1>4 DEF Sorted
  <2>1. n + i \in 1..Len(s) /\ n + j \in 1..Len(s) /\ n + i < n + j
    BY <1>1
  <2>2. QED
    BY <1>4, <2>1 DEF Sorted
<1>6. \A k \in 1..n : s[k].range.file = s[1].range.file
  BY <1>1 DEF Joins
<1>7. \A i, j \in 1..n : i <= j => s[i].range.offset <= s[j].range.offset
  BY <1>1, <1>2, <1>6 DEF Sorted
<1>8. ASSUME NEW k \in 1..n PROVE EndOf(s[k].range) <= EndOf(s[n].range)
  <2>1. CASE k = n
    BY <1>1, <1>2, <2>1
  <2>2. CASE k # n
    <3>1. k + 1 \in 2..n /\ (k + 1) - 1 = k /\ k + 1 \in 1..n /\ n \in 1..n
      BY <1>1, <2>2
    <3>2. EndOf(s[k].range) <= s[k + 1].range.offset
      BY <1>1, <1>2, <3>1 DEF Joins
    <3>3. s[k + 1].range.offset <= s[n].range.offset
      BY <1>7, <3>1
    <3>4. k \in 1..Len(s) /\ k + 1 \in 1..Len(s)
      BY <1>1, <3>1
    <3>5. EndOf(s[k].range) \in Nat /\ s[k + 1].range.offset \in Nat
      BY <1>2, <3>4
    <3>6. s[n].range.offset \in Nat /\ EndOf(s[n].range) \in Nat /\ s[n].range.offset <= EndOf(s[n].range)
      BY <1>1, <1>2
    <3>7. QED
      BY <3>2, <3>3, <3>5, <3>6
  <2>3. QED
    BY <2>1, <2>2
<1>9. QED
  BY <1>1, <1>2, <1>3, <1>4, <1>5, <1>6, <1>7, <1>8 DEF n

\* Every item is one of the ranges, and every range is there.
LEMMA SortedItemsFacts ==
    ASSUME NEW ranges \in Seq(FileRange), ranges # <<>>, NEW s \in SortedItems(ranges)
    PROVE  /\ s \in Seq(Item) /\ s # <<>> /\ Len(s) = Len(ranges) /\ Sorted(s)
           /\ \A i \in 1..Len(s) : s[i].dst \in 1..Len(ranges) /\ s[i].range = ranges[s[i].dst]
           /\ \A d \in 1..Len(ranges) : \E i \in 1..Len(s) : s[i].dst = d
<1> DEFINE n == Len(ranges)
<1>1. n \in Nat \ {0}
  BY EmptySeq
<1>2. PICK p \in Bijection(1..n, 1..n) : s = [i \in 1..n |-> [range |-> ranges[p[i]], dst |-> p[i]]]
  BY DEF SortedItems
<1>3. /\ p \in [1..n -> 1..n]
      /\ \A d \in 1..n : \E i \in 1..n : p[i] = d
  BY DEF Bijection, Injection, Surjection
<1> HIDE DEF n
<1>4. ASSUME NEW i \in 1..n
      PROVE  /\ s[i] \in Item /\ s[i].dst = p[i] /\ s[i].range = ranges[p[i]]
             /\ p[i] \in 1..n
  <2>1. p[i] \in 1..n
    BY <1>3
  <2>2. p[i] \in Nat
    BY <1>1, <2>1
  <2>3. ranges[p[i]] \in FileRange
    BY <2>1, ElementOfSeq DEF n
  <2>4. s[i] = [range |-> ranges[p[i]], dst |-> p[i]]
    BY <1>2
  <2>5. QED
    BY <2>1, <2>2, <2>3, <2>4 DEF Item
<1>5. s \in [1..n -> Item]
  BY <1>2, <1>4
<1>6. s \in Seq(Item) /\ Len(s) = n
  BY <1>1, <1>5, FunctionIsSeq
<1>7. Sorted(s)
  BY DEF SortedItems, Sorted
<1>8. s # <<>>
  BY <1>1, <1>6
<1>9. /\ \A i \in 1..n : s[i].dst \in 1..n /\ s[i].range = ranges[s[i].dst]
      /\ \A d \in 1..n : \E i \in 1..n : s[i].dst = d
  <2>1. \A i \in 1..n : s[i].dst = p[i] /\ s[i].range = ranges[p[i]] /\ p[i] \in 1..n
    BY <1>4
  <2>2. \A i \in 1..n : s[i].dst \in 1..n /\ s[i].range = ranges[s[i].dst]
    BY <2>1
  <2>3. ASSUME NEW d \in 1..n PROVE \E i \in 1..n : s[i].dst = d
    <3>1. PICK i \in 1..n : p[i] = d
      BY <1>3
    <3>2. QED
      BY <2>1, <3>1
  <2>4. QED
    BY <2>2, <2>3
<1>10. QED
  BY <1>6, <1>7, <1>8, <1>9 DEF n

-----------------------------------------------------------------------------
(* Types and control.                                                      *)

CallRecord == [op : {"read", "readv", "prefetch"}, file : File, offset : Nat, size : Nat, target : {"CPU", "GPU"}]

RvRecord ==
    [ranges : Seq(FileRange), target : {"CPU", "GPU"}, items : Seq(Item), dsts : Seq(Seq(Bytes)),
     coalesced : Nat, cbytes : Nat]

\* The steps for one chunk, of do_read_impl and of memtier_prefetch.
InRead == {"lookup", "select", "hit", "gds", "fallback", "posix", "admit", "count"}
InPrefetch == {"probe", "load", "store", "tally"}

Paths == {"DRAM_HIT", "POSIX_READ", "POSIX_READ_THEN_CACHE", "GDS_READ", "GDS_STUB_FALLBACK"}

\* d is chunk k of its file as far as v, and zeroes beyond.
Holds(k, d, v) ==
    /\ d \in Content /\ v \in 0..ChunkSize
    /\ v > 0 => k \in Key
    /\ \A i \in 1..ChunkSize : d[i] = IF i <= v THEN Byte(k[1], k[2] * ChunkSize + i - 1) ELSE Zero

TableTyped == DOMAIN table \subseteq Key /\ table \in [DOMAIN table -> Dir!CacheEntry]

TableHolds == \A k \in DOMAIN table : Holds(k, table[k].data, table[k].valid_size)

SharedTyped ==
    /\ opt \in Options
    /\ TableTyped /\ TableHolds
    /\ stats \in [Counter -> Nat]
    /\ size \in [File -> InitialSize..MaxSize]
    /\ aborted \in Nat

ThreadsTyped ==
    /\ pc \in [Thread -> {"idle", "complete", "scatter", "merged"} \cup InRead \cup InPrefetch]
    /\ call \in [Thread -> CallRecord]
    /\ rv \in [Thread -> RvRecord]
    /\ copied \in [Thread -> Nat]
    /\ path \in [Thread -> Paths \cup {"NONE"}]
    /\ chunk \in [Thread -> [data : Seq(Bytes), n : 0..ChunkSize]]
    /\ out \in [Thread -> Seq(Bytes)]
    /\ rc \in [Thread -> {"NONE", "OK", "ERR_IO", "ERR_CUDA"}]
    /\ seen \in [Thread -> [File -> Nat]]

\* Where a call is: how much is copied, and the path its chunk took.
AtItsPlace(t) ==
    /\ copied[t] <= call[t].size
    /\ pc[t] \in InRead \cup InPrefetch => copied[t] < call[t].size
    /\ pc[t] \in {"complete", "scatter", "merged"} => copied[t] = call[t].size
    /\ pc[t] \in InRead => call[t].op # "prefetch"
    /\ pc[t] \in InPrefetch => call[t].op = "prefetch"
    /\ pc[t] \in {"scatter", "merged"} => call[t].op = "readv"
    /\ pc[t] = "select" => path[t] # "NONE"
    /\ pc[t] = "hit" => path[t] = "DRAM_HIT"
    /\ pc[t] = "admit" => ThenCache(t)

\* The copy of a hit has the bytes needed; what is going to be cached is a chunk.
ChunkHolds(t) ==
    /\ pc[t] \in {"select", "hit"} /\ path[t] = "DRAM_HIT" =>
           /\ Holds(KeyOf(t), chunk[t].data, chunk[t].n)
           /\ InChunk(t) + Need(t) <= chunk[t].n
    /\ pc[t] \in {"admit", "store"} => Holds(KeyOf(t), chunk[t].data, chunk[t].n)

\* What is in the destination: all that is copied, and before it is counted the chunk.
OutLength(t) ==
    call[t].op # "prefetch" =>
        /\ Len(out[t]) <= call[t].size
        /\ pc[t] # "idle" =>
               Len(out[t]) = IF pc[t] \in {"admit", "count"} THEN CopiedNow(t) ELSE copied[t]
        /\ pc[t] = "idle" /\ rc[t] = "OK" => Len(out[t]) = call[t].size

\* A call of memtier_readv is reading the first group of the items it has left.
AtItsGroup(t) ==
    call[t].op = "readv" /\ pc[t] \notin {"idle", "merged"} =>
        /\ rv[t].items # <<>> /\ Sorted(rv[t].items)
        /\ call[t] = GroupRead(Group(rv[t].items))

ThreadInv(t) == AtItsPlace(t) /\ ChunkHolds(t) /\ OutLength(t) /\ AtItsGroup(t)

ControlInv == SharedTyped /\ ThreadsTyped /\ \A t \in Thread : ThreadInv(t)

\* What belongs to thread u.
Local(u) == <<pc[u], call[u], rv[u], copied[u], path[u], chunk[u], out[u], rc[u], seen[u]>>

\* A step of t leaves the other threads alone.
StepOf(t) == Step(t) \/ \E c \in Call : Begin(t, c) \/ BeginReadv(t, c)

LEMMA OthersKeep ==
    ASSUME ThreadsTyped, NEW t \in Thread, StepOf(t), NEW u \in Thread, u # t
    PROVE  Local(u)' = Local(u) /\ opt' = opt
<1> USE DEF ThreadsTyped, Goto, Return, Abort, Advance, CopyTarget, ReadGroup
<1> SUFFICES /\ pc'[u] = pc[u] /\ call'[u] = call[u] /\ rv'[u] = rv[u] /\ copied'[u] = copied[u]
             /\ path'[u] = path[u] /\ chunk'[u] = chunk[u] /\ out'[u] = out[u] /\ rc'[u] = rc[u]
             /\ seen'[u] = seen[u] /\ opt' = opt
  BY DEF Local
<1>1. CASE Lookup(t) \/ Select(t) \/ Admit(t) \/ Count(t)
  BY <1>1 DEF Lookup, Select, Admit, Count
<1>2. CASE ServeHit(t) \/ ReadGds(t)
  BY <1>2 DEF ServeHit, ReadGds
<1>3. CASE ReadFallback(t) \/ ReadPosix(t)
  BY <1>3 DEF ReadFallback, ReadPosix
<1>4. CASE Complete(t) \/ CompleteReadv(t)
  BY <1>4 DEF Complete, CompleteReadv
<1>5. CASE Scatter(t)
  BY <1>5 DEF Scatter
<1>6. CASE Probe(t) \/ Load(t) \/ Store(t) \/ TallyPrefetch(t)
  BY <1>6 DEF Probe, Load, Store, TallyPrefetch
<1>7. ASSUME NEW c \in Call, Begin(t, c) \/ BeginReadv(t, c)
      PROVE  /\ pc'[u] = pc[u] /\ call'[u] = call[u] /\ rv'[u] = rv[u] /\ copied'[u] = copied[u]
             /\ path'[u] = path[u] /\ chunk'[u] = chunk[u] /\ out'[u] = out[u] /\ rc'[u] = rc[u]
             /\ seen'[u] = seen[u] /\ opt' = opt
  BY <1>7 DEF Begin, BeginReadv
<1>8. QED
  BY <1>1, <1>2, <1>3, <1>4, <1>5, <1>6, <1>7 DEF StepOf, Step

\* What is unchanged of a thread keeps its invariant.
LEMMA ThreadInvKept ==
    ASSUME NEW u \in Thread, ThreadInv(u), Local(u)' = Local(u), opt' = opt
    PROVE  ThreadInv(u)'
<1>1. /\ pc'[u] = pc[u] /\ call'[u] = call[u] /\ rv'[u] = rv[u] /\ copied'[u] = copied[u]
      /\ path'[u] = path[u] /\ chunk'[u] = chunk[u] /\ out'[u] = out[u] /\ rc'[u] = rc[u]
  BY DEF Local
<1>2. AtItsPlace(u)'
  BY <1>1 DEF ThreadInv, AtItsPlace, ThenCache
<1>3. OutLength(u)'
  BY <1>1 DEF ThreadInv, OutLength, CopiedNow, Need, InChunk, CurOff
<1>4. \A s : Group(s)' = Group(s)
  BY DEF Group, GroupLen, Joins
<1>5. AtItsGroup(u)'
  BY <1>1, <1>4 DEF ThreadInv, AtItsGroup
<1>6. ChunkHolds(u)'
  BY <1>1 DEF ThreadInv, ChunkHolds, Need, InChunk, CurOff, KeyOf
<1>7. QED
  BY <1>2, <1>3, <1>5, <1>6 DEF ThreadInv

-----------------------------------------------------------------------------
(* The chunk a thread is at, and what it reads, copies and counts.         *)

LEMMA NeedFacts ==
    ASSUME ThreadsTyped, NEW t \in Thread, copied[t] < call[t].size
    PROVE  /\ CurOff(t) \in Nat /\ InChunk(t) \in 0..(ChunkSize - 1)
           /\ Need(t) \in 1..(ChunkSize - InChunk(t)) /\ copied[t] + Need(t) <= call[t].size
           /\ CurOff(t) = call[t].offset + copied[t] /\ InChunk(t) <= CurOff(t)
           /\ KeyOf(t) = <<call[t].file, CurOff(t) \div ChunkSize>> /\ CurOff(t) \div ChunkSize \in Nat
           /\ (CurOff(t) \div ChunkSize) * ChunkSize = CurOff(t) - InChunk(t)
           /\ call[t].file \in File /\ call[t].offset \in Nat /\ call[t].size \in Nat /\ copied[t] \in Nat
<1>1. call[t].file \in File /\ call[t].offset \in Nat /\ call[t].size \in Nat /\ copied[t] \in Nat
  BY DEF ThreadsTyped, CallRecord
<1>2. CurOff(t) = call[t].offset + copied[t] /\ CurOff(t) \in Nat
  BY <1>1 DEF CurOff
<1> HIDE DEF CurOff
<1>3. /\ InChunk(t) \in 0..(ChunkSize - 1) /\ CurOff(t) \div ChunkSize \in Nat
      /\ (CurOff(t) \div ChunkSize) * ChunkSize = CurOff(t) - InChunk(t)
  BY <1>2, DivMod DEF InChunk
<1>4. InChunk(t) <= CurOff(t)
  <2>1. (CurOff(t) \div ChunkSize) * ChunkSize \in Nat
    BY <1>3, EngineAssumption
  <2>2. QED
    BY <1>2, <1>3, <2>1, EngineAssumption
<1>5. Need(t) \in 1..(ChunkSize - InChunk(t)) /\ copied[t] + Need(t) <= call[t].size
  BY <1>1, <1>3, EngineAssumption DEF Need, Min
<1>6. QED
  BY <1>1, <1>2, <1>3, <1>4, <1>5 DEF KeyOf

\* posix_pread_full.
LEMMA BufferFacts ==
    ASSUME size \in [File -> InitialSize..MaxSize], NEW f \in File, NEW o \in Nat, NEW n \in Nat
    PROVE  /\ Buffer(f, o, n) \in [1..n -> Bytes] /\ Buffer(f, o, n) \in Seq(Bytes)
           /\ BytesRead(f, o, n) \in 0..n
           /\ \A i \in 1..n : i <= BytesRead(f, o, n) <=> o + i <= size[f]
           /\ \A i \in 1..n : Buffer(f, o, n)[i] = IF o + i <= size[f] THEN Byte(f, o + i - 1) ELSE Zero
<1>1. size[f] \in Nat /\ size[f] <= MaxSize
  BY EngineAssumption
<1>2. BytesRead(f, o, n) \in 0..n /\ \A i \in 1..n : i <= BytesRead(f, o, n) <=> o + i <= size[f]
  BY <1>1 DEF BytesRead, Min, Max
<1>3. \A i \in 1..n : Buffer(f, o, n)[i] = IF o + i <= size[f] THEN Byte(f, o + i - 1) ELSE Zero
  BY DEF Buffer
<1>4. ASSUME NEW i \in 1..n PROVE Buffer(f, o, n)[i] \in Bytes
  <2>1. CASE o + i <= size[f]
    <3>1. o + i - 1 \in 0..(MaxSize - 1)
      BY <1>1, <2>1, EngineAssumption
    <3>2. <<f, o + i - 1>> \in File \X (0..(MaxSize - 1))
      BY <3>1
    <3>3. Buffer(f, o, n)[i] = <<f, o + i - 1>>
      BY <1>3, <2>1 DEF Byte
    <3>4. QED
      BY <3>2, <3>3 DEF Bytes
  <2>2. CASE ~(o + i <= size[f])
    BY <1>3, <2>2 DEF Bytes
  <2>3. QED
    BY <2>1, <2>2
<1>5. Buffer(f, o, n) \in [1..n -> Bytes]
  BY <1>4 DEF Buffer
<1>6. QED
  BY <1>2, <1>3, <1>5, FunctionIsSeq

\* A byte that was read is the file's.
LEMMA ByteRead ==
    ASSUME size \in [File -> InitialSize..MaxSize], NEW f \in File, NEW o \in Nat, NEW n \in Nat, NEW i \in 1..n
    PROVE  /\ Buffer(f, o, n)[i] \in Bytes
           /\ i <= BytesRead(f, o, n) => o + i <= size[f]
           /\ o + i <= size[f] => Buffer(f, o, n)[i] = Byte(f, o + i - 1)
<1>1. Buffer(f, o, n) \in [1..n -> Bytes]
  BY BufferFacts
<1>2. i <= BytesRead(f, o, n) <=> o + i <= size[f]
  BY BufferFacts
<1>3. Buffer(f, o, n)[i] = IF o + i <= size[f] THEN Byte(f, o + i - 1) ELSE Zero
  BY BufferFacts
<1>4. Buffer(f, o, n)[i] \in Bytes
  BY <1>1
<1>5. QED
  BY <1>2, <1>3, <1>4

\* A whole chunk that is read holds what its entry will claim.
LEMMA ChunkRead ==
    ASSUME size \in [File -> InitialSize..MaxSize], NEW f \in File, NEW c \in Nat
    PROVE  Holds(<<f, c>>, Buffer(f, c * ChunkSize, ChunkSize), BytesRead(f, c * ChunkSize, ChunkSize))
<1> DEFINE o == c * ChunkSize
           b == Buffer(f, o, ChunkSize)
           v == BytesRead(f, o, ChunkSize)
<1>1. o \in Nat /\ ChunkSize \in Nat \ {0} /\ size[f] \in Nat /\ size[f] <= MaxSize /\ MaxSize \in Nat
  BY EngineAssumption
<1> HIDE DEF o
<1>2. /\ b \in [1..ChunkSize -> Bytes] /\ v \in 0..ChunkSize
      /\ \A i \in 1..ChunkSize : i <= v <=> o + i <= size[f]
      /\ \A i \in 1..ChunkSize : b[i] = IF o + i <= size[f] THEN Byte(f, o + i - 1) ELSE Zero
  BY <1>1, BufferFacts
<1> HIDE DEF b, v
<1>3. ASSUME v > 0 PROVE <<f, c>> \in Key
  <2>1. o + 1 <= size[f]
    BY <1>1, <1>2, <1>3
  <2>2. o <= MaxSize
    BY <1>1, <2>1
  <2>3. c \in ChunkId
    BY <2>2, ChunkIdBound DEF o
  <2>4. QED
    BY <2>3 DEF Key
<1>4. QED
  BY <1>2, <1>3 DEF Holds, Content, o, b, v

\* copy_target appends what is needed to what was delivered.
LEMMA CopyFacts ==
    ASSUME ThreadsTyped, NEW t \in Thread, copied[t] < call[t].size,
           NEW data, NEW from \in Nat, CopyTarget(t, data, from),
           \A i \in (from + 1)..(from + Need(t)) : data[i] \in Bytes
    PROVE  /\ out' \in [Thread -> Seq(Bytes)] /\ Len(out'[t]) = Len(out[t]) + Need(t)
           /\ \A i \in 1..Len(out[t]) : out'[t][i] = out[t][i]
           /\ \A i \in 1..Need(t) : out'[t][Len(out[t]) + i] = data[from + i]
<1> DEFINE s == SubSeq(data, from + 1, from + Need(t))
<1>1. Need(t) \in Nat \ {0}
  BY NeedFacts, EngineAssumption
<1>2. /\ s \in Seq(Bytes) /\ Len(s) = Need(t)
      /\ \A i \in 1..Need(t) : s[i] = data[from + i]
  <2>1. /\ s \in Seq(Bytes)
        /\ Len(s) = IF from + 1 <= from + Need(t) THEN from + Need(t) - (from + 1) + 1 ELSE 0
        /\ \A i \in 1..(from + Need(t) - (from + 1) + 1) : s[i] = data[(from + 1) + i - 1]
    BY <1>1, SubSeqProperties
  <2>2. \A i \in 1..Need(t) : (from + 1) + i - 1 = from + i
    BY <1>1
  <2>3. QED
    BY <1>1, <2>1, <2>2
<1> HIDE DEF s
<1>3. out[t] \in Seq(Bytes) /\ Len(out[t]) \in Nat
  BY DEF ThreadsTyped
<1>4. out' = [out EXCEPT ![t] = out[t] \o s]
  BY DEF CopyTarget, s
<1>5. out'[t] = out[t] \o s
  BY <1>4 DEF ThreadsTyped
<1>6. /\ out[t] \o s \in Seq(Bytes) /\ Len(out[t] \o s) = Len(out[t]) + Need(t)
      /\ \A i \in 1..(Len(out[t]) + Need(t)) :
            (out[t] \o s)[i] = IF i <= Len(out[t]) THEN out[t][i] ELSE s[i - Len(out[t])]
  <2>1. \A a, b \in Seq(Bytes) :
            /\ a \o b \in Seq(Bytes) /\ Len(a \o b) = Len(a) + Len(b)
            /\ \A i \in 1..(Len(a) + Len(b)) : (a \o b)[i] = IF i <= Len(a) THEN a[i] ELSE b[i - Len(a)]
    BY ConcatProperties
  <2>2. /\ out[t] \o s \in Seq(Bytes) /\ Len(out[t] \o s) = Len(out[t]) + Len(s)
        /\ \A i \in 1..(Len(out[t]) + Len(s)) :
              (out[t] \o s)[i] = IF i <= Len(out[t]) THEN out[t][i] ELSE s[i - Len(out[t])]
    BY <1>2, <1>3, <2>1, Zenon
  <2>3. Len(s) = Need(t)
    BY <1>2
  <2>4. QED
    BY <2>2, <2>3, Zenon
<1>7. out' \in [Thread -> Seq(Bytes)]
  BY <1>4, <1>6 DEF ThreadsTyped
<1>8. \A i \in 1..Len(out[t]) : out'[t][i] = out[t][i]
  BY <1>1, <1>3, <1>5, <1>6
<1>9. ASSUME NEW i \in 1..Need(t) PROVE out'[t][Len(out[t]) + i] = data[from + i]
  <2>1. /\ Len(out[t]) + i \in 1..(Len(out[t]) + Need(t)) /\ ~(Len(out[t]) + i <= Len(out[t]))
        /\ (Len(out[t]) + i) - Len(out[t]) = i
    BY <1>1, <1>3
  <2>2. QED
    BY <1>2, <1>5, <1>6, <2>1
<1>10. QED
  BY <1>5, <1>6, <1>7, <1>8, <1>9

\* The counters stay natural numbers.
LEMMA TallyTyped ==
    ASSUME stats \in [Counter -> Nat], NEW d, Tally(d), \A c \in DOMAIN d : d[c] \in Nat
    PROVE  stats' \in [Counter -> Nat]
  BY DEF Tally

-----------------------------------------------------------------------------
(* What the methods of the cache do to its table.                          *)

LEMMA LookupKeeps ==
    ASSUME TableTyped, TableHolds, NEW k, Dir!lookup(k)
    PROVE  TableTyped' /\ TableHolds'
<1>1. CASE Dir!contains(k) /\ Dir!touch(k)
  <2>1. PICK a \in Addr : table' = [table EXCEPT ![k] = Dir!Node(table[k].data, table[k].valid_size, a)]
    BY <1>1 DEF Dir!touch
  <2>2. k \in DOMAIN table
    BY <1>1 DEF Dir!contains
  <2>3. Dir!Node(table[k].data, table[k].valid_size, a) \in Dir!CacheEntry
    BY <2>2 DEF TableTyped, Dir!CacheEntry, Dir!Node
  <2>4. TableTyped'
    BY <2>1, <2>2, <2>3 DEF TableTyped
  <2>5. DOMAIN table' = DOMAIN table
    BY <2>1
  <2>6. \A x \in DOMAIN table : table'[x].data = table[x].data /\ table'[x].valid_size = table[x].valid_size
    BY <2>1, <2>2 DEF Dir!Node
  <2>7. TableHolds'
    BY <2>5, <2>6 DEF TableHolds, Holds
  <2>8. QED
    BY <2>4, <2>7
<1>2. CASE UNCHANGED Dir!dirVars
  BY <1>2 DEF Dir!dirVars, TableTyped, TableHolds, Holds
<1>3. QED
  BY <1>1, <1>2 DEF Dir!lookup

LEMMA InsertKeeps ==
    ASSUME TableTyped, TableHolds, NEW k, NEW d, NEW v, Holds(k, d, v), Dir!insert(k, d, v)
    PROVE  TableTyped' /\ TableHolds'
<1>1. ASSUME NEW n, NEW a \in Addr, v \in 1..ChunkSize, Dir!store(k, d, v, n, a)
      PROVE  TableTyped' /\ TableHolds'
  <2>1. /\ DOMAIN table' \subseteq DOMAIN table \cup {k}
        /\ \A x \in DOMAIN table' : table'[x] = IF x = k THEN Dir!Node(d, v, a) ELSE table[x]
        /\ table' = [x \in DOMAIN table' |-> table'[x]]
    BY <1>1 DEF Dir!store
  <2>2. k \in Key /\ d \in Content
    BY <1>1 DEF Holds
  <2>3. Dir!Node(d, v, a) \in Dir!CacheEntry
    BY <1>1, <2>2 DEF Dir!Node, Dir!CacheEntry
  <2>4. \A x \in DOMAIN table' : table'[x] \in Dir!CacheEntry
    BY <2>1, <2>3 DEF TableTyped
  <2>5. TableTyped'
    BY <2>1, <2>2, <2>4 DEF TableTyped
  <2>6. ASSUME NEW x \in DOMAIN table' PROVE Holds(x, table'[x].data, table'[x].valid_size)
    <3>1. CASE x = k
      <4>1. table'[x].data = d /\ table'[x].valid_size = v
        BY <2>1, <3>1 DEF Dir!Node
      <4>2. QED
        BY <3>1, <4>1
    <3>2. CASE x # k
      BY <2>1, <3>2 DEF TableHolds
    <3>3. QED
      BY <3>1, <3>2
  <2>7. QED
    BY <2>5, <2>6 DEF TableHolds, Holds
<1>2. CASE UNCHANGED Dir!dirVars
  BY <1>2 DEF Dir!dirVars, TableTyped, TableHolds, Holds
<1>3. QED
  BY <1>1, <1>2 DEF Dir!insert, Dir!Admits

-----------------------------------------------------------------------------
(* Steps that several actions share.                                       *)

LEMMA GroupKept ==
    ASSUME NEW t \in Thread, AtItsGroup(t), pc[t] \notin {"idle", "merged"},
           call'[t] = call[t], rv'[t] = rv[t], opt' = opt
    PROVE  AtItsGroup(t)'
<1>1. \A s : Group(s)' = Group(s)
  BY DEF Group, GroupLen, Joins
<1>2. QED
  BY <1>1 DEF AtItsGroup

\* A call returns: MEMTIER_OK only with everything delivered.
LEMMA ReturnKeeps ==
    ASSUME ThreadsTyped, NEW t \in Thread, ThreadInv(t), opt' = opt,
           NEW code \in {"OK", "ERR_IO", "ERR_CUDA"}, Return(t, code),
           code = "OK" /\ call[t].op # "prefetch" => Len(out[t]) = call[t].size
    PROVE  ThreadsTyped' /\ ThreadInv(t)'
<1>1. NoChunk \in [data : Seq(Bytes), n : 0..ChunkSize]
  BY EngineAssumption DEF NoChunk
<1>2. ThreadsTyped'
  BY <1>1 DEF ThreadsTyped, Return, Goto
<1>3. /\ pc'[t] = "idle" /\ rc'[t] = code /\ call'[t] = call[t] /\ rv'[t] = rv[t]
      /\ copied'[t] = copied[t] /\ out'[t] = out[t]
  BY DEF ThreadsTyped, Return, Goto
<1>4. AtItsPlace(t)' /\ ChunkHolds(t)' /\ AtItsGroup(t)'
  BY <1>3 DEF ThreadInv, AtItsPlace, ChunkHolds, AtItsGroup, InRead, InPrefetch
<1>5. OutLength(t)'
  BY <1>3 DEF ThreadInv, OutLength
<1>6. QED
  BY <1>2, <1>4, <1>5 DEF ThreadInv

\* A chunk is done.
LEMMA AdvanceKeeps ==
    ASSUME ThreadsTyped, NEW t \in Thread, ThreadInv(t), opt' = opt, NEW first, Advance(t, first),
           \/ pc[t] \in InRead /\ first = "lookup"
           \/ pc[t] \in InPrefetch /\ first = "probe",
           out' \in [Thread -> Seq(Bytes)],
           call[t].op # "prefetch" => Len(out'[t]) = CopiedNow(t)
    PROVE  ThreadsTyped' /\ ThreadInv(t)'
<1>1. NoChunk \in [data : Seq(Bytes), n : 0..ChunkSize]
  BY EngineAssumption DEF NoChunk
<1>2. copied[t] < call[t].size
  BY DEF ThreadInv, AtItsPlace
<1>3. CopiedNow(t) \in Nat /\ CopiedNow(t) <= call[t].size /\ call[t].size \in Nat
  BY <1>2, NeedFacts, EngineAssumption DEF CopiedNow
<1>4. ThreadsTyped'
  BY <1>1, <1>3 DEF ThreadsTyped, Advance, Goto, InRead, InPrefetch
<1>5. /\ copied'[t] = CopiedNow(t) /\ path'[t] = "NONE" /\ call'[t] = call[t] /\ rv'[t] = rv[t] /\ rc'[t] = rc[t]
      /\ pc'[t] = IF CopiedNow(t) < call[t].size THEN first ELSE "complete"
  BY DEF ThreadsTyped, Advance, Goto
<1>6. pc'[t] \in {"lookup", "probe", "complete"}
  BY <1>5
<1>7. AtItsPlace(t)'
  BY <1>3, <1>5 DEF ThreadInv, AtItsPlace, InRead, InPrefetch
<1>8. ChunkHolds(t)'
  BY <1>6 DEF ChunkHolds
<1>9. OutLength(t)'
  BY <1>3, <1>5, <1>6 DEF OutLength
<1>10. AtItsGroup(t)'
  BY <1>5, GroupKept DEF ThreadInv, InRead, InPrefetch
<1>11. QED
  BY <1>4, <1>7, <1>8, <1>9, <1>10 DEF ThreadInv

LEMMA SameChunk ==
    ASSUME NEW t \in Thread, call'[t] = call[t], copied'[t] = copied[t]
    PROVE  /\ KeyOf(t)' = KeyOf(t) /\ InChunk(t)' = InChunk(t) /\ Need(t)' = Need(t)
           /\ CurOff(t)' = CurOff(t) /\ CopiedNow(t)' = CopiedNow(t)
  BY DEF KeyOf, InChunk, Need, CurOff, CopiedNow

\* What does not touch the cache and counts with natural numbers.
LEMMA SharedKept ==
    ASSUME SharedTyped, opt' = opt, table' = table, size' = size, aborted' \in Nat,
           stats' \in [Counter -> Nat]
    PROVE  SharedTyped'
  BY DEF SharedTyped, TableTyped, TableHolds, Holds

-----------------------------------------------------------------------------
(* Every action keeps the invariant.                                       *)

LEMMA LookupControl ==
    ASSUME ControlInv, NEW t \in Thread, Lookup(t)
    PROVE  SharedTyped' /\ ThreadsTyped' /\ ThreadInv(t)'
<1> DEFINE k == KeyOf(t)
           e == Dir!Payload(k)
           p == select_path(IsHit(t), CurOff(t), Need(t))
<1>1. SharedTyped /\ ThreadsTyped /\ ThreadInv(t) /\ pc[t] = "lookup" /\ Dir!lookup(k)
  BY DEF ControlInv, Lookup
<1>2. SharedTyped'
  BY <1>1, LookupKeeps DEF Lookup, SharedTyped
<1>3. p \in Paths /\ (p = "DRAM_HIT" => IsHit(t))
  BY DEF select_path, Paths
<1>4. ASSUME p = "DRAM_HIT"
      PROVE  /\ Holds(k, e.data, e.valid_size) /\ InChunk(t) + Need(t) <= e.valid_size
             /\ e.data \in Seq(Bytes) /\ e.valid_size \in 0..ChunkSize
  <2>1. k \in DOMAIN table /\ InChunk(t) + Need(t) <= e.valid_size
    BY <1>3, <1>4 DEF IsHit, Dir!contains
  <2>2. e.data = table[k].data /\ e.valid_size = table[k].valid_size
    BY DEF Dir!Payload
  <2>3. Holds(k, e.data, e.valid_size)
    BY <1>1, <2>1, <2>2 DEF SharedTyped, TableHolds
  <2>4. e.data \in [1..ChunkSize -> Bytes] /\ e.valid_size \in 0..ChunkSize
    BY <2>3 DEF Holds, Content
  <2>5. QED
    BY <2>1, <2>3, <2>4, FunctionIsSeq, EngineAssumption
<1> DEFINE ch == IF p = "DRAM_HIT" THEN [data |-> e.data, n |-> e.valid_size] ELSE NoChunk
<1>5. ch \in [data : Seq(Bytes), n : 0..ChunkSize]
  BY <1>4, EngineAssumption DEF NoChunk
<1>6. /\ path' = [path EXCEPT ![t] = p] /\ chunk' = [chunk EXCEPT ![t] = ch]
      /\ pc' = [pc EXCEPT ![t] = "select"]
      /\ UNCHANGED <<opt, call, rv, copied, out, rc, seen>>
  BY DEF Lookup, Goto
<1> HIDE DEF p, e, k, ch
<1>7. ThreadsTyped'
  BY <1>1, <1>3, <1>5, <1>6 DEF ThreadsTyped, InRead
<1>8. /\ pc'[t] = "select" /\ path'[t] = p /\ chunk'[t] = ch /\ call'[t] = call[t] /\ copied'[t] = copied[t]
      /\ out'[t] = out[t] /\ rv'[t] = rv[t]
  BY <1>1, <1>6 DEF ThreadsTyped
<1>9. AtItsPlace(t)'
  BY <1>1, <1>3, <1>8 DEF ThreadInv, AtItsPlace, InRead, InPrefetch, Paths
<1>10. ChunkHolds(t)'
  <2>1. p = "DRAM_HIT" => ch.data = e.data /\ ch.n = e.valid_size
    BY DEF ch
  <2>2. QED
    BY <1>4, <1>8, <2>1, SameChunk DEF ChunkHolds, k
<1>11. OutLength(t)'
  BY <1>1, <1>8 DEF ThreadInv, OutLength
<1>12. AtItsGroup(t)'
  BY <1>1, <1>6, <1>8, GroupKept DEF ThreadInv
<1>13. QED
  BY <1>2, <1>7, <1>9, <1>10, <1>11, <1>12 DEF ThreadInv

LEMMA SelectControl ==
    ASSUME ControlInv, NEW t \in Thread, Select(t)
    PROVE  SharedTyped' /\ ThreadsTyped' /\ ThreadInv(t)'
<1>1. SharedTyped /\ ThreadsTyped /\ ThreadInv(t) /\ pc[t] = "select" /\ path[t] \in Paths
  BY DEF ControlInv, Select, ThreadInv, AtItsPlace, ThreadsTyped
<1>2. PICK d \in {[selected_gds |-> 1], [selected_cache |-> 1], [selected_posix |-> 1]} : Tally(d)
  <2>1. CASE path[t] \in {"GDS_READ", "GDS_STUB_FALLBACK"}
    BY <2>1 DEF Select
  <2>2. CASE path[t] \in {"DRAM_HIT", "POSIX_READ_THEN_CACHE"}
    BY <2>2 DEF Select
  <2>3. CASE path[t] = "POSIX_READ"
    BY <2>3 DEF Select
  <2>4. QED
    BY <1>1, <2>1, <2>2, <2>3 DEF Paths
<1>3. \A c \in DOMAIN d : d[c] \in Nat
  BY <1>2
<1>4. SharedTyped'
  <2>1. stats' \in [Counter -> Nat]
    BY <1>1, <1>2, <1>3, TallyTyped DEF SharedTyped
  <2>2. opt' = opt /\ table' = table /\ size' = size /\ aborted' \in Nat
    BY <1>1 DEF Select, cacheVars, SharedTyped
  <2>3. QED
    BY <1>1, <2>1, <2>2, SharedKept
<1>5. PICK l \in {"hit", "gds", "posix"} :
        pc' = [pc EXCEPT ![t] = l] /\ (l = "hit" => path[t] = "DRAM_HIT")
  <2>1. CASE path[t] = "DRAM_HIT"
    BY <2>1 DEF Select, Goto
  <2>2. CASE path[t] \in {"GDS_READ", "GDS_STUB_FALLBACK"}
    BY <2>2 DEF Select, Goto
  <2>3. CASE path[t] \notin {"DRAM_HIT", "GDS_READ", "GDS_STUB_FALLBACK"}
    BY <2>3 DEF Select, Goto
  <2>4. QED
    BY <2>1, <2>2, <2>3
<1>6. UNCHANGED <<opt, call, rv, copied, path, chunk, out, rc, seen>>
  BY DEF Select
<1>7. ThreadsTyped'
  BY <1>1, <1>5, <1>6 DEF ThreadsTyped, InRead
<1>8. pc'[t] = l
  BY <1>1, <1>5 DEF ThreadsTyped
<1>9. AtItsPlace(t)'
  BY <1>1, <1>5, <1>6, <1>8 DEF ThreadInv, AtItsPlace, InRead, InPrefetch, Paths
<1>10. ChunkHolds(t)'
  BY <1>1, <1>5, <1>6, <1>8, SameChunk DEF ThreadInv, ChunkHolds
<1>11. OutLength(t)'
  BY <1>1, <1>5, <1>6, <1>8 DEF ThreadInv, OutLength
<1>12. AtItsGroup(t)'
  BY <1>1, <1>6, GroupKept DEF ThreadInv
<1>13. QED
  BY <1>4, <1>7, <1>9, <1>10, <1>11, <1>12 DEF ThreadInv

\* A chunk is given up.
LEMMA AbortControl ==
    ASSUME ControlInv, NEW t \in Thread, NEW code \in {"ERR_IO", "ERR_CUDA"}, Abort(t, code)
    PROVE  SharedTyped' /\ ThreadsTyped' /\ ThreadInv(t)'
<1>1. SharedTyped'
  BY SharedKept DEF ControlInv, Abort, SharedTyped, cacheVars
<1>2. QED
  BY <1>1, ReturnKeeps DEF ControlInv, Abort

LEMMA ServeHitControl ==
    ASSUME ControlInv, NEW t \in Thread, ServeHit(t)
    PROVE  SharedTyped' /\ ThreadsTyped' /\ ThreadInv(t)'
<1>1. SharedTyped /\ ThreadsTyped /\ ThreadInv(t) /\ pc[t] = "hit"
  BY DEF ControlInv, ServeHit
<1>2. CASE Abort(t, "ERR_CUDA")
  BY <1>2, AbortControl
<1>3. CASE /\ CopyTarget(t, chunk[t].data, InChunk(t))
           /\ Tally([dram_hits |-> 1, dram_bytes_served |-> Need(t)])
           /\ Advance(t, "lookup")
           /\ UNCHANGED <<opt, cacheVars, size, aborted>>
  <2>1. copied[t] < call[t].size /\ call[t].op # "prefetch" /\ Len(out[t]) = copied[t]
    BY <1>1 DEF ThreadInv, AtItsPlace, OutLength, InRead
  <2>2. /\ Need(t) \in 1..(ChunkSize - InChunk(t)) /\ InChunk(t) \in 0..(ChunkSize - 1)
        /\ ChunkSize \in Nat
    BY <1>1, <2>1, NeedFacts, EngineAssumption
  <2>3. chunk[t].data \in [1..ChunkSize -> Bytes]
    BY <1>1 DEF ThreadInv, AtItsPlace, ChunkHolds, Holds, Content
  <2>4. \A i \in (InChunk(t) + 1)..(InChunk(t) + Need(t)) : chunk[t].data[i] \in Bytes
    BY <2>2, <2>3
  <2>5. out' \in [Thread -> Seq(Bytes)] /\ Len(out'[t]) = CopiedNow(t)
    BY <1>1, <1>3, <2>1, <2>2, <2>4, CopyFacts DEF CopiedNow
  <2>6. ThreadsTyped' /\ ThreadInv(t)'
    BY <1>1, <1>3, <2>5, AdvanceKeeps DEF InRead
  <2>7. stats' \in [Counter -> Nat]
    <3> DEFINE d == [dram_hits |-> 1, dram_bytes_served |-> Need(t)]
    <3>1. \A c \in DOMAIN d : d[c] \in Nat
      BY <2>2
    <3>2. QED
      BY <1>1, <1>3, <3>1, TallyTyped DEF SharedTyped
  <2>8. SharedTyped'
    BY <1>1, <1>3, <2>7, SharedKept DEF SharedTyped, cacheVars
  <2>9. QED
    BY <2>6, <2>8
<1>4. QED
  BY <1>2, <1>3 DEF ServeHit

\* A chunk that did not come from the cache: the bytes needed are in a buffer.
LEMMA DirectControl ==
    ASSUME ControlInv, NEW t \in Thread, pc[t] \in {"gds", "fallback"},
           CopyTarget(t, Buffer(call[t].file, CurOff(t), Need(t)), 0), Advance(t, "lookup"),
           NEW d, Tally(d), \A c \in DOMAIN d : d[c] \in Nat,
           UNCHANGED <<opt, cacheVars, size, aborted>>
    PROVE  SharedTyped' /\ ThreadsTyped' /\ ThreadInv(t)'
<1> DEFINE b == Buffer(call[t].file, CurOff(t), Need(t))
<1>1. SharedTyped /\ ThreadsTyped /\ ThreadInv(t)
  BY DEF ControlInv
<1>2. copied[t] < call[t].size /\ call[t].op # "prefetch" /\ Len(out[t]) = copied[t]
  BY <1>1 DEF ThreadInv, AtItsPlace, OutLength, InRead
<1>3. Need(t) \in Nat /\ CurOff(t) \in Nat /\ call[t].file \in File
  BY <1>1, <1>2, NeedFacts, EngineAssumption
<1>4. b \in [1..Need(t) -> Bytes]
  BY <1>1, <1>3, BufferFacts DEF SharedTyped
<1> HIDE DEF b
<1>5. \A i \in (0 + 1)..(0 + Need(t)) : b[i] \in Bytes
  BY <1>3, <1>4
<1>6. CopyTarget(t, b, 0)
  BY DEF b
<1>7. out' \in [Thread -> Seq(Bytes)] /\ Len(out'[t]) = CopiedNow(t)
  BY <1>1, <1>2, <1>5, <1>6, CopyFacts DEF CopiedNow
<1>8. ThreadsTyped' /\ ThreadInv(t)'
  BY <1>1, <1>7, AdvanceKeeps DEF InRead
<1>9. SharedTyped'
  BY <1>1, TallyTyped, SharedKept DEF SharedTyped, cacheVars
<1>10. QED
  BY <1>8, <1>9

LEMMA ReadGdsControl ==
    ASSUME ControlInv, NEW t \in Thread, ReadGds(t)
    PROVE  SharedTyped' /\ ThreadsTyped' /\ ThreadInv(t)'
<1>1. SharedTyped /\ ThreadsTyped /\ ThreadInv(t) /\ pc[t] = "gds"
  BY DEF ControlInv, ReadGds
<1>2. CASE Abort(t, "ERR_CUDA")
  BY <1>2, AbortControl
<1>3. CASE /\ CopyTarget(t, Buffer(call[t].file, CurOff(t), Need(t)), 0)
           /\ Tally([gds_reads |-> 1]) /\ Advance(t, "lookup")
           /\ UNCHANGED <<opt, cacheVars, size, aborted>>
  <2>1. \A c \in DOMAIN [gds_reads |-> 1] : [gds_reads |-> 1][c] \in Nat
    OBVIOUS
  <2>2. QED
    BY <1>1, <1>3, <2>1, DirectControl
<1>4. CASE /\ Goto(t, "fallback")
           /\ UNCHANGED <<opt, cacheVars, stats, size, call, rv, copied, path, chunk, out,
                          rc, calls, seen, aborted>>
  <2>1. SharedTyped'
    BY <1>1, <1>4, SharedKept DEF SharedTyped, cacheVars
  <2>2. ThreadsTyped'
    BY <1>1, <1>4 DEF ThreadsTyped, Goto, InRead
  <2>3. pc'[t] = "fallback"
    BY <1>1, <1>4 DEF ThreadsTyped, Goto
  <2>4. AtItsPlace(t)' /\ ChunkHolds(t)' /\ OutLength(t)'
    BY <1>1, <1>4, <2>3 DEF ThreadInv, AtItsPlace, ChunkHolds, OutLength, InRead, InPrefetch
  <2>5. AtItsGroup(t)'
    BY <1>1, <1>4, GroupKept DEF ThreadInv
  <2>6. QED
    BY <2>1, <2>2, <2>4, <2>5 DEF ThreadInv
<1>5. QED
  BY <1>2, <1>3, <1>4 DEF ReadGds

LEMMA ReadFallbackControl ==
    ASSUME ControlInv, NEW t \in Thread, ReadFallback(t)
    PROVE  SharedTyped' /\ ThreadsTyped' /\ ThreadInv(t)'
<1> DEFINE n == BytesRead(call[t].file, CurOff(t), Need(t))
<1>1. SharedTyped /\ ThreadsTyped /\ ThreadInv(t) /\ pc[t] = "fallback"
  BY DEF ControlInv, ReadFallback
<1>2. ASSUME NEW code \in {"ERR_IO", "ERR_CUDA"}, Abort(t, code)
      PROVE  SharedTyped' /\ ThreadsTyped' /\ ThreadInv(t)'
  BY <1>2, AbortControl
<1>3. CASE /\ n = Need(t)
           /\ CopyTarget(t, Buffer(call[t].file, CurOff(t), Need(t)), 0)
           /\ Tally(FallbackCounts(n)) /\ Advance(t, "lookup")
           /\ UNCHANGED <<opt, cacheVars, size, aborted>>
  <2>1. copied[t] < call[t].size
    BY <1>1 DEF ThreadInv, AtItsPlace, InRead
  <2>2. n \in Nat
    BY <1>1, <1>3, <2>1, NeedFacts, EngineAssumption
  <2> HIDE DEF n
  <2>3. \A c \in DOMAIN FallbackCounts(n) : FallbackCounts(n)[c] \in Nat
    BY <2>2 DEF FallbackCounts
  <2>4. QED
    BY <1>1, <1>3, <2>3, DirectControl
<1>4. QED
  BY <1>2, <1>3 DEF ReadFallback

\* What posix_pread_full is asked for contains what is needed.
LEMMA PosixRange ==
    ASSUME ThreadsTyped, NEW t \in Thread, copied[t] < call[t].size
    PROVE  /\ ReadOff(t) \in Nat /\ ReadSize(t) \in Nat /\ SrcOff(t) \in Nat /\ Need(t) \in Nat \ {0}
           /\ SrcOff(t) + Need(t) <= ReadSize(t) /\ ReadOff(t) + SrcOff(t) = CurOff(t)
           /\ ReadSize(t) <= ChunkSize /\ call[t].file \in File
           /\ ThenCache(t) => /\ ReadOff(t) = (CurOff(t) \div ChunkSize) * ChunkSize
                              /\ ReadSize(t) = ChunkSize
<1>1. /\ CurOff(t) \in Nat /\ InChunk(t) \in 0..(ChunkSize - 1) /\ Need(t) \in 1..(ChunkSize - InChunk(t))
      /\ InChunk(t) <= CurOff(t) /\ ChunkSize \in Nat \ {0} /\ call[t].file \in File
      /\ (CurOff(t) \div ChunkSize) * ChunkSize = CurOff(t) - InChunk(t)
  BY NeedFacts, EngineAssumption
<1>2. CASE ThenCache(t)
  BY <1>1, <1>2 DEF ReadOff, ReadSize, SrcOff
<1>3. CASE ~ThenCache(t)
  BY <1>1, <1>3 DEF ReadOff, ReadSize, SrcOff
<1>4. QED
  BY <1>2, <1>3

LEMMA ReadPosixControl ==
    ASSUME ControlInv, NEW t \in Thread, ReadPosix(t)
    PROVE  SharedTyped' /\ ThreadsTyped' /\ ThreadInv(t)'
<1> DEFINE f == call[t].file
           n == BytesRead(f, ReadOff(t), ReadSize(t))
           b == Buffer(f, ReadOff(t), ReadSize(t))
<1>1. SharedTyped /\ ThreadsTyped /\ ThreadInv(t) /\ pc[t] = "posix"
  BY DEF ControlInv, ReadPosix
<1>2. ASSUME NEW code \in {"ERR_IO", "ERR_CUDA"}, Abort(t, code)
      PROVE  SharedTyped' /\ ThreadsTyped' /\ ThreadInv(t)'
  BY <1>2, AbortControl
<1>3. CASE /\ CopyTarget(t, b, SrcOff(t))
           /\ chunk' = [chunk EXCEPT ![t] = [data |-> b, n |-> n]]
           /\ Goto(t, IF ThenCache(t) /\ opt.cache_admit THEN "admit" ELSE "count")
           /\ UNCHANGED <<opt, cacheVars, stats, size, call, rv, copied, path, rc, calls, seen, aborted>>
  <2>1. copied[t] < call[t].size /\ call[t].op # "prefetch" /\ Len(out[t]) = copied[t]
    BY <1>1 DEF ThreadInv, AtItsPlace, OutLength, InRead
  <2>2. /\ ReadOff(t) \in Nat /\ ReadSize(t) \in Nat /\ SrcOff(t) \in Nat /\ Need(t) \in Nat \ {0}
        /\ SrcOff(t) + Need(t) <= ReadSize(t) /\ f \in File /\ ReadSize(t) <= ChunkSize /\ ChunkSize \in Nat
    BY <1>1, <2>1, PosixRange, EngineAssumption
  <2>3. b \in [1..ReadSize(t) -> Bytes] /\ b \in Seq(Bytes) /\ n \in 0..ReadSize(t)
    BY <1>1, <2>2, BufferFacts DEF SharedTyped
  <2>4. ThenCache(t) => Holds(KeyOf(t), b, n)
    <3>1. CurOff(t) \div ChunkSize \in Nat /\ KeyOf(t) = <<f, CurOff(t) \div ChunkSize>>
      BY <1>1, <2>1, NeedFacts
    <3>2. ThenCache(t) => ReadOff(t) = (CurOff(t) \div ChunkSize) * ChunkSize /\ ReadSize(t) = ChunkSize
      BY <1>1, <2>1, PosixRange
    <3>3. QED
      BY <1>1, <2>2, <3>1, <3>2, ChunkRead DEF SharedTyped
  <2> HIDE DEF b, n
  <2>5. \A i \in (SrcOff(t) + 1)..(SrcOff(t) + Need(t)) : b[i] \in Bytes
    BY <2>2, <2>3
  <2>6. out' \in [Thread -> Seq(Bytes)] /\ Len(out'[t]) = CopiedNow(t)
    BY <1>1, <1>3, <2>1, <2>2, <2>5, CopyFacts DEF CopiedNow
  <2>7. [data |-> b, n |-> n] \in [data : Seq(Bytes), n : 0..ChunkSize]
    BY <2>2, <2>3
  <2>8. ThreadsTyped'
    BY <1>1, <1>3, <2>6, <2>7 DEF ThreadsTyped, Goto, InRead
  <2>9. /\ pc'[t] \in {"admit", "count"} /\ (pc'[t] = "admit" => ThenCache(t))
        /\ chunk'[t].data = b /\ chunk'[t].n = n
        /\ call'[t] = call[t] /\ copied'[t] = copied[t] /\ path'[t] = path[t] /\ rv'[t] = rv[t]
    BY <1>1, <1>3 DEF ThreadsTyped, Goto
  <2>10. AtItsPlace(t)'
    BY <1>1, <2>1, <2>9 DEF ThreadInv, AtItsPlace, InRead, InPrefetch, ThenCache
  <2>11. ChunkHolds(t)'
    BY <2>4, <2>9, SameChunk DEF ChunkHolds
  <2>12. OutLength(t)'
    <3>1. CopiedNow(t) <= call[t].size
      BY <1>1, <2>1, NeedFacts DEF CopiedNow
    <3>2. QED
      BY <2>6, <2>9, <3>1, SameChunk DEF OutLength
  <2>13. AtItsGroup(t)'
    BY <1>1, <1>3, <2>9, GroupKept DEF ThreadInv
  <2>14. SharedTyped'
    BY <1>1, <1>3, SharedKept DEF SharedTyped, cacheVars
  <2>15. QED
    BY <2>8, <2>10, <2>11, <2>12, <2>13, <2>14 DEF ThreadInv
<1>4. QED
  BY <1>2, <1>3 DEF ReadPosix

\* cache.insert, of do_read_impl and of memtier_prefetch.
LEMMA InsertControl ==
    ASSUME ControlInv, NEW t \in Thread, Admit(t) \/ Store(t)
    PROVE  SharedTyped' /\ ThreadsTyped' /\ ThreadInv(t)'
<1>1. SharedTyped /\ ThreadsTyped /\ ThreadInv(t) /\ pc[t] \in {"admit", "store"}
  BY DEF ControlInv, Admit, Store
<1>2. Holds(KeyOf(t), chunk[t].data, ValidSize(t))
  BY <1>1 DEF ThreadInv, ChunkHolds, ValidSize
<1>3. TableTyped' /\ TableHolds'
  BY <1>1, <1>2, InsertKeeps DEF Admit, Store, SharedTyped
<1>4. SharedTyped'
  BY <1>1, <1>3 DEF Admit, Store, SharedTyped
<1>5. /\ pc' = [pc EXCEPT ![t] = IF pc[t] = "admit" THEN "count" ELSE "tally"]
      /\ UNCHANGED <<opt, call, rv, copied, path, chunk, out, rc, seen>>
  BY DEF Admit, Store, Goto
<1>6. ThreadsTyped'
  BY <1>1, <1>5 DEF ThreadsTyped, InRead, InPrefetch
<1>7. pc'[t] = IF pc[t] = "admit" THEN "count" ELSE "tally"
  BY <1>1, <1>5 DEF ThreadsTyped
<1>8. AtItsPlace(t)' /\ ChunkHolds(t)'
  BY <1>1, <1>5, <1>7 DEF ThreadInv, AtItsPlace, ChunkHolds, InRead, InPrefetch
<1>9. OutLength(t)'
  BY <1>1, <1>5, <1>7, SameChunk DEF ThreadInv, OutLength, AtItsPlace, InPrefetch
<1>10. AtItsGroup(t)'
  BY <1>1, <1>5, GroupKept DEF ThreadInv
<1>11. QED
  BY <1>4, <1>6, <1>8, <1>9, <1>10 DEF ThreadInv

\* The chunk is counted, by do_read_impl and by memtier_prefetch.
LEMMA CountControl ==
    ASSUME ControlInv, NEW t \in Thread, Count(t) \/ TallyPrefetch(t)
    PROVE  SharedTyped' /\ ThreadsTyped' /\ ThreadInv(t)'
<1>1. SharedTyped /\ ThreadsTyped /\ ThreadInv(t) /\ pc[t] \in {"count", "tally"}
  BY DEF ControlInv, Count, TallyPrefetch
<1>2. chunk[t].n \in Nat
  BY <1>1, EngineAssumption DEF ThreadsTyped
<1>3. stats' \in [Counter -> Nat]
  <2>1. CASE Count(t)
    <3>1. \A c \in DOMAIN MissCounts(chunk[t].n) : MissCounts(chunk[t].n)[c] \in Nat
      BY <1>2 DEF MissCounts
    <3>2. QED
      BY <1>1, <2>1, <3>1, TallyTyped DEF Count, SharedTyped
  <2>2. CASE TallyPrefetch(t)
    <3> DEFINE d == [prefetch_bytes |-> chunk[t].n, posix_reads |-> 1, ssd_bytes_read |-> chunk[t].n]
    <3>1. \A c \in DOMAIN d : d[c] \in Nat
      BY <1>2
    <3>2. QED
      BY <1>1, <2>2, <3>1, TallyTyped DEF TallyPrefetch, SharedTyped
  <2>3. QED
    BY <2>1, <2>2
<1>4. SharedTyped'
  BY <1>1, <1>3, SharedKept DEF SharedTyped, Count, TallyPrefetch, cacheVars
<1>5. /\ out' = out /\ opt' = opt /\ out \in [Thread -> Seq(Bytes)]
      /\ \/ Advance(t, "lookup") /\ pc[t] = "count"
         \/ Advance(t, "probe") /\ pc[t] = "tally"
  BY <1>1 DEF Count, TallyPrefetch, ThreadsTyped
<1>6. call[t].op # "prefetch" => Len(out'[t]) = CopiedNow(t)
  BY <1>1, <1>5 DEF ThreadInv, OutLength, AtItsPlace, InPrefetch
<1>7. ThreadsTyped' /\ ThreadInv(t)'
  BY <1>1, <1>5, <1>6, AdvanceKeeps DEF InRead, InPrefetch
<1>8. QED
  BY <1>4, <1>7

LEMMA CompleteControl ==
    ASSUME ControlInv, NEW t \in Thread, Complete(t)
    PROVE  SharedTyped' /\ ThreadsTyped' /\ ThreadInv(t)'
<1> DEFINE d == IF call[t].op = "prefetch" THEN [prefetch_requests |-> 1] ELSE [total_requests |-> 1]
<1>1. SharedTyped /\ ThreadsTyped /\ ThreadInv(t) /\ pc[t] = "complete"
  BY DEF ControlInv, Complete
<1>2. copied[t] = call[t].size /\ (call[t].op # "prefetch" => Len(out[t]) = call[t].size)
  BY <1>1 DEF ThreadInv, AtItsPlace, OutLength
<1>3. stats' \in [Counter -> Nat]
  <2>1. \A c \in DOMAIN d : d[c] \in Nat
    OBVIOUS
  <2>2. QED
    BY <1>1, <2>1, TallyTyped DEF Complete, SharedTyped
<1>4. SharedTyped'
  BY <1>1, <1>3, SharedKept DEF SharedTyped, Complete, cacheVars
<1>5. CASE call[t].op = "readv"
  <2>1. Goto(t, "scatter") /\ UNCHANGED <<opt, call, rv, copied, path, chunk, out, rc, seen>>
    BY <1>5 DEF Complete
  <2>2. ThreadsTyped'
    BY <1>1, <2>1 DEF ThreadsTyped, Goto
  <2>3. pc'[t] = "scatter"
    BY <1>1, <2>1 DEF ThreadsTyped, Goto
  <2>4. AtItsPlace(t)' /\ ChunkHolds(t)' /\ OutLength(t)'
    BY <1>1, <1>2, <1>5, <2>1, <2>3 DEF ThreadInv, AtItsPlace, ChunkHolds, OutLength, InRead, InPrefetch
  <2>5. AtItsGroup(t)'
    BY <1>1, <2>1, GroupKept DEF ThreadInv
  <2>6. QED
    BY <1>4, <2>2, <2>4, <2>5 DEF ThreadInv
<1>6. CASE call[t].op # "readv"
  <2>1. Return(t, "OK") /\ opt' = opt
    BY <1>6 DEF Complete
  <2>2. QED
    BY <1>1, <1>2, <1>4, <2>1, ReturnKeeps
<1>7. QED
  BY <1>5, <1>6

-----------------------------------------------------------------------------
\* The read of a group covers each of its items.
LEMMA GroupReadFacts ==
    ASSUME NEW s \in Seq(Item), s # <<>>, Sorted(s)
    PROVE  /\ GroupRead(Group(s)) \in CallRecord /\ GroupRead(Group(s)).size > 0
           /\ GroupRead(Group(s)).op = "readv"
           /\ DOMAIN Group(s) = 1..GroupLen(s)
           /\ \A k \in 1..GroupLen(s) :
                  /\ TmpOff(Group(s), k) \in Nat /\ Group(s)[k].range.size \in Nat \ {0}
                  /\ TmpOff(Group(s), k) + Group(s)[k].range.size <= GroupRead(Group(s)).size
                  /\ Group(s)[k].range.file = GroupRead(Group(s)).file
                  /\ GroupRead(Group(s)).offset + TmpOff(Group(s), k) = Group(s)[k].range.offset
<1> DEFINE g == Group(s)
           n == GroupLen(s)
           c == GroupRead(g)
<1>1. /\ g \in Seq(Item) /\ Len(g) = n /\ n \in 1..Len(s) /\ Len(s) \in Nat
      /\ \A k \in 1..n :
             /\ g[k] = s[k] /\ s[k] \in Item
             /\ s[k].range.file = s[1].range.file
             /\ s[1].range.offset <= s[k].range.offset
             /\ EndOf(s[k].range) <= EndOf(s[n].range)
  BY GroupFacts
<1> HIDE DEF g, n
<1>2. 1 \in 1..n /\ n \in 1..n /\ n \in Nat
  BY <1>1
<1>3. \A x \in Item : x.range.file \in File /\ x.range.offset \in Nat /\ x.range.size \in Nat \ {0}
  BY DEF Item, FileRange
<1>4. \A k \in 1..n : g[k].range.file \in File /\ g[k].range.offset \in Nat /\ g[k].range.size \in Nat \ {0}
  BY <1>1, <1>3
<1>5. /\ c.op = "readv" /\ c.file = g[1].range.file /\ c.offset = g[1].range.offset /\ c.target = "CPU"
      /\ c.size = EndOf(g[n].range) - g[1].range.offset
      /\ c = [op |-> c.op, file |-> c.file, offset |-> c.offset, size |-> c.size, target |-> c.target]
  BY <1>1 DEF GroupRead
<1>6. ASSUME NEW k \in 1..n
      PROVE  /\ TmpOff(g, k) \in Nat
             /\ TmpOff(g, k) + g[k].range.size <= c.size
             /\ g[k].range.file = c.file
             /\ c.offset + TmpOff(g, k) = g[k].range.offset
  <2>1. g[1].range.offset \in Nat /\ g[k].range.offset \in Nat /\ g[k].range.size \in Nat
    BY <1>2, <1>4
  <2>2. g[1].range.offset <= g[k].range.offset /\ g[k].range.file = c.file
    BY <1>1, <1>2, <1>5
  <2>3. g[k].range.offset + g[k].range.size <= EndOf(g[n].range)
    BY <1>1, <1>2 DEF EndOf
  <2>4. EndOf(g[n].range) \in Nat
    BY <1>2, <1>4 DEF EndOf
  <2>5. QED
    BY <1>5, <2>1, <2>2, <2>3, <2>4 DEF TmpOff
<1>7. c.size \in Nat /\ c.size > 0
  <2>1. EndOf(g[n].range) \in Nat /\ g[1].range.offset \in Nat
    BY <1>2, <1>4 DEF EndOf
  <2>2. TmpOff(g, 1) \in Nat /\ g[1].range.size \in Nat \ {0} /\ TmpOff(g, 1) + g[1].range.size <= c.size
    BY <1>2, <1>4, <1>6
  <2>3. c.size \in Int
    BY <1>5, <2>1
  <2>4. QED
    BY <2>2, <2>3
<1>8. c \in CallRecord
  <2>1. c.op \in {"read", "readv", "prefetch"} /\ c.file \in File /\ c.offset \in Nat /\ c.target \in {"CPU", "GPU"}
    BY <1>2, <1>4, <1>5
  <2>2. QED
    BY <1>5, <1>7, <2>1 DEF CallRecord
<1>9. DOMAIN g = 1..n
  BY <1>1
<1>10. QED
  BY <1>4, <1>5, <1>6, <1>7, <1>8, <1>9 DEF g, n

\* do_read_impl begins for a group.
LEMMA ReadGroupKeeps ==
    ASSUME ThreadsTyped, NEW t \in Thread, opt' = opt,
           NEW s \in Seq(Item), s # <<>>, Sorted(s), ReadGroup(t, s),
           rv' \in [Thread -> RvRecord], rv'[t].items = s, path' = path, chunk' = chunk,
           rc' \in [Thread -> {"NONE", "OK", "ERR_IO", "ERR_CUDA"}], seen' \in [Thread -> [File -> Nat]]
    PROVE  ThreadsTyped' /\ ThreadInv(t)'
<1> DEFINE c == GroupRead(Group(s))
<1>1. c \in CallRecord /\ c.size > 0 /\ c.op = "readv" /\ c.size \in Nat
  BY GroupReadFacts DEF CallRecord
<1>2. /\ call' = [call EXCEPT ![t] = c] /\ copied' = [copied EXCEPT ![t] = 0]
      /\ out' = [out EXCEPT ![t] = <<>>] /\ pc' = [pc EXCEPT ![t] = "lookup"]
  BY DEF ReadGroup, Goto
<1> HIDE DEF c
<1>3. ThreadsTyped'
  BY <1>1, <1>2 DEF ThreadsTyped, InRead
<1>4. call'[t] = c /\ copied'[t] = 0 /\ out'[t] = <<>> /\ pc'[t] = "lookup"
  BY <1>2 DEF ThreadsTyped
<1>5. AtItsPlace(t)' /\ ChunkHolds(t)' /\ OutLength(t)'
  BY <1>1, <1>4 DEF AtItsPlace, ChunkHolds, OutLength, InRead, InPrefetch
<1>6. AtItsGroup(t)'
  <2>1. Group(s)' = Group(s)
    BY DEF Group, GroupLen, Joins
  <2>2. QED
    BY <1>4, <2>1 DEF AtItsGroup, c
<1>7. QED
  BY <1>3, <1>5, <1>6 DEF ThreadInv

LEMMA BeginControl ==
    ASSUME ControlInv, NEW t \in Thread, NEW c \in Call, Begin(t, c)
    PROVE  SharedTyped' /\ ThreadsTyped' /\ ThreadInv(t)'
<1>1. SharedTyped /\ ThreadsTyped /\ size \in [File -> Nat]
  BY EngineAssumption DEF ControlInv, SharedTyped
<1>2. SharedTyped'
  BY <1>1, SharedKept DEF Begin, cacheVars, SharedTyped
<1>3. /\ c \in CallRecord /\ c.op \in {"read", "prefetch"} /\ c.size > 0 /\ c.size \in Nat
  <2>1. c.op # "readv"
    BY DEF Begin
  <2>2. c \in [op : {"read", "prefetch"}, file : File, offset : Nat, size : Nat \ {0}, target : {"CPU", "GPU"}]
    BY <2>1, CallAssumption
  <2>3. QED
    BY <2>2 DEF CallRecord
<1>4. NoRanges \in RvRecord
  BY DEF NoRanges, RvRecord
<1>5. ThreadsTyped'
  BY <1>1, <1>3, <1>4 DEF ThreadsTyped, Begin, Goto, InRead, InPrefetch
<1>6. /\ call'[t] = c /\ copied'[t] = 0 /\ out'[t] = <<>>
      /\ pc'[t] = IF c.op = "read" THEN "lookup" ELSE "probe"
  BY <1>1 DEF ThreadsTyped, Begin, Goto
<1>7. AtItsPlace(t)' /\ ChunkHolds(t)' /\ OutLength(t)'
  BY <1>3, <1>6 DEF AtItsPlace, ChunkHolds, OutLength, InRead, InPrefetch
<1>8. AtItsGroup(t)'
  BY <1>3, <1>6 DEF AtItsGroup
<1>9. QED
  BY <1>2, <1>5, <1>7, <1>8 DEF ThreadInv

\* The ranges of a call of memtier_readv.
LEMMA ReadvRanges ==
    ASSUME NEW c \in Call, c.op = "readv"
    PROVE  c.ranges \in Seq(FileRange) /\ c.ranges # <<>> /\ c.target \in {"CPU", "GPU"}
<1>1. c \in [op : {"readv"}, target : {"CPU", "GPU"}, ranges : Seq(FileRange) \ {<<>>}]
  BY CallAssumption
<1>2. QED
  BY <1>1

\* The locals of memtier_readv when it begins.
LEMMA BeginRv ==
    ASSUME ThreadsTyped, NEW t \in Thread, NEW c \in Call, c.op = "readv", NEW s \in SortedItems(c.ranges),
           rv' = [rv EXCEPT ![t] =
                     [ranges |-> c.ranges, target |-> c.target, items |-> s,
                      dsts |-> [d \in 1..Len(s) |-> <<>>], coalesced |-> 0, cbytes |-> 0]]
    PROVE  /\ rv' \in [Thread -> RvRecord] /\ rv'[t].items = s /\ rv'[t].ranges = c.ranges
           /\ rv'[t].dsts \in Seq(Seq(Bytes)) /\ Len(rv'[t].dsts) = Len(s)
<1> DEFINE ds == [d \in 1..Len(s) |-> <<>>]
           r == [ranges |-> c.ranges, target |-> c.target, items |-> s, dsts |-> ds, coalesced |-> 0, cbytes |-> 0]
<1>1. c.ranges \in Seq(FileRange) /\ c.target \in {"CPU", "GPU"} /\ s \in Seq(Item)
  BY ReadvRanges, SortedItemsFacts
<1>2. ds \in Seq(Seq(Bytes)) /\ Len(ds) = Len(s)
  <2>1. ds \in [1..Len(s) -> Seq(Bytes)] /\ Len(s) \in Nat
    BY <1>1
  <2>2. QED
    BY <2>1, FunctionIsSeq
<1>3. rv' = [rv EXCEPT ![t] = r]
  OBVIOUS
<1> HIDE DEF ds
<1>4. r \in RvRecord
  BY <1>1, <1>2 DEF RvRecord
<1>5. rv'[t] = r
  BY <1>3 DEF ThreadsTyped
<1>6. rv' \in [Thread -> RvRecord]
  BY <1>3, <1>4 DEF ThreadsTyped
<1>7. QED
  BY <1>2, <1>5, <1>6

LEMMA BeginReadvControl ==
    ASSUME ControlInv, NEW t \in Thread, NEW c \in Call, BeginReadv(t, c)
    PROVE  SharedTyped' /\ ThreadsTyped' /\ ThreadInv(t)'
<1>1. SharedTyped /\ ThreadsTyped /\ size \in [File -> Nat] /\ c.op = "readv"
  BY EngineAssumption DEF ControlInv, SharedTyped, BeginReadv
<1>2. SharedTyped'
  BY <1>1, SharedKept DEF BeginReadv, cacheVars, SharedTyped
<1>3. PICK s \in SortedItems(c.ranges) :
        /\ ReadGroup(t, s)
        /\ rv' = [rv EXCEPT ![t] =
                     [ranges |-> c.ranges, target |-> c.target, items |-> s,
                      dsts |-> [d \in 1..Len(s) |-> <<>>], coalesced |-> 0, cbytes |-> 0]]
  BY DEF BeginReadv
<1>4. s \in Seq(Item) /\ s # <<>> /\ Sorted(s)
  BY <1>1, ReadvRanges, SortedItemsFacts
<1>5. rv' \in [Thread -> RvRecord] /\ rv'[t].items = s
  BY <1>1, <1>3, BeginRv
<1>6. /\ opt' = opt /\ path' = path /\ chunk' = chunk
      /\ rc' \in [Thread -> {"NONE", "OK", "ERR_IO", "ERR_CUDA"}] /\ seen' \in [Thread -> [File -> Nat]]
  BY <1>1 DEF BeginReadv, ThreadsTyped
<1>7. QED
  BY <1>1, <1>2, <1>3, <1>4, <1>5, <1>6, ReadGroupKeeps

\* What the destinations are after a group.
Scattered(t) ==
    LET g == Group(rv[t].items) IN
    [d \in DOMAIN rv[t].dsts |->
        IF \E k \in DOMAIN g : g[k].dst = d
        THEN LET k == CHOOSE k \in DOMAIN g : g[k].dst = d
             IN  SubSeq(out[t], TmpOff(g, k) + 1, TmpOff(g, k) + g[k].range.size)
        ELSE rv[t].dsts[d]]

\* The piece of the buffer for item k.
LEMMA PieceFacts ==
    ASSUME ThreadsTyped, NEW t \in Thread, ThreadInv(t), pc[t] = "scatter",
           NEW k \in DOMAIN Group(rv[t].items)
    PROVE  LET g == Group(rv[t].items)
               p == SubSeq(out[t], TmpOff(g, k) + 1, TmpOff(g, k) + g[k].range.size)
           IN  /\ p \in Seq(Bytes) /\ Len(p) = g[k].range.size
               /\ \A i \in 1..g[k].range.size : p[i] = out[t][TmpOff(g, k) + i]
<1> DEFINE s == rv[t].items
           g == Group(s)
           m == TmpOff(g, k)
           z == g[k].range.size
           p == SubSeq(out[t], m + 1, m + z)
<1>1. /\ s \in Seq(Item) /\ s # <<>> /\ Sorted(s) /\ call[t] = GroupRead(g)
      /\ out[t] \in Seq(Bytes) /\ Len(out[t]) = call[t].size
  BY DEF ThreadsTyped, RvRecord, ThreadInv, AtItsPlace, AtItsGroup, OutLength
<1>2. m \in Nat /\ z \in Nat \ {0} /\ m + z <= Len(out[t])
  BY <1>1, GroupReadFacts
<1> HIDE DEF m, z
<1>3. \A i \in (m + 1)..(m + z) : out[t][i] \in Bytes
  BY <1>1, <1>2
<1>4. /\ p \in Seq(Bytes)
      /\ Len(p) = IF m + 1 <= m + z THEN m + z - (m + 1) + 1 ELSE 0
      /\ \A i \in 1..(m + z - (m + 1) + 1) : p[i] = out[t][(m + 1) + i - 1]
  BY <1>2, <1>3, SubSeqProperties
<1>5. \A i \in 1..z : (m + 1) + i - 1 = m + i
  BY <1>2
<1> HIDE DEF p
<1>6. p \in Seq(Bytes) /\ Len(p) = z /\ \A i \in 1..z : p[i] = out[t][m + i]
  BY <1>2, <1>4, <1>5
<1>7. QED
  BY <1>6 DEF p, m, z

LEMMA ScatteredTyped ==
    ASSUME ThreadsTyped, NEW t \in Thread, ThreadInv(t), pc[t] = "scatter"
    PROVE  Scattered(t) \in Seq(Seq(Bytes)) /\ Len(Scattered(t)) = Len(rv[t].dsts)
<1> DEFINE g == Group(rv[t].items)
           ds == rv[t].dsts
<1>1. ds \in Seq(Seq(Bytes)) /\ Len(ds) \in Nat /\ DOMAIN ds = 1..Len(ds)
  BY DEF ThreadsTyped, RvRecord
<1>2. ASSUME NEW d \in 1..Len(ds) PROVE Scattered(t)[d] \in Seq(Bytes)
  <2>1. CASE \E k \in DOMAIN g : g[k].dst = d
    <3>1. PICK k \in DOMAIN g : Scattered(t)[d] = SubSeq(out[t], TmpOff(g, k) + 1, TmpOff(g, k) + g[k].range.size)
      BY <1>1, <2>1 DEF Scattered
    <3>2. QED
      BY <3>1, PieceFacts
  <2>2. CASE ~ \E k \in DOMAIN g : g[k].dst = d
    <3>1. Scattered(t)[d] = ds[d]
      BY <1>1, <2>2 DEF Scattered
    <3>2. QED
      BY <1>1, <3>1
  <2>3. QED
    BY <2>1, <2>2
<1>3. Scattered(t) = [d \in 1..Len(ds) |-> Scattered(t)[d]]
  BY <1>1 DEF Scattered
<1>4. Scattered(t) \in [1..Len(ds) -> Seq(Bytes)]
  BY <1>2, <1>3
<1>5. QED
  BY <1>1, <1>4, FunctionIsSeq

\* The locals of memtier_readv after a group.
ScatterRv(t) ==
    [rv[t] EXCEPT !.items = Rest(rv[t].items), !.dsts = Scattered(t),
                  !.coalesced = @ + 1, !.cbytes = @ + call[t].size]

LEMMA ScatterRvFacts ==
    ASSUME ThreadsTyped, NEW t \in Thread, ThreadInv(t), pc[t] = "scatter"
    PROVE  /\ ScatterRv(t) \in RvRecord /\ ScatterRv(t).items = Rest(rv[t].items)
           /\ ScatterRv(t).dsts = Scattered(t) /\ ScatterRv(t).ranges = rv[t].ranges
<1> DEFINE r == rv[t]
           items == Rest(r.items)
           dsts == Scattered(t)
           m == r.coalesced + 1
           n == r.cbytes + call[t].size
<1>1. r \in RvRecord /\ r.items \in Seq(Item) /\ r.items # <<>> /\ Sorted(r.items) /\ call[t].size \in Nat
  BY DEF ThreadsTyped, RvRecord, CallRecord, ThreadInv, AtItsPlace, AtItsGroup
<1>2. items \in Seq(Item) /\ dsts \in Seq(Seq(Bytes)) /\ m \in Nat /\ n \in Nat
  <2>1. items \in Seq(Item)
    BY <1>1, GroupFacts
  <2>2. dsts \in Seq(Seq(Bytes))
    BY ScatteredTyped
  <2>3. \A x \in RvRecord : x.coalesced \in Nat /\ x.cbytes \in Nat
    BY DEF RvRecord
  <2>4. r.coalesced \in Nat /\ r.cbytes \in Nat
    BY <1>1, <2>3
  <2>5. m \in Nat /\ n \in Nat
    BY <1>1, <2>4
  <2>6. QED
    BY <2>1, <2>2, <2>5
<1>3. ScatterRv(t) = [r EXCEPT !.items = items, !.dsts = dsts, !.coalesced = m, !.cbytes = n]
  BY DEF ScatterRv
<1> HIDE DEF r, items, dsts, m, n
<1>4. /\ r = [ranges |-> r.ranges, target |-> r.target, items |-> r.items, dsts |-> r.dsts,
              coalesced |-> r.coalesced, cbytes |-> r.cbytes]
      /\ r.ranges \in Seq(FileRange) /\ r.target \in {"CPU", "GPU"}
  BY <1>1 DEF RvRecord
<1>5. ScatterRv(t) = [ranges |-> r.ranges, target |-> r.target, items |-> items, dsts |-> dsts,
                      coalesced |-> m, cbytes |-> n]
  BY <1>3, <1>4
<1>6. ScatterRv(t) \in RvRecord
  BY <1>2, <1>4, <1>5 DEF RvRecord
<1>7. QED
  BY <1>5, <1>6 DEF r, items, dsts

\* The two ways Scatter ends.
LEMMA ScatterCases ==
    ASSUME NEW t \in Thread, Scatter(t)
    PROVE  \/ /\ rv' = [rv EXCEPT ![t] = ScatterRv(t)]
              /\ IF Rest(rv[t].items) # <<>> THEN ReadGroup(t, Rest(rv[t].items))
                 ELSE Goto(t, "merged") /\ UNCHANGED <<call, copied, out>>
              /\ UNCHANGED <<opt, cacheVars, stats, size, path, chunk, rc, calls, seen, aborted>>
           \/ Return(t, "ERR_CUDA")
  BY Zenon DEF Scatter, Scattered, ScatterRv

LEMMA ScatterControl ==
    ASSUME ControlInv, NEW t \in Thread, Scatter(t)
    PROVE  SharedTyped' /\ ThreadsTyped' /\ ThreadInv(t)'
<1> DEFINE rest == Rest(rv[t].items)
<1>1. SharedTyped /\ ThreadsTyped /\ ThreadInv(t) /\ pc[t] = "scatter"
  BY DEF ControlInv, Scatter
<1>2. SharedTyped' /\ opt' = opt
  BY <1>1, SharedKept DEF Scatter, cacheVars, SharedTyped
<1>3. /\ rv[t].items \in Seq(Item) /\ rv[t].items # <<>> /\ Sorted(rv[t].items)
      /\ Len(out[t]) = call[t].size /\ call[t].op = "readv" /\ copied[t] = call[t].size /\ call[t].size \in Nat
  BY <1>1 DEF ThreadsTyped, RvRecord, CallRecord, ThreadInv, AtItsPlace, AtItsGroup, OutLength
<1>4. CASE Return(t, "ERR_CUDA")
  BY <1>1, <1>2, <1>4, ReturnKeeps
<1>5. CASE /\ rv' = [rv EXCEPT ![t] = ScatterRv(t)]
           /\ IF rest # <<>> THEN ReadGroup(t, rest)
              ELSE Goto(t, "merged") /\ UNCHANGED <<call, copied, out>>
           /\ UNCHANGED <<opt, cacheVars, stats, size, path, chunk, rc, calls, seen, aborted>>
  <2>1. rest \in Seq(Item) /\ Sorted(rest)
    BY <1>3, GroupFacts
  <2>2. ScatterRv(t) \in RvRecord /\ ScatterRv(t).items = rest
    BY <1>1, ScatterRvFacts
  <2> HIDE DEF rest
  <2>3. rv' \in [Thread -> RvRecord] /\ rv'[t].items = rest
    BY <1>1, <1>5, <2>2 DEF ThreadsTyped
  <2>4. CASE rest # <<>>
    <3>1. ReadGroup(t, rest)
      BY <1>5, <2>4
    <3>2. /\ rc' \in [Thread -> {"NONE", "OK", "ERR_IO", "ERR_CUDA"}] /\ seen' \in [Thread -> [File -> Nat]]
          /\ path' = path /\ chunk' = chunk
      BY <1>1, <1>5 DEF ThreadsTyped
    <3>3. ThreadsTyped' /\ ThreadInv(t)'
      BY <1>1, <1>2, <2>1, <2>3, <2>4, <3>1, <3>2, ReadGroupKeeps
    <3>4. QED
      BY <1>2, <3>3
  <2>5. CASE rest = <<>>
    <3>1. ThreadsTyped'
      BY <1>1, <1>5, <2>3, <2>5 DEF ThreadsTyped, Goto
    <3>2. pc'[t] = "merged" /\ UNCHANGED <<call, copied, out>>
      BY <1>1, <1>5, <2>5 DEF ThreadsTyped, Goto
    <3>3. AtItsPlace(t)' /\ ChunkHolds(t)' /\ OutLength(t)' /\ AtItsGroup(t)'
      BY <1>3, <3>2 DEF AtItsPlace, ChunkHolds, OutLength, AtItsGroup, InRead, InPrefetch
    <3>4. QED
      BY <1>2, <3>1, <3>3 DEF ThreadInv
  <2>6. QED
    BY <2>4, <2>5
<1>6. QED
  BY <1>4, <1>5, ScatterCases

LEMMA CompleteReadvControl ==
    ASSUME ControlInv, NEW t \in Thread, CompleteReadv(t)
    PROVE  SharedTyped' /\ ThreadsTyped' /\ ThreadInv(t)'
<1> DEFINE d == [readv_requests |-> 1, original_ranges |-> Len(rv[t].ranges),
                 coalesced_ranges |-> rv[t].coalesced, coalesced_bytes |-> rv[t].cbytes]
<1>1. SharedTyped /\ ThreadsTyped /\ ThreadInv(t) /\ pc[t] = "merged"
  BY DEF ControlInv, CompleteReadv
<1>2. Len(rv[t].ranges) \in Nat /\ rv[t].coalesced \in Nat /\ rv[t].cbytes \in Nat
  BY <1>1 DEF ThreadsTyped, RvRecord
<1>3. \A c \in DOMAIN d : d[c] \in Nat
  BY <1>2
<1>4. SharedTyped'
  BY <1>1, <1>3, TallyTyped, SharedKept DEF SharedTyped, CompleteReadv, cacheVars
<1>5. Len(out[t]) = call[t].size
  BY <1>1 DEF ThreadInv, OutLength, AtItsPlace
<1>6. QED
  BY <1>1, <1>4, <1>5, ReturnKeeps DEF CompleteReadv

LEMMA ProbeControl ==
    ASSUME ControlInv, NEW t \in Thread, Probe(t)
    PROVE  SharedTyped' /\ ThreadsTyped' /\ ThreadInv(t)'
<1>1. SharedTyped /\ ThreadsTyped /\ ThreadInv(t) /\ pc[t] = "probe" /\ call[t].op = "prefetch"
  BY DEF ControlInv, Probe, ThreadInv, AtItsPlace, InPrefetch
<1>2. SharedTyped' /\ out' = out /\ opt' = opt
  BY <1>1, SharedKept DEF Probe, cacheVars, SharedTyped
<1>3. CASE Advance(t, "probe")
  BY <1>1, <1>2, <1>3, AdvanceKeeps DEF InPrefetch, ThreadsTyped
<1>4. CASE Goto(t, "load") /\ UNCHANGED <<call, rv, copied, path, chunk, rc, calls, seen>>
  <2>1. ThreadsTyped'
    BY <1>1, <1>2, <1>4 DEF ThreadsTyped, Goto, InPrefetch
  <2>2. pc'[t] = "load"
    BY <1>1, <1>4 DEF ThreadsTyped, Goto
  <2>3. AtItsPlace(t)' /\ ChunkHolds(t)' /\ OutLength(t)' /\ AtItsGroup(t)'
    BY <1>1, <1>2, <1>4, <2>2
       DEF ThreadInv, AtItsPlace, ChunkHolds, OutLength, AtItsGroup, InRead, InPrefetch
  <2>4. QED
    BY <1>2, <2>1, <2>3 DEF ThreadInv
<1>5. QED
  BY <1>3, <1>4 DEF Probe

LEMMA LoadControl ==
    ASSUME ControlInv, NEW t \in Thread, Load(t)
    PROVE  SharedTyped' /\ ThreadsTyped' /\ ThreadInv(t)'
<1> DEFINE f == call[t].file
           o == CurOff(t) - InChunk(t)
           b == Buffer(f, o, ChunkSize)
           n == BytesRead(f, o, ChunkSize)
<1>1. /\ SharedTyped /\ ThreadsTyped /\ ThreadInv(t) /\ pc[t] = "load" /\ call[t].op = "prefetch"
      /\ copied[t] < call[t].size
  BY DEF ControlInv, Load, ThreadInv, AtItsPlace, InPrefetch
<1>2. SharedTyped' /\ opt' = opt
  BY <1>1, SharedKept DEF Load, cacheVars, SharedTyped
<1>3. CASE Return(t, "ERR_IO")
  BY <1>1, <1>2, <1>3, ReturnKeeps
<1>4. CASE /\ chunk' = [chunk EXCEPT ![t] = [data |-> b, n |-> n]]
           /\ Goto(t, "store")
           /\ UNCHANGED <<call, rv, copied, path, out, rc, seen>>
  <2>1. Holds(KeyOf(t), b, n)
    <3>1. /\ CurOff(t) \div ChunkSize \in Nat /\ KeyOf(t) = <<f, CurOff(t) \div ChunkSize>> /\ f \in File
          /\ o = (CurOff(t) \div ChunkSize) * ChunkSize
      BY <1>1, NeedFacts
    <3>2. QED
      BY <1>1, <3>1, ChunkRead DEF SharedTyped
  <2> HIDE DEF b, n
  <2>2. b \in [1..ChunkSize -> Bytes] /\ n \in 0..ChunkSize
    BY <2>1 DEF Holds, Content
  <2>3. [data |-> b, n |-> n] \in [data : Seq(Bytes), n : 0..ChunkSize]
    BY <2>2, FunctionIsSeq, EngineAssumption
  <2>4. ThreadsTyped'
    BY <1>1, <1>4, <2>3 DEF ThreadsTyped, Goto, InPrefetch
  <2>5. /\ pc'[t] = "store" /\ chunk'[t].data = b /\ chunk'[t].n = n
        /\ call'[t] = call[t] /\ copied'[t] = copied[t]
    BY <1>1, <1>4 DEF ThreadsTyped, Goto
  <2>6. AtItsPlace(t)' /\ OutLength(t)' /\ AtItsGroup(t)'
    BY <1>1, <2>5 DEF ThreadInv, AtItsPlace, OutLength, AtItsGroup, InRead, InPrefetch
  <2>7. ChunkHolds(t)'
    BY <2>1, <2>5, SameChunk DEF ChunkHolds
  <2>8. QED
    BY <1>2, <2>4, <2>6, <2>7 DEF ThreadInv
<1>5. QED
  BY <1>3, <1>4 DEF Load

LEMMA GrowControl ==
    ASSUME ControlInv, NEW f \in File, Grow(f)
    PROVE  ControlInv'
<1>1. SharedTyped'
  BY EngineAssumption DEF ControlInv, Grow, SharedTyped, TableTyped, TableHolds, Holds, cacheVars
<1>2. ThreadsTyped' /\ opt' = opt
  BY DEF ControlInv, Grow, ThreadsTyped, threadVars
<1>3. ASSUME NEW t \in Thread PROVE ThreadInv(t)'
  <2>1. Local(t)' = Local(t)
    BY DEF Grow, threadVars, Local
  <2>2. QED
    BY <1>2, <2>1, ThreadInvKept DEF ControlInv
<1>4. QED
  BY <1>1, <1>2, <1>3 DEF ControlInv

LEMMA InitControl == Init => ControlInv
<1> SUFFICES ASSUME Init PROVE ControlInv
  OBVIOUS
<1>1. SharedTyped
  <2>1. DOMAIN table = {} /\ table = [k \in {} |-> 0]
    BY DEF Init, Dir!DirInit
  <2>2. TableTyped /\ TableHolds
    BY <2>1 DEF TableTyped, TableHolds
  <2>3. size \in [File -> InitialSize..MaxSize] /\ stats \in [Counter -> Nat]
    BY EngineAssumption DEF Init
  <2>4. QED
    BY <2>2, <2>3 DEF Init, SharedTyped
<1>2. ThreadsTyped
  <2>1. NoCall \in CallRecord
    <3>1. (CHOOSE f \in File : TRUE) \in File
      BY EngineAssumption
    <3>2. QED
      BY <3>1 DEF NoCall, CallRecord
  <2>2. NoRanges \in RvRecord
    BY DEF NoRanges, RvRecord
  <2>3. NoChunk \in [data : Seq(Bytes), n : 0..ChunkSize]
    BY EngineAssumption DEF NoChunk
  <2>4. size \in [File -> Nat]
    BY EngineAssumption DEF Init
  <2>5. QED
    BY <2>1, <2>2, <2>3, <2>4 DEF Init, ThreadsTyped
<1>3. ASSUME NEW t \in Thread PROVE ThreadInv(t)
  <2>1. pc[t] = "idle" /\ copied[t] = 0 /\ call[t].size = 0 /\ out[t] = <<>>
    BY DEF Init, NoCall
  <2>2. QED
    BY <2>1 DEF ThreadInv, AtItsPlace, ChunkHolds, OutLength, AtItsGroup, InRead, InPrefetch
<1>4. QED
  BY <1>1, <1>2, <1>3 DEF ControlInv

LEMMA StepControl ==
    ASSUME ControlInv, NEW t \in Thread, StepOf(t)
    PROVE  ControlInv'
<1>1. SharedTyped' /\ ThreadsTyped' /\ ThreadInv(t)'
  BY LookupControl, SelectControl, ServeHitControl, ReadGdsControl, ReadFallbackControl,
     ReadPosixControl, InsertControl, CountControl, CompleteControl, ScatterControl,
     CompleteReadvControl, ProbeControl, LoadControl, BeginControl, BeginReadvControl
     DEF StepOf, Step
<1>2. ASSUME NEW u \in Thread, u # t PROVE ThreadInv(u)'
  BY <1>2, OthersKeep, ThreadInvKept DEF ControlInv
<1>3. QED
  BY <1>1, <1>2 DEF ControlInv

LEMMA StutterControl ==
    ASSUME ControlInv, UNCHANGED vars
    PROVE  ControlInv'
<1>1. SharedTyped'
  BY DEF ControlInv, SharedTyped, TableTyped, TableHolds, Holds, vars, cacheVars
<1>2. ThreadsTyped' /\ opt' = opt
  BY DEF ControlInv, ThreadsTyped, vars, threadVars
<1>3. ASSUME NEW t \in Thread PROVE ThreadInv(t)'
  <2>1. Local(t)' = Local(t)
    BY DEF vars, threadVars, Local
  <2>2. QED
    BY <1>2, <2>1, ThreadInvKept DEF ControlInv
<1>4. QED
  BY <1>1, <1>2, <1>3 DEF ControlInv

\* Every step is a thread's, the growth of a file, or none.
LEMMA NextCases ==
    ASSUME [Next]_vars
    PROVE  \/ \E t \in Thread : StepOf(t)
           \/ \E f \in File : Grow(f)
           \/ UNCHANGED vars
  BY DEF Next, Quiescent, StepOf

LEMMA NextControl == ControlInv /\ [Next]_vars => ControlInv'
  BY NextCases, StepControl, GrowControl, StutterControl

LEMMA EngineControl == Spec => []ControlInv
  BY InitControl, NextControl, PTL DEF Spec

-----------------------------------------------------------------------------
\* Every cached chunk holds its file's bytes as far as valid_size, and no others, whatever
\* the threads read, evict and overwrite while files grow.
THEOREM EngineCacheHoldsFileBytes == Spec => []CacheHoldsFileBytes
<1>1. ControlInv => CacheHoldsFileBytes
  BY DEF ControlInv, SharedTyped, TableHolds, Holds, CacheHoldsFileBytes
<1>2. QED
  BY <1>1, EngineControl, PTL

-----------------------------------------------------------------------------
(* What is delivered.  The GDS stub counts the bytes a file has not got as *)
(* read; the theorems are about contexts without the stub, or whose calls  *)
(* stay within the files.                                                  *)

StubWithinFiles ==
    (\E o \in Options : o.gds = "stub") =>
        \A c \in Call :
            /\ c.op = "read" => EndOf(c) <= InitialSize
            /\ c.op = "readv" => \A i \in 1..Len(c.ranges) : EndOf(c.ranges[i]) <= InitialSize

\* What is in the destination is the file's.
Delivered(t) ==
    call[t].op # "prefetch" =>
        \A i \in 1..Len(out[t]) : out[t][i] = Byte(call[t].file, call[t].offset + i - 1)

\* A call under way, and what is left of memtier_readv, stays within the files.
StubEnds(t) ==
    opt.gds = "stub" /\ call[t].op # "prefetch" /\ pc[t] # "idle" =>
        /\ call[t].offset + call[t].size <= InitialSize
        /\ call[t].op = "readv" => \A i \in 1..Len(rv[t].items) : EndOf(rv[t].items[i].range) <= InitialSize

DeliverInv == \A t \in Thread : Delivered(t) /\ StubEnds(t)

\* The place, among n bytes after the first a, of byte i of all.
LEMMA AfterFirst ==
    ASSUME NEW a \in Nat, NEW n \in Nat, NEW o \in Nat, NEW i \in 1..(a + n), ~(i <= a)
    PROVE  i - a \in 1..n /\ a + (i - a) = i /\ (o + a) + (i - a) - 1 = o + i - 1
  OBVIOUS

\* The bytes needed are appended to those that are there.
LEMMA CopyDelivers ==
    ASSUME ThreadsTyped, NEW t \in Thread, copied[t] < call[t].size, Delivered(t), Len(out[t]) = copied[t],
           NEW data, NEW from \in Nat, CopyTarget(t, data, from), call'[t] = call[t],
           \A i \in (from + 1)..(from + Need(t)) : data[i] \in Bytes,
           \A j \in 1..Need(t) : data[from + j] = Byte(call[t].file, CurOff(t) + j - 1),
           call[t].op # "prefetch"
    PROVE  Delivered(t)'
<1>1. /\ Len(out'[t]) = copied[t] + Need(t)
      /\ \A i \in 1..copied[t] : out'[t][i] = out[t][i]
      /\ \A j \in 1..Need(t) : out'[t][copied[t] + j] = data[from + j]
  BY CopyFacts
<1>2. /\ copied[t] \in Nat /\ Need(t) \in Nat /\ call[t].offset \in Nat
      /\ CurOff(t) = call[t].offset + copied[t]
  BY NeedFacts, EngineAssumption
<1>3. ASSUME NEW i \in 1..(copied[t] + Need(t))
      PROVE  out'[t][i] = Byte(call[t].file, call[t].offset + i - 1)
  <2>1. CASE i <= copied[t]
    <3>1. i \in 1..copied[t]
      BY <1>2, <2>1
    <3>2. QED
      BY <1>1, <3>1 DEF Delivered
  <2>2. CASE ~(i <= copied[t])
    <3> DEFINE j == i - copied[t]
    <3>1. j \in 1..Need(t) /\ copied[t] + j = i /\ CurOff(t) + j - 1 = call[t].offset + i - 1
      <4>1. /\ j \in 1..Need(t) /\ copied[t] + j = i
            /\ (call[t].offset + copied[t]) + j - 1 = call[t].offset + i - 1
        BY <1>2, <2>2, AfterFirst
      <4>2. QED
        BY <1>2, <4>1
    <3> HIDE DEF j
    <3>2. out'[t][copied[t] + j] = Byte(call[t].file, CurOff(t) + j - 1)
      BY <1>1, <3>1
    <3>3. QED
      BY <3>1, <3>2
  <2>3. QED
    BY <2>1, <2>2
<1>4. QED
  BY <1>1, <1>3 DEF Delivered

\* A buffer of the bytes needed, all of which the file has.
LEMMA BufferDelivers ==
    ASSUME ControlInv, NEW t \in Thread, pc[t] \in {"gds", "fallback"}, Delivered(t),
           CopyTarget(t, Buffer(call[t].file, CurOff(t), Need(t)), 0), Advance(t, "lookup"),
           CurOff(t) + Need(t) <= size[call[t].file]
    PROVE  Delivered(t)'
<1> DEFINE f == call[t].file
           b == Buffer(f, CurOff(t), Need(t))
<1>1. /\ ThreadsTyped /\ size \in [File -> InitialSize..MaxSize]
      /\ copied[t] < call[t].size /\ call[t].op # "prefetch" /\ Len(out[t]) = copied[t]
  BY DEF ControlInv, SharedTyped, ThreadInv, AtItsPlace, OutLength, InRead
<1>2. Need(t) \in Nat /\ CurOff(t) \in Nat /\ f \in File
  BY <1>1, NeedFacts, EngineAssumption
<1>3. size[f] \in Nat /\ CurOff(t) + Need(t) <= size[f]
  BY <1>1, <1>2, EngineAssumption
<1>4. CopyTarget(t, b, 0)
  OBVIOUS
<1> HIDE DEF b, f
<1>5. ASSUME NEW i \in 1..Need(t) PROVE b[i] \in Bytes /\ b[i] = Byte(f, CurOff(t) + i - 1)
  <2>1. CurOff(t) + i <= size[f]
    BY <1>2, <1>3
  <2>2. QED
    BY <1>1, <1>2, <2>1, ByteRead DEF b
<1>6. /\ \A i \in (0 + 1)..(0 + Need(t)) : b[i] \in Bytes
      /\ \A j \in 1..Need(t) : b[0 + j] = Byte(call[t].file, CurOff(t) + j - 1)
  BY <1>2, <1>5 DEF f
<1>7. call'[t] = call[t]
  BY DEF Advance
<1>8. QED
  BY <1>1, <1>4, <1>6, <1>7, CopyDelivers

LEMMA ServeHitDelivers ==
    ASSUME ControlInv, DeliverInv, NEW t \in Thread, ServeHit(t)
    PROVE  Delivered(t)'
<1>1. /\ ThreadsTyped /\ pc[t] = "hit" /\ Delivered(t)
      /\ copied[t] < call[t].size /\ call[t].op # "prefetch" /\ Len(out[t]) = copied[t]
      /\ Holds(KeyOf(t), chunk[t].data, chunk[t].n) /\ InChunk(t) + Need(t) <= chunk[t].n
  BY DEF ControlInv, DeliverInv, ServeHit, ThreadInv, AtItsPlace, ChunkHolds, OutLength, InRead
<1>2. CASE CopyTarget(t, chunk[t].data, InChunk(t)) /\ Advance(t, "lookup")
  <2> DEFINE q == CurOff(t) \div ChunkSize
             n == chunk[t].n
  <2>1. /\ CurOff(t) \in Nat /\ InChunk(t) \in Nat /\ Need(t) \in Nat /\ InChunk(t) + Need(t) <= ChunkSize
        /\ KeyOf(t) = <<call[t].file, q>> /\ q \in Nat /\ q * ChunkSize = CurOff(t) - InChunk(t)
        /\ ChunkSize \in Nat /\ n \in Nat
    <3>1. /\ CurOff(t) \in Nat /\ InChunk(t) \in 0..(ChunkSize - 1) /\ Need(t) \in 1..(ChunkSize - InChunk(t))
          /\ KeyOf(t) = <<call[t].file, q>> /\ q \in Nat /\ q * ChunkSize = CurOff(t) - InChunk(t)
      BY <1>1, NeedFacts
    <3>2. ChunkSize \in Nat /\ n \in 0..ChunkSize
      BY <1>1, EngineAssumption DEF Holds
    <3> HIDE DEF q, n
    <3>3. /\ InChunk(t) \in Nat /\ Need(t) \in Nat /\ InChunk(t) + Need(t) <= ChunkSize /\ n \in Nat
      BY <3>1, <3>2
    <3>4. QED
      BY <3>1, <3>2, <3>3
  <2> HIDE DEF q
  <2> DEFINE o == q * ChunkSize
  <2>2. /\ chunk[t].data \in [1..ChunkSize -> Bytes]
        /\ \A i \in 1..ChunkSize : i <= n => chunk[t].data[i] = Byte(call[t].file, o + i - 1)
    <3>1. chunk[t].data \in Content
      BY <1>1 DEF Holds
    <3>2. ASSUME NEW i \in 1..ChunkSize, i <= n PROVE chunk[t].data[i] = Byte(call[t].file, o + i - 1)
      <4>1. chunk[t].data[i] = Byte(KeyOf(t)[1], KeyOf(t)[2] * ChunkSize + i - 1)
        BY <1>1, <3>2 DEF Holds
      <4>2. KeyOf(t)[1] = call[t].file /\ KeyOf(t)[2] = q
        BY <2>1
      <4>3. QED
        BY <4>1, <4>2
    <3>3. QED
      BY <3>1, <3>2 DEF Content
  <2>7. o = CurOff(t) - InChunk(t) /\ InChunk(t) + Need(t) <= n
    <3>1. InChunk(t) + Need(t) <= n
      BY <1>1
    <3>2. QED
      BY <2>1, <3>1
  <2> HIDE DEF n, o
  <2>3. \A i \in (InChunk(t) + 1)..(InChunk(t) + Need(t)) : chunk[t].data[i] \in Bytes
    BY <2>1, <2>2
  <2>4. ASSUME NEW j \in 1..Need(t)
        PROVE  chunk[t].data[InChunk(t) + j] = Byte(call[t].file, CurOff(t) + j - 1)
    <3>1. /\ InChunk(t) + j \in 1..ChunkSize /\ InChunk(t) + j <= n
          /\ o + (InChunk(t) + j) - 1 = CurOff(t) + j - 1
      BY <2>1, <2>7
    <3>2. QED
      BY <2>2, <3>1
  <2>5. call'[t] = call[t]
    BY <1>2 DEF Advance
  <2>6. QED
    BY <1>1, <1>2, <2>1, <2>3, <2>4, <2>5, CopyDelivers
<1>3. CASE Abort(t, "ERR_CUDA")
  BY <1>1, <1>3 DEF Abort, Return, Delivered
<1>4. QED
  BY <1>2, <1>3 DEF ServeHit

LEMMA ReadGdsDelivers ==
    ASSUME ControlInv, DeliverInv, NEW t \in Thread, ReadGds(t)
    PROVE  Delivered(t)'
<1> DEFINE f == call[t].file
<1>1. /\ ThreadsTyped /\ pc[t] = "gds" /\ Delivered(t) /\ StubEnds(t) /\ size \in [File -> InitialSize..MaxSize]
      /\ copied[t] < call[t].size /\ call[t].op # "prefetch"
  BY DEF ControlInv, SharedTyped, DeliverInv, ReadGds, ThreadInv, AtItsPlace, InRead
<1>2. CASE /\ GdsSucceeds(f, CurOff(t), Need(t)) /\ Advance(t, "lookup")
           /\ CopyTarget(t, Buffer(f, CurOff(t), Need(t)), 0)
  <2>1. /\ Need(t) \in Nat \ {0} /\ CurOff(t) \in Nat /\ f \in File /\ size[f] \in Nat /\ InitialSize <= size[f]
        /\ CurOff(t) + Need(t) <= call[t].offset + call[t].size /\ InitialSize \in Nat
        /\ call[t].offset + call[t].size \in Nat
    BY <1>1, NeedFacts, EngineAssumption
  <2>2. CASE opt.gds = "stub"
    <3>1. call[t].offset + call[t].size <= InitialSize
      BY <1>1, <2>2 DEF StubEnds
    <3>2. CurOff(t) + Need(t) <= size[f]
      BY <2>1, <3>1
    <3>3. QED
      BY <1>1, <1>2, <3>2, BufferDelivers
  <2>3. CASE BytesRead(f, CurOff(t), Need(t)) = Need(t)
    <3>1. CurOff(t) + Need(t) <= size[f]
      <4>1. Need(t) \in 1..Need(t) /\ Need(t) \in Nat /\ Need(t) <= BytesRead(f, CurOff(t), Need(t))
        BY <2>1, <2>3
      <4>2. QED
        BY <1>1, <2>1, <4>1, ByteRead
    <3>2. QED
      BY <1>1, <1>2, <3>1, BufferDelivers
  <2>4. QED
    BY <1>2, <2>2, <2>3 DEF GdsSucceeds
<1>3. CASE Abort(t, "ERR_CUDA")
  BY <1>1, <1>3 DEF Abort, Return, Delivered
<1>4. CASE UNCHANGED <<call, out>>
  BY <1>1, <1>4 DEF Delivered
<1>5. QED
  BY <1>2, <1>3, <1>4 DEF ReadGds

LEMMA ReadFallbackDelivers ==
    ASSUME ControlInv, DeliverInv, NEW t \in Thread, ReadFallback(t)
    PROVE  Delivered(t)'
<1> DEFINE f == call[t].file
<1>1. /\ ThreadsTyped /\ pc[t] = "fallback" /\ Delivered(t) /\ size \in [File -> InitialSize..MaxSize]
      /\ copied[t] < call[t].size /\ call[t].op # "prefetch"
  BY DEF ControlInv, SharedTyped, DeliverInv, ReadFallback, ThreadInv, AtItsPlace, InRead
<1>2. CASE /\ BytesRead(f, CurOff(t), Need(t)) = Need(t) /\ Advance(t, "lookup")
           /\ CopyTarget(t, Buffer(f, CurOff(t), Need(t)), 0)
  <2>1. Need(t) \in Nat \ {0} /\ CurOff(t) \in Nat /\ f \in File
    BY <1>1, NeedFacts, EngineAssumption
  <2>2. CurOff(t) + Need(t) <= size[f]
    <3>1. Need(t) \in 1..Need(t) /\ Need(t) \in Nat /\ Need(t) <= BytesRead(f, CurOff(t), Need(t))
      BY <1>2, <2>1
    <3>2. QED
      BY <1>1, <2>1, <3>1, ByteRead
  <2>3. QED
    BY <1>1, <1>2, <2>2, BufferDelivers
<1>3. ASSUME NEW code, Abort(t, code) PROVE Delivered(t)'
  BY <1>1, <1>3 DEF Abort, Return, Delivered
<1>4. QED
  BY <1>2, <1>3 DEF ReadFallback

LEMMA ReadPosixDelivers ==
    ASSUME ControlInv, DeliverInv, NEW t \in Thread, ReadPosix(t)
    PROVE  Delivered(t)'
<1> DEFINE f == call[t].file
           n == BytesRead(f, ReadOff(t), ReadSize(t))
           b == Buffer(f, ReadOff(t), ReadSize(t))
<1>1. /\ ThreadsTyped /\ pc[t] = "posix" /\ Delivered(t) /\ size \in [File -> InitialSize..MaxSize]
      /\ copied[t] < call[t].size /\ call[t].op # "prefetch" /\ Len(out[t]) = copied[t]
  BY DEF ControlInv, SharedTyped, DeliverInv, ReadPosix, ThreadInv, AtItsPlace, OutLength, InRead
<1>2. CASE n >= SrcOff(t) + Need(t) /\ CopyTarget(t, b, SrcOff(t)) /\ call'[t] = call[t]
  <2>1. /\ ReadOff(t) \in Nat /\ ReadSize(t) \in Nat /\ SrcOff(t) \in Nat /\ Need(t) \in Nat
        /\ SrcOff(t) + Need(t) <= ReadSize(t) /\ ReadOff(t) + SrcOff(t) = CurOff(t) /\ f \in File
    BY <1>1, PosixRange
  <2>2. n \in 0..ReadSize(t)
    BY <1>1, <2>1, BufferFacts
  <2>3. \A i \in 1..ReadSize(t) :
            /\ b[i] \in Bytes
            /\ i <= n => b[i] = Byte(f, ReadOff(t) + i - 1)
    BY <1>1, <2>1, ByteRead
  <2> HIDE DEF b, n, f
  <2>4. ASSUME NEW j \in 1..Need(t) PROVE b[SrcOff(t) + j] = Byte(f, CurOff(t) + j - 1)
    <3>1. SrcOff(t) + j \in 1..ReadSize(t) /\ SrcOff(t) + j <= n
      BY <1>2, <2>1, <2>2
    <3>2. ReadOff(t) + (SrcOff(t) + j) - 1 = CurOff(t) + j - 1
      BY <2>1
    <3>3. QED
      BY <2>3, <3>1, <3>2
  <2>5. \A i \in (SrcOff(t) + 1)..(SrcOff(t) + Need(t)) : b[i] \in Bytes
    <3>1. \A i \in (SrcOff(t) + 1)..(SrcOff(t) + Need(t)) : i \in 1..ReadSize(t)
      BY <2>1
    <3>2. QED
      BY <2>3, <3>1
  <2>6. QED
    BY <1>1, <1>2, <2>1, <2>4, <2>5, CopyDelivers DEF f
<1>3. ASSUME NEW code, Abort(t, code) PROVE Delivered(t)'
  BY <1>1, <1>3 DEF Abort, Return, Delivered
<1>4. QED
  BY <1>2, <1>3 DEF ReadPosix
\* Only a call's beginning and memtier_readv's turn to the next group change what do_read_impl
\* was asked for.
LEMMA CallKept ==
    ASSUME NEW t \in Thread, Step(t), ~Scatter(t)
    PROVE  call'[t] = call[t] /\ rv'[t] = rv[t] /\ seen'[t] = seen[t] /\ opt' = opt /\ pc[t] # "idle"
<1>1. CASE Lookup(t) \/ Select(t) \/ Admit(t) \/ Store(t)
  BY <1>1 DEF Lookup, Select, Admit, Store
<1>2. CASE ServeHit(t) \/ ReadGds(t)
  BY <1>2 DEF ServeHit, ReadGds, Abort, Return, Advance
<1>3. CASE ReadFallback(t) \/ ReadPosix(t)
  BY <1>3 DEF ReadFallback, ReadPosix, Abort, Return, Advance
<1>4. CASE Count(t) \/ TallyPrefetch(t)
  BY <1>4 DEF Count, TallyPrefetch, Advance
<1>5. CASE Complete(t) \/ CompleteReadv(t)
  BY <1>5 DEF Complete, CompleteReadv, Return
<1>6. CASE Probe(t) \/ Load(t)
  BY <1>6 DEF Probe, Load, Return, Advance
<1>7. QED
  BY <1>1, <1>2, <1>3, <1>4, <1>5, <1>6 DEF Step

\* Only the four steps that copy write to the destination.
LEMMA OutKept ==
    ASSUME NEW t \in Thread,
           \/ Lookup(t) \/ Select(t) \/ Admit(t) \/ Count(t) \/ Complete(t) \/ CompleteReadv(t)
           \/ Probe(t) \/ Load(t) \/ Store(t) \/ TallyPrefetch(t)
    PROVE  out'[t] = out[t] /\ call'[t] = call[t]
<1>1. CASE Lookup(t) \/ Select(t) \/ Admit(t) \/ Store(t)
  BY <1>1 DEF Lookup, Select, Admit, Store
<1>2. CASE Count(t) \/ TallyPrefetch(t)
  BY <1>2 DEF Count, TallyPrefetch, Advance
<1>3. CASE Complete(t) \/ CompleteReadv(t)
  BY <1>3 DEF Complete, CompleteReadv, Return
<1>4. CASE Probe(t) \/ Load(t)
  BY <1>4 DEF Probe, Load, Return, Advance
<1>5. QED
  BY <1>1, <1>2, <1>3, <1>4

\* If every item lies within the files, so do the first group's read and the items after it.
LEMMA GroupEnds ==
    ASSUME NEW s \in Seq(Item), s # <<>>, Sorted(s), \A i \in 1..Len(s) : EndOf(s[i].range) <= InitialSize
    PROVE  /\ GroupRead(Group(s)).offset + GroupRead(Group(s)).size <= InitialSize
           /\ \A i \in 1..Len(Rest(s)) : EndOf(Rest(s)[i].range) <= InitialSize
<1> DEFINE n == GroupLen(s)
           g == Group(s)
<1>1. /\ n \in 1..Len(s) /\ Len(g) = n /\ Len(s) \in Nat
      /\ \A k \in 1..n : g[k] = s[k] /\ s[k] \in Item
      /\ Len(Rest(s)) = Len(s) - n
      /\ \A k \in 1..(Len(s) - n) : Rest(s)[k] = s[n + k]
  BY GroupFacts
<1> HIDE DEF n, g
<1>2. GroupRead(g).offset + GroupRead(g).size <= InitialSize
  <2>1. g[1] = s[1] /\ g[Len(g)] = s[n] /\ s[1] \in Item /\ s[n] \in Item
    BY <1>1
  <2>2. s[1].range.offset \in Nat /\ EndOf(s[n].range) \in Nat /\ EndOf(s[n].range) <= InitialSize
    BY <1>1, <2>1 DEF Item, FileRange, EndOf
  <2>3. GroupRead(g).offset = s[1].range.offset /\ GroupRead(g).size = EndOf(s[n].range) - s[1].range.offset
    BY <2>1 DEF GroupRead
  <2>4. QED
    BY <2>2, <2>3, EngineAssumption
<1>3. ASSUME NEW i \in 1..Len(Rest(s)) PROVE EndOf(Rest(s)[i].range) <= InitialSize
  <2>1. i \in 1..(Len(s) - n) /\ n + i \in 1..Len(s)
    BY <1>1
  <2>2. QED
    BY <1>1, <2>1
<1>4. QED
  BY <1>2, <1>3 DEF g

\* A group's read begins with nothing delivered.
LEMMA ReadGroupDelivers ==
    ASSUME ThreadsTyped, NEW t \in Thread, NEW s \in Seq(Item), s # <<>>, Sorted(s), ReadGroup(t, s),
           rv'[t].items = s,
           opt'.gds = "stub" => \A i \in 1..Len(s) : EndOf(s[i].range) <= InitialSize
    PROVE  Delivered(t)' /\ StubEnds(t)'
<1>1. call'[t] = GroupRead(Group(s)) /\ out'[t] = <<>>
  BY DEF ReadGroup, ThreadsTyped
<1>2. Delivered(t)'
  BY <1>1 DEF Delivered
<1>3. ASSUME opt'.gds = "stub"
      PROVE  /\ call'[t].offset + call'[t].size <= InitialSize
             /\ \A i \in 1..Len(rv'[t].items) : EndOf(rv'[t].items[i].range) <= InitialSize
  BY <1>1, <1>3, GroupEnds
<1>4. QED
  BY <1>2, <1>3 DEF StubEnds, EndOf

LEMMA BeginDelivers ==
    ASSUME StubWithinFiles, ControlInv, NEW t \in Thread, NEW c \in Call, Begin(t, c)
    PROVE  Delivered(t)' /\ StubEnds(t)'
<1>1. call'[t] = c /\ out'[t] = <<>> /\ opt' = opt /\ opt \in Options /\ c.op # "readv"
  BY DEF Begin, ControlInv, SharedTyped, ThreadsTyped
<1>2. Delivered(t)'
  BY <1>1 DEF Delivered
<1>3. c.op \in {"read", "prefetch"}
  BY <1>1, CallAssumption
<1>4. ASSUME opt.gds = "stub", c.op # "prefetch" PROVE c.offset + c.size <= InitialSize
  BY <1>1, <1>3, <1>4 DEF StubWithinFiles, EndOf
<1>5. QED
  BY <1>1, <1>2, <1>4 DEF StubEnds

LEMMA BeginReadvDelivers ==
    ASSUME StubWithinFiles, ControlInv, NEW t \in Thread, NEW c \in Call, BeginReadv(t, c)
    PROVE  Delivered(t)' /\ StubEnds(t)'
<1>1. ThreadsTyped /\ opt' = opt /\ opt \in Options /\ c.op = "readv"
  BY DEF BeginReadv, ControlInv, SharedTyped
<1>2. PICK s \in SortedItems(c.ranges) :
          /\ ReadGroup(t, s)
          /\ rv' = [rv EXCEPT ![t] =
                        [ranges |-> c.ranges, target |-> c.target, items |-> s,
                         dsts |-> [d \in 1..Len(s) |-> <<>>], coalesced |-> 0, cbytes |-> 0]]
  BY DEF BeginReadv
<1>3. rv'[t].items = s
  BY <1>1, <1>2, BeginRv
<1>4. c.ranges \in Seq(FileRange) /\ c.ranges # <<>>
  BY <1>1, ReadvRanges
<1>5. /\ s \in Seq(Item) /\ s # <<>> /\ Sorted(s)
      /\ \A i \in 1..Len(s) : s[i].dst \in 1..Len(c.ranges) /\ s[i].range = c.ranges[s[i].dst]
  BY <1>4, SortedItemsFacts
<1>6. opt'.gds = "stub" => \A i \in 1..Len(s) : EndOf(s[i].range) <= InitialSize
  BY <1>1, <1>5 DEF StubWithinFiles
<1>7. QED
  BY <1>1, <1>2, <1>3, <1>5, <1>6, ReadGroupDelivers

LEMMA ScatterDelivers ==
    ASSUME ControlInv, DeliverInv, NEW t \in Thread, Scatter(t)
    PROVE  Delivered(t)' /\ StubEnds(t)'
<1> DEFINE s == rv[t].items
<1>1. /\ ThreadsTyped /\ ThreadInv(t) /\ pc[t] = "scatter" /\ Delivered(t) /\ StubEnds(t)
      /\ call[t].op = "readv" /\ s # <<>> /\ Sorted(s) /\ s \in Seq(Item)
  BY DEF ControlInv, DeliverInv, Scatter, ThreadInv, AtItsPlace, AtItsGroup, ThreadsTyped, RvRecord
<1>2. CASE /\ rv' = [rv EXCEPT ![t] = ScatterRv(t)]
           /\ IF Rest(s) # <<>> THEN ReadGroup(t, Rest(s))
              ELSE Goto(t, "merged") /\ UNCHANGED <<call, copied, out>>
           /\ UNCHANGED <<opt, cacheVars, stats, size, path, chunk, rc, calls, seen, aborted>>
  <2>1. rv'[t].items = Rest(s) /\ opt' = opt
    BY <1>1, <1>2, ScatterRvFacts DEF ThreadsTyped
  <2>2. opt.gds = "stub" => \A i \in 1..Len(s) : EndOf(s[i].range) <= InitialSize
    BY <1>1 DEF StubEnds
  <2>3. opt.gds = "stub" => \A i \in 1..Len(Rest(s)) : EndOf(Rest(s)[i].range) <= InitialSize
    BY <1>1, <2>2, GroupEnds
  <2>4. CASE Rest(s) # <<>>
    <3>1. Rest(s) \in Seq(Item) /\ Sorted(Rest(s))
      BY <1>1, GroupFacts
    <3>2. QED
      BY <1>1, <1>2, <2>1, <2>3, <2>4, <3>1, ReadGroupDelivers
  <2>5. CASE Rest(s) = <<>>
    <3>1. call'[t] = call[t] /\ out'[t] = out[t]
      BY <1>2, <2>5
    <3>2. Delivered(t)'
      BY <1>1, <3>1 DEF Delivered
    <3>3. QED
      BY <1>1, <2>1, <2>3, <3>1, <3>2 DEF StubEnds
  <2>6. QED
    BY <2>4, <2>5
<1>3. CASE Return(t, "ERR_CUDA")
  BY <1>1, <1>3 DEF Return, Goto, Delivered, StubEnds, ThreadsTyped
<1>4. QED
  BY <1>2, <1>3, ScatterCases

LEMMA StepDelivers ==
    ASSUME StubWithinFiles, ControlInv, DeliverInv, NEW t \in Thread, StepOf(t)
    PROVE  Delivered(t)' /\ StubEnds(t)'
<1>1. CASE Step(t) /\ ~Scatter(t)
  <2>1. StubEnds(t)'
    BY <1>1, CallKept DEF StubEnds, DeliverInv
  <2>2. CASE \/ Lookup(t) \/ Select(t) \/ Admit(t) \/ Count(t) \/ Complete(t) \/ CompleteReadv(t)
             \/ Probe(t) \/ Load(t) \/ Store(t) \/ TallyPrefetch(t)
    BY <2>1, <2>2, OutKept DEF Delivered, DeliverInv
  <2>3. QED
    BY <1>1, <2>1, <2>2, ServeHitDelivers, ReadGdsDelivers, ReadFallbackDelivers, ReadPosixDelivers DEF Step
<1>2. QED
  BY <1>1, ScatterDelivers, BeginDelivers, BeginReadvDelivers DEF StepOf

LEMMA DeliverKept ==
    ASSUME NEW u \in Thread, Delivered(u), StubEnds(u), Local(u)' = Local(u), opt' = opt
    PROVE  Delivered(u)' /\ StubEnds(u)'
  BY DEF Local, Delivered, StubEnds

LEMMA NextDelivers ==
    ASSUME StubWithinFiles, ControlInv, DeliverInv, [Next]_vars
    PROVE  DeliverInv'
<1>1. ASSUME NEW t \in Thread, StepOf(t) PROVE DeliverInv'
  <2>1. ASSUME NEW u \in Thread, u # t PROVE Delivered(u)' /\ StubEnds(u)'
    <3>1. Local(u)' = Local(u) /\ opt' = opt
      BY <1>1, <2>1, OthersKeep DEF ControlInv
    <3>2. QED
      BY <3>1, DeliverKept DEF DeliverInv
  <2>2. QED
    BY <1>1, <2>1, StepDelivers DEF DeliverInv
<1>2. CASE UNCHANGED vars \/ \E f \in File : Grow(f)
  <2>1. \A u \in Thread : Local(u)' = Local(u) /\ opt' = opt
    BY <1>2 DEF Grow, vars, threadVars, Local
  <2>2. QED
    BY <2>1, DeliverKept DEF DeliverInv
<1>3. QED
  BY <1>1, <1>2, NextCases

LEMMA InitDelivers == Init => DeliverInv
  BY DEF Init, DeliverInv, Delivered, StubEnds

LEMMA EngineDelivers == ASSUME StubWithinFiles PROVE Spec => []DeliverInv
<1>1. ControlInv /\ DeliverInv /\ [Next]_vars => DeliverInv'
  BY NextDelivers
<1>2. QED
  BY <1>1, InitDelivers, EngineControl, PTL DEF Spec

-----------------------------------------------------------------------------
\* do_read_impl writes to its destination the file's bytes at the offsets asked for and no
\* others, and returns MEMTIER_OK only with all of them, whichever path serves each chunk.
THEOREM EngineReadsDeliver == ASSUME StubWithinFiles PROVE Spec => []ReadsDeliverFileBytes
<1>1. ASSUME ControlInv, DeliverInv, NEW t \in Thread, call[t].op # "prefetch"
      PROVE  /\ \A i \in 1..Len(out[t]) : out[t][i] = Wanted(call[t])[i]
             /\ pc[t] = "idle" /\ rc[t] = "OK" => out[t] = Wanted(call[t])
  <2>1. /\ out[t] \in Seq(Bytes) /\ Len(out[t]) <= call[t].size /\ call[t].size \in Nat
        /\ pc[t] = "idle" /\ rc[t] = "OK" => Len(out[t]) = call[t].size
        /\ \A i \in 1..Len(out[t]) : out[t][i] = Byte(call[t].file, call[t].offset + i - 1)
    BY <1>1 DEF ControlInv, ThreadsTyped, CallRecord, ThreadInv, OutLength, DeliverInv, Delivered
  <2>2. Len(out[t]) \in Nat /\ \A i \in 1..Len(out[t]) : i \in 1..call[t].size
    BY <2>1
  <2>3. \A i \in 1..Len(out[t]) : out[t][i] = Wanted(call[t])[i]
    BY <2>1, <2>2 DEF Wanted
  <2>4. ASSUME Len(out[t]) = call[t].size PROVE out[t] = Wanted(call[t])
    <3>1. out[t] = [i \in 1..Len(out[t]) |-> out[t][i]]
      BY <2>1
    <3>2. Wanted(call[t]) = [i \in 1..Len(out[t]) |-> Wanted(call[t])[i]]
      BY <2>4 DEF Wanted
    <3>3. QED
      BY <2>3, <3>1, <3>2
  <2>5. QED
    BY <2>1, <2>3, <2>4
<1>2. ControlInv /\ DeliverInv => ReadsDeliverFileBytes
  BY <1>1 DEF ReadsDeliverFileBytes
<1>3. QED
  BY <1>2, EngineControl, EngineDelivers, PTL
-----------------------------------------------------------------------------
(* memtier_readv.                                                          *)

\* Every item is one of the ranges, with its own destination; a destination is filled, or
\* its item is still to come.
Filled(t) ==
    call[t].op = "readv" /\ (pc[t] # "idle" \/ rc[t] = "OK") =>
        /\ Len(rv[t].dsts) = Len(rv[t].ranges)
        /\ \A i \in 1..Len(rv[t].items) :
               /\ rv[t].items[i].dst \in 1..Len(rv[t].ranges)
               /\ rv[t].items[i].range = rv[t].ranges[rv[t].items[i].dst]
        /\ \A d \in 1..Len(rv[t].ranges) :
               \/ rv[t].dsts[d] = Wanted(rv[t].ranges[d])
               \/ \E i \in 1..Len(rv[t].items) : rv[t].items[i].dst = d
        /\ pc[t] \in {"merged", "idle"} => rv[t].items = <<>>

ReadvInv == \A t \in Thread : Filled(t)

\* Only memtier_readv's own steps end it successfully.
LEMMA EndsMerged ==
    ASSUME ThreadsTyped, NEW t \in Thread, Step(t), ~Scatter(t), call[t].op = "readv",
           pc'[t] = "merged" \/ (pc'[t] = "idle" /\ rc'[t] = "OK")
    PROVE  pc[t] = "merged"
<1>1. CASE Lookup(t) \/ Admit(t) \/ Store(t)
  BY <1>1 DEF Lookup, Admit, Store, Goto, ThreadsTyped
<1>2. CASE Select(t)
  BY <1>2 DEF Select, Goto, ThreadsTyped
<1>3. CASE ServeHit(t) \/ ReadGds(t)
  BY <1>3 DEF ServeHit, ReadGds, Abort, Return, Advance, Goto, ThreadsTyped
<1>4. CASE ReadFallback(t) \/ ReadPosix(t)
  BY <1>4 DEF ReadFallback, ReadPosix, Abort, Return, Advance, Goto, ThreadsTyped
<1>5. CASE Count(t) \/ TallyPrefetch(t)
  BY <1>5 DEF Count, TallyPrefetch, Advance, Goto, ThreadsTyped
<1>6. CASE Complete(t)
  BY <1>6 DEF Complete, Goto, ThreadsTyped
<1>7. CASE Probe(t) \/ Load(t)
  BY <1>7 DEF Probe, Load, Return, Advance, Goto, ThreadsTyped
<1>8. QED
  BY <1>1, <1>2, <1>3, <1>4, <1>5, <1>6, <1>7 DEF Step, CompleteReadv

\* What is copied out of the group's buffer is the item's range.
LEMMA PieceWanted ==
    ASSUME ControlInv, DeliverInv, NEW t \in Thread, pc[t] = "scatter", NEW k \in DOMAIN Group(rv[t].items)
    PROVE  LET g == Group(rv[t].items)
           IN  SubSeq(out[t], TmpOff(g, k) + 1, TmpOff(g, k) + g[k].range.size) = Wanted(g[k].range)
<1> DEFINE s == rv[t].items
           g == Group(s)
           r == g[k].range
           n == r.size
           o == TmpOff(g, k)
           p == SubSeq(out[t], o + 1, o + n)
<1>1. /\ ThreadsTyped /\ ThreadInv(t) /\ Delivered(t)
      /\ call[t].op = "readv" /\ s # <<>> /\ Sorted(s) /\ s \in Seq(Item) /\ call[t] = GroupRead(g)
  BY DEF ControlInv, DeliverInv, ThreadInv, AtItsPlace, AtItsGroup, ThreadsTyped, RvRecord
<1>2. Len(out[t]) = call[t].size
  BY <1>1 DEF ThreadInv, OutLength, AtItsPlace
<1>3. p \in Seq(Bytes) /\ Len(p) = n /\ \A i \in 1..n : p[i] = out[t][o + i]
  BY <1>1, PieceFacts
<1>4. /\ o \in Nat /\ n \in Nat /\ o + n <= call[t].size /\ r.file = call[t].file
      /\ call[t].offset + o = r.offset
  <2>1. k \in 1..GroupLen(s)
    BY <1>1, GroupReadFacts
  <2>2. QED
    BY <1>1, <2>1, GroupReadFacts
<1>5. call[t].offset \in Nat /\ call[t].size \in Nat
  BY <1>1 DEF ThreadsTyped, CallRecord
<1> HIDE DEF p, n, o, g
<1>6. ASSUME NEW i \in 1..n PROVE p[i] = Byte(r.file, r.offset + i - 1)
  <2>1. o + i \in 1..Len(out[t])
    BY <1>2, <1>4, <1>5
  <2>2. out[t][o + i] = Byte(call[t].file, call[t].offset + (o + i) - 1)
    BY <1>1, <2>1 DEF Delivered
  <2>3. call[t].offset + (o + i) - 1 = r.offset + i - 1
    BY <1>4, <1>5
  <2>4. QED
    BY <1>3, <1>4, <2>2, <2>3
<1>7. p = [i \in 1..n |-> p[i]]
  BY <1>3
<1>8. p = Wanted(r)
  BY <1>6, <1>7 DEF Wanted, n
<1>9. QED
  BY <1>8 DEF p, o, n, g

\* A destination after the group is scattered.
LEMMA ScatteredWanted ==
    ASSUME ControlInv, DeliverInv, ReadvInv, NEW t \in Thread, pc[t] = "scatter",
           NEW d \in 1..Len(rv[t].ranges)
    PROVE  \/ Scattered(t)[d] = Wanted(rv[t].ranges[d])
           \/ \E i \in 1..Len(Rest(rv[t].items)) : Rest(rv[t].items)[i].dst = d
<1> DEFINE s == rv[t].items
           g == Group(s)
           n == GroupLen(s)
           R == rv[t].ranges
<1>1. /\ ThreadsTyped /\ Filled(t) /\ call[t].op = "readv" /\ s # <<>> /\ Sorted(s) /\ s \in Seq(Item)
  BY DEF ControlInv, ReadvInv, ThreadInv, AtItsPlace, AtItsGroup, ThreadsTyped, RvRecord
<1>2. /\ Len(rv[t].dsts) = Len(R)
      /\ \A i \in 1..Len(s) : s[i].range = R[s[i].dst]
      /\ rv[t].dsts[d] = Wanted(R[d]) \/ \E i \in 1..Len(s) : s[i].dst = d
  BY <1>1 DEF Filled
<1>3. d \in DOMAIN rv[t].dsts
  <2>1. rv[t].dsts \in Seq(Seq(Bytes))
    BY <1>1 DEF ThreadsTyped, RvRecord
  <2>2. DOMAIN rv[t].dsts = 1..Len(rv[t].dsts)
    BY <2>1
  <2>3. QED
    BY <1>2, <2>2
<1>4. DOMAIN g = 1..n
  BY <1>1, GroupReadFacts
<1>5. /\ n \in 1..Len(s) /\ \A k \in 1..n : g[k] = s[k]
      /\ Len(Rest(s)) = Len(s) - n /\ \A k \in 1..(Len(s) - n) : Rest(s)[k] = s[n + k]
  BY <1>1, GroupFacts
<1>6. CASE \E k \in DOMAIN g : g[k].dst = d
  <2> DEFINE k == CHOOSE k \in DOMAIN g : g[k].dst = d
  <2>1. k \in DOMAIN g /\ g[k].dst = d
    BY <1>6
  <2>2. Scattered(t)[d] = SubSeq(out[t], TmpOff(g, k) + 1, TmpOff(g, k) + g[k].range.size)
    BY <1>3, <1>6 DEF Scattered
  <2> HIDE DEF k
  <2>3. SubSeq(out[t], TmpOff(g, k) + 1, TmpOff(g, k) + g[k].range.size) = Wanted(g[k].range)
    BY <2>1, PieceWanted
  <2>4. g[k].range = R[d]
    <3>1. k \in 1..n /\ Len(s) \in Nat
      BY <1>1, <1>4, <2>1
    <3>2. k \in 1..Len(s)
      BY <1>5, <3>1
    <3>3. g[k] = s[k]
      BY <1>5, <3>1
    <3>4. s[k].range = R[s[k].dst]
      BY <1>2, <3>2
    <3>5. QED
      BY <2>1, <3>3, <3>4
  <2>5. QED
    BY <2>2, <2>3, <2>4
<1>7. CASE ~ \E k \in DOMAIN g : g[k].dst = d
  <2>1. Scattered(t)[d] = rv[t].dsts[d]
    BY <1>3, <1>7 DEF Scattered
  <2>2. ASSUME NEW i \in 1..Len(s), s[i].dst = d
        PROVE  \E j \in 1..Len(Rest(s)) : Rest(s)[j].dst = d
    <3>1. ~(i \in 1..n)
      BY <1>4, <1>5, <1>7, <2>2
    <3>2. i - n \in 1..(Len(s) - n) /\ n + (i - n) = i
      BY <1>1, <1>5, <3>1
    <3>3. Rest(s)[i - n] = s[i]
      BY <1>5, <3>2
    <3>4. QED
      BY <1>5, <2>2, <3>2, <3>3
  <2>3. QED
    BY <1>2, <2>1, <2>2
<1>8. QED
  BY <1>6, <1>7

LEMMA ScatterFills ==
    ASSUME ControlInv, DeliverInv, ReadvInv, NEW t \in Thread, Scatter(t)
    PROVE  Filled(t)'
<1> DEFINE s == rv[t].items
           n == GroupLen(s)
           R == rv[t].ranges
<1>1. /\ ThreadsTyped /\ ThreadInv(t) /\ pc[t] = "scatter" /\ Filled(t)
      /\ call[t].op = "readv" /\ s # <<>> /\ Sorted(s) /\ s \in Seq(Item)
  BY DEF ControlInv, ReadvInv, Scatter, ThreadInv, AtItsPlace, AtItsGroup, ThreadsTyped, RvRecord
<1>2. CASE /\ rv' = [rv EXCEPT ![t] = ScatterRv(t)]
           /\ IF Rest(s) # <<>> THEN ReadGroup(t, Rest(s))
              ELSE Goto(t, "merged") /\ UNCHANGED <<call, copied, out>>
           /\ UNCHANGED <<opt, cacheVars, stats, size, path, chunk, rc, calls, seen, aborted>>
  <2>1. rv'[t].items = Rest(s) /\ rv'[t].dsts = Scattered(t) /\ rv'[t].ranges = R
    BY <1>1, <1>2, ScatterRvFacts DEF ThreadsTyped
  <2>2. Len(Scattered(t)) = Len(R)
    BY <1>1, ScatteredTyped DEF Filled
  <2>3. ASSUME NEW i \in 1..Len(Rest(s))
        PROVE  Rest(s)[i].dst \in 1..Len(R) /\ Rest(s)[i].range = R[Rest(s)[i].dst]
    <3>1. /\ n \in 1..Len(s) /\ Len(Rest(s)) = Len(s) - n /\ \A k \in 1..(Len(s) - n) : Rest(s)[k] = s[n + k]
      BY <1>1, GroupFacts
    <3>2. n + i \in 1..Len(s) /\ Rest(s)[i] = s[n + i]
      BY <1>1, <3>1
    <3>3. QED
      BY <1>1, <3>2 DEF Filled
  <2>4. \A d \in 1..Len(R) :
            \/ Scattered(t)[d] = Wanted(R[d])
            \/ \E i \in 1..Len(Rest(s)) : Rest(s)[i].dst = d
    BY <1>1, ScatteredWanted
  <2>5. pc'[t] \in {"merged", "idle"} => Rest(s) = <<>>
    BY <1>1, <1>2 DEF ReadGroup, Goto, ThreadsTyped
  <2>6. QED
    BY <2>1, <2>2, <2>3, <2>4, <2>5 DEF Filled
<1>3. CASE Return(t, "ERR_CUDA")
  BY <1>1, <1>3 DEF Return, Goto, Filled, ThreadsTyped
<1>4. QED
  BY <1>2, <1>3, ScatterCases

LEMMA BeginReadvFills ==
    ASSUME ControlInv, NEW t \in Thread, NEW c \in Call, BeginReadv(t, c)
    PROVE  Filled(t)'
<1>1. ThreadsTyped /\ c.op = "readv"
  BY DEF BeginReadv, ControlInv
<1>2. PICK s \in SortedItems(c.ranges) :
          /\ ReadGroup(t, s)
          /\ rv' = [rv EXCEPT ![t] =
                        [ranges |-> c.ranges, target |-> c.target, items |-> s,
                         dsts |-> [d \in 1..Len(s) |-> <<>>], coalesced |-> 0, cbytes |-> 0]]
  BY DEF BeginReadv
<1>3. rv'[t].items = s /\ rv'[t].ranges = c.ranges /\ Len(rv'[t].dsts) = Len(s)
  BY <1>1, <1>2, BeginRv
<1>4. c.ranges \in Seq(FileRange) /\ c.ranges # <<>>
  BY <1>1, ReadvRanges
<1>5. /\ Len(s) = Len(c.ranges)
      /\ \A i \in 1..Len(s) : s[i].dst \in 1..Len(c.ranges) /\ s[i].range = c.ranges[s[i].dst]
      /\ \A d \in 1..Len(c.ranges) : \E i \in 1..Len(s) : s[i].dst = d
  BY <1>4, SortedItemsFacts
<1>6. pc'[t] = "lookup"
  BY <1>1, <1>2 DEF ReadGroup, Goto, ThreadsTyped
<1>7. QED
  BY <1>3, <1>5, <1>6 DEF Filled

LEMMA StepFills ==
    ASSUME ControlInv, DeliverInv, ReadvInv, NEW t \in Thread, StepOf(t)
    PROVE  Filled(t)'
<1>1. CASE Step(t) /\ ~Scatter(t)
  <2>1. call'[t] = call[t] /\ rv'[t] = rv[t] /\ pc[t] # "idle" /\ Filled(t)
    BY <1>1, CallKept DEF ReadvInv
  <2>2. ASSUME call[t].op = "readv", pc'[t] # "idle" \/ rc'[t] = "OK", pc'[t] \in {"merged", "idle"}
        PROVE  pc[t] = "merged"
    BY <1>1, <2>2, EndsMerged DEF ControlInv
  <2>3. QED
    BY <2>1, <2>2 DEF Filled
<1>2. ASSUME NEW c \in Call, Begin(t, c) PROVE Filled(t)'
  BY <1>2 DEF Begin, Filled, ControlInv, ThreadsTyped
<1>3. QED
  BY <1>1, <1>2, ScatterFills, BeginReadvFills DEF StepOf

LEMMA NextFills ==
    ASSUME ControlInv, DeliverInv, ReadvInv, [Next]_vars
    PROVE  ReadvInv'
<1>1. ASSUME NEW u \in Thread, Local(u)' = Local(u) PROVE Filled(u)'
  BY <1>1 DEF ReadvInv, Local, Filled
<1>2. ASSUME NEW t \in Thread, StepOf(t) PROVE ReadvInv'
  <2>1. \A u \in Thread : u # t => Local(u)' = Local(u)
    BY <1>2, OthersKeep DEF ControlInv
  <2>2. QED
    BY <1>1, <1>2, <2>1, StepFills DEF ReadvInv
<1>3. CASE UNCHANGED vars \/ \E f \in File : Grow(f)
  <2>1. \A u \in Thread : Local(u)' = Local(u)
    BY <1>3 DEF Grow, vars, threadVars, Local
  <2>2. QED
    BY <1>1, <2>1 DEF ReadvInv
<1>4. QED
  BY <1>2, <1>3, NextCases

\* memtier_readv returns MEMTIER_OK only when every destination holds the bytes of its own
\* range, however the ranges were sorted and grouped.
THEOREM EngineReadvFills == ASSUME StubWithinFiles PROVE Spec => []ReadvFillsEveryRange
<1>1. Init => ReadvInv
  BY DEF Init, ReadvInv, Filled, NoCall
<1>2. ControlInv /\ DeliverInv /\ ReadvInv /\ [Next]_vars => ReadvInv'
  BY NextFills
<1>3. ReadvInv => ReadvFillsEveryRange
  BY DEF ReadvInv, Filled, ReadvFillsEveryRange
<1>4. QED
  BY <1>1, <1>2, <1>3, EngineControl, EngineDelivers, PTL DEF Spec
-----------------------------------------------------------------------------
(* Errors.                                                                 *)

\* A call under way has returned nothing yet, and files only grow while it is.
ErrorInv(t) ==
    /\ pc[t] # "idle" => rc[t] = "NONE"
    /\ \A f \in File : seen[t][f] <= size[f]
    /\ ~IoFaults /\ rc[t] = "ERR_IO" => call[t].offset + call[t].size > seen[t][call[t].file]

ErrorsInv == \A t \in Thread : ErrorInv(t)

\* A step of a call under way returns, or leaves the return code alone.
LEMMA StepReturns ==
    ASSUME ThreadsTyped, NEW t \in Thread, Step(t), rc'[t] # rc[t]
    PROVE  pc'[t] = "idle"
<1>1. CASE Lookup(t) \/ Admit(t) \/ Store(t) \/ Select(t)
  BY <1>1 DEF Lookup, Admit, Store, Select
<1>2. CASE ServeHit(t) \/ ReadGds(t)
  BY <1>2 DEF ServeHit, ReadGds, Abort, Return, Advance, Goto, ThreadsTyped
<1>3. CASE ReadFallback(t) \/ ReadPosix(t)
  BY <1>3 DEF ReadFallback, ReadPosix, Abort, Return, Advance, Goto, ThreadsTyped
<1>4. CASE Count(t) \/ TallyPrefetch(t)
  BY <1>4 DEF Count, TallyPrefetch, Advance
<1>5. CASE Complete(t) \/ CompleteReadv(t)
  BY <1>5 DEF Complete, CompleteReadv, Return, Goto, ThreadsTyped
<1>6. CASE Probe(t) \/ Load(t)
  BY <1>6 DEF Probe, Load, Return, Advance, Goto, ThreadsTyped
<1>7. CASE Scatter(t)
  BY <1>7, ScatterCases DEF Return, Goto, ThreadsTyped
<1>8. QED
  BY <1>1, <1>2, <1>3, <1>4, <1>5, <1>6, <1>7 DEF Step

\* Without failing system calls, only a read that ends early returns MEMTIER_ERR_IO.
LEMMA ErrorMeansShort ==
    ASSUME ControlInv, NEW t \in Thread, Step(t), rc[t] # "ERR_IO", rc'[t] = "ERR_IO", ~IoFaults
    PROVE  CurOff(t) + Need(t) > size[call[t].file] /\ copied[t] < call[t].size
<1> DEFINE f == call[t].file
<1>1. ThreadsTyped /\ size \in [File -> InitialSize..MaxSize] /\ AtItsPlace(t)
  BY DEF ControlInv, SharedTyped, ThreadInv
<1>2. CASE ReadFallback(t)
  <2>1. BytesRead(f, CurOff(t), Need(t)) < Need(t) /\ pc[t] = "fallback"
    BY <1>1, <1>2 DEF ReadFallback, Abort, Return, Advance, ThreadsTyped
  <2>2. copied[t] < call[t].size
    BY <1>1, <2>1 DEF AtItsPlace, InRead
  <2>3. Need(t) \in Nat \ {0} /\ CurOff(t) \in Nat /\ f \in File
    BY <1>1, <2>2, NeedFacts, EngineAssumption
  <2>4. size[f] \in Nat /\ Need(t) \in 1..Need(t) /\ Need(t) \in Nat
    BY <1>1, <2>3, EngineAssumption
  <2>5. BytesRead(f, CurOff(t), Need(t)) \in Nat
    <3>1. BytesRead(f, CurOff(t), Need(t)) \in 0..Need(t)
      BY <1>1, <2>3, <2>4, BufferFacts
    <3>2. QED
      BY <2>3, <3>1
  <2>6. Need(t) <= BytesRead(f, CurOff(t), Need(t)) <=> CurOff(t) + Need(t) <= size[f]
    BY <1>1, <2>3, <2>4, BufferFacts
  <2>7. QED
    BY <2>1, <2>2, <2>3, <2>4, <2>5, <2>6
<1>3. CASE ReadPosix(t)
  <2> DEFINE m == SrcOff(t) + Need(t)
  <2>1. BytesRead(f, ReadOff(t), ReadSize(t)) < m /\ pc[t] = "posix"
    BY <1>1, <1>3 DEF ReadPosix, Abort, Return, ThreadsTyped
  <2>2. copied[t] < call[t].size
    BY <1>1, <2>1 DEF AtItsPlace, InRead
  <2>3. /\ ReadOff(t) \in Nat /\ ReadSize(t) \in Nat /\ SrcOff(t) \in Nat /\ Need(t) \in Nat \ {0}
        /\ m <= ReadSize(t) /\ ReadOff(t) + SrcOff(t) = CurOff(t) /\ f \in File
    BY <1>1, <2>2, PosixRange
  <2>4. size[f] \in Nat /\ m \in 1..ReadSize(t) /\ m \in Nat /\ ReadOff(t) + m = CurOff(t) + Need(t)
    BY <1>1, <2>3, EngineAssumption
  <2> HIDE DEF m
  <2>5. BytesRead(f, ReadOff(t), ReadSize(t)) \in Nat
    <3>1. BytesRead(f, ReadOff(t), ReadSize(t)) \in 0..ReadSize(t)
      BY <1>1, <2>3, BufferFacts
    <3>2. QED
      BY <2>3, <3>1
  <2>6. m <= BytesRead(f, ReadOff(t), ReadSize(t)) <=> ReadOff(t) + m <= size[f]
    BY <1>1, <2>3, <2>4, BufferFacts
  <2>7. QED
    BY <2>1, <2>2, <2>3, <2>4, <2>5, <2>6
<1>4. CASE Lookup(t) \/ Admit(t) \/ Store(t) \/ Select(t) \/ Count(t) \/ TallyPrefetch(t)
  BY <1>4 DEF Lookup, Admit, Store, Select, Count, TallyPrefetch, Advance
<1>5. CASE ServeHit(t) \/ ReadGds(t)
  BY <1>1, <1>5 DEF ServeHit, ReadGds, Abort, Return, Advance, ThreadsTyped
<1>6. CASE Complete(t) \/ CompleteReadv(t)
  BY <1>1, <1>6 DEF Complete, CompleteReadv, Return, ThreadsTyped
<1>7. CASE Probe(t) \/ Load(t)
  BY <1>1, <1>7 DEF Probe, Load, Return, Advance, ThreadsTyped
<1>8. CASE Scatter(t)
  BY <1>1, <1>8, ScatterCases DEF Return, ThreadsTyped
<1>9. QED
  BY <1>2, <1>3, <1>4, <1>5, <1>6, <1>7, <1>8 DEF Step

\* A thread's step leaves the files alone.
LEMMA StepKeepsFiles ==
    ASSUME NEW t \in Thread, StepOf(t)
    PROVE  size' = size
<1>1. CASE Lookup(t) \/ Admit(t) \/ Store(t) \/ Select(t) \/ Count(t) \/ TallyPrefetch(t)
  BY <1>1 DEF Lookup, Admit, Store, Select, Count, TallyPrefetch
<1>2. CASE ServeHit(t) \/ ReadGds(t) \/ ReadFallback(t) \/ ReadPosix(t)
  BY <1>2 DEF ServeHit, ReadGds, ReadFallback, ReadPosix, Abort
<1>3. CASE Complete(t) \/ CompleteReadv(t) \/ Probe(t) \/ Load(t) \/ Scatter(t)
  BY <1>3 DEF Complete, CompleteReadv, Probe, Load, Scatter
<1>4. ASSUME NEW c \in Call, Begin(t, c) \/ BeginReadv(t, c) PROVE size' = size
  BY <1>4 DEF Begin, BeginReadv
<1>5. QED
  BY <1>1, <1>2, <1>3, <1>4 DEF StepOf, Step

LEMMA StepErrors ==
    ASSUME ControlInv, ErrorsInv, NEW t \in Thread, StepOf(t)
    PROVE  ErrorInv(t)'
<1>1. ThreadsTyped /\ ErrorInv(t) /\ size' = size /\ size \in [File -> InitialSize..MaxSize]
  BY StepKeepsFiles DEF ControlInv, SharedTyped, ErrorsInv
<1>2. CASE Step(t)
  <2>1. pc[t] # "idle" /\ seen'[t] = seen[t]
    <3>1. CASE Scatter(t)
      BY <1>1, <3>1, ScatterCases DEF Scatter, Return
    <3>2. QED
      BY <1>2, <3>1, CallKept
  <2>2. rc[t] = "NONE"
    BY <1>1, <2>1 DEF ErrorInv
  <2>3. pc'[t] # "idle" => rc'[t] = "NONE"
    BY <1>1, <1>2, <2>2, StepReturns
  <2>4. \A f \in File : seen'[t][f] <= size'[f]
    BY <1>1, <2>1 DEF ErrorInv
  <2>5. ASSUME ~IoFaults, rc'[t] = "ERR_IO"
        PROVE  call'[t].offset + call'[t].size > seen'[t][call'[t].file]
    <3> DEFINE f == call[t].file
    <3>1. CurOff(t) + Need(t) > size[f] /\ copied[t] < call[t].size
      BY <1>2, <2>2, <2>5, ErrorMeansShort
    <3>2. /\ CurOff(t) = call[t].offset + copied[t] /\ copied[t] + Need(t) <= call[t].size /\ f \in File
          /\ call[t].offset \in Nat /\ call[t].size \in Nat /\ copied[t] \in Nat
      BY <1>1, <3>1, NeedFacts
    <3>3. Need(t) \in Nat
      BY <1>1, <3>1, NeedFacts, EngineAssumption
    <3>4. seen[t][f] \in Nat /\ seen[t][f] <= size[f] /\ size[f] \in Nat
      BY <1>1, <3>2, EngineAssumption DEF ErrorInv, ThreadsTyped
    <3>5. call[t].offset + call[t].size > seen[t][f]
      BY <3>1, <3>2, <3>3, <3>4
    <3>6. call'[t] = call[t]
      <4>1. CASE Scatter(t)
        BY <1>1, <2>2, <2>5, <4>1, ScatterCases DEF Return, ThreadsTyped
      <4>2. QED
        BY <1>2, <4>1, CallKept
    <3>7. QED
      BY <2>1, <3>5, <3>6
  <2>6. QED
    BY <2>3, <2>4, <2>5 DEF ErrorInv
<1>3. ASSUME NEW c \in Call, Begin(t, c) \/ BeginReadv(t, c) PROVE ErrorInv(t)'
  <2>1. rc'[t] = "NONE" /\ seen'[t] = size
    BY <1>1, <1>3 DEF Begin, BeginReadv, ThreadsTyped
  <2>2. \A f \in File : size[f] \in Nat
    BY <1>1, EngineAssumption
  <2>3. QED
    BY <1>1, <2>1, <2>2 DEF ErrorInv
<1>4. QED
  BY <1>2, <1>3 DEF StepOf

LEMMA NextErrors ==
    ASSUME ControlInv, ErrorsInv, [Next]_vars
    PROVE  ErrorsInv'
<1>1. ASSUME NEW u \in Thread, Local(u)' = Local(u), \A f \in File : size[f] <= size'[f]
      PROVE  ErrorInv(u)'
  <2>1. \A f \in File : seen[u][f] \in Nat /\ size[f] \in Nat /\ seen[u][f] <= size[f] /\ size'[f] \in Nat
    <3>1. size \in [File -> InitialSize..MaxSize] /\ size' \in [File -> InitialSize..MaxSize]
      BY NextControl DEF ControlInv, SharedTyped
    <3>2. seen \in [Thread -> [File -> Nat]] /\ \A f \in File : seen[u][f] <= size[f]
      BY DEF ControlInv, ThreadsTyped, ErrorsInv, ErrorInv
    <3>3. QED
      BY <3>1, <3>2, EngineAssumption
  <2>2. \A f \in File : seen[u][f] <= size'[f]
    BY <1>1, <2>1
  <2>3. QED
    BY <1>1, <2>2 DEF ErrorsInv, ErrorInv, Local
<1>2. \A f \in File : size[f] \in Nat
  BY EngineAssumption DEF ControlInv, SharedTyped
<1>3. ASSUME NEW t \in Thread, StepOf(t) PROVE ErrorsInv'
  <2>1. \A u \in Thread : u # t => Local(u)' = Local(u)
    BY <1>3, OthersKeep DEF ControlInv
  <2>2. \A f \in File : size[f] <= size'[f]
    BY <1>2, <1>3, StepKeepsFiles
  <2>3. QED
    BY <1>1, <1>3, <2>1, <2>2, StepErrors DEF ErrorsInv
<1>4. CASE UNCHANGED vars \/ \E f \in File : Grow(f)
  <2>1. \A u \in Thread : Local(u)' = Local(u)
    BY <1>4 DEF Grow, vars, threadVars, Local
  <2>2. \A f \in File : size[f] <= size'[f]
    BY <1>2, <1>4 DEF Grow, vars, ControlInv, SharedTyped
  <2>3. QED
    BY <1>1, <2>1, <2>2 DEF ErrorsInv
<1>5. QED
  BY <1>3, <1>4, NextCases

\* As long as no system call fails, memtier_read and memtier_readv return MEMTIER_ERR_IO only
\* for a range that reached past the end of its file when the call began.
THEOREM EngineErrorsAreJustified == Spec => []ErrorsAreJustified
<1>1. Init => ErrorsInv
  <2>1. ASSUME Init, NEW t \in Thread, NEW f \in File PROVE seen[t][f] <= size[f]
    BY <2>1, EngineAssumption DEF Init
  <2>2. QED
    BY <2>1 DEF Init, ErrorsInv, ErrorInv
<1>2. ControlInv /\ ErrorsInv /\ [Next]_vars => ErrorsInv'
  BY NextErrors
<1>3. ErrorsInv => ErrorsAreJustified
  BY DEF ErrorsInv, ErrorInv, ErrorsAreJustified
<1>4. QED
  BY <1>1, <1>2, <1>3, EngineControl, PTL DEF Spec
-----------------------------------------------------------------------------
(* Statistics.                                                             *)

\* Where a thread is between on_selected and the count of what came of it.
Deciding == {"hit", "gds", "fallback", "posix", "admit", "count"}

\* A step of one thread, from one place to another.
Moves(t) == pc' = [pc EXCEPT ![t] = pc'[t]]

LEMMA MoveCounts ==
    ASSUME ThreadsTyped, NEW t \in Thread, Moves(t)
    PROVE  /\ Undecided \in Nat
           /\ pc[t] \in Deciding /\ pc'[t] \notin Deciding => Undecided' = Undecided - 1
           /\ pc[t] \notin Deciding /\ pc'[t] \in Deciding => Undecided' = Undecided + 1
           /\ (pc[t] \in Deciding <=> pc'[t] \in Deciding) => Undecided' = Undecided
<1> DEFINE B == {u \in Thread : pc[u] \in Deciding}
           C == {u \in Thread : pc'[u] \in Deciding}
<1>1. Undecided = Cardinality(B) /\ Undecided' = Cardinality(C)
  BY DEF Undecided, Deciding
<1>2. IsFiniteSet(Thread)
  BY EngineAssumption
<1>3. IsFiniteSet(B)
  BY <1>2, FS_Subset
<1>4. Cardinality(B) \in Nat
  BY <1>3, FS_CardinalityType
<1>5. \A u \in Thread : u # t => pc'[u] = pc[u]
  BY DEF Moves, ThreadsTyped
<1> HIDE DEF Deciding
<1>6. ASSUME pc[t] \in Deciding, pc'[t] \notin Deciding PROVE Cardinality(C) = Cardinality(B) - 1
  <2>1. C = B \ {t} /\ t \in B
    BY <1>5, <1>6
  <2>2. QED
    BY <1>3, <2>1, FS_RemoveElement
<1>7. ASSUME pc[t] \notin Deciding, pc'[t] \in Deciding PROVE Cardinality(C) = Cardinality(B) + 1
  <2>1. C = B \cup {t} /\ t \notin B
    BY <1>5, <1>7
  <2>2. QED
    BY <1>3, <2>1, FS_AddElement
<1>8. ASSUME pc[t] \in Deciding <=> pc'[t] \in Deciding PROVE Cardinality(C) = Cardinality(B)
  <2>1. C = B
    BY <1>5, <1>8
  <2>2. QED
    BY <2>1
<1>9. QED
  BY <1>1, <1>4, <1>6, <1>7, <1>8

\* The balance is kept if what is added on either side is the same.
Keeps(t, selected, served) ==
    /\ Moves(t)
    /\ Selected' = Selected + selected /\ Served' = Served + served

LEMMA CountersTyped ==
    ASSUME stats \in [Counter -> Nat]
    PROVE  Selected \in Nat /\ Served \in Nat
<1>1. /\ stats["selected_gds"] \in Nat /\ stats["selected_posix"] \in Nat /\ stats["selected_cache"] \in Nat
      /\ stats["dram_hits"] \in Nat /\ stats["dram_misses"] \in Nat
      /\ stats["gds_reads"] \in Nat /\ stats["gds_fallbacks"] \in Nat
  BY DEF Counter
<1>2. QED
  BY <1>1 DEF Selected, Served

LEMMA KeepsBalance ==
    ASSUME ControlInv, StatsBalance, NEW t \in Thread,
           \/ Keeps(t, 1, 0) /\ pc[t] \notin Deciding /\ pc'[t] \in Deciding /\ aborted' = aborted
           \/ Keeps(t, 0, 1) /\ pc[t] \in Deciding /\ pc'[t] \notin Deciding /\ aborted' = aborted
           \/ Keeps(t, 0, 0) /\ pc[t] \in Deciding /\ pc'[t] \notin Deciding /\ aborted' = aborted + 1
           \/ Keeps(t, 0, 0) /\ (pc[t] \in Deciding <=> pc'[t] \in Deciding) /\ aborted' = aborted
    PROVE  StatsBalance'
<1>1. ThreadsTyped /\ aborted \in Nat /\ Selected \in Nat /\ Served \in Nat /\ Moves(t)
  BY CountersTyped DEF ControlInv, SharedTyped, Keeps
<1>2. /\ Undecided \in Nat
      /\ pc[t] \in Deciding /\ pc'[t] \notin Deciding => Undecided' = Undecided - 1
      /\ pc[t] \notin Deciding /\ pc'[t] \in Deciding => Undecided' = Undecided + 1
      /\ (pc[t] \in Deciding <=> pc'[t] \in Deciding) => Undecided' = Undecided
  BY <1>1, MoveCounts
<1>3. Selected = Served + aborted + Undecided
  BY DEF StatsBalance
<1>4. Selected' = Served' + aborted' + Undecided'
  BY <1>1, <1>2, <1>3 DEF Keeps
<1>5. QED
  BY <1>4 DEF StatsBalance

\* What a tally adds to either side.
LEMMA TallyAdds ==
    ASSUME stats \in [Counter -> Nat], NEW d, Tally(d), \A c \in DOMAIN d : d[c] \in Nat,
           NEW c \in Counter
    PROVE  stats'[c] = stats[c] + IF c \in DOMAIN d THEN d[c] ELSE 0
  BY DEF Tally

Selections == {"selected_gds", "selected_posix", "selected_cache"}
Services == {"dram_hits", "dram_misses", "gds_reads", "gds_fallbacks"}

LEMMA AddsTo ==
    ASSUME stats \in [Counter -> Nat], NEW d, Tally(d), \A c \in DOMAIN d : d[c] \in Nat
    PROVE  /\ DOMAIN d \cap (Selections \cup Services) = {} => Selected' = Selected /\ Served' = Served
           /\ \A x \in Selections :
                  DOMAIN d \cap (Selections \cup Services) = {x} /\ d[x] = 1 =>
                      Selected' = Selected + 1 /\ Served' = Served
           /\ \A x \in Services :
                  DOMAIN d \cap (Selections \cup Services) = {x} /\ d[x] = 1 =>
                      Selected' = Selected /\ Served' = Served + 1
<1>1. \A c \in Selections \cup Services :
          /\ stats[c] \in Nat
          /\ c \notin DOMAIN d => stats'[c] = stats[c]
          /\ c \in DOMAIN d => stats'[c] = stats[c] + d[c]
  <2>1. ASSUME NEW c \in Selections \cup Services
        PROVE  /\ stats[c] \in Nat
               /\ c \notin DOMAIN d => stats'[c] = stats[c]
               /\ c \in DOMAIN d => stats'[c] = stats[c] + d[c]
    <3>1. c \in Counter
      BY DEF Counter, Selections, Services
    <3>2. stats[c] \in Nat
      BY <3>1
    <3>3. stats'[c] = stats[c] + IF c \in DOMAIN d THEN d[c] ELSE 0
      BY <3>1, TallyAdds
    <3>4. QED
      BY <3>2, <3>3
  <2>2. QED
    BY <2>1
<1>2. ASSUME DOMAIN d \cap (Selections \cup Services) = {}
      PROVE  Selected' = Selected /\ Served' = Served
  BY <1>1, <1>2 DEF Selections, Services, Selected, Served
<1>3. ASSUME NEW x \in Selections \cup Services, DOMAIN d \cap (Selections \cup Services) = {x}, d[x] = 1
      PROVE  \A c \in Selections \cup Services : stats'[c] = stats[c] + IF c = x THEN 1 ELSE 0
  <2>1. \A c \in Selections \cup Services : c \in DOMAIN d <=> c = x
    BY <1>3
  <2>2. QED
    BY <1>1, <1>3, <2>1
<1>4. ASSUME NEW x \in Selections, DOMAIN d \cap (Selections \cup Services) = {x}, d[x] = 1
      PROVE  Selected' = Selected + 1 /\ Served' = Served
  <2>1. \A c \in Selections \cup Services : stats'[c] = stats[c] + IF c = x THEN 1 ELSE 0
    BY <1>3, <1>4
  <2>2. QED
    BY <1>1, <2>1 DEF Selections, Services, Selected, Served
<1>5. ASSUME NEW x \in Services, DOMAIN d \cap (Selections \cup Services) = {x}, d[x] = 1
      PROVE  Selected' = Selected /\ Served' = Served + 1
  <2>1. \A c \in Selections \cup Services : stats'[c] = stats[c] + IF c = x THEN 1 ELSE 0
    BY <1>3, <1>5
  <2>2. QED
    BY <1>1, <2>1 DEF Selections, Services, Selected, Served
<1>6. QED
  BY <1>2, <1>4, <1>5
LEMMA GotoMoves ==
    ASSUME ThreadsTyped, NEW t \in Thread, NEW l, Goto(t, l)
    PROVE  Moves(t) /\ pc'[t] = l
  BY DEF Goto, Moves, ThreadsTyped

\* An advance ends the current chunk's path.
LEMMA AdvanceMoves ==
    ASSUME ThreadsTyped, NEW t \in Thread, NEW first \in {"lookup", "probe"}, Advance(t, first)
    PROVE  Moves(t) /\ pc'[t] \notin Deciding
<1>1. PICK l \in {first, "complete"} : Goto(t, l)
  BY DEF Advance
<1>2. QED
  BY <1>1, GotoMoves DEF Deciding

LEMMA StatsKept ==
    ASSUME stats' = stats
    PROVE  Selected' = Selected /\ Served' = Served
  BY DEF Selected, Served

\* A chunk is served: one outcome is counted and the path is done with.
LEMMA ServedBalance ==
    ASSUME ControlInv, StatsBalance, NEW t \in Thread, pc[t] \in Deciding, Advance(t, "lookup"),
           aborted' = aborted, NEW d, Tally(d), \A c \in DOMAIN d : d[c] \in Nat,
           NEW x \in Services, DOMAIN d \cap (Selections \cup Services) = {x}, d[x] = 1
    PROVE  StatsBalance'
<1>1. Selected' = Selected /\ Served' = Served + 1
  BY AddsTo DEF ControlInv, SharedTyped
<1>2. Moves(t) /\ pc'[t] \notin Deciding
  BY AdvanceMoves DEF ControlInv
<1>3. Selected \in Nat
  BY CountersTyped DEF ControlInv, SharedTyped
<1>4. Keeps(t, 0, 1)
  BY <1>1, <1>2, <1>3 DEF Keeps
<1>5. QED
  BY <1>2, <1>4, KeepsBalance

\* A chunk is given up.
LEMMA AbortBalance ==
    ASSUME ControlInv, StatsBalance, NEW t \in Thread, pc[t] \in Deciding, NEW code, Abort(t, code)
    PROVE  StatsBalance'
<1>1. Selected' = Selected /\ Served' = Served /\ aborted' = aborted + 1
  BY StatsKept DEF Abort
<1>2. Moves(t) /\ pc'[t] \notin Deciding
  BY GotoMoves DEF ControlInv, Abort, Return, Deciding
<1>3. Selected \in Nat /\ Served \in Nat
  BY CountersTyped DEF ControlInv, SharedTyped
<1>4. Keeps(t, 0, 0)
  BY <1>1, <1>2, <1>3 DEF Keeps
<1>5. QED
  BY <1>1, <1>2, <1>4, KeepsBalance

\* Nothing that is balanced is counted, and the path is neither taken up nor done with.
LEMMA OtherBalance ==
    ASSUME ControlInv, StatsBalance, NEW t \in Thread, Moves(t), aborted' = aborted,
           pc[t] \in Deciding <=> pc'[t] \in Deciding,
           \/ stats' = stats
           \/ \E d : /\ Tally(d) /\ \A c \in DOMAIN d : d[c] \in Nat
                     /\ DOMAIN d \cap (Selections \cup Services) = {}
    PROVE  StatsBalance'
<1>1. Selected' = Selected /\ Served' = Served
  <2>1. CASE stats' = stats
    BY <2>1, StatsKept
  <2>2. ASSUME NEW d, Tally(d), \A c \in DOMAIN d : d[c] \in Nat,
               DOMAIN d \cap (Selections \cup Services) = {}
        PROVE  Selected' = Selected /\ Served' = Served
    BY <2>2, AddsTo DEF ControlInv, SharedTyped
  <2>3. QED
    BY <2>1, <2>2
<1>2. Selected \in Nat /\ Served \in Nat
  BY CountersTyped DEF ControlInv, SharedTyped
<1>3. Keeps(t, 0, 0)
  BY <1>1, <1>2 DEF Keeps
<1>4. QED
  BY <1>3, KeepsBalance

LEMMA SelectBalance ==
    ASSUME ControlInv, StatsBalance, NEW t \in Thread, Select(t)
    PROVE  StatsBalance'
<1>1. ThreadsTyped /\ pc[t] = "select" /\ path[t] \in Paths /\ stats \in [Counter -> Nat] /\ aborted' = aborted
  BY DEF ControlInv, SharedTyped, Select, ThreadInv, AtItsPlace, ThreadsTyped
<1>2. PICK l \in {"hit", "gds", "posix"} : Goto(t, l)
  BY DEF Select
<1>3. PICK x \in Selections : Tally([c \in {x} |-> 1])
  <2>1. CASE path[t] \in {"GDS_READ", "GDS_STUB_FALLBACK"}
    <3>1. Tally([selected_gds |-> 1])
      BY <2>1 DEF Select
    <3>2. QED
      BY <3>1 DEF Selections, Tally
  <2>2. CASE path[t] \in {"DRAM_HIT", "POSIX_READ_THEN_CACHE"}
    <3>1. Tally([selected_cache |-> 1])
      BY <2>2 DEF Select
    <3>2. QED
      BY <3>1 DEF Selections, Tally
  <2>3. CASE path[t] = "POSIX_READ"
    <3>1. Tally([selected_posix |-> 1])
      BY <2>3 DEF Select
    <3>2. QED
      BY <3>1 DEF Selections, Tally
  <2>4. QED
    BY <1>1, <2>1, <2>2, <2>3 DEF Paths
<1>4. Selected' = Selected + 1 /\ Served' = Served
  <2> DEFINE d == [c \in {x} |-> 1]
  <2>1. DOMAIN d \cap (Selections \cup Services) = {x} /\ d[x] = 1 /\ \A c \in DOMAIN d : d[c] \in Nat
    OBVIOUS
  <2> HIDE DEF d
  <2>2. Tally(d)
    BY <1>3 DEF d
  <2>3. QED
    BY <1>1, <2>1, <2>2, AddsTo
<1>5. Moves(t) /\ pc'[t] \in Deciding /\ pc[t] \notin Deciding
  BY <1>1, <1>2, GotoMoves DEF Deciding
<1>6. Served \in Nat
  BY <1>1, CountersTyped
<1>7. Keeps(t, 1, 0)
  BY <1>4, <1>5, <1>6 DEF Keeps
<1>8. QED
  BY <1>1, <1>5, <1>7, KeepsBalance

LEMMA ServeBalance ==
    ASSUME ControlInv, StatsBalance, NEW t \in Thread,
           ServeHit(t) \/ ReadGds(t) \/ ReadFallback(t) \/ ReadPosix(t) \/ Count(t)
    PROVE  StatsBalance'
<1> DEFINE f == call[t].file
<1>1. ThreadsTyped /\ size \in [File -> InitialSize..MaxSize]
  BY DEF ControlInv, SharedTyped
<1>2. pc[t] \in Deciding
  BY DEF ServeHit, ReadGds, ReadFallback, ReadPosix, Count, Deciding
<1>3. copied[t] < call[t].size
  BY <1>2 DEF ControlInv, ThreadInv, AtItsPlace, InRead, Deciding
<1>4. Need(t) \in Nat /\ CurOff(t) \in Nat /\ f \in File
  BY <1>1, <1>3, NeedFacts, EngineAssumption
<1>5. ASSUME NEW code, Abort(t, code) PROVE StatsBalance'
  BY <1>2, <1>5, AbortBalance
<1>6. CASE ServeHit(t)
  <2> DEFINE d == [dram_hits |-> 1, dram_bytes_served |-> Need(t)]
  <2>1. /\ DOMAIN d \cap (Selections \cup Services) = {"dram_hits"} /\ d["dram_hits"] = 1
        /\ \A c \in DOMAIN d : d[c] \in Nat
    BY <1>4 DEF Selections, Services
  <2> HIDE DEF d
  <2>2. CASE Tally(d) /\ Advance(t, "lookup") /\ aborted' = aborted
    BY <1>2, <2>1, <2>2, ServedBalance DEF Services
  <2>3. QED
    BY <1>5, <1>6, <2>2 DEF ServeHit, d
<1>7. CASE ReadGds(t)
  <2> DEFINE d == [gds_reads |-> 1]
  <2>1. /\ DOMAIN d \cap (Selections \cup Services) = {"gds_reads"} /\ d["gds_reads"] = 1
        /\ \A c \in DOMAIN d : d[c] \in Nat
    BY DEF Selections, Services
  <2> HIDE DEF d
  <2>2. CASE Tally(d) /\ Advance(t, "lookup") /\ aborted' = aborted
    BY <1>2, <2>1, <2>2, ServedBalance DEF Services
  <2>3. CASE Goto(t, "fallback") /\ stats' = stats /\ aborted' = aborted
    <3>1. Moves(t) /\ pc'[t] \in Deciding
      BY <1>1, <2>3, GotoMoves DEF Deciding
    <3>2. QED
      BY <1>2, <2>3, <3>1, OtherBalance
  <2>4. QED
    BY <1>5, <1>7, <2>2, <2>3 DEF ReadGds, d
<1>8. CASE ReadFallback(t)
  <2> DEFINE n == BytesRead(f, CurOff(t), Need(t))
             d == FallbackCounts(n)
  <2>1. n \in Nat
    <3>1. n \in 0..Need(t)
      BY <1>1, <1>4, BufferFacts
    <3>2. QED
      BY <1>4, <3>1
  <2> HIDE DEF n
  <2>2. /\ DOMAIN d \cap (Selections \cup Services) = {"gds_fallbacks"} /\ d["gds_fallbacks"] = 1
        /\ \A c \in DOMAIN d : d[c] \in Nat
    BY <2>1 DEF Selections, Services, FallbackCounts
  <2> HIDE DEF d
  <2>3. CASE Tally(d) /\ Advance(t, "lookup") /\ aborted' = aborted
    BY <1>2, <2>2, <2>3, ServedBalance DEF Services
  <2>4. QED
    BY <1>5, <1>8, <2>3 DEF ReadFallback, d, n
<1>9. CASE ReadPosix(t)
  <2>1. ASSUME NEW l \in {"admit", "count"}, Goto(t, l), stats' = stats, aborted' = aborted
        PROVE  StatsBalance'
    <3>1. Moves(t) /\ pc'[t] \in Deciding
      BY <1>1, <2>1, GotoMoves DEF Deciding
    <3>2. QED
      BY <1>2, <2>1, <3>1, OtherBalance
  <2>2. QED
    BY <1>5, <1>9, <2>1 DEF ReadPosix
<1>10. CASE Count(t)
  <2> DEFINE d == MissCounts(chunk[t].n)
  <2>1. chunk[t].n \in Nat
    BY <1>1, EngineAssumption DEF ThreadsTyped
  <2>2. /\ DOMAIN d \cap (Selections \cup Services) = {"dram_misses"} /\ d["dram_misses"] = 1
        /\ \A c \in DOMAIN d : d[c] \in Nat
    BY <2>1 DEF Selections, Services, MissCounts
  <2> HIDE DEF d
  <2>3. Tally(d) /\ Advance(t, "lookup") /\ aborted' = aborted
    BY <1>10 DEF Count, d
  <2>4. QED
    BY <1>2, <2>2, <2>3, ServedBalance DEF Services
<1>11. QED
  BY <1>6, <1>7, <1>8, <1>9, <1>10

LEMMA QuietBalance ==
    ASSUME ControlInv, StatsBalance, NEW t \in Thread,
           \/ Lookup(t) \/ Admit(t) \/ Scatter(t) \/ Probe(t) \/ Load(t) \/ Store(t)
           \/ \E c \in Call : Begin(t, c) \/ BeginReadv(t, c)
    PROVE  StatsBalance'
<1>1. ThreadsTyped
  BY DEF ControlInv
<1>2. stats' = stats /\ aborted' = aborted
  BY DEF Lookup, Admit, Scatter, Probe, Load, Store, Begin, BeginReadv
<1>3. Moves(t) /\ (pc[t] \in Deciding <=> pc'[t] \in Deciding)
  <2>1. ASSUME NEW l, Goto(t, l), pc[t] \in Deciding <=> l \in Deciding
        PROVE  Moves(t) /\ (pc[t] \in Deciding <=> pc'[t] \in Deciding)
    BY <1>1, <2>1, GotoMoves
  <2>2. CASE Lookup(t)
    BY <2>1, <2>2 DEF Lookup, Deciding
  <2>3. CASE Admit(t)
    BY <2>1, <2>3 DEF Admit, Deciding
  <2>4. CASE Store(t)
    BY <2>1, <2>4 DEF Store, Deciding
  <2>5. CASE Load(t)
    BY <2>1, <2>5 DEF Load, Return, Deciding
  <2>6. CASE Probe(t)
    BY <1>1, <2>1, <2>6, AdvanceMoves DEF Probe, Deciding
  <2>7. CASE Scatter(t)
    <3>1. pc[t] \notin Deciding
      BY <2>7 DEF Scatter, Deciding
    <3>2. Goto(t, "idle") \/ Goto(t, "merged") \/ Goto(t, "lookup")
      BY <2>7, ScatterCases DEF Return, ReadGroup
    <3>3. QED
      BY <2>1, <3>1, <3>2 DEF Deciding
  <2>8. ASSUME NEW c \in Call, Begin(t, c) \/ BeginReadv(t, c)
        PROVE  Moves(t) /\ (pc[t] \in Deciding <=> pc'[t] \in Deciding)
    <3>1. pc[t] \notin Deciding
      BY <2>8 DEF Begin, BeginReadv, Deciding
    <3>2. Goto(t, "lookup") \/ Goto(t, "probe")
      BY <2>8 DEF Begin, BeginReadv, ReadGroup
    <3>3. QED
      BY <2>1, <3>1, <3>2 DEF Deciding
  <2>9. QED
    BY <2>2, <2>3, <2>4, <2>5, <2>6, <2>7, <2>8
<1>4. QED
  BY <1>2, <1>3, OtherBalance

LEMMA TallyBalance ==
    ASSUME ControlInv, StatsBalance, NEW t \in Thread, Complete(t) \/ CompleteReadv(t) \/ TallyPrefetch(t)
    PROVE  StatsBalance'
<1>1. ThreadsTyped /\ aborted' = aborted
  BY DEF ControlInv, Complete, CompleteReadv, TallyPrefetch
<1>2. Moves(t) /\ pc[t] \notin Deciding /\ pc'[t] \notin Deciding
  <2>1. CASE Complete(t)
    BY <1>1, <2>1, GotoMoves DEF Complete, Return, Deciding
  <2>2. CASE CompleteReadv(t)
    BY <1>1, <2>2, GotoMoves DEF CompleteReadv, Return, Deciding
  <2>3. CASE TallyPrefetch(t)
    BY <1>1, <2>3, AdvanceMoves DEF TallyPrefetch, Deciding
  <2>4. QED
    BY <2>1, <2>2, <2>3
<1>3. \E d : /\ Tally(d) /\ \A c \in DOMAIN d : d[c] \in Nat
             /\ DOMAIN d \cap (Selections \cup Services) = {}
  <2>1. CASE Complete(t)
    <3>1. Tally([prefetch_requests |-> 1]) \/ Tally([total_requests |-> 1])
      BY <2>1 DEF Complete
    <3>2. /\ DOMAIN [prefetch_requests |-> 1] \cap (Selections \cup Services) = {}
          /\ \A c \in DOMAIN [prefetch_requests |-> 1] : [prefetch_requests |-> 1][c] \in Nat
      BY DEF Selections, Services
    <3>3. /\ DOMAIN [total_requests |-> 1] \cap (Selections \cup Services) = {}
          /\ \A c \in DOMAIN [total_requests |-> 1] : [total_requests |-> 1][c] \in Nat
      BY DEF Selections, Services
    <3>4. QED
      BY <3>1, <3>2, <3>3
  <2>2. CASE CompleteReadv(t)
    <3> DEFINE d == [readv_requests |-> 1, original_ranges |-> Len(rv[t].ranges),
                     coalesced_ranges |-> rv[t].coalesced, coalesced_bytes |-> rv[t].cbytes]
    <3>1. Len(rv[t].ranges) \in Nat /\ rv[t].coalesced \in Nat /\ rv[t].cbytes \in Nat
      BY <1>1 DEF ThreadsTyped, RvRecord
    <3>2. /\ DOMAIN d \cap (Selections \cup Services) = {} /\ \A c \in DOMAIN d : d[c] \in Nat
      BY <3>1 DEF Selections, Services
    <3>3. Tally(d)
      BY <2>2 DEF CompleteReadv
    <3>4. QED
      BY <3>2, <3>3
  <2>3. CASE TallyPrefetch(t)
    <3> DEFINE d == [prefetch_bytes |-> chunk[t].n, posix_reads |-> 1, ssd_bytes_read |-> chunk[t].n]
    <3>1. chunk[t].n \in Nat
      BY <1>1, EngineAssumption DEF ThreadsTyped
    <3>2. /\ DOMAIN d \cap (Selections \cup Services) = {} /\ \A c \in DOMAIN d : d[c] \in Nat
      BY <3>1 DEF Selections, Services
    <3>3. Tally(d)
      BY <2>3 DEF TallyPrefetch
    <3>4. QED
      BY <3>2, <3>3
  <2>4. QED
    BY <2>1, <2>2, <2>3
<1>4. QED
  BY <1>1, <1>2, <1>3, OtherBalance

LEMMA NextBalance ==
    ASSUME ControlInv, StatsBalance, [Next]_vars
    PROVE  StatsBalance'
<1>1. ASSUME NEW t \in Thread, StepOf(t) PROVE StatsBalance'
  BY <1>1, SelectBalance, ServeBalance, QuietBalance, TallyBalance DEF StepOf, Step
<1>2. CASE UNCHANGED vars \/ \E f \in File : Grow(f)
  <2>1. stats' = stats /\ pc' = pc /\ aborted' = aborted
    BY <1>2 DEF vars, threadVars, Grow
  <2>2. QED
    BY <2>1 DEF StatsBalance, Selected, Served, Undecided
<1>3. QED
  BY <1>1, <1>2, NextCases

\* The statistics account for every chunk: each path on_selected counted ends in one hit,
\* miss, GDS read or fallback, in a failed call, or is still under way, for any number of
\* threads.
THEOREM EngineStatsBalance == Spec => []StatsBalance
<1>1. Init => StatsBalance
  <2>1. ASSUME Init PROVE Undecided = 0
    <3>1. {t \in Thread : pc[t] \in {"hit", "gds", "fallback", "posix", "admit", "count"}} = {}
      BY <2>1 DEF Init
    <3>2. QED
      BY <3>1, FS_EmptySet DEF Undecided
  <2>2. ASSUME Init PROVE Selected = 0 /\ Served = 0 /\ aborted = 0
    BY <2>2 DEF Init, Selected, Served, Counter
  <2>3. QED
    BY <2>1, <2>2 DEF StatsBalance
<1>2. ControlInv /\ StatsBalance /\ [Next]_vars => StatsBalance'
  BY NextBalance
<1>3. QED
  BY <1>1, <1>2, EngineControl, PTL DEF Spec
-----------------------------------------------------------------------------
(* The cache that the engine keeps is the one CacheDirectory specifies, so *)
(* what is proved about the directory holds with these callers.            *)

\* The order of use, which only the LRU part of those proofs speaks of, is not recorded here.
DP == INSTANCE CacheDirectoryProofs WITH recency <- <<>>

LEMMA LookupIsDirectoryStep ==
    ASSUME TableTyped, NEW k, Dir!lookup(k)
    PROVE  [Dir!DirNext]_(Dir!dirVars)
<1>1. CASE k \in Key
  BY <1>1 DEF Dir!DirNext
<1>2. CASE k \notin Key
  <2>1. ~Dir!contains(k)
    BY <1>2 DEF TableTyped, Dir!contains
  <2>2. QED
    BY <2>1 DEF Dir!lookup
<1>3. QED
  BY <1>1, <1>2

LEMMA InsertIsDirectoryStep ==
    ASSUME NEW k, NEW d, NEW v, Holds(k, d, v), Dir!insert(k, d, v)
    PROVE  [Dir!DirNext]_(Dir!dirVars)
<1>1. d \in Content /\ v \in 0..ChunkSize /\ (v > 0 => k \in Key)
  BY DEF Holds
<1>2. CASE v > 0
  BY <1>1, <1>2 DEF Dir!DirNext
<1>3. CASE ~(v > 0)
  <2>1. ~Dir!Admits(v)
    BY <1>1, <1>3, EngineAssumption DEF Dir!Admits
  <2>2. QED
    BY <2>1 DEF Dir!insert
<1>4. QED
  BY <1>2, <1>3

\* The steps that do not call the directory.
LEMMA CacheKept ==
    ASSUME NEW t \in Thread, StepOf(t), ~Lookup(t), ~Admit(t), ~Store(t)
    PROVE  UNCHANGED cacheVars
<1>1. CASE Select(t) \/ Count(t) \/ TallyPrefetch(t)
  BY <1>1 DEF Select, Count, TallyPrefetch
<1>2. CASE ServeHit(t) \/ ReadGds(t) \/ ReadFallback(t) \/ ReadPosix(t)
  BY <1>2 DEF ServeHit, ReadGds, ReadFallback, ReadPosix, Abort
<1>3. CASE Complete(t) \/ CompleteReadv(t) \/ Probe(t) \/ Load(t) \/ Scatter(t)
  BY <1>3 DEF Complete, CompleteReadv, Probe, Load, Scatter
<1>4. ASSUME NEW c \in Call, Begin(t, c) \/ BeginReadv(t, c) PROVE UNCHANGED cacheVars
  BY <1>4 DEF Begin, BeginReadv
<1>5. QED
  BY <1>1, <1>2, <1>3, <1>4 DEF StepOf, Step

LEMMA NextIsDirectoryStep ==
    ASSUME ControlInv, [Next]_vars
    PROVE  [Dir!DirNext]_(Dir!dirVars)
<1>1. ASSUME NEW t \in Thread, StepOf(t) PROVE [Dir!DirNext]_(Dir!dirVars)
  <2>1. CASE Lookup(t)
    BY <2>1, LookupIsDirectoryStep DEF Lookup, ControlInv, SharedTyped
  <2>2. CASE Admit(t) \/ Store(t)
    <3>1. Holds(KeyOf(t), chunk[t].data, ValidSize(t)) /\ Dir!insert(KeyOf(t), chunk[t].data, ValidSize(t))
      BY <2>2 DEF Admit, Store, ControlInv, ThreadInv, ChunkHolds, ValidSize
    <3>2. QED
      BY <3>1, InsertIsDirectoryStep
  <2>3. CASE UNCHANGED cacheVars
    BY <2>3 DEF cacheVars, Dir!dirVars
  <2>4. QED
    BY <1>1, <2>1, <2>2, <2>3, CacheKept
<1>2. CASE UNCHANGED vars \/ \E f \in File : Grow(f)
  BY <1>2 DEF vars, Grow, cacheVars, Dir!dirVars
<1>3. QED
  BY <1>1, <1>2, NextCases

\* Whatever the threads do, the engine calls the chunk cache as CacheDirectory specifies it.
THEOREM EngineImplementsDirectory == Spec => Dir!DirSpec
<1>1. Init => Dir!DirInit
  BY DEF Init
<1>2. ControlInv /\ [Next]_vars => [Dir!DirNext]_(Dir!dirVars)
  BY NextIsDirectoryStep
<1>3. QED
  BY <1>1, <1>2, EngineControl, PTL DEF Spec, Dir!DirSpec

\* The two instances of CacheDirectory, this module's and its proofs', are the same.
LEMMA SameDirectory ==
    /\ Dir!DirInit => DP!DirInit
    /\ [Dir!DirNext]_(Dir!dirVars) => [DP!DirNext]_(DP!dirVars)
<1>1. Dir!DirInit => DP!DirInit
  BY DEF Dir!DirInit, DP!DirInit
<1>2. Dir!DirNext => DP!DirNext
  BY DEF Dir!DirNext, DP!DirNext, Dir!lookup, DP!lookup, Dir!contains, DP!contains, Dir!touch, DP!touch,
         Dir!dirVars, DP!dirVars, Dir!insert, DP!insert, Dir!Admits, DP!Admits, Dir!Evicts, DP!Evicts,
         Dir!StopsAfter, DP!StopsAfter, Dir!UsedAfter, DP!UsedAfter, Dir!Victims, DP!Victims,
         Dir!Oldest, DP!Oldest, Dir!AddrsAt, DP!AddrsAt, Dir!Positions, DP!Positions,
         Dir!Cardinality, DP!Cardinality, Dir!store, DP!store, Dir!Node, DP!Node,
         Dir!MoveToFront, DP!MoveToFront
<1>3. UNCHANGED Dir!dirVars => UNCHANGED DP!dirVars
  BY DEF Dir!dirVars, DP!dirVars
<1>4. QED
  BY <1>1, <1>2, <1>3

\* What CacheDirectoryProofs shows of the directory.
DirSound ==
    Dir!DirTypeOK /\ Dir!IteratorsValid /\ Dir!WithinBudget /\ Dir!LeavesRoomForOne /\ Dir!ListBounded

LEMMA SameProperties == DP!DirInv => DirSound
  BY DEF DP!DirInv, DirSound, Dir!DirTypeOK, DP!DirTypeOK, Dir!CacheEntry, DP!CacheEntry,
         Dir!ListNode, DP!ListNode, Dir!IteratorsValid, DP!IteratorsValid, Dir!Positions, DP!Positions,
         Dir!WithinBudget, DP!WithinBudget, Dir!LeavesRoomForOne, DP!LeavesRoomForOne,
         Dir!Leak, DP!Leak, Dir!ListBounded, DP!ListBounded, Dir!Cardinality, DP!Cardinality

\* However the threads' lookups and insertions interleave, the cache has no dangling iterator,
\* keeps within its budget and leaves room for one chunk.
THEOREM EngineCacheSound == Spec => []DirSound
<1>1. DP!DirSpec => []DP!DirInv
  BY EngineAssumption, DP!DirInvariant
<1>2. Dir!DirSpec => DP!DirSpec
  BY SameDirectory, PTL DEF Dir!DirSpec, DP!DirSpec
<1>3. QED
  BY <1>1, <1>2, EngineImplementsDirectory, SameProperties, PTL

\* Type correctness of the read engine.
THEOREM EngineTypeCorrect == Spec => []TypeOK
<1>1. ControlInv /\ DirSound => TypeOK
  <2> SUFFICES ASSUME ControlInv, DirSound PROVE TypeOK
    OBVIOUS
  <2>1. opt \in Options /\ Dir!DirTypeOK /\ stats \in [Counter -> Nat] /\ size \in [File -> InitialSize..MaxSize]
    BY DEF ControlInv, SharedTyped, DirSound
  <2>2. /\ pc \in [Thread -> {"idle", "lookup", "select", "hit", "gds", "fallback", "posix", "admit",
                              "count", "complete", "scatter", "merged", "probe", "load", "store", "tally"}]
        /\ path \in [Thread -> {"NONE", "DRAM_HIT", "POSIX_READ", "POSIX_READ_THEN_CACHE",
                                "GDS_READ", "GDS_STUB_FALLBACK"}]
    <3>1. {"idle", "complete", "scatter", "merged"} \cup InRead \cup InPrefetch =
              {"idle", "lookup", "select", "hit", "gds", "fallback", "posix", "admit",
               "count", "complete", "scatter", "merged", "probe", "load", "store", "tally"}
      BY DEF InRead, InPrefetch
    <3>2. Paths \cup {"NONE"} = {"NONE", "DRAM_HIT", "POSIX_READ", "POSIX_READ_THEN_CACHE",
                                 "GDS_READ", "GDS_STUB_FALLBACK"}
      BY DEF Paths
    <3>3. QED
      BY <3>1, <3>2 DEF ControlInv, ThreadsTyped
  <2>3. ASSUME NEW t \in Thread
        PROVE  /\ call[t].file \in File /\ call[t].offset \in Nat /\ call[t].size \in Nat
               /\ copied[t] \in 0..call[t].size
               /\ chunk[t].n \in 0..ChunkSize /\ chunk[t].data \in Seq(Bytes)
    BY DEF ControlInv, ThreadsTyped, CallRecord, ThreadInv, AtItsPlace
  <2>4. out \in [Thread -> Seq(Bytes)] /\ rc \in [Thread -> {"NONE", "OK", "ERR_IO", "ERR_CUDA"}]
    BY DEF ControlInv, ThreadsTyped
  <2>5. QED
    BY <2>1, <2>2, <2>3, <2>4 DEF TypeOK
<1>2. QED
  BY <1>1, EngineControl, EngineCacheSound, PTL
=============================================================================
