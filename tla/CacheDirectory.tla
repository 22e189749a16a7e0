---------------------------- MODULE CacheDirectory ----------------------------
(***************************************************************************)
(* The DRAM chunk cache of the core runtime (src/src/cache_directory.cpp): *)
(* a hash table of entries and a std::list that orders their keys from     *)
(* most to least recently used.  Every method holds mu_ from its first to  *)
(* its last access, so each is one atomic action.                          *)
(*                                                                         *)
(* The list is a sequence of nodes, front first.  A node has the address   *)
(* it was allocated at, and an entry's lru_it is such an address: a        *)
(* dangling iterator is an address that no node of the list has.           *)
(*                                                                         *)
(* insert() neither looks for an entry under the key it stores nor removes *)
(* that entry's list node, so storing a key that is present leaves a node  *)
(* behind and counts the chunk twice.  Callers look the key up first, but  *)
(* in another critical section.                                            *)
(***************************************************************************)
EXTENDS Integers, Sequences, FiniteSets

CONSTANTS
    Key,         \* cache keys: (file_id, chunk_id)
    Content,     \* what the bytes of a chunk can be
    Addr,        \* where a list node can be allocated
    ChunkSize,   \* chunk_size_
    CacheSize    \* cache_size_bytes_

ASSUME SizeAssumption == ChunkSize \in Nat \ {0} /\ CacheSize \in Nat

VARIABLES
    table,       \* table_: from the keys present to their entries
    lru,         \* lru_: the list's nodes, front (most recent) first
    used         \* used_bytes_

dirVars == <<table, lru, used>>

ListNode == [key : Key, addr : Addr]

CacheEntry == [data : Content, valid_size : 1..ChunkSize, lru_it : Addr]

Node(d, v, a) == [data |-> d, valid_size |-> v, lru_it |-> a]

DirTypeOK ==
    /\ DOMAIN table \subseteq Key
    /\ table \in [DOMAIN table -> CacheEntry]
    /\ lru \in Seq(ListNode)
    /\ used \in Nat

-----------------------------------------------------------------------------
(* The list.                                                               *)

\* The addresses of the nodes at the positions I.
AddrsAt(I) == {lru[i].addr : i \in I}

Positions == 1..Len(lru)

\* Bug: the node is pushed in front but the old one is not erased.
MoveToFrontWithoutErase(i, node) ==
    [j \in 1..(Len(lru) + 1) |-> IF j = 1 THEN node ELSE lru[j - 1]]

\* lru_.erase(it) of the node at position i, then lru_.push_front(node).
MoveToFront(i, node) ==
    [j \in Positions |-> IF j = 1 THEN node ELSE IF j <= i THEN lru[j - 1] ELSE lru[j]]

\* The n least recently used positions, which pop_back() removes first.
Oldest(n) == (Len(lru) - n + 1)..Len(lru)

\* The keys that popping n nodes erases from the table.
Victims(n) == {lru[i].key : i \in Oldest(n)} \cap DOMAIN table

\* Bug: evicted bytes are not subtracted.
UsedWithoutSubtraction(n) == used

\* used_bytes_ after popping n nodes: every entry's data has chunk_size_ bytes.
UsedAfter(n) == used - ChunkSize * Cardinality(Victims(n))

\* Bug: the loop makes no room for the chunk about to be stored.
StopsAtBudget(n) == UsedAfter(n) <= CacheSize \/ n = Len(lru)

\* The condition of the eviction loop is false once n nodes are popped.
StopsAfter(n) == UsedAfter(n) + ChunkSize <= CacheSize \/ n = Len(lru)

\* The loop pops exactly n nodes.
Evicts(n) == StopsAfter(n) /\ \A m \in 0..(n - 1) : ~StopsAfter(m)

-----------------------------------------------------------------------------
(* The methods.                                                            *)

DirInit ==
    /\ table = [k \in {} |-> 0]
    /\ lru = <<>>
    /\ used = 0

contains(k) == k \in DOMAIN table

\* What lookup() copies out of an entry.
Payload(k) == [data |-> table[k].data, valid_size |-> table[k].valid_size]

\* Bug: lru_it is not updated.
touchWithoutIterator(k) ==
    \E i \in Positions :
        /\ lru[i].addr = table[k].lru_it
        /\ \E a \in Addr \ AddrsAt(Positions \ {i}) :
               lru' = MoveToFront(i, [key |-> k, addr |-> a])
        /\ UNCHANGED table

\* Bug: a hit does not change the order.
touchWithoutMove(k) == UNCHANGED <<table, lru>>

\* touch(): erase the node that lru_it names and allocate a new one in front.
touch(k) ==
    \E i \in Positions :
        /\ lru[i].addr = table[k].lru_it
        /\ \E a \in Addr \ AddrsAt(Positions \ {i}) :
               /\ lru' = MoveToFront(i, [key |-> k, addr |-> a])
               /\ table' = [table EXCEPT ![k] = Node(table[k].data, table[k].valid_size, a)]

\* lookup(): the caller gets Payload(k) when it returns true.
lookup(k) ==
    \/ /\ contains(k)
       /\ touch(k)
       /\ UNCHANGED used
    \/ /\ ~contains(k)
       /\ UNCHANGED dirVars

\* The arguments for which insert() returns true.
Admits(valid_size) ==
    /\ valid_size \in 1..ChunkSize
    /\ ChunkSize <= CacheSize
    /\ CacheSize # 0

\* Evict n nodes, put a new one in front, and (over)write the key's entry.
store(k, data, valid_size, n, a) ==
    LET kept  == DOMAIN table \ Victims(n)
        node  == Node(data, valid_size, a)
    IN  /\ lru' = [j \in 1..(Len(lru) - n + 1) |->
                      IF j = 1 THEN [key |-> k, addr |-> a] ELSE lru[j - 1]]
        /\ table' = [x \in kept \cup {k} |-> IF x = k THEN node ELSE table[x]]
        /\ used' = UsedAfter(n) + ChunkSize

insert(k, data, valid_size) ==
    \/ /\ Admits(valid_size)
       /\ \E n \in 0..Len(lru) :
              /\ Evicts(n)
              /\ \E a \in Addr \ AddrsAt(Positions \ Oldest(n)) :
                     store(k, data, valid_size, n, a)
    \/ /\ ~Admits(valid_size)
       /\ UNCHANGED dirVars

-----------------------------------------------------------------------------
(* The directory under any sequence of calls.                              *)

DirNext ==
    \E k \in Key :
        \/ lookup(k)
        \/ \E d \in Content, v \in 0..ChunkSize : insert(k, d, v)

DirSpec == DirInit /\ [][DirNext]_dirVars

-----------------------------------------------------------------------------
(* Properties.                                                             *)

\* No dangling iterator: the lru_it of every entry is the address of one node
\* of the list, and that node holds the entry's key.  touch() erases it.
IteratorsValid ==
    /\ \A i, j \in Positions : lru[i].addr = lru[j].addr => i = j
    /\ \A k \in DOMAIN table :
           \E i \in Positions : lru[i] = [key |-> k, addr |-> table[k].lru_it]

\* What insert() has counted twice: used_bytes_ beyond the table's entries.
Leak == used - ChunkSize * Cardinality(DOMAIN table)

\* The bytes of the entries in memory never exceed cache_size_bytes_, used_bytes_
\* never counts fewer bytes than there are (so its subtraction cannot wrap), and it
\* never exceeds cache_size_bytes_ itself, duplicate inserts included.
WithinBudget ==
    /\ ChunkSize * Cardinality(DOMAIN table) <= used
    /\ used <= CacheSize

\* However many bytes duplicate inserts leaked, one chunk always fits: an admitted
\* insert() never meets an empty list with the budget exhausted.
LeavesRoomForOne == ChunkSize <= CacheSize => Leak <= CacheSize - ChunkSize

\* The list, which keeps the nodes of overwritten and evicted entries, is itself
\* bounded: no sequence of calls makes it grow past the number of chunks that fit.
ListBounded == ChunkSize * Len(lru) <= used

=============================================================================
