------------------------------- MODULE SlotCache ------------------------------
(***************************************************************************)
(* A fixed pool of block-sized slots with an LRU list: DramCache           *)
(* (memtier_embedding_bench/src/dram_cache.cpp) and HbmCache               *)
(* (memtier_embedding_bench/src/memtier_api.cpp) have the same methods on  *)
(* the same three containers.  Each method holds the cache's mutex.        *)
(*                                                                         *)
(* lru_ holds each cached block once, so a block stands for its list node. *)
(* free_slots_ is a stack; which free slot is handed out first is left     *)
(* open.  What the slots contain is up to the caller.                      *)
(***************************************************************************)
EXTENDS Integers, Sequences, FiniteSets

CONSTANTS
    Block,      \* block ids
    Slot        \* slots of the pool: max(1, cache_bytes / block_bytes) of them

VARIABLES
    slotOf,     \* entries_: from the cached blocks to their slots
    lru,        \* lru_: the cached blocks, most recently used first
    free        \* free_slots_

slotVars == <<slotOf, lru, free>>

Cached == DOMAIN slotOf
Positions == 1..Len(lru)

SlotTypeOK ==
    /\ Cached \subseteq Block
    /\ slotOf \in [Cached -> Slot]
    /\ lru \in Seq(Block)
    /\ free \subseteq Slot

SlotInit ==
    /\ slotOf = [b \in {} |-> 0]
    /\ lru = <<>>
    /\ free = Slot

Pushed(b) == [j \in 1..(Len(lru) + 1) |-> IF j = 1 THEN b ELSE lru[j - 1]]

\* lru_.erase of the node at position i, then lru_.push_front(b).
MovedToFront(i, b) ==
    [j \in Positions |-> IF j = 1 THEN b ELSE IF j <= i THEN lru[j - 1] ELSE lru[j]]

touch(b) ==
    \E i \in Positions :
        /\ lru[i] = b
        /\ lru' = MovedToFront(i, b)
        /\ UNCHANGED <<slotOf, free>>

\* get(): the caller gets slotOf[b], or a null pointer.
get(b) ==
    \/ b \in Cached /\ touch(b)
    \/ b \notin Cached /\ UNCHANGED slotVars

\* The block that makes room when no slot is free.
Victim == lru[Len(lru)]

ListWith(b)    == Pushed(b)
FreeWithout(s) == free \ {s}

\* A slot is free: take it.
TakeFree(b) ==
    \E s \in free :
        /\ slotOf' = [x \in Cached \cup {b} |-> IF x = b THEN s ELSE slotOf[x]]
        /\ lru' = ListWith(b)
        /\ free' = FreeWithout(s)

NotPopped(b) == Pushed(b)    \* Bug: the victim's node stays in the list

\* lru_.pop_back() and lru_.push_front(b).
InsteadOfVictim(b) == [j \in Positions |-> IF j = 1 THEN b ELSE lru[j - 1]]

\* No slot is free: lru_.back() gives up its slot and b takes it.
TakeVictims(b) ==
    /\ free = {}
    /\ slotOf' = [x \in (Cached \ {Victim}) \cup {b} |-> IF x = b THEN slotOf[Victim] ELSE slotOf[x]]
    /\ lru' = InsteadOfVictim(b)
    /\ UNCHANGED free

\* allocate() and allocate_slot_for_load(): the caller gets slotOf'[b].
allocate(b) ==
    \/ b \in Cached /\ touch(b)
    \/ b \notin Cached /\ (TakeFree(b) \/ TakeVictims(b))

\* What allocate() evicts: a set of at most one block.
Evicted(b) == IF b \notin Cached /\ free = {} THEN {Victim} ELSE {}

VictimsSlot == slotOf[Victim]

\* DramCache::evict_if_needed().
evict_if_needed ==
    /\ free = {} /\ Cached # {}
    /\ free' = {VictimsSlot}
    /\ slotOf' = [x \in Cached \ {Victim} |-> slotOf[x]]
    /\ lru' = SubSeq(lru, 1, Len(lru) - 1)

SlotNext == (\E b \in Block : get(b) \/ allocate(b)) \/ evict_if_needed

SlotSpec == SlotInit /\ [][SlotNext]_slotVars

-----------------------------------------------------------------------------
\* The list holds the cached blocks, each once: lru_.back() is always a cached block,
\* and erasing a block's node removes its only one.
ListMatchesEntries ==
    /\ \A i, j \in Positions : lru[i] = lru[j] => i = j
    /\ {lru[i] : i \in Positions} = Cached

\* No slot belongs to two blocks, or to a block while it is free, and none is lost.
SlotsPartitioned ==
    /\ \A b, c \in Cached : slotOf[b] = slotOf[c] => b = c
    /\ \A b \in Cached : slotOf[b] \notin free
    /\ \A s \in Slot : s \in free \/ \E b \in Cached : slotOf[b] = s

\* allocate() never takes the back of an empty list or of an empty stack, which would
\* be undefined behaviour: with no slot free there is a block to evict.
AlwaysAllocatable == free = {} => lru # <<>> /\ Victim \in Cached
=============================================================================
