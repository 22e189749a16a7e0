--------------------------- MODULE SlotCacheProofs ----------------------------
(***************************************************************************)
(* The slot pools of the embedding runtime: the list, the entries and the  *)
(* free slots stay consistent for every set of blocks and every number of  *)
(* slots, so that allocation always finds a slot.                          *)
(***************************************************************************)
EXTENDS SlotCache, TLAPS

\* The inductive invariant: a pool has at least one slot.
SlotInv == Slot # {} /\ SlotTypeOK /\ ListMatchesEntries /\ SlotsPartitioned

-----------------------------------------------------------------------------
\* A function on 1..n with values in S is a sequence over S.
LEMMA SeqFromFunction ==
    ASSUME NEW S, NEW n \in Nat, NEW f \in [1..n -> S]
    PROVE  f \in Seq(S) /\ Len(f) = n
  OBVIOUS

\* The cached blocks are the listed ones, in a form the provers use.
LEMMA Listed ==
    ASSUME ListMatchesEntries
    PROVE  /\ \A i \in Positions : lru[i] \in Cached
           /\ \A b \in Cached : \E i \in Positions : lru[i] = b
  BY DEF ListMatchesEntries

\* With no slot free the list is not empty, and its last block is cached.
LEMMA VictimIsCached ==
    ASSUME SlotInv, free = {}
    PROVE  /\ Len(lru) \in Nat \ {0}
           /\ Len(lru) \in Positions
           /\ Victim \in Cached
<1>1. PICK b \in Cached : TRUE
  BY DEF SlotInv, SlotsPartitioned
<1>2. PICK i \in Positions : lru[i] = b
  BY <1>1, Listed DEF SlotInv
<1>3. Len(lru) \in Nat \ {0} /\ Len(lru) \in Positions
  BY <1>2 DEF SlotInv, SlotTypeOK, Positions
<1>4. QED
  BY <1>3, Listed DEF SlotInv, Victim

-----------------------------------------------------------------------------
(* The list operations.                                                    *)

LEMMA PushedList ==
    ASSUME SlotInv, NEW b \in Block \ Cached, lru' = Pushed(b)
    PROVE  /\ lru' \in Seq(Block)
           /\ \A i, j \in Positions' : lru'[i] = lru'[j] => i = j
           /\ {lru'[i] : i \in Positions'} = Cached \cup {b}
<1>1. lru \in Seq(Block) /\ Len(lru) \in Nat
  BY DEF SlotInv, SlotTypeOK
<1>2. Pushed(b) \in [1..(Len(lru) + 1) -> Block]
  BY <1>1 DEF Pushed
<1>3. lru' \in Seq(Block) /\ Positions' = 1..(Len(lru) + 1)
  BY <1>1, <1>2, SeqFromFunction DEF Positions
<1>4. \A i \in Positions' : lru'[i] = IF i = 1 THEN b ELSE lru[i - 1]
  BY <1>3 DEF Pushed
<1>5. \A i \in Positions' : i # 1 => i - 1 \in Positions /\ lru[i - 1] \in Cached
  BY <1>1, <1>3, Listed DEF SlotInv, Positions
<1>6. ASSUME NEW i \in Positions', NEW j \in Positions', lru'[i] = lru'[j] PROVE i = j
  <2>1. i = 1 <=> j = 1
    BY <1>4, <1>5, <1>6
  <2>2. CASE i # 1
    <3>1. i - 1 = j - 1
      BY <1>4, <1>5, <1>6, <2>1, <2>2 DEF SlotInv, ListMatchesEntries
    <3>2. QED
      BY <1>3, <3>1
  <2>3. QED
    BY <2>1, <2>2
<1>7. ASSUME NEW c \in Cached PROVE \E i \in Positions' : lru'[i] = c
  <2>1. PICK i \in Positions : lru[i] = c
    BY Listed DEF SlotInv
  <2>2. i + 1 \in Positions' /\ i + 1 # 1 /\ (i + 1) - 1 = i
    BY <1>1, <1>3 DEF Positions
  <2>3. QED
    BY <1>4, <2>1, <2>2
<1>8. 1 \in Positions' /\ lru'[1] = b
  BY <1>1, <1>3, <1>4
<1>9. \A i \in Positions' : lru'[i] \in Cached \cup {b}
  BY <1>4, <1>5
<1>10. QED
  BY <1>3, <1>6, <1>7, <1>8, <1>9

LEMMA MovedList ==
    ASSUME SlotInv, NEW k \in Positions, NEW b \in Block, lru[k] = b, lru' = MovedToFront(k, b)
    PROVE  /\ lru' \in Seq(Block)
           /\ \A i, j \in Positions' : lru'[i] = lru'[j] => i = j
           /\ {lru'[i] : i \in Positions'} = Cached
<1>1. lru \in Seq(Block) /\ Len(lru) \in Nat /\ k \in 1..Len(lru)
  BY DEF SlotInv, SlotTypeOK, Positions
<1>2. MovedToFront(k, b) \in [1..Len(lru) -> Block]
  BY <1>1 DEF MovedToFront, Positions
<1>3. lru' \in Seq(Block) /\ Positions' = 1..Len(lru)
  BY <1>1, <1>2, SeqFromFunction DEF Positions
\* Position j of the new list held the block that was at From(j).
<1> DEFINE From(j) == IF j = 1 THEN k ELSE IF j <= k THEN j - 1 ELSE j
           To(i) == IF i = k THEN 1 ELSE IF i < k THEN i + 1 ELSE i
<1>4. \A j \in 1..Len(lru) : From(j) \in 1..Len(lru) /\ lru'[j] = lru[From(j)]
  BY <1>1 DEF MovedToFront, Positions
<1>5. \A i, j \in 1..Len(lru) : From(i) = From(j) => i = j
  BY <1>1
<1>6. \A i \in 1..Len(lru) : To(i) \in 1..Len(lru) /\ From(To(i)) = i
  BY <1>1
<1> HIDE DEF From, To
<1>7. \A i, j \in 1..Len(lru) : lru[i] = lru[j] => i = j
  BY DEF SlotInv, ListMatchesEntries, Positions
<1>8. ASSUME NEW i \in Positions', NEW j \in Positions', lru'[i] = lru'[j] PROVE i = j
  <2>1. i \in 1..Len(lru) /\ j \in 1..Len(lru)
    BY <1>3
  <2>2. lru[From(i)] = lru[From(j)] /\ From(i) \in 1..Len(lru) /\ From(j) \in 1..Len(lru)
    BY <1>4, <1>8, <2>1
  <2>3. From(i) = From(j)
    BY <1>7, <2>2
  <2>4. QED
    BY <1>5, <2>1, <2>3
<1>9. \A i \in Positions' : lru'[i] \in Cached
  BY <1>3, <1>4, Listed DEF SlotInv, Positions
<1>10. ASSUME NEW c \in Cached PROVE \E i \in Positions' : lru'[i] = c
  <2>1. PICK i \in 1..Len(lru) : lru[i] = c
    BY Listed DEF SlotInv, Positions
  <2>2. QED
    BY <1>3, <1>4, <1>6, <2>1
<1>11. QED
  BY <1>3, <1>8, <1>9, <1>10

LEMMA ReplacedList ==
    ASSUME SlotInv, free = {}, NEW b \in Block \ Cached, lru' = InsteadOfVictim(b)
    PROVE  /\ lru' \in Seq(Block)
           /\ \A i, j \in Positions' : lru'[i] = lru'[j] => i = j
           /\ {lru'[i] : i \in Positions'} = (Cached \ {Victim}) \cup {b}
<1>1. lru \in Seq(Block) /\ Len(lru) \in Nat \ {0}
  BY VictimIsCached DEF SlotInv, SlotTypeOK
<1>2. InsteadOfVictim(b) \in [1..Len(lru) -> Block]
  BY <1>1 DEF InsteadOfVictim, Positions
<1>3. lru' \in Seq(Block) /\ Positions' = 1..Len(lru)
  BY <1>1, <1>2, SeqFromFunction DEF Positions
<1>4. \A i \in 1..Len(lru) : lru'[i] = IF i = 1 THEN b ELSE lru[i - 1]
  BY DEF InsteadOfVictim, Positions
<1>5. \A i, j \in 1..Len(lru) : lru[i] = lru[j] => i = j
  BY DEF SlotInv, ListMatchesEntries, Positions
<1>6. \A i \in 1..Len(lru) : i # 1 => /\ i - 1 \in 1..Len(lru)
                                       /\ lru[i - 1] \in Cached
                                       /\ lru[i - 1] # Victim
  BY <1>1, <1>5, Listed DEF SlotInv, Positions, Victim
<1>7. ASSUME NEW i \in Positions', NEW j \in Positions', lru'[i] = lru'[j] PROVE i = j
  <2>1. i \in 1..Len(lru) /\ j \in 1..Len(lru)
    BY <1>3
  <2>2. i = 1 <=> j = 1
    BY <1>4, <1>6, <1>7, <2>1
  <2>3. CASE i # 1
    <3>1. lru[i - 1] = lru[j - 1]
      BY <1>4, <1>7, <2>1, <2>2, <2>3
    <3>2. i - 1 \in 1..Len(lru) /\ j - 1 \in 1..Len(lru)
      BY <1>6, <2>1, <2>2, <2>3
    <3>3. i - 1 = j - 1
      BY <1>5, <3>1, <3>2
    <3>4. QED
      BY <2>1, <3>3
  <2>4. QED
    BY <2>2, <2>3
<1>8. \A i \in Positions' : lru'[i] \in (Cached \ {Victim}) \cup {b}
  BY <1>3, <1>4, <1>6
<1>9. ASSUME NEW c \in Cached \ {Victim} PROVE \E i \in Positions' : lru'[i] = c
  <2>1. PICK i \in 1..Len(lru) : lru[i] = c
    BY Listed DEF SlotInv, Positions
  <2>2. i + 1 \in 1..Len(lru) /\ i + 1 # 1 /\ (i + 1) - 1 = i
    BY <1>1, <2>1 DEF Victim
  <2>3. QED
    BY <1>3, <1>4, <2>1, <2>2
<1>10. 1 \in Positions' /\ lru'[1] = b
  BY <1>1, <1>3, <1>4
<1>11. QED
  BY <1>3, <1>7, <1>8, <1>9, <1>10

LEMMA PoppedList ==
    ASSUME SlotInv, free = {}, lru' = SubSeq(lru, 1, Len(lru) - 1)
    PROVE  /\ lru' \in Seq(Block)
           /\ \A i, j \in Positions' : lru'[i] = lru'[j] => i = j
           /\ {lru'[i] : i \in Positions'} = Cached \ {Victim}
<1>1. lru \in Seq(Block) /\ Len(lru) \in Nat \ {0}
  BY VictimIsCached DEF SlotInv, SlotTypeOK
<1>2. /\ lru' \in Seq(Block)
      /\ Positions' = 1..(Len(lru) - 1)
      /\ \A i \in Positions' : lru'[i] = lru[i]
  BY <1>1 DEF Positions
<1>3. \A i, j \in 1..Len(lru) : lru[i] = lru[j] => i = j
  BY DEF SlotInv, ListMatchesEntries, Positions
<1>4. \A i \in Positions' : i \in 1..Len(lru) /\ lru[i] \in Cached /\ lru[i] # Victim
  BY <1>1, <1>2, <1>3, Listed DEF SlotInv, Positions, Victim
<1>5. ASSUME NEW c \in Cached \ {Victim} PROVE \E i \in Positions' : lru'[i] = c
  <2>1. PICK i \in 1..Len(lru) : lru[i] = c
    BY Listed DEF SlotInv, Positions
  <2>2. QED
    BY <1>1, <1>2, <2>1 DEF Victim
<1>6. QED
  BY <1>2, <1>3, <1>4, <1>5

-----------------------------------------------------------------------------
LEMMA InitSlotInv == Slot # {} /\ SlotInit => SlotInv
<1> SUFFICES ASSUME Slot # {}, SlotInit PROVE SlotInv
  OBVIOUS
<1>1. Cached = {} /\ lru = <<>> /\ free = Slot
  BY DEF SlotInit, Cached
<1>2. SlotTypeOK
  BY <1>1 DEF SlotInit, SlotTypeOK
<1>3. QED
  BY <1>1, <1>2 DEF SlotInv, ListMatchesEntries, SlotsPartitioned, Positions

\* touch() changes the order of the list alone.
LEMMA TouchSlotInv ==
    ASSUME SlotInv, NEW b \in Block, touch(b)
    PROVE  SlotInv'
<1>1. PICK k \in Positions : lru[k] = b /\ lru' = MovedToFront(k, b) /\ UNCHANGED <<slotOf, free>>
  BY DEF touch
<1>2. /\ lru' \in Seq(Block)
      /\ \A i, j \in Positions' : lru'[i] = lru'[j] => i = j
      /\ {lru'[i] : i \in Positions'} = Cached
  BY <1>1, MovedList
<1>3. QED
  BY <1>1, <1>2 DEF SlotInv, SlotTypeOK, ListMatchesEntries, SlotsPartitioned, Cached

LEMMA TakeFreeSlotInv ==
    ASSUME SlotInv, NEW b \in Block \ Cached, TakeFree(b)
    PROVE  SlotInv'
<1>1. PICK s \in free : /\ slotOf' = [x \in Cached \cup {b} |-> IF x = b THEN s ELSE slotOf[x]]
                        /\ lru' = Pushed(b)
                        /\ free' = free \ {s}
  BY DEF TakeFree, ListWith, FreeWithout
<1>2. /\ lru' \in Seq(Block)
      /\ \A i, j \in Positions' : lru'[i] = lru'[j] => i = j
      /\ {lru'[i] : i \in Positions'} = Cached \cup {b}
  BY <1>1, PushedList
<1>3. Cached' = Cached \cup {b} /\ slotOf'[b] = s /\ \A x \in Cached : slotOf'[x] = slotOf[x]
  BY <1>1 DEF Cached
<1>4. SlotTypeOK'
  BY <1>1, <1>2, <1>3 DEF SlotInv, SlotTypeOK
<1>5. ListMatchesEntries'
  BY <1>2, <1>3 DEF ListMatchesEntries
<1>6. SlotsPartitioned'
  BY <1>1, <1>3 DEF SlotInv, SlotTypeOK, SlotsPartitioned
<1>7. QED
  BY <1>4, <1>5, <1>6 DEF SlotInv

LEMMA TakeVictimsSlotInv ==
    ASSUME SlotInv, NEW b \in Block \ Cached, TakeVictims(b)
    PROVE  SlotInv'
<1>1. /\ free = {} /\ free' = {}
      /\ slotOf' = [x \in (Cached \ {Victim}) \cup {b} |->
                       IF x = b THEN slotOf[Victim] ELSE slotOf[x]]
      /\ lru' = InsteadOfVictim(b)
  BY DEF TakeVictims
<1>2. /\ lru' \in Seq(Block)
      /\ \A i, j \in Positions' : lru'[i] = lru'[j] => i = j
      /\ {lru'[i] : i \in Positions'} = (Cached \ {Victim}) \cup {b}
  BY <1>1, ReplacedList
<1>3. Victim \in Cached
  BY <1>1, VictimIsCached
<1>4. /\ Cached' = (Cached \ {Victim}) \cup {b}
      /\ slotOf'[b] = slotOf[Victim]
      /\ \A x \in Cached \ {Victim} : slotOf'[x] = slotOf[x]
  BY <1>1 DEF Cached
<1>5. SlotTypeOK'
  BY <1>1, <1>2, <1>3, <1>4 DEF SlotInv, SlotTypeOK
<1>6. ListMatchesEntries'
  BY <1>2, <1>4 DEF ListMatchesEntries
<1>7. SlotsPartitioned'
  BY <1>1, <1>3, <1>4 DEF SlotInv, SlotsPartitioned
<1>8. QED
  BY <1>5, <1>6, <1>7 DEF SlotInv

LEMMA EvictSlotInv ==
    ASSUME SlotInv, evict_if_needed
    PROVE  SlotInv'
<1>1. /\ free = {} /\ free' = {slotOf[Victim]}
      /\ slotOf' = [x \in Cached \ {Victim} |-> slotOf[x]]
      /\ lru' = SubSeq(lru, 1, Len(lru) - 1)
  BY DEF evict_if_needed, VictimsSlot
<1>2. /\ lru' \in Seq(Block)
      /\ \A i, j \in Positions' : lru'[i] = lru'[j] => i = j
      /\ {lru'[i] : i \in Positions'} = Cached \ {Victim}
  BY <1>1, PoppedList
<1>3. Victim \in Cached
  BY <1>1, VictimIsCached
<1>4. Cached' = Cached \ {Victim} /\ \A x \in Cached \ {Victim} : slotOf'[x] = slotOf[x]
  BY <1>1 DEF Cached
<1>5. SlotTypeOK'
  BY <1>1, <1>2, <1>3, <1>4 DEF SlotInv, SlotTypeOK
<1>6. ListMatchesEntries'
  BY <1>2, <1>4 DEF ListMatchesEntries
<1>7. SlotsPartitioned'
  BY <1>1, <1>3, <1>4 DEF SlotInv, SlotsPartitioned
<1>8. QED
  BY <1>5, <1>6, <1>7 DEF SlotInv

-----------------------------------------------------------------------------
\* SlotInv is an inductive invariant of the pool.
THEOREM SlotInvariant == Slot # {} /\ SlotSpec => []SlotInv
<1>1. SlotInv /\ [SlotNext]_slotVars => SlotInv'
  <2> SUFFICES ASSUME SlotInv, [SlotNext]_slotVars PROVE SlotInv'
    OBVIOUS
  <2>1. ASSUME UNCHANGED slotVars PROVE SlotInv'
    BY <2>1 DEF slotVars, SlotInv, SlotTypeOK, ListMatchesEntries, SlotsPartitioned, Cached, Positions
  <2>2. ASSUME NEW b \in Block, get(b) PROVE SlotInv'
    BY <2>1, <2>2, TouchSlotInv DEF get
  <2>3. ASSUME NEW b \in Block, allocate(b) PROVE SlotInv'
    BY <2>3, TouchSlotInv, TakeFreeSlotInv, TakeVictimsSlotInv DEF allocate
  <2>4. ASSUME evict_if_needed PROVE SlotInv'
    BY <2>4, EvictSlotInv
  <2>5. QED
    BY <2>1, <2>2, <2>3, <2>4 DEF SlotNext
<1>2. QED
  BY <1>1, InitSlotInv, PTL DEF SlotSpec

\* No slot is ever given to two blocks, freed while a block has it, or lost, whatever
\* sequence of get(), allocate() and evict_if_needed() calls is made.
THEOREM SlotPartition == Slot # {} /\ SlotSpec => []SlotsPartitioned
<1>1. SlotInv => SlotsPartitioned
  BY DEF SlotInv
<1>2. QED
  BY <1>1, SlotInvariant, PTL

\* lru_ lists exactly the cached blocks, each once.
THEOREM SlotListMatchesEntries == Slot # {} /\ SlotSpec => []ListMatchesEntries
<1>1. SlotInv => ListMatchesEntries
  BY DEF SlotInv
<1>2. QED
  BY <1>1, SlotInvariant, PTL

\* allocate() never reads the back of an empty list or of an empty stack.
THEOREM SlotAlwaysAllocatable == Slot # {} /\ SlotSpec => []AlwaysAllocatable
<1>1. SlotInv => AlwaysAllocatable
  BY VictimIsCached DEF AlwaysAllocatable
<1>2. QED
  BY <1>1, SlotInvariant, PTL
=============================================================================
