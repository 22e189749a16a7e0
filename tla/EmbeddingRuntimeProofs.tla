------------------------ MODULE EmbeddingRuntimeProofs ------------------------
(***************************************************************************)
(* Both caches of the embedding runtime are slot pools to which the        *)
(* runtime only applies the pool's own methods, so what SlotCacheProofs    *)
(* shows of a pool holds of DramCache and of HbmCache, for every number of *)
(* blocks, slots and lookups and whatever fails. From there: the residency *)
(* table agrees with HbmCache, the runtime implements BlockLookup, and the *)
(* pointers of a lookup hold their blocks once the device has copied.      *)
(***************************************************************************)
EXTENDS EmbeddingRuntime, SequenceTheorems, FiniteSetTheorems, TLAPS

DramPool == INSTANCE SlotCacheProofs WITH
    Slot <- DramSlot, slotOf <- dramOf, lru <- dramLru, free <- dramFree
HbmPool == INSTANCE SlotCacheProofs WITH
    Slot <- HbmSlot, slotOf <- hbmOf, lru <- hbmLru, free <- hbmFree

\* The loop of memtier_lookup_blocks is at a block of its batch whenever it calls a cache.
AtABlock ==
    /\ batch \in Seq(Block)
    /\ i \in Nat \ {0}
    /\ pc \in {"loading", "place"} => i <= Len(batch)

LEMMA CurrentIsABlock ==
    ASSUME AtABlock, i <= Len(batch)
    PROVE  Current \in Block
  BY DEF AtABlock, Current

LEMMA InitAtABlock == Init => AtABlock
  BY RuntimeAssumption DEF Init, AtABlock

LEMMA NextAtABlock ==
    ASSUME AtABlock, [Next]_vars
    PROVE  AtABlock'
<1>1. ASSUME NEW b \in Batch, Begin(b) PROVE AtABlock'
  BY <1>1, RuntimeAssumption DEF Begin, AtABlock
<1>2. CASE HbmHit
  BY <1>2 DEF HbmHit, AtBlock, AtABlock
<1>3. CASE DramHitByTable
  BY <1>3 DEF DramHitByTable, AtBlock, AtABlock
<1>4. CASE DramHitByCache
  BY <1>4 DEF DramHitByCache, AtBlock, AtABlock
<1>5. CASE StartLoad
  BY <1>5 DEF StartLoad, AtBlock, AtABlock
<1>6. CASE FinishLoad
  BY <1>6 DEF FinishLoad, AtABlock, lookupVars
<1>7. CASE FailLoad
  BY <1>7 DEF FailLoad, AtABlock, lookupVars
<1>8. CASE Place
  BY <1>8 DEF Place, AtABlock
<1>9. CASE FailCopy
  BY <1>9 DEF FailCopy, AtABlock, lookupVars
<1>10. CASE Finish
  BY <1>10 DEF Finish, AtABlock
<1>11. CASE FailSync
  BY <1>11 DEF FailSync, AtABlock, lookupVars
<1>12. ASSUME NEW s \in 1..Len(streams), Copy(s) PROVE AtABlock'
  BY <1>12 DEF Copy, AtABlock, lookupVars
<1>13. ASSUME NEW b \in Block, Release(b) PROVE AtABlock'
  BY <1>13 DEF Release, AtABlock, lookupVars
<1>14. ASSUME UNCHANGED vars PROVE AtABlock'
  BY <1>14 DEF vars, AtABlock, lookupVars
<1>15. QED
  BY <1>1, <1>2, <1>3, <1>4, <1>5, <1>6, <1>7, <1>8, <1>9, <1>10, <1>11, <1>12, <1>13, <1>14
     DEF Next, Done

\* A step of the runtime is a call of DramCache, or does not touch it.
LEMMA DramCalls ==
    ASSUME AtABlock, [Next]_vars
    PROVE  [DramPool!SlotNext]_(DramPool!slotVars)
<1> USE DEF dramVars, DramPool!slotVars
<1>1. CASE DramHitByCache
  <2>1. Current \in Block /\ Dram!get(Current)
    BY <1>1, CurrentIsABlock DEF DramHitByCache, AtBlock
  <2>2. DramPool!get(Current)
    BY <2>1 DEF Dram!get, DramPool!get, Dram!touch, DramPool!touch, Dram!Cached, DramPool!Cached,
        Dram!Positions, DramPool!Positions, Dram!MovedToFront, DramPool!MovedToFront,
        Dram!slotVars
  <2>3. QED
    BY <2>1, <2>2 DEF DramPool!SlotNext
<1>2. CASE StartLoad
  <2>1. Current \in Block /\ Dram!allocate(Current)
    BY <1>2, CurrentIsABlock DEF StartLoad, AtBlock
  <2>2. DramPool!allocate(Current)
    BY <2>1 DEF Dram!allocate, DramPool!allocate, Dram!touch, DramPool!touch, Dram!Cached, DramPool!Cached,
        Dram!Positions, DramPool!Positions, Dram!MovedToFront, DramPool!MovedToFront,
        Dram!TakeFree, DramPool!TakeFree, Dram!ListWith, DramPool!ListWith, Dram!Pushed, DramPool!Pushed,
        Dram!FreeWithout, DramPool!FreeWithout, Dram!TakeVictims, DramPool!TakeVictims,
        Dram!InsteadOfVictim, DramPool!InsteadOfVictim, Dram!Victim, DramPool!Victim
  <2>3. QED
    BY <2>1, <2>2 DEF DramPool!SlotNext
<1>3. CASE UNCHANGED vars
  BY <1>3 DEF vars
<1>4. QED
  BY <1>1, <1>2, <1>3 DEF Next, Done, Begin, HbmHit, DramHitByTable, FinishLoad, FailLoad, Place,
      FailCopy, Finish, FailSync, Copy, Release

\* A step of the runtime is a call of HbmCache, or does not touch it.
LEMMA HbmCalls ==
    ASSUME AtABlock, [Next]_vars
    PROVE  [HbmPool!SlotNext]_(HbmPool!slotVars)
<1> USE DEF hbmVars, HbmPool!slotVars
<1>1. CASE Place \/ FailCopy
  <2>1. Current \in Block /\ Hbm!allocate(Current)
    BY <1>1, CurrentIsABlock DEF Place, FailCopy, AtABlock
  <2>2. HbmPool!allocate(Current)
    BY <2>1 DEF Hbm!allocate, HbmPool!allocate, Hbm!touch, HbmPool!touch, Hbm!Cached, HbmPool!Cached,
        Hbm!Positions, HbmPool!Positions, Hbm!MovedToFront, HbmPool!MovedToFront,
        Hbm!TakeFree, HbmPool!TakeFree, Hbm!ListWith, HbmPool!ListWith, Hbm!Pushed, HbmPool!Pushed,
        Hbm!FreeWithout, HbmPool!FreeWithout, Hbm!TakeVictims, HbmPool!TakeVictims,
        Hbm!InsteadOfVictim, HbmPool!InsteadOfVictim, Hbm!Victim, HbmPool!Victim
  <2>3. QED
    BY <2>1, <2>2 DEF HbmPool!SlotNext
<1>2. CASE UNCHANGED vars
  BY <1>2 DEF vars
<1>3. QED
  BY <1>1, <1>2 DEF Next, Done, Begin, HbmHit, DramHitByTable, DramHitByCache, StartLoad, FinishLoad,
      FailLoad, Finish, FailSync, Copy, Release

-----------------------------------------------------------------------------
\* Whatever lookups, releases and failures do, DramCache and HbmCache see nothing but
\* their own methods.
THEOREM RuntimeUsesPools == Spec => DramPool!SlotSpec /\ HbmPool!SlotSpec
<1>1. Init => DramPool!SlotInit /\ HbmPool!SlotInit
  BY DEF Init, Dram!SlotInit, DramPool!SlotInit, Hbm!SlotInit, HbmPool!SlotInit
<1>2. QED
  BY <1>1, InitAtABlock, NextAtABlock, DramCalls, HbmCalls, PTL
     DEF Spec, DramPool!SlotSpec, HbmPool!SlotSpec

\* Neither cache ever gives a slot to two blocks, loses one, keeps a list that differs
\* from its entries, or takes the back of an empty container.
THEOREM RuntimeSlotsConsistent == Spec => []SlotsConsistent
<1>1. DramPool!ListMatchesEntries /\ DramPool!SlotsPartitioned /\ DramPool!AlwaysAllocatable
      /\ HbmPool!ListMatchesEntries /\ HbmPool!SlotsPartitioned /\ HbmPool!AlwaysAllocatable
      => SlotsConsistent
  BY DEF SlotsConsistent,
      Dram!ListMatchesEntries, DramPool!ListMatchesEntries, Dram!SlotsPartitioned,
      DramPool!SlotsPartitioned, Dram!AlwaysAllocatable, DramPool!AlwaysAllocatable,
      Dram!Cached, DramPool!Cached, Dram!Positions, DramPool!Positions, Dram!Victim,
      DramPool!Victim,
      Hbm!ListMatchesEntries, HbmPool!ListMatchesEntries, Hbm!SlotsPartitioned,
      HbmPool!SlotsPartitioned, Hbm!AlwaysAllocatable, HbmPool!AlwaysAllocatable, Hbm!Cached,
      HbmPool!Cached, Hbm!Positions, HbmPool!Positions, Hbm!Victim, HbmPool!Victim
<1>2. DramSlot # {} /\ HbmSlot # {}
  BY RuntimeAssumption
<1>3. QED
  BY <1>1, <1>2, RuntimeUsesPools,
     DramPool!SlotListMatchesEntries, DramPool!SlotPartition, DramPool!SlotAlwaysAllocatable,
     HbmPool!SlotListMatchesEntries, HbmPool!SlotPartition, HbmPool!SlotAlwaysAllocatable, PTL

-----------------------------------------------------------------------------
(* The residency table against HbmCache.                                   *)

\* Entries have their four fields, and dram_ptr of the block at hand is a slot.
TableTyped ==
    /\ \A b \in DOMAIN residency : residency[b] \in ResidencyEntry
    /\ src \in DramSlot \cup {Null}

\* What the table needs of the caches: their pointers are slots, before and after a step.
SlotsTyped ==
    /\ \A b \in DOMAIN dramOf : dramOf[b] \in DramSlot
    /\ \A b \in DOMAIN hbmOf : hbmOf[b] \in HbmSlot

LEMMA EntryTyped ==
    ASSUME TableTyped, NEW b
    PROVE  Entry(b) \in ResidencyEntry
  BY DEF TableTyped, Entry, ResidencyEntry

LEMMA MarkedTyped ==
    ASSUME NEW e \in ResidencyEntry, NEW n \in Nat, NEW d \in DramSlot \cup {Null}, NEW h \in HbmSlot
    PROVE  /\ [e EXCEPT !.ref_count = n] \in ResidencyEntry
           /\ [e EXCEPT !.ref_count = n].state = e.state
           /\ [e EXCEPT !.ref_count = n].device_ptr = e.device_ptr
           /\ marked_loading(e) \in ResidencyEntry /\ marked_loading(e).state # "IN_HBM"
           /\ marked_dram(e, d) \in ResidencyEntry /\ marked_dram(e, d).state # "IN_HBM"
           /\ marked_hbm(e, h) \in ResidencyEntry /\ marked_hbm(e, h).device_ptr = h
<1>1. /\ [e EXCEPT !.ref_count = n] \in ResidencyEntry
      /\ [e EXCEPT !.ref_count = n].state = e.state
      /\ [e EXCEPT !.ref_count = n].device_ptr = e.device_ptr
  BY DEF ResidencyEntry
<1>2. marked_loading(e) \in ResidencyEntry /\ marked_loading(e).state # "IN_HBM"
  BY DEF ResidencyEntry, marked_loading
<1>3. marked_dram(e, d) \in ResidencyEntry /\ marked_dram(e, d).state # "IN_HBM"
  BY DEF ResidencyEntry, marked_dram
<1>4. marked_hbm(e, h) \in ResidencyEntry /\ marked_hbm(e, h).device_ptr = h
  BY DEF ResidencyEntry, marked_hbm
<1>5. QED
  BY <1>1, <1>2, <1>3, <1>4

\* allocate() leaves every block but the evicted ones where it is.
LEMMA AllocateMoves ==
    ASSUME NEW b, Hbm!allocate(b)
    PROVE  /\ b \in DOMAIN hbmOf'
           /\ \A x \in DOMAIN hbmOf \ Hbm!Evicted(b) : x \in DOMAIN hbmOf' /\ hbmOf'[x] = hbmOf[x]
<1>1. CASE b \in Hbm!Cached
  BY <1>1 DEF Hbm!allocate, Hbm!touch, Hbm!Cached
<1>2. CASE b \notin Hbm!Cached /\ Hbm!TakeFree(b)
  BY <1>2 DEF Hbm!TakeFree, Hbm!Cached
<1>3. CASE b \notin Hbm!Cached /\ Hbm!TakeVictims(b)
  BY <1>3 DEF Hbm!TakeVictims, Hbm!Cached, Hbm!Evicted
<1>4. QED
  BY <1>1, <1>2, <1>3 DEF Hbm!allocate

\* An entry of the block at hand that is not IN_HBM, or is as it was, keeps the table right
\* as long as HbmCache does not change.
LEMMA LookMatches ==
    ASSUME TableMatchesHbm, TableTyped, NEW e \in ResidencyEntry, Look(e),
           UNCHANGED hbmOf, src' \in DramSlot \cup {Null},
           e.state = "IN_HBM" => e.state = Entry(Current).state /\ e.device_ptr = Entry(Current).device_ptr
    PROVE  TableMatchesHbm' /\ TableTyped'
<1>1. /\ DOMAIN residency' = DOMAIN residency \cup {Current}
      /\ residency'[Current] = e
      /\ \A x \in DOMAIN residency \ {Current} : residency'[x] = residency[x]
  BY DEF Look, With
<1>2. Entry(Current).state = "IN_HBM" => Current \in DOMAIN residency /\ Entry(Current) = residency[Current]
  BY DEF Entry
<1>3. TableTyped'
  BY <1>1 DEF TableTyped
<1>4. QED
  BY <1>1, <1>2, <1>3 DEF TableMatchesHbm

\* Allocating in HBM and forgetting the evicted block keeps the other entries right.
LEMMA AllocateMatches ==
    ASSUME TableMatchesHbm, NEW b, Hbm!allocate(b), NEW x \in DOMAIN Forgotten(b)
    PROVE  /\ x \in DOMAIN residency /\ Forgotten(b)[x] = residency[x]
           /\ residency[x].state = "IN_HBM" => x \in DOMAIN hbmOf' /\ hbmOf'[x] = residency[x].device_ptr
<1>1. x \in DOMAIN residency \ Hbm!Evicted(b) /\ Forgotten(b)[x] = residency[x]
  BY DEF Forgotten, Without
<1>2. QED
  BY <1>1, AllocateMoves DEF TableMatchesHbm

LEMMA InitMatches == Init => TableMatchesHbm /\ TableTyped
  BY DEF Init, TableMatchesHbm, TableTyped

LEMMA NextMatches ==
    ASSUME TableMatchesHbm, TableTyped, SlotsTyped, SlotsTyped', [Next]_vars
    PROVE  TableMatchesHbm' /\ TableTyped'
<1> USE DEF hbmVars
<1>1. CASE UNCHANGED <<residency, hbmOf, src>>
  BY <1>1 DEF TableMatchesHbm, TableTyped
<1>2. Entry(Current) \in ResidencyEntry /\ Entry(Current).ref_count + 1 \in Nat
  BY EntryTyped DEF ResidencyEntry
<1>3. /\ Referenced(Current) \in ResidencyEntry
      /\ Referenced(Current).state = Entry(Current).state
      /\ Referenced(Current).device_ptr = Entry(Current).device_ptr
  BY <1>2, MarkedTyped, RuntimeAssumption DEF Referenced
<1>4. CASE HbmHit \/ DramHitByTable
  <2>1. src' \in DramSlot \cup {Null}
    BY <1>2, <1>4 DEF HbmHit, DramHitByTable, TableTyped, ResidencyEntry
  <2>2. QED
    BY <1>3, <1>4, <2>1, LookMatches DEF HbmHit, DramHitByTable
<1>5. CASE DramHitByCache
  <2>1. src' = dramOf[Current] /\ dramOf[Current] \in DramSlot
    BY <1>5 DEF DramHitByCache, SlotsTyped, Dram!Cached
  <2>2. QED
    BY <1>3, <1>5, <2>1, MarkedTyped, LookMatches, RuntimeAssumption DEF DramHitByCache
<1>6. CASE StartLoad
  <2>1. Current \in DOMAIN dramOf' /\ src' = dramOf'[Current]
    BY <1>6 DEF StartLoad, Dram!allocate, Dram!TakeFree, Dram!TakeVictims, Dram!Cached
  <2>2. src' \in DramSlot
    BY <2>1 DEF SlotsTyped
  <2>3. QED
    BY <1>3, <1>6, <2>2, MarkedTyped, LookMatches, RuntimeAssumption DEF StartLoad
<1>7. CASE FinishLoad
  <2>1. src' = src /\ Look(marked_dram(Entry(Current), src)) /\ UNCHANGED hbmOf
    BY <1>7 DEF FinishLoad, lookupVars, Look
  <2>2. QED
    BY <1>2, <2>1, MarkedTyped, LookMatches, RuntimeAssumption DEF TableTyped
<1>8. CASE Place
  <2> DEFINE p == hbmOf'[Current]
  <2>1. /\ Hbm!allocate(Current) /\ src' = src
        /\ residency' = With(Forgotten(Current), Current, marked_hbm(Entry(Current), p))
    BY <1>8 DEF Place
  <2>2. Current \in DOMAIN hbmOf' /\ p \in HbmSlot
    BY <2>1, AllocateMoves DEF SlotsTyped
  <2>3. marked_hbm(Entry(Current), p) \in ResidencyEntry /\ marked_hbm(Entry(Current), p).device_ptr = p
    BY <1>2, <2>2, MarkedTyped
  <2>4. /\ DOMAIN residency' = DOMAIN Forgotten(Current) \cup {Current}
        /\ residency'[Current] = marked_hbm(Entry(Current), p)
        /\ \A x \in DOMAIN Forgotten(Current) \ {Current} : residency'[x] = Forgotten(Current)[x]
    BY <2>1 DEF With
  <2>5. QED
    BY <2>1, <2>2, <2>3, <2>4, AllocateMatches DEF TableMatchesHbm, TableTyped
<1>9. CASE FailCopy
  <2>1. Hbm!allocate(Current) /\ src' = src /\ residency' = Forgotten(Current)
    BY <1>9 DEF FailCopy, lookupVars
  <2>2. QED
    BY <2>1, AllocateMatches DEF TableMatchesHbm, TableTyped
<1>10. ASSUME NEW b \in Block, Release(b) PROVE TableMatchesHbm' /\ TableTyped'
  <2>1. /\ b \in DOMAIN residency /\ residency[b] \in ResidencyEntry
        /\ residency[b].ref_count - 1 \in Nat
        /\ residency' = [residency EXCEPT ![b].ref_count = residency[b].ref_count - 1]
        /\ UNCHANGED <<hbmOf, src>>
    BY <1>10 DEF Release, lookupVars, TableTyped, ResidencyEntry
  <2>2. DOMAIN residency' = DOMAIN residency
        /\ residency'[b] = [residency[b] EXCEPT !.ref_count = residency[b].ref_count - 1]
        /\ \A x \in DOMAIN residency \ {b} : residency'[x] = residency[x]
    BY <2>1
  <2>3. /\ residency'[b] \in ResidencyEntry
        /\ residency'[b].state = residency[b].state /\ residency'[b].device_ptr = residency[b].device_ptr
    BY <2>1, <2>2, MarkedTyped, RuntimeAssumption
  <2>4. QED
    BY <2>1, <2>2, <2>3 DEF TableMatchesHbm, TableTyped
<1>11. QED
  BY <1>1, <1>4, <1>5, <1>6, <1>7, <1>8, <1>9, <1>10
     DEF Next, Done, Begin, FailLoad, Finish, FailSync, Copy, vars, lookupVars

-----------------------------------------------------------------------------
\* The table never sends a lookup to a device pointer that HbmCache has given to another
\* block, whatever is evicted, fails or is released, for every number of blocks and slots.
THEOREM RuntimeTableMatchesHbm == Spec => []TableMatchesHbm
<1>1. DramPool!SlotInv /\ HbmPool!SlotInv => SlotsTyped
  BY DEF DramPool!SlotInv, DramPool!SlotTypeOK, DramPool!Cached,
      HbmPool!SlotInv, HbmPool!SlotTypeOK, HbmPool!Cached, SlotsTyped
<1>2. DramSlot # {} /\ HbmSlot # {}
  BY RuntimeAssumption
<1>3. Spec => []SlotsTyped
  BY <1>1, <1>2, RuntimeUsesPools, DramPool!SlotInvariant, HbmPool!SlotInvariant, PTL
<1>4. QED
  BY <1>3, InitMatches, NextMatches, PTL DEF Spec

-----------------------------------------------------------------------------
(* The runtime implements BlockLookup.                                     *)

\* Only blocks whose load has begun are known to the table or to DramCache.
KnownBegun ==
    /\ DOMAIN residency \subseteq begun
    /\ DOMAIN dramOf \subseteq begun
    /\ pc \in {"loading", "place"} => Current \in begun

LEMMA InitKnownBegun == Init => KnownBegun
  BY DEF Init, Dram!SlotInit, KnownBegun

LEMMA LookDomain ==
    ASSUME NEW e, Look(e)
    PROVE  DOMAIN residency' = DOMAIN residency \cup {Current}
  BY DEF Look, With

\* A hit by the table is a hit of a block the table has.
LEMMA HitIsKnown == InHbm \/ InDram => Current \in DOMAIN residency
  BY DEF InHbm, InDram, Entry

LEMMA NextKnownBegun ==
    ASSUME KnownBegun, [Next]_vars
    PROVE  KnownBegun'
<1> USE DEF dramVars, lookupVars
<1>1. ASSUME NEW b \in Batch, Begin(b) PROVE KnownBegun'
  BY <1>1 DEF Begin, KnownBegun
<1>2. CASE HbmHit
  BY <1>2, LookDomain, HitIsKnown DEF HbmHit, AtBlock, KnownBegun
<1>3. CASE DramHitByTable
  BY <1>3, LookDomain, HitIsKnown DEF DramHitByTable, KnownBegun, Current
<1>4. CASE DramHitByCache
  <2>1. Current \in begun /\ UNCHANGED dramOf
    BY <1>4 DEF DramHitByCache, Dram!get, Dram!touch, Dram!Cached, KnownBegun
  <2>2. QED
    BY <1>4, <2>1, LookDomain DEF DramHitByCache, KnownBegun, Current
<1>5. CASE StartLoad
  <2>1. DOMAIN dramOf' \subseteq DOMAIN dramOf \cup {Current}
    BY <1>5 DEF StartLoad, Dram!allocate, Dram!TakeFree, Dram!TakeVictims, Dram!Cached
  <2>2. QED
    BY <1>5, <2>1, LookDomain DEF StartLoad, KnownBegun, Current
<1>6. CASE FinishLoad
  BY <1>6 DEF FinishLoad, With, KnownBegun, Current
<1>7. CASE Place
  BY <1>7 DEF Place, With, Forgotten, Without, KnownBegun
<1>8. CASE FailCopy
  BY <1>8 DEF FailCopy, Forgotten, Without, KnownBegun
<1>9. CASE FailLoad \/ FailSync \/ Finish
  BY <1>9 DEF FailLoad, FailSync, Finish, KnownBegun
<1>10. ASSUME NEW s \in 1..Len(streams), Copy(s) PROVE KnownBegun'
  BY <1>10 DEF Copy, KnownBegun, Current
<1>11. ASSUME NEW b \in Block, Release(b) PROVE KnownBegun'
  BY <1>11 DEF Release, KnownBegun, Current
<1>12. ASSUME UNCHANGED vars PROVE KnownBegun'
  BY <1>12 DEF vars, KnownBegun, Current
<1>13. QED
  BY <1>1, <1>2, <1>3, <1>4, <1>5, <1>6, <1>7, <1>8, <1>9, <1>10, <1>11, <1>12 DEF Next, Done

\* What is left of the batch: the block at hand, and then what is left after it.
LEMMA TodoOfBatch ==
    ASSUME NEW q \in Seq(Block), NEW k \in Nat \ {0}
    PROVE  /\ k <= Len(q) => /\ SubSeq(q, k, Len(q)) # <<>>
                             /\ Head(SubSeq(q, k, Len(q))) = q[k]
                             /\ Tail(SubSeq(q, k, Len(q))) = SubSeq(q, k + 1, Len(q))
           /\ k > Len(q) => SubSeq(q, k, Len(q)) = <<>>
           /\ SubSeq(q, 1, Len(q)) = q
<1>1. ASSUME k <= Len(q) PROVE k \in 1..Len(q) /\ Len(q) \in k..Len(q)
  BY <1>1
<1>2. ASSUME k <= Len(q) PROVE SubSeq(q, k, Len(q)) # <<>>
  BY <1>1, <1>2
<1>3. ASSUME k > Len(q) PROVE SubSeq(q, k, Len(q)) = <<>>
  BY <1>3, SubSeqEmpty
<1>4. QED
  BY <1>1, <1>2, <1>3, HeadTailOfSubSeq, SubSeqFull

\* Every step of the runtime is a step of BlockLookup, or one its callers do not see.
LEMMA StepsAreLookups ==
    ASSUME AtABlock, KnownBegun, [Next]_vars
    PROVE  [Service!LookupNext]_(Service!lookupServiceVars)
<1> USE DEF lookupVars
<1> DEFINE left == SubSeq(batch, i, Len(batch))
<1>1. /\ batch \in Seq(Block) /\ i \in Nat \ {0}
      /\ i <= Len(batch) => left # <<>> /\ Head(left) = Current /\ Tail(left) = SubSeq(batch, i + 1, Len(batch))
      /\ i > Len(batch) => left = <<>>
  BY TodoOfBatch DEF AtABlock, Current
<1>2. ASSUME NEW b \in Batch, Begin(b) PROVE Service!Call(b)
  <2>1. SubSeq(b, 1, Len(b)) = b
    BY TodoOfBatch, RuntimeAssumption
  <2>2. QED
    BY <1>2, <2>1 DEF Begin, Service!Call
<1>3. ASSUME HbmHit PROVE Service!HbmHit
  BY <1>1, <1>3, HitIsKnown DEF HbmHit, AtBlock, KnownBegun, Count, Service!HbmHit, Service!AtBlock, Service!Counted
<1>4. ASSUME DramHitByTable PROVE Service!DramHit
  BY <1>1, <1>4, HitIsKnown
     DEF DramHitByTable, AtBlock, KnownBegun, Count, Service!DramHit, Service!AtBlock, Service!Counted
<1>5. ASSUME DramHitByCache PROVE Service!DramHit
  BY <1>1, <1>5
     DEF DramHitByCache, AtBlock, KnownBegun, Count, Dram!Cached, Service!DramHit, Service!AtBlock, Service!Counted
<1>6. ASSUME StartLoad PROVE Service!Miss
  BY <1>1, <1>6 DEF StartLoad, AtBlock, Count, Service!Miss, Service!AtBlock, Service!Counted
<1>7. ASSUME FinishLoad PROVE Service!Read
  BY <1>7 DEF FinishLoad, Count, Service!Read, Service!Counted
<1>8. ASSUME Place PROVE Service!Place
  <2>1. i <= Len(batch)
    BY <1>8 DEF Place, AtABlock
  <2>2. QED
    BY <1>1, <1>8, <2>1 DEF Place, Count, Service!Place, Service!Counted
<1>9. ASSUME Finish PROVE Service!Return
  BY <1>1, <1>9 DEF Finish, Service!Return
<1>10. ASSUME FailLoad \/ FailCopy \/ FailSync PROVE Service!Fail
  BY <1>10 DEF FailLoad, FailCopy, FailSync, Service!Fail
<1>11. ASSUME UNCHANGED <<pc, batch, i, begun, metrics, rc>> PROVE UNCHANGED Service!lookupServiceVars
  BY <1>11 DEF Service!lookupServiceVars
<1>12. QED
  BY <1>2, <1>3, <1>4, <1>5, <1>6, <1>7, <1>8, <1>9, <1>10, <1>11
     DEF Next, Done, Copy, Release, vars, Service!LookupNext

\* Callers of memtier_lookup_blocks see BlockLookup, whatever the caches do and whatever
\* fails: one path per block, counted once, and no hit before a load.
THEOREM RuntimeIsBlockLookup == Spec => IsBlockLookup
<1>1. Init => Service!LookupInit
  BY DEF Init, Service!LookupInit
<1>2. QED
  BY <1>1, InitAtABlock, NextAtABlock, InitKnownBegun, NextKnownBegun, StepsAreLookups, PTL
     DEF Spec, IsBlockLookup, Service!LookupSpec
-----------------------------------------------------------------------------
(* What the device holds when a lookup returns.                            *)

\* No lookup has failed and left its stream behind.
Clean == Len(streams) = IF pc = "idle" THEN 0 ELSE 1

\* The copies that the lookup has queued.
Queue == IF Len(streams) = 1 THEN streams[1] ELSE <<>>

\* Slot p of HBM holds block v once the copies in the queue are done.
Will(p, v) ==
    /\ \A k \in 1..Len(Queue) :
           Queue[k].dst = p /\ (\A l \in (k + 1)..Len(Queue) : Queue[l].dst # p) => dramData[Queue[k].src] = v
    /\ (\A k \in 1..Len(Queue) : Queue[k].dst # p) => hbmData[p] = v

\* As many blocks at the front of DramCache's list may be sources of queued copies.
Touched == IF pc \in {"loading", "place"} THEN i ELSE i - 1

DramRight == \A b \in DOMAIN dramOf : dramData[dramOf[b]] = b \/ (pc = "loading" /\ b = Current)

AtFront == pc \in {"loading", "place"} => Len(dramLru) >= 1 /\ dramLru[1] = Current /\ src = dramOf[Current]

\* No slot is loaded into while a copy from it is queued.
SourcesKept ==
    /\ \A k \in 1..Len(Queue) : \E j \in 1..Touched : j <= Len(dramLru) /\ Queue[k].src = dramOf[dramLru[j]]
    /\ pc = "loading" => \A k \in 1..Len(Queue) : Queue[k].src # src

\* The table's words for the blocks come true.
TableRight ==
    \A b \in DOMAIN residency :
        /\ residency[b].state = "IN_DRAM" => pc = "place" /\ b = Current
        /\ residency[b].state = "IN_HBM" => Will(hbmOf[b], b)

PtrsRight ==
    pc # "idle" \/ rc = 0 =>
        /\ Len(ptrs) = i - 1 /\ i <= Len(batch) + 1
        /\ pc = "idle" => i = Len(batch) + 1
        /\ \A n \in 1..Len(ptrs) :
               (\A m \in (n + 1)..Len(ptrs) : ptrs[m] # ptrs[n]) => Will(ptrs[n], batch[n])

ResidentInv == Clean => DramRight /\ AtFront /\ SourcesKept /\ TableRight /\ PtrsRight

CopyRecord == [src : DramSlot \cup {Null}, dst : HbmSlot]

\* The lookup's own stream is there, and pointers are slots.
HandInv ==
    /\ streams \in Seq(Seq(CopyRecord)) /\ ptrs \in Seq(HbmSlot) /\ batch \in Batch
    /\ pc # "idle" => Len(streams) >= 1
    /\ DOMAIN dramData = DramSlot /\ DOMAIN hbmData = HbmSlot

\* What is proved of the pools, in the runtime's own terms.
PoolFacts ==
    /\ dramLru \in Seq(Block) /\ dramFree \subseteq DramSlot
    /\ \A j, k \in 1..Len(dramLru) : dramLru[j] = dramLru[k] => j = k
    /\ \A j \in 1..Len(dramLru) : dramLru[j] \in DOMAIN dramOf
    /\ \A b \in DOMAIN dramOf : \E j \in 1..Len(dramLru) : dramLru[j] = b
    /\ \A b \in DOMAIN dramOf : dramOf[b] \in DramSlot /\ dramOf[b] \notin dramFree
    /\ \A b, c \in DOMAIN dramOf : dramOf[b] = dramOf[c] => b = c
    /\ \A s \in DramSlot : s \in dramFree \/ \E b \in DOMAIN dramOf : dramOf[b] = s
    /\ \A b \in DOMAIN hbmOf : hbmOf[b] \in HbmSlot
    /\ \A b, c \in DOMAIN hbmOf : hbmOf[b] = hbmOf[c] => b = c

\* The capacity that keeps a batch's own loads apart: see note (b) of the README.
DramHoldsABatch == IsFiniteSet(DramSlot) /\ \A b \in Batch : Len(b) <= Cardinality(DramSlot)

LEMMA PoolsAreRight ==
    ASSUME DramPool!SlotInv, HbmPool!SlotInv
    PROVE  PoolFacts
<1>1. /\ dramLru \in Seq(Block)
      /\ \A j, k \in 1..Len(dramLru) : dramLru[j] = dramLru[k] => j = k
      /\ {dramLru[j] : j \in 1..Len(dramLru)} = DOMAIN dramOf
      /\ dramOf \in [DOMAIN dramOf -> DramSlot] /\ dramFree \subseteq DramSlot
  BY DEF DramPool!SlotInv, DramPool!SlotTypeOK, DramPool!Cached, DramPool!Positions, DramPool!ListMatchesEntries
<1>2. /\ \A b \in DOMAIN dramOf : dramOf[b] \notin dramFree
      /\ \A b, c \in DOMAIN dramOf : dramOf[b] = dramOf[c] => b = c
      /\ \A s \in DramSlot : s \in dramFree \/ \E b \in DOMAIN dramOf : dramOf[b] = s
  BY DEF DramPool!SlotInv, DramPool!Cached, DramPool!SlotsPartitioned
<1>3. hbmOf \in [DOMAIN hbmOf -> HbmSlot] /\ \A b, c \in DOMAIN hbmOf : hbmOf[b] = hbmOf[c] => b = c
  BY DEF HbmPool!SlotInv, HbmPool!SlotTypeOK, HbmPool!Cached, HbmPool!SlotsPartitioned
<1>4. /\ \A j \in 1..Len(dramLru) : dramLru[j] \in DOMAIN dramOf
      /\ \A b \in DOMAIN dramOf : \E j \in 1..Len(dramLru) : dramLru[j] = b
  BY <1>1
<1>5. QED
  BY <1>1, <1>2, <1>3, <1>4 DEF PoolFacts

\* With no slot free, the list is as long as the pool is large.
LEMMA FullList ==
    ASSUME PoolFacts, IsFiniteSet(DramSlot), dramFree = {}
    PROVE  Len(dramLru) = Cardinality(DramSlot)
<1> DEFINE f == [j \in 1..Len(dramLru) |-> dramOf[dramLru[j]]]
<1>1. Len(dramLru) \in Nat
  BY DEF PoolFacts
<1>2. f \in Surjection(1..Len(dramLru), DramSlot)
  <2>1. f \in [1..Len(dramLru) -> DramSlot]
    BY DEF PoolFacts
  <2>2. ASSUME NEW s \in DramSlot PROVE \E j \in 1..Len(dramLru) : f[j] = s
    BY DEF PoolFacts
  <2>3. QED
    BY <2>1, <2>2 DEF Surjection
<1>3. \A j, k \in 1..Len(dramLru) : f[j] = f[k] => j = k
  BY DEF PoolFacts
<1>4. f \in Injection(1..Len(dramLru), DramSlot)
  BY <1>2, <1>3 DEF Surjection, Injection, IsInjective
<1> HIDE DEF f
<1>5. IsFiniteSet(1..Len(dramLru)) /\ Cardinality(1..Len(dramLru)) = Len(dramLru)
  <2>1. 1 \in Int /\ Len(dramLru) \in Int
    BY <1>1
  <2>2. IsFiniteSet(1..Len(dramLru))
        /\ Cardinality(1..Len(dramLru)) = IF 1 > Len(dramLru) THEN 0 ELSE Len(dramLru) - 1 + 1
    BY <2>1, FS_Interval, Zenon
  <2>3. QED
    BY <1>1, <2>2
<1>6. Cardinality(DramSlot) = Cardinality(1..Len(dramLru))
  BY <1>2, <1>4, <1>5, FS_Surjection
<1>7. QED
  BY <1>5, <1>6
\* What get() of a cached block and allocate() of another do to DramCache: the block comes to
\* the front, and the t blocks that were there keep their slots and move back by one at most.
DramStep(b, t) ==
    /\ Len(dramLru') >= 1 /\ dramLru'[1] = b
    /\ \A j \in 1..t : j <= Len(dramLru) =>
           \E k \in 1..(t + 1) :
               k <= Len(dramLru') /\ dramLru'[k] = dramLru[j] /\ dramOf'[dramLru[j]] = dramOf[dramLru[j]]
    /\ \A x \in DOMAIN dramOf' \ {b} : x \in DOMAIN dramOf /\ dramOf'[x] = dramOf[x]
    /\ b \in DOMAIN dramOf'

LEMMA GetStep ==
    ASSUME PoolFacts, NEW b \in DOMAIN dramOf, Dram!get(b), NEW t \in Nat
    PROVE  DramStep(b, t) /\ dramOf' = dramOf
<1> DEFINE q == dramLru
<1>1. PICK p \in 1..Len(q) : q[p] = b /\ dramLru' = Dram!MovedToFront(p, b) /\ dramOf' = dramOf
  BY DEF Dram!get, Dram!touch, Dram!Positions, Dram!Cached
<1>2. dramLru' = [j \in 1..Len(q) |-> IF j = 1 THEN b ELSE IF j <= p THEN q[j - 1] ELSE q[j]]
  BY <1>1 DEF Dram!MovedToFront, Dram!Positions
<1>3. q \in Seq(Block) /\ Len(q) \in Nat
  BY DEF PoolFacts
<1>4. Len(dramLru') = Len(q)
  BY <1>2, <1>3
<1>5. ASSUME NEW j \in 1..t, j <= Len(q)
      PROVE  \E k \in 1..(t + 1) : k <= Len(dramLru') /\ dramLru'[k] = q[j]
  <2>1. j \in 1..Len(q)
    BY <1>3, <1>5
  <2>2. CASE j = p
    <3>1. 1 \in 1..(t + 1) /\ 1 <= Len(q) /\ dramLru'[1] = q[j]
      BY <1>1, <1>2, <1>3, <2>1, <2>2
    <3>2. QED
      BY <1>4, <3>1
  <2>3. CASE j < p
    <3>1. j + 1 \in 1..(t + 1) /\ j + 1 <= Len(q) /\ dramLru'[j + 1] = q[j]
      BY <1>2, <1>3, <2>1, <2>3
    <3>2. QED
      BY <1>4, <3>1
  <2>4. CASE j > p
    <3>1. j \in 1..(t + 1) /\ dramLru'[j] = q[j]
      BY <1>2, <1>3, <2>1, <2>4
    <3>2. QED
      BY <1>4, <1>5, <3>1
  <2>5. QED
    BY <2>1, <2>2, <2>3, <2>4
<1>6. Len(dramLru') >= 1 /\ dramLru'[1] = b
  BY <1>1, <1>2, <1>3, <1>4
<1>7. QED
  BY <1>1, <1>5, <1>6 DEF DramStep

LEMMA LoadStep ==
    ASSUME PoolFacts, NEW b, b \notin DOMAIN dramOf, Dram!allocate(b), NEW t \in Nat,
           IsFiniteSet(DramSlot), t < Cardinality(DramSlot)
    PROVE  /\ DramStep(b, t) /\ dramOf'[b] \in DramSlot
           /\ \A j \in 1..t : j <= Len(dramLru) => dramOf[dramLru[j]] # dramOf'[b]
<1> DEFINE q == dramLru
<1>1. q \in Seq(Block) /\ Len(q) \in Nat
  BY DEF PoolFacts
<1>2. CASE Dram!TakeFree(b)
  <2>1. PICK s \in dramFree :
            /\ dramOf' = [x \in DOMAIN dramOf \cup {b} |-> IF x = b THEN s ELSE dramOf[x]]
            /\ dramLru' = [j \in 1..(Len(q) + 1) |-> IF j = 1 THEN b ELSE q[j - 1]]
    BY <1>2 DEF Dram!TakeFree, Dram!Cached, Dram!ListWith, Dram!Pushed
  <2>2. Len(dramLru') = Len(q) + 1 /\ dramLru'[1] = b /\ Len(dramLru') >= 1
    BY <1>1, <2>1
  <2>3. ASSUME NEW j \in 1..t, j <= Len(q)
        PROVE  /\ \E k \in 1..(t + 1) :
                      k <= Len(dramLru') /\ dramLru'[k] = q[j] /\ dramOf'[q[j]] = dramOf[q[j]]
               /\ dramOf[q[j]] # s
    <3>1. j \in 1..Len(q) /\ j + 1 \in 1..(t + 1) /\ j + 1 <= Len(dramLru') /\ dramLru'[j + 1] = q[j]
      BY <1>1, <2>1, <2>2, <2>3
    <3>2. q[j] \in DOMAIN dramOf /\ dramOf'[q[j]] = dramOf[q[j]] /\ dramOf[q[j]] # s
      BY <2>1, <3>1 DEF PoolFacts
    <3>3. QED
      BY <3>1, <3>2
  <2>4. dramOf'[b] = s /\ b \in DOMAIN dramOf'
        /\ \A x \in DOMAIN dramOf' \ {b} : x \in DOMAIN dramOf /\ dramOf'[x] = dramOf[x]
    BY <2>1
  <2>5. s \in DramSlot
    BY <2>1 DEF PoolFacts
  <2>6. QED
    BY <2>2, <2>3, <2>4, <2>5 DEF DramStep
<1>3. CASE Dram!TakeVictims(b)
  <2> DEFINE v == q[Len(q)]
  <2>1. /\ dramFree = {}
        /\ dramOf' = [x \in (DOMAIN dramOf \ {v}) \cup {b} |-> IF x = b THEN dramOf[v] ELSE dramOf[x]]
        /\ dramLru' = [j \in 1..Len(q) |-> IF j = 1 THEN b ELSE q[j - 1]]
    BY <1>3 DEF Dram!TakeVictims, Dram!Cached, Dram!Victim, Dram!InsteadOfVictim, Dram!Positions
  <2>2. t < Len(q)
    BY <2>1, FullList
  <2>3. Len(dramLru') = Len(q) /\ dramLru'[1] = b /\ Len(dramLru') >= 1 /\ Len(q) \in 1..Len(q)
    BY <1>1, <2>1, <2>2
  <2>4. v \in DOMAIN dramOf /\ dramOf[v] \in DramSlot
    BY <2>3 DEF PoolFacts
  <2>5. ASSUME NEW j \in 1..t
        PROVE  /\ \E k \in 1..(t + 1) :
                      k <= Len(dramLru') /\ dramLru'[k] = q[j] /\ dramOf'[q[j]] = dramOf[q[j]]
               /\ dramOf[q[j]] # dramOf[v]
    <3>1. /\ j \in 1..Len(q) /\ j # Len(q) /\ j + 1 \in 1..(t + 1) /\ j + 1 <= Len(dramLru')
          /\ j + 1 \in 1..Len(q) /\ j + 1 # 1 /\ (j + 1) - 1 = j
      BY <1>1, <2>2, <2>3
    <3> HIDE DEF q
    <3>2. dramLru'[j + 1] = q[j]
      BY <2>1, <3>1
    <3> USE DEF q
    <3>3. q[j] \in DOMAIN dramOf /\ q[j] # v
      BY <2>3, <3>1 DEF PoolFacts
    <3>4. dramOf'[q[j]] = dramOf[q[j]] /\ dramOf[q[j]] # dramOf[v]
      BY <2>1, <2>4, <3>3 DEF PoolFacts
    <3>5. QED
      BY <3>1, <3>2, <3>4
  <2>6. dramOf'[b] = dramOf[v] /\ b \in DOMAIN dramOf'
        /\ \A x \in DOMAIN dramOf' \ {b} : x \in DOMAIN dramOf /\ dramOf'[x] = dramOf[x]
    BY <2>1
  <2>7. QED
    BY <2>3, <2>4, <2>5, <2>6 DEF DramStep
<1>4. QED
  BY <1>2, <1>3 DEF Dram!allocate, Dram!Cached

-----------------------------------------------------------------------------
(* The queue.                                                              *)

LEMMA WillKept ==
    ASSUME Queue' = Queue, hbmData' = hbmData,
           \A k \in 1..Len(Queue) : dramData'[Queue[k].src] = dramData[Queue[k].src],
           NEW p, NEW v, Will(p, v)
    PROVE  Will(p, v)'
  BY DEF Will

\* One more copy is queued.
LEMMA WillAppend ==
    ASSUME NEW S, Queue \in Seq(S), NEW c \in S, Queue' = Append(Queue, c), hbmData' = hbmData, dramData' = dramData,
           NEW p, NEW v, IF c.dst = p THEN dramData[c.src] = v ELSE Will(p, v)
    PROVE  Will(p, v)'
<1> DEFINE q == Queue
           n == Len(q)
<1>1. n \in Nat /\ Len(Queue') = n + 1 /\ Queue'[n + 1] = c /\ \A k \in 1..n : Queue'[k] = q[k]
  OBVIOUS
<1>2. ASSUME NEW k \in 1..(n + 1), Queue'[k].dst = p, \A l \in (k + 1)..(n + 1) : Queue'[l].dst # p
      PROVE  dramData[Queue'[k].src] = v
  <2>1. CASE k = n + 1
    BY <1>1, <1>2, <2>1
  <2>2. CASE k # n + 1
    <3>1. k \in 1..n /\ n + 1 \in (k + 1)..(n + 1)
      BY <1>1, <2>2
    <3>2. c.dst # p
      BY <1>1, <1>2, <3>1
    <3>3. \A l \in (k + 1)..n : q[l].dst # p
      BY <1>1, <1>2, <3>1
    <3>4. QED
      BY <1>1, <1>2, <3>1, <3>2, <3>3 DEF Will
  <2>3. QED
    BY <2>1, <2>2
<1>3. ASSUME \A k \in 1..(n + 1) : Queue'[k].dst # p PROVE hbmData[p] = v
  <2>1. c.dst # p
    BY <1>1, <1>3
  <2>2. \A k \in 1..n : q[k].dst # p
    BY <1>1, <1>3
  <2>3. QED
    BY <2>1, <2>2 DEF Will
<1>4. QED
  BY <1>1, <1>2, <1>3 DEF Will

\* The device does the first copy.
LEMMA WillTail ==
    ASSUME NEW S, Queue \in Seq(S), Queue # <<>>, Queue' = Tail(Queue), dramData' = dramData,
           DOMAIN hbmData = HbmSlot, Queue[1].dst \in HbmSlot,
           hbmData' = [hbmData EXCEPT ![Queue[1].dst] = dramData[Queue[1].src]],
           NEW p \in HbmSlot, NEW v, Will(p, v)
    PROVE  Will(p, v)'
<1> DEFINE q == Queue
           n == Len(q)
<1>1. n \in Nat /\ n >= 1 /\ Len(Queue') = n - 1 /\ \A k \in 1..(n - 1) : Queue'[k] = q[k + 1]
  OBVIOUS
<1>2. ASSUME NEW k \in 1..(n - 1), Queue'[k].dst = p, \A l \in (k + 1)..(n - 1) : Queue'[l].dst # p
      PROVE  dramData[Queue'[k].src] = v
  <2>1. k + 1 \in 1..n /\ Queue'[k] = q[k + 1]
    BY <1>1
  <2>2. ASSUME NEW l \in (k + 2)..n PROVE q[l].dst # p
    <3>1. l - 1 \in (k + 1)..(n - 1) /\ l - 1 \in 1..(n - 1) /\ (l - 1) + 1 = l
      BY <1>1, <2>2
    <3>2. QED
      BY <1>1, <1>2, <3>1
  <2>3. (k + 1) + 1 = k + 2
    OBVIOUS
  <2>4. QED
    BY <1>2, <2>1, <2>2, <2>3 DEF Will
<1>3. ASSUME \A k \in 1..(n - 1) : Queue'[k].dst # p PROVE hbmData'[p] = v
  <2>1. ASSUME NEW l \in 2..n PROVE q[l].dst # p
    <3>1. l - 1 \in 1..(n - 1) /\ (l - 1) + 1 = l
      BY <1>1, <2>1
    <3>2. QED
      BY <1>1, <1>3, <3>1
  <2>2. CASE q[1].dst = p
    <3>1. 1 \in 1..n /\ 1 + 1 = 2
      BY <1>1
    <3>2. dramData[q[1].src] = v
      BY <2>1, <2>2, <3>1 DEF Will
    <3>3. QED
      BY <2>2, <3>2
  <2>3. CASE q[1].dst # p
    <3>1. \A k \in 1..n : q[k].dst # p
      <4>1. \A k \in 1..n : k = 1 \/ k \in 2..n
        BY <1>1
      <4>2. QED
        BY <2>1, <2>3, <4>1
    <3>2. hbmData[p] = v
      BY <3>1 DEF Will
    <3>3. QED
      BY <2>3, <3>2
  <2>4. QED
    BY <2>2, <2>3
<1>4. QED
  BY <1>1, <1>2, <1>3 DEF Will
-----------------------------------------------------------------------------
(* The streams and the pointers.                                           *)

LEMMA InitHand == Init => HandInv
  BY DEF Init, HandInv

\* The pointer of a hit by the table.
LEMMA HitPointer ==
    ASSUME TableTyped, TableMatchesHbm, InHbm
    PROVE  /\ Current \in DOMAIN residency /\ residency[Current].state = "IN_HBM"
           /\ Entry(Current) = residency[Current] /\ Current \in DOMAIN hbmOf
           /\ Entry(Current).device_ptr = hbmOf[Current]
  BY DEF InHbm, Entry, TableMatchesHbm

LEMMA NextHand ==
    ASSUME HandInv, AtABlock, TableTyped, TableMatchesHbm, PoolFacts, PoolFacts', [Next]_vars
    PROVE  HandInv'
<1> USE DEF lookupVars
<1>1. ASSUME NEW b \in Batch, Begin(b) PROVE HandInv'
  <2>1. UNCHANGED <<dramData, hbmData>> /\ ptrs' = <<>> /\ batch' \in Batch
    BY <1>1 DEF Begin
  <2>2. CASE streams' = Append(streams, <<>>)
    <3>1. streams' \in Seq(Seq(CopyRecord)) /\ Len(streams') = Len(streams) + 1
      BY <2>2 DEF HandInv
    <3>2. Len(streams') >= 1
      BY <3>1 DEF HandInv
    <3>3. QED
      BY <2>1, <3>1, <3>2 DEF HandInv
  <2>3. CASE streams' = streams /\ pc' = pc
    BY <2>1, <2>3 DEF HandInv
  <2>4. QED
    BY <1>1, <2>2, <2>3 DEF Begin
<1>2. CASE HbmHit
  <2>1. hbmOf[Current] \in HbmSlot /\ ptrs' = Append(ptrs, hbmOf[Current])
    BY <1>2, HitPointer DEF HbmHit, PoolFacts
  <2>2. ptrs' \in Seq(HbmSlot)
    BY <2>1 DEF HandInv
  <2>3. QED
    BY <1>2, <2>2 DEF HbmHit, HandInv
<1>3. CASE Place
  <2> DEFINE p == hbmOf'[Current]
             n == Len(streams)
             c == [src |-> src, dst |-> p]
  <2>1. /\ Hbm!allocate(Current) /\ UNCHANGED <<dramData, hbmData, batch>> /\ pc = "place"
        /\ streams' = [streams EXCEPT ![n] = Append(streams[n], c)] /\ ptrs' = Append(ptrs, p)
    BY <1>3 DEF Place
  <2>2. p \in HbmSlot
    BY <2>1, AllocateMoves DEF PoolFacts
  <2>3. c \in CopyRecord
    BY <2>2 DEF CopyRecord, TableTyped
  <2>4. streams \in Seq(Seq(CopyRecord)) /\ n >= 1 /\ n \in 1..Len(streams)
    BY <2>1 DEF HandInv
  <2> HIDE DEF n, c, p
  <2>5. streams[n] \in Seq(CopyRecord)
    BY <2>4
  <2>6. Append(streams[n], c) \in Seq(CopyRecord)
    BY <2>3, <2>5
  <2>7. streams' \in Seq(Seq(CopyRecord)) /\ Len(streams') = n
    BY <2>1, <2>4, <2>6 DEF n
  <2>8. ptrs' \in Seq(HbmSlot)
    BY <2>1, <2>2 DEF HandInv
  <2>9. QED
    BY <2>1, <2>4, <2>7, <2>8 DEF HandInv
<1>4. CASE Finish
  <2>1. streams \in Seq(Seq(CopyRecord)) /\ pc' = "idle"
        /\ streams' = SubSeq(streams, 1, Len(streams) - 1) /\ UNCHANGED <<ptrs, dramData, hbmData, batch>>
    BY <1>4 DEF Finish, HandInv
  <2>2. streams' \in Seq(Seq(CopyRecord))
    BY <2>1
  <2>3. QED
    BY <2>1, <2>2 DEF HandInv
<1>5. ASSUME NEW s \in 1..Len(streams), Copy(s) PROVE HandInv'
  <2>1. streams \in Seq(Seq(CopyRecord)) /\ streams[s] \in Seq(CopyRecord) /\ streams[s] # <<>>
    BY <1>5 DEF Copy, HandInv
  <2>2. Tail(streams[s]) \in Seq(CopyRecord)
    BY <2>1
  <2>3. streams' = [streams EXCEPT ![s] = Tail(streams[s])] /\ UNCHANGED <<pc, ptrs, dramData, batch>>
    BY <1>5 DEF Copy
  <2>4. streams' \in Seq(Seq(CopyRecord)) /\ Len(streams') = Len(streams)
    BY <2>1, <2>2, <2>3
  <2>5. DOMAIN hbmData' = DOMAIN hbmData
    BY <1>5 DEF Copy
  <2>6. QED
    BY <2>3, <2>4, <2>5 DEF HandInv
<1>6. CASE FailLoad \/ FailCopy \/ FailSync
  BY <1>6 DEF FailLoad, FailCopy, FailSync, HandInv
<1>7. CASE /\ UNCHANGED <<streams, ptrs, hbmData, batch>> /\ DOMAIN dramData' = DOMAIN dramData
           /\ pc' = "idle" <=> pc = "idle"
  BY <1>7 DEF HandInv
<1>8. CASE DramHitByTable \/ DramHitByCache \/ StartLoad \/ FinishLoad
  BY <1>7, <1>8 DEF DramHitByTable, DramHitByCache, StartLoad, FinishLoad, AtBlock
<1>9. ASSUME NEW b \in Block, Release(b) PROVE HandInv'
  BY <1>7, <1>9 DEF Release
<1>10. CASE UNCHANGED vars
  BY <1>7, <1>10 DEF vars
<1>11. QED
  BY <1>1, <1>2, <1>3, <1>4, <1>5, <1>6, <1>8, <1>9, <1>10 DEF Next, Done

\* A failed lookup leaves its stream behind for ever.
LEMMA CleanBack ==
    ASSUME HandInv, [Next]_vars, Clean'
    PROVE  Clean /\ ~FailLoad /\ ~FailCopy /\ ~FailSync
<1>1. streams \in Seq(Seq(CopyRecord)) /\ Len(streams) \in Nat /\ (pc # "idle" => Len(streams) >= 1)
  BY DEF HandInv
<1>2. ASSUME NEW b \in Batch, Begin(b) PROVE Clean
  <2>1. pc = "idle"
    BY <1>2 DEF Begin
  <2>2. CASE pc' = "next" /\ streams' = Append(streams, <<>>)
    <3>1. Len(streams') = Len(streams) + 1
      BY <1>1, <2>2
    <3>2. QED
      BY <1>1, <2>1, <2>2, <3>1 DEF Clean
  <2>3. CASE streams' = streams /\ pc' = pc
    BY <2>3 DEF Clean
  <2>4. QED
    BY <1>2, <2>2, <2>3 DEF Begin
<1>3. ASSUME Place PROVE Clean
  <2>1. pc = "place" /\ pc' = "next" /\ Len(streams') = Len(streams)
    BY <1>1, <1>3 DEF Place
  <2>2. QED
    BY <2>1 DEF Clean
<1>4. ASSUME Finish PROVE Clean
  <2>1. pc = "next" /\ pc' = "idle" /\ Len(streams) >= 1 /\ streams' = SubSeq(streams, 1, Len(streams) - 1)
    BY <1>1, <1>4 DEF Finish
  <2>2. Len(streams') = Len(streams) - 1
    <3> DEFINE n == Len(streams) - 1
    <3>1. n \in Nat /\ 1 \in Int /\ n \in Int /\ \A j \in 1..n : streams[j] \in Seq(CopyRecord)
      BY <1>1, <2>1
    <3> HIDE DEF n
    <3>2. Len(SubSeq(streams, 1, n)) = IF 1 <= n THEN n - 1 + 1 ELSE 0
      BY <3>1, SubSeqProperties
    <3>3. Len(SubSeq(streams, 1, n)) = n
      BY <3>1, <3>2
    <3>4. QED
      BY <2>1, <3>3 DEF n
  <2>3. QED
    BY <1>1, <2>1, <2>2 DEF Clean
<1>5. ASSUME NEW s \in 1..Len(streams), Copy(s) PROVE Clean
  <2>1. Len(streams') = Len(streams) /\ pc' = pc
    BY <1>1, <1>5 DEF Copy
  <2>2. QED
    BY <2>1 DEF Clean
<1>6. ~FailLoad /\ ~FailCopy /\ ~FailSync
  BY <1>1 DEF FailLoad, FailCopy, FailSync, Clean
<1>7. ASSUME streams' = streams, pc' = "idle" <=> pc = "idle" PROVE Clean
  BY <1>7 DEF Clean
<1>8. ASSUME HbmHit \/ DramHitByTable \/ DramHitByCache \/ StartLoad \/ FinishLoad PROVE Clean
  BY <1>7, <1>8 DEF HbmHit, DramHitByTable, DramHitByCache, StartLoad, FinishLoad, AtBlock
<1>9. ASSUME NEW b \in Block, Release(b) PROVE Clean
  BY <1>7, <1>9 DEF Release
<1>10. ASSUME UNCHANGED vars PROVE Clean
  BY <1>7, <1>10 DEF vars
<1>11. QED
  BY <1>2, <1>3, <1>4, <1>5, <1>6, <1>8, <1>9, <1>10 DEF Next, Done
-----------------------------------------------------------------------------
(* Every step keeps the promises.                                          *)

Known == HandInv /\ AtABlock /\ TableTyped /\ TableMatchesHbm /\ PoolFacts
Good == DramRight /\ AtFront /\ SourcesKept /\ TableRight /\ PtrsRight

LEMMA QueueOf ==
    ASSUME HandInv, Clean
    PROVE  /\ Queue \in Seq(CopyRecord)
           /\ pc = "idle" => Queue = <<>>
           /\ pc # "idle" => Len(streams) = 1 /\ Queue = streams[1]
<1>1. streams \in Seq(Seq(CopyRecord))
  BY DEF HandInv
<1>2. CASE pc = "idle"
  BY <1>2 DEF Clean, Queue
<1>3. CASE pc # "idle"
  <2>1. Len(streams) = 1 /\ 1 \in 1..Len(streams)
    BY <1>3 DEF Clean
  <2>2. QED
    BY <1>1, <1>3, <2>1 DEF Queue
<1>4. QED
  BY <1>2, <1>3

\* The pointers so far, and one more.
LEMMA PtrsAppend ==
    ASSUME PtrsRight, HandInv, i \in Nat \ {0}, pc = "next" \/ pc = "place", pc' = "next", i <= Len(batch), Len(batch) \in Nat,
           batch' = batch, i' = i + 1,
           NEW p \in HbmSlot, ptrs' = Append(ptrs, p), NEW b, b = Current, Will(p, b)',
           \A q \in HbmSlot : \A v : q # p /\ Will(q, v) => Will(q, v)'
    PROVE  PtrsRight'
<1> DEFINE n == Len(ptrs)
<1>1. ptrs \in Seq(HbmSlot) /\ n = i - 1 /\ n \in Nat
  BY DEF PtrsRight, HandInv
<1>2. Len(ptrs') = n + 1 /\ ptrs'[n + 1] = p /\ \A k \in 1..n : ptrs'[k] = ptrs[k] /\ ptrs[k] \in HbmSlot
  BY <1>1
<1>3. Len(ptrs') = i' - 1 /\ i' <= Len(batch') + 1
  BY <1>1, <1>2
<1>4. batch'[n + 1] = b
  BY <1>1 DEF Current
<1>5. ASSUME NEW k \in 1..(n + 1), \A m \in (k + 1)..(n + 1) : ptrs'[m] # ptrs'[k]
      PROVE  Will(ptrs[k], batch[k])'
  <2>1. CASE k = n + 1
    <3>1. ptrs'[k] = p /\ batch'[k] = b
      BY <1>2, <1>4, <2>1
    <3>2. QED
      BY <3>1
  <2>2. CASE k # n + 1
    <3>1. k \in 1..n /\ n + 1 \in (k + 1)..(n + 1)
      BY <1>1, <2>2
    <3>2. ptrs'[k] = ptrs[k] /\ ptrs[k] # p /\ ptrs[k] \in HbmSlot
      BY <1>2, <1>5, <3>1
    <3>3. \A m \in (k + 1)..n : ptrs[m] # ptrs[k]
      BY <1>1, <1>2, <1>5, <3>1
    <3>4. Will(ptrs[k], batch[k])
      BY <3>1, <3>3 DEF PtrsRight
    <3>5. batch'[k] = batch[k]
      OBVIOUS
    <3>6. QED
      BY <3>2, <3>4, <3>5
  <2>3. QED
    BY <2>1, <2>2
<1>6. QED
  BY <1>2, <1>3, <1>5 DEF PtrsRight
\* Steps that change nothing the device, the caches or the loop can see.
LEMMA KeptGood ==
    ASSUME Good, Queue' = Queue,
           UNCHANGED <<dramOf, dramLru, dramData, hbmOf, hbmData, pc, batch, i, src, ptrs, rc>>,
           DOMAIN residency' = DOMAIN residency,
           \A b \in DOMAIN residency : residency'[b].state = residency[b].state
    PROVE  Good'
<1>1. \A p, v : Will(p, v) => Will(p, v)'
  BY WillKept
<1>2. DramRight' /\ AtFront' /\ SourcesKept'
  BY DEF Good, DramRight, AtFront, SourcesKept, Touched, Current
<1>3. TableRight'
  BY <1>1 DEF Good, TableRight, Current
<1>4. PtrsRight'
  BY <1>1 DEF Good, PtrsRight
<1>5. QED
  BY <1>2, <1>3, <1>4 DEF Good

LEMMA BeginGood ==
    ASSUME HandInv, HandInv', Clean, Clean', Good, NEW b \in Batch, Begin(b)
    PROVE  Good'
<1>1. /\ pc = "idle" /\ pc' \in {"idle", "next"} /\ i' = 1 /\ ptrs' = <<>> /\ rc' = -1
      /\ UNCHANGED <<residency, dramOf, dramLru, dramData, hbmOf, hbmData>>
      /\ batch' = b
  BY DEF Begin, dramVars, hbmVars
<1>2. Queue = <<>>
  BY <1>1, QueueOf
<1>3. Queue' = <<>>
  <2>1. CASE pc' = "next" /\ streams' = Append(streams, <<>>)
    <3>1. Len(streams) = 0 /\ streams \in Seq(Seq(CopyRecord))
      BY <1>1 DEF Clean, HandInv
    <3>2. Len(streams') = 1 /\ streams'[1] = <<>>
      BY <2>1, <3>1
    <3>3. QED
      BY <3>2 DEF Queue
  <2>2. CASE streams' = streams
    BY <1>2, <2>2 DEF Queue
  <2>3. QED
    BY <2>1, <2>2 DEF Begin
<1>4. \A p, v : Will(p, v) => Will(p, v)'
  BY <1>1, <1>2, <1>3, WillKept
<1>5. DramRight' /\ AtFront'
  BY <1>1 DEF Good, DramRight, AtFront
<1>6. SourcesKept'
  BY <1>1, <1>3 DEF SourcesKept
<1>7. TableRight'
  BY <1>1, <1>4 DEF Good, TableRight
<1>8. PtrsRight'
  <2>1. Len(ptrs') = 0 /\ Len(batch') \in Nat
    BY <1>1, RuntimeAssumption
  <2>2. QED
    BY <1>1, <2>1 DEF PtrsRight
<1>9. QED
  BY <1>5, <1>6, <1>7, <1>8 DEF Good

LEMMA HbmHitGood ==
    ASSUME Known, Clean, Good, HbmHit
    PROVE  Good'
<1>1. /\ pc = "next" /\ pc' = "next" /\ i <= Len(batch) /\ i' = i + 1
      /\ Look(Referenced(Current)) /\ ptrs' = Append(ptrs, Entry(Current).device_ptr) /\ InHbm
      /\ UNCHANGED <<dramOf, dramLru, dramData, hbmOf, hbmData, streams, batch, src, rc>>
  BY DEF HbmHit, AtBlock, dramVars, hbmVars
<1>2. Queue' = Queue
  BY <1>1 DEF Queue
<1>3. \A p, v : Will(p, v) => Will(p, v)'
  BY <1>1, <1>2, WillKept
<1>4. /\ Current \in DOMAIN residency /\ residency[Current].state = "IN_HBM" /\ Current \in DOMAIN hbmOf
      /\ Entry(Current) = residency[Current] /\ Entry(Current).device_ptr = hbmOf[Current]
      /\ hbmOf[Current] \in HbmSlot
  BY <1>1, HitPointer DEF Known, PoolFacts
<1>5. i \in Nat \ {0} /\ Len(batch) \in Nat
  BY DEF Known, AtABlock
<1>6. DramRight' /\ AtFront'
  BY <1>1 DEF Good, DramRight, AtFront
<1>7. SourcesKept'
  <2>1. \A j \in 1..Touched : j \in 1..Touched'
    BY <1>1, <1>5 DEF Touched
  <2>2. QED
    BY <1>1, <1>2, <2>1 DEF Good, SourcesKept
<1>8. TableRight'
  <2>1. /\ DOMAIN residency' = DOMAIN residency \cup {Current}
        /\ residency'[Current] = Referenced(Current)
        /\ \A x \in DOMAIN residency \ {Current} : residency'[x] = residency[x]
    BY <1>1 DEF Look, With
  <2>2. Referenced(Current).state = "IN_HBM"
    <3>1. residency[Current] \in ResidencyEntry
      BY <1>4 DEF Known, TableTyped
    <3>2. Entry(Current) \in ResidencyEntry /\ Entry(Current).state = "IN_HBM"
      BY <1>4, <3>1
    <3>3. QED
      BY <3>2 DEF Referenced, ResidencyEntry
  <2>3. \A x \in DOMAIN residency : residency[x].state # "IN_DRAM"
    BY <1>1 DEF Good, TableRight
  <2>4. ASSUME NEW x \in DOMAIN residency'
        PROVE  residency'[x].state # "IN_DRAM" /\ (residency'[x].state = "IN_HBM" => Will(hbmOf[x], x)')
    <3>1. x \in DOMAIN residency /\ residency'[x].state = residency[x].state
      BY <1>4, <2>1, <2>2
    <3>2. residency[x].state = "IN_HBM" => Will(hbmOf[x], x)
      BY <3>1 DEF Good, TableRight
    <3>3. QED
      BY <1>1, <1>3, <2>3, <3>1, <3>2
  <2>5. QED
    BY <2>4 DEF TableRight
<1>9. PtrsRight'
  <2>1. Will(hbmOf[Current], Current)
    BY <1>4 DEF Good, TableRight
  <2>2. PICK b, p : b = Current /\ p = hbmOf[Current]
    OBVIOUS
  <2>3. p \in HbmSlot /\ ptrs' = Append(ptrs, p) /\ Will(p, b)'
    BY <1>1, <1>3, <1>4, <2>1, <2>2
  <2>4. PtrsRight /\ HandInv
    BY DEF Good, Known
  <2>5. \A q \in HbmSlot : \A v : q # p /\ Will(q, v) => Will(q, v)'
    BY <1>3
  <2>6. QED
    BY <1>1, <1>5, <2>2, <2>3, <2>4, <2>5, PtrsAppend
<1>10. QED
  BY <1>6, <1>7, <1>8, <1>9 DEF Good
\* The table never has to send a lookup to DRAM.
LEMMA NoTableHit ==
    ASSUME Good
    PROVE  ~DramHitByTable
<1> SUFFICES ASSUME DramHitByTable PROVE FALSE
  OBVIOUS
<1>1. pc = "next" /\ InDram
  BY DEF DramHitByTable, AtBlock
<1>2. Current \in DOMAIN residency /\ residency[Current].state = "IN_DRAM"
  BY <1>1 DEF InDram, Entry
<1>3. QED
  BY <1>1, <1>2 DEF Good, TableRight

\* The table while the lookup turns to DRAM: an entry for the block at hand that is not IN_HBM.
LEMMA LookRight ==
    ASSUME TableRight, pc \in {"next", "loading"}, NEW e, Look(e), e.state # "IN_HBM", pc' \in {"loading", "place"},
           e.state = "IN_DRAM" => pc' = "place", UNCHANGED <<hbmOf, batch, i>>,
           \A p, v : Will(p, v) => Will(p, v)'
    PROVE  TableRight'
<1>1. /\ DOMAIN residency' = DOMAIN residency \cup {Current} /\ residency'[Current] = e
      /\ \A x \in DOMAIN residency \ {Current} : residency'[x] = residency[x]
  BY DEF Look, With
<1>2. Current' = Current
  BY DEF Current
<1>3. ASSUME NEW x \in DOMAIN residency'
      PROVE  /\ residency'[x].state = "IN_DRAM" => pc' = "place" /\ x = Current
             /\ residency'[x].state = "IN_HBM" => Will(hbmOf[x], x)'
  <2>1. CASE x = Current
    BY <1>1, <2>1
  <2>2. CASE x # Current
    <3>1. x \in DOMAIN residency /\ residency'[x] = residency[x]
      BY <1>1, <2>2
    <3>2. QED
      BY <3>1 DEF TableRight
  <2>3. QED
    BY <2>1, <2>2
<1>4. QED
  BY <1>2, <1>3 DEF TableRight

\* The sources of the queued copies after a call of DramCache.
LEMMA SourcesMove ==
    ASSUME SourcesKept, Queue' = Queue, i \in Nat \ {0}, i' = i, pc = "next", pc' \in {"loading", "place"}, NEW b, DramStep(b, i - 1)
    PROVE  \A k \in 1..Len(Queue') :
               \E j \in 1..Touched' : j <= Len(dramLru') /\ Queue'[k].src = dramOf'[dramLru'[j]]
<1>1. Touched = i - 1 /\ Touched' = i /\ (i - 1) + 1 = i
  BY DEF Touched
<1>2. ASSUME NEW k \in 1..Len(Queue')
      PROVE  \E j \in 1..Touched' : j <= Len(dramLru') /\ Queue'[k].src = dramOf'[dramLru'[j]]
  <2>1. PICK j \in 1..(i - 1) : j <= Len(dramLru) /\ Queue[k].src = dramOf[dramLru[j]]
    BY <1>1, <1>2 DEF SourcesKept
  <2>2. PICK m \in 1..i : m <= Len(dramLru') /\ dramLru'[m] = dramLru[j] /\ dramOf'[dramLru[j]] = dramOf[dramLru[j]]
    BY <1>1, <2>1 DEF DramStep
  <2>3. QED
    BY <1>1, <2>1, <2>2
<1>3. QED
  BY <1>2

\* The pointers while the block at hand has none yet.
LEMMA PtrsKept ==
    ASSUME PtrsRight, pc # "idle", pc' # "idle", UNCHANGED <<ptrs, batch, i>>, \A p, v : Will(p, v) => Will(p, v)'
    PROVE  PtrsRight'
  BY DEF PtrsRight

LEMMA DramHitGood ==
    ASSUME Known, Clean, Good, DramHitByCache
    PROVE  Good'
<1>1. /\ pc = "next" /\ pc' = "place" /\ src' = dramOf[Current] /\ Current \in DOMAIN dramOf
      /\ Look(marked_dram(Referenced(Current), dramOf[Current])) /\ Dram!get(Current)
      /\ UNCHANGED <<dramData, hbmOf, hbmData, streams, batch, i, ptrs, rc>>
  BY DEF DramHitByCache, AtBlock, hbmVars, Dram!Cached
<1>2. Queue' = Queue
  BY <1>1 DEF Queue
<1>3. \A p, v : Will(p, v) => Will(p, v)'
  BY <1>1, <1>2, WillKept
<1>4. i \in Nat \ {0} /\ i - 1 \in Nat /\ PoolFacts
  BY DEF Known, AtABlock
<1>5. DramStep(Current, i - 1) /\ dramOf' = dramOf /\ Current' = Current
  BY <1>1, <1>4, GetStep DEF Current
<1>6. DramRight'
  BY <1>1, <1>5 DEF Good, DramRight
<1>7. AtFront'
  BY <1>1, <1>5 DEF AtFront, DramStep
<1>8. SourcesKept'
  BY <1>1, <1>2, <1>4, <1>5, SourcesMove DEF Good, SourcesKept
<1>9. TableRight'
  <2> DEFINE e == marked_dram(Referenced(Current), dramOf[Current])
  <2>1. e.state = "IN_DRAM"
    <3>1. Entry(Current) \in ResidencyEntry
      BY EntryTyped DEF Known
    <3>2. QED
      BY <3>1 DEF marked_dram, Referenced, ResidencyEntry
  <2> HIDE DEF e
  <2>2. Look(e)
    BY <1>1 DEF e
  <2>3. QED
    BY <1>1, <1>3, <2>1, <2>2, LookRight DEF Good
<1>10. PtrsRight'
  BY <1>1, <1>3, PtrsKept DEF Good
<1>11. QED
  BY <1>6, <1>7, <1>8, <1>9, <1>10 DEF Good

LEMMA StartLoadGood ==
    ASSUME DramHoldsABatch, Known, PoolFacts', Clean, Good, StartLoad
    PROVE  Good'
<1>1. /\ pc = "next" /\ pc' = "loading" /\ i <= Len(batch) /\ Current \notin DOMAIN dramOf
      /\ Look(marked_loading(Referenced(Current))) /\ Dram!allocate(Current) /\ src' = dramOf'[Current]
      /\ dramData' = [dramData EXCEPT ![src'] = Garbage]
      /\ UNCHANGED <<hbmOf, hbmData, streams, batch, i, ptrs, rc>>
  BY DEF StartLoad, AtBlock, hbmVars, Dram!Cached
<1>2. Queue' = Queue
  BY <1>1 DEF Queue
<1>3. i \in Nat \ {0} /\ i - 1 \in Nat /\ PoolFacts /\ Touched = i - 1
  BY <1>1 DEF Known, AtABlock, Touched
<1>4. i - 1 < Cardinality(DramSlot) /\ IsFiniteSet(DramSlot)
  <2>1. Len(batch) <= Cardinality(DramSlot) /\ Len(batch) \in Nat
    BY DEF Known, HandInv, AtABlock, DramHoldsABatch
  <2>2. Cardinality(DramSlot) \in Nat /\ IsFiniteSet(DramSlot)
    BY FS_CardinalityType DEF DramHoldsABatch
  <2>3. QED
    BY <1>1, <1>3, <2>1, <2>2
<1>5. /\ DramStep(Current, i - 1) /\ dramOf'[Current] \in DramSlot /\ Current' = Current
      /\ \A j \in 1..(i - 1) : j <= Len(dramLru) => dramOf[dramLru[j]] # dramOf'[Current]
  BY <1>1, <1>3, <1>4, LoadStep DEF Current
<1>6. \A k \in 1..Len(Queue) : Queue[k].src # src'
  BY <1>1, <1>3, <1>5 DEF Good, SourcesKept
<1>7. \A s \in DramSlot : s # src' => dramData'[s] = dramData[s]
  BY <1>1 DEF Known, HandInv
<1>8. ASSUME NEW k \in 1..Len(Queue) PROVE dramData'[Queue[k].src] = dramData[Queue[k].src]
  <2>1. PICK j \in 1..(i - 1) : j <= Len(dramLru) /\ Queue[k].src = dramOf[dramLru[j]]
    BY <1>3 DEF Good, SourcesKept
  <2>2. j \in 1..Len(dramLru)
    BY <1>3, <2>1
  <2>3. Queue[k].src \in DramSlot
    BY <1>3, <2>1, <2>2 DEF PoolFacts
  <2>4. QED
    BY <1>6, <1>7, <2>3
<1>9. \A p, v : Will(p, v) => Will(p, v)'
  BY <1>1, <1>2, <1>8, WillKept
<1>10. DramRight'
  <2>1. ASSUME NEW x \in DOMAIN dramOf', x # Current PROVE dramData'[dramOf'[x]] = x
    <3>1. x \in DOMAIN dramOf /\ dramOf'[x] = dramOf[x]
      BY <1>5, <2>1 DEF DramStep
    <3>2. dramData[dramOf[x]] = x
      BY <1>1, <3>1 DEF Good, DramRight
    <3>3. dramOf'[x] \in DramSlot /\ dramOf'[x] # src'
      BY <1>1, <1>5, <2>1 DEF PoolFacts, DramStep
    <3>4. QED
      BY <1>7, <3>1, <3>2, <3>3
  <2>2. QED
    BY <1>1, <1>5, <2>1 DEF DramRight
<1>11. AtFront'
  BY <1>1, <1>5 DEF AtFront, DramStep
<1>12. SourcesKept'
  BY <1>1, <1>2, <1>3, <1>5, <1>6, SourcesMove DEF Good, SourcesKept
<1>13. TableRight'
  <2> DEFINE e == marked_loading(Referenced(Current))
  <2>1. e.state = "LOADING"
    <3>1. Entry(Current) \in ResidencyEntry
      BY EntryTyped DEF Known
    <3>2. QED
      BY <3>1 DEF marked_loading, Referenced, ResidencyEntry
  <2> HIDE DEF e
  <2>2. Look(e)
    BY <1>1 DEF e
  <2>3. QED
    BY <1>1, <1>9, <2>1, <2>2, LookRight DEF Good
<1>14. PtrsRight'
  BY <1>1, <1>9, PtrsKept DEF Good
<1>15. QED
  BY <1>10, <1>11, <1>12, <1>13, <1>14 DEF Good
\* While the lookup is at a block, it has the block's slot in DRAM.
LEMMA SourceOfCurrent ==
    ASSUME Known, Good, pc \in {"loading", "place"}
    PROVE  /\ Current \in DOMAIN dramOf /\ src = dramOf[Current] /\ src \in DramSlot
           /\ pc = "place" => dramData[src] = Current
<1>1. Len(dramLru) >= 1 /\ dramLru[1] = Current /\ src = dramOf[Current] /\ PoolFacts
  BY DEF Good, AtFront, Known
<1>2. 1 \in 1..Len(dramLru)
  BY <1>1 DEF PoolFacts
<1>3. Current \in DOMAIN dramOf /\ dramOf[Current] \in DramSlot
  BY <1>1, <1>2 DEF PoolFacts
<1>4. QED
  BY <1>1, <1>3 DEF Good, DramRight

LEMMA FinishLoadGood ==
    ASSUME Known, Clean, Good, FinishLoad
    PROVE  Good'
<1>1. /\ pc = "loading" /\ pc' = "place" /\ dramData' = [dramData EXCEPT ![src] = Current]
      /\ Look(marked_dram(Entry(Current), src))
      /\ UNCHANGED <<dramOf, dramLru, hbmOf, hbmData, streams, batch, i, ptrs, rc, src>>
  BY DEF FinishLoad, Look, dramVars, hbmVars, lookupVars
<1>2. Queue' = Queue /\ Current' = Current /\ Touched' = Touched
  BY <1>1 DEF Queue, Current, Touched
<1>3. Current \in DOMAIN dramOf /\ src = dramOf[Current] /\ src \in DramSlot /\ PoolFacts
  BY <1>1, SourceOfCurrent DEF Known
<1>4. dramData'[src] = Current /\ \A s \in DramSlot : s # src => dramData'[s] = dramData[s]
  BY <1>1, <1>3 DEF Known, HandInv
<1>5. ASSUME NEW k \in 1..Len(Queue) PROVE dramData'[Queue[k].src] = dramData[Queue[k].src]
  <2>1. Queue[k].src # src
    BY <1>1 DEF Good, SourcesKept
  <2>2. PICK j \in 1..Touched : j <= Len(dramLru) /\ Queue[k].src = dramOf[dramLru[j]]
    BY DEF Good, SourcesKept
  <2>3. j \in 1..Len(dramLru)
    BY <1>3, <2>2 DEF PoolFacts
  <2>4. Queue[k].src \in DramSlot
    BY <1>3, <2>2, <2>3 DEF PoolFacts
  <2>5. QED
    BY <1>4, <2>1, <2>4
<1>6. \A p, v : Will(p, v) => Will(p, v)'
  BY <1>1, <1>2, <1>5, WillKept
<1>7. DramRight'
  <2>1. ASSUME NEW x \in DOMAIN dramOf PROVE dramData'[dramOf[x]] = x
    <3>1. CASE x = Current
      BY <1>3, <1>4, <3>1
    <3>2. CASE x # Current
      <4>1. dramOf[x] \in DramSlot /\ dramOf[x] # src /\ dramData[dramOf[x]] = x
        BY <1>3, <3>2 DEF PoolFacts, Good, DramRight
      <4>2. QED
        BY <1>4, <4>1
    <3>3. QED
      BY <3>1, <3>2
  <2>2. QED
    BY <1>1, <2>1 DEF DramRight
<1>8. AtFront'
  BY <1>1, <1>2 DEF Good, AtFront
<1>9. SourcesKept'
  BY <1>1, <1>2 DEF Good, SourcesKept
<1>10. TableRight'
  <2> DEFINE e == marked_dram(Entry(Current), src)
  <2>1. e.state = "IN_DRAM"
    <3>1. Entry(Current) \in ResidencyEntry
      BY EntryTyped DEF Known
    <3>2. QED
      BY <3>1 DEF marked_dram, ResidencyEntry
  <2> HIDE DEF e
  <2>2. Look(e)
    BY <1>1 DEF e
  <2>3. QED
    BY <1>1, <1>6, <2>1, <2>2, LookRight DEF Good
<1>11. PtrsRight'
  BY <1>1, <1>6, PtrsKept DEF Good
<1>12. QED
  BY <1>7, <1>8, <1>9, <1>10, <1>11 DEF Good

LEMMA PlaceGood ==
    ASSUME Known, PoolFacts', Clean, Clean', HandInv', Good, Place
    PROVE  Good'
<1>1. PICK b, p, c : b = Current /\ p = hbmOf'[Current] /\ c = [src |-> src, dst |-> p]
  OBVIOUS
<1>2. /\ pc = "place" /\ pc' = "next" /\ i' = i + 1 /\ Hbm!allocate(b)
      /\ residency' = With(Forgotten(b), b, marked_hbm(Entry(b), p))
      /\ streams' = [streams EXCEPT ![Len(streams)] = Append(streams[Len(streams)], c)]
      /\ ptrs' = Append(ptrs, p)
      /\ UNCHANGED <<dramOf, dramLru, dramData, hbmData, batch, src, rc>>
  BY <1>1 DEF Place, dramVars
<1>3. b \in DOMAIN hbmOf' /\ p \in HbmSlot
  BY <1>1, <1>2, AllocateMoves DEF PoolFacts
<1>4. c \in CopyRecord /\ c.src = src /\ c.dst = p
  BY <1>1, <1>3 DEF CopyRecord, Known, TableTyped
<1>5. Queue \in Seq(CopyRecord) /\ Queue' = Append(Queue, c)
  <2>1. Queue \in Seq(CopyRecord) /\ Queue = streams[1] /\ Len(streams) = 1 /\ streams \in Seq(Seq(CopyRecord))
    BY <1>2, QueueOf DEF Known, HandInv
  <2>2. Queue' = streams'[1]
    <3>1. Len(streams') = 1
      BY <1>2 DEF Clean
    <3>2. QED
      BY <3>1 DEF Queue
  <2>3. streams' = [streams EXCEPT ![1] = Append(streams[1], c)] /\ 1 \in DOMAIN streams
    BY <1>2, <2>1
  <2>4. QED
    BY <2>1, <2>2, <2>3
<1>6. src = dramOf[b] /\ dramData[c.src] = b /\ Len(dramLru) >= 1 /\ dramLru[1] = b
  BY <1>1, <1>2, <1>4, SourceOfCurrent DEF Good, AtFront
<1>7. Will(p, b)' /\ \A q \in HbmSlot : \A v : q # p /\ Will(q, v) => Will(q, v)'
  BY <1>2, <1>4, <1>5, <1>6, WillAppend
<1>8. i \in Nat \ {0} /\ i <= Len(batch) /\ Len(batch) \in Nat
  BY <1>2 DEF Known, AtABlock
<1>9. DramRight' /\ AtFront'
  BY <1>2 DEF Good, DramRight, AtFront
<1>10. SourcesKept'
  <2>1. Touched = i /\ Touched' = i
    BY <1>2, <1>8 DEF Touched
  <2>2. ASSUME NEW k \in 1..Len(Queue')
        PROVE  \E j \in 1..i : j <= Len(dramLru) /\ Queue'[k].src = dramOf[dramLru[j]]
    <3>1. CASE k = Len(Queue) + 1
      <4>1. Queue'[k] = c /\ 1 \in 1..i
        BY <1>5, <1>8, <3>1
      <4>2. QED
        BY <1>4, <1>6, <4>1
    <3>2. CASE k # Len(Queue) + 1
      <4>1. k \in 1..Len(Queue) /\ Queue'[k] = Queue[k]
        BY <1>4, <1>5, <3>2
      <4>2. QED
        BY <2>1, <4>1 DEF Good, SourcesKept
    <3>3. QED
      BY <3>1, <3>2
  <2>3. QED
    BY <1>2, <2>1, <2>2 DEF SourcesKept
<1>11. TableRight'
  <2>1. /\ DOMAIN residency' = DOMAIN Forgotten(b) \cup {b}
        /\ residency'[b] = marked_hbm(Entry(b), p)
        /\ \A x \in DOMAIN Forgotten(b) \ {b} : residency'[x] = Forgotten(b)[x]
    BY <1>2 DEF With
  <2>2. marked_hbm(Entry(b), p).state = "IN_HBM"
    <3>1. Entry(b) \in ResidencyEntry
      BY EntryTyped DEF Known
    <3>2. QED
      BY <3>1 DEF marked_hbm, ResidencyEntry
  <2>3. ASSUME NEW x \in DOMAIN residency'
        PROVE  residency'[x].state # "IN_DRAM" /\ (residency'[x].state = "IN_HBM" => Will(hbmOf[x], x)')
    <3>1. CASE x = b
      <4>1. hbmOf'[x] = p
        BY <1>1, <3>1
      <4>2. QED
        BY <1>7, <2>1, <2>2, <3>1, <4>1
    <3>2. CASE x # b
      <4>1. x \in DOMAIN residency \ Hbm!Evicted(b) /\ residency'[x] = residency[x]
        BY <2>1, <3>2 DEF Forgotten, Without
      <4>2. residency[x].state # "IN_DRAM"
        BY <1>1, <3>2, <4>1 DEF Good, TableRight
      <4>3. ASSUME residency[x].state = "IN_HBM" PROVE Will(hbmOf[x], x)'
        <5>1. x \in DOMAIN hbmOf /\ Will(hbmOf[x], x)
          BY <4>1, <4>3 DEF Good, TableRight, Known, TableMatchesHbm
        <5>2. x \in DOMAIN hbmOf' /\ hbmOf'[x] = hbmOf[x]
          BY <1>2, <4>1, <5>1, AllocateMoves
        <5>3. hbmOf'[x] \in HbmSlot /\ hbmOf'[x] # p
          BY <1>1, <1>3, <3>2, <5>2 DEF PoolFacts
        <5>4. QED
          BY <1>7, <5>1, <5>2, <5>3
      <4>4. QED
        BY <4>1, <4>2, <4>3
    <3>3. QED
      BY <3>1, <3>2
  <2>4. QED
    BY <2>3 DEF TableRight
<1>12. PtrsRight'
  <2>1. PtrsRight /\ HandInv
    BY DEF Good, Known
  <2>2. QED
    BY <1>1, <1>2, <1>3, <1>7, <1>8, <2>1, PtrsAppend
<1>13. QED
  BY <1>9, <1>10, <1>11, <1>12 DEF Good

LEMMA FinishGood ==
    ASSUME Known, HandInv', Clean, Clean', Good, Finish
    PROVE  Good'
<1>1. /\ pc = "next" /\ pc' = "idle" /\ i > Len(batch) /\ streams[Len(streams)] = <<>>
      /\ UNCHANGED <<residency, dramOf, dramLru, dramData, hbmOf, hbmData, batch, i, src, ptrs>>
  BY DEF Finish, Synchronised, dramVars, hbmVars
<1>2. Queue = <<>> /\ Queue' = <<>>
  BY <1>1, QueueOf DEF Known, Clean, Queue
<1>3. \A p, v : Will(p, v) => Will(p, v)'
  BY <1>1, <1>2, WillKept
<1>4. DramRight' /\ AtFront'
  BY <1>1 DEF Good, DramRight, AtFront
<1>5. SourcesKept'
  BY <1>1, <1>2 DEF SourcesKept
<1>6. TableRight'
  BY <1>1, <1>3 DEF Good, TableRight
<1>7. PtrsRight'
  <2>1. i \in Nat /\ Len(batch) \in Nat
    BY DEF Known, AtABlock
  <2>2. /\ Len(ptrs) = i - 1 /\ i <= Len(batch) + 1
        /\ \A n \in 1..Len(ptrs) :
               (\A m \in (n + 1)..Len(ptrs) : ptrs[m] # ptrs[n]) => Will(ptrs[n], batch[n])
    BY <1>1 DEF Good, PtrsRight
  <2>3. i = Len(batch) + 1
    BY <1>1, <2>1, <2>2
  <2>4. \A n \in 1..Len(ptrs') :
            (\A m \in (n + 1)..Len(ptrs') : ptrs'[m] # ptrs'[n]) => Will(ptrs[n], batch[n])'
    BY <1>1, <1>3, <2>2
  <2>5. QED
    BY <1>1, <2>2, <2>3, <2>4 DEF PtrsRight
<1>8. QED
  BY <1>4, <1>5, <1>6, <1>7 DEF Good
LEMMA CopyGood ==
    ASSUME Known, HandInv', Clean, Clean', Good, NEW s \in 1..Len(streams), Copy(s)
    PROVE  Good'
<1>1. /\ UNCHANGED <<residency, dramOf, dramLru, dramData, hbmOf, pc, batch, i, src, ptrs, rc>>
      /\ streams[s] # <<>> /\ streams' = [streams EXCEPT ![s] = Tail(streams[s])]
      /\ hbmData' = [hbmData EXCEPT ![Head(streams[s]).dst] = dramData[Head(streams[s]).src]]
  BY DEF Copy, dramVars, hbmVars, lookupVars
<1>2. pc # "idle" /\ Len(streams) = 1 /\ s = 1 /\ streams \in Seq(Seq(CopyRecord))
  BY DEF Clean, Known, HandInv
<1>3. Queue \in Seq(CopyRecord) /\ Queue = streams[1] /\ Queue # <<>>
  BY <1>1, <1>2, QueueOf DEF Known
<1>4. Queue' = Tail(Queue)
  <2>1. Len(streams') = 1
    BY <1>1, <1>2 DEF Clean
  <2>2. Queue' = streams'[1]
    BY <2>1 DEF Queue
  <2>3. QED
    BY <1>1, <1>2, <1>3, <2>2
<1>5. Head(Queue) = Queue[1] /\ Queue[1] \in CopyRecord
  BY <1>3
<1>6. Queue[1].dst \in HbmSlot /\ hbmData' = [hbmData EXCEPT ![Queue[1].dst] = dramData[Queue[1].src]]
  BY <1>1, <1>2, <1>3, <1>5 DEF CopyRecord
<1>7. \A p \in HbmSlot : \A v : Will(p, v) => Will(p, v)'
  BY <1>1, <1>3, <1>4, <1>6, WillTail DEF Known, HandInv
<1>8. DramRight' /\ AtFront'
  BY <1>1 DEF Good, DramRight, AtFront, Current
<1>9. SourcesKept'
  <2>1. Len(Queue) \in Nat /\ Len(Queue') = Len(Queue) - 1 /\ \A k \in 1..Len(Queue') : Queue'[k] = Queue[k + 1]
    BY <1>3, <1>4
  <2>2. \A k \in 1..Len(Queue') : k + 1 \in 1..Len(Queue)
    BY <2>1
  <2>3. Touched' = Touched
    BY <1>1 DEF Touched
  <2>4. QED
    BY <1>1, <2>1, <2>2, <2>3 DEF Good, SourcesKept
<1>10. TableRight'
  <2>1. ASSUME NEW x \in DOMAIN residency, residency[x].state = "IN_HBM" PROVE Will(hbmOf[x], x)'
    <3>1. Will(hbmOf[x], x) /\ hbmOf[x] \in HbmSlot
      BY <2>1 DEF Good, TableRight, Known, TableMatchesHbm, PoolFacts
    <3>2. QED
      BY <1>1, <1>7, <3>1
  <2>2. QED
    BY <1>1, <2>1 DEF Good, TableRight, Current
<1>11. PtrsRight'
  <2>1. \A n \in 1..Len(ptrs) : ptrs[n] \in HbmSlot
    BY DEF Known, HandInv
  <2>2. QED
    BY <1>1, <1>2, <1>7, <2>1 DEF Good, PtrsRight
<1>12. QED
  BY <1>8, <1>9, <1>10, <1>11 DEF Good

LEMMA NextResident ==
    ASSUME DramHoldsABatch, Known, HandInv', PoolFacts', ResidentInv, [Next]_vars
    PROVE  ResidentInv'
<1> SUFFICES ASSUME Clean' PROVE Good'
  BY DEF ResidentInv, Good
<1>1. Clean /\ ~FailLoad /\ ~FailCopy /\ ~FailSync /\ HandInv
  BY CleanBack DEF Known
<1>2. Good
  BY <1>1 DEF ResidentInv, Good
<1>3. ASSUME NEW b \in Block, Release(b) PROVE Good'
  <2>1. /\ residency' = [residency EXCEPT ![b].ref_count = residency[b].ref_count - 1]
        /\ b \in DOMAIN residency /\ residency[b] \in ResidencyEntry
        /\ UNCHANGED <<dramOf, dramLru, dramData, hbmOf, hbmData, pc, batch, i, src, ptrs, rc, streams>>
    BY <1>3 DEF Release, dramVars, hbmVars, lookupVars, Known, TableTyped
  <2>2. Queue' = Queue
    BY <2>1 DEF Queue
  <2>3. DOMAIN residency' = DOMAIN residency
        /\ residency'[b] = [residency[b] EXCEPT !.ref_count = residency[b].ref_count - 1]
        /\ \A x \in DOMAIN residency \ {b} : residency'[x] = residency[x]
    BY <2>1
  <2>4. residency'[b].state = residency[b].state
    BY <2>1, <2>3 DEF ResidencyEntry
  <2>5. \A x \in DOMAIN residency : residency'[x].state = residency[x].state
    BY <2>3, <2>4
  <2>6. QED
    BY <1>2, <2>1, <2>2, <2>3, <2>5, KeptGood
<1>4. CASE UNCHANGED vars
  <2>1. UNCHANGED <<residency, dramOf, dramLru, dramData, hbmOf, hbmData, pc, batch, i, src, ptrs, rc, streams>>
    BY <1>4 DEF vars, dramVars, hbmVars, lookupVars
  <2>2. Queue' = Queue
    BY <2>1 DEF Queue
  <2>3. QED
    BY <1>2, <2>1, <2>2, KeptGood
<1>5. QED
  BY <1>1, <1>2, <1>3, <1>4, BeginGood, HbmHitGood, NoTableHit, DramHitGood, StartLoadGood, FinishLoadGood,
     PlaceGood, FinishGood, CopyGood DEF Next, Done

LEMMA InitResident == Init => ResidentInv
<1> SUFFICES ASSUME Init PROVE Good
  BY DEF ResidentInv, Good
<1>1. /\ DOMAIN dramOf = {} /\ DOMAIN residency = {} /\ pc = "idle" /\ rc = -1 /\ streams = <<>>
  BY DEF Init, Dram!SlotInit
<1>2. Queue = <<>>
  BY <1>1 DEF Queue
<1>3. QED
  BY <1>1, <1>2 DEF Good, DramRight, AtFront, SourcesKept, TableRight, PtrsRight

\* When memtier_lookup_blocks returns 0 and no earlier lookup failed, the device memory at every
\* pointer it returned holds the block that was asked for, unless a later block of the batch got
\* the same slot.  This holds whenever the device does the copies, for any blocks, slots and
\* batches, repeated blocks included, as long as DRAM has room for a whole batch: then no slot
\* is loaded into while a copy from it is still queued.
THEOREM RuntimeLastHolder ==
    ASSUME DramHoldsABatch
    PROVE  Spec => []LastHolderIsResident
<1>1. DramSlot # {} /\ HbmSlot # {}
  BY RuntimeAssumption
<1>2. Spec => [](DramPool!SlotInv /\ HbmPool!SlotInv)
  BY <1>1, RuntimeUsesPools, DramPool!SlotInvariant, HbmPool!SlotInvariant, PTL
<1>3. Spec => []PoolFacts
  BY <1>2, PoolsAreRight, PTL
<1>4. PoolFacts => SlotsTyped
  BY DEF PoolFacts, SlotsTyped
<1>5. Spec => [](AtABlock /\ TableTyped /\ TableMatchesHbm)
  BY <1>3, <1>4, InitAtABlock, NextAtABlock, InitMatches, NextMatches, PTL DEF Spec
<1>6. Spec => []HandInv
  BY <1>3, <1>5, InitHand, NextHand, PTL DEF Spec
<1>7. Known /\ HandInv' /\ PoolFacts' /\ ResidentInv /\ [Next]_vars => ResidentInv'
  BY NextResident
<1>8. HandInv /\ AtABlock /\ TableTyped /\ TableMatchesHbm /\ PoolFacts => Known
  BY DEF Known
<1>9. Spec => []ResidentInv
  BY <1>3, <1>5, <1>6, <1>7, <1>8, InitResident, PTL DEF Spec
<1>10. Known /\ ResidentInv => LastHolderIsResident
  <2> SUFFICES ASSUME Known, ResidentInv, pc = "idle", rc = 0, streams = <<>>
               PROVE  /\ Len(ptrs) = Len(batch)
                      /\ \A n \in 1..Len(batch) :
                             (\A m \in (n + 1)..Len(batch) : ptrs[m] # ptrs[n]) => hbmData[ptrs[n]] = batch[n]
    BY DEF LastHolderIsResident
  <2>1. Clean /\ Queue = <<>>
    BY DEF Clean, Queue
  <2>2. PtrsRight
    BY <2>1 DEF ResidentInv
  <2>3. Len(ptrs) = Len(batch)
    <3>1. Len(ptrs) = i - 1 /\ i = Len(batch) + 1 /\ Len(batch) \in Nat
      BY <2>2 DEF PtrsRight, Known, AtABlock
    <3>2. QED
      BY <3>1
  <2>4. ASSUME NEW n \in 1..Len(batch), \A m \in (n + 1)..Len(batch) : ptrs[m] # ptrs[n]
        PROVE  hbmData[ptrs[n]] = batch[n]
    <3>1. Will(ptrs[n], batch[n])
      BY <2>2, <2>3, <2>4 DEF PtrsRight
    <3>2. QED
      BY <2>1, <3>1 DEF Will
  <2>5. QED
    BY <2>3, <2>4
<1>11. QED
  BY <1>3, <1>5, <1>6, <1>8, <1>9, <1>10, PTL
=============================================================================
