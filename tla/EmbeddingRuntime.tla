--------------------------- MODULE EmbeddingRuntime ---------------------------
(***************************************************************************)
(* The embedding runtime (memtier_embedding_bench/src/memtier_api.cpp):    *)
(* memtier_lookup_blocks brings a batch of blocks from the embedding file  *)
(* over pinned DRAM to HBM and returns where each one is on the device.    *)
(*                                                                         *)
(* A lookup holds handle->mutex from beginning to end, so lookups follow   *)
(* each other, and the residency table, DramCache and HbmCache are only    *)
(* used by the one under way.  What runs beside it is the device: copies   *)
(* queued on the lookup's stream are done in order, but any time before    *)
(* the stream is synchronised.  memtier_release_blocks takes no lock.      *)
(*                                                                         *)
(* memtier_prefetch_blocks is a lookup that drops the pointers.            *)
(***************************************************************************)
EXTENDS Integers, Sequences, FiniteSets

CONSTANTS
    Block,        \* blocks of the embedding file
    DramSlot,     \* slots of DramCache
    HbmSlot,      \* slots of HbmCache
    Batch,        \* the batches looked up: sequences of blocks
    MaxLookups,   \* bound: lookups in a behaviour
    Faults,       \* what may throw: "load" (pread), "cuda" (any call of the CUDA runtime)
    Null          \* nullptr

ASSUME RuntimeAssumption ==
    /\ DramSlot # {} /\ HbmSlot # {}
    /\ Batch \subseteq Seq(Block) /\ MaxLookups \in Nat
    /\ Faults \subseteq {"load", "cuda"}

Garbage == -1     \* what a slot holds that no block was completely read into

VARIABLES
    residency,    \* ResidencyTable::entries_
    dramOf, dramLru, dramFree, dramData,     \* DramCache and its memory
    hbmOf, hbmLru, hbmFree, hbmData,         \* HbmCache and its memory
    streams,      \* copies still queued, per stream; the last is the lookup's own
    pc,           \* where the lookup is: "idle" between lookups
    batch, i,     \* block_ids and the index of the current block
    src,          \* dram_ptr of the current block
    ptrs,         \* device_block_ptrs so far
    rc,           \* what the last lookup returned
    metrics,      \* handle->metrics, bytes in blocks: see BlockLookup
    begun,        \* history: blocks a load of which has begun
    lookups       \* history: lookups begun

dramVars   == <<dramOf, dramLru, dramFree>>
hbmVars    == <<hbmOf, hbmLru, hbmFree>>
lookupVars == <<batch, i, src, ptrs, rc, begun, lookups>>
vars == <<residency, dramVars, dramData, hbmVars, hbmData, streams, pc, metrics, lookupVars>>

Dram == INSTANCE SlotCache WITH
    Slot <- DramSlot, slotOf <- dramOf, lru <- dramLru, free <- dramFree
Hbm == INSTANCE SlotCache WITH
    Slot <- HbmSlot, slotOf <- hbmOf, lru <- hbmLru, free <- hbmFree

\* The lookups as their callers see them.
Service == INSTANCE BlockLookup WITH
    at <- pc, todo <- IF pc = "idle" THEN <<>> ELSE SubSeq(batch, i, Len(batch))

-----------------------------------------------------------------------------
(* The residency table.  The step and access counters decide nothing.      *)

ResidencyEntry == [state      : {"NOT_RESIDENT", "IN_DRAM", "IN_HBM", "LOADING"},
                   dram_ptr   : DramSlot \cup {Null},
                   device_ptr : HbmSlot \cup {Null},
                   ref_count  : Nat]

\* entries_[b]: a default entry where there is none.
Entry(b) ==
    IF b \in DOMAIN residency THEN residency[b]
    ELSE [state |-> "NOT_RESIDENT", dram_ptr |-> Null, device_ptr |-> Null, ref_count |-> 0]

\* The table R with entry e for block b.
With(R, b, e) == [x \in DOMAIN R \cup {b} |-> IF x = b THEN e ELSE R[x]]

\* erase() of the blocks in E.
Without(R, E) == [x \in DOMAIN R \ E |-> R[x]]

\* The entry that lookup() leaves, and those the mark_ methods make of an entry.
Referenced(b)      == [Entry(b) EXCEPT !.ref_count = @ + 1]
marked_loading(e)  == [e EXCEPT !.state = "LOADING"]
marked_dram(e, p)  == [e EXCEPT !.state = "IN_DRAM", !.dram_ptr = p]
marked_hbm(e, p)   == [e EXCEPT !.state = "IN_HBM", !.device_ptr = p]

-----------------------------------------------------------------------------
TypeOK ==
    /\ DOMAIN residency \subseteq Block
    /\ \A b \in DOMAIN residency : residency[b] \in ResidencyEntry
    /\ Dram!SlotTypeOK /\ Hbm!SlotTypeOK
    /\ dramData \in [DramSlot -> Block \cup {Garbage}]
    /\ hbmData \in [HbmSlot -> Block \cup {Garbage}]
    /\ \A s \in 1..Len(streams) : streams[s] \in Seq([src : DramSlot, dst : HbmSlot])
    /\ pc \in {"idle", "next", "loading", "place"}
    /\ batch \in Batch /\ i \in 1..(Len(batch) + 1)
    /\ src \in DramSlot \cup {Null}
    /\ ptrs \in Seq(HbmSlot)
    /\ rc \in {0, -1}

Init ==
    /\ residency = [b \in {} |-> 0]
    /\ Dram!SlotInit /\ Hbm!SlotInit
    /\ dramData = [s \in DramSlot |-> Garbage]
    /\ hbmData = [s \in HbmSlot |-> Garbage]
    /\ streams = <<>>
    /\ pc = "idle"
    /\ batch \in Batch /\ i = 1 /\ src = Null /\ ptrs = <<>>
    /\ rc = -1
    /\ metrics = [m \in Service!Metric |-> 0]
    /\ begun = {} /\ lookups = 0

\* The block at hand, once the loop's condition holds.
Current == batch[i]
AtBlock == pc = "next" /\ i <= Len(batch)

\* One of the counters is incremented.
Count(m) == metrics' = [metrics EXCEPT ![m] = @ + 1]

\* Lock the handle and create a stream; the lookup returns -1 when that fails.
Begin(b) ==
    /\ pc = "idle" /\ lookups < MaxLookups
    /\ lookups' = lookups + 1
    /\ batch' = b /\ i' = 1 /\ ptrs' = <<>> /\ rc' = -1
    /\ \/ pc' = "next" /\ streams' = Append(streams, <<>>)
       \/ "cuda" \in Faults /\ UNCHANGED <<pc, streams>>
    /\ UNCHANGED <<residency, dramVars, dramData, hbmVars, hbmData, src, metrics, begun>>

\* residency->lookup of the block at hand, and what follows it, leave entry e.
Look(e) == residency' = With(residency, Current, e)

InHbm  == Entry(Current).state = "IN_HBM" /\ Entry(Current).device_ptr # Null
InDram == Entry(Current).state = "IN_DRAM" /\ Entry(Current).dram_ptr # Null

\* The table says the block is in HBM: return its pointer.
HbmHit ==
    /\ AtBlock /\ InHbm
    /\ Look(Referenced(Current))
    /\ Count("hbm_hits")
    /\ ptrs' = Append(ptrs, Entry(Current).device_ptr)
    /\ i' = i + 1
    /\ UNCHANGED <<dramVars, dramData, hbmVars, hbmData, streams, pc, batch, src, rc, lookups, begun>>

\* The table says the block is in DRAM.
DramHitByTable ==
    /\ AtBlock /\ ~InHbm /\ InDram
    /\ Look(Referenced(Current))
    /\ Count("dram_hits")
    /\ src' = Entry(Current).dram_ptr
    /\ pc' = "place"
    /\ UNCHANGED <<dramVars, dramData, hbmVars, hbmData, streams, batch, i, ptrs, rc, lookups, begun>>

\* The table does not know, but dram_cache->get finds the block.
DramHitByCache ==
    /\ AtBlock /\ ~InHbm /\ ~InDram /\ Current \in Dram!Cached
    /\ Look(marked_dram(Referenced(Current), dramOf[Current]))
    /\ Count("dram_hits")
    /\ Dram!get(Current)
    /\ src' = dramOf[Current]
    /\ pc' = "place"
    /\ UNCHANGED <<dramData, hbmVars, hbmData, streams, batch, i, ptrs, rc, lookups, begun>>

\* The block is in neither: allocate a slot; pread begins to overwrite it.
StartLoad ==
    /\ AtBlock /\ ~InHbm /\ ~InDram /\ Current \notin Dram!Cached
    /\ Look(marked_loading(Referenced(Current)))
    /\ Count("dram_misses")
    /\ Dram!allocate(Current)
    /\ src' = dramOf'[Current]
    /\ dramData' = [dramData EXCEPT ![src'] = Garbage]
    /\ begun' = begun \cup {Current}
    /\ pc' = "loading"
    /\ UNCHANGED <<hbmVars, hbmData, streams, batch, i, ptrs, rc, lookups>>

\* Bug: the read is not counted.
FinishLoadUncounted ==
    /\ pc = "loading"
    /\ dramData' = [dramData EXCEPT ![src] = Current]
    /\ residency' = With(residency, Current, marked_dram(Entry(Current), src))
    /\ pc' = "place"
    /\ UNCHANGED <<dramVars, hbmVars, hbmData, streams, lookupVars, metrics>>

\* The loader has read the whole block.
FinishLoad ==
    /\ pc = "loading"
    /\ dramData' = [dramData EXCEPT ![src] = Current]
    /\ residency' = With(residency, Current, marked_dram(Entry(Current), src))
    /\ Count("posix_reads")
    /\ pc' = "place"
    /\ UNCHANGED <<dramVars, hbmVars, hbmData, streams, lookupVars>>

\* The loader throws after an error or a short read; the lookup returns -1.
FailLoad ==
    /\ pc = "loading" /\ "load" \in Faults
    /\ pc' = "idle"
    /\ UNCHANGED <<residency, dramVars, dramData, hbmVars, hbmData, streams, lookupVars, metrics>>

NotForgotten(b) == residency    \* Bug: residency->erase is missing

\* residency->erase of the block that b displaces from HBM.
Forgotten(b) == Without(residency, Hbm!Evicted(b))

\* Allocate a slot in HBM, forget the block it belonged to, queue the copy.
Place ==
    /\ pc = "place"
    /\ Hbm!allocate(Current)
    /\ LET p == hbmOf'[Current]
       IN  /\ residency' = With(Forgotten(Current), Current, marked_hbm(Entry(Current), p))
           /\ streams' = [streams EXCEPT ![Len(streams)] = Append(@, [src |-> src, dst |-> p])]
           /\ ptrs' = Append(ptrs, p)
    /\ Count("copied")
    /\ i' = i + 1
    /\ pc' = "next"
    /\ UNCHANGED <<dramVars, dramData, hbmData, batch, src, rc, lookups, begun>>

\* cudaMemcpyAsync fails: the slot stays allocated, the table still says IN_DRAM.
FailCopy ==
    /\ pc = "place" /\ "cuda" \in Faults
    /\ Hbm!allocate(Current)
    /\ residency' = Forgotten(Current)
    /\ pc' = "idle"
    /\ UNCHANGED <<dramVars, dramData, hbmData, streams, lookupVars, metrics>>

NotSynchronised == TRUE    \* Bug: cudaStreamSynchronize is missing

Synchronised == streams[Len(streams)] = <<>>

\* cudaStreamSynchronize and cudaStreamDestroy after the last block; return 0.
Finish ==
    /\ pc = "next" /\ i > Len(batch)
    /\ Synchronised
    /\ streams' = SubSeq(streams, 1, Len(streams) - 1)
    /\ rc' = 0
    /\ pc' = "idle"
    /\ UNCHANGED <<residency, dramVars, dramData, hbmVars, hbmData, batch, i, src, ptrs, lookups, metrics, begun>>

\* cudaStreamSynchronize fails; the lookup returns -1.
FailSync ==
    /\ pc = "next" /\ i > Len(batch) /\ "cuda" \in Faults
    /\ pc' = "idle"
    /\ UNCHANGED <<residency, dramVars, dramData, hbmVars, hbmData, streams, lookupVars, metrics>>

\* The device does the next copy of a stream.  A lookup that fails leaves its stream
\* behind, and the copies on it are still done.
Copy(s) ==
    /\ streams[s] # <<>>
    /\ LET c == Head(streams[s]) IN hbmData' = [hbmData EXCEPT ![c.dst] = dramData[c.src]]
    /\ streams' = [streams EXCEPT ![s] = Tail(@)]
    /\ UNCHANGED <<residency, dramVars, dramData, hbmVars, pc, lookupVars, metrics>>

\* memtier_release_blocks for one block.
Release(b) ==
    /\ b \in DOMAIN residency
    /\ residency[b].ref_count > 0
    /\ residency' = [residency EXCEPT ![b].ref_count = @ - 1]
    /\ UNCHANGED <<dramVars, dramData, hbmVars, hbmData, streams, pc, lookupVars, metrics>>

\* Every lookup has been made.
Done == pc = "idle" /\ lookups = MaxLookups /\ UNCHANGED vars

Next ==
    \/ \E b \in Batch : Begin(b)
    \/ HbmHit \/ DramHitByTable \/ DramHitByCache
    \/ StartLoad \/ FinishLoad \/ FailLoad
    \/ Place \/ FailCopy \/ Finish \/ FailSync
    \/ \E s \in 1..Len(streams) : Copy(s)
    \/ \E b \in Block : Release(b)
    \/ Done

Spec == Init /\ [][Next]_vars

-----------------------------------------------------------------------------
(* Properties.                                                             *)

\* The two caches hand out their slots consistently, whatever fails in between.
SlotsConsistent ==
    /\ Dram!ListMatchesEntries /\ Dram!SlotsPartitioned /\ Dram!AlwaysAllocatable
    /\ Hbm!ListMatchesEntries /\ Hbm!SlotsPartitioned /\ Hbm!AlwaysAllocatable

\* The residency table never sends a lookup to a device pointer that HbmCache has
\* given to another block: an entry IN_HBM names the slot the block has in HbmCache.
TableMatchesHbm ==
    \A b \in DOMAIN residency : residency[b].state = "IN_HBM" =>
        b \in DOMAIN hbmOf /\ hbmOf[b] = residency[b].device_ptr

\* When memtier_lookup_blocks has returned 0, the device memory at a returned pointer
\* holds the block that was asked for, unless a later block of the same batch got the
\* same slot, or an earlier lookup failed (which leaves its stream behind).
LastHolderIsResident ==
    pc = "idle" /\ rc = 0 /\ streams = <<>> =>
        /\ Len(ptrs) = Len(batch)
        /\ \A n \in 1..Len(batch) :
               (\A m \in (n + 1)..Len(batch) : ptrs[m] # ptrs[n]) => hbmData[ptrs[n]] = batch[n]

\* When memtier_lookup_blocks has returned 0, the device memory at every pointer it
\* returned holds the block that was asked for.
BlocksAreResident ==
    pc = "idle" /\ rc = 0 => \A n \in 1..Len(batch) : hbmData[ptrs[n]] = batch[n]

\* To its callers memtier_lookup_blocks is BlockLookup, whatever the caches do and
\* whatever fails: every block gets exactly one path and is counted under it, and a
\* hit is never claimed for a block that no load was begun for.
IsBlockLookup == Service!LookupSpec
=============================================================================
