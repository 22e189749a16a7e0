----------------------------- MODULE BlockLookup ------------------------------
(***************************************************************************)
(* What memtier_lookup_blocks promises its callers about the paths it      *)
(* takes and what it counts, with the caches left out: a block may be a    *)
(* hit only after a read of it has begun, and may have to be read again at *)
(* any time.  EmbeddingRuntime implements it; EmbeddingDrivers is built on *)
(* it.                                                                     *)
(*                                                                         *)
(* bytes_read_from_ssd is posix_reads blocks, since a load that returns    *)
(* has read the whole block; copied is bytes_copied_dram_to_gpu in blocks. *)
(* gds_reads stays 0.                                                      *)
(***************************************************************************)
EXTENDS Integers, Sequences

CONSTANTS
    Block,
    Batch       \* the batches asked for: sequences of blocks

VARIABLES
    at,         \* "idle" between lookups, else where the lookup is with Head(todo)
    todo,       \* the blocks of the lookup not yet served
    begun,      \* blocks a read of which has begun
    metrics,    \* handle->metrics
    rc          \* what the last lookup returned

lookupServiceVars == <<at, todo, begun, metrics, rc>>

Metric == {"hbm_hits", "dram_hits", "dram_misses", "posix_reads", "copied"}

LookupInit ==
    /\ at = "idle" /\ todo = <<>> /\ begun = {} /\ rc = -1
    /\ metrics = [m \in Metric |-> 0]

Counted(m) == metrics' = [metrics EXCEPT ![m] = @ + 1]

\* A call with the blocks bs, which may fail before the first one.
Call(bs) ==
    /\ at = "idle"
    /\ rc' = -1
    /\ \/ at' = "next" /\ todo' = bs
       \/ UNCHANGED <<at, todo>>
    /\ UNCHANGED <<begun, metrics>>

AtBlock == at = "next" /\ todo # <<>>

HbmHit ==
    /\ AtBlock /\ Head(todo) \in begun
    /\ Counted("hbm_hits")
    /\ todo' = Tail(todo)
    /\ UNCHANGED <<at, begun, rc>>

\* Bug: counted as a hit in HBM.
DramHitMiscounted ==
    /\ AtBlock /\ Head(todo) \in begun
    /\ Counted("hbm_hits")
    /\ at' = "place"
    /\ UNCHANGED <<todo, begun, rc>>

DramHit ==
    /\ AtBlock /\ Head(todo) \in begun
    /\ Counted("dram_hits")
    /\ at' = "place"
    /\ UNCHANGED <<todo, begun, rc>>

Miss ==
    /\ AtBlock
    /\ Counted("dram_misses")
    /\ begun' = begun \cup {Head(todo)}
    /\ at' = "loading"
    /\ UNCHANGED <<todo, rc>>

Read ==
    /\ at = "loading"
    /\ Counted("posix_reads")
    /\ at' = "place"
    /\ UNCHANGED <<todo, begun, rc>>

Place ==
    /\ at = "place"
    /\ Counted("copied")
    /\ todo' = Tail(todo)
    /\ at' = "next"
    /\ UNCHANGED <<begun, rc>>

Return ==
    /\ at = "next" /\ todo = <<>>
    /\ rc' = 0
    /\ at' = "idle"
    /\ UNCHANGED <<todo, begun, metrics>>

Fail ==
    /\ at # "idle"
    /\ at' = "idle" /\ todo' = <<>>
    /\ UNCHANGED <<begun, metrics, rc>>

LookupNext ==
    (\E bs \in Batch : Call(bs)) \/ HbmHit \/ DramHit \/ Miss \/ Read \/ Place \/ Return \/ Fail

LookupSpec == LookupInit /\ [][LookupNext]_lookupServiceVars
=============================================================================
