---------------------------- MODULE ManagedMemory -----------------------------
(***************************************************************************)
(* The managed-memory extension (memtier_pytorch/csrc/memtier_uvm.cu) and  *)
(* the dataset that reads a file through it batch by batch                 *)
(* (memtier_pytorch/memtier/dataset.py): who owns which allocation, and    *)
(* what g_alloc_sizes and allocated_bytes say about it.                    *)
(*                                                                         *)
(* The Python program is one thread: pybind11 holds the GIL during a call. *)
(* A tensor's deleter runs on the thread that drops the last reference,    *)
(* which may be one of PyTorch's own that holds no GIL.  cudaFree, the     *)
(* critical section of record_free and the atomic subtraction are three    *)
(* steps, and the CUDA runtime may hand out an address again after the     *)
(* first.                                                                  *)
(*                                                                         *)
(* A row of the file is the unit of size.  The other counters and the      *)
(* timings decide nothing.                                                 *)
(***************************************************************************)
EXTENDS Integers, Sequences, FiniteSets, Functions

CONSTANTS
    Addr,        \* addresses cudaMallocManaged may return
    Deleter,     \* PyTorch's threads that may drop a tensor
    Config,      \* the programs considered, see ConfigAssumption
    SizeT        \* 2^64: allocated_bytes is a size_t

\* fileRows: the rows in the file; rows, batchRows: the dataset's arguments; policy:
\* its prefetch policy; raw: the sizes of the program's own allocate_managed calls;
\* unlocked: whether tensors are dropped on other threads.
ASSUME ConfigAssumption ==
    /\ SizeT \in Nat \ {0}
    /\ \A c \in Config : /\ c.fileRows \in Nat /\ c.rows \in Nat \ {0} /\ c.batchRows \in Nat \ {0}
                         /\ c.policy \in {"none", "cpu", "gpu", "accessed_by"}
                         /\ c.raw \subseteq Nat \ {0} /\ c.unlocked \in BOOLEAN

Main == "main"       \* the thread that holds the GIL
Thread == {Main} \cup Deleter
None == [step |-> "none"]

VARIABLES
    cfg,          \* the program, chosen at the beginning
    live,         \* CUDA: from the addresses allocated to their sizes
    sizes,        \* g_alloc_sizes
    allocated,    \* g_stats.allocated_bytes
    pc,           \* where Main is
    cur,          \* its locals: what it allocates (a batch, or raw memory), ptr and bytes
    idx,          \* the next batch of the epoch
    tensors,      \* the tensors that are referenced
    raws,         \* addresses returned by allocate_managed and not freed
    freeing,      \* for each thread the free it is in
    delivered,    \* history: rows the epoch has delivered
    failed,       \* history: a call of this epoch threw an exception
    lost,         \* history: addresses whose cudaFree failed
    base          \* history: bytes counted when the statistics were reset

acctVars == <<sizes, allocated, base>>
vars == <<cfg, live, acctVars, pc, cur, idx, tensors, raws, freeing, delivered, failed, lost>>

-----------------------------------------------------------------------------
(* MemTierFileDataset.                                                     *)

NumBatchesFloor == cfg.rows \div cfg.batchRows    \* Bug: no batch for the last rows

NumBatches == (cfg.rows + cfg.batchRows - 1) \div cfg.batchRows    \* math.ceil

StartRow(i) == i * cfg.batchRows

ActualRows(i) ==
    LET left == cfg.rows - StartRow(i) IN IF left < cfg.batchRows THEN left ELSE cfg.batchRows

-----------------------------------------------------------------------------
Init ==
    /\ cfg \in Config
    /\ live = [a \in {} |-> 0]
    /\ sizes = [a \in {} |-> 0] /\ allocated = 0 /\ base = 0
    /\ pc = "idle" /\ idx = 0 /\ tensors = {} /\ raws = {} /\ lost = {} /\ delivered = <<>> /\ failed = FALSE
    /\ cur \in [kind : {"raw"}, row : {0}, bytes : {0}, ptr : Addr]
    /\ freeing = [t \in Thread |-> None]

\* The program runs: no call is under way on its thread.
Idle == pc = "idle"

\* ext.uvm_tensor_from_file for the next batch of the epoch.
GetItem ==
    /\ Idle /\ idx < NumBatches
    /\ cur' = [cur EXCEPT !.kind = "batch", !.row = StartRow(idx), !.bytes = ActualRows(idx)]
    /\ idx' = idx + 1
    /\ pc' = "malloc"
    /\ UNCHANGED <<cfg, live, acctVars, tensors, raws, freeing, delivered, lost, failed>>

\* The program iterates over the loader once more, also after an exception.
Restart ==
    /\ Idle /\ idx > 0
    /\ idx' = 0 /\ delivered' = <<>> /\ failed' = FALSE
    /\ UNCHANGED <<cfg, live, acctVars, pc, cur, tensors, raws, freeing, lost>>

\* allocate_managed called by the program itself.
AllocateRaw(n) ==
    /\ Idle
    /\ cur' = [cur EXCEPT !.kind = "raw", !.bytes = n]
    /\ pc' = "malloc"
    /\ UNCHANGED <<cfg, live, acctVars, idx, tensors, raws, freeing, delivered, lost, failed>>

\* The call ends in an exception.
Throws == failed' = TRUE

\* cudaMallocManaged: an address that is not in use, or an exception.
Malloc ==
    /\ pc = "malloc"
    /\ \/ \E a \in Addr \ DOMAIN live :
              /\ live' = [x \in DOMAIN live \cup {a} |-> IF x = a THEN cur.bytes ELSE live[x]]
              /\ cur' = [cur EXCEPT !.ptr = a]
              /\ pc' = "record"
              /\ UNCHANGED failed
       \/ pc' = "idle" /\ Throws /\ UNCHANGED <<live, cur>>
    /\ UNCHANGED <<cfg, acctVars, idx, tensors, raws, freeing, delivered, lost>>

record_allocation ==
    /\ pc = "record"
    /\ sizes' = [a \in DOMAIN sizes \cup {cur.ptr} |-> IF a = cur.ptr THEN cur.bytes ELSE sizes[a]]
    /\ allocated' = (allocated + cur.bytes) % SizeT
    /\ IF cur.kind = "raw" THEN pc' = "idle" /\ raws' = raws \cup {cur.ptr}
       ELSE pc' = "pread" /\ UNCHANGED raws
    /\ UNCHANGED <<cfg, live, base, cur, idx, tensors, freeing, delivered, lost, failed>>

\* A thread begins to free what is at address a, and takes the size fallback for it if
\* nothing is recorded.  size, the true one, is known to the properties only.
StartsFree(t, a, fallback) ==
    freeing' = [freeing EXCEPT ![t] = [step |-> "cudaFree", addr |-> a, bytes |-> fallback, size |-> live[a]]]

NothingFreed == UNCHANGED freeing    \* Bug: an exception does not free the memory

\* The exception handler of load_file_to_managed, and the tensor's deleter.
FreedOnThrow == StartsFree(Main, cur.ptr, cur.bytes)

\* pread_exact: all rows of the batch, or an exception.
Pread ==
    /\ pc = "pread"
    /\ \/ /\ cur.row + cur.bytes <= cfg.fileRows
          /\ pc' = "policy"
          /\ UNCHANGED <<freeing, failed>>
       \/ /\ pc' = "unwind"
          /\ Throws
          /\ FreedOnThrow
    /\ UNCHANGED <<cfg, live, acctVars, cur, idx, tensors, raws, delivered, lost>>

\* Apply the policy and return the tensor, or throw, which destroys it.
Policy ==
    /\ pc = "policy"
    /\ \/ /\ tensors' = tensors \cup {[addr |-> cur.ptr, row |-> cur.row, bytes |-> cur.bytes]}
          /\ delivered' = delivered \o [i \in 1..cur.bytes |-> cur.row + i - 1]
          /\ pc' = "idle"
          /\ UNCHANGED <<freeing, failed>>
       \/ /\ cfg.policy # "none"
          /\ pc' = "unwind"
          /\ Throws
          /\ FreedOnThrow
          /\ UNCHANGED <<tensors, delivered>>
    /\ UNCHANGED <<cfg, live, acctVars, cur, idx, raws, lost>>

\* The last reference to a tensor is dropped on thread t: its deleter runs there.
Drop(t, x) ==
    /\ x \in tensors
    /\ IF t = Main THEN Idle /\ pc' = "freeing" ELSE UNCHANGED pc
    /\ freeing[t] = None
    /\ tensors' = tensors \ {x}
    /\ StartsFree(t, x.addr, x.bytes)
    /\ UNCHANGED <<cfg, live, acctVars, cur, idx, raws, delivered, lost, failed>>

\* free_managed, which has no other size to fall back on than 0.
FreeManaged(a) ==
    /\ Idle /\ a \in raws
    /\ raws' = raws \ {a}
    /\ StartsFree(Main, a, 0)
    /\ pc' = "freeing"
    /\ UNCHANGED <<cfg, live, acctVars, cur, idx, tensors, delivered, lost, failed>>

\* Main returns from the call, or from the exception, that the free was part of.
AfterFree(t) == pc' = IF t = Main THEN "idle" ELSE pc

\* cudaFree.  When it fails, record_free is not called.
CudaFree(t) ==
    /\ freeing[t].step = "cudaFree"
    /\ LET a == freeing[t].addr
       IN  \/ /\ live' = Restrict(live, DOMAIN live \ {a})
              /\ freeing' = [freeing EXCEPT ![t].step = "record"]
              /\ UNCHANGED <<pc, lost>>
           \/ /\ lost' = lost \cup {a}
              /\ freeing' = [freeing EXCEPT ![t] = None]
              /\ AfterFree(t)
              /\ UNCHANGED live
    /\ UNCHANGED <<cfg, acctVars, cur, idx, tensors, raws, delivered, failed>>

\* Bug: a free that finds no record subtracts nothing.
RecordedOrNothing(t) ==
    LET a == freeing[t].addr IN IF a \in DOMAIN sizes THEN sizes[a] ELSE 0

\* The bytes record_free takes the allocation to have had.
RecordedBytes(t) ==
    LET a == freeing[t].addr IN IF a \in DOMAIN sizes THEN sizes[a] ELSE freeing[t].bytes

\* record_free while it holds g_alloc_mutex.
record_free(t) ==
    /\ freeing[t].step = "record"
    /\ freeing' = [freeing EXCEPT ![t].step = "subtract", ![t].bytes = RecordedBytes(t)]
    /\ sizes' = Restrict(sizes, DOMAIN sizes \ {freeing[t].addr})
    /\ UNCHANGED <<cfg, live, allocated, base, pc, cur, idx, tensors, raws, delivered, lost, failed>>

Less(n) == (allocated - n) % SizeT

\* allocated_bytes.fetch_sub.
Subtract(t) ==
    /\ freeing[t].step = "subtract"
    /\ allocated' = Less(freeing[t].bytes)
    /\ freeing' = [freeing EXCEPT ![t] = None]
    /\ AfterFree(t)
    /\ UNCHANGED <<cfg, live, sizes, base, cur, idx, tensors, raws, delivered, lost, failed>>

\* What allocated_bytes should count: the allocations recorded, and the frees that
\* have yet to subtract theirs.
Counted ==
    LET known   == {a \in DOMAIN live : ~(pc = "record" /\ a = cur.ptr)}
        pending == {t \in Thread : freeing[t].step \in {"record", "subtract"}}
    IN  SumFunctionOnSet(live, known) + SumFunction([t \in pending |-> freeing[t].size])

reset_stats ==
    /\ Idle
    /\ allocated' = 0
    /\ base' = Counted
    /\ UNCHANGED <<cfg, live, sizes, pc, cur, idx, tensors, raws, freeing, delivered, lost, failed>>

Next ==
    \/ GetItem \/ Restart \/ Malloc \/ record_allocation \/ Pread \/ Policy \/ reset_stats
    \/ \E n \in cfg.raw : AllocateRaw(n)
    \/ \E a \in raws : FreeManaged(a)
    \/ \E x \in tensors : Drop(Main, x) \/ (cfg.unlocked /\ \E t \in Deleter : Drop(t, x))
    \/ \E t \in Thread : CudaFree(t) \/ record_free(t) \/ Subtract(t)

Spec == Init /\ [][Next]_vars

-----------------------------------------------------------------------------
(* Properties.                                                             *)

\* What each owner of memory holds on to.
Owned(t) == IF freeing[t].step = "cudaFree" THEN {freeing[t].addr} ELSE {}
InCall   == IF pc \in {"record", "pread", "policy"} THEN {cur.ptr} ELSE {}

\* Every allocation has exactly one owner, whatever throws: a tensor, the program, the
\* call that makes it, or a thread about to free it.  So nothing is freed twice or
\* used after it was freed, and nothing leaks but what cudaFree refused to free.
MemoryOwned ==
    LET ofTensors == {x.addr : x \in tensors}
    IN  /\ DOMAIN live = ofTensors \cup raws \cup InCall \cup lost \cup UNION {Owned(t) : t \in Thread}
        /\ Cardinality(DOMAIN live) = Cardinality(tensors) + Cardinality(raws) + Cardinality(InCall)
               + Cardinality(lost) + Cardinality({t \in Thread : Owned(t) # {}})

\* allocated_bytes is exact, modulo 2^64, relative to the latest reset_stats: with
\* deleters on other threads, where a new tensor may get the address of one whose
\* record is still to be erased, as long as all tensors have the same size; without
\* them, for every mixture of sizes and calls.
AccountingExact == allocated = (Counted - base) % SizeT

\* An epoch in which no call throws delivers every row of the dataset once, in order,
\* also when the last batch is short; and that takes a file which has them all.
EpochDelivers ==
    Idle /\ idx = NumBatches /\ ~failed =>
        delivered = [i \in 1..cfg.rows |-> i - 1] /\ cfg.rows <= cfg.fileRows
=============================================================================
