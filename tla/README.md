# MemTierGDS: a TLA+ verification of the tiered-memory runtimes

MemTierGDS holds three programs that move data from files through tiers of
memory: a C++ core runtime (`src/src`, with a Python wrapper in `src/python`) that
reads file ranges through a DRAM chunk cache, over POSIX or GPUDirect Storage; an
embedding runtime with its benchmark (`src/memtier_embedding_bench`) that keeps
blocks of an embedding table in pinned DRAM and HBM; and a PyTorch extension with
its benchmark (`src/memtier_pytorch`) that reads batches into CUDA managed memory.
This directory models them in TLA+, checks the models with TLC on small instances
and proves, with TLAPS, the invariants that the runs check and the refinements between
the modules for instances of every size.

`PROJECT.json` is the index: components, runs, the source lines behind every
definition (`map`), a mutant for every property, hazards, findings and theorems.

## 1. Inventory

| Component | State | Operations | Model |
|---|---|---|---|
| chunk cache (`cache_directory.cpp`) | hash table of chunks, LRU list with iterators into it, `used_bytes_` | `lookup`, `insert`, `touch`, `contains` | `CacheDirectory`, `CacheDirectoryLru`, `LruCache` |
| asynchronous requests (`api.cpp`) | queue, `stop`, workers, per-request `done`, `result` and condition variable | `memtier_read_async`, `wait`, `test`, `request_status`, `request_free`, `finalize`, the worker loop | `RequestPool` |
| read engine (`api.cpp`, `path_selector.cpp`, `posix_backend.cpp`, `gds_backend*.cpp`, `object_chunks.cpp`) | the cache, statistics, and each thread's place in a call | `memtier_read`, `readv`, `load_chunks`, `prefetch` | `ReadEngine` |
| Python wrapper (`src/python/memtier`) | the shared context `_ctx`, a dataset's index | `get_runtime`, `close_runtime`, `read_into_tensor`, `load_tensor`, `load_chunks`, `MemTierDataset` | `PythonRuntime` |
| slot pools (`dram_cache.cpp`, `HbmCache`) | entries, LRU list, free slots | `get`, `allocate`, `evict_if_needed` | `SlotCache` |
| embedding runtime (`memtier_api.cpp`, `residency_table.cpp`, `posix_loader.cpp`) | residency table, two slot pools, CUDA streams, metrics | `lookup_blocks`, `prefetch_blocks`, `release_blocks` | `EmbeddingRuntime`, `BlockLookup` |
| trace tools (`trace_reader.py` and the scripts) | a trace and its metadata, simulated LRU caches, counters | preprocess, convert, generate, iterate, analyse | `TracePipeline` |
| embedding drivers (`memtier_embedding.py`, `baseline_*.py`, `generate_embedding_file.py`) | the embedding file, a driver's loop, its descriptor or handle, the reports | generate, replay a trace, report | `EmbeddingDrivers` |
| managed-memory extension (`memtier_uvm.cu`, `dataset.py`) | allocations, `g_alloc_sizes`, `allocated_bytes`, live tensors | `uvm_tensor_from_file`, `allocate_managed`, `free_managed`, tensor deleters, `reset_stats` | `ManagedMemory` |
| managed-memory benchmark (`benchmark.py`) | the data file, the loops' counters, the results | `ensure_binary_file`, `run_baseline`, `run_uvm`, `run_all` | `UvmBenchmark` |

How they interact:

* `ReadEngine` calls the chunk cache (`Dir == INSTANCE CacheDirectory`) under the
  cache's own lock, and the statistics under `ctx->mu`; several threads are in it at
  once. A worker of `RequestPool` runs one call of `ReadEngine` per request.
* `PythonRuntime` is the wrapper's threads around one context. `memtier_read` is
  external to it, and does what `ReadEngine` shows it does.
* `EmbeddingRuntime` holds two instances of `SlotCache` and queues copies for the
  device, which runs beside it. It implements `BlockLookup`, the abstract lookup
  service.
* `EmbeddingDrivers` extends `TracePipeline`, whose batches the drivers replay, and
  calls the library through `BlockLookup`: the composition trace, driver, library
  is checked against the abstract service, and the runtime is proved to implement it.
* `UvmBenchmark` extends `ManagedMemory`: its program is one more the extension serves.

What is hard about each:

* chunk cache: a key inserted while present leaves its old list node behind and is
  counted twice. The list, the iterators and the byte counter must survive any
  number of those. Two threads that miss on one chunk cause it.
* requests: every notification is made after unlocking; shutdown races with
  submitted and queued work; a request may be freed by its client while the worker
  still holds a pointer to it.
* read engine: `lookup` and `insert` are separate critical sections; entries of a
  file's tail become stale when the file grows; each of five paths has its own
  partial failures; range arithmetic at chunk boundaries; vectored reads are merged
  and taken apart again.
* Python wrapper: `get_runtime` tests, creates and assigns `_ctx` without a lock;
  sizes come from a shape, a byte count or an index line, and the three libraries that
  may be installed (torch, NumPy, neither) take different paths through them.
* embedding runtime: three tables say where a block is; copies are asynchronous;
  a lookup may throw anywhere and leaves what it did so far.
* trace tools: two functions decide separately how a trace is cut into batches;
  table sizes, ids and totals come from different options; the analysis counts reuse
  over a history.
* embedding drivers: the table file is generated only where there is none, so a
  driver may meet one that is still being written, whose generator was killed, or
  that was made for another number of rows than its trace is about;
  a driver may end anywhere in its loop and holds a descriptor or a handle; four
  programs compute the same statistics with four pieces of code.
* managed memory: `cudaFree`, the erasure of the record and the subtraction are
  three steps of a thread that may hold no lock, and addresses are reused.
* managed-memory benchmark: the counters are reset between paths while memory that
  could not be freed is still there; two paths cut the file into batches separately.

## 2. Modules and their correspondence to the code

**CacheDirectory.** `table`, `lru`, `used` are `table_`, `lru_`, `used_bytes_`. A
list node has an address from `Addr`, which stands for the allocation
`std::list::iterator` points to; an address may be reused once its node is gone.
That makes a dangling iterator a visible state. `insert` is one action with the
whole eviction loop: `Evicts(n)` says that exactly the `n` oldest nodes go. Access
ticks and counts, which decide nothing, are left out.

**LruCache / CacheDirectoryLru.** The abstract promise (the keys held are the most
recently used ones, as many as fit) and the directory restricted to callers that
insert only absent keys, with a history variable for the order of use, which both
change with the same operator `Use`. `IsLruCache` is the refinement.

**RequestPool.** One step per critical section or notification. A condition
variable is the set of threads in state "blocked"; spurious wake-ups are allowed.
The read itself is a step with either return code. `FreePolicy` says when the
application frees requests. Assumed of the application: no
`memtier_read_async` overlaps or follows `memtier_finalize`.

**ReadEngine.** One step per critical section, system call or copy. Bytes are named
by file and offset, so a byte in the wrong place can be told. Files only grow.
`opt` abstracts the options to what `select_path` and the backends look at.
The three GDS builds are: off, the stub (which reads with `pread`), cuFile (which
requires alignment and completeness, and may fail). `IoFaults` lets opens, reads and
GPU copies fail. `memtier_load_chunks` only checks its arguments and calls
`memtier_readv`.

**PythonRuntime.** `ctx` is `_ctx`. `get_runtime` is the steps between which the
interpreter may switch threads: test, `memtier_init` (which may fail), assignment,
and the second read of the global in `return _lib, _ctx`. `close_runtime` finalizes
and then forgets. Assumed of the application: `close_runtime` is called when no
other call is under way. A result is a range of a file with the shape and type that
were made of it, so a tensor of the wrong size or from the wrong place can be told.
`env` says what could be imported.

**SlotCache.** DramCache and HbmCache are the same structure; their small
differences (`evict_if_needed` exists only in DramCache) are separate actions.

**EmbeddingRuntime.** A lookup holds `handle->mutex` throughout, so lookups follow
each other; the device's copies interleave with it. The stream that a failed lookup
leaves behind keeps its queued copies. Failures are `FailLoad`, `FailCopy`,
`FailSync`. `metrics` are the counters `memtier_get_metrics` returns, in blocks.

**BlockLookup.** A lookup without caches: each block is a hit in HBM, a hit in DRAM
or a load, is counted so, and cannot be a hit before a load of it has begun. A call
may fail before the first block or at any later point.

**TracePipeline.** Features are the numbers they hash to. Rows, batches, ids and
metadata follow the Python code; the text formats are left out. The analysis step
processes one batch, as the loop of `analyze_trace_file` does: LRU simulation for
each capacity, counters, reuse from batch to batch and reuse distances. `JobAssumption`
says what a job is: what the tools' argument checks leave (`parse_hash_sizes`: one
positive size or one per field; an overlap below a batch; arrays of at most three
dimensions and of whole samples), and at least one sample. Of an imported array, which
no tool of the repository wrote, it assumes ids below the number of embeddings it is
imported with. Sorted sequences (`np.unique`, fields in order) are
`Ascending`: the member at place `i` is the one with `i - 1` members below it.

**EmbeddingDrivers.** The file is its number of rows; `StartGenerator`,
`WriteChunk` and `KillGenerator` are the generator, which runs beside the drivers.
It is run for any of `TableRows` (`asked`), the `NUM_EMBEDDINGS` of whichever script
found no file, so that a complete file may have fewer or more rows than the trace is
about. The test for a file and its creation are one step: two scripts that both find
no file, of which the second then truncates what the first has written, are left out.
Each driver is its loop: `baseline_cpu_staging` reads every block of a batch from a
descriptor that a `finally` clause closes; `memtier_embedding` hands a batch to
`forward` in a `with` statement and raises when the lookup does not return 0;
`baseline_torch_embedding` reads the synthetic trace itself. `Exit` is the end of the
process, with `__del__`. A report is what it says of the trace (`trace`) and what it
says of the driver's work. A rate is a pair of integers; latencies and percentiles are
left out.
`Holds(rows, id)`, on which `OnlyShortBlocksFail` rests, looks at every row of the
id's block; an earlier form looked only at rows near the end of the table and said
nothing of an id far beyond it, which came out when the equivalence with the block
being whole (`HoldsIs`) could not be proved.

**ManagedMemory.** Sizes are in rows. The program is one thread that holds the GIL;
deleters may run on PyTorch's threads.

**UvmBenchmark.** `run_all` as three passes over one file: NumPy, managed memory
without prefetch, managed memory with prefetch. A pass over managed memory makes the
extension's own steps, so it fails and frees as `ManagedMemory` does. `Stop` is an
exception that leaves `run_all`, also from `run_baseline`, from the checks before a
pass and from a synchronisation before or after its loop.

MC modules (`MC*.tla`) give the instances: calls, options, jobs and symmetry sets.
`MCTracePipeline` holds the jobs, which `MCEmbeddingDrivers` extends with the traces
that are replayed.

## 3. Runs

| Run | Instance | States | Shows |
|---|---|---|---|
| `cache_directory` | 5 keys, 4 chunks fit, 9 bytes | 285 | any calls, duplicate inserts included, keep iterators valid, memory in budget, list bounded, one chunk of room |
| `cache_directory_lru` | the same, unique inserts | 299 | the refinement to `LruCache` |
| `request_pool` | 2 workers, 2 requests | 55 thousand | safety and liveness of the pool when requests are freed after `memtier_finalize` |
| `request_pool_free` | 1 worker, 1 request | - | violation: freeing after `memtier_wait` (finding 1) |
| `read_engine` | 2 threads, 2 calls each, a file that grows from 3 to 4 bytes, chunks of 2 | 428 thousand | reads deliver the file's bytes, fail only past the end, and leave only the file's bytes in the cache |
| `read_engine_paths` | every path, every failure, vectored reads, room for one chunk | 538 thousand | reads deliver the file's bytes over all paths; every range of `memtier_readv` gets its own; every chunk is counted once |
| `read_engine_stub` | GDS stub, end of file | - | violation: a short read succeeds (finding 2) |
| `python_runtime` | 2 threads, 2 calls each, 3 contexts, 8 datasets, with and without torch and NumPy | 4.2 million | no finalized context is used, one is lost only when first calls race, samples and tensors are the bytes asked for |
| `embedding_runtime` | 3 blocks, 2+2 slots, 3 lookups, any failure | 661 thousand | table and pools agree; pointers hold the right block unless the batch reuses the slot; the refinement to `BlockLookup` |
| `embedding_hbm_eviction` | 3 blocks, 3 DRAM and 2 HBM slots, no failure | - | violation: a batch evicts its own block (finding 3) |
| `embedding_drivers` | traces of every origin and option; tables of 2 to 4 rows, fewer than the trace's total, as many or more, with a last block that is full or not; a generator that may be killed | 615 thousand | batches are the whole trace, ids in range, fields apart, LRU hits and reuse right; the reports agree with the analysis and with each other; a driver fails only where a block cannot be read, and releases what it holds once |
| `managed_memory` | 2 addresses, 2 deleter threads, counter mod 16; 3 programs and the benchmark over 4 files | 156 thousand | one owner per allocation, exact accounting, complete epochs; the benchmark's three paths read the same and give every batch back |

**Bounds, and why they are enough.** Five keys against four chunks make every
position of the list evictable and leave room for several leaked nodes; a budget
that is no multiple of the chunk size meets the rounding; `Addr` always has an
address more than the list can have nodes, so that no insertion is disabled. Two
workers and two requests suffice for a lost wake-up (one blocked, one busy) and for
shutdown with a queued and a running request. In `read_engine` a chunk and a half of
file gives a full chunk, a short tail, its growth, a range across both, and two
threads that miss on one chunk; `read_engine_paths` fits one chunk, so every
admission evicts. `MaxCalls`, `MaxSize`, `MaxContexts` and `MaxLookups` bound the
behaviours and appear only in guards. Two calls per thread and three contexts let a
context be lost in a race, the surviving one be closed and a third be created. In
`embedding_runtime` neither pool holds all blocks, so both evict, and DRAM holds a
whole batch (see note (b) below). In `embedding_drivers` two rows make a block, so
tables of three and four rows have a last block that is short or full, and one of two
rows ends before ids of a trace that is about three or four; a
generator's chunk of three rows is cut by a kill inside a block, and the analysis'
caches hold one block, two, and more than there are. `ManagedMemory` has two
addresses so that a freed one is handed out again at once. Its three programs are
the ones for which the accounting is right (see (e)).

**Fairness** (`request_pool` only): weak fairness of each worker's steps, of a
thread inside `memtier_read_async` about to notify, of a woken `memtier_wait`, and
of the steps of `memtier_finalize`: the operating system runs a thread that can
run, and no other step disables one of these for ever. The application's calls are
not fair, spurious wake-ups are neither required nor excluded.

**Mutants.** Each property has one plausible bug in a mapped definition, next to it
in the module and marked `Bug`, under which TLC finds it violated.

## 4. Findings

1. `request_pool_free`: the worker notifies `r->cv` after unlocking `r->mu`; a client
   that has seen `done` may have freed `r` (`tests/test_async.cpp` frees so).
2. `read_engine_stub`: with the GDS stub a read past the end of the file returns
   `MEMTIER_OK` with zeros, because the byte count is ignored.
3. `embedding_hbm_eviction`: a later block of a batch evicts an earlier one of the
   same batch that was an HBM hit; its returned pointer then holds the wrong block.

Noted while modelling, without a run of their own:

* (a) `memtier_prefetch` skips a chunk whose entry is a short tail read before the
  file grew, and returns `MEMTIER_OK`; the next read misses. No wrong bytes follow.
* (b) With fewer DRAM slots than blocks in a batch, a slot is loaded again while the
  copy from it may still be queued: the device may copy the later block.
* (c) A load that throws leaves DramCache's entry behind; the next lookup takes the
  incomplete slot for a hit. `LastHolderIsResident` therefore speaks of behaviours
  without an earlier failure. When a constructor throws, `memtier_init_embedding`
  leaks `handle`.
* (d) Hits do not reach HbmCache's list: HBM evicts in loading order, although
  `memtier_embedding_bench/README.md` calls it an LRU buffer. `ref_count` is kept
  and protects no block.
* (e) `allocated_bytes` drifts when tensors of different sizes, or `free_managed`,
  meet deleters that run without the GIL: a record may belong to the next owner of
  the address. `reset_stats` while tensors live makes their frees wrap the counter.
* (f) `num_batches` and `_batch_from_array` disagree for a Criteo trace with
  `bag_size` above the number of fields and no `--drop-empty`: most samples are
  never read. `convert_dlrm_trace.py` with both `--hash-size` and
  `--num-embeddings`, with `--hash-size` in direct mode, or with fewer embeddings
  than fields, writes ids at or above `total_num_embeddings`. `Consistent` in
  `TracePipeline` excludes these. `--no-save-ids` writes a trace without ids.
* (g) `batch_multi_gpu_overlap` splits blocks that are already unique, so it always
  reports no duplicates; the bounded Zipf generator never yields id 0.
* (h) `generate_embedding_file.py` writes whole rows, not whole blocks. With the
  200,000,000 or 1,000,000 rows of the examples in its README, which are no multiples
  of a block's 2048, the last block is short and every lookup of its ids fails.
* (i) `run_baselines.sh` and `run_memtier.sh` take any existing file for the table they
  need. Their default file is one and the same and their default numbers of rows are
  1,000,000 and 200,000,000: `run_memtier.sh` after `run_baselines.sh` replays ids up
  to 200,000,000 over a complete file of 1,000,000 rows and ends with a RuntimeError.
  The file of a killed generator is taken too. In each case the drivers fail at the
  first block that is not wholly there, never with wrong values; `OnlyShortBlocksFail`
  says that, and that a complete file that was made for the trace's number of rows
  fails a driver only in the way of (h), the options of (f) aside. The file of
  `run_memtier_dataloader.py` is created at full size at once, so the length test of
  `ensure_binary_file` accepts a half-written one.
* (j) `ssd_traffic_reduction` compares unique blocks with reads, and every unique
  block is read at least once: it is never above 0. `EveryBlockServedOnce` says so.
* (k) A synthetic trace's metadata do not have `total_num_embeddings`, so
  `memtier_embedding.py` without `--num-embeddings` raises `ValueError` for it.
* (l) Two first calls of `get_runtime` at the same time create two contexts, one of
  which nothing finalizes; `LostOnlyInARace` bounds that. Hints given to the Python
  and C++ tensor calls never reach `memtier_read`. A dataset's `shape` overrides the
  sizes in its index. The C++ `MemTierDataset` does not know the index lines of four
  fields that the Python one accepts: it takes the offset for the path.

## 5. Proofs

All for arbitrary constants: any number of keys, chunks, workers, requests, threads,
files, blocks, slots, addresses and rows, as far as the named assumptions in the
modules allow. Every invariant of every passing run is proved, six of them under a
hypothesis on the program or the build, named in the theorem and explained below.

* `CacheDirectoryProofs`. `DirInvariant`: the conjunction of the five invariants is
  inductive. None is by itself: an eviction subtracts a chunk only for a node whose
  key is still in the table, so the budget needs valid iterators (an entry's
  node is evicted with it), room for one chunk needs that the leak can only grow by
  an insert that found the budget respected, and the bound on the list
  needs both. Corollaries state each invariant for `DirSpec`.
  `DirIsLruCache` is the refinement to `LruCache`: when no present key is inserted,
  the list is the beginning of the order of use and every node has its entry
  (`OrderInv`), so `insert` into a full cache pops exactly one node, and the keys
  kept are the latest used.
* `RequestPoolProofs`. The inductive invariant `PoolInv` adds to `TypeOK` and
  `InOnePlace` the shutdown protocol (a worker exits only after `stop` with an empty
  queue, and none is pushed later) and what `done` stands for. `AnswerIsResult`,
  `FinalizeDrains` follow; `NoUseAfterFree` assumes `FreePolicy =
  "after_finalize"`. The proofs are about `SafetySpec`; `Spec` implies it.
* `ReadEngineProofs`.
  1. `ControlInv`: what each thread has at each place of a call. Its core is
     `Holds(k, d, v)`: the buffer `d` is `v` bytes of chunk `k`'s place in its file
     and then zeros. The table holds that of each of its entries, and a thread of the
     chunk that it is about to admit. Other threads' steps keep it because files only
     grow. `EngineCacheHoldsFileBytes` is part of it.
  2. `EngineReadsDeliver`: what a call has copied is the beginning of what it was
     asked for (`DeliverInv`); a step adds the part of one chunk that lies in the
     range. `EngineReadvFills` adds that every destination has its own range's bytes or
     its item is still to come (`ReadvInv`), and that the range read for a group of
     items holds each of theirs. Both assume `StubWithinFiles`: if the build
     has the GDS stub, ranges are within the files. Finding 2 shows that this is
     needed.
  3. `EngineErrorsAreJustified`: while a call runs, no file is shorter than when it
     began, so a short read means a range past the end. A call of
     `memtier_readv` may meet several files, so the history variable `seen` holds the
     size of each file.
  4. `EngineStatsBalance`: a step moves one thread into or out of the set of those
     whose path is selected and not yet counted.
  5. `EngineImplementsDirectory`: every step is a call of the chunk cache or leaves it
     alone, so the theorems of `CacheDirectoryProofs`, instantiated, hold while any
     number of threads run (`EngineCacheSound`).
* `PythonRuntimeProofs`. `ContextInv`: contexts are numbered as they are created, the
  ones that threads hold are live, none is finalized twice, and `close_runtime` is
  alone. `NoRaceYet`: until two first calls overlap, every live context is `_ctx` or
  about to be. `ResultInv`: a result is that of an accepted call on an opened
  dataset. That the bytes fit the shape needs that `_numel`, a recursion over the
  shape, is an integer for every shape, and `n` for the shape `(n,)`; this is shown
  with a least counterexample (`LeastNat`).
* `SlotCacheProofs`. For a pool with at least one slot (the code has
  `max(1, ...)`), list, entries and free slots are inductively consistent: a list
  without duplicates, equal to the cached blocks, and slots partitioned. That
  `allocate` never takes the back of an empty container follows.
* `EmbeddingRuntimeProofs`, in four parts.
  1. The lookup's loop is at a block of its batch whenever it calls a cache
     (`AtABlock`), so every step of the runtime is, to each of the two caches, a
     call of the pool's own methods or a stutter: `RuntimeUsesPools`.
     `SlotCacheProofs`, instantiated twice, then gives `SlotsConsistent`.
  2. `TableMatchesHbm` is inductive once the pointers are known to be slots, which
     comes from part 1: `allocate` moves no block but the one it evicts, and that
     one is erased from the table in the same step, also when the copy then fails.
  3. `RuntimeIsBlockLookup`: the runtime implements `BlockLookup`. The invariant
     (`KnownBegun`) is that the table and DramCache know only blocks whose load has
     begun; the blocks still to do are `SubSeq(batch, i, Len(batch))`, and every
     action of the runtime is the service's action of the same path, or invisible.
  4. `RuntimeLastHolder`: the pointers of a lookup hold their blocks when it returns
     0. `Will(p, v)` says that slot `p` of HBM will hold `v` once the queued copies are
     done, whenever the device does them: the last copy into `p` has `v` in its source,
     or there is none and `v` is there already. It survives because the blocks used by
     the batch are at the front of DramCache's list, and a slot is taken from the back:
     no slot is loaded while a copy from it is queued. That needs `DramHoldsABatch`
     (note (b) is what happens otherwise), and that no earlier lookup failed (`Clean`,
     note (c)). Blocks may be repeated in a batch.
* `ManagedMemoryProofs`, about `BenchSpec`, thus for the benchmark and for any other
  program.
  1. `OwnInv`: tensors, raw pointers, the call under way, lost memory and frees under
     way hold different addresses, and between them all that is allocated. The
     cardinalities of `MemoryOwned` follow.
  2. `EpochInv`: between calls that did not throw, the rows delivered are those before
     batch `idx`; the arithmetic of `math.ceil` is `BatchFacts`.
  3. `PathInv`: each of the benchmark's loops has counted the rows before its batch.
  4. `UvmAccountingExact`. `Counted` is a sum over sets, so the first lemmas show, for
     finite sets, what the library's `SumFunctionOnSet` returns, by a smallest set for
     which it would be wrong. `CountInv` then follows each step: an
     allocation becomes known when it is recorded, and between `cudaFree` and the
     subtraction its bytes belong to a pending free. What is subtracted must be what
     was added (`RecordsInv`): under the GIL each known allocation has its own
     record; without it a record may be another owner's, and then all have one size.
     Hence the hypothesis `OneSizeUnlocked`; note (e) is what happens otherwise.
  5. `UvmBatchesGivenBack`: `RunInv` bounds the bytes held or lost by this run by the
     rows asked for so far, so the difference to the count at its beginning does not
     wrap if the file's size is a `size_t` (`RowsCountable`).

* `EmbeddingDriversProofs`, about the trace tools and the drivers, for any jobs that
  satisfy `JobAssumption`, any block size and any capacities.
  1. What the operators compute. `Total` is a running sum, `FlattenSeq` joins stretch by
     stretch (`FlattenStretch`), `Ascending` lists a finite set without repetition
     (`RankReached`, `RankInjective`). Each is defined by recursion or by choice;
     `RecursionExists` shows that functions defined along `0..n` exist, by a least
     counterexample, and the rest follows by induction on a set (`Inductive`).
  2. `TraceInv`: each of the four tools writes a `Proper` trace, which the reader can cut,
     with ids below the total and, with a table per field, no id of two fields
     (`CriteoRowIs`, `DlrmIdIs`, `SyntheticRows`; `PerFieldApart` is the arithmetic of the
     offsets). `Cut(n)` is the row at which batch `n` begins: what was read is the rows
     before `Cut(next)`, and the last cut is the end because `num_batches` rounds up.
     `IdsInRange`, `FieldsAreSeparate` and `EveryIdReadOnce` follow, the first and the
     last for options that agree (`Consistent`, note (f)).
  3. `SimulationIsLru`. `Since(A, x)` is the set of blocks used after the last use of `x`
     in the accesses `A`. `CacheIs` says that a simulated cache holds exactly the blocks
     with fewer than its capacity of others since, in the order of use; a lookup moves a
     block to the end or drops the first (`CacheLookedUp`). So a block is in the cache
     exactly when the reference counts a hit, which `LruOK` keeps block by block of
     `update_lru_sims`.
  4. `ReuseStaysMeasured`. `LastOK`: `last_seen` is the latest batch that used a block.
     `ReuseOK` adds that the distances so far are those of the batches so far and that,
     with the blocks seen for the first time, they are as many as the accesses; repeated
     accesses are so many too, and a cache that holds every block hits each of them.
  5. `DriversInv`. `Control` is what a driver holds open (`ReleasedOnce` is a consequence);
     `FileOK` that a table is never shortened and, when done, has the rows that its
     generator was asked for; `StatsOK` and `LoopOK` that the analysis and a driver's
     loop have counted the same function of the batches so far (`TallyIs`), from which the
     reports agree; `WorkOK` that every block of the batches so far is still to do or was
     read whole, and that hits, reads and blocks to do add up to the blocks of the
     batches, through every step of `BlockLookup`;
     `EndOK` that each report is that of the whole trace and that a failure on a complete
     table without faults met a block that those rows do not fill. The ids read are below
     the trace's total (`ReadInRange`), so that a block beyond the table means a table
     made for fewer rows. `DriversFailOnShortBlocks`, `BlocksAreServedOnce` and
     `ReportsStayAgreed` follow.

Only model-checked: liveness and everything under fairness, that is `request_pool`'s
temporal properties (TLAPS proves neither that nor `ENABLED`). Induction over data
cannot be cited from the library here, whose theorems take an operator; where it is
needed (shapes, sums over finite sets, totals, flattened rows) it is done by a least
counterexample.

## 6. Not modelled

* CUDA kernels (numerical, not called by the runtime yet) and the CUDA backend of the
  core (calls that succeed or fail, which is how `ReadEngine` sees them);
* file preparation, logging, plots and the core's benchmarks and examples: pure I/O
  around calls that are modelled; `baseline_uvm.py`, which only says that it is not
  implemented;
* the C++ tensor and dataset objects: argument checks and one `memtier_read` per call;
* `src/src/dram_cache.cpp`, which no target compiles;
* of the trace tools, the frequency tables, the Zipf fit and the CSV output, which only
  describe counters that are modelled, and the stored `block_ids`;
* latencies, `touch_gpu`'s arithmetic, devices, hints, parsing of text formats and
  statistics that no decision and no report depends on.

Rejected arguments and failed allocations of the C++ API return before any state
changes.

## 7. Plan

1. (done) chunk cache, request pool, slot pools with proofs; read engine, embedding
   runtime, managed memory and trace tools model-checked.
2. (done) the Python wrapper; the embedding drivers over the trace tools and the
   abstract lookup service; the managed-memory benchmark; the runtime's table and its
   refinement proved.
3. (done) Proofs: the read engine, the Python wrapper, managed memory and its
   benchmark, the pointers of the embedding runtime, the refinement to `LruCache`.
4. (done) Proofs: the trace tools and the embedding drivers; every invariant that a run
   checks is now a theorem.
5. Left: the trace tools' stored `block_ids` and the CSV output, should a program come to
   depend on them.
