--------------------------- MODULE EmbeddingDrivers ---------------------------
(***************************************************************************)
(* The embedding benchmark over a trace: scripts/generate_embedding_file   *)
(* writes the table, and the drivers baseline_cpu_staging, memtier_        *)
(* embedding and baseline_torch_embedding replay the trace and append a    *)
(* report each.  memtier_embedding uses the library as BlockLookup         *)
(* promises it.                                                            *)
(*                                                                         *)
(* The table is one file that run_baselines.sh and run_memtier.sh generate *)
(* only when there is none yet, so a driver may meet the file of a         *)
(* generator that was killed, that another script is still running, or     *)
(* that was run for another number of rows than the trace is about.        *)
(* Sizes are in rows and blocks; a rate is a pair of integers.             *)
(***************************************************************************)
EXTENDS TracePipeline

CONSTANTS
    Driven,        \* the jobs whose traces are replayed
    TableRows,     \* the NUM_EMBEDDINGS that a script may run the generator with
    RowsPerChunk,  \* rows_per_chunk of the generator
    CudaFaults     \* whether calls of the CUDA runtime may fail

ASSUME DriverAssumption ==
    Driven \subseteq Job /\ TableRows \subseteq Positive /\ RowsPerChunk \in Positive /\ CudaFaults \in BOOLEAN

NoFile == -1
None == "none"
System == {"cpu_staging", "memtier", "torch"}

VARIABLES
    file,       \* rows of the embedding file
    asked,      \* the rows that the generator was asked for
    writer,     \* the generator: None, "writing", "done", "killed"
    system,     \* the driver that runs
    step,       \* where it is: "batch" at the head of its loop, "lookup", "exit" when it ends
    tally,      \* the locals of its loop
    resource,   \* its file descriptor or library handle: None or "open"
    released,   \* per system: how often the resource was closed or destroyed
    reports,    \* the lines appended to the output, by system
    failed,     \* how a driver without a report ended: None or its exception
    complete,   \* history: drivers started on a complete file
    faulted,    \* history: drivers that met a CUDA fault
    at, todo, begun, metrics, rc     \* the library: see BlockLookup

lookupVars == <<at, todo, begun, metrics, rc>>
fileVars   == <<file, asked, writer>>
endVars    == <<reports, failed, complete>>
driverVars == <<fileVars, system, step, tally, resource, released, endVars, faulted, lookupVars>>

Service == INSTANCE BlockLookup WITH Block <- Nat, Batch <- {}

NoTally ==
    [pos |-> 0, total_lookups |-> 0, all_unique_ids |-> {}, all_unique_blocks |-> {}, previous_blocks |-> {},
     unique_ids |-> <<>>, unique_blocks |-> <<>>, reuse_ratios |-> <<>>, posix_reads |-> 0]

Init ==
    /\ TraceInit
    /\ file = NoFile /\ asked = Absent /\ writer = None
    /\ system = None /\ step = "exit" /\ tally = NoTally /\ resource = None
    /\ released = [s \in System |-> 0]
    /\ reports = [s \in {} |-> 0] /\ failed = [s \in System |-> None]
    /\ complete = {} /\ faulted = {}
    /\ Service!LookupInit

-----------------------------------------------------------------------------
(* The table.                                                              *)

Replayed == Analysed /\ job \in Driven

\* A script finds no file and starts the generator, which creates an empty one, for the
\* script's own NUM_EMBEDDINGS.
StartGenerator ==
    /\ Replayed /\ file = NoFile
    /\ file' = 0 /\ asked' \in TableRows /\ writer' = "writing"

\* One chunk, or the end: the metadata are written next to the file.
WriteChunk ==
    /\ writer = "writing"
    /\ IF file < asked
       THEN file' = file + Min({RowsPerChunk, asked - file}) /\ UNCHANGED writer
       ELSE writer' = "done" /\ UNCHANGED file
    /\ UNCHANGED asked

\* The process is killed within a chunk: what was written stays.
KillGenerator ==
    /\ writer = "writing"
    /\ \E n \in 0..Min({RowsPerChunk, asked - file}) : file' = file + n
    /\ writer' = "killed" /\ UNCHANGED asked

generate_embedding_file == StartGenerator \/ WriteChunk \/ KillGenerator

Begins(b, rows) == b * RowsPerBlock < rows     \* Bug

\* pread gives the whole block.
Whole(b, rows) == (b + 1) * RowsPerBlock <= rows

-----------------------------------------------------------------------------
(* The loop the drivers share.                                             *)

\* A batch is counted, and compared with the blocks of the batch before it.
Counted(t, ids, blocks) ==
    [t EXCEPT !.pos = @ + 1,
              !.total_lookups = @ + Len(ids),
              !.all_unique_ids = @ \cup ToSet(ids),
              !.all_unique_blocks = @ \cup blocks,
              !.unique_ids = Append(@, Cardinality(ToSet(ids))),
              !.unique_blocks = Append(@, Cardinality(blocks)),
              !.reuse_ratios = IF t.previous_blocks = {} THEN @
                               ELSE Append(@, Ratio(Cardinality(blocks \cap t.previous_blocks),
                                                    Cardinality(blocks)))]

\* Bug: the ratios compare with the first batch for ever.
TalliedFirst(t, ids, blocks) ==
    [Counted(t, ids, blocks) EXCEPT !.previous_blocks = IF @ = {} THEN blocks ELSE @]

BatchTallied(t, ids, blocks) == [Counted(t, ids, blocks) EXCEPT !.previous_blocks = blocks]

\* estimate_block_reuse, over the rows of a synthetic trace.
estimate_block_reuse ==
    LET blocks(b) == ToSet(ids_to_blocks(trace.rows[b]))
    IN  [unique_counts |-> [b \in 1..Rows |-> Cardinality(blocks(b))],
         reuse_rates   |-> [b \in 1..(Rows - 1) |->
                               Ratio(Cardinality(blocks(b) \cap blocks(b + 1)), Cardinality(blocks(b + 1)))]]

\* A driver starts.
Start(s) ==
    /\ Replayed /\ file # NoFile /\ system = None
    /\ s \notin DOMAIN reports /\ failed[s] = None
    /\ system' = s /\ tally' = NoTally
    /\ complete' = IF writer = "done" THEN complete \cup {s} ELSE complete

Ids    == get_batch_ids(tally.pos)
Blocks == ids_to_blocks(Ids)

AtBatch(s) == system = s /\ step = "batch" /\ tally.pos < num_batches

\* Driver s ends by an exception, or with report r.
Raise(s, e) ==
    /\ failed' = [failed EXCEPT ![s] = e]
    /\ step' = "exit" /\ UNCHANGED reports

Report(s, r) ==
    /\ reports' = [x \in DOMAIN reports \cup {s} |-> IF x = s THEN r ELSE reports[x]]
    /\ step' = "exit" /\ UNCHANGED failed

\* What the reports of memtier_embedding and baseline_cpu_staging have in common.
Common(t) ==
    [num_batches |-> num_batches, lookups |-> t.total_lookups,
     num_unique_ids |-> Cardinality(t.all_unique_ids), num_unique_blocks |-> Cardinality(t.all_unique_blocks),
     ids_per_batch |-> t.unique_ids, blocks_per_batch |-> t.unique_blocks, reuse |-> t.reuse_ratios]

-----------------------------------------------------------------------------
(* baseline_cpu_staging: a file descriptor that a finally clause closes.   *)

OpenFile ==
    /\ Start("cpu_staging")
    /\ resource' = "open" /\ step' = "batch"
    /\ UNCHANGED <<fileVars, released, reports, failed, faulted, lookupVars>>

CloseFile ==
    /\ resource' = None
    /\ released' = [released EXCEPT ![system] = @ + 1]

StageBatch ==
    /\ AtBatch("cpu_staging")
    /\ tally' = BatchTallied(tally, Ids, ToSet(Blocks))
    /\ todo' = Blocks /\ step' = "lookup"
    /\ UNCHANGED <<fileVars, system, resource, released, endVars, faulted, at, begun, metrics, rc>>

AtRead == system = "cpu_staging" /\ step = "lookup" /\ todo # <<>>

\* A block is read; with --cuda-copy it is copied too.
StageBlock ==
    /\ AtRead /\ Whole(Head(todo), file)
    /\ tally' = [tally EXCEPT !.posix_reads = @ + 1]
    /\ todo' = Tail(todo)
    /\ step' = IF Len(todo) = 1 THEN "batch" ELSE "lookup"
    /\ UNCHANGED <<fileVars, system, resource, released, endVars, faulted, at, begun, metrics, rc>>

\* A short read, or a copy that fails.
StageFails ==
    /\ AtRead
    /\ \/ ~Whole(Head(todo), file) /\ UNCHANGED faulted
       \/ CudaFaults /\ faulted' = faulted \cup {system}
    /\ Raise(system, "RuntimeError") /\ CloseFile
    /\ todo' = <<>>
    /\ UNCHANGED <<fileVars, system, tally, complete, at, begun, metrics, rc>>

ReportStaging ==
    /\ system = "cpu_staging" /\ step = "batch" /\ tally.pos = num_batches
    /\ CloseFile
    /\ Report(system, [trace |-> Common(tally), posix_reads |-> tally.posix_reads])
    /\ UNCHANGED <<fileVars, system, tally, complete, faulted, lookupVars>>

-----------------------------------------------------------------------------
(* memtier_embedding: a MemTierEmbeddingBag in a with statement.           *)

\* A synthetic trace's metadata do not have total_num_embeddings.
MetadataTotal == IF job.tool \in {"criteo", "dlrm"} THEN trace.total ELSE Absent

\* --num-embeddings, when it is not given, is taken from the metadata; the library may
\* fail to initialise.
OpenBag ==
    /\ Start("memtier")
    /\ \E num_embeddings \in {trace.total, MetadataTotal} :
           \/ /\ num_embeddings = Absent /\ Raise("memtier", "ValueError")
              /\ UNCHANGED <<resource, faulted>>
           \/ /\ num_embeddings # Absent /\ resource' = "open" /\ step' = "batch"
              /\ UNCHANGED <<reports, failed, faulted>>
           \/ /\ num_embeddings # Absent /\ CudaFaults /\ Raise("memtier", "RuntimeError")
              /\ faulted' = faulted \cup {"memtier"} /\ UNCHANGED resource
    /\ UNCHANGED <<fileVars, released, lookupVars>>

\* Bug: the handle is destroyed and kept.
CloseOnly ==
    /\ released' = IF resource = "open" THEN [released EXCEPT ![system] = @ + 1] ELSE released
    /\ UNCHANGED resource

close ==
    /\ released' = IF resource = "open" THEN [released EXCEPT ![system] = @ + 1] ELSE released
    /\ resource' = None

\* A batch is handed to forward, which looks up its blocks.
forward ==
    /\ AtBatch("memtier")
    /\ tally' = BatchTallied(tally, Ids, ToSet(Blocks))
    /\ step' = "lookup"
    /\ Service!Call(Blocks)
    /\ \/ at' = "next" /\ UNCHANGED faulted
       \/ at' = "idle" /\ CudaFaults /\ faulted' = faulted \cup {system}
    /\ UNCHANGED <<fileVars, system, resource, released, endVars>>

InLookup == system = "memtier" /\ step = "lookup"

\* The library at work on the blocks.  A load ends when the file has the whole block.
Serve ==
    /\ InLookup
    /\ \/ Service!HbmHit \/ Service!DramHit \/ Service!Miss \/ Service!Place \/ Service!Return
       \/ at = "loading" /\ Whole(Head(todo), file) /\ Service!Read
    /\ UNCHANGED <<fileVars, system, step, tally, resource, released, endVars, faulted>>

LookupFails ==
    /\ InLookup /\ Service!Fail
    /\ \/ at = "loading" /\ ~Whole(Head(todo), file) /\ UNCHANGED faulted
       \/ CudaFaults /\ faulted' = faulted \cup {system}
    /\ UNCHANGED <<fileVars, system, step, tally, resource, released, endVars>>

\* forward returns, or raises when the lookup's result is not 0; __exit__ closes.
lookup_blocks ==
    /\ InLookup /\ at = "idle"
    /\ \/ rc = 0 /\ step' = "batch" /\ UNCHANGED <<resource, released, reports, failed>>
       \/ rc # 0 /\ Raise(system, "RuntimeError") /\ close
    /\ UNCHANGED <<fileVars, system, tally, complete, faulted, lookupVars>>

\* The metrics are read and the with statement ends before the report is written.
ReportMemtier ==
    LET m == metrics
        unique == Cardinality(tally.all_unique_blocks)
    IN  /\ system = "memtier" /\ step = "batch" /\ tally.pos = num_batches
        /\ close
        /\ Report(system,
               [trace |-> Common(tally), posix_reads |-> m["posix_reads"], dram_to_gpu |-> m["copied"],
                hbm_hit_rate |-> Ratio(m["hbm_hits"], m["hbm_hits"] + m["dram_hits"] + m["posix_reads"]),
                dram_hit_rate |-> Ratio(m["dram_hits"], m["hbm_hits"] + m["dram_hits"] + m["posix_reads"]),
                ssd_traffic_reduction |-> Ratio(unique - m["posix_reads"], unique)])
        /\ UNCHANGED <<fileVars, system, tally, complete, faulted, lookupVars>>

\* The process ends; __del__ closes once more.
Exit ==
    /\ system # None /\ step = "exit"
    /\ close
    /\ system' = None
    /\ at' = "idle" /\ todo' = <<>> /\ begun' = {} /\ rc' = -1
    /\ metrics' = [m \in Service!Metric |-> 0]
    /\ UNCHANGED <<fileVars, step, tally, endVars, faulted>>

-----------------------------------------------------------------------------
\* baseline_torch_embedding needs no file, and reads a synthetic trace itself; its script
\* starts it after baseline_cpu_staging.
RunTorch ==
    /\ Start("torch") /\ job.tool = "synthetic" /\ "cpu_staging" \in DOMAIN reports
    /\ \/ /\ Report("torch", [trace |-> [num_batches |-> Rows, lookups |-> Len(FlattenSeq(trace.rows))]])
          /\ UNCHANGED faulted
       \/ /\ CudaFaults /\ Raise("torch", "RuntimeError")
          /\ faulted' = faulted \cup {"torch"}
    /\ UNCHANGED <<fileVars, resource, released, lookupVars>>

Done ==
    /\ Analysed /\ writer # "writing"
    /\ job \in Driven =>
           /\ system = None
           /\ {"cpu_staging", "memtier"} \subseteq {s \in System : failed[s] # None} \cup DOMAIN reports
    /\ UNCHANGED <<traceVars, driverVars>>

DriverStep ==
    \/ OpenFile \/ StageBatch \/ StageBlock \/ StageFails \/ ReportStaging
    \/ OpenBag \/ forward \/ Serve \/ LookupFails \/ lookup_blocks \/ ReportMemtier
    \/ RunTorch \/ Exit

FileStep ==
    /\ generate_embedding_file
    /\ UNCHANGED <<system, step, tally, resource, released, endVars, faulted, lookupVars>>

Next ==
    \/ TraceNext /\ UNCHANGED driverVars
    \/ (FileStep \/ DriverStep) /\ UNCHANGED traceVars
    \/ Done

Spec == Init /\ [][Next]_<<traceVars, driverVars>>

-----------------------------------------------------------------------------
(* Properties.                                                             *)

\* Every driver's report says of the trace what the analysis says: as many batches and
\* lookups, ids and blocks, the same per batch and the same reuse from batch to batch;
\* so does the summary next to a synthetic trace.
ReportsAgree ==
    Analysed =>
        /\ \A s \in DOMAIN reports :
               reports[s].trace.num_batches = next /\ reports[s].trace.lookups = stats.total_lookups
        /\ \A s \in DOMAIN reports \ {"torch"} : LET r == reports[s].trace IN
               /\ r.num_unique_ids = Cardinality(BagToSet(stats.id_counter))
               /\ r.num_unique_blocks = Cardinality(BagToSet(stats.block_counter))
               /\ r.ids_per_batch = stats.unique_ids /\ r.blocks_per_batch = stats.unique_blocks
               /\ r.reuse = stats.reuse_ratios
        /\ job.tool = "synthetic" =>
               /\ estimate_block_reuse.unique_counts = stats.unique_blocks
               /\ estimate_block_reuse.reuse_rates = stats.reuse_ratios

\* memtier and cpu_staging serve the same blocks: each block of a batch is one hit in HBM
\* or in DRAM or one read.  A block is copied to the device when it is not a hit in HBM.
\* Every block is read at least once, so the reported reduction is never above 0.
EveryBlockServedOnce ==
    "memtier" \in DOMAIN reports =>
        LET r == reports["memtier"] IN
        /\ r.hbm_hit_rate[1] + r.dram_hit_rate[1] + r.posix_reads = Total(stats.unique_blocks)
        /\ "cpu_staging" \in DOMAIN reports =>
               reports["cpu_staging"].posix_reads = Total(stats.unique_blocks)
        /\ r.dram_to_gpu = r.dram_hit_rate[1] + r.posix_reads
        /\ r.ssd_traffic_reduction[1] <= 0

\* A file of that many rows has every row of the id's block.
Holds(rows, id) ==
    \A r \in 0..(id + RowsPerBlock) : r \div RowsPerBlock = id \div RowsPerBlock => r < rows

\* A driver that reports has read no block that the file did not wholly have.  Started on
\* a complete file, and without CUDA faults, a driver fails only for want of an argument,
\* when the trace uses a last block that the file's rows do not fill, or when it uses a row
\* that the file does not have, which a file made for as many rows as the trace always has.
OnlyShortBlocksFail ==
    \A s \in {"cpu_staging", "memtier"} :
        /\ s \in DOMAIN reports => \A id \in ToSet(read) : Holds(file, id)
        /\ failed[s] = "RuntimeError" /\ s \in complete \ faulted
               => \E id \in ToSet(read) :
                      \/ id < file /\ ~Holds(file, id)
                      \/ id >= file /\ (asked < trace.total \/ ~Consistent)

\* When a driver's process has ended, its file or handle was released exactly once,
\* whatever ended it; it never is twice.
ReleasedOnce ==
    \A s \in {"cpu_staging", "memtier"} :
        /\ released[s] <= 1
        /\ s \in DOMAIN reports => released[s] = 1
        /\ system = None => resource = None
=============================================================================
