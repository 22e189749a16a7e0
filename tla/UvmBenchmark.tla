----------------------------- MODULE UvmBenchmark -----------------------------
(***************************************************************************)
(* The benchmark of the managed-memory extension (memtier_pytorch/memtier/ *)
(* benchmark.py, run by examples/run_memtier_dataloader.py): run_all reads *)
(* one file through NumPy, and through managed memory without and with     *)
(* prefetching, and reports what each path read.                           *)
(*                                                                         *)
(* cfg.bench says whether the program is the benchmark; another program    *)
(* behaves as ManagedMemory says.  cfg.fileRows is the length of the file  *)
(* that an earlier run may have left.                                      *)
(***************************************************************************)
EXTENDS ManagedMemory

VARIABLES
    phase,       \* "other" for other programs; else the function run_all is in
    num_batches, total_bytes,     \* the locals of run_baseline and run_uvm
    results      \* the BenchmarkResults so far

\* bench: whether the program is the benchmark.
ASSUME ProgramAssumption ==
    Config \subseteq [fileRows : Nat, rows : Nat \ {0}, batchRows : Nat \ {0},
                      policy : {"none", "cpu", "gpu", "accessed_by"}, raw : SUBSET (Nat \ {0}),
                      unlocked : BOOLEAN, bench : BOOLEAN]

benchVars == <<phase, num_batches, total_bytes, results>>

BenchInit ==
    /\ Init
    /\ phase = IF cfg.bench THEN "file" ELSE "other"
    /\ num_batches = 0 /\ total_bytes = 0 /\ results = <<>>

\* A file of another length is replaced.
ensure_binary_file ==
    /\ phase = "file"
    /\ cfg' = [cfg EXCEPT !.fileRows = cfg.rows]
    /\ phase' = "baseline"
    /\ UNCHANGED <<live, acctVars, pc, cur, idx, tensors, raws, freeing, delivered, failed, lost>>
    /\ UNCHANGED <<num_batches, total_bytes, results>>

-----------------------------------------------------------------------------
(* run_baseline with BaselineNumpyDataset.                                 *)

BaselineFloor == cfg.rows \div cfg.batchRows        \* Bug: no batch for the last rows

BaselineLen == (cfg.rows + cfg.batchRows - 1) \div cfg.batchRows

\* The rows of the map from idx * batch_rows on.
BaselineItem(i) == {r \in 0..(cfg.rows - 1) : i * cfg.batchRows <= r /\ r < (i + 1) * cfg.batchRows}

_result(name, bytes) ==
    Append(results, [name |-> name, num_batches |-> num_batches, total_bytes |-> total_bytes,
                     allocated_bytes |-> bytes, lost |-> lost])

BaselineBatch ==
    /\ phase = "baseline" /\ num_batches < BaselineLen
    /\ total_bytes' = total_bytes + Cardinality(BaselineItem(num_batches))
    /\ num_batches' = num_batches + 1
    /\ UNCHANGED <<vars, phase, results>>

EndBaseline ==
    /\ phase = "baseline" /\ num_batches = BaselineLen
    /\ results' = _result("baseline", 0)
    /\ phase' = "start"
    /\ UNCHANGED <<vars, num_batches, total_bytes>>

-----------------------------------------------------------------------------
(* run_uvm, with policy "none" and then "gpu".                             *)

UvmPolicy == IF Len(results) = 1 THEN "none" ELSE "gpu"

\* A new dataset and zeroed counters.
Fresh ==
    /\ phase = "start"
    /\ cfg' = [cfg EXCEPT !.policy = UvmPolicy]
    /\ idx' = 0 /\ delivered' = <<>>
    /\ num_batches' = 0 /\ total_bytes' = 0
    /\ phase' = "uvm"
    /\ UNCHANGED <<live, sizes, pc, cur, tensors, raws, freeing, failed, lost, results>>

StartWithoutReset == Fresh /\ UNCHANGED <<allocated, base>>     \* Bug

\* ext.reset_stats comes first.
StartUvm == Fresh /\ allocated' = 0 /\ base' = Counted

\* The loop waits for its next batch, has one that it has not counted, or has counted it.
Uncounted == num_batches < idx /\ ~failed

\* The extension at work for the loop, on the only thread.
UvmCall ==
    /\ phase = "uvm"
    /\ \/ ~failed /\ num_batches = idx /\ tensors = {} /\ GetItem
       \/ Malloc \/ record_allocation \/ Pread \/ Policy
       \/ ~Uncounted /\ \E x \in tensors : Drop(Main, x)
       \/ CudaFree(Main) \/ record_free(Main) \/ Subtract(Main)
    /\ UNCHANGED benchVars

\* touch_gpu and the loop's counters.
TouchBatch ==
    /\ phase = "uvm" /\ Idle /\ Uncounted
    /\ num_batches' = num_batches + 1
    /\ \E x \in tensors : total_bytes' = total_bytes + x.bytes
    /\ UNCHANGED <<vars, phase, results>>

\* touch_gpu throws; the batch is dropped when the frame is.
TouchFails ==
    /\ phase = "uvm" /\ Idle /\ Uncounted
    /\ Throws
    /\ UNCHANGED <<cfg, live, acctVars, pc, cur, idx, tensors, raws, freeing, delivered, lost, benchVars>>

\* The loop is over: the statistics are read and the result returned.
EndUvm ==
    /\ phase = "uvm" /\ Idle /\ tensors = {} /\ ~failed
    /\ idx = NumBatches /\ num_batches = idx
    /\ results' = _result(UvmPolicy, allocated)
    /\ phase' = IF Len(results) = 1 THEN "start" ELSE "done"
    /\ UNCHANGED <<vars, num_batches, total_bytes>>

\* An exception ends run_all: in run_baseline, before run_uvm has a dataset, or in run_uvm,
\* from the extension or from synchronize before or after the loop.
Stop ==
    /\ \/ phase \in {"baseline", "start"}
       \/ phase = "uvm" /\ Idle /\ tensors = {} /\ (failed \/ idx \in {0, NumBatches})
    /\ phase' = "done"
    /\ UNCHANGED <<vars, num_batches, total_bytes, results>>

BenchDone == phase = "done" /\ UNCHANGED <<vars, benchVars>>

run_all ==
    \/ ensure_binary_file \/ BaselineBatch \/ EndBaseline
    \/ StartUvm \/ UvmCall \/ TouchBatch \/ TouchFails \/ EndUvm \/ Stop \/ BenchDone

BenchNext == run_all \/ (phase = "other" /\ Next /\ UNCHANGED benchVars)

BenchSpec == BenchInit /\ [][BenchNext]_<<vars, benchVars>>

-----------------------------------------------------------------------------
\* The three paths that run_all compares have read the same: every row of the file, in
\* as many batches.
PathsAgree ==
    \A i \in DOMAIN results :
        /\ results[i].total_bytes = cfg.rows
        /\ results[i].num_batches = results[1].num_batches

\* run_uvm holds one batch at a time and gives every one back, so the allocated_bytes it
\* reports are those of the memory that cudaFree refused during that run.
BatchesGivenBack ==
    /\ phase = "uvm" => Cardinality(tensors) + Cardinality(InCall) + Cardinality(Owned(Main)) <= 1
    /\ phase = "uvm" /\ Idle /\ tensors = {} /\ ~failed =>
           allocated = SumFunctionOnSet(live, lost \ results[Len(results)].lost)
=============================================================================
