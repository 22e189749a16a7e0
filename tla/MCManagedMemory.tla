--------------------------- MODULE MCManagedMemory ----------------------------
(* Instances of the managed-memory extension for TLC. *)
EXTENDS UvmBenchmark, TLC

dataset(rows, batchRows, fileRows) ==
    [fileRows |-> fileRows, rows |-> rows, batchRows |-> batchRows, policy |-> "gpu",
     raw |-> {}, unlocked |-> FALSE, bench |-> FALSE]

\* Batches of one size dropped on any thread; batches and raw memory of several sizes
\* dropped under the GIL, with a short last batch, a short file, or no policy.
Programs == {[dataset(4, 2, 4) EXCEPT !.unlocked = TRUE],
             [dataset(3, 2, 3) EXCEPT !.raw = {1, 3}],
             [dataset(3, 2, 2) EXCEPT !.policy = "none"]}

\* Files left by a run with fewer rows, with more, and with as many.
Benchmarks == {[dataset(rows, 2, file) EXCEPT !.bench = TRUE] : rows \in {3, 4}, file \in {2, 4}}

AllPrograms == Programs \cup Benchmarks

Symmetric == Permutations(Addr) \cup Permutations(Deleter)
=============================================================================
