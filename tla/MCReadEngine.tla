----------------------------- MODULE MCReadEngine -----------------------------
(* Instances of the read engine for TLC. *)
EXTENDS ReadEngine, TLC

read(f, o, n) == [op |-> "read", file |-> f, offset |-> o, size |-> n, target |-> "CPU"]
gpu(f, o, n) == [op |-> "read", file |-> f, offset |-> o, size |-> n, target |-> "GPU"]
prefetch(f, o, n) == [op |-> "prefetch", file |-> f, offset |-> o, size |-> n, target |-> "CPU"]

readv(target, ranges) == [op |-> "readv", target |-> target, ranges |-> ranges]
range(f, o, n) == [file |-> f, offset |-> o, size |-> n]

\* The defaults of memtier_init, with chunks of two bytes.
Default == [enable_dram_cache |-> TRUE, cache_admit |-> TRUE, bypass_cache |-> FALSE,
            force_gds |-> FALSE, force_posix |-> FALSE, gds |-> "off",
            gds_min_size |-> 2, gds_alignment |-> 2, hints |-> {},
            coalesce_gap |-> 1, max_coalesce_size |-> 3]

\* One file of a chunk and a half: a call per chunk, one across both, the tail.
OneFile == {read("f", 0, 1), read("f", 1, 2), read("f", 2, 2), prefetch("f", 0, 4)}
Cached == {Default}

\* Every path of select_path, and options that store chunks of a bypassed cache.
Uncached == {[Default EXCEPT !.enable_dram_cache = FALSE],
             [Default EXCEPT !.bypass_cache = TRUE],
             [Default EXCEPT !.bypass_cache = TRUE, !.force_posix = TRUE],
             [Default EXCEPT !.cache_admit = FALSE]}
Gds == {[Default EXCEPT !.gds = "cufile"],
        [Default EXCEPT !.gds = "cufile", !.hints = {"direct"}],
        [Default EXCEPT !.gds = "cufile", !.hints = {"cached"}],
        [Default EXCEPT !.gds = "failing_stub", !.hints = {"direct"}],
        [Default EXCEPT !.force_gds = TRUE]}
AnyPath == Cached \cup Uncached \cup Gds
AnyTarget == {read("f", 1, 3), gpu("f", 0, 3), prefetch("f", 1, 2),
              readv("CPU", <<range("f", 2, 1), range("f", 0, 1)>>),                     \* a gap
              readv("CPU", <<range("f", 1, 2), range("f", 0, 2), range("f", 3, 1)>>),   \* an overlap
              readv("GPU", <<range("f", 0, 1), range("f", 2, 1), range("f", 3, 1)>>)}   \* too long

\* gds_stub_success is the default of memtier_init; enable_gds is set by the caller.
PastTheEnd == {read("f", 2, 2)}
Stub == {[Default EXCEPT !.gds = "stub", !.hints = {"direct"}]}

Symmetric == Permutations(Thread) \cup Permutations(Addr)
=============================================================================
