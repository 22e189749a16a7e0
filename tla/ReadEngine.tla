------------------------------ MODULE ReadEngine ------------------------------
(***************************************************************************)
(* How the core runtime serves memtier_read, memtier_readv and             *)
(* memtier_prefetch (src/src/api.cpp): chunk by chunk, over the path that  *)
(* select_path chooses, through the chunk cache.  memtier_readv sorts its  *)
(* ranges, merges neighbours, and reads each group with do_read_impl.      *)
(*                                                                         *)
(* Any number of threads are inside such calls at once: callers of         *)
(* memtier_read and memtier_prefetch, and the workers of RequestPool.  The *)
(* cache and the statistics have a lock each; between two critical         *)
(* sections, and while a thread is in pread, the others run.               *)
(*                                                                         *)
(* Files only grow, one byte at a time.  The byte at an offset of a file   *)
(* is named by the file and the offset, so a byte delivered to the wrong   *)
(* place, from the wrong file, or never read at all can be told.           *)
(***************************************************************************)
EXTENDS Integers, Sequences, FiniteSets, Functions

CONSTANTS
    Thread,       \* threads inside the runtime
    File,
    InitialSize,  \* the files' length when the context is created
    MaxSize,      \* bound: no file grows past it
    Call,         \* the calls a thread may make
    MaxCalls,     \* bound: calls per thread
    Options,      \* the options a context may be created with
    IoFaults,     \* whether open, pread and GPU copies may fail
    Addr, ChunkSize, CacheSize

ASSUME EngineAssumption ==
    /\ ChunkSize \in Nat \ {0} /\ CacheSize \in Nat
    /\ MaxSize \in Nat /\ InitialSize \in 0..MaxSize /\ MaxCalls \in Nat
    /\ IoFaults \in BOOLEAN
    /\ IsFiniteSet(Thread) /\ File # {}

\* A range of a file that is not empty.
FileRange == [file : File, offset : Nat, size : Nat \ {0}]

\* The arguments are valid: nothing is empty.
ASSUME CallAssumption ==
    Call \subseteq [op : {"read", "prefetch"}, file : File, offset : Nat, size : Nat \ {0}, target : {"CPU", "GPU"}]
                   \cup [op : {"readv"}, target : {"CPU", "GPU"}, ranges : Seq(FileRange) \ {<<>>}]

VARIABLES
    opt,          \* ctx->options
    table, lru, used,     \* ctx->cache
    stats,        \* ctx->stats
    size,         \* the length of each file
    pc,           \* where each thread is in do_read_impl or memtier_prefetch
    call,         \* the arguments of do_read_impl or memtier_prefetch
    rv,           \* the locals of memtier_readv
    copied,       \* copied, or done in memtier_prefetch
    path,         \* the path selected for the current chunk
    chunk,        \* the chunk's bytes: ce of a hit, buf otherwise, and how many
    out,          \* what was written to dst
    rc,           \* what the last call returned
    calls,        \* history: calls a thread has made
    seen,         \* history: the files' length when the call began
    aborted       \* history: chunks given up after their path was counted

cacheVars  == <<table, lru, used>>
threadVars == <<pc, call, rv, copied, path, chunk, out, rc, calls, seen>>
vars == <<opt, cacheVars, stats, size, threadVars, aborted>>

-----------------------------------------------------------------------------
(* Files and bytes.                                                        *)

Zero == <<>>                           \* a byte of a buffer nothing was read into
Byte(f, o) == <<f, o>>                 \* the byte of f at offset o
Bytes == {Zero} \cup (File \X (0..(MaxSize - 1)))

ChunkId == 0..(MaxSize \div ChunkSize)
Key     == File \X ChunkId
Content == [1..ChunkSize -> Bytes]

Min(a, b) == IF a <= b THEN a ELSE b
Max(a, b) == IF a >= b THEN a ELSE b

\* posix_pread_full: how many of n bytes at offset o exist, and a zeroed buffer of n
\* bytes after the read.
BytesRead(f, o, n) == Max(0, Min(n, size[f] - o))
Buffer(f, o, n) == [i \in 1..n |-> IF o + i <= size[f] THEN Byte(f, o + i - 1) ELSE Zero]

Dir == INSTANCE CacheDirectory

-----------------------------------------------------------------------------
(* Path selection (src/src/path_selector.cpp).  opt.hints is a set of two  *)
(* classes: "cached" stands for REUSE, SMALL_IO or RANDOM, "direct" for    *)
(* STREAMING, CHECKPOINT or SEQUENTIAL.  opt.gds is the backend built in   *)
(* and its options: "off" (enable_gds = 0), "stub" and "failing_stub"      *)
(* (gds_stub_success = 1 and 0), or "cufile".                              *)

is_gds_available == opt.gds # "off"

is_request_gds_suitable(o, n) ==
    /\ n >= opt.gds_min_size
    /\ o % opt.gds_alignment = 0
    /\ n % opt.gds_alignment = 0
    /\ "cached" \notin opt.hints

select_path(hit, o, n) ==
    IF hit /\ ~opt.bypass_cache THEN "DRAM_HIT"
    ELSE IF opt.force_posix THEN "POSIX_READ_THEN_CACHE"
    ELSE IF is_gds_available /\ (is_request_gds_suitable(o, n) \/ "direct" \in opt.hints)
         THEN "GDS_READ"
    ELSE IF opt.force_gds THEN "GDS_STUB_FALLBACK"
    ELSE IF opt.bypass_cache \/ ~opt.enable_dram_cache THEN "POSIX_READ"
    ELSE "POSIX_READ_THEN_CACHE"

\* Bug: cuFile reads that end early count as complete.
GdsSucceedsShort(f, o, n) == opt.gds \in {"stub", "cufile"}

\* memtier_gds_read succeeds.  The stub reads with posix_pread_full and so succeeds
\* with fewer bytes at the end of the file; cuFile must be aligned and complete.
GdsSucceeds(f, o, n) ==
    \/ opt.gds = "stub"
    \/ /\ opt.gds = "cufile"
       /\ o % opt.gds_alignment = 0
       /\ n % opt.gds_alignment = 0
       /\ BytesRead(f, o, n) = n

-----------------------------------------------------------------------------
(* The chunk a thread is at.                                               *)

CurOff(t)  == call[t].offset + copied[t]
InChunk(t) == CurOff(t) % ChunkSize
Need(t)    == Min(ChunkSize - InChunk(t), call[t].size - copied[t])
KeyOf(t)   == <<call[t].file, CurOff(t) \div ChunkSize>>

NoChunk == [data |-> <<>>, n |-> 0]
NoCall  == [op |-> "read", file |-> CHOOSE f \in File : TRUE, offset |-> 0, size |-> 0, target |-> "CPU"]
NoRanges == [ranges |-> <<>>, target |-> "CPU", items |-> <<>>, dsts |-> <<>>, coalesced |-> 0, cbytes |-> 0]

Counter == {"total_requests", "dram_hits", "dram_misses", "posix_reads", "gds_reads",
            "gds_fallbacks", "ssd_bytes_read", "dram_bytes_served", "selected_gds",
            "selected_posix", "selected_cache", "prefetch_requests", "prefetch_bytes",
            "readv_requests", "original_ranges", "coalesced_ranges", "coalesced_bytes"}

\* Add to the counters named in the domain of d, while holding ctx->mu.
Tally(d) == stats' = [c \in Counter |-> stats[c] + IF c \in DOMAIN d THEN d[c] ELSE 0]

Goto(t, l) == pc' = [pc EXCEPT ![t] = l]

\* Leave the call with a return code.
Return(t, code) ==
    /\ Goto(t, "idle")
    /\ rc' = [rc EXCEPT ![t] = code]
    /\ path' = [path EXCEPT ![t] = "NONE"]
    /\ chunk' = [chunk EXCEPT ![t] = NoChunk]
    /\ UNCHANGED <<call, rv, copied, out, calls, seen>>

\* A chunk is given up: its path was counted, no outcome will be.
Abort(t, code) ==
    /\ Return(t, code)
    /\ aborted' = aborted + 1
    /\ UNCHANGED <<opt, cacheVars, stats, size>>

CopiedNow(t) == copied[t] + Need(t)

\* copied += need: the next chunk, or the end of the call.
Advance(t, first) ==
    /\ copied' = [copied EXCEPT ![t] = CopiedNow(t)]
    /\ Goto(t, IF CopiedNow(t) < call[t].size THEN first ELSE "complete")
    /\ path' = [path EXCEPT ![t] = "NONE"]
    /\ chunk' = [chunk EXCEPT ![t] = NoChunk]
    /\ UNCHANGED <<call, rv, rc, calls, seen>>

\* copy_target: need bytes of data from position from on.
CopyTarget(t, data, from) ==
    out' = [out EXCEPT ![t] = @ \o SubSeq(data, from + 1, from + Need(t))]

\* copy_target returns MEMTIER_ERR_CUDA.
CopyMayFail(t) == IoFaults /\ call[t].target = "GPU"

-----------------------------------------------------------------------------
TypeOK ==
    /\ opt \in Options
    /\ Dir!DirTypeOK
    /\ stats \in [Counter -> Nat]
    /\ size \in [File -> InitialSize..MaxSize]
    /\ pc \in [Thread -> {"idle", "lookup", "select", "hit", "gds", "fallback", "posix", "admit",
                          "count", "complete", "scatter", "merged", "probe", "load", "store", "tally"}]
    /\ \A t \in Thread : call[t].file \in File /\ call[t].offset \in Nat /\ call[t].size \in Nat
    /\ \A t \in Thread : copied[t] \in 0..call[t].size
    /\ path \in [Thread -> {"NONE", "DRAM_HIT", "POSIX_READ", "POSIX_READ_THEN_CACHE",
                            "GDS_READ", "GDS_STUB_FALLBACK"}]
    /\ \A t \in Thread : chunk[t].n \in 0..ChunkSize /\ chunk[t].data \in Seq(Bytes)
    /\ out \in [Thread -> Seq(Bytes)]
    /\ rc \in [Thread -> {"NONE", "OK", "ERR_IO", "ERR_CUDA"}]

Init ==
    /\ opt \in Options
    /\ Dir!DirInit
    /\ stats = [c \in Counter |-> 0]
    /\ size = [f \in File |-> InitialSize]
    /\ pc = [t \in Thread |-> "idle"]
    /\ call = [t \in Thread |-> NoCall]
    /\ rv = [t \in Thread |-> NoRanges]
    /\ copied = [t \in Thread |-> 0]
    /\ path = [t \in Thread |-> "NONE"]
    /\ chunk = [t \in Thread |-> NoChunk]
    /\ out = [t \in Thread |-> <<>>]
    /\ rc = [t \in Thread |-> "NONE"]
    /\ calls = [t \in Thread |-> 0]
    /\ seen = [t \in Thread |-> size]
    /\ aborted = 0

\* Enter memtier_read or memtier_prefetch with valid arguments.
Begin(t, c) ==
    /\ pc[t] = "idle" /\ c.op # "readv"
    /\ calls[t] < MaxCalls
    /\ calls' = [calls EXCEPT ![t] = @ + 1]
    /\ seen' = [seen EXCEPT ![t] = size]
    /\ call' = [call EXCEPT ![t] = c]
    /\ copied' = [copied EXCEPT ![t] = 0]
    /\ out' = [out EXCEPT ![t] = <<>>]
    /\ rc' = [rc EXCEPT ![t] = "NONE"]
    /\ Goto(t, IF c.op = "read" THEN "lookup" ELSE "probe")
    /\ rv' = [rv EXCEPT ![t] = NoRanges]
    /\ UNCHANGED <<opt, cacheVars, stats, size, path, chunk, aborted>>

\* Bug: a short entry counts as a hit for bytes it does not have.
IsHitWhenPresent(t) == Dir!contains(KeyOf(t))

\* The chunk is cached and its entry has the bytes needed.
IsHit(t) ==
    /\ Dir!contains(KeyOf(t))
    /\ InChunk(t) + Need(t) <= Dir!Payload(KeyOf(t)).valid_size

\* ctx->cache.lookup, and select_path on what it found.
Lookup(t) ==
    /\ pc[t] = "lookup"
    /\ Dir!lookup(KeyOf(t))
    /\ LET e == Dir!Payload(KeyOf(t))
           p == select_path(IsHit(t), CurOff(t), Need(t))
       IN  /\ path' = [path EXCEPT ![t] = p]
           /\ chunk' = [chunk EXCEPT ![t] =
                           IF p = "DRAM_HIT" THEN [data |-> e.data, n |-> e.valid_size]
                           ELSE NoChunk]
    /\ Goto(t, "select")
    /\ UNCHANGED <<opt, stats, size, call, rv, copied, out, rc, calls, seen, aborted>>

\* on_selected.
Select(t) ==
    /\ pc[t] = "select"
    /\ Tally(CASE path[t] \in {"GDS_READ", "GDS_STUB_FALLBACK"} -> [selected_gds |-> 1]
               [] path[t] \in {"DRAM_HIT", "POSIX_READ_THEN_CACHE"} -> [selected_cache |-> 1]
               [] path[t] = "POSIX_READ" -> [selected_posix |-> 1])
    /\ Goto(t, CASE path[t] = "DRAM_HIT" -> "hit"
                 [] path[t] \in {"GDS_READ", "GDS_STUB_FALLBACK"} -> "gds"
                 [] OTHER -> "posix")
    /\ UNCHANGED <<opt, cacheVars, size, call, rv, copied, path, chunk, out, rc, calls, seen, aborted>>

\* A hit is served from the copy that lookup made.
ServeHit(t) ==
    /\ pc[t] = "hit"
    /\ \/ /\ CopyTarget(t, chunk[t].data, InChunk(t))
          /\ Tally([dram_hits |-> 1, dram_bytes_served |-> Need(t)])
          /\ Advance(t, "lookup")
          /\ UNCHANGED <<opt, cacheVars, size, aborted>>
       \/ CopyMayFail(t) /\ Abort(t, "ERR_CUDA")

\* memtier_gds_read; when it fails, go on to the POSIX fallback.
ReadGds(t) ==
    /\ pc[t] = "gds"
    /\ LET f == call[t].file
       IN  \/ /\ GdsSucceeds(f, CurOff(t), Need(t))
              /\ CopyTarget(t, Buffer(f, CurOff(t), Need(t)), 0)
              /\ Tally([gds_reads |-> 1])
              /\ Advance(t, "lookup")
              /\ UNCHANGED <<opt, cacheVars, size, aborted>>
           \/ /\ GdsSucceeds(f, CurOff(t), Need(t))
              /\ CopyMayFail(t)
              /\ Abort(t, "ERR_CUDA")
           \/ /\ IoFaults \/ ~GdsSucceeds(f, CurOff(t), Need(t))
              /\ Goto(t, "fallback")
              /\ UNCHANGED <<opt, cacheVars, stats, size, call, rv, copied, path, chunk, out,
                             rc, calls, seen, aborted>>

\* Bug: the failed GDS read is counted as well.
FallbackCountsBoth(n) == [gds_reads |-> 1, gds_fallbacks |-> 1, posix_reads |-> 1, ssd_bytes_read |-> n]

FallbackCounts(n) == [gds_fallbacks |-> 1, posix_reads |-> 1, ssd_bytes_read |-> n]

\* posix_pread_full of the bytes needed, after a failed GDS read.
ReadFallback(t) ==
    /\ pc[t] = "fallback"
    /\ LET f == call[t].file
           n == BytesRead(f, CurOff(t), Need(t))
       IN  \/ /\ n = Need(t)
              /\ CopyTarget(t, Buffer(f, CurOff(t), Need(t)), 0)
              /\ Tally(FallbackCounts(n))
              /\ Advance(t, "lookup")
              /\ UNCHANGED <<opt, cacheVars, size, aborted>>
           \/ n = Need(t) /\ CopyMayFail(t) /\ Abort(t, "ERR_CUDA")
           \/ (IoFaults \/ n < Need(t)) /\ Abort(t, "ERR_IO")

ThenCache(t) == path[t] = "POSIX_READ_THEN_CACHE"

\* The bytes posix_pread_full is asked for: the whole chunk if it is to be cached.
ReadOff(t)  == IF ThenCache(t) THEN CurOff(t) - InChunk(t) ELSE CurOff(t)
ReadSizeNeeded(t) == Need(t)    \* Bug: too few bytes are read of a chunk to be cached
ReadSize(t) == IF ThenCache(t) THEN ChunkSize ELSE Need(t)
SrcOff(t)   == IF ThenCache(t) THEN InChunk(t) ELSE 0

ReadPosix(t) ==
    /\ pc[t] = "posix"
    /\ LET f == call[t].file
           n == BytesRead(f, ReadOff(t), ReadSize(t))
           b == Buffer(f, ReadOff(t), ReadSize(t))
       IN  \/ /\ n >= SrcOff(t) + Need(t)
              /\ CopyTarget(t, b, SrcOff(t))
              /\ chunk' = [chunk EXCEPT ![t] = [data |-> b, n |-> n]]
              /\ Goto(t, IF ThenCache(t) /\ opt.cache_admit THEN "admit" ELSE "count")
              /\ UNCHANGED <<opt, cacheVars, stats, size, call, rv, copied, path, rc, calls, seen, aborted>>
           \/ n >= SrcOff(t) + Need(t) /\ CopyMayFail(t) /\ Abort(t, "ERR_CUDA")
           \/ (IoFaults \/ n < SrcOff(t) + Need(t)) /\ Abort(t, "ERR_IO")

ReservedSize(t) == ChunkSize    \* Bug: the entry claims bytes that were not read

ValidSize(t) == chunk[t].n

\* ctx->cache.insert of the chunk read.
Admit(t) ==
    /\ pc[t] = "admit"
    /\ Dir!insert(KeyOf(t), chunk[t].data, ValidSize(t))
    /\ Goto(t, "count")
    /\ UNCHANGED <<opt, stats, size, call, rv, copied, path, chunk, out, rc, calls, seen, aborted>>

MissCounts(n) == [dram_misses |-> 1, posix_reads |-> 1, ssd_bytes_read |-> n]

Count(t) ==
    /\ pc[t] = "count"
    /\ Tally(MissCounts(chunk[t].n))
    /\ Advance(t, "lookup")
    /\ UNCHANGED <<opt, cacheVars, size, out, aborted>>

\* Every chunk is done: do_read_impl returns, to memtier_readv for one of its groups,
\* or memtier_prefetch does.
Complete(t) ==
    /\ pc[t] = "complete"
    /\ Tally(IF call[t].op = "prefetch" THEN [prefetch_requests |-> 1] ELSE [total_requests |-> 1])
    /\ IF call[t].op = "readv"
       THEN Goto(t, "scatter") /\ UNCHANGED <<call, rv, copied, path, chunk, out, rc, calls, seen>>
       ELSE Return(t, "OK")
    /\ UNCHANGED <<opt, cacheVars, size, aborted>>

-----------------------------------------------------------------------------
(* memtier_readv, and memtier_load_chunks, which only calls it.            *)

EndOf(r) == r.offset + r.size

\* What std::sort may make of the ranges: by path, and by offset within a path.  An
\* item keeps the number of its destination.
SortedItems(ranges) ==
    {s \in {[i \in 1..Len(ranges) |-> [range |-> ranges[p[i]], dst |-> p[i]]] :
               p \in Bijection(1..Len(ranges), 1..Len(ranges))} :
        \A i \in 1..Len(s), j \in 1..Len(s) : i < j /\ s[i].range.file = s[j].range.file =>
            /\ s[i].range.offset <= s[j].range.offset
            /\ \A k \in i..j : s[k].range.file = s[i].range.file}

\* Item k of s goes into the group that begins with item 1, given that item k - 1 does.
Joins(s, k) ==
    /\ s[k].range.file = s[1].range.file
    /\ s[k].range.offset >= EndOf(s[k - 1].range)
    /\ s[k].range.offset - EndOf(s[k - 1].range) <= opt.coalesce_gap
    /\ EndOf(s[k].range) - s[1].range.offset <= opt.max_coalesce_size

GroupLen(s) ==
    CHOOSE n \in 1..Len(s) :
        (\A k \in 2..n : Joins(s, k)) /\ (n < Len(s) => ~Joins(s, n + 1))

Group(s) == SubSeq(s, 1, GroupLen(s))
Rest(s)  == SubSeq(s, GroupLen(s) + 1, Len(s))

\* The read of a group: from its first item's beginning to its last item's end.
GroupRead(g) ==
    [op |-> "readv", file |-> g[1].range.file, offset |-> g[1].range.offset,
     size |-> EndOf(g[Len(g)].range) - g[1].range.offset, target |-> "CPU"]

\* Call do_read_impl for the first group of s, into a temporary buffer.
ReadGroup(t, s) ==
    /\ call' = [call EXCEPT ![t] = GroupRead(Group(s))]
    /\ copied' = [copied EXCEPT ![t] = 0]
    /\ out' = [out EXCEPT ![t] = <<>>]
    /\ Goto(t, "lookup")

BeginReadv(t, c) ==
    /\ pc[t] = "idle" /\ c.op = "readv"
    /\ calls[t] < MaxCalls
    /\ calls' = [calls EXCEPT ![t] = @ + 1]
    /\ \E s \in SortedItems(c.ranges) :
           /\ ReadGroup(t, s)
           /\ rv' = [rv EXCEPT ![t] =
                         [ranges |-> c.ranges, target |-> c.target, items |-> s,
                          dsts |-> [d \in 1..Len(s) |-> <<>>], coalesced |-> 0, cbytes |-> 0]]
    /\ seen' = [seen EXCEPT ![t] = size]
    /\ rc' = [rc EXCEPT ![t] = "NONE"]
    /\ UNCHANGED <<opt, cacheVars, stats, size, path, chunk, aborted>>

\* Bug: the items are taken to lie next to each other in the buffer.
PackedOff(g, k) == LET before == [i \in 1..(k - 1) |-> g[i].range.size] IN SumFunction(before)

\* Where item k of group g is in the temporary buffer.
TmpOff(g, k) == g[k].range.offset - g[1].range.offset

\* Copy each item of the group to its destination; go on with the next group.
Scatter(t) ==
    /\ pc[t] = "scatter"
    /\ LET g    == Group(rv[t].items)
           rest == Rest(rv[t].items)
           dsts == [d \in DOMAIN rv[t].dsts |->
                      IF \E k \in DOMAIN g : g[k].dst = d
                      THEN LET k == CHOOSE k \in DOMAIN g : g[k].dst = d
                           IN  SubSeq(out[t], TmpOff(g, k) + 1, TmpOff(g, k) + g[k].range.size)
                      ELSE rv[t].dsts[d]]
       IN  \/ /\ rv' = [rv EXCEPT ![t] = [rv[t] EXCEPT !.items = rest, !.dsts = dsts,
                            !.coalesced = @ + 1, !.cbytes = @ + call[t].size]]
              /\ IF rest # <<>> THEN ReadGroup(t, rest)
                 ELSE Goto(t, "merged") /\ UNCHANGED <<call, copied, out>>
              /\ UNCHANGED <<opt, cacheVars, stats, size, path, chunk, rc, calls, seen, aborted>>
           \/ /\ IoFaults /\ rv[t].target = "GPU"
              /\ Return(t, "ERR_CUDA")
              /\ UNCHANGED <<opt, cacheVars, stats, size, aborted>>

\* Every group is done.
CompleteReadv(t) ==
    /\ pc[t] = "merged"
    /\ Tally([readv_requests |-> 1, original_ranges |-> Len(rv[t].ranges),
              coalesced_ranges |-> rv[t].coalesced, coalesced_bytes |-> rv[t].cbytes])
    /\ Return(t, "OK")
    /\ UNCHANGED <<opt, cacheVars, size, aborted>>

-----------------------------------------------------------------------------
(* memtier_prefetch                                                        *)

\* cache.contains: a chunk that is present, whatever part of it is, is skipped.
Probe(t) ==
    /\ pc[t] = "probe"
    /\ IF Dir!contains(KeyOf(t))
       THEN Advance(t, "probe")
       ELSE Goto(t, "load") /\ UNCHANGED <<call, rv, copied, path, chunk, rc, calls, seen>>
    /\ UNCHANGED <<opt, cacheVars, stats, size, out, aborted>>

Load(t) ==
    /\ pc[t] = "load"
    /\ LET f == call[t].file
           o == CurOff(t) - InChunk(t)
       IN  \/ /\ chunk' = [chunk EXCEPT ![t] = [data |-> Buffer(f, o, ChunkSize),
                                                n    |-> BytesRead(f, o, ChunkSize)]]
              /\ Goto(t, "store")
              /\ UNCHANGED <<opt, cacheVars, stats, size, call, rv, copied, path, out, rc, calls, seen, aborted>>
           \/ /\ IoFaults
              /\ Return(t, "ERR_IO")
              /\ UNCHANGED <<opt, cacheVars, stats, size, aborted>>

Store(t) ==
    /\ pc[t] = "store"
    /\ Dir!insert(KeyOf(t), chunk[t].data, ValidSize(t))
    /\ Goto(t, "tally")
    /\ UNCHANGED <<opt, stats, size, call, rv, copied, path, chunk, out, rc, calls, seen, aborted>>

TallyPrefetch(t) ==
    /\ pc[t] = "tally"
    /\ Tally([prefetch_bytes |-> chunk[t].n, posix_reads |-> 1, ssd_bytes_read |-> chunk[t].n])
    /\ Advance(t, "probe")
    /\ UNCHANGED <<opt, cacheVars, size, out, aborted>>

-----------------------------------------------------------------------------
\* Another program appends a byte.
Grow(f) ==
    /\ size[f] < MaxSize
    /\ size' = [size EXCEPT ![f] = @ + 1]
    /\ UNCHANGED <<opt, cacheVars, stats, threadVars, aborted>>

\* Every thread has made its calls and every file has grown.
Quiescent ==
    /\ \A t \in Thread : pc[t] = "idle" /\ calls[t] = MaxCalls
    /\ \A f \in File : size[f] = MaxSize
    /\ UNCHANGED vars

Step(t) ==
    \/ Lookup(t) \/ Select(t) \/ ServeHit(t) \/ ReadGds(t) \/ ReadFallback(t)
    \/ ReadPosix(t) \/ Admit(t) \/ Count(t) \/ Complete(t) \/ Scatter(t) \/ CompleteReadv(t)
    \/ Probe(t) \/ Load(t) \/ Store(t) \/ TallyPrefetch(t)

Next ==
    \/ \E t \in Thread : Step(t) \/ \E c \in Call : Begin(t, c) \/ BeginReadv(t, c)
    \/ \E f \in File : Grow(f)
    \/ Quiescent

Spec == Init /\ [][Next]_vars

-----------------------------------------------------------------------------
(* Properties.                                                             *)

\* The bytes of the range a call names.
Wanted(c) == [i \in 1..c.size |-> Byte(c.file, c.offset + i - 1)]

\* do_read_impl delivers, chunk by chunk, the file's own bytes at the offsets asked
\* for, whichever path served each chunk and whatever the other threads evicted,
\* admitted or overwrote meanwhile; and it returns MEMTIER_OK only with all of them.
ReadsDeliverFileBytes ==
    \A t \in Thread : call[t].op # "prefetch" =>
        /\ \A i \in 1..Len(out[t]) : out[t][i] = Wanted(call[t])[i]
        /\ pc[t] = "idle" /\ rc[t] = "OK" => out[t] = Wanted(call[t])

\* memtier_readv gives every destination the bytes of its own range, in whatever order
\* the ranges were given and however they were grouped: with gaps between them, one
\* inside another, or some of them twice.
ReadvFillsEveryRange ==
    \A t \in Thread : call[t].op = "readv" /\ pc[t] = "idle" /\ rc[t] = "OK" =>
        \A d \in 1..Len(rv[t].ranges) : rv[t].dsts[d] = Wanted(rv[t].ranges[d])

\* memtier_read and memtier_readv return MEMTIER_ERR_IO only when a range reached past the
\* end of its file at the call, as long as no system call fails; a stale short entry is not
\* a reason.
ErrorsAreJustified ==
    \A t \in Thread : ~IoFaults /\ rc[t] = "ERR_IO" =>
        call[t].offset + call[t].size > seen[t][call[t].file]

\* A cached chunk holds the file's bytes up to valid_size and nothing beyond it.
CacheHoldsFileBytes ==
    \A k \in DOMAIN table :
        LET e == table[k]
        IN  \A i \in 1..ChunkSize :
                e.data[i] = IF i <= e.valid_size THEN Byte(k[1], k[2] * ChunkSize + i - 1)
                            ELSE Zero

Selected == stats["selected_gds"] + stats["selected_posix"] + stats["selected_cache"]
Served == stats["dram_hits"] + stats["dram_misses"] + stats["gds_reads"] + stats["gds_fallbacks"]
Undecided == Cardinality({t \in Thread : pc[t] \in {"hit", "gds", "fallback", "posix", "admit", "count"}})

\* The statistics account for every chunk: each path that on_selected counted ends in
\* one hit, miss, GDS read or fallback, unless the call failed or is still at it.
StatsBalance == Selected = Served + aborted + Undecided

\* A read of a range that reaches past the end of its file does not return MEMTIER_OK.
PastTheEndIsAnError ==
    \A t \in Thread : call[t].op = "read" /\ pc[t] = "idle" /\ rc[t] = "OK" =>
        call[t].offset + call[t].size <= size[call[t].file]
=============================================================================
