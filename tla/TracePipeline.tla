---------------------------- MODULE TracePipeline -----------------------------
(***************************************************************************)
(* The embedding traces of memtier_embedding_bench: how raw features       *)
(* become ids (scripts/preprocess_criteo_trace.py with                     *)
(* python/criteo_trace_dataset.py, scripts/convert_dlrm_trace.py), how     *)
(* synthetic ids are made (python/embedding_workload.py), how the reader   *)
(* splits a trace into batches (python/trace_reader.py), and the analysis  *)
(* of their ids and blocks (scripts/analyze_trace.py).                     *)
(*                                                                         *)
(* A raw trace is a sequence of samples, a sample a sequence of features.  *)
(* A feature is the number it hashes to, or Empty; stable_hash64 of an     *)
(* empty feature's name is EmptyHash.  Arguments that the tools reject are *)
(* not among the jobs.  A trace is an array: its number of dimensions and  *)
(* its rows, each flattened, with the metadata the reader looks at, of     *)
(* which Absent ones are missing.                                          *)
(***************************************************************************)
EXTENDS Integers, Sequences, FiniteSets, Bags, SequencesExt

CONSTANTS
    Job,           \* what the tools are asked to do: records, see MCTracePipeline
    EmptyHash,
    RowsPerBlock,
    Capacity       \* the simulated caches' sizes in blocks

ASSUME TraceAssumption ==
    EmptyHash \in Nat /\ RowsPerBlock \in Nat \ {0} /\ Capacity \subseteq Nat \ {0}

Empty == -1
Absent == 0        \* an option or a metadata field that is not given

Positive == Nat \ {0}

\* The jobs: one size or one per field, and at least one sample.
CriteoJob(j) ==
    /\ j \in [tool : {"criteo"}, raw : Seq(Seq(Nat \cup {Empty})), mode : {"per_field_offset", "shared_hash"},
              hash_sizes : Seq(Positive), num_fields : Positive, drop_empty : BOOLEAN, batch_size : Nat,
              bag_size : Positive, max_samples : Nat]
    /\ Len(j.hash_sizes) \in {1, j.num_fields} /\ j.raw # <<>>

\* An array of whole samples.
Width(shape) == IF Len(shape) = 1 THEN 1 ELSE shape[Len(shape)]

DlrmJob(j) ==
    /\ j \in [tool : {"dlrm"}, raw : [shape : Seq(Positive), data : Seq(Nat)],
              mode : {"per_field_offset", "shared_hash", "direct"}, hash_sizes : Seq(Positive),
              num_embeddings : Nat, batch_size : Nat, max_samples : Nat]
    /\ Len(j.raw.shape) \in 1..3 /\ Len(j.raw.data) >= Width(j.raw.shape)
    /\ Len(j.raw.data) % Width(j.raw.shape) = 0
    /\ Len(j.hash_sizes) \in {0, 1, Width(j.raw.shape)}

\* Rows of ids below num_embeddings; a one-dimensional trace is one row.
RowsOfIds(j) ==
    /\ j.raw # <<>>
    /\ \A r \in ToSet(j.raw) : r # <<>> /\ \A id \in ToSet(r) : id < j.num_embeddings

SyntheticJob(j) ==
    /\ j \in [tool : {"synthetic"}, raw : Seq(Seq(Nat)), overlap : Nat, batch_size : Positive,
              bag_size : Positive, num_embeddings : Positive]
    /\ RowsOfIds(j) /\ j.overlap < j.batch_size * j.bag_size
    /\ \A r \in ToSet(j.raw) : Len(r) = j.batch_size * j.bag_size

ImportJob(j) ==
    /\ j \in [tool : {"import"}, raw : Seq(Seq(Nat)), ndim : 1..3, num_embeddings : Positive]
    /\ RowsOfIds(j) /\ (j.ndim = 1 => Len(j.raw) = 1)

ASSUME JobAssumption ==
    \A j \in Job : CriteoJob(j) \/ DlrmJob(j) \/ SyntheticJob(j) \/ ImportJob(j)

VARIABLES
    job,        \* the tool's arguments and its input
    stage,      \* "raw", "trace" when the trace is written
    trace,      \* the trace file
    next,       \* iter_batches: the next index
    read,       \* history: the ids of the batches so far
    sims,       \* update_lru_sims: for each capacity the OrderedDict's blocks, oldest first
    hits,       \* its hit counters
    stats,      \* the other locals of analyze_trace_file's loop
    accesses    \* history: the blocks in the order they were looked up

traceVars == <<job, stage, trace, next, read, sims, hits, stats, accesses>>

-----------------------------------------------------------------------------
(* Ids.                                                                    *)

\* The running total of a loop over the sizes.
Total(sizes) ==
    LET total[i \in 0..Len(sizes)] == IF i = 0 THEN 0 ELSE total[i - 1] + sizes[i]
    IN  total[Len(sizes)]

\* The members of a finite set of integers in ascending order.
Ascending(S) == [i \in 1..Cardinality(S) |-> CHOOSE x \in S : Cardinality({y \in S : y < x}) = i - 1]

\* One size for each of n fields, or a list of them.
parse_hash_sizes(value, n) == IF Len(value) = 1 THEN [f \in 1..n |-> value[1]] ELSE value

\* The first samples, when their number is limited.
UpTo(rows, max_samples) ==
    SubSeq(rows, 1, IF max_samples = Absent THEN Len(rows) ELSE Min({Len(rows), max_samples}))

\* The categorical features of a line, which may end early.
parse_criteo_line(parts, n) == [f \in 1..n |-> IF f <= Len(parts) THEN parts[f] ELSE Empty]

\* Bug: the running total is appended after the field's size is added to it.
OffsetsAfter(sizes) == [f \in DOMAIN sizes |-> Total(SubSeq(sizes, 1, f))]

field_offsets_from_hash_sizes(sizes) == [f \in DOMAIN sizes |-> Total(SubSeq(sizes, 1, f - 1))]

\* Bug: every field's table begins at 0.
LocalId(sizes, f, h) == h % sizes[f]

\* A field's own table, one after the other.
PerFieldId(sizes, f, h) == field_offsets_from_hash_sizes(sizes)[f] + (h % sizes[f])

CriteoSizes(j) == parse_hash_sizes(j.hash_sizes, j.num_fields)

\* categorical_to_ids for one sample: fields is what is left when empty ones are dropped.
categorical_to_ids(sample, j) ==
    LET fields == Ascending({f \in DOMAIN sample : sample[f] # Empty \/ ~j.drop_empty})
        hash(f) == IF sample[f] = Empty THEN EmptyHash ELSE sample[f]
    IN  [i \in DOMAIN fields |->
            IF j.mode = "per_field_offset" THEN PerFieldId(CriteoSizes(j), fields[i], hash(fields[i]))
            ELSE hash(fields[i]) % Total(CriteoSizes(j))]

\* A row of ids: padded with id 0 when features were dropped, cut to bag_size.
CriteoRow(line, j) ==
    LET ids == categorical_to_ids(parse_criteo_line(line, j.num_fields), j)
        pad == IF j.drop_empty /\ Len(ids) < j.bag_size THEN j.bag_size - Len(ids) ELSE 0
        row == ids \o [i \in 1..pad |-> 0]
    IN  SubSeq(row, 1, IF Len(row) < j.bag_size THEN Len(row) ELSE j.bag_size)

\* The samples of a DLRM trace, an array given by its shape and its elements: three
\* dimensions are batches of samples, one is samples of a single feature.
load_sparse(j) ==
    LET width == Width(j.raw.shape)
        rows  == [i \in 1..(Len(j.raw.data) \div width) |->
                      SubSeq(j.raw.data, (i - 1) * width + 1, i * width)]
    IN  UpTo(rows, j.max_samples)

\* The table size of each field of a DLRM trace; num_embeddings and hash_sizes may be Absent.
DlrmSizes(raw, j) ==
    LET F == DOMAIN raw[1]
    IN  IF j.hash_sizes # <<>> THEN parse_hash_sizes(j.hash_sizes, Len(raw[1]))
        ELSE IF j.num_embeddings # Absent
        THEN [f \in F |-> Max({1, j.num_embeddings \div Len(raw[1])})]
        ELSE [f \in F |-> Max(UNION {ToSet(s) : s \in ToSet(raw)}) + 1]

DlrmTotal(raw, j) ==
    IF j.num_embeddings # Absent THEN j.num_embeddings ELSE Total(DlrmSizes(raw, j))

\* apply_id_mapping for one feature.
DlrmId(raw, j, f, h) ==
    CASE j.mode = "per_field_offset" -> PerFieldId(DlrmSizes(raw, j), f, h)
      [] j.mode = "shared_hash" -> h % DlrmTotal(raw, j)
      [] j.mode = "direct" ->
            h % (IF j.num_embeddings # Absent THEN j.num_embeddings
                 ELSE Max(UNION {ToSet(s) : s \in ToSet(raw)}) + 1)

-----------------------------------------------------------------------------
(* Writing a trace.                                                        *)

Written(ndim, rows, layout, batch_size, bag_size, total) ==
    [ndim |-> ndim, rows |-> rows, layout |-> layout, batch_size |-> batch_size,
     bag_size |-> bag_size, total |-> total]

TraceInit ==
    /\ job \in Job
    /\ stage = "raw"
    /\ trace = Written(2, <<>>, "none", Absent, Absent, 0)
    /\ next = 0 /\ read = <<>> /\ accesses = <<>>
    /\ sims = [c \in Capacity |-> <<>>] /\ hits = [c \in Capacity |-> 0]
    /\ stats = [total_lookups |-> 0, id_counter |-> EmptyBag, block_counter |-> EmptyBag,
                unique_ids |-> <<>>, unique_blocks |-> <<>>, reuse_ratios |-> <<>>,
                previous_blocks |-> {}, last_seen |-> EmptyBag, reuse_distances |-> {}]

Write(tool, t) ==
    /\ stage = "raw" /\ job.tool = tool
    /\ trace' = t
    /\ stage' = "trace"
    /\ UNCHANGED <<job, next, read, sims, hits, stats, accesses>>

preprocess ==
    LET raw == UpTo(job.raw, job.max_samples)
    IN  Write("criteo", Written(2, [s \in DOMAIN raw |-> CriteoRow(raw[s], job)], "samples_by_fields",
                                job.batch_size, job.bag_size, Total(CriteoSizes(job))))

convert ==
    LET raw    == load_sparse(job)
        row(s) == [f \in DOMAIN s |-> DlrmId(raw, job, f, s[f])]
    IN  Write("dlrm", Written(2, [s \in DOMAIN raw |-> row(raw[s])], "samples_by_fields",
                              job.batch_size, Len(raw[1]), DlrmTotal(raw, job)))

\* generate_ids: batch b begins with the first ids of batch b - 1.
generate_ids ==
    LET n == job.batch_size * job.bag_size
        row[b \in DOMAIN job.raw] ==
            IF b = 1 THEN job.raw[1]
            ELSE SubSeq(row[b - 1], 1, job.overlap) \o SubSeq(job.raw[b], job.overlap + 1, n)
    IN  Write("synthetic", Written(2, row, "none", job.batch_size, job.bag_size, job.num_embeddings))

\* A trace of another origin that the reader accepts: one or three dimensions, JSONL.
Import == Write("import", Written(job.ndim, job.raw, "none", Absent, Absent, job.num_embeddings))

-----------------------------------------------------------------------------
(* EmbeddingTrace.                                                         *)

Rows == Len(trace.rows)

\* An array of samples whose width is the bag size is cut into batches.
IsSampled ==
    /\ trace.ndim = 2
    /\ trace.bag_size # Absent /\ Len(trace.rows[1]) = trace.bag_size
    /\ trace.batch_size # Absent

InBatches == (Rows + trace.batch_size - 1) \div trace.batch_size

num_batches ==
    IF trace.ndim = 1 THEN 1
    ELSE IF trace.layout = "samples_by_fields" /\ trace.batch_size # Absent THEN InBatches
    ELSE IF IsSampled THEN InBatches
    ELSE Rows

BatchStart(b) == b * trace.batch_size

BatchEndInclusive(b) == Min({Rows, BatchStart(b) + trace.batch_size - 1})    \* Bug

BatchEnd(b) == Min({Rows, BatchStart(b) + trace.batch_size})

\* _batch_from_array, flattened.  A JSONL trace has one batch per line.
get_batch_ids(b) ==
    IF IsSampled THEN FlattenSeq(SubSeq(trace.rows, BatchStart(b) + 1, BatchEnd(b)))
    ELSE trace.rows[b + 1]

\* np.unique of the ids' blocks, in ascending order.
ids_to_blocks(ids) == Ascending({ids[i] \div RowsPerBlock : i \in DOMAIN ids})

-----------------------------------------------------------------------------
(* The LRU simulation of analyze_trace_file.                               *)

\* Bug: a hit does not move the block.
LookedUpFifo(cache, c, b) ==
    IF b \in ToSet(cache) THEN cache
    ELSE LET s == Append(cache, b) IN IF Len(s) > c THEN Tail(s) ELSE s

\* A cache of c blocks after one lookup: move_to_end, or append and popitem(last=False).
LookedUp(cache, c, b) ==
    LET s == Append(RemoveFirst(cache, b), b) IN IF Len(s) > c THEN Tail(s) ELSE s

\* Caches and hit counters after the blocks of a batch.
update_lru_sims(blocks) ==
    LET step[i \in 0..Len(blocks)] ==
            IF i = 0 THEN [sims |-> sims, hits |-> hits]
            ELSE [sims |-> [c \in Capacity |-> LookedUp(step[i - 1].sims[c], c, blocks[i])],
                  hits |-> [c \in Capacity |-> step[i - 1].hits[c]
                               + (IF blocks[i] \in ToSet(step[i - 1].sims[c]) THEN 1 ELSE 0)]]
    IN  step[Len(blocks)]

\* A ratio is a pair of integers.
Ratio(n, d) == <<n, Max({d, 1})>>

\* Bug: only a block's first batch is remembered.
FirstSeen(seen, b, blocks) == [x \in DOMAIN seen \cup blocks |-> IF x \in DOMAIN seen THEN seen[x] ELSE b]

LastSeen(seen, b, blocks) == [x \in DOMAIN seen \cup blocks |-> IF x \in blocks THEN b ELSE seen[x]]

\* The loop's locals after batch b.  A distance is kept with its block and batch.
Tallied(st, b, ids, blocks) ==
    [total_lookups   |-> st.total_lookups + Len(ids),
     id_counter      |-> st.id_counter (+) ToBag(ids),
     block_counter   |-> st.block_counter (+) SetToBag(blocks),
     unique_ids      |-> Append(st.unique_ids, Cardinality(ToSet(ids))),
     unique_blocks   |-> Append(st.unique_blocks, Cardinality(blocks)),
     reuse_ratios    |-> IF st.previous_blocks = {} THEN st.reuse_ratios
                         ELSE Append(st.reuse_ratios, Ratio(Cardinality(blocks \cap st.previous_blocks),
                                                            Cardinality(blocks))),
     previous_blocks |-> blocks,
     last_seen       |-> LastSeen(st.last_seen, b, blocks),
     reuse_distances |-> st.reuse_distances
                             \cup {<<x, b, b - st.last_seen[x]>> : x \in blocks \cap DOMAIN st.last_seen}]

\* One batch of iter_batches and its analysis.
NextBatch ==
    /\ stage = "trace" /\ next < num_batches
    /\ LET ids    == get_batch_ids(next)
           blocks == ids_to_blocks(ids)
           after  == update_lru_sims(blocks)
       IN  /\ read' = read \o ids
           /\ accesses' = accesses \o blocks
           /\ sims' = after.sims /\ hits' = after.hits
           /\ stats' = Tallied(stats, next, ids, ToSet(blocks))
    /\ next' = next + 1
    /\ UNCHANGED <<job, stage, trace>>

Analysed == stage = "trace" /\ next = num_batches

TraceNext == preprocess \/ convert \/ generate_ids \/ Import \/ NextBatch

-----------------------------------------------------------------------------
(* Properties.                                                             *)

\* The tools are used as their defaults are: a Criteo trace has no more ids per sample
\* than there are fields, and options that size the tables do not contradict each other.
Consistent ==
    CASE job.tool = "criteo" -> job.drop_empty \/ job.bag_size <= job.num_fields
      [] job.tool = "dlrm" ->
            /\ job.hash_sizes # <<>> => job.num_embeddings = Absent /\ job.mode # "direct"
            /\ job.num_embeddings # Absent => job.num_embeddings >= Len(load_sparse(job)[1])
      [] OTHER -> TRUE

\* The reader's batches, one after the other, are the whole trace: num_batches and
\* get_batch_ids agree on how a trace of any origin is cut, the last batch included.
EveryIdReadOnce == Analysed /\ Consistent => read = FlattenSeq(trace.rows)

\* Every id is below the total_num_embeddings that the metadata state, from which the
\* driver takes the number of rows: no lookup goes past the end of a file made for them.
IdsInRange == Consistent => \A r \in ToSet(trace.rows) : \A id \in ToSet(r) : id < trace.total

\* With a table per field, different fields never share an id.
FieldsAreSeparate ==
    /\ stage = "trace" /\ job.tool \in {"criteo", "dlrm"} /\ job.mode = "per_field_offset"
    /\ job.tool = "criteo" => ~job.drop_empty
    => \A r, s \in ToSet(trace.rows) : \A f, g \in DOMAIN trace.rows[1] : r[f] = s[g] => f = g

\* The blocks looked up between access k and the one before it of the same block.
Between(k) ==
    LET last == Max({0} \cup {i \in 1..(k - 1) : accesses[i] = accesses[k]})
    IN  IF last = 0 THEN {} ELSE {accesses[i] : i \in (last + 1)..(k - 1)}

Repeated == {k \in DOMAIN accesses : \E i \in 1..(k - 1) : accesses[i] = accesses[k]}

\* The simulation counts, for every capacity, exactly the accesses that an LRU cache of
\* that many blocks would hit: those with fewer other blocks since the latest use.
HitsAreLruHits ==
    \A c \in Capacity : hits[c] = Cardinality({k \in Repeated : Cardinality(Between(k)) < c})

BlocksOf(b) == ToSet(ids_to_blocks(get_batch_ids(b)))

\* The blocks of batch b that were last used d batches earlier.
UsedAgain(b, d) == {x \in BlocksOf(b) \cap BlocksOf(b - d) : \A e \in 1..(d - 1) : x \notin BlocksOf(b - e)}

\* The analysis of a whole trace: every repeated use of a block is in reuse_distances
\* with the number of batches since the latest earlier one, and no other; they are as
\* many as the hits of a simulated cache that holds every block; and as many lookups
\* and as many different ids are reported as the trace has.
ReuseIsMeasured ==
    Analysed =>
        /\ stats.reuse_distances =
               UNION {UNION {{<<x, b, d>> : x \in UsedAgain(b, d)} : d \in 1..b} : b \in 1..(next - 1)}
        /\ \A c \in Capacity : c >= Cardinality(DOMAIN stats.block_counter) =>
               hits[c] = Cardinality(stats.reuse_distances)
        /\ stats.total_lookups = Len(read) /\ BagToSet(stats.id_counter) = ToSet(read)
=============================================================================
