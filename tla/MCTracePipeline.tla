--------------------------- MODULE MCTracePipeline ----------------------------
(* Jobs for the trace tools: a few samples of two features, every combination *)
(* of the options that decide how features become ids and ids batches.        *)
EXTENDS TracePipeline

Lines == {<<0, 3>>, <<3, 0>>, <<Empty, 3>>, <<0, 0>>, <<3>>, <<>>}

Criteo ==
    [tool : {"criteo"}, raw : [1..3 -> Lines], mode : {"per_field_offset", "shared_hash"},
     hash_sizes : {<<2>>, <<1, 3>>}, num_fields : {2}, drop_empty : BOOLEAN, batch_size : {1, 2},
     bag_size : 1..3, max_samples : {Absent, 2}]

Options ==
    [mode : {"per_field_offset", "shared_hash", "direct"}, hash_sizes : {<<>>, <<2>>, <<1, 3>>},
     num_embeddings : {Absent, 1, 3}, batch_size : {2}, max_samples : {Absent, 2}]

dlrm(shape, data, o) ==
    [tool |-> "dlrm", raw |-> [shape |-> shape, data |-> data], mode |-> o.mode, hash_sizes |-> o.hash_sizes,
     num_embeddings |-> o.num_embeddings, batch_size |-> o.batch_size, max_samples |-> o.max_samples]

Pairs == {<<0, 4>>, <<4, 1>>, <<1, 0>>}

Dlrm ==
    {dlrm(<<3, 2>>, FlattenSeq(data), o) : data \in [1..3 -> Pairs], o \in Options}
    \cup {dlrm(<<2, 2, 2>>, FlattenSeq(data), o) : data \in [1..4 -> Pairs], o \in Options}
    \cup {dlrm(<<3>>, data, o) : data \in [1..3 -> {0, 1, 4}], o \in {x \in Options : Len(x.hash_sizes) < 2}}

\* Two batches of one or two bags of two ids; the second repeats some of the first.
Synthetic ==
    [tool : {"synthetic"}, raw : [1..2 -> [1..4 -> 0..1]], overlap : {0, 1}, batch_size : {2},
     bag_size : {2}, num_embeddings : {2}]
    \cup
    [tool : {"synthetic"}, raw : [1..3 -> [1..2 -> 0..2]], overlap : {1}, batch_size : {1},
     bag_size : {2}, num_embeddings : {3}]

Imported ==
    [tool : {"import"}, raw : [1..1 -> [1..3 -> 0..2]], ndim : {1}, num_embeddings : {3}]
    \cup
    [tool : {"import"}, raw : [1..3 -> [1..2 -> {0, 1, 2, 4}]], ndim : {2, 3}, num_embeddings : {5}]

Jobs == Criteo \cup Dlrm \cup Synthetic \cup Imported
=============================================================================
