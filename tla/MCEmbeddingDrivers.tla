-------------------------- MODULE MCEmbeddingDrivers --------------------------
(* The jobs of MCTracePipeline, and a few whose traces are replayed: traces of *)
(* 3 and 4 rows in blocks of two, over tables of one block (2 rows) or of two, *)
(* the second full (4 rows) or not (3 rows).  With an overlap of one, the      *)
(* first id drawn for the second batch is not used.                            *)
EXTENDS EmbeddingDrivers, MCTracePipeline

Replays ==
    [tool : {"synthetic"}, raw : {<<r, <<0, id>>>> : r \in [1..2 -> {0, 1, 2}], id \in {0, 1, 2}},
     overlap : {1}, batch_size : {1}, bag_size : {2}, num_embeddings : {3, 4}]
    \cup
    [tool : {"synthetic"}, raw : {<<<<0, 1>>, <<2, 2>>, <<2, 3>>>>}, overlap : {0}, batch_size : {1},
     bag_size : {2}, num_embeddings : {4}]
    \cup
    [tool : {"criteo"}, raw : {<<<<0, 3>>, <<3>>, <<3, 0>>>>}, mode : {"per_field_offset"},
     hash_sizes : {<<2>>, <<1, 3>>, <<1, 2>>}, num_fields : {2}, drop_empty : BOOLEAN, batch_size : {1, 2},
     bag_size : {2}, max_samples : {Absent}]

AllJobs == Jobs \cup Replays
=============================================================================
