-------------------------- MODULE MCEmbeddingRuntime --------------------------
(* Instances of the embedding runtime for TLC.  ids_to_blocks makes a batch of *)
(* the distinct blocks of a lookup, in ascending order.                        *)
EXTENDS EmbeddingRuntime, TLC

ThreeBlocks == 0..2
Singles == {<<b>> : b \in ThreeBlocks}
Pairs == {p \in ThreeBlocks \X ThreeBlocks : p[1] < p[2]}
UpToTwo == Singles \cup Pairs

Symmetric == Permutations(DramSlot) \cup Permutations(HbmSlot)
=============================================================================
