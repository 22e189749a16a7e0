--------------------------- MODULE MCCacheDirectory ---------------------------
(* Instances of the chunk cache for TLC. *)
EXTENDS CacheDirectory, TLC

\* List nodes are told apart only by being equal or different.
Symmetric == Permutations(Addr) \cup Permutations(Key)
=============================================================================
