------------------------- MODULE MCCacheDirectoryLru --------------------------
(* An instance of the chunk cache with unique inserts for TLC. *)
EXTENDS CacheDirectoryLru, TLC

Symmetric == Permutations(Addr) \cup Permutations(Content) \cup Permutations(Key)
=============================================================================
