-------------------------- MODULE CacheDirectoryLru ---------------------------
(***************************************************************************)
(* The chunk cache with callers that insert a key only while it is absent, *)
(* as one thread reading files that do not grow does: then it is an LRU    *)
(* cache.  recency is a history variable: the keys in the order the calls  *)
(* used them, which the directory itself does not see.                     *)
(***************************************************************************)
EXTENDS CacheDirectory

VARIABLE recency

uniqueVars == <<table, lru, used, recency>>

Lru == INSTANCE LruCache WITH
    Entry    <- [data : Content, valid_size : 1..ChunkSize],
    Capacity <- CacheSize \div ChunkSize,
    entries  <- [k \in DOMAIN table |-> Payload(k)]

UniqueInit == DirInit /\ recency = <<>>

Hit(k) == contains(k) /\ lookup(k) /\ Lru!Use(k)

Miss(k) == ~contains(k) /\ lookup(k) /\ UNCHANGED recency

Fill(k, d, v) ==
    /\ ~contains(k)
    /\ insert(k, d, v)
    /\ IF Admits(v) THEN Lru!Use(k) ELSE UNCHANGED recency

UniqueNext ==
    \E k \in Key : Hit(k) \/ Miss(k) \/ \E d \in Content, v \in 0..ChunkSize : Fill(k, d, v)

UniqueSpec == UniqueInit /\ [][UniqueNext]_uniqueVars

-----------------------------------------------------------------------------
\* When no present key is inserted, lookup() and insert() make an LRU cache of as
\* many chunks as fit: the keys held are exactly the latest used ones, and each has
\* the payload last inserted under it.
IsLruCache == Lru!LruSpec
=============================================================================
