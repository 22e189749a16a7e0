------------------------------- MODULE LruCache -------------------------------
(***************************************************************************)
(* What the chunk cache promises its callers: it holds the most recently   *)
(* used keys, as many as fit and no fewer, each with the entry last stored *)
(* under it.  A key is used when it is stored and when it is found.        *)
(***************************************************************************)
EXTENDS Naturals, Sequences

CONSTANTS Key, Entry, Capacity

VARIABLES
    recency,   \* every key used so far, the latest first
    entries    \* the entries held

lruVars == <<recency, entries>>

\* The keys an LRU cache holds.
Newest == {recency[i] : i \in {j \in 1..Len(recency) : j <= Capacity}}

\* k moves to the front from its place p, or from behind the end when it is new.
Use(k) ==
    \E p \in 1..(Len(recency) + 1) :
        /\ \A i \in 1..Len(recency) : recency[i] = k <=> i = p
        /\ recency' = <<k>> \o SubSeq(recency, 1, p - 1) \o SubSeq(recency, p + 1, Len(recency))

LruInit == recency = <<>> /\ entries = [k \in {} |-> 0]

Get(k) == k \in DOMAIN entries /\ Use(k) /\ UNCHANGED entries

Put(k, e) ==
    /\ Capacity > 0
    /\ k \notin DOMAIN entries
    /\ Use(k)
    /\ entries' = [x \in Newest' |-> IF x = k THEN e ELSE entries[x]]

LruNext == \E k \in Key : Get(k) \/ \E e \in Entry : Put(k, e)

LruSpec == LruInit /\ [][LruNext]_lruVars
=============================================================================
