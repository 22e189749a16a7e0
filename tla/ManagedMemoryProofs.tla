------------------------- MODULE ManagedMemoryProofs --------------------------
(***************************************************************************)
(* Theorems about the managed-memory extension, its dataset and its        *)
(* benchmark: who owns an allocation, what an epoch delivers, what the     *)
(* benchmark's paths have read, what allocated_bytes counts, and what the  *)
(* benchmark gives back, for any addresses, threads and sizes.             *)
(***************************************************************************)
EXTENDS UvmBenchmark, FiniteSetTheorems, SequenceTheorems, NaturalsInduction, WellFoundedInduction, TLAPS

-----------------------------------------------------------------------------
(* Types.                                                                  *)

Program == [fileRows : Nat, rows : Nat \ {0}, batchRows : Nat \ {0},
            policy : {"none", "cpu", "gpu", "accessed_by"}, raw : SUBSET (Nat \ {0}),
            unlocked : BOOLEAN, bench : BOOLEAN]

FreeRecord == [step : {"cudaFree", "record", "subtract"}, addr : Addr, bytes : Int, size : Int]

MemTyped ==
    /\ cfg \in Program /\ idx \in Nat
    /\ DOMAIN live \subseteq Addr /\ live \in [DOMAIN live -> Int] /\ sizes \in [DOMAIN sizes -> Int]
    /\ pc \in {"idle", "malloc", "record", "pread", "policy", "unwind", "freeing"}
    /\ cur \in [kind : {"raw", "batch"}, row : Int, bytes : Int, ptr : Addr]
    /\ tensors \subseteq [addr : Addr, row : Int, bytes : Int]
    /\ raws \subseteq Addr /\ lost \subseteq Addr
    /\ freeing \in [Thread -> FreeRecord \cup {None}]

-----------------------------------------------------------------------------
(* Owners.                                                                 *)

TensorAddrs == {x.addr : x \in tensors}
Freeing == {t \in Thread : freeing[t].step = "cudaFree"}
FreeAddrs == {freeing[t].addr : t \in Freeing}

\* Main frees nothing while it runs or is in a call that has not failed.
MainFrees == pc \notin {"unwind", "freeing"} => freeing[Main] = None

OwnersFinite == IsFiniteSet(tensors) /\ IsFiniteSet(raws) /\ IsFiniteSet(lost) /\ IsFiniteSet(Freeing)

\* No two owners of one kind, or of two, hold the same address.
Apart ==
    /\ \A x, y \in tensors : x.addr = y.addr => x = y
    /\ \A t, u \in Freeing : freeing[t].addr = freeing[u].addr => t = u
    /\ TensorAddrs \cap (raws \cup InCall \cup lost \cup FreeAddrs) = {}
    /\ raws \cap (InCall \cup lost \cup FreeAddrs) = {}
    /\ InCall \cap (lost \cup FreeAddrs) = {}
    /\ lost \cap FreeAddrs = {}

AllOwned == DOMAIN live = TensorAddrs \cup raws \cup InCall \cup lost \cup FreeAddrs

OwnInv == MemTyped /\ MainFrees /\ OwnersFinite /\ Apart /\ AllOwned

ownVars == <<cfg, idx, live, sizes, pc, cur, tensors, raws, lost, freeing>>

\* A thread that frees nothing begins to.
LEMMA FreeBegins ==
    ASSUME MemTyped, NEW t \in Thread, freeing[t] = None, NEW a \in DOMAIN live, NEW b \in Int,
           StartsFree(t, a, b)
    PROVE  /\ freeing' \in [Thread -> FreeRecord \cup {None}]
           /\ freeing'[t].addr = a /\ freeing'[t].step = "cudaFree" /\ freeing'[t] # None
           /\ \A u \in Thread : u # t => freeing'[u] = freeing[u]
           /\ t \notin Freeing /\ Freeing' = Freeing \cup {t} /\ FreeAddrs' = FreeAddrs \cup {a}
<1> DEFINE r == [step |-> "cudaFree", addr |-> a, bytes |-> b, size |-> live[a]]
<1>1. r \in FreeRecord
  BY DEF MemTyped, FreeRecord
<1>2. freeing' = [freeing EXCEPT ![t] = r]
  BY DEF StartsFree
<1>3. r.addr = a /\ r.step = "cudaFree" /\ r # None
  BY DEF None
<1> HIDE DEF r
<1>4. /\ freeing' \in [Thread -> FreeRecord \cup {None}] /\ freeing'[t] = r
      /\ \A u \in Thread : u # t => freeing'[u] = freeing[u]
  BY <1>1, <1>2 DEF MemTyped
<1>5. freeing[t].step # "cudaFree"
  BY DEF None
<1>6. t \notin Freeing /\ Freeing' = Freeing \cup {t}
  BY <1>3, <1>4, <1>5 DEF Freeing
<1>7. FreeAddrs' = FreeAddrs \cup {a}
  BY <1>3, <1>4, <1>6 DEF FreeAddrs, Freeing
<1>8. QED
  BY <1>3, <1>4, <1>6, <1>7

\* A thread's cudaFree is over.
LEMMA FreeEnds ==
    ASSUME MemTyped, Apart, NEW t \in Freeing, freeing' \in [Thread -> FreeRecord \cup {None}],
           freeing'[t].step # "cudaFree", \A u \in Thread : u # t => freeing'[u] = freeing[u]
    PROVE  Freeing' = Freeing \ {t} /\ FreeAddrs' = FreeAddrs \ {freeing[t].addr} /\ freeing[t].addr \in FreeAddrs
<1>1. Freeing' = Freeing \ {t} /\ t \in Thread
  BY DEF Freeing
<1>2. \A u \in Freeing' : freeing'[u] = freeing[u]
  BY <1>1 DEF Freeing
<1>3. FreeAddrs' = {freeing[u].addr : u \in Freeing \ {t}}
  BY <1>1, <1>2 DEF FreeAddrs
<1>4. QED
  BY <1>1, <1>3 DEF FreeAddrs, Apart

\* The frees under way as far as cudaFree is concerned.
LEMMA FreesKept ==
    ASSUME NEW t \in Thread, freeing[t].step # "cudaFree", freeing'[t].step # "cudaFree",
           \A u \in Thread : u # t => freeing'[u] = freeing[u]
    PROVE  Freeing' = Freeing /\ FreeAddrs' = FreeAddrs /\ \A u \in Freeing : freeing'[u] = freeing[u]
<1>1. Freeing' = Freeing
  BY DEF Freeing
<1>2. \A u \in Freeing : freeing'[u] = freeing[u]
  BY DEF Freeing
<1>3. QED
  BY <1>1, <1>2 DEF FreeAddrs

LEMMA SameOwners ==
    ASSUME OwnInv, live' = live, tensors' = tensors, raws' = raws, freeing' = freeing, lost' = lost,
           InCall' = InCall
    PROVE  OwnersFinite' /\ Apart' /\ AllOwned'
<1>1. Freeing' = Freeing /\ FreeAddrs' = FreeAddrs /\ TensorAddrs' = TensorAddrs
  BY DEF Freeing, FreeAddrs, TensorAddrs
<1>2. QED
  BY <1>1 DEF OwnInv, OwnersFinite, Apart, AllOwned

LEMMA RunsOwned ==
    ASSUME OwnInv, GetItem \/ Restart \/ reset_stats \/ \E n \in cfg.raw : AllocateRaw(n)
    PROVE  OwnInv'
<1>1. MemTyped /\ pc = "idle" /\ freeing[Main] = None
  BY DEF OwnInv, MainFrees, GetItem, Restart, reset_stats, AllocateRaw, Idle
<1>2. /\ live' = live /\ sizes' = sizes /\ tensors' = tensors /\ raws' = raws /\ freeing' = freeing
      /\ lost' = lost /\ cfg' = cfg /\ pc' \in {"idle", "malloc"}
  BY <1>1 DEF GetItem, Restart, reset_stats, AllocateRaw, acctVars
<1>3. InCall' = InCall
  BY <1>1, <1>2 DEF InCall
<1>4. cfg.rows \in Int /\ cfg.batchRows \in Int /\ idx \in Int /\ cfg.raw \subseteq Int
  BY <1>1 DEF MemTyped, Program
<1>5. StartRow(idx) \in Int /\ ActualRows(idx) \in Int
  BY <1>4 DEF StartRow, ActualRows
<1>6. idx' \in Nat
  <2>1. idx' \in {idx, idx + 1, 0}
    BY DEF GetItem, Restart, reset_stats, AllocateRaw
  <2>2. idx \in Nat
    BY <1>1 DEF MemTyped
  <2>3. QED
    BY <2>1, <2>2
<1>7. cur' \in [kind : {"raw", "batch"}, row : Int, bytes : Int, ptr : Addr]
  <2>1. CASE GetItem
    BY <1>1, <1>5, <2>1 DEF GetItem, MemTyped
  <2>2. ASSUME NEW n \in cfg.raw, AllocateRaw(n)
        PROVE  cur' \in [kind : {"raw", "batch"}, row : Int, bytes : Int, ptr : Addr]
    BY <1>1, <1>4, <2>2 DEF AllocateRaw, MemTyped
  <2>3. CASE Restart \/ reset_stats
    BY <1>1, <2>3 DEF Restart, reset_stats, MemTyped
  <2>4. QED
    BY <2>1, <2>2, <2>3
<1>8. MemTyped' /\ MainFrees'
  BY <1>1, <1>2, <1>6, <1>7 DEF MemTyped, MainFrees
<1>9. QED
  BY <1>2, <1>3, <1>8, SameOwners DEF OwnInv

LEMMA MallocOwned ==
    ASSUME OwnInv, Malloc
    PROVE  OwnInv'
<1>1. MemTyped /\ pc = "malloc" /\ freeing[Main] = None /\ InCall = {}
  BY DEF OwnInv, MainFrees, Malloc, InCall
<1>2. /\ sizes' = sizes /\ tensors' = tensors /\ raws' = raws /\ freeing' = freeing /\ lost' = lost
      /\ cfg' = cfg /\ idx' = idx
  BY DEF Malloc, acctVars
<1>3. ASSUME NEW a \in Addr \ DOMAIN live,
             live' = [x \in DOMAIN live \cup {a} |-> IF x = a THEN cur.bytes ELSE live[x]],
             cur' = [cur EXCEPT !.ptr = a], pc' = "record"
      PROVE  OwnInv'
  <2>1. cur' \in [kind : {"raw", "batch"}, row : Int, bytes : Int, ptr : Addr] /\ cur'.ptr = a
    BY <1>1, <1>3 DEF MemTyped
  <2>2. DOMAIN live' = DOMAIN live \cup {a} /\ live' \in [DOMAIN live' -> Int]
    BY <1>1, <1>3 DEF MemTyped
  <2>3. MemTyped'
    BY <1>1, <1>2, <1>3, <2>1, <2>2 DEF MemTyped
  <2>4. MainFrees' /\ InCall' = {a}
    BY <1>1, <1>2, <1>3, <2>1 DEF MainFrees, InCall
  <2>5. Freeing' = Freeing /\ FreeAddrs' = FreeAddrs /\ TensorAddrs' = TensorAddrs
    BY <1>2 DEF Freeing, FreeAddrs, TensorAddrs
  <2>6. OwnersFinite'
    BY <1>2, <2>5 DEF OwnInv, OwnersFinite
  <2>7. Apart' /\ AllOwned'
    BY <1>1, <1>2, <1>3, <2>2, <2>4, <2>5 DEF OwnInv, Apart, AllOwned
  <2>8. QED
    BY <2>3, <2>4, <2>6, <2>7 DEF OwnInv
<1>4. CASE pc' = "idle" /\ UNCHANGED <<live, cur>>
  <2>1. InCall' = InCall
    BY <1>1, <1>4 DEF InCall
  <2>2. MemTyped' /\ MainFrees'
    BY <1>1, <1>2, <1>4 DEF MemTyped, MainFrees
  <2>3. QED
    BY <1>2, <1>4, <2>1, <2>2, SameOwners DEF OwnInv
<1>5. QED
  BY <1>3, <1>4 DEF Malloc

LEMMA RecordOwned ==
    ASSUME OwnInv, record_allocation
    PROVE  OwnInv'
<1>1. MemTyped /\ pc = "record" /\ freeing[Main] = None /\ InCall = {cur.ptr} /\ cur.ptr \in Addr /\ cur.bytes \in Int
  BY DEF OwnInv, MainFrees, record_allocation, InCall, MemTyped
<1>2. /\ live' = live /\ tensors' = tensors /\ freeing' = freeing /\ lost' = lost
      /\ cfg' = cfg /\ idx' = idx /\ cur' = cur
      /\ sizes' = [a \in DOMAIN sizes \cup {cur.ptr} |-> IF a = cur.ptr THEN cur.bytes ELSE sizes[a]]
  BY DEF record_allocation
<1>3. sizes' \in [DOMAIN sizes' -> Int]
  BY <1>1, <1>2 DEF MemTyped
<1>4. CASE pc' = "idle" /\ raws' = raws \cup {cur.ptr}
  <2>1. MemTyped' /\ MainFrees' /\ InCall' = {}
    BY <1>1, <1>2, <1>3, <1>4 DEF MemTyped, MainFrees, InCall
  <2>2. Freeing' = Freeing /\ FreeAddrs' = FreeAddrs /\ TensorAddrs' = TensorAddrs
    BY <1>2 DEF Freeing, FreeAddrs, TensorAddrs
  <2>3. OwnersFinite'
    BY <1>2, <1>4, <2>2, FS_AddElement DEF OwnInv, OwnersFinite
  <2>4. Apart' /\ AllOwned'
    BY <1>1, <1>2, <1>4, <2>1, <2>2 DEF OwnInv, Apart, AllOwned
  <2>5. QED
    BY <2>1, <2>3, <2>4 DEF OwnInv
<1>5. CASE pc' = "pread" /\ raws' = raws
  <2>1. InCall' = InCall
    BY <1>1, <1>2, <1>5 DEF InCall
  <2>2. MemTyped' /\ MainFrees'
    BY <1>1, <1>2, <1>3, <1>5 DEF MemTyped, MainFrees
  <2>3. QED
    BY <1>2, <1>5, <2>1, <2>2, SameOwners DEF OwnInv
<1>6. QED
  BY <1>4, <1>5 DEF record_allocation

\* An exception hands the call's memory to the free that follows.
LEMMA ThrowOwned ==
    ASSUME OwnInv, pc \in {"pread", "policy"}, pc' = "unwind", FreedOnThrow,
           UNCHANGED <<cfg, live, acctVars, cur, idx, tensors, raws, lost>>
    PROVE  OwnInv'
<1>1. MemTyped /\ freeing[Main] = None /\ InCall = {cur.ptr} /\ cur.ptr \in Addr /\ cur.bytes \in Int
  BY DEF OwnInv, MainFrees, InCall, MemTyped
<1>2. cur.ptr \in DOMAIN live
  BY <1>1 DEF OwnInv, AllOwned
<1>3. Main \in Thread
  BY DEF Thread
<1>4. /\ freeing' \in [Thread -> FreeRecord \cup {None}]
      /\ freeing'[Main].addr = cur.ptr /\ freeing'[Main].step = "cudaFree"
      /\ \A u \in Thread : u # Main => freeing'[u] = freeing[u]
      /\ Main \notin Freeing /\ Freeing' = Freeing \cup {Main} /\ FreeAddrs' = FreeAddrs \cup {cur.ptr}
  BY <1>1, <1>2, <1>3, FreeBegins DEF FreedOnThrow
<1>5. MemTyped' /\ MainFrees' /\ InCall' = {}
  BY <1>1, <1>4 DEF MemTyped, MainFrees, InCall, acctVars
<1>6. TensorAddrs' = TensorAddrs
  BY DEF TensorAddrs
<1>7. OwnersFinite'
  BY <1>4, FS_AddElement DEF OwnInv, OwnersFinite
<1>8. \A t \in Freeing : t \in Thread /\ t # Main /\ freeing'[t] = freeing[t] /\ freeing[t].addr \in FreeAddrs
  BY <1>4 DEF Freeing, FreeAddrs
<1>9. cur.ptr \notin FreeAddrs
  BY <1>1 DEF OwnInv, Apart
<1>10. \A t, u \in Freeing' : freeing'[t].addr = freeing'[u].addr => t = u
  BY <1>4, <1>8, <1>9 DEF OwnInv, Apart
<1>11. Apart' /\ AllOwned'
  BY <1>1, <1>4, <1>5, <1>6, <1>10 DEF OwnInv, Apart, AllOwned
<1>12. QED
  BY <1>5, <1>7, <1>11 DEF OwnInv

LEMMA PreadOwned ==
    ASSUME OwnInv, Pread
    PROVE  OwnInv'
<1>1. MemTyped /\ pc = "pread" /\ freeing[Main] = None
  BY DEF OwnInv, MainFrees, Pread
<1>2. CASE pc' = "policy" /\ freeing' = freeing
  <2>1. UNCHANGED <<cfg, live, acctVars, cur, idx, tensors, raws, lost>>
    BY DEF Pread
  <2>2. InCall' = InCall
    BY <1>1, <1>2, <2>1 DEF InCall
  <2>3. MemTyped' /\ MainFrees'
    BY <1>1, <1>2, <2>1 DEF MemTyped, MainFrees, acctVars
  <2>4. QED
    BY <1>2, <2>1, <2>2, <2>3, SameOwners DEF OwnInv
<1>3. CASE pc' = "unwind" /\ FreedOnThrow
  BY <1>1, <1>3, ThrowOwned DEF Pread
<1>4. QED
  BY <1>2, <1>3 DEF Pread

LEMMA PolicyOwned ==
    ASSUME OwnInv, Policy
    PROVE  OwnInv'
<1> DEFINE x == [addr |-> cur.ptr, row |-> cur.row, bytes |-> cur.bytes]
<1>1. MemTyped /\ pc = "policy" /\ freeing[Main] = None /\ InCall = {cur.ptr} /\ cur.ptr \in Addr
  BY DEF OwnInv, MainFrees, Policy, InCall, MemTyped
<1>2. UNCHANGED <<cfg, live, acctVars, cur, idx, raws, lost>>
  BY DEF Policy
<1>3. CASE tensors' = tensors \cup {x} /\ pc' = "idle" /\ freeing' = freeing
  <2>1. x \in [addr : Addr, row : Int, bytes : Int] /\ x.addr = cur.ptr
    BY <1>1 DEF MemTyped
  <2> HIDE DEF x
  <2>2. MemTyped' /\ MainFrees' /\ InCall' = {}
    BY <1>1, <1>2, <1>3, <2>1 DEF MemTyped, MainFrees, InCall, acctVars
  <2>3. TensorAddrs' = TensorAddrs \cup {cur.ptr}
    BY <1>3, <2>1 DEF TensorAddrs
  <2>4. Freeing' = Freeing /\ FreeAddrs' = FreeAddrs
    BY <1>3 DEF Freeing, FreeAddrs
  <2>5. OwnersFinite'
    BY <1>2, <1>3, <2>4, FS_AddElement DEF OwnInv, OwnersFinite
  <2>6. \A y \in tensors : y.addr # x.addr
    BY <1>1, <2>1 DEF OwnInv, Apart, TensorAddrs
  <2>7. \A y, z \in tensors' : y.addr = z.addr => y = z
    BY <1>3, <2>6 DEF OwnInv, Apart
  <2>8. Apart' /\ AllOwned'
    BY <1>1, <1>2, <1>3, <2>2, <2>3, <2>4, <2>7 DEF OwnInv, Apart, AllOwned
  <2>9. QED
    BY <2>2, <2>5, <2>8 DEF OwnInv
<1>4. CASE pc' = "unwind" /\ FreedOnThrow /\ tensors' = tensors
  BY <1>1, <1>2, <1>4, ThrowOwned
<1>5. QED
  BY <1>3, <1>4 DEF Policy

\* A thread that frees nothing takes over an address whose owner gave it up.
LEMMA TakeOver ==
    ASSUME OwnInv, NEW t \in Thread, freeing[t] = None, NEW a \in DOMAIN live, NEW b \in Int,
           StartsFree(t, a, b), live' = live, lost' = lost, InCall' = InCall,
           \A x, y \in tensors' : x.addr = y.addr => x = y,
           \/ TensorAddrs' = TensorAddrs \ {a} /\ raws' = raws /\ a \in TensorAddrs
           \/ TensorAddrs' = TensorAddrs /\ raws' = raws \ {a} /\ a \in raws
    PROVE  Apart' /\ AllOwned' /\ (IsFiniteSet(Freeing) => IsFiniteSet(Freeing'))
<1>1. /\ freeing'[t].addr = a /\ \A u \in Thread : u # t => freeing'[u] = freeing[u]
      /\ t \notin Freeing /\ Freeing' = Freeing \cup {t} /\ FreeAddrs' = FreeAddrs \cup {a}
  BY FreeBegins DEF OwnInv
<1>2. a \notin FreeAddrs /\ a \notin InCall /\ a \notin lost
  BY DEF OwnInv, Apart
<1>3. \A u \in Freeing : u \in Thread /\ u # t /\ freeing'[u] = freeing[u] /\ freeing[u].addr \in FreeAddrs
  BY <1>1 DEF Freeing, FreeAddrs
<1>4. \A u, w \in Freeing' : freeing'[u].addr = freeing'[w].addr => u = w
  BY <1>1, <1>2, <1>3 DEF OwnInv, Apart
<1>5. Apart'
  BY <1>1, <1>2, <1>4 DEF OwnInv, Apart
<1>6. AllOwned'
  BY <1>1 DEF OwnInv, AllOwned
<1>7. IsFiniteSet(Freeing) => IsFiniteSet(Freeing')
  BY <1>1, FS_AddElement
<1>8. QED
  BY <1>5, <1>6, <1>7

LEMMA DropOwned ==
    ASSUME OwnInv, NEW t \in Thread, NEW x \in tensors, Drop(t, x)
    PROVE  OwnInv'
<1> DEFINE a == x.addr
<1>1. /\ MemTyped /\ freeing[t] = None /\ StartsFree(t, a, x.bytes) /\ tensors' = tensors \ {x}
      /\ UNCHANGED <<cfg, live, acctVars, cur, idx, raws, lost>>
      /\ pc' = pc \/ (t = Main /\ pc = "idle" /\ pc' = "freeing")
  BY DEF OwnInv, Drop, Idle
<1>2. a \in DOMAIN live /\ a \in Addr /\ x.bytes \in Int /\ a \in TensorAddrs
  BY <1>1 DEF OwnInv, AllOwned, MemTyped, TensorAddrs
<1>3. InCall' = InCall
  BY <1>1 DEF InCall
<1>4. TensorAddrs' = TensorAddrs \ {a} /\ \A y, z \in tensors' : y.addr = z.addr => y = z
  BY <1>1 DEF OwnInv, Apart, TensorAddrs
<1> HIDE DEF a
<1>5. Apart' /\ AllOwned' /\ (IsFiniteSet(Freeing) => IsFiniteSet(Freeing'))
  BY <1>1, <1>2, <1>3, <1>4, TakeOver
<1>6. OwnersFinite'
  BY <1>1, <1>5, FS_RemoveElement DEF OwnInv, OwnersFinite
<1>7. /\ freeing' \in [Thread -> FreeRecord \cup {None}]
      /\ \A u \in Thread : u # t => freeing'[u] = freeing[u]
  BY <1>1, <1>2, FreeBegins
<1>8. MemTyped'
  BY <1>1, <1>7 DEF MemTyped, acctVars
<1>9. MainFrees'
  <2>1. CASE t = Main
    BY <1>1, <2>1 DEF Drop, MainFrees
  <2>2. CASE t # Main
    <3>1. freeing'[Main] = freeing[Main]
      BY <1>7, <2>2 DEF Thread
    <3>2. QED
      BY <1>1, <2>2, <3>1 DEF MainFrees, OwnInv
  <2>3. QED
    BY <2>1, <2>2
<1>10. QED
  BY <1>5, <1>6, <1>8, <1>9 DEF OwnInv

LEMMA FreeManagedOwned ==
    ASSUME OwnInv, NEW a \in raws, FreeManaged(a)
    PROVE  OwnInv'
<1>1. /\ MemTyped /\ freeing[Main] = None /\ StartsFree(Main, a, 0) /\ raws' = raws \ {a} /\ Main \in Thread
      /\ UNCHANGED <<cfg, live, acctVars, cur, idx, tensors, lost>> /\ pc = "idle" /\ pc' = "freeing"
  BY DEF OwnInv, MainFrees, FreeManaged, Idle, Thread
<1>2. a \in DOMAIN live /\ a \in Addr /\ 0 \in Int
  BY <1>1 DEF OwnInv, AllOwned, MemTyped
<1>3. InCall' = InCall /\ TensorAddrs' = TensorAddrs /\ \A y, z \in tensors' : y.addr = z.addr => y = z
  BY <1>1 DEF InCall, TensorAddrs, OwnInv, Apart
<1>4. Apart' /\ AllOwned' /\ (IsFiniteSet(Freeing) => IsFiniteSet(Freeing'))
  BY <1>1, <1>2, <1>3, TakeOver
<1>5. OwnersFinite'
  BY <1>1, <1>4, FS_RemoveElement DEF OwnInv, OwnersFinite
<1>6. freeing' \in [Thread -> FreeRecord \cup {None}]
  BY <1>1, <1>2, FreeBegins
<1>7. MemTyped' /\ MainFrees'
  BY <1>1, <1>6 DEF MemTyped, MainFrees, acctVars
<1>8. QED
  BY <1>4, <1>5, <1>7 DEF OwnInv

\* Only Main's own frees end the call it is in.
LEMMA MainKept ==
    ASSUME MainFrees, NEW t \in Thread, \A u \in Thread : u # t => freeing'[u] = freeing[u],
           \/ pc' = pc /\ freeing[t] # None
           \/ AfterFree(t) /\ freeing'[t] = None
    PROVE  MainFrees'
<1>1. CASE t = Main
  BY <1>1 DEF MainFrees, AfterFree
<1>2. CASE t # Main
  <2>1. freeing'[Main] = freeing[Main] /\ pc' = pc
    BY <1>2 DEF Thread, AfterFree
  <2>2. QED
    BY <2>1 DEF MainFrees
<1>3. QED
  BY <1>1, <1>2

LEMMA AfterFreePlace ==
    ASSUME MemTyped, NEW t, AfterFree(t), pc \in {"unwind", "freeing"} \/ t # Main
    PROVE  /\ pc' \in {"idle", "malloc", "record", "pread", "policy", "unwind", "freeing"}
           /\ cur' = cur => InCall' = InCall
  BY DEF AfterFree, MemTyped, InCall

LEMMA CudaFreeOwned ==
    ASSUME OwnInv, NEW t \in Thread, CudaFree(t)
    PROVE  OwnInv'
<1> DEFINE a == freeing[t].addr
<1>1. /\ MemTyped /\ freeing[t].step = "cudaFree" /\ t \in Freeing /\ freeing[t] # None
      /\ UNCHANGED <<cfg, acctVars, cur, idx, tensors, raws>>
  BY DEF OwnInv, CudaFree, Freeing, None
<1>2. freeing[t] \in FreeRecord /\ a \in Addr
  BY <1>1 DEF MemTyped, FreeRecord
<1>3. pc \in {"unwind", "freeing"} \/ t # Main
  BY <1>1 DEF OwnInv, MainFrees
<1>4. TensorAddrs' = TensorAddrs
  BY <1>1 DEF TensorAddrs
<1> HIDE DEF a
<1>5. CASE /\ live' = Restrict(live, DOMAIN live \ {a}) /\ freeing' = [freeing EXCEPT ![t].step = "record"]
           /\ UNCHANGED <<pc, lost>>
  <2>1. freeing' \in [Thread -> FreeRecord \cup {None}] /\ freeing'[t].step = "record"
        /\ \A u \in Thread : u # t => freeing'[u] = freeing[u]
    BY <1>1, <1>2, <1>5 DEF MemTyped, FreeRecord
  <2>2. Freeing' = Freeing \ {t} /\ FreeAddrs' = FreeAddrs \ {a} /\ a \in FreeAddrs
    BY <1>1, <2>1, FreeEnds DEF OwnInv, a
  <2>3. DOMAIN live' = DOMAIN live \ {a} /\ live' \in [DOMAIN live' -> Int] /\ DOMAIN live' \subseteq Addr
    BY <1>1, <1>5 DEF MemTyped, Restrict
  <2>4. MemTyped' /\ InCall' = InCall
    BY <1>1, <1>5, <2>1, <2>3 DEF MemTyped, acctVars, InCall
  <2>5. MainFrees'
    BY <1>1, <1>5, <2>1, MainKept DEF OwnInv
  <2>6. OwnersFinite'
    BY <1>1, <1>5, <2>2, FS_RemoveElement DEF OwnInv, OwnersFinite
  <2>7. \A u, w \in Freeing' : freeing'[u].addr = freeing'[w].addr => u = w
    BY <2>1, <2>2 DEF OwnInv, Apart, Freeing
  <2>8. Apart' /\ AllOwned'
    <3>1. a \notin TensorAddrs /\ a \notin raws /\ a \notin InCall /\ a \notin lost
      BY <2>2 DEF OwnInv, Apart
    <3>2. AllOwned'
      BY <1>1, <1>4, <1>5, <2>2, <2>3, <2>4, <3>1 DEF OwnInv, AllOwned
    <3>3. Apart'
      BY <1>1, <1>4, <1>5, <2>2, <2>4, <2>7 DEF OwnInv, Apart
    <3>4. QED
      BY <3>2, <3>3
  <2>9. QED
    BY <2>4, <2>5, <2>6, <2>8 DEF OwnInv
<1>6. CASE /\ lost' = lost \cup {a} /\ freeing' = [freeing EXCEPT ![t] = None]
           /\ AfterFree(t) /\ UNCHANGED live
  <2>1. /\ freeing' \in [Thread -> FreeRecord \cup {None}] /\ freeing'[t] = None /\ freeing'[t].step # "cudaFree"
        /\ \A u \in Thread : u # t => freeing'[u] = freeing[u]
    BY <1>1, <1>6 DEF MemTyped, None
  <2>2. Freeing' = Freeing \ {t} /\ FreeAddrs' = FreeAddrs \ {a} /\ a \in FreeAddrs
    BY <1>1, <2>1, FreeEnds DEF OwnInv, a
  <2>3. /\ pc' \in {"idle", "malloc", "record", "pread", "policy", "unwind", "freeing"}
        /\ InCall' = InCall
    BY <1>1, <1>3, <1>6, AfterFreePlace
  <2>4. MemTyped'
    BY <1>1, <1>2, <1>6, <2>1, <2>3 DEF MemTyped, acctVars
  <2>5. MainFrees'
    BY <1>1, <1>6, <2>1, MainKept DEF OwnInv
  <2>6. OwnersFinite'
    BY <1>1, <1>6, <2>2, FS_RemoveElement, FS_AddElement DEF OwnInv, OwnersFinite
  <2>7. \A u, w \in Freeing' : freeing'[u].addr = freeing'[w].addr => u = w
    BY <2>1, <2>2 DEF OwnInv, Apart, Freeing
  <2>8. Apart' /\ AllOwned'
    BY <1>1, <1>4, <1>6, <2>2, <2>3, <2>7 DEF OwnInv, Apart, AllOwned
  <2>9. QED
    BY <2>4, <2>5, <2>6, <2>8 DEF OwnInv
<1>7. QED
  BY <1>5, <1>6 DEF CudaFree, a

\* The rest of a free touches no memory.
LEMMA AccountsOwned ==
    ASSUME OwnInv, NEW t \in Thread, record_free(t) \/ Subtract(t)
    PROVE  OwnInv'
<1>1. /\ MemTyped /\ freeing[t].step \in {"record", "subtract"} /\ freeing[t] # None
      /\ UNCHANGED <<cfg, live, cur, idx, tensors, raws, lost>>
  BY DEF OwnInv, record_free, Subtract, None
<1>2. freeing[t] \in FreeRecord /\ (pc \in {"unwind", "freeing"} \/ t # Main)
  BY <1>1 DEF MemTyped, OwnInv, MainFrees
<1>3. /\ sizes' \in [DOMAIN sizes' -> Int] /\ freeing' \in [Thread -> FreeRecord \cup {None}]
      /\ freeing'[t].step # "cudaFree"
      /\ \A u \in Thread : u # t => freeing'[u] = freeing[u]
      /\ \/ pc' = pc
         \/ AfterFree(t) /\ freeing'[t] = None
  <2>1. CASE record_free(t)
    <3>1. RecordedBytes(t) \in Int
      BY <1>1, <1>2 DEF RecordedBytes, MemTyped, FreeRecord
    <3>2. freeing' = [freeing EXCEPT ![t] = [freeing[t] EXCEPT !.step = "subtract", !.bytes = RecordedBytes(t)]]
      BY <1>1, <2>1 DEF record_free, MemTyped
    <3>3. [freeing[t] EXCEPT !.step = "subtract", !.bytes = RecordedBytes(t)] \in FreeRecord
      BY <1>2, <3>1 DEF FreeRecord
    <3>4. sizes' \in [DOMAIN sizes' -> Int]
      BY <1>1, <2>1 DEF record_free, MemTyped, Restrict
    <3>5. freeing'[t].step = "subtract"
      BY <1>1, <1>2, <3>2 DEF MemTyped, FreeRecord
    <3>6. QED
      BY <1>1, <2>1, <3>2, <3>3, <3>4, <3>5 DEF record_free, MemTyped
  <2>2. CASE Subtract(t)
    BY <1>1, <2>2 DEF Subtract, MemTyped, None
  <2>3. QED
    BY <2>1, <2>2
<1>4. /\ pc' \in {"idle", "malloc", "record", "pread", "policy", "unwind", "freeing"}
      /\ InCall' = InCall
  <2>1. CASE pc' = pc
    BY <1>1, <2>1 DEF MemTyped, InCall
  <2>2. QED
    BY <1>1, <1>2, <1>3, <2>1, AfterFreePlace
<1>5. MemTyped'
  BY <1>1, <1>3, <1>4 DEF MemTyped
<1>6. MainFrees'
  BY <1>1, <1>3, MainKept DEF OwnInv
<1>7. Freeing' = Freeing /\ FreeAddrs' = FreeAddrs /\ \A u \in Freeing : freeing'[u] = freeing[u]
  BY <1>1, <1>3, FreesKept
<1>8. TensorAddrs' = TensorAddrs
  BY <1>1 DEF TensorAddrs
<1>9. OwnersFinite'
  BY <1>1, <1>7 DEF OwnInv, OwnersFinite
<1>10. Apart' /\ AllOwned'
  BY <1>1, <1>4, <1>7, <1>8 DEF OwnInv, Apart, AllOwned
<1>11. QED
  BY <1>5, <1>6, <1>9, <1>10 DEF OwnInv

LEMMA NextOwned ==
    ASSUME OwnInv, Next
    PROVE  OwnInv'
<1>1. ASSUME NEW x \in tensors, Drop(Main, x) \/ \E t \in Deleter : Drop(t, x) PROVE OwnInv'
  BY <1>1, DropOwned DEF Thread
<1>2. QED
  BY <1>1, RunsOwned, MallocOwned, RecordOwned, PreadOwned, PolicyOwned, FreeManagedOwned,
     CudaFreeOwned, AccountsOwned DEF Next

memVars == <<live, sizes, pc, cur, tensors, raws, lost, freeing>>

\* Every step of the benchmark is the extension's, or touches no memory.
LEMMA BenchCases ==
    ASSUME [BenchNext]_<<vars, benchVars>>
    PROVE  \/ Next /\ cfg' = cfg
           \/ /\ UNCHANGED memVars /\ idx' \in {idx, 0}
              /\ \/ cfg' = cfg
                 \/ cfg' = [cfg EXCEPT !.fileRows = cfg.rows]
                 \/ cfg' = [cfg EXCEPT !.policy = UvmPolicy]
<1>1. Next => cfg' = cfg
  BY DEF Next, GetItem, Restart, Malloc, record_allocation, Pread, Policy, reset_stats, AllocateRaw,
         FreeManaged, Drop, CudaFree, record_free, Subtract
<1>2. CASE UvmCall
  <2>1. Main \in Thread
    BY DEF Thread
  <2>2. Next
    BY <1>2, <2>1 DEF UvmCall, Next
  <2>3. QED
    BY <1>1, <2>2
<1>3. CASE ensure_binary_file
  BY <1>3 DEF ensure_binary_file, memVars, acctVars
<1>4. CASE StartUvm
  BY <1>4 DEF StartUvm, Fresh, memVars
<1>5. CASE TouchFails
  BY <1>5 DEF TouchFails, memVars, acctVars
<1>6. CASE UNCHANGED vars
  BY <1>6 DEF vars, memVars, acctVars
<1>7. CASE BaselineBatch \/ EndBaseline \/ TouchBatch \/ EndUvm \/ Stop \/ BenchDone
  BY <1>6, <1>7 DEF BaselineBatch, EndBaseline, TouchBatch, EndUvm, Stop, BenchDone
<1>8. CASE phase = "other" /\ Next
  BY <1>1, <1>8
<1>9. QED
  BY <1>2, <1>3, <1>4, <1>5, <1>6, <1>7, <1>8 DEF BenchNext, run_all

LEMMA BenchOwned ==
    ASSUME OwnInv, [BenchNext]_<<vars, benchVars>>
    PROVE  OwnInv'
<1>1. CASE /\ UNCHANGED memVars /\ idx' \in {idx, 0}
           /\ \/ cfg' = cfg
              \/ cfg' = [cfg EXCEPT !.fileRows = cfg.rows]
              \/ cfg' = [cfg EXCEPT !.policy = UvmPolicy]
  <2>1. cfg' \in Program
    <3>1. UvmPolicy \in {"none", "gpu"} /\ cfg \in Program
      BY DEF UvmPolicy, OwnInv, MemTyped
    <3>2. QED
      BY <1>1, <3>1 DEF Program
  <2>2. MemTyped' /\ MainFrees' /\ InCall' = InCall
    BY <1>1, <2>1 DEF OwnInv, MemTyped, MainFrees, InCall, memVars
  <2>3. QED
    BY <1>1, <2>2, SameOwners DEF OwnInv, memVars
<1>2. QED
  BY <1>1, BenchCases, NextOwned

LEMMA InitOwned == BenchInit => OwnInv
<1> SUFFICES ASSUME BenchInit PROVE OwnInv
  OBVIOUS
<1>1. Init
  BY DEF BenchInit
<1>2. DOMAIN live = {} /\ DOMAIN sizes = {} /\ live \in [DOMAIN live -> Int] /\ sizes \in [DOMAIN sizes -> Int]
  BY <1>1 DEF Init
<1>3. freeing \in [Thread -> FreeRecord \cup {None}] /\ \A t \in Thread : freeing[t] = None
  BY <1>1 DEF Init
<1>4. cfg \in Program
  BY <1>1, ProgramAssumption DEF Init, Program
<1>5. MemTyped
  BY <1>1, <1>2, <1>3, <1>4 DEF Init, MemTyped
<1>6. MainFrees
  BY <1>3 DEF MainFrees, Thread
<1>7. Freeing = {} /\ FreeAddrs = {}
  BY <1>3 DEF Freeing, FreeAddrs, None
<1>8. TensorAddrs = {} /\ InCall = {}
  BY <1>1 DEF Init, TensorAddrs, InCall
<1>9. OwnersFinite
  BY <1>1, <1>7, FS_EmptySet DEF Init, OwnersFinite
<1>10. Apart /\ AllOwned
  BY <1>1, <1>2, <1>7, <1>8 DEF Init, Apart, AllOwned
<1>11. QED
  BY <1>5, <1>6, <1>9, <1>10 DEF OwnInv

LEMMA AlwaysOwned == BenchSpec => []OwnInv
  BY InitOwned, BenchOwned, PTL DEF BenchSpec

-----------------------------------------------------------------------------

\* Distinct elements with distinct images: as many images as elements.
LEMMA ImageCardinality ==
    ASSUME NEW S, IsFiniteSet(S), NEW f, f = [x \in S |-> f[x]],
           \A x, y \in S : f[x] = f[y] => x = y
    PROVE  IsFiniteSet({f[x] : x \in S}) /\ Cardinality({f[x] : x \in S}) = Cardinality(S)
<1> DEFINE T == {f[x] : x \in S}
<1>1. f \in Surjection(S, T)
  BY DEF Surjection
<1>2. f \in Injection(S, T)
  BY <1>1 DEF Surjection, Injection, IsInjective
<1> HIDE DEF T
<1>3. IsFiniteSet(T) /\ Cardinality(T) = Cardinality(S)
  BY <1>1, <1>2, FS_Surjection
<1>4. QED
  BY <1>3 DEF T

LEMMA DisjointUnion ==
    ASSUME NEW S, NEW T, IsFiniteSet(S), IsFiniteSet(T), S \cap T = {}
    PROVE  IsFiniteSet(S \cup T) /\ Cardinality(S \cup T) = Cardinality(S) + Cardinality(T)
<1>1. Cardinality(S) \in Nat /\ Cardinality(T) \in Nat
  BY FS_CardinalityType
<1>2. Cardinality(S \cap T) = 0
  BY FS_EmptySet
<1>3. /\ IsFiniteSet(S \cup T)
      /\ Cardinality(S \cup T) = Cardinality(S) + Cardinality(T) - Cardinality(S \cap T)
  BY FS_Union, Zenon
<1>4. QED
  BY <1>1, <1>2, <1>3

\* The invariant says what MemoryOwned says by counting.
LEMMA OwnedMeans == OwnInv => MemoryOwned
<1> SUFFICES ASSUME OwnInv PROVE MemoryOwned
  OBVIOUS
<1> USE DEF OwnInv
<1>1. /\ IsFiniteSet(tensors) /\ IsFiniteSet(raws) /\ IsFiniteSet(lost) /\ IsFiniteSet(Freeing)
  BY DEF OwnersFinite
<1>2. IsFiniteSet(InCall)
  BY FS_EmptySet, FS_Singleton DEF InCall
<1>3. IsFiniteSet(TensorAddrs) /\ Cardinality(TensorAddrs) = Cardinality(tensors)
  <2> DEFINE f == [x \in tensors |-> x.addr]
  <2>1. f = [x \in tensors |-> f[x]] /\ \A x, y \in tensors : f[x] = f[y] => x = y
    BY DEF Apart
  <2>2. TensorAddrs = {f[x] : x \in tensors}
    BY DEF TensorAddrs
  <2> HIDE DEF f
  <2>3. QED
    BY <1>1, <2>1, <2>2, ImageCardinality
<1>4. IsFiniteSet(FreeAddrs) /\ Cardinality(FreeAddrs) = Cardinality(Freeing)
  <2> DEFINE f == [t \in Freeing |-> freeing[t].addr]
  <2>1. f = [x \in Freeing |-> f[x]] /\ \A x, y \in Freeing : f[x] = f[y] => x = y
    BY DEF Apart
  <2>2. FreeAddrs = {f[x] : x \in Freeing}
    BY DEF FreeAddrs
  <2> HIDE DEF f
  <2>3. QED
    BY <1>1, <2>1, <2>2, ImageCardinality
<1>5. UNION {Owned(t) : t \in Thread} = FreeAddrs /\ {t \in Thread : Owned(t) # {}} = Freeing
  BY DEF Owned, FreeAddrs, Freeing
<1>6. LET A == lost \cup FreeAddrs
      IN  IsFiniteSet(A) /\ Cardinality(A) = Cardinality(lost) + Cardinality(Freeing)
  <2>1. lost \cap FreeAddrs = {}
    BY DEF Apart
  <2>2. QED
    BY <1>1, <1>4, <2>1, DisjointUnion
<1>7. LET A == InCall \cup (lost \cup FreeAddrs)
      IN  IsFiniteSet(A) /\ Cardinality(A) = Cardinality(InCall) + (Cardinality(lost) + Cardinality(Freeing))
  <2>1. InCall \cap (lost \cup FreeAddrs) = {}
    BY DEF Apart
  <2>2. QED
    BY <1>2, <1>6, <2>1, DisjointUnion
<1>8. LET A == raws \cup (InCall \cup (lost \cup FreeAddrs))
      IN  /\ IsFiniteSet(A)
          /\ Cardinality(A) = Cardinality(raws) + (Cardinality(InCall) + (Cardinality(lost) + Cardinality(Freeing)))
  <2>1. raws \cap (InCall \cup (lost \cup FreeAddrs)) = {}
    BY DEF Apart
  <2>2. QED
    BY <1>1, <1>7, <2>1, DisjointUnion
<1>9. LET A == TensorAddrs \cup (raws \cup (InCall \cup (lost \cup FreeAddrs)))
      IN  Cardinality(A) = Cardinality(tensors)
              + (Cardinality(raws) + (Cardinality(InCall) + (Cardinality(lost) + Cardinality(Freeing))))
  <2>1. TensorAddrs \cap (raws \cup (InCall \cup (lost \cup FreeAddrs))) = {}
    BY DEF Apart
  <2>2. QED
    BY <1>3, <1>8, <2>1, DisjointUnion
<1>10. DOMAIN live = TensorAddrs \cup (raws \cup (InCall \cup (lost \cup FreeAddrs)))
  BY DEF AllOwned
<1>11. /\ Cardinality(tensors) \in Nat /\ Cardinality(raws) \in Nat /\ Cardinality(InCall) \in Nat
       /\ Cardinality(lost) \in Nat /\ Cardinality(Freeing) \in Nat
  BY <1>1, <1>2, FS_CardinalityType
<1>12. Cardinality(DOMAIN live) = Cardinality(tensors) + Cardinality(raws) + Cardinality(InCall)
           + Cardinality(lost) + Cardinality(Freeing)
  BY <1>9, <1>10, <1>11
<1>13. DOMAIN live = TensorAddrs \cup raws \cup InCall \cup lost \cup FreeAddrs
  BY DEF AllOwned
<1>14. QED
  BY <1>5, <1>12, <1>13 DEF MemoryOwned, TensorAddrs

\* Every managed allocation has exactly one owner, whichever calls throw, whichever threads drop
\* tensors and whatever cudaFree refuses: nothing is freed twice, used after its free, or leaked.
THEOREM UvmMemoryOwned == BenchSpec => []MemoryOwned
  BY AlwaysOwned, OwnedMeans, PTL
-----------------------------------------------------------------------------
(* Batches and rows.                                                       *)

LEMMA Division ==
    ASSUME NEW a \in Nat, NEW b \in Nat \ {0}
    PROVE  a \div b \in Nat /\ a % b \in 0..(b - 1) /\ (a \div b) * b = a - (a % b)
<1>1. a \div b \in Nat
  BY SMTT(30)
<1>2. a % b \in 0..(b - 1)
  BY SMTT(30)
<1>3. a = (a \div b) * b + (a % b)
  BY SMTT(30)
<1>4. (a \div b) * b \in Nat
  BY <1>1
<1>5. QED
  BY <1>1, <1>2, <1>3, <1>4

LEMMA TimesMonotone ==
    ASSUME NEW i \in Nat, NEW q \in Nat, i < q, NEW b \in Nat
    PROVE  i * b \in Nat /\ q * b \in Nat /\ i * b + b <= q * b /\ (i + 1) * b = i * b + b
<1>1. i * b \in Nat /\ q * b \in Nat /\ (i + 1) * b = i * b + b
  BY SMTT(30)
<1>2. q * b = (i + 1) * b + (q - (i + 1)) * b /\ (q - (i + 1)) * b \in Nat
  BY SMTT(30)
<1>3. QED
  BY <1>1, <1>2

\* The rows of the batches before batch i.
RowsBefore(i) == IF StartRow(i) < cfg.rows THEN StartRow(i) ELSE cfg.rows

\* math.ceil gives every row a batch and every batch a row.
LEMMA BatchFacts ==
    ASSUME cfg \in Program
    PROVE  /\ NumBatches \in Nat /\ RowsBefore(NumBatches) = cfg.rows /\ RowsBefore(0) = 0
           /\ \A i \in Nat : RowsBefore(i) \in Nat /\ RowsBefore(i) <= cfg.rows
           /\ \A i \in Nat : i < NumBatches =>
                  /\ StartRow(i) \in Nat /\ ActualRows(i) \in Nat \ {0}
                  /\ RowsBefore(i) = StartRow(i) /\ StartRow(i) + ActualRows(i) = RowsBefore(i + 1)
<1> DEFINE r == cfg.rows
           b == cfg.batchRows
           q == NumBatches
           m == (r + b - 1) % b
<1>1. r \in Nat \ {0} /\ b \in Nat \ {0}
  BY DEF Program
<1>2. r + b - 1 \in Nat
  BY <1>1
<1>3. q \in Nat /\ m \in 0..(b - 1) /\ q * b = (r + b - 1) - m
  BY <1>1, <1>2, Division DEF NumBatches
<1> HIDE DEF q, m
<1>4. q * b >= r /\ q * b <= r + b - 1 /\ q * b \in Nat
  BY <1>1, <1>3
<1>5. RowsBefore(q) = r
  BY <1>1, <1>4 DEF RowsBefore, StartRow
<1>6. RowsBefore(0) = 0
  BY <1>1 DEF RowsBefore, StartRow
<1>7. ASSUME NEW i \in Nat PROVE RowsBefore(i) \in Nat /\ RowsBefore(i) <= r
  <2>1. i * b \in Nat
    BY <1>1
  <2>2. QED
    BY <1>1, <2>1 DEF RowsBefore, StartRow
<1>8. ASSUME NEW i \in Nat, i < q
      PROVE  /\ StartRow(i) \in Nat /\ ActualRows(i) \in Nat \ {0}
             /\ RowsBefore(i) = StartRow(i) /\ StartRow(i) + ActualRows(i) = RowsBefore(i + 1)
  <2> DEFINE s == i * b
  <2>1. s \in Nat /\ s + b <= q * b /\ (i + 1) * b = s + b
    BY <1>1, <1>3, <1>8, TimesMonotone
  <2>2. StartRow(i) = s /\ StartRow(i + 1) = s + b
    BY <2>1 DEF StartRow
  <2> HIDE DEF s, r, b
  <2>3. s < r
    BY <1>1, <1>4, <2>1
  <2>4. ActualRows(i) = IF r - s < b THEN r - s ELSE b
    BY <2>2 DEF ActualRows, r, b
  <2>5. RowsBefore(i) = s /\ RowsBefore(i + 1) = IF s + b < r THEN s + b ELSE r
    BY <2>2, <2>3 DEF RowsBefore, r
  <2>6. QED
    BY <1>1, <2>1, <2>2, <2>3, <2>4, <2>5
<1>9. QED
  BY <1>3, <1>5, <1>6, <1>7, <1>8 DEF q

\* Rows 0 to n - 1 in order.
Upto(n) == [j \in 1..n |-> j - 1]

LEMMA UptoAppend ==
    ASSUME NEW n \in Nat, NEW m \in Nat
    PROVE  Upto(n) \o [i \in 1..m |-> n + i - 1] = Upto(n + m)
<1> DEFINE s == Upto(n)
           e == [i \in 1..m |-> n + i - 1]
<1>1. s \in Seq(Int) /\ Len(s) = n /\ e \in Seq(Int) /\ Len(e) = m
  BY DEF Upto
<1>2. /\ \A j \in 1..n : s[j] = j - 1
      /\ \A j \in 1..m : e[j] = n + j - 1
  BY DEF Upto
<1> HIDE DEF s, e
<1>3. /\ s \o e \in Seq(Int) /\ Len(s \o e) = n + m
      /\ \A j \in 1..(n + m) : (s \o e)[j] = IF j <= n THEN s[j] ELSE e[j - n]
  <2>1. s \in Seq(Int) /\ e \in Seq(Int)
    BY <1>1
  <2>2. /\ s \o e \in Seq(Int) /\ Len(s \o e) = Len(s) + Len(e)
        /\ \A j \in 1..(Len(s) + Len(e)) : (s \o e)[j] = IF j <= Len(s) THEN s[j] ELSE e[j - Len(s)]
    BY <2>1, ConcatProperties, Zenon
  <2>3. QED
    BY <1>1, <2>2
<1>4. ASSUME NEW j \in 1..(n + m) PROVE (IF j <= n THEN s[j] ELSE e[j - n]) = j - 1
  <2>1. CASE j <= n
    <3>1. j \in 1..n
      BY <2>1
    <3>2. QED
      BY <1>2, <2>1, <3>1
  <2>2. CASE ~(j <= n)
    <3>1. j - n \in 1..m /\ n + (j - n) - 1 = j - 1
      BY <2>2
    <3>2. e[j - n] = n + (j - n) - 1
      BY <1>2, <3>1
    <3>3. QED
      BY <2>2, <3>1, <3>2
  <2>3. QED
    BY <2>1, <2>2
<1>5. s \o e = [j \in 1..(n + m) |-> j - 1]
  <2> DEFINE u == [j \in 1..(n + m) |-> j - 1]
  <2>1. u \in Seq(Int) /\ Len(u) = n + m
    OBVIOUS
  <2>2. \A j \in 1..(n + m) : (s \o e)[j] = u[j]
    BY <1>3, <1>4
  <2> HIDE DEF u
  <2>3. s \o e = u
    BY <1>3, <2>1, <2>2, SeqEqual
  <2>4. QED
    BY <2>3 DEF u
<1>6. QED
  BY <1>5 DEF s, e, Upto
-----------------------------------------------------------------------------
(* What an epoch has delivered.                                            *)

\* A call for the batch idx - 1 is under way.
InBatch == pc \in {"malloc", "record", "pread", "policy"} /\ cur.kind = "batch"

\* The batch asked for continues the rows that were delivered; pread found them in the file.
Underway ==
    /\ idx >= 1 /\ delivered = Upto(RowsBefore(idx - 1)) /\ RowsBefore(idx - 1) <= cfg.fileRows
    /\ cur.row = StartRow(idx - 1) /\ cur.bytes = ActualRows(idx - 1)
    /\ pc = "policy" => cur.row + cur.bytes <= cfg.fileRows

Arrived == delivered = Upto(RowsBefore(idx)) /\ RowsBefore(idx) <= cfg.fileRows

EpochInv ==
    /\ idx <= NumBatches
    /\ pc \in {"pread", "policy"} => cur.kind = "batch"
    /\ pc = "unwind" => failed
    /\ phase \notin {"uvm", "other"} => pc = "idle"
    /\ ~failed => IF InBatch THEN Underway ELSE Arrived

LEMMA SameBatches ==
    ASSUME cfg'.rows = cfg.rows, cfg'.batchRows = cfg.batchRows, NEW i
    PROVE  /\ NumBatches' = NumBatches /\ StartRow(i)' = StartRow(i)
           /\ ActualRows(i)' = ActualRows(i) /\ RowsBefore(i)' = RowsBefore(i)
  BY DEF NumBatches, StartRow, ActualRows, RowsBefore

\* Steps of the extension that deliver nothing and ask for nothing.
LEMMA EpochKept ==
    ASSUME EpochInv, UNCHANGED <<cfg, idx, cur, delivered, failed>>, phase' = phase, phase \in {"uvm", "other"},
           \/ pc' = pc
           \/ pc \in {"idle", "freeing"} /\ pc' \in {"idle", "freeing"}
           \/ pc = "unwind" /\ pc' = "idle"
    PROVE  EpochInv'
<1>1. NumBatches' = NumBatches /\ InBatch' = InBatch /\ StartRow(idx - 1)' = StartRow(idx - 1)
      /\ ActualRows(idx - 1)' = ActualRows(idx - 1) /\ RowsBefore(idx - 1)' = RowsBefore(idx - 1)
      /\ RowsBefore(idx)' = RowsBefore(idx)
  BY DEF NumBatches, InBatch, StartRow, ActualRows, RowsBefore
<1>2. Underway /\ InBatch => Underway'
  BY <1>1 DEF Underway, InBatch
<1>3. Arrived => Arrived'
  BY <1>1 DEF Arrived
<1>4. QED
  BY <1>1, <1>2, <1>3 DEF EpochInv

\* Main's frees end in the main program.
LEMMA FreesKeepEpoch ==
    ASSUME OwnInv, EpochInv, phase' = phase, phase \in {"uvm", "other"}, NEW t \in Thread,
           CudaFree(t) \/ record_free(t) \/ Subtract(t)
    PROVE  EpochInv'
<1>1. freeing[t] # None
  BY DEF CudaFree, record_free, Subtract, None
<1>2. t = Main => pc \in {"unwind", "freeing"}
  BY <1>1 DEF OwnInv, MainFrees
<1>3. pc' = pc \/ AfterFree(t)
  BY DEF CudaFree, record_free, Subtract
<1>4. \/ pc' = pc
      \/ pc \in {"idle", "freeing"} /\ pc' \in {"idle", "freeing"}
      \/ pc = "unwind" /\ pc' = "idle"
  BY <1>2, <1>3 DEF AfterFree
<1>5. UNCHANGED <<cfg, idx, cur, delivered, failed>>
  BY DEF CudaFree, record_free, Subtract, acctVars
<1>6. QED
  BY <1>4, <1>5, EpochKept

LEMMA BatchEpoch ==
    ASSUME MemTyped, EpochInv, phase' = phase, phase \in {"uvm", "other"},
           GetItem \/ Malloc \/ record_allocation \/ Pread \/ Policy
    PROVE  EpochInv'
<1>1. cfg \in Program /\ idx \in Nat /\ cur.kind \in {"raw", "batch"} /\ cfg' = cfg
  BY DEF MemTyped, GetItem, Malloc, record_allocation, Pread, Policy
<1>2. \A i : /\ NumBatches' = NumBatches /\ StartRow(i)' = StartRow(i)
             /\ ActualRows(i)' = ActualRows(i) /\ RowsBefore(i)' = RowsBefore(i)
  BY <1>1, SameBatches
<1> HIDE DEF NumBatches, StartRow, ActualRows, RowsBefore
<1>3. CASE GetItem
  <2>1. /\ pc = "idle" /\ pc' = "malloc" /\ idx < NumBatches /\ idx' = idx + 1
        /\ delivered' = delivered /\ failed' = failed
        /\ cur' = [cur EXCEPT !.kind = "batch", !.row = StartRow(idx), !.bytes = ActualRows(idx)]
    BY <1>3 DEF GetItem, Idle
  <2>2. cur'.kind = "batch" /\ cur'.row = StartRow(idx) /\ cur'.bytes = ActualRows(idx)
    BY <2>1 DEF MemTyped
  <2>3. ~failed => Arrived
    BY <2>1 DEF EpochInv, InBatch
  <2>4. idx' - 1 = idx /\ idx' >= 1
    BY <1>1, <2>1
  <2>5. ~failed => Underway'
    BY <1>1, <1>2, <2>1, <2>2, <2>3, <2>4 DEF Underway, Arrived
  <2>6. NumBatches \in Nat
    BY <1>1, BatchFacts
  <2>7. idx' <= NumBatches'
    BY <1>1, <1>2, <2>1, <2>6
  <2>8. InBatch'
    BY <2>1, <2>2 DEF InBatch
  <2>9. QED
    BY <2>1, <2>2, <2>5, <2>7, <2>8 DEF EpochInv
<1>4. CASE Malloc
  <2>1. pc = "malloc" /\ idx' = idx /\ delivered' = delivered
    BY <1>4 DEF Malloc
  <2>2. CASE pc' = "idle" /\ failed' = TRUE
    BY <1>1, <1>2, <2>1, <2>2 DEF EpochInv
  <2>3. CASE \E a \in Addr : cur' = [cur EXCEPT !.ptr = a] /\ pc' = "record" /\ failed' = failed
    <3>1. cur'.kind = cur.kind /\ cur'.row = cur.row /\ cur'.bytes = cur.bytes
      BY <2>3 DEF MemTyped
    <3>2. InBatch' = InBatch /\ pc' = "record" /\ failed' = failed
      BY <2>1, <2>3, <3>1 DEF InBatch
    <3>3. (Underway => Underway') /\ (Arrived => Arrived')
      BY <1>1, <1>2, <2>1, <3>1, <3>2 DEF Underway, Arrived
    <3>4. QED
      BY <1>1, <1>2, <2>1, <3>2, <3>3 DEF EpochInv
  <2>4. QED
    BY <1>4, <2>2, <2>3 DEF Malloc, Throws
<1>5. CASE record_allocation
  <2>1. pc = "record" /\ UNCHANGED <<idx, cur, delivered, failed>>
        /\ pc' = IF cur.kind = "raw" THEN "idle" ELSE "pread"
    BY <1>5 DEF record_allocation
  <2>2. InBatch' = InBatch
    BY <1>1, <2>1 DEF InBatch
  <2>3. (Underway => Underway') /\ (Arrived => Arrived')
    BY <1>1, <1>2, <2>1 DEF Underway, Arrived
  <2>4. QED
    BY <1>1, <1>2, <2>1, <2>2, <2>3 DEF EpochInv
<1>6. CASE Pread
  <2>1. pc = "pread" /\ UNCHANGED <<idx, cur, delivered>>
    BY <1>6 DEF Pread
  <2>2. CASE pc' = "unwind" /\ failed' = TRUE
    BY <1>1, <1>2, <2>1, <2>2 DEF EpochInv
  <2>3. CASE cur.row + cur.bytes <= cfg.fileRows /\ pc' = "policy" /\ failed' = failed
    <3>1. InBatch /\ InBatch' /\ cur.kind = "batch"
      BY <2>1, <2>3 DEF InBatch, EpochInv
    <3>2. Underway => Underway'
      BY <1>1, <1>2, <2>1, <2>3 DEF Underway
    <3>3. QED
      BY <1>1, <1>2, <2>1, <2>3, <3>1, <3>2 DEF EpochInv
  <2>4. QED
    BY <1>6, <2>2, <2>3 DEF Pread, Throws
<1>7. CASE Policy
  <2>1. pc = "policy" /\ UNCHANGED <<idx, cur>>
    BY <1>7 DEF Policy
  <2>2. CASE pc' = "unwind" /\ failed' = TRUE
    BY <1>1, <1>2, <2>1, <2>2 DEF EpochInv
  <2>3. CASE /\ delivered' = delivered \o [i \in 1..cur.bytes |-> cur.row + i - 1]
             /\ pc' = "idle" /\ failed' = failed
    <3>1. InBatch /\ ~InBatch'
      BY <2>1, <2>3 DEF InBatch, EpochInv
    <3>2. ASSUME ~failed PROVE Arrived'
      <4>1. Underway
        BY <3>1, <3>2 DEF EpochInv
      <4> DEFINE k == idx - 1
      <4>2. k \in Nat /\ k + 1 = idx /\ k < NumBatches /\ NumBatches \in Nat
        BY <1>1, <4>1, BatchFacts DEF Underway, EpochInv
      <4>3. /\ StartRow(k) \in Nat /\ ActualRows(k) \in Nat /\ RowsBefore(k) = StartRow(k)
            /\ StartRow(k) + ActualRows(k) = RowsBefore(idx)
        BY <1>1, <4>2, BatchFacts
      <4>4. delivered' = Upto(StartRow(k)) \o [i \in 1..ActualRows(k) |-> StartRow(k) + i - 1]
        BY <2>3, <4>1, <4>3 DEF Underway
      <4>5. delivered' = Upto(RowsBefore(idx))
        BY <4>3, <4>4, UptoAppend
      <4>6. RowsBefore(idx) <= cfg.fileRows
        BY <2>1, <4>1, <4>3 DEF Underway
      <4>7. QED
        BY <1>1, <1>2, <2>1, <4>5, <4>6 DEF Arrived
    <3>3. QED
      BY <1>1, <1>2, <2>1, <2>3, <3>1, <3>2 DEF EpochInv
  <2>4. QED
    BY <1>7, <2>2, <2>3 DEF Policy, Throws
<1>8. QED
  BY <1>3, <1>4, <1>5, <1>6, <1>7

LEMMA ExtensionEpoch ==
    ASSUME OwnInv, EpochInv, phase' = phase, phase \in {"uvm", "other"}, Next
    PROVE  EpochInv'
<1>1. MemTyped
  BY DEF OwnInv
<1>2. CASE GetItem \/ Malloc \/ record_allocation \/ Pread \/ Policy
  BY <1>1, <1>2, BatchEpoch
<1>3. ASSUME NEW t \in Thread, CudaFree(t) \/ record_free(t) \/ Subtract(t) PROVE EpochInv'
  BY <1>3, FreesKeepEpoch
<1>4. CASE reset_stats
  <2>1. UNCHANGED <<cfg, idx, cur, delivered, failed, pc>>
    BY <1>4 DEF reset_stats
  <2>2. QED
    BY <2>1, EpochKept
<1>5. ASSUME NEW x \in tensors, NEW t \in Thread, Drop(t, x) PROVE EpochInv'
  <2>1. UNCHANGED <<cfg, idx, cur, delivered, failed>> /\ (pc' = pc \/ (pc = "idle" /\ pc' = "freeing"))
    BY <1>5 DEF Drop, Idle
  <2>2. QED
    BY <2>1, EpochKept
<1>6. ASSUME NEW a \in raws, FreeManaged(a) PROVE EpochInv'
  <2>1. UNCHANGED <<cfg, idx, cur, delivered, failed>> /\ pc = "idle" /\ pc' = "freeing"
    BY <1>6 DEF FreeManaged, Idle
  <2>2. QED
    BY <2>1, EpochKept
<1>7. CASE Restart
  <2>1. pc = "idle" /\ pc' = "idle" /\ idx' = 0 /\ delivered' = <<>> /\ cfg' = cfg
    BY <1>7 DEF Restart, Idle
  <2>2. \A i : NumBatches' = NumBatches /\ RowsBefore(i)' = RowsBefore(i)
    BY <2>1, SameBatches
  <2>3. RowsBefore(0) = 0 /\ NumBatches \in Nat /\ cfg.fileRows \in Nat
    BY <1>1, BatchFacts DEF MemTyped, Program
  <2>4. Upto(0) = <<>>
    BY DEF Upto
  <2>5. Arrived' /\ ~InBatch'
    BY <2>1, <2>2, <2>3, <2>4 DEF Arrived, InBatch
  <2>6. QED
    BY <2>1, <2>2, <2>3, <2>5 DEF EpochInv
<1>8. ASSUME NEW n, AllocateRaw(n) PROVE EpochInv'
  <2>1. /\ pc = "idle" /\ pc' = "malloc" /\ UNCHANGED <<cfg, idx, delivered, failed>>
        /\ cur' = [cur EXCEPT !.kind = "raw", !.bytes = n]
    BY <1>8 DEF AllocateRaw, Idle
  <2>2. cur'.kind = "raw"
    BY <1>1, <2>1 DEF MemTyped
  <2>3. ~InBatch /\ ~InBatch'
    BY <2>1, <2>2 DEF InBatch
  <2>4. \A i : NumBatches' = NumBatches /\ RowsBefore(i)' = RowsBefore(i)
    BY <2>1, SameBatches
  <2>5. Arrived => Arrived'
    BY <2>1, <2>4 DEF Arrived
  <2>6. QED
    BY <2>1, <2>2, <2>3, <2>4, <2>5 DEF EpochInv
<1>9. \A t \in Deleter : t \in Thread
  BY DEF Thread
<1>10. Main \in Thread
  BY DEF Thread
<1>11. QED
  BY <1>2, <1>3, <1>4, <1>5, <1>6, <1>7, <1>8, <1>9, <1>10 DEF Next

LEMMA BenchEpoch ==
    ASSUME OwnInv, EpochInv, [BenchNext]_<<vars, benchVars>>
    PROVE  EpochInv'
<1>1. cfg \in Program /\ idx \in Nat
  BY DEF OwnInv, MemTyped
<1>2. /\ NumBatches \in Nat /\ RowsBefore(0) = 0
      /\ RowsBefore(idx) \in Nat /\ RowsBefore(idx) <= cfg.rows
      /\ cfg.fileRows \in Nat
  BY <1>1, BatchFacts DEF Program
<1>3. CASE phase = "uvm" /\ phase' = phase /\ UvmCall
  <2>1. Next
    <3>1. Main \in Thread
      BY DEF Thread
    <3>2. QED
      BY <1>3, <3>1 DEF UvmCall, Next
  <2>2. QED
    BY <1>3, <2>1, ExtensionEpoch
<1>4. CASE phase = "other" /\ phase' = phase /\ Next
  BY <1>4, ExtensionEpoch
<1>5. CASE ensure_binary_file
  <2>1. /\ cfg' = [cfg EXCEPT !.fileRows = cfg.rows] /\ phase = "file" /\ phase' = "baseline"
        /\ UNCHANGED <<pc, cur, idx, delivered, failed>>
    BY <1>5 DEF ensure_binary_file
  <2>2. cfg'.rows = cfg.rows /\ cfg'.batchRows = cfg.batchRows /\ cfg'.fileRows = cfg.rows
    BY <1>1, <2>1 DEF Program
  <2>3. \A i : NumBatches' = NumBatches /\ RowsBefore(i)' = RowsBefore(i)
    BY <2>2, SameBatches
  <2>4. pc = "idle" /\ ~InBatch /\ ~InBatch'
    BY <2>1 DEF EpochInv, InBatch
  <2>5. Arrived => Arrived'
    BY <1>2, <2>1, <2>2, <2>3 DEF Arrived
  <2>6. QED
    BY <2>1, <2>3, <2>4, <2>5 DEF EpochInv
<1>6. CASE StartUvm
  <2>1. /\ cfg' = [cfg EXCEPT !.policy = UvmPolicy] /\ phase = "start" /\ phase' = "uvm"
        /\ UNCHANGED <<pc, cur, failed>> /\ idx' = 0 /\ delivered' = <<>>
    BY <1>6 DEF StartUvm, Fresh
  <2>2. cfg'.rows = cfg.rows /\ cfg'.batchRows = cfg.batchRows /\ cfg'.fileRows = cfg.fileRows
    BY <1>1, <2>1 DEF Program
  <2>3. \A i : NumBatches' = NumBatches /\ RowsBefore(i)' = RowsBefore(i)
    BY <2>2, SameBatches
  <2>4. pc = "idle" /\ ~InBatch'
    BY <2>1 DEF EpochInv, InBatch
  <2>5. Upto(0) = <<>>
    BY DEF Upto
  <2>6. Arrived'
    BY <1>2, <2>1, <2>2, <2>3, <2>5 DEF Arrived
  <2>7. QED
    BY <1>2, <2>1, <2>3, <2>4, <2>6 DEF EpochInv
<1>7. CASE /\ UNCHANGED <<cfg, pc, cur, idx, delivered>> /\ (failed' = failed \/ failed')
           /\ phase' \notin {"uvm", "other"} => phase \notin {"uvm", "other"} \/ pc = "idle"
  <2>1. \A i : /\ NumBatches' = NumBatches /\ StartRow(i)' = StartRow(i)
               /\ ActualRows(i)' = ActualRows(i) /\ RowsBefore(i)' = RowsBefore(i)
    BY <1>7, SameBatches
  <2>2. InBatch' = InBatch /\ (Underway => Underway') /\ (Arrived => Arrived')
    BY <1>7, <2>1 DEF InBatch, Underway, Arrived
  <2>3. CASE failed' = failed
    BY <1>7, <2>1, <2>2, <2>3 DEF EpochInv
  <2>4. CASE failed'
    BY <1>7, <2>1, <2>4 DEF EpochInv
  <2>5. QED
    BY <1>7, <2>3, <2>4
<1>8. CASE BaselineBatch \/ EndBaseline \/ TouchBatch \/ EndUvm \/ Stop \/ BenchDone
  <2>1. UNCHANGED vars /\ (phase' = phase \/ phase \in {"baseline", "start"} \/ pc = "idle")
    BY <1>8 DEF BaselineBatch, EndBaseline, TouchBatch, EndUvm, Stop, BenchDone, benchVars, Idle
  <2>2. QED
    BY <1>7, <2>1 DEF vars
<1>9. CASE TouchFails
  BY <1>7, <1>9 DEF TouchFails, Throws, benchVars
<1>10. CASE UNCHANGED <<vars, benchVars>>
  BY <1>7, <1>10 DEF vars, benchVars
<1>11. QED
  <2>1. UvmCall => phase = "uvm" /\ phase' = phase
    BY DEF UvmCall, benchVars
  <2>2. UNCHANGED benchVars => phase' = phase
    BY DEF benchVars
  <2>3. QED
    BY <1>3, <1>4, <1>5, <1>6, <1>8, <1>9, <1>10, <2>1, <2>2 DEF BenchNext, run_all

LEMMA InitEpoch == BenchInit => EpochInv
<1> SUFFICES ASSUME BenchInit PROVE EpochInv
  OBVIOUS
<1>1. cfg \in Program /\ idx = 0 /\ pc = "idle" /\ delivered = <<>>
  BY InitOwned DEF BenchInit, Init, OwnInv, MemTyped
<1>2. RowsBefore(0) = 0 /\ NumBatches \in Nat /\ cfg.fileRows \in Nat
  BY <1>1, BatchFacts DEF Program
<1>3. Upto(0) = <<>>
  BY DEF Upto
<1>4. ~InBatch /\ Arrived
  BY <1>1, <1>2, <1>3 DEF InBatch, Arrived
<1>5. QED
  BY <1>1, <1>2, <1>4 DEF EpochInv

LEMMA AlwaysEpoch == BenchSpec => [](OwnInv /\ EpochInv)
<1>1. BenchInit => OwnInv /\ EpochInv
  BY InitOwned, InitEpoch
<1>2. OwnInv /\ EpochInv /\ [BenchNext]_<<vars, benchVars>> => (OwnInv /\ EpochInv)'
  BY BenchOwned, BenchEpoch
<1>3. QED
  BY <1>1, <1>2, PTL DEF BenchSpec

\* For any number of rows, batch size and file: an epoch of MemTierFileDataset in which no
\* call throws delivers every row once and in order, whatever other threads free meanwhile,
\* and only from a file that has all the rows.
THEOREM UvmEpochDelivers == BenchSpec => []EpochDelivers
<1>1. OwnInv /\ EpochInv => EpochDelivers
  <2> SUFFICES ASSUME OwnInv, EpochInv, Idle, idx = NumBatches, ~failed
               PROVE  delivered = [i \in 1..cfg.rows |-> i - 1] /\ cfg.rows <= cfg.fileRows
    BY DEF EpochDelivers
  <2>1. Arrived
    BY DEF EpochInv, InBatch, Idle
  <2>2. RowsBefore(idx) = cfg.rows
    BY BatchFacts DEF OwnInv, MemTyped
  <2>3. QED
    BY <2>1, <2>2 DEF Arrived, Upto
<1>2. QED
  BY <1>1, AlwaysEpoch, PTL
-----------------------------------------------------------------------------
(* What the benchmark's paths have read.                                   *)

\* run_uvm has counted all its batches, or holds or makes the one to be counted next.
LoopInv ==
    /\ num_batches \in Nat /\ total_bytes = RowsBefore(num_batches)
    /\ \/ num_batches = idx /\ pc \in {"idle", "freeing"}
       \/ num_batches + 1 = idx /\ pc # "idle" /\ InBatch /\ tensors = {}
       \/ /\ num_batches + 1 = idx /\ pc = "idle"
          /\ tensors # {} /\ \A x \in tensors : x.bytes = ActualRows(num_batches)

PathInv ==
    /\ \E S : results \in Seq(S)
    /\ \A i \in DOMAIN results : results[i].total_bytes = cfg.rows /\ results[i].num_batches = NumBatches
    /\ phase = "file" => num_batches = 0 /\ total_bytes = 0
    /\ phase = "baseline" =>
           num_batches \in Nat /\ num_batches <= NumBatches /\ total_bytes = RowsBefore(num_batches)
    /\ phase = "uvm" /\ ~failed => LoopInv

LEMMA BaselineItemSize ==
    ASSUME cfg \in Program, NEW i \in Nat, i < NumBatches
    PROVE  Cardinality(BaselineItem(i)) = ActualRows(i)
<1> DEFINE s == StartRow(i)
           n == ActualRows(i)
<1>1. s \in Nat /\ n \in Nat \ {0} /\ s + n = RowsBefore(i + 1)
  BY BatchFacts
<1>2. cfg.rows \in Nat /\ cfg.batchRows \in Nat
  BY DEF Program
<1>3. StartRow(i + 1) = s + cfg.batchRows
  <2>1. (i + 1) * cfg.batchRows = i * cfg.batchRows + cfg.batchRows
    BY <1>2, TimesMonotone, i < i + 1
  <2>2. QED
    BY <2>1 DEF StartRow
<1>4. s + n = IF s + cfg.batchRows < cfg.rows THEN s + cfg.batchRows ELSE cfg.rows
  BY <1>1, <1>3 DEF RowsBefore
<1>5. BaselineItem(i) = {r \in 0..(cfg.rows - 1) : s <= r /\ r < s + cfg.batchRows}
  BY <1>3 DEF BaselineItem, StartRow
<1> HIDE DEF s, n
<1>6. BaselineItem(i) = s..(s + n - 1)
  BY <1>1, <1>2, <1>4, <1>5
<1> DEFINE e == s + n - 1
<1>7. e \in Int /\ s \in Int /\ ~(s > e) /\ e - s + 1 = n
  BY <1>1
<1> HIDE DEF e
<1>8. Cardinality(s..e) = IF s > e THEN 0 ELSE e - s + 1
  BY <1>7, FS_Interval, Zenon
<1>9. QED
  BY <1>6, <1>7, <1>8 DEF n, e

LEMMA ResultAdded ==
    ASSUME \E S : results \in Seq(S), NEW name, NEW bytes, results' = _result(name, bytes),
           NEW r, NEW k, \A i \in DOMAIN results : results[i].total_bytes = r /\ results[i].num_batches = k,
           total_bytes = r, num_batches = k
    PROVE  /\ \E S : results' \in Seq(S)
           /\ \A i \in DOMAIN results' : results'[i].total_bytes = r /\ results'[i].num_batches = k
<1> DEFINE e == [name |-> name, num_batches |-> num_batches, total_bytes |-> total_bytes,
                 allocated_bytes |-> bytes, lost |-> lost]
<1>1. results' = Append(results, e) /\ e.total_bytes = r /\ e.num_batches = k
  BY DEF _result
<1> HIDE DEF e
<1>2. PICK S : results \in Seq(S)
  OBVIOUS
<1>3. results \in Seq(S \cup {e}) /\ e \in S \cup {e}
  BY <1>2
<1>4. results' \in Seq(S \cup {e})
  BY <1>1, <1>3
<1>5. ASSUME NEW i \in DOMAIN results'
      PROVE  results'[i].total_bytes = r /\ results'[i].num_batches = k
  <2>1. Len(results) \in Nat /\ i \in 1..(Len(results) + 1) /\ DOMAIN results = 1..Len(results)
    BY <1>1, <1>3
  <2>2. CASE i = Len(results) + 1
    <3>1. results'[i] = e
      BY <1>1, <1>3, <2>1, <2>2
    <3>2. QED
      BY <1>1, <3>1
  <2>3. CASE i # Len(results) + 1
    <3>1. i \in DOMAIN results /\ results'[i] = results[i]
      BY <1>1, <1>3, <2>1, <2>3
    <3>2. QED
      BY <3>1
  <2>4. QED
    BY <2>2, <2>3
<1>6. QED
  BY <1>4, <1>5

\* The extension at work for run_uvm's loop.
LEMMA LoopCalls ==
    ASSUME OwnInv, EpochInv, PathInv, UvmCall, ~failed'
    PROVE  LoopInv'
<1>1. /\ phase = "uvm" /\ cfg' = cfg /\ cfg \in Program /\ idx \in Nat
      /\ UNCHANGED <<num_batches, total_bytes>>
  BY DEF OwnInv, MemTyped, UvmCall, benchVars, GetItem, Malloc, record_allocation, Pread, Policy, Drop,
         CudaFree, record_free, Subtract
<1>2. /\ RowsBefore(num_batches)' = RowsBefore(num_batches)
      /\ ActualRows(num_batches)' = ActualRows(num_batches)
  BY <1>1, SameBatches
<1>3. failed => failed'
  BY DEF UvmCall, GetItem, Malloc, record_allocation, Pread, Policy, Drop, CudaFree, record_free,
         Subtract, Throws
<1>4. ~failed /\ LoopInv /\ num_batches \in Nat
  BY <1>1, <1>3 DEF PathInv, LoopInv
<1>5. num_batches' \in Nat /\ (total_bytes = RowsBefore(num_batches))'
  BY <1>1, <1>2, <1>4 DEF LoopInv
<1>6. CASE num_batches = idx /\ tensors = {} /\ GetItem
  <2>1. pc' = "malloc" /\ idx' = idx + 1 /\ tensors' = {} /\ cur'.kind = "batch"
    BY <1>6 DEF GetItem, OwnInv, MemTyped
  <2>2. InBatch'
    BY <2>1 DEF InBatch
  <2>3. QED
    BY <1>1, <1>5, <1>6, <2>1, <2>2 DEF LoopInv
<1>7. CASE Malloc \/ record_allocation \/ Pread \/ Policy
  <2>1. pc \in {"malloc", "record", "pread", "policy"}
    BY <1>7 DEF Malloc, record_allocation, Pread, Policy
  <2>2. num_batches + 1 = idx /\ InBatch /\ tensors = {}
    BY <1>4, <2>1 DEF LoopInv
  <2>3. idx' = idx
    BY <1>7 DEF Malloc, record_allocation, Pread, Policy
  <2>4. CASE Malloc
    <3>1. pc' = "record" /\ cur'.kind = cur.kind /\ tensors' = tensors
      BY <2>4 DEF Malloc, Throws, OwnInv, MemTyped
    <3>2. QED
      BY <1>1, <1>5, <2>2, <2>3, <3>1 DEF LoopInv, InBatch
  <2>5. CASE record_allocation
    <3>1. pc' = "pread" /\ cur' = cur /\ tensors' = tensors
      BY <2>2, <2>5 DEF record_allocation, InBatch
    <3>2. QED
      BY <1>1, <1>5, <2>2, <2>3, <3>1 DEF LoopInv, InBatch
  <2>6. CASE Pread
    <3>1. pc' = "policy" /\ cur' = cur /\ tensors' = tensors
      BY <2>6 DEF Pread, Throws
    <3>2. QED
      BY <1>1, <1>5, <2>2, <2>3, <3>1 DEF LoopInv, InBatch
  <2>7. CASE Policy
    <3>1. pc' = "idle" /\ tensors' = {[addr |-> cur.ptr, row |-> cur.row, bytes |-> cur.bytes]}
      BY <2>2, <2>7 DEF Policy, Throws
    <3>2. cur.bytes = ActualRows(num_batches)
      <4>1. Underway /\ idx - 1 = num_batches
        BY <1>4, <2>2 DEF EpochInv
      <4>2. QED
        BY <4>1 DEF Underway
    <3>3. tensors' # {} /\ \A x \in tensors' : x.bytes = ActualRows(num_batches)'
      BY <1>2, <3>1, <3>2
    <3>4. QED
      BY <1>1, <1>5, <2>2, <2>3, <3>1, <3>3 DEF LoopInv
  <2>8. QED
    BY <1>7, <2>4, <2>5, <2>6, <2>7
<1>8. ASSUME NEW x \in tensors, Drop(Main, x), ~Uncounted PROVE LoopInv'
  <2>1. pc = "idle" /\ pc' = "freeing" /\ idx' = idx
    BY <1>8 DEF Drop, Idle
  <2>2. num_batches = idx
    BY <1>1, <1>4, <1>8 DEF LoopInv, Uncounted
  <2>3. QED
    BY <1>1, <1>5, <2>1, <2>2 DEF LoopInv
<1>9. CASE CudaFree(Main) \/ record_free(Main) \/ Subtract(Main)
  <2>1. freeing[Main] # None /\ idx' = idx /\ (pc' = pc \/ pc' = "idle")
    BY <1>9 DEF CudaFree, record_free, Subtract, None, AfterFree
  <2>2. pc = "freeing"
    BY <1>4, <2>1 DEF OwnInv, MainFrees, EpochInv
  <2>3. num_batches = idx
    BY <1>4, <2>2 DEF LoopInv, InBatch
  <2>4. QED
    BY <1>1, <1>5, <2>1, <2>2, <2>3 DEF LoopInv
<1>10. QED
  BY <1>6, <1>7, <1>8, <1>9 DEF UvmCall

LEMMA BenchPaths ==
    ASSUME OwnInv, EpochInv, PathInv, [BenchNext]_<<vars, benchVars>>
    PROVE  PathInv'
<1>1. cfg \in Program /\ idx \in Nat /\ NumBatches \in Nat /\ RowsBefore(NumBatches) = cfg.rows
  BY BatchFacts DEF OwnInv, MemTyped
<1>2. RowsBefore(0) = 0 /\ cfg.rows \in Nat
  BY <1>1, BatchFacts DEF Program
<1>3. CASE UvmCall
  <2>1. UNCHANGED benchVars /\ phase = "uvm" /\ cfg' = cfg
    BY <1>3 DEF UvmCall, GetItem, Malloc, record_allocation, Pread, Policy, Drop, CudaFree, record_free,
                Subtract
  <2>2. NumBatches' = NumBatches
    BY <2>1, SameBatches
  <2>3. ~failed' => LoopInv'
    BY <1>3, LoopCalls
  <2>4. QED
    BY <2>1, <2>2, <2>3 DEF PathInv, benchVars
<1>4. CASE phase = "other" /\ Next /\ UNCHANGED benchVars
  <2>1. cfg' = cfg
    BY <1>4 DEF Next, GetItem, Restart, Malloc, record_allocation, Pread, Policy, reset_stats, AllocateRaw,
           FreeManaged, Drop, CudaFree, record_free, Subtract
  <2>2. NumBatches' = NumBatches
    BY <2>1, SameBatches
  <2>3. QED
    BY <1>4, <2>1, <2>2 DEF PathInv, benchVars
<1>5. CASE ensure_binary_file
  <2>1. /\ cfg' = [cfg EXCEPT !.fileRows = cfg.rows] /\ phase = "file" /\ phase' = "baseline"
        /\ UNCHANGED <<num_batches, total_bytes, results>>
    BY <1>5 DEF ensure_binary_file
  <2>2. cfg'.rows = cfg.rows /\ cfg'.batchRows = cfg.batchRows
    BY <1>1, <2>1 DEF Program
  <2>3. NumBatches' = NumBatches /\ RowsBefore(0)' = 0
    BY <1>2, <2>2, SameBatches
  <2>4. num_batches' = 0 /\ total_bytes' = 0
    BY <2>1 DEF PathInv
  <2>5. (total_bytes = RowsBefore(num_batches))'
    BY <2>3, <2>4
  <2>6. QED
    BY <1>1, <2>1, <2>2, <2>3, <2>4, <2>5 DEF PathInv
<1>6. CASE BaselineBatch
  <2>1. /\ phase = "baseline" /\ UNCHANGED <<cfg, phase, results>> /\ num_batches < BaselineLen
        /\ total_bytes' = total_bytes + Cardinality(BaselineItem(num_batches))
        /\ num_batches' = num_batches + 1
    BY <1>6 DEF BaselineBatch, vars
  <2>2. num_batches \in Nat /\ num_batches < NumBatches /\ total_bytes = RowsBefore(num_batches)
    BY <2>1 DEF PathInv, BaselineLen, NumBatches
  <2>3. /\ StartRow(num_batches) \in Nat /\ ActualRows(num_batches) \in Nat
        /\ RowsBefore(num_batches) = StartRow(num_batches)
        /\ StartRow(num_batches) + ActualRows(num_batches) = RowsBefore(num_batches + 1)
    BY <1>1, <2>2, BatchFacts
  <2>4. Cardinality(BaselineItem(num_batches)) = ActualRows(num_batches)
    BY <1>1, <2>2, BaselineItemSize
  <2>5. total_bytes' = RowsBefore(num_batches + 1)
    BY <2>1, <2>2, <2>3, <2>4
  <2>6. (total_bytes = RowsBefore(num_batches))' /\ NumBatches' = NumBatches
    BY <2>1, <2>5 DEF RowsBefore, StartRow, NumBatches
  <2>7. num_batches' \in Nat /\ num_batches' <= NumBatches'
    BY <1>1, <2>1, <2>2, <2>6
  <2>8. QED
    BY <2>1, <2>6, <2>7 DEF PathInv
<1>7. CASE EndBaseline
  <2>1. /\ phase = "baseline" /\ phase' = "start" /\ cfg' = cfg
        /\ num_batches = NumBatches /\ results' = _result("baseline", 0)
    BY <1>7 DEF EndBaseline, vars, BaselineLen, NumBatches
  <2>2. total_bytes = cfg.rows
    BY <1>1, <2>1 DEF PathInv
  <2>3. /\ \E S : results' \in Seq(S)
        /\ \A i \in DOMAIN results' : results'[i].total_bytes = cfg.rows /\ results'[i].num_batches = NumBatches
    BY <2>1, <2>2, ResultAdded DEF PathInv
  <2>4. NumBatches' = NumBatches
    BY <2>1, SameBatches
  <2>5. QED
    BY <2>1, <2>3, <2>4 DEF PathInv
<1>8. CASE StartUvm
  <2>1. /\ cfg' = [cfg EXCEPT !.policy = UvmPolicy] /\ phase = "start" /\ phase' = "uvm"
        /\ UNCHANGED <<pc, failed, results>> /\ idx' = 0 /\ num_batches' = 0 /\ total_bytes' = 0
    BY <1>8 DEF StartUvm, Fresh
  <2>2. cfg'.rows = cfg.rows /\ cfg'.batchRows = cfg.batchRows
    BY <1>1, <2>1 DEF Program
  <2>3. NumBatches' = NumBatches /\ RowsBefore(0)' = 0
    BY <1>2, <2>2, SameBatches
  <2>4. pc' = "idle"
    BY <2>1 DEF EpochInv
  <2>5. (total_bytes = RowsBefore(num_batches))'
    BY <2>1, <2>3
  <2>6. LoopInv'
    BY <2>1, <2>4, <2>5 DEF LoopInv
  <2>7. QED
    BY <2>1, <2>2, <2>3, <2>6 DEF PathInv
<1>9. CASE TouchBatch
  <2>1. /\ phase = "uvm" /\ pc = "idle" /\ num_batches < idx /\ ~failed /\ UNCHANGED <<vars, phase, results>>
        /\ num_batches' = num_batches + 1
    BY <1>9 DEF TouchBatch, Idle, Uncounted
  <2>2. PICK x \in tensors : total_bytes' = total_bytes + x.bytes
    BY <1>9 DEF TouchBatch
  <2>3. LoopInv /\ num_batches \in Nat /\ num_batches + 1 = idx
    BY <1>1, <2>1 DEF PathInv, LoopInv
  <2>4. x.bytes = ActualRows(num_batches) /\ total_bytes = RowsBefore(num_batches)
    BY <2>1, <2>3 DEF LoopInv
  <2>5. num_batches < NumBatches
    BY <1>1, <2>3 DEF EpochInv
  <2>6. /\ StartRow(num_batches) \in Nat /\ ActualRows(num_batches) \in Nat
        /\ RowsBefore(num_batches) = StartRow(num_batches)
        /\ StartRow(num_batches) + ActualRows(num_batches) = RowsBefore(num_batches + 1)
    BY <1>1, <2>3, <2>5, BatchFacts
  <2>7. total_bytes' = RowsBefore(num_batches + 1)
    BY <2>2, <2>4, <2>6
  <2>8. (total_bytes = RowsBefore(num_batches))' /\ NumBatches' = NumBatches
    BY <2>1, <2>7 DEF vars, RowsBefore, StartRow, NumBatches
  <2>9. num_batches' \in Nat /\ num_batches' = idx' /\ pc' = "idle" /\ cfg' = cfg
    BY <2>1, <2>3 DEF vars
  <2>10. LoopInv'
    BY <2>8, <2>9 DEF LoopInv
  <2>11. QED
    BY <2>1, <2>8, <2>9, <2>10 DEF PathInv
<1>10. CASE TouchFails
  <2>1. UNCHANGED <<cfg, benchVars>> /\ phase = "uvm" /\ failed'
    BY <1>10 DEF TouchFails, Throws
  <2>2. NumBatches' = NumBatches
    BY <2>1, SameBatches
  <2>3. QED
    BY <2>1, <2>2 DEF PathInv, benchVars
<1>11. CASE EndUvm
  <2>1. /\ phase = "uvm" /\ ~failed /\ num_batches = idx /\ idx = NumBatches /\ cfg' = cfg
        /\ results' = _result(UvmPolicy, allocated) /\ phase' \in {"start", "done"}
    BY <1>11 DEF EndUvm, vars
  <2>2. total_bytes = cfg.rows /\ num_batches = NumBatches
    BY <1>1, <2>1 DEF PathInv, LoopInv
  <2>3. /\ \E S : results' \in Seq(S)
        /\ \A i \in DOMAIN results' : results'[i].total_bytes = cfg.rows /\ results'[i].num_batches = NumBatches
    BY <2>1, <2>2, ResultAdded DEF PathInv
  <2>4. NumBatches' = NumBatches
    BY <2>1, SameBatches
  <2>5. QED
    BY <2>1, <2>3, <2>4 DEF PathInv
<1>12. CASE UNCHANGED vars /\ UNCHANGED <<num_batches, total_bytes, results>> /\ phase' \in {phase, "done"}
  <2>1. UNCHANGED <<cfg, idx, pc, cur, tensors, failed>>
    BY <1>12 DEF vars
  <2>2. NumBatches' = NumBatches
    BY <2>1, SameBatches
  <2>3. LoopInv' = LoopInv /\ RowsBefore(num_batches)' = RowsBefore(num_batches)
    BY <1>12, <2>1 DEF LoopInv, InBatch, RowsBefore, StartRow, ActualRows
  <2>4. QED
    BY <1>12, <2>1, <2>2, <2>3 DEF PathInv
<1>13. CASE Stop \/ BenchDone \/ UNCHANGED <<vars, benchVars>>
  BY <1>12, <1>13 DEF Stop, BenchDone, benchVars
<1>14. QED
  BY <1>3, <1>4, <1>5, <1>6, <1>7, <1>8, <1>9, <1>10, <1>11, <1>13 DEF BenchNext, run_all

LEMMA InitPaths == BenchInit => PathInv
<1> SUFFICES ASSUME BenchInit PROVE PathInv
  OBVIOUS
<1>1. results = <<>> /\ phase \in {"file", "other"} /\ num_batches = 0 /\ total_bytes = 0
  BY DEF BenchInit
<1>2. results \in Seq({}) /\ DOMAIN results = {}
  BY <1>1
<1>3. QED
  BY <1>1, <1>2 DEF PathInv

\* Whichever path of run_all has come to its end, it has read every row of the file in
\* ceil(rows / batch_rows) batches: NumPy and managed memory, with and without prefetching,
\* are compared on the same work, for any file and batch size.
THEOREM UvmPathsAgree == BenchSpec => []PathsAgree
<1>1. BenchInit => OwnInv /\ EpochInv /\ PathInv
  BY InitOwned, InitEpoch, InitPaths
<1>2. OwnInv /\ EpochInv /\ PathInv /\ [BenchNext]_<<vars, benchVars>> => (OwnInv /\ EpochInv /\ PathInv)'
  BY BenchOwned, BenchEpoch, BenchPaths
<1>3. PathInv => PathsAgree
  <2> SUFFICES ASSUME PathInv, NEW i \in DOMAIN results
               PROVE  results[i].total_bytes = cfg.rows /\ results[i].num_batches = results[1].num_batches
    BY DEF PathsAgree
  <2>1. PICK S : results \in Seq(S)
    BY DEF PathInv
  <2>2. 1 \in DOMAIN results
    BY <2>1
  <2>3. QED
    BY <2>2 DEF PathInv
<1>4. QED
  BY <1>1, <1>2, <1>3, PTL DEF BenchSpec
-----------------------------------------------------------------------------
(* Sums.                                                                   *)

\* A nonempty set of naturals has a least element.
LEMMA LeastNat ==
    ASSUME NEW T, T \subseteq Nat, T # {}
    PROVE  \E m \in T : \A k \in T : m <= k
<1> DEFINE R == OpToRel(<, Nat)
<1>1. PICK m \in T : \A k \in T : ~ (<<k, m>> \in R)
  BY NatLessThanWellFounded, WFMin
<1>2. \A k, n \in Nat : k < n => <<k, n>> \in R
  BY DEF OpToRel
<1>3. ASSUME NEW k \in T PROVE m <= k
  <2>1. ~(k < m)
    BY <1>1, <1>2
  <2>2. QED
    BY <2>1
<1>4. QED
  BY <1>3

\* Among subsets of a finite set there is one that has no other of them inside.
LEMMA SmallestSubset ==
    ASSUME NEW S, IsFiniteSet(S), NEW B, B \subseteq SUBSET S, B # {}
    PROVE  \E s \in B : \A t \in SUBSET s : t # s => t \notin B
<1> DEFINE T == {Cardinality(t) : t \in B}
<1>1. \A t \in B : IsFiniteSet(t) /\ Cardinality(t) \in Nat
  BY FS_Subset, FS_CardinalityType
<1>2. PICK s \in B : \A k \in T : Cardinality(s) <= k
  <2>1. T \subseteq Nat /\ T # {}
    BY <1>1
  <2>2. PICK m \in T : \A k \in T : m <= k
    BY <2>1, LeastNat
  <2>3. QED
    BY <2>2
<1>3. ASSUME NEW t \in SUBSET s, t # s, t \in B PROVE FALSE
  <2>1. Cardinality(t) < Cardinality(s)
    BY <1>1, <1>3, FS_Subset
  <2>2. Cardinality(s) <= Cardinality(t)
    BY <1>2, <1>3
  <2>3. QED
    BY <2>1, <2>2, <1>1, <1>3
<1>4. QED
  BY <1>3

\* The element that a fold over s takes first.
First(s) == CHOOSE x \in s : TRUE

LEMMA FirstIsIn == \A s : s # {} => First(s) \in s
  BY DEF First

\* F has the sums of f over all subsets of S.
Sums(f, S, F) ==
    /\ F \in [SUBSET S -> Int]
    /\ \A s \in SUBSET S : F[s] = IF s = {} THEN 0 ELSE f[First(s)] + F[s \ {First(s)}]

\* The sum over a set depends only on the values on that set.
LEMMA SumsAgree ==
    ASSUME NEW S, NEW T, NEW f, NEW g, NEW F, NEW G, Sums(f, S, F), Sums(g, T, G),
           NEW r, r \subseteq S, r \subseteq T, IsFiniteSet(r), \A x \in r : f[x] = g[x]
    PROVE  F[r] = G[r]
<1> DEFINE B == {s \in SUBSET r : F[s] # G[s]}
<1> SUFFICES ASSUME B # {} PROVE FALSE
  OBVIOUS
<1>1. PICK s \in B : \A t \in SUBSET s : t # s => t \notin B
  <2>1. B \subseteq SUBSET r
    OBVIOUS
  <2> HIDE DEF B
  <2>2. QED
    BY <2>1, SmallestSubset
<1>2. s \in SUBSET S /\ s \in SUBSET T
  OBVIOUS
<1>3. CASE s = {}
  BY <1>1, <1>2, <1>3 DEF Sums
<1>4. CASE s # {}
  <2>1. First(s) \in s
    BY <1>4, FirstIsIn
  <2>2. F[s \ {First(s)}] = G[s \ {First(s)}] /\ f[First(s)] = g[First(s)]
    BY <1>1, <2>1
  <2>3. F[s] = f[First(s)] + F[s \ {First(s)}] /\ G[s] = g[First(s)] + G[s \ {First(s)}]
    BY <1>2, <1>4 DEF Sums
  <2>4. QED
    BY <1>1, <2>2, <2>3
<1>5. QED
  BY <1>3, <1>4

\* A sum is the same whichever element is taken first.
LEMMA SumsTake ==
    ASSUME NEW S, IsFiniteSet(S), NEW f, NEW F, Sums(f, S, F), \A x \in S : f[x] \in Int,
           NEW r \in SUBSET S, NEW a \in r
    PROVE  F[r] = f[a] + F[r \ {a}]
<1> DEFINE B == {s \in SUBSET S : \E x \in s : F[s] # f[x] + F[s \ {x}]}
<1> SUFFICES ASSUME B # {} PROVE FALSE
  OBVIOUS
<1>1. PICK s \in B : \A t \in SUBSET s : t # s => t \notin B
  <2>1. B \subseteq SUBSET S
    OBVIOUS
  <2> HIDE DEF B
  <2>2. QED
    BY <2>1, SmallestSubset
<1>2. PICK x \in s : F[s] # f[x] + F[s \ {x}]
  OBVIOUS
<1> DEFINE p == First(s)
<1>3. p \in s /\ s \in SUBSET S /\ F[s] = f[p] + F[s \ {p}]
  BY <1>2, FirstIsIn DEF Sums
<1> HIDE DEF p
<1>4. x # p
  BY <1>2, <1>3
<1> DEFINE u == s \ {p}
           v == s \ {x}
           w == s \ {p, x}
<1>5. u \in SUBSET S /\ u \notin B /\ x \in u /\ u \ {x} = w
  BY <1>1, <1>3, <1>4
<1>6. v \in SUBSET S /\ v \notin B /\ p \in v /\ v \ {p} = w
  BY <1>1, <1>3, <1>4
<1>7. F[u] = f[x] + F[w]
  BY <1>5
<1>8. F[v] = f[p] + F[w]
  BY <1>6
<1>9. f[x] \in Int /\ f[p] \in Int /\ F[w] \in Int
  BY <1>3 DEF Sums
<1> HIDE DEF u, v, w
<1>10. QED
  BY <1>2, <1>3, <1>7, <1>8, <1>9 DEF u, v

\* The sums over the subsets of a finite set exist.
LEMMA SumsExist ==
    ASSUME NEW S, IsFiniteSet(S), NEW f, \A x \in S : f[x] \in Int
    PROVE  \E F : Sums(f, S, F)
<1> DEFINE B == {s \in SUBSET S : ~ \E F : Sums(f, s, F)}
<1> SUFFICES ASSUME B # {} PROVE FALSE
  OBVIOUS
<1>1. PICK s \in B : \A t \in SUBSET s : t # s => t \notin B
  <2>1. B \subseteq SUBSET S
    OBVIOUS
  <2> HIDE DEF B
  <2>2. QED
    BY <2>1, SmallestSubset
<1> DEFINE Of(t) == CHOOSE F : Sums(f, t, F)
           V(t) == Of(t)[t]
           h == [t \in SUBSET s |-> IF t = {} THEN 0
                                    ELSE f[First(t)] + V(t \ {First(t)})]
<1>2. ASSUME NEW t \in SUBSET s, t # s PROVE Sums(f, t, Of(t))
  BY <1>1, <1>2
<1> HIDE DEF Of
<1>3. ASSUME NEW t \in SUBSET s, t # {}
      PROVE  V(t \ {First(t)}) = h[t \ {First(t)}] /\ V(t \ {First(t)}) \in Int /\ f[First(t)] \in Int
  <2> DEFINE u == t \ {First(t)}
  <2>1. First(t) \in t /\ u \in SUBSET s /\ u # s
    BY <1>3, FirstIsIn
  <2>2. Sums(f, u, Of(u))
    BY <1>2, <2>1
  <2>3. V(u) = IF u = {} THEN 0 ELSE f[First(u)] + Of(u)[u \ {First(u)}]
    BY <2>2 DEF Sums
  <2>4. u # {} => Of(u)[u \ {First(u)}] = V(u \ {First(u)})
    <3> DEFINE r == u \ {First(u)}
    <3> SUFFICES ASSUME u # {} PROVE Of(u)[r] = Of(r)[r]
      OBVIOUS
    <3>1. First(u) \in u /\ r \in SUBSET s /\ r # s /\ r \subseteq u
      BY <2>1, FirstIsIn
    <3>2. Sums(f, r, Of(r))
      BY <1>2, <3>1
    <3>3. IsFiniteSet(r)
      BY <3>1, FS_Subset
    <3> HIDE DEF r, u
    <3>4. QED
      BY <3>1, <3>2, <3>3, <2>2, SumsAgree
  <2>5. h[u] = IF u = {} THEN 0 ELSE f[First(u)] + V(u \ {First(u)})
    BY <2>1
  <2>6. V(u) \in Int
    BY <2>2 DEF Sums
  <2>7. f[First(t)] \in Int
    BY <2>1
  <2> HIDE DEF u, V, h
  <2>8. QED
    BY <2>3, <2>4, <2>5, <2>6, <2>7 DEF u
<1>4. h \in [SUBSET s -> Int]
  <2>1. ASSUME NEW t \in SUBSET s PROVE (IF t = {} THEN 0 ELSE f[First(t)] + V(t \ {First(t)})) \in Int
    <3>1. t # {} => V(t \ {First(t)}) \in Int /\ f[First(t)] \in Int
      BY <1>3
    <3> HIDE DEF V, h
    <3>2. QED
      BY <3>1
  <2> HIDE DEF V
  <2>2. QED
    BY <2>1
<1>5. \A t \in SUBSET s : h[t] = IF t = {} THEN 0 ELSE f[First(t)] + h[t \ {First(t)}]
  BY <1>3
<1> HIDE DEF h
<1>6. Sums(f, s, h)
  BY <1>4, <1>5 DEF Sums
<1>7. QED
  BY <1>6, <1>1

\* The library's sum is one of them.
LEMMA SumIsOfSums ==
    ASSUME NEW S, IsFiniteSet(S), NEW f, \A x \in S : f[x] \in Int
    PROVE  \E F : Sums(f, S, F) /\ SumFunctionOnSet(f, S) = F[S]
<1> DEFINE F == CHOOSE F : F = [s \in SUBSET S |->
                    IF s = {} THEN 0 ELSE f[CHOOSE x \in s : TRUE] + F[s \ {CHOOSE x \in s : TRUE}]]
<1>1. PICK G : Sums(f, S, G)
  BY SumsExist
<1>2. G = [s \in SUBSET S |->
              IF s = {} THEN 0 ELSE f[CHOOSE x \in s : TRUE] + G[s \ {CHOOSE x \in s : TRUE}]]
  BY <1>1 DEF Sums, First
<1>3. F = [s \in SUBSET S |->
              IF s = {} THEN 0 ELSE f[CHOOSE x \in s : TRUE] + F[s \ {CHOOSE x \in s : TRUE}]]
  BY <1>2
<1>4. SumFunctionOnSet(f, S) = F[S]
  BY DEF SumFunctionOnSet, FoldFunctionOnSet, MapThenFoldSet
<1> HIDE DEF F
<1>5. \A s \in SUBSET S : F[s] = IF s = {} THEN 0 ELSE f[First(s)] + F[s \ {First(s)}]
  BY <1>3 DEF First
<1>6. \A s \in SUBSET S : F[s] \in Int
  <2> DEFINE B == {s \in SUBSET S : F[s] \notin Int}
  <2> SUFFICES ASSUME B # {} PROVE FALSE
    OBVIOUS
  <2>1. PICK s \in B : \A t \in SUBSET s : t # s => t \notin B
    <3>1. B \subseteq SUBSET S
      OBVIOUS
    <3> HIDE DEF B
    <3>2. QED
      BY <3>1, SmallestSubset
  <2>2. s \in SUBSET S /\ F[s] \notin Int /\ F[s] = IF s = {} THEN 0 ELSE f[First(s)] + F[s \ {First(s)}]
    <3>1. s \in SUBSET S /\ F[s] \notin Int
      OBVIOUS
    <3>2. QED
      BY <3>1, <1>5
  <2>3. s # {} /\ First(s) \in s
    BY <2>2, FirstIsIn
  <2>4. F[s \ {First(s)}] \in Int /\ f[First(s)] \in Int
    BY <2>1, <2>2, <2>3
  <2>5. QED
    BY <2>2, <2>3, <2>4
<1>7. Sums(f, S, F)
  BY <1>3, <1>5, <1>6 DEF Sums
<1>8. QED
  BY <1>4, <1>7

\* What the library's SumFunctionOnSet returns: 0 over the empty set, an integer over a finite one,
\* a sum that depends only on the values there, and that gives up one element at a time.
LEMMA SumOfNone ==
    ASSUME NEW f
    PROVE  SumFunctionOnSet(f, {}) = 0
<1>1. PICK F : Sums(f, {}, F) /\ SumFunctionOnSet(f, {}) = F[{}]
  BY SumIsOfSums, FS_EmptySet
<1>2. {} \in SUBSET {}
  OBVIOUS
<1>3. QED
  BY <1>1, <1>2 DEF Sums

LEMMA SumInt ==
    ASSUME NEW S, IsFiniteSet(S), NEW f, \A x \in S : f[x] \in Int
    PROVE  SumFunctionOnSet(f, S) \in Int
<1>1. PICK F : Sums(f, S, F) /\ SumFunctionOnSet(f, S) = F[S]
  BY SumIsOfSums
<1>2. S \in SUBSET S
  OBVIOUS
<1>3. QED
  BY <1>1, <1>2 DEF Sums

LEMMA SumSame ==
    ASSUME NEW S, IsFiniteSet(S), NEW f, NEW g, \A x \in S : f[x] \in Int /\ f[x] = g[x]
    PROVE  SumFunctionOnSet(f, S) = SumFunctionOnSet(g, S)
<1>1. PICK F : Sums(f, S, F) /\ SumFunctionOnSet(f, S) = F[S]
  BY SumIsOfSums
<1>2. PICK G : Sums(g, S, G) /\ SumFunctionOnSet(g, S) = G[S]
  BY SumIsOfSums
<1>3. QED
  BY <1>1, <1>2, SumsAgree

LEMMA SumTake ==
    ASSUME NEW S, IsFiniteSet(S), NEW f, \A x \in S : f[x] \in Int, NEW a \in S
    PROVE  SumFunctionOnSet(f, S) = f[a] + SumFunctionOnSet(f, S \ {a})
<1> DEFINE T == S \ {a}
<1>1. PICK F : Sums(f, S, F) /\ SumFunctionOnSet(f, S) = F[S]
  BY SumIsOfSums
<1>2. IsFiniteSet(T) /\ T \subseteq S
  BY FS_Subset
<1>3. PICK G : Sums(f, T, G) /\ SumFunctionOnSet(f, T) = G[T]
  BY <1>2, SumIsOfSums
<1>4. F[T] = G[T]
  BY <1>1, <1>2, <1>3, SumsAgree
<1>5. F[S] = f[a] + F[T]
  <2>1. S \in SUBSET S
    OBVIOUS
  <2>2. QED
    BY <1>1, <2>1, SumsTake
<1>6. QED
  BY <1>1, <1>3, <1>4, <1>5
-----------------------------------------------------------------------------
(* What allocated_bytes counts.                                            *)

\* The programs of which AccountingExact speaks: tensors that other threads drop are
\* all of one size, and free_managed does not meet their deleters.
OneSizeUnlocked == \A c \in Config : c.unlocked => c.raw = {} /\ c.rows % c.batchRows = 0

Suited == cfg.unlocked => cfg.raw = {} /\ cfg.rows % cfg.batchRows = 0

\* The allocations that are recorded, and the frees that have yet to subtract.
Known == {a \in DOMAIN live : ~(pc = "record" /\ a = cur.ptr)}
Pending == {t \in Thread : freeing[t].step \in {"record", "subtract"}}
PendingSize == [t \in Pending |-> freeing[t].size]

\* What a call, a tensor and a thread take for an allocation's size is its size.
Matched ==
    /\ \A t \in Freeing : freeing[t].size = live[freeing[t].addr]
    /\ InCall # {} => live[cur.ptr] = cur.bytes
    /\ \A x \in tensors : live[x.addr] = x.bytes

Taken == \A t \in Thread : freeing[t].step = "subtract" => freeing[t].bytes = freeing[t].size

\* Under the GIL every allocation has its record, until Main erases it.
Recorded ==
    /\ \A t \in Thread : t # Main => freeing[t] = None
    /\ \A a \in Known : a \in DOMAIN sizes /\ sizes[a] = live[a]
    /\ freeing[Main].step = "record" =>
           /\ freeing[Main].addr \in DOMAIN sizes /\ sizes[freeing[Main].addr] = freeing[Main].size
           /\ freeing[Main].addr \notin DOMAIN live

\* With other threads a record may be missing or another owner's, of the same size.
OneSize ==
    /\ raws = {}
    /\ pc \in {"malloc", "record", "pread", "policy"} => cur.bytes = cfg.batchRows /\ cur.kind = "batch"
    /\ \A a \in DOMAIN live : live[a] = cfg.batchRows
    /\ \A a \in DOMAIN sizes : sizes[a] = cfg.batchRows
    /\ \A t \in Thread : freeing[t] # None => freeing[t].size = cfg.batchRows /\ freeing[t].bytes = cfg.batchRows

RecordsInv == Suited /\ Matched /\ Taken /\ (~cfg.unlocked => Recorded) /\ (cfg.unlocked => OneSize)

CountInv == IsFiniteSet(Pending) /\ base \in Int /\ AccountingExact

\* Remainders.
LEMMA Modulo ==
    ASSUME NEW x \in Int, NEW y \in Int
    PROVE  /\ x % SizeT \in Int /\ ((x % SizeT) + y) % SizeT = (x + y) % SizeT
           /\ 0 % SizeT = 0
<1> DEFINE m == SizeT
<1>1. m \in Nat \ {0}
  BY ConfigAssumption
<1>2. \A z \in Int : z \div m \in Int /\ z % m \in 0..(m - 1) /\ z = m * (z \div m) + (z % m)
  BY <1>1, SMTT(30)
<1>3. 0 % m = 0
  BY <1>1, SMTT(30)
<1> DEFINE r == x % m
           q == x \div m
           s == r + y
           t == x + y
           a == s \div m
           b == s % m
           c == t \div m
           d == t % m
<1>4. r \in Int /\ q \in Int /\ x = m * q + r
  BY <1>2
<1>5. a \in Int /\ b \in 0..(m - 1) /\ s = m * a + b /\ s \in Int
  BY <1>2, <1>4
<1>6. c \in Int /\ d \in 0..(m - 1) /\ t = m * c + d /\ t \in Int
  BY <1>2
<1>7. t = s + m * q
  BY <1>1, <1>4
<1> HIDE DEF m, r, q, s, t, a, b, c, d
<1> DEFINE k == c - a - q
<1>8. m * k = m * c - m * a - m * q /\ m * k \in Int /\ k \in Int
  BY <1>1, <1>4, <1>5, <1>6, SMTT(30)
<1>9. m * c \in Int /\ m * a \in Int /\ m * q \in Int
  BY <1>1, <1>4, <1>5, <1>6, SMTT(30)
<1>10. m * k = b - d
  BY <1>5, <1>6, <1>7, <1>8, <1>9, <1>1
<1> HIDE DEF k
<1>11. k >= 1 => m * k >= m
  BY <1>1, <1>8, SMTT(30)
<1>12. k <= -1 => m * k <= -m
  BY <1>1, <1>8, SMTT(30)
<1>13. k = 0 => m * k = 0
  BY <1>1
<1>14. b = d
  BY <1>1, <1>5, <1>6, <1>8, <1>10, <1>11, <1>12, <1>13
<1>15. QED
  BY <1>3, <1>4, <1>14 DEF b, d, s, t, r, m

\* Only finitely much is allocated, for every allocation has an owner.
LEMMA LiveFinite ==
    ASSUME OwnInv
    PROVE  IsFiniteSet(DOMAIN live) /\ IsFiniteSet(Known) /\ \A a \in Known : live[a] \in Int
<1>1. IsFiniteSet(TensorAddrs)
  <2> DEFINE f == [x \in tensors |-> x.addr]
  <2>1. f = [x \in tensors |-> f[x]] /\ \A x, y \in tensors : f[x] = f[y] => x = y
    BY DEF OwnInv, Apart
  <2>2. TensorAddrs = {f[x] : x \in tensors}
    BY DEF TensorAddrs
  <2> HIDE DEF f
  <2>3. QED
    BY <2>1, <2>2, ImageCardinality DEF OwnInv, OwnersFinite
<1>2. IsFiniteSet(FreeAddrs)
  <2> DEFINE f == [t \in Freeing |-> freeing[t].addr]
  <2>1. f = [x \in Freeing |-> f[x]] /\ \A x, y \in Freeing : f[x] = f[y] => x = y
    BY DEF OwnInv, Apart
  <2>2. FreeAddrs = {f[x] : x \in Freeing}
    BY DEF FreeAddrs
  <2> HIDE DEF f
  <2>3. QED
    BY <2>1, <2>2, ImageCardinality DEF OwnInv, OwnersFinite
<1>3. IsFiniteSet(InCall)
  BY FS_EmptySet, FS_Singleton DEF InCall
<1>4. IsFiniteSet(DOMAIN live)
  BY <1>1, <1>2, <1>3, FS_Union DEF OwnInv, OwnersFinite, AllOwned
<1>5. Known \subseteq DOMAIN live
  BY DEF Known
<1>6. QED
  BY <1>4, <1>5, FS_Subset DEF OwnInv, MemTyped

LEMMA PendingTyped ==
    ASSUME OwnInv
    PROVE  \A t \in Pending : PendingSize[t] = freeing[t].size /\ PendingSize[t] \in Int
<1> SUFFICES ASSUME NEW t \in Pending PROVE PendingSize[t] = freeing[t].size /\ PendingSize[t] \in Int
  OBVIOUS
<1>1. freeing[t] \in FreeRecord \cup {None} /\ freeing[t] # None
  BY DEF OwnInv, MemTyped, Pending, None
<1>2. QED
  BY <1>1 DEF FreeRecord, PendingSize

\* Counted in the words of these lemmas.
LEMMA CountedIs == Counted = SumFunctionOnSet(live, Known) + SumFunctionOnSet(PendingSize, Pending)
<1>1. DOMAIN PendingSize = Pending
  BY DEF PendingSize
<1>2. QED
  BY <1>1 DEF Counted, SumFunction, Known, Pending, PendingSize

LEMMA CountedInt ==
    ASSUME OwnInv, IsFiniteSet(Pending)
    PROVE  /\ Counted \in Int
           /\ SumFunctionOnSet(live, Known) \in Int /\ SumFunctionOnSet(PendingSize, Pending) \in Int
  BY LiveFinite, PendingTyped, CountedIs, SumInt
\* The state functions on which the count depends, for use in this state and in the next.
CountFacts ==
    /\ Counted \in Int /\ Counted = SumFunctionOnSet(live, Known) + SumFunctionOnSet(PendingSize, Pending)
    /\ SumFunctionOnSet(live, Known) \in Int /\ SumFunctionOnSet(PendingSize, Pending) \in Int
    /\ \A t \in Pending : PendingSize[t] = freeing[t].size /\ PendingSize[t] \in Int
    /\ IsFiniteSet(Known) /\ \A a \in Known : live[a] \in Int

LEMMA CountFactsHold == OwnInv /\ IsFiniteSet(Pending) => CountFacts
  BY CountedInt, CountedIs, PendingTyped, LiveFinite DEF CountFacts

LEMMA CountFactsNext == (OwnInv /\ IsFiniteSet(Pending))' => CountFacts'
  BY CountFactsHold, PTL

\* The allocations known are the same.
LEMMA KnownKept ==
    ASSUME OwnInv, Known' = Known, \A a \in Known : live'[a] = live[a]
    PROVE  SumFunctionOnSet(live', Known') = SumFunctionOnSet(live, Known)
  BY LiveFinite, SumSame

\* Nothing is subtracted yet, or ceases to be pending.
LEMMA PendingKept ==
    ASSUME OwnInv, IsFiniteSet(Pending), Pending' = Pending, \A t \in Pending : freeing'[t].size = freeing[t].size
    PROVE  PendingSize' = PendingSize
           /\ SumFunctionOnSet(PendingSize', Pending') = SumFunctionOnSet(PendingSize, Pending)
<1>1. PendingSize' = PendingSize
  BY DEF PendingSize
<1>2. QED
  BY <1>1

\* A step that neither records nor subtracts.
LEMMA CountKept ==
    ASSUME OwnInv, OwnInv', CountInv,
           Known' = Known, \A a \in Known : live'[a] = live[a],
           Pending' = Pending, \A t \in Pending : freeing'[t].size = freeing[t].size,
           allocated' = allocated, base' = base
    PROVE  CountInv'
<1>1. IsFiniteSet(Pending) /\ IsFiniteSet(Pending)' /\ Counted' = Counted
  BY KnownKept, PendingKept, CountFactsHold, CountFactsNext DEF CountInv, CountFacts
<1>2. QED
  BY <1>1 DEF CountInv, AccountingExact

\* A thread becomes pending, or ceases to be, with its size.
LEMMA PendingJoins ==
    ASSUME OwnInv, OwnInv', IsFiniteSet(Pending), NEW t \in Thread, t \notin Pending, Pending' = Pending \cup {t},
           \A u \in Pending : freeing'[u] = freeing[u]
    PROVE  /\ IsFiniteSet(Pending')
           /\ SumFunctionOnSet(PendingSize', Pending') = freeing'[t].size + SumFunctionOnSet(PendingSize, Pending)
<1>1. IsFiniteSet(Pending') /\ Pending' \ {t} = Pending /\ t \in Pending'
  BY FS_AddElement
<1>2. \A u \in Pending' : PendingSize'[u] = freeing'[u].size /\ PendingSize'[u] \in Int
  BY <1>1, CountFactsNext DEF CountFacts
<1>3. SumFunctionOnSet(PendingSize', Pending') = PendingSize'[t] + SumFunctionOnSet(PendingSize', Pending' \ {t})
  BY <1>1, <1>2, SumTake
<1>4. SumFunctionOnSet(PendingSize', Pending) = SumFunctionOnSet(PendingSize, Pending)
  <2>1. \A u \in Pending : PendingSize[u] = freeing[u].size /\ PendingSize[u] \in Int
    BY PendingTyped
  <2>2. \A u \in Pending : PendingSize[u] \in Int /\ PendingSize[u] = PendingSize'[u]
    BY <2>1, <1>2
  <2>3. QED
    BY <2>2, SumSame
<1>5. QED
  BY <1>1, <1>2, <1>3, <1>4

LEMMA PendingLeaves ==
    ASSUME OwnInv, IsFiniteSet(Pending), NEW t \in Pending, Pending' = Pending \ {t},
           \A u \in Pending \ {t} : freeing'[u] = freeing[u]
    PROVE  /\ IsFiniteSet(Pending') /\ freeing[t].size \in Int
           /\ SumFunctionOnSet(PendingSize, Pending) = freeing[t].size + SumFunctionOnSet(PendingSize', Pending')
<1>1. \A u \in Pending : PendingSize[u] = freeing[u].size /\ PendingSize[u] \in Int
  BY PendingTyped
<1>2. IsFiniteSet(Pending')
  BY FS_Subset
<1>3. \A u \in Pending' : PendingSize[u] \in Int /\ PendingSize[u] = PendingSize'[u]
  BY <1>1 DEF PendingSize
<1>4. SumFunctionOnSet(PendingSize, Pending') = SumFunctionOnSet(PendingSize', Pending')
  BY <1>2, <1>3, SumSame
<1>5. SumFunctionOnSet(PendingSize, Pending) = PendingSize[t] + SumFunctionOnSet(PendingSize, Pending \ {t})
  BY <1>1, SumTake
<1>6. QED
  BY <1>1, <1>2, <1>4, <1>5
\* What Suited and OneSize read of the program does not change.
SameProgram ==
    /\ cfg'.unlocked = cfg.unlocked /\ cfg'.raw = cfg.raw
    /\ cfg'.rows = cfg.rows /\ cfg'.batchRows = cfg.batchRows

\* The addresses that the owners hold are allocated.
LEMMA OwnersLive ==
    ASSUME OwnInv
    PROVE  /\ \A t \in Freeing : freeing[t].addr \in DOMAIN live
           /\ InCall # {} => cur.ptr \in DOMAIN live
           /\ \A x \in tensors : x.addr \in DOMAIN live
           /\ raws \subseteq DOMAIN live
<1>1. /\ \A t \in Freeing : freeing[t].addr \in FreeAddrs
      /\ InCall # {} => cur.ptr \in InCall
      /\ \A x \in tensors : x.addr \in TensorAddrs
  BY DEF FreeAddrs, InCall, TensorAddrs
<1>2. QED
  BY <1>1 DEF OwnInv, AllOwned

\* A step that allocates, records and frees nothing.
LEMMA QuietRecords ==
    ASSUME OwnInv, OwnInv', RecordsInv, SameProgram, UNCHANGED <<live, sizes, freeing>>, Known' = Known, raws' = raws,
           InCall' # {} => InCall # {} /\ cur' = cur,
           \A x \in tensors' : x \in tensors \/ (InCall # {} /\ x.addr = cur.ptr /\ x.bytes = cur.bytes),
           cfg.unlocked /\ pc' \in {"malloc", "record", "pread", "policy"} =>
               cur'.bytes = cfg.batchRows /\ cur'.kind = "batch"
    PROVE  RecordsInv'
<1>1. Suited'
  BY DEF RecordsInv, Suited, SameProgram
<1>2. Matched'
  <2>1. Freeing' = Freeing
    BY DEF Freeing
  <2>2. QED
    BY <2>1 DEF RecordsInv, Matched
<1>3. Taken'
  BY DEF RecordsInv, Taken
<1>4. ASSUME ~cfg.unlocked PROVE Recorded'
  BY <1>4 DEF RecordsInv, Recorded
<1>5. ASSUME cfg.unlocked PROVE OneSize'
  BY <1>5 DEF RecordsInv, OneSize, SameProgram
<1>6. QED
  BY <1>1, <1>2, <1>3, <1>4, <1>5 DEF RecordsInv, SameProgram

\* Batches of a program that other threads serve are all full.
LEMMA FullBatches ==
    ASSUME cfg \in Program, cfg.rows % cfg.batchRows = 0, NEW i \in Nat, i < NumBatches
    PROVE  ActualRows(i) = cfg.batchRows
<1> DEFINE r == cfg.rows
           b == cfg.batchRows
           q == NumBatches
           k == r \div b
           m == (r + b - 1) % b
<1>1. r \in Nat \ {0} /\ b \in Nat \ {0}
  BY DEF Program
<1>2. r + b - 1 \in Nat
  BY <1>1
<1>3. q \in Nat /\ m \in 0..(b - 1) /\ q * b = (r + b - 1) - m
  BY <1>1, <1>2, Division DEF NumBatches
<1>4. k \in Nat /\ k * b = r
  <2>1. k \in Nat /\ r % b \in 0..(b - 1) /\ k * b = r - (r % b)
    BY <1>1, Division
  <2>2. QED
    BY <2>1, <1>1
<1>5. StartRow(i) = i * b /\ ActualRows(i) = IF r - i * b < b THEN r - i * b ELSE b
  BY DEF StartRow, ActualRows
<1> HIDE DEF r, b, q, k, m
<1>6. i < k
  <2> SUFFICES ASSUME k <= i PROVE FALSE
    BY <1>4
  <2>1. i < q
    BY DEF q
  <2>2. k < q
    BY <2>1, <1>3, <1>4
  <2>3. k * b + b <= q * b
    BY <2>2, <1>1, <1>3, <1>4, TimesMonotone
  <2>4. QED
    BY <2>3, <1>1, <1>3, <1>4
<1>7. i * b \in Nat /\ i * b + b <= k * b
  BY <1>1, <1>4, <1>6, TimesMonotone
<1>8. QED
  BY <1>1, <1>4, <1>5, <1>7 DEF b

\* The program begins a call, or the epoch again.
LEMMA RunsCounted ==
    ASSUME OwnInv, OwnInv', RecordsInv, CountInv, GetItem \/ Restart \/ \E n \in cfg.raw : AllocateRaw(n)
    PROVE  RecordsInv' /\ CountInv'
<1>1. /\ pc = "idle" /\ pc' \in {"idle", "malloc"} /\ SameProgram
      /\ UNCHANGED <<live, sizes, freeing, raws, tensors, allocated, base>>
  BY DEF GetItem, Restart, AllocateRaw, Idle, acctVars, SameProgram
<1>2. Known' = Known /\ InCall' = {} /\ Pending' = Pending
  BY <1>1 DEF Known, InCall, Pending
<1>3. cfg.unlocked /\ pc' = "malloc" => cur'.bytes = cfg.batchRows /\ cur'.kind = "batch"
  <2> SUFFICES ASSUME cfg.unlocked, pc' = "malloc" PROVE cur'.bytes = cfg.batchRows /\ cur'.kind = "batch"
    OBVIOUS
  <2>1. cfg.raw = {} /\ cfg.rows % cfg.batchRows = 0 /\ cfg \in Program /\ idx \in Nat
    BY DEF RecordsInv, Suited, OwnInv, MemTyped
  <2>2. GetItem
    BY <1>1, <2>1 DEF Restart
  <2>3. ActualRows(idx) = cfg.batchRows
    BY <2>1, <2>2, FullBatches DEF GetItem
  <2>4. QED
    BY <2>2, <2>3 DEF GetItem, OwnInv, MemTyped
<1>4. RecordsInv'
  BY <1>1, <1>2, <1>3, QuietRecords
<1>5. CountInv'
  BY <1>1, <1>2, CountKept
<1>6. QED
  BY <1>4, <1>5

\* reset_stats.
LEMMA ResetCounted ==
    ASSUME OwnInv, OwnInv', RecordsInv, CountInv, SameProgram, UNCHANGED memVars, allocated' = 0, base' = Counted
    PROVE  RecordsInv' /\ CountInv'
<1>1. Known' = Known /\ InCall' = InCall /\ Pending' = Pending /\ Counted' = Counted
  BY DEF Known, InCall, Pending, Counted, memVars
<1>2. RecordsInv'
  BY <1>1, QuietRecords DEF memVars, RecordsInv, OneSize
<1>3. Counted \in Int
  BY CountFactsHold DEF CountInv, CountFacts
<1>4. (Counted - Counted) % SizeT = 0
  BY <1>3, Modulo
<1>5. QED
  BY <1>1, <1>2, <1>3, <1>4 DEF CountInv, AccountingExact

\* The new allocation is not recorded yet.
LEMMA MallocCounted ==
    ASSUME OwnInv, OwnInv', RecordsInv, CountInv, Malloc
    PROVE  RecordsInv' /\ CountInv'
<1>1. /\ pc = "malloc" /\ freeing[Main] = None /\ SameProgram /\ MemTyped /\ Main \in Thread
      /\ UNCHANGED <<sizes, freeing, raws, tensors, allocated, base>>
  BY DEF Malloc, acctVars, SameProgram, OwnInv, MainFrees, Thread
<1>2. Known = DOMAIN live /\ Pending' = Pending
  BY <1>1 DEF Known, Pending
<1>3. ASSUME NEW a \in Addr \ DOMAIN live,
             live' = [x \in DOMAIN live \cup {a} |-> IF x = a THEN cur.bytes ELSE live[x]],
             cur' = [cur EXCEPT !.ptr = a], pc' = "record"
      PROVE  RecordsInv' /\ CountInv'
  <2>1. /\ cur'.ptr = a /\ cur'.bytes = cur.bytes /\ cur'.kind = cur.kind
        /\ DOMAIN live' = DOMAIN live \cup {a} /\ live'[a] = cur.bytes /\ \A x \in DOMAIN live : live'[x] = live[x]
    BY <1>1, <1>3 DEF MemTyped
  <2>2. Known' = Known
    BY <1>2, <1>3, <2>1 DEF Known
  <2>3. CountInv'
    BY <1>1, <1>2, <2>1, <2>2, CountKept
  <2>4. Matched'
    <3>1. Freeing' = Freeing /\ InCall' # {}
      BY <1>1, <1>3 DEF Freeing, InCall
    <3>2. QED
      BY <1>1, <2>1, <3>1, OwnersLive DEF RecordsInv, Matched
  <2>5. ~cfg.unlocked => Recorded'
    BY <1>1, <1>2, <2>1, <2>2 DEF RecordsInv, Recorded, None
  <2>6. cfg.unlocked => OneSize'
    BY <1>1, <1>3, <2>1 DEF RecordsInv, OneSize, SameProgram
  <2>7. QED
    BY <1>1, <2>3, <2>4, <2>5, <2>6 DEF RecordsInv, Suited, Taken, SameProgram
<1>4. CASE pc' = "idle" /\ UNCHANGED <<live, cur>>
  <2>1. Known' = Known /\ InCall' = {}
    BY <1>1, <1>4 DEF Known, InCall
  <2>2. RecordsInv'
    BY <1>1, <1>4, <2>1, QuietRecords
  <2>3. QED
    BY <1>1, <1>2, <1>4, <2>1, <2>2, CountKept
<1>5. QED
  BY <1>3, <1>4 DEF Malloc

\* The new allocation is known from here on, and counted.
LEMMA RecordCounted ==
    ASSUME OwnInv, OwnInv', RecordsInv, CountInv, record_allocation
    PROVE  RecordsInv' /\ CountInv'
<1> DEFINE a == cur.ptr
<1>1. /\ pc = "record" /\ pc' \in {"idle", "pread"} /\ freeing[Main] = None /\ SameProgram /\ MemTyped /\ Main \in Thread
      /\ UNCHANGED <<live, freeing, tensors, base, cur>>
      /\ sizes' = [x \in DOMAIN sizes \cup {a} |-> IF x = a THEN cur.bytes ELSE sizes[x]]
      /\ allocated' = (allocated + cur.bytes) % SizeT
  BY DEF record_allocation, SameProgram, OwnInv, MainFrees, Thread
<1>2. InCall # {} /\ a \in DOMAIN live /\ live[a] = cur.bytes /\ cur.bytes \in Int
  BY <1>1, OwnersLive DEF InCall, RecordsInv, Matched, MemTyped
<1>3. Known' = DOMAIN live /\ Known = Known' \ {a} /\ a \in Known' /\ Pending' = Pending
  BY <1>1, <1>2 DEF Known, Pending
<1>4. CountInv'
  <2>1. IsFiniteSet(Pending) /\ IsFiniteSet(Pending') /\ base \in Int /\ allocated = (Counted - base) % SizeT
    BY <1>3 DEF CountInv, AccountingExact
  <2>2. CountFacts /\ CountFacts'
    BY <2>1, CountFactsHold, CountFactsNext
  <2>3. SumFunctionOnSet(live, Known') = live[a] + SumFunctionOnSet(live, Known' \ {a})
    BY <1>1, <1>3, <2>2, SumTake DEF CountFacts
  <2>4. SumFunctionOnSet(PendingSize', Pending') = SumFunctionOnSet(PendingSize, Pending)
    BY <1>1, <1>3, <2>1, PendingKept
  <2>5. Counted' = Counted + cur.bytes /\ Counted \in Int
    BY <1>1, <1>2, <1>3, <2>2, <2>3, <2>4 DEF CountFacts
  <2>6. allocated' = ((Counted - base) + cur.bytes) % SizeT
    <3>1. Counted - base \in Int
      BY <2>1, <2>5
    <3>2. QED
      BY <1>1, <1>2, <2>1, <3>1, Modulo
  <2>7. (Counted - base) + cur.bytes = Counted' - base'
    BY <1>1, <1>2, <2>1, <2>5
  <2>8. QED
    BY <1>1, <2>1, <2>6, <2>7 DEF CountInv, AccountingExact
<1>5. Matched'
  <2>1. Freeing' = Freeing
    BY <1>1 DEF Freeing
  <2>2. QED
    BY <1>1, <1>2, <2>1 DEF RecordsInv, Matched
<1>6. ~cfg.unlocked => Recorded'
  <2>1. /\ DOMAIN sizes' = DOMAIN sizes \cup {a} /\ sizes'[a] = cur.bytes
        /\ \A x \in DOMAIN sizes : x # a => sizes'[x] = sizes[x]
    BY <1>1
  <2>2. QED
    BY <1>1, <1>2, <1>3, <2>1 DEF RecordsInv, Recorded, None
<1>7. cfg.unlocked => OneSize'
  <2> SUFFICES ASSUME cfg.unlocked PROVE OneSize'
    OBVIOUS
  <2>1. cur.bytes = cfg.batchRows /\ cur.kind = "batch" /\ raws' = raws
    BY <1>1 DEF RecordsInv, OneSize, record_allocation
  <2>2. \A x \in DOMAIN sizes' : sizes'[x] = cfg.batchRows
    BY <1>1, <2>1 DEF RecordsInv, OneSize
  <2>3. QED
    BY <1>1, <2>1, <2>2 DEF RecordsInv, OneSize, SameProgram
<1>8. QED
  BY <1>1, <1>4, <1>5, <1>6, <1>7 DEF RecordsInv, Suited, Taken, SameProgram

\* A thread takes an allocation over to free it.
LEMMA FreeCounted ==
    ASSUME OwnInv, OwnInv', RecordsInv, CountInv, SameProgram, NEW t \in Thread, freeing[t] = None,
           NEW a \in DOMAIN live, NEW b \in Int, StartsFree(t, a, b), UNCHANGED <<live, sizes, allocated, base>>,
           pc # "record" \/ t # Main, pc' = "record" <=> pc = "record", cur' = cur, raws' \subseteq raws,
           tensors' \subseteq tensors, InCall' \subseteq InCall,
           pc' \in {"malloc", "record", "pread", "policy"} => pc' = pc,
           t # Main => cfg.unlocked, cfg.unlocked => b = cfg.batchRows
    PROVE  RecordsInv' /\ CountInv'
<1>1. /\ freeing'[t].addr = a /\ freeing'[t].step = "cudaFree" /\ freeing'[t] # None
      /\ \A u \in Thread : u # t => freeing'[u] = freeing[u]
      /\ t \notin Freeing /\ Freeing' = Freeing \cup {t}
  BY FreeBegins DEF OwnInv
<1>2. freeing'[t].size = live[a] /\ freeing'[t].bytes = b
  BY DEF StartsFree, OwnInv, MemTyped
<1>3. Known' = Known
  BY DEF Known
<1>4. t \notin Pending /\ Pending' = Pending
  BY <1>1 DEF Pending, None
<1>5. CountInv'
  <2>1. \A u \in Pending : freeing'[u].size = freeing[u].size
    BY <1>1, <1>4 DEF Pending
  <2>2. QED
    BY <1>3, <1>4, <2>1, CountKept
<1>6. Matched'
  <2>1. \A u \in Freeing : u # t /\ u \in Thread
    BY <1>1 DEF Freeing
  <2>2. QED
    BY <1>1, <1>2, <2>1 DEF RecordsInv, Matched
<1>7. Taken'
  BY <1>1 DEF RecordsInv, Taken
<1>8. ~cfg.unlocked => Recorded'
  BY <1>1, <1>3 DEF RecordsInv, Recorded, Thread
<1>9. cfg.unlocked => OneSize'
  BY <1>1, <1>2 DEF RecordsInv, OneSize, SameProgram
<1>10. QED
  BY <1>5, <1>6, <1>7, <1>8, <1>9 DEF RecordsInv, Suited, SameProgram

\* An exception in a call frees what the call allocated.
LEMMA ThrowCounted ==
    ASSUME OwnInv, OwnInv', RecordsInv, CountInv, pc \in {"pread", "policy"}, pc' = "unwind", FreedOnThrow,
           UNCHANGED <<cfg, live, acctVars, cur, tensors, raws>>
    PROVE  RecordsInv' /\ CountInv'
<1>1. /\ freeing[Main] = None /\ Main \in Thread /\ cur.ptr \in DOMAIN live /\ cur.bytes \in Int
      /\ InCall' = {} /\ StartsFree(Main, cur.ptr, cur.bytes)
  BY OwnersLive DEF OwnInv, MainFrees, Thread, InCall, MemTyped, FreedOnThrow
<1>2. cfg.unlocked => cur.bytes = cfg.batchRows
  BY DEF RecordsInv, OneSize
<1>3. SameProgram /\ UNCHANGED <<sizes, allocated, base>>
  BY DEF SameProgram, acctVars
<1>4. QED
  BY <1>1, <1>2, <1>3, FreeCounted

LEMMA PreadCounted ==
    ASSUME OwnInv, OwnInv', RecordsInv, CountInv, Pread
    PROVE  RecordsInv' /\ CountInv'
<1>1. pc = "pread" /\ SameProgram /\ UNCHANGED <<cfg, live, acctVars, sizes, allocated, base, cur, tensors, raws>>
  BY DEF Pread, acctVars, SameProgram
<1>2. CASE pc' = "policy" /\ freeing' = freeing
  <2>1. Known' = Known /\ InCall' = InCall /\ Pending' = Pending /\ InCall # {}
    BY <1>1, <1>2 DEF Known, InCall, Pending
  <2>2. cfg.unlocked => cur.bytes = cfg.batchRows /\ cur.kind = "batch"
    BY <1>1 DEF RecordsInv, OneSize
  <2>3. RecordsInv'
    BY <1>1, <1>2, <2>1, <2>2, QuietRecords
  <2>4. QED
    BY <1>1, <1>2, <2>1, <2>3, CountKept
<1>3. CASE pc' = "unwind" /\ FreedOnThrow
  BY <1>1, <1>3, ThrowCounted
<1>4. QED
  BY <1>2, <1>3 DEF Pread

LEMMA PolicyCounted ==
    ASSUME OwnInv, OwnInv', RecordsInv, CountInv, Policy
    PROVE  RecordsInv' /\ CountInv'
<1> DEFINE x == [addr |-> cur.ptr, row |-> cur.row, bytes |-> cur.bytes]
<1>1. pc = "policy" /\ SameProgram /\ UNCHANGED <<cfg, live, acctVars, sizes, allocated, base, cur, raws>>
  BY DEF Policy, acctVars, SameProgram
<1>2. CASE tensors' = tensors \cup {x} /\ pc' = "idle" /\ freeing' = freeing
  <2>1. Known' = Known /\ InCall' = {} /\ Pending' = Pending /\ InCall # {}
    BY <1>1, <1>2 DEF Known, InCall, Pending
  <2>2. x.addr = cur.ptr /\ x.bytes = cur.bytes
    OBVIOUS
  <2> HIDE DEF x
  <2>3. RecordsInv'
    BY <1>1, <1>2, <2>1, <2>2, QuietRecords
  <2>4. QED
    BY <1>1, <1>2, <2>1, <2>3, CountKept
<1>3. CASE pc' = "unwind" /\ FreedOnThrow /\ tensors' = tensors
  BY <1>1, <1>3, ThrowCounted
<1>4. QED
  BY <1>2, <1>3 DEF Policy

LEMMA DropCounted ==
    ASSUME OwnInv, OwnInv', RecordsInv, CountInv, NEW t \in Thread, NEW x \in tensors, Drop(t, x),
           t # Main => cfg.unlocked
    PROVE  RecordsInv' /\ CountInv'
<1>1. /\ freeing[t] = None /\ StartsFree(t, x.addr, x.bytes) /\ tensors' = tensors \ {x}
      /\ UNCHANGED <<cfg, live, sizes, allocated, base, cur, raws>> /\ SameProgram
      /\ (pc' = pc /\ t # Main) \/ (t = Main /\ pc = "idle" /\ pc' = "freeing")
  BY DEF Drop, Idle, acctVars, SameProgram
<1>2. x.addr \in DOMAIN live /\ x.bytes \in Int /\ live[x.addr] = x.bytes
  BY OwnersLive DEF OwnInv, MemTyped, RecordsInv, Matched
<1>3. cfg.unlocked => x.bytes = cfg.batchRows
  BY <1>2 DEF RecordsInv, OneSize
<1>4. InCall' = InCall
  BY <1>1 DEF InCall
<1>5. QED
  BY <1>1, <1>2, <1>3, <1>4, FreeCounted

LEMMA FreeManagedCounted ==
    ASSUME OwnInv, OwnInv', RecordsInv, CountInv, NEW a \in raws, FreeManaged(a)
    PROVE  RecordsInv' /\ CountInv'
<1>1. /\ freeing[Main] = None /\ StartsFree(Main, a, 0) /\ raws' = raws \ {a} /\ Main \in Thread
      /\ UNCHANGED <<cfg, live, sizes, allocated, base, cur, tensors>> /\ SameProgram
      /\ pc = "idle" /\ pc' = "freeing" /\ InCall' = InCall
  BY DEF FreeManaged, Idle, acctVars, SameProgram, OwnInv, MainFrees, Thread, InCall
<1>2. a \in DOMAIN live /\ ~cfg.unlocked
  BY OwnersLive DEF RecordsInv, OneSize
<1>3. QED
  BY <1>1, <1>2, FreeCounted

\* The memory is gone, and the free that will subtract it is pending.
LEMMA CudaFreeCounted ==
    ASSUME OwnInv, OwnInv', RecordsInv, CountInv, NEW t \in Thread, CudaFree(t)
    PROVE  RecordsInv' /\ CountInv'
<1> DEFINE a == freeing[t].addr
<1>1. /\ freeing[t].step = "cudaFree" /\ t \in Freeing /\ t \notin Pending /\ freeing[t] # None
      /\ UNCHANGED <<cfg, sizes, allocated, base, cur, tensors, raws>> /\ SameProgram /\ MemTyped
  BY DEF CudaFree, Freeing, Pending, acctVars, SameProgram, OwnInv, None
<1>2. freeing[t] \in FreeRecord /\ freeing[t].size \in Int
  BY <1>1 DEF MemTyped, FreeRecord
<1>3. a \in DOMAIN live /\ live[a] = freeing[t].size
  BY <1>1, OwnersLive DEF RecordsInv, Matched
<1>4. t = Main => pc \in {"unwind", "freeing"}
  BY <1>1 DEF OwnInv, MainFrees, MemTyped
<1>5. \A u \in Freeing : u # t => freeing[u].addr # a
  BY <1>1 DEF OwnInv, Apart
<1>6. a \notin InCall /\ \A x \in tensors : x.addr # a
  BY <1>1 DEF OwnInv, Apart, FreeAddrs, TensorAddrs
<1>7. a \in Known
  BY <1>3, <1>6 DEF Known, InCall
<1>8. CASE /\ live' = Restrict(live, DOMAIN live \ {a})
           /\ freeing' = [freeing EXCEPT ![t].step = "record"]
           /\ UNCHANGED pc
  <2>1. DOMAIN live' = DOMAIN live \ {a} /\ \A x \in DOMAIN live' : live'[x] = live[x]
    BY <1>8 DEF Restrict
  <2>2. /\ freeing'[t].step = "record" /\ freeing'[t].addr = a /\ freeing'[t].size = freeing[t].size
        /\ freeing'[t].bytes = freeing[t].bytes /\ \A u \in Thread : u # t => freeing'[u] = freeing[u]
    BY <1>1, <1>2, <1>8 DEF MemTyped, FreeRecord
  <2>3. Known' = Known \ {a} /\ InCall' = InCall
    BY <1>1, <1>8, <2>1 DEF Known, InCall
  <2>4. Pending' = Pending \cup {t} /\ Freeing' = Freeing \ {t}
    BY <1>1, <2>2 DEF Pending, Freeing
  <2>5. CountInv'
    <3>1. IsFiniteSet(Pending) /\ base \in Int /\ allocated = (Counted - base) % SizeT
      BY DEF CountInv, AccountingExact
    <3>2. /\ IsFiniteSet(Pending')
          /\ SumFunctionOnSet(PendingSize', Pending') = freeing[t].size + SumFunctionOnSet(PendingSize, Pending)
      <4>1. \A u \in Pending : freeing'[u] = freeing[u]
        BY <1>1, <2>2 DEF Pending
      <4>2. QED
        BY <1>1, <2>2, <2>4, <3>1, <4>1, PendingJoins
    <3>3. CountFacts /\ CountFacts'
      BY <3>1, <3>2, CountFactsHold, CountFactsNext
    <3>4. SumFunctionOnSet(live, Known) = live[a] + SumFunctionOnSet(live, Known \ {a})
      BY <1>7, <3>3, SumTake DEF CountFacts
    <3>5. SumFunctionOnSet(live', Known') = SumFunctionOnSet(live, Known')
      <4>1. IsFiniteSet(Known') /\ \A x \in Known' : live'[x] \in Int /\ live'[x] = live[x]
        <5>1. \A x \in Known' : x \in DOMAIN live'
          BY DEF Known
        <5>2. QED
          BY <5>1, <2>1, <3>3 DEF CountFacts
      <4>2. QED
        BY <4>1, SumSame
    <3>6. SumFunctionOnSet(live', Known') \in Int /\ SumFunctionOnSet(PendingSize, Pending) \in Int
      BY <3>3 DEF CountFacts
    <3>7. Counted' = Counted
      BY <1>2, <1>3, <2>3, <3>2, <3>3, <3>4, <3>5, <3>6 DEF CountFacts
    <3>8. QED
      BY <1>1, <3>1, <3>2, <3>7 DEF CountInv, AccountingExact
  <2>6. Matched'
    <3>1. \A u \in Freeing' : u \in Freeing /\ u # t /\ u \in Thread /\ freeing'[u] = freeing[u] /\ freeing[u].addr \in DOMAIN live'
      BY <1>5, <2>1, <2>2, <2>4, OwnersLive DEF Freeing
    <3>2. InCall # {} => cur.ptr \in DOMAIN live' /\ cur.ptr \in InCall
      BY <1>6, <2>1, OwnersLive DEF InCall
    <3>3. \A x \in tensors : x.addr \in DOMAIN live'
      BY <1>6, <2>1, OwnersLive
    <3>4. QED
      BY <1>1, <2>1, <2>3, <3>1, <3>2, <3>3 DEF RecordsInv, Matched
  <2>7. Taken'
    BY <1>1, <2>2 DEF RecordsInv, Taken
  <2>8. ~cfg.unlocked => Recorded'
    <3> SUFFICES ASSUME ~cfg.unlocked PROVE Recorded'
      OBVIOUS
    <3>1. Recorded /\ t = Main
      BY <1>1 DEF RecordsInv, Recorded
    <3>2. a \in DOMAIN sizes /\ sizes[a] = freeing[t].size
      BY <1>3, <1>7, <3>1 DEF Recorded
    <3>3. \A x \in Known' : x \in Known /\ live'[x] = live[x]
      BY <2>1, <2>3 DEF Known
    <3>4. QED
      BY <1>1, <2>1, <2>2, <3>1, <3>2, <3>3 DEF Recorded
  <2>9. cfg.unlocked => OneSize'
    <3> SUFFICES ASSUME cfg.unlocked PROVE OneSize'
      OBVIOUS
    <3>1. OneSize
      BY DEF RecordsInv
    <3>2. \A u \in Thread : freeing'[u] # None => freeing'[u].size = cfg.batchRows /\ freeing'[u].bytes = cfg.batchRows
      BY <1>1, <2>2, <3>1 DEF OneSize
    <3>3. QED
      BY <1>1, <1>8, <2>1, <3>1, <3>2 DEF OneSize, SameProgram
  <2>10. QED
    BY <1>1, <2>5, <2>6, <2>7, <2>8, <2>9 DEF RecordsInv, Suited, SameProgram
<1>9. CASE freeing' = [freeing EXCEPT ![t] = None] /\ AfterFree(t) /\ UNCHANGED live
  <2>1. freeing'[t] = None /\ \A u \in Thread : u # t => freeing'[u] = freeing[u]
    BY <1>1, <1>9 DEF MemTyped
  <2>2. pc' = (IF t = Main THEN "idle" ELSE pc) /\ InCall' = InCall /\ (pc' = "record" <=> pc = "record")
    BY <1>1, <1>4, <1>9 DEF AfterFree, InCall
  <2>3. Known' = Known
    BY <1>1, <1>9, <2>2 DEF Known
  <2>4. Pending' = Pending /\ Freeing' = Freeing \ {t} /\ \A u \in Pending : freeing'[u].size = freeing[u].size
    BY <1>1, <2>1 DEF Pending, Freeing, None
  <2>5. CountInv'
    BY <1>1, <1>9, <2>3, <2>4, CountKept
  <2>6. Matched'
    <3>1. \A u \in Freeing' : u \in Freeing /\ freeing'[u] = freeing[u]
      BY <2>1, <2>4 DEF Freeing
    <3>2. QED
      BY <1>1, <1>9, <2>2, <3>1 DEF RecordsInv, Matched
  <2>7. Taken' /\ (~cfg.unlocked => Recorded')
    BY <1>1, <1>9, <2>1, <2>3 DEF RecordsInv, Taken, Recorded, None
  <2>8. cfg.unlocked => OneSize'
    BY <1>1, <1>9, <2>1, <2>2 DEF RecordsInv, OneSize, SameProgram
  <2>9. QED
    BY <1>1, <2>5, <2>6, <2>7, <2>8 DEF RecordsInv, Suited, SameProgram
<1>10. QED
  BY <1>8, <1>9 DEF CudaFree

\* The record found is of the right size, whoever made it.
LEMMA RecordFreeCounted ==
    ASSUME OwnInv, OwnInv', RecordsInv, CountInv, NEW t \in Thread, record_free(t)
    PROVE  RecordsInv' /\ CountInv'
<1> DEFINE a == freeing[t].addr
<1>1. /\ freeing[t].step = "record" /\ t \in Pending /\ t \notin Freeing /\ freeing[t] # None
      /\ UNCHANGED <<cfg, live, allocated, base, pc, cur, tensors, raws>> /\ SameProgram /\ MemTyped
      /\ freeing' = [freeing EXCEPT ![t].step = "subtract", ![t].bytes = RecordedBytes(t)]
      /\ sizes' = Restrict(sizes, DOMAIN sizes \ {a})
  BY DEF record_free, Freeing, Pending, SameProgram, OwnInv, None
<1>2. freeing[t] \in FreeRecord
  BY <1>1 DEF MemTyped
<1>3. /\ freeing'[t].step = "subtract" /\ freeing'[t].size = freeing[t].size /\ freeing'[t].bytes = RecordedBytes(t)
      /\ \A u \in Thread : u # t => freeing'[u] = freeing[u]
  BY <1>1, <1>2 DEF MemTyped, FreeRecord
<1>4. DOMAIN sizes' = DOMAIN sizes \ {a} /\ \A x \in DOMAIN sizes' : sizes'[x] = sizes[x]
  BY <1>1 DEF Restrict
<1>5. RecordedBytes(t) = freeing[t].size
  <2>1. CASE ~cfg.unlocked
    <3>1. t = Main
      BY <1>1, <2>1 DEF RecordsInv, Recorded
    <3>2. QED
      BY <1>1, <2>1, <3>1 DEF RecordsInv, Recorded, RecordedBytes
  <2>2. CASE cfg.unlocked
    BY <1>1, <2>2 DEF RecordsInv, OneSize, RecordedBytes
  <2>3. QED
    BY <2>1, <2>2
<1>6. Known' = Known /\ InCall' = InCall
  BY <1>1 DEF Known, InCall
<1>7. Pending' = Pending /\ Freeing' = Freeing /\ \A u \in Pending : freeing'[u].size = freeing[u].size
  BY <1>1, <1>3 DEF Pending, Freeing
<1>8. CountInv'
  BY <1>1, <1>6, <1>7, CountKept
<1>9. Matched'
  <2>1. \A u \in Freeing : freeing'[u] = freeing[u]
    BY <1>1, <1>3 DEF Freeing
  <2>2. QED
    BY <1>1, <1>6, <1>7, <2>1 DEF RecordsInv, Matched
<1>10. Taken'
  BY <1>3, <1>5 DEF RecordsInv, Taken
<1>11. ~cfg.unlocked => Recorded'
  <2> SUFFICES ASSUME ~cfg.unlocked PROVE Recorded'
    OBVIOUS
  <2>1. Recorded /\ t = Main
    BY <1>1 DEF RecordsInv, Recorded
  <2>2. a \notin DOMAIN live
    BY <1>1, <2>1 DEF Recorded
  <2>3. \A x \in Known : x # a
    BY <2>2 DEF Known
  <2>4. QED
    BY <1>1, <1>3, <1>4, <1>6, <2>1, <2>3 DEF Recorded
<1>12. cfg.unlocked => OneSize'
  <2> SUFFICES ASSUME cfg.unlocked PROVE OneSize'
    OBVIOUS
  <2>1. OneSize
    BY DEF RecordsInv
  <2>2. \A u \in Thread : freeing'[u] # None => freeing'[u].size = cfg.batchRows /\ freeing'[u].bytes = cfg.batchRows
    BY <1>1, <1>3, <1>5, <2>1 DEF OneSize
  <2>3. QED
    BY <1>1, <1>4, <2>1, <2>2 DEF OneSize, SameProgram
<1>13. QED
  BY <1>1, <1>8, <1>9, <1>10, <1>11, <1>12 DEF RecordsInv, Suited, SameProgram

\* The free is pending no longer.
LEMMA SubtractCounted ==
    ASSUME OwnInv, OwnInv', RecordsInv, CountInv, NEW t \in Thread, Subtract(t)
    PROVE  RecordsInv' /\ CountInv'
<1> DEFINE n == freeing[t].size
<1>1. /\ freeing[t].step = "subtract" /\ t \in Pending /\ t \notin Freeing /\ freeing[t] # None
      /\ UNCHANGED <<cfg, live, sizes, base, cur, tensors, raws>> /\ SameProgram /\ MemTyped
      /\ freeing' = [freeing EXCEPT ![t] = None] /\ AfterFree(t)
      /\ allocated' = (allocated - n) % SizeT
  BY DEF Subtract, Less, Freeing, Pending, SameProgram, OwnInv, None, RecordsInv, Taken
<1>2. freeing'[t] = None /\ \A u \in Thread : u # t => freeing'[u] = freeing[u]
  BY <1>1 DEF MemTyped
<1>3. t = Main => pc \in {"unwind", "freeing"}
  BY <1>1 DEF OwnInv, MainFrees, MemTyped
<1>4. pc' = (IF t = Main THEN "idle" ELSE pc) /\ InCall' = InCall /\ (pc' = "record" <=> pc = "record")
  BY <1>1, <1>3 DEF AfterFree, InCall
<1>5. Known' = Known
  BY <1>1, <1>4 DEF Known
<1>6. Pending' = Pending \ {t} /\ Freeing' = Freeing /\ \A u \in Pending \ {t} : freeing'[u] = freeing[u]
  BY <1>1, <1>2 DEF Pending, Freeing, None
<1>7. CountInv'
  <2>1. IsFiniteSet(Pending) /\ base \in Int /\ allocated = (Counted - base) % SizeT
    BY DEF CountInv, AccountingExact
  <2>2. /\ IsFiniteSet(Pending') /\ n \in Int
        /\ SumFunctionOnSet(PendingSize, Pending) = n + SumFunctionOnSet(PendingSize', Pending')
    BY <1>1, <1>6, <2>1, PendingLeaves
  <2>3. CountFacts /\ CountFacts'
    BY <2>1, <2>2, CountFactsHold, CountFactsNext
  <2>4. SumFunctionOnSet(live', Known') = SumFunctionOnSet(live, Known)
    BY <1>1, <1>5
  <2>5. Counted' = Counted + (-n) /\ Counted \in Int
    BY <2>2, <2>3, <2>4 DEF CountFacts
  <2>6. Counted - base \in Int /\ -n \in Int
    BY <2>1, <2>2, <2>5
  <2>7. /\ (Counted - base) % SizeT \in Int
        /\ (((Counted - base) % SizeT) + (-n)) % SizeT = ((Counted - base) + (-n)) % SizeT
    BY <2>6, Modulo
  <2>8. allocated - n = ((Counted - base) % SizeT) + (-n)
    BY <2>1, <2>2, <2>7
  <2>9. (Counted - base) + (-n) = Counted' - base'
    BY <1>1, <2>1, <2>2, <2>5
  <2>10. QED
    BY <1>1, <2>1, <2>2, <2>7, <2>8, <2>9 DEF CountInv, AccountingExact
<1>8. Matched'
  <2>1. \A u \in Freeing : freeing'[u] = freeing[u]
    BY <1>1, <1>2 DEF Freeing
  <2>2. QED
    BY <1>1, <1>4, <1>6, <2>1 DEF RecordsInv, Matched
<1>9. Taken' /\ (~cfg.unlocked => Recorded')
  BY <1>1, <1>2, <1>5 DEF RecordsInv, Taken, Recorded, None
<1>10. cfg.unlocked => OneSize'
  BY <1>1, <1>2, <1>4 DEF RecordsInv, OneSize, SameProgram
<1>11. QED
  BY <1>1, <1>7, <1>8, <1>9, <1>10 DEF RecordsInv, Suited, SameProgram

LEMMA NextCounted ==
    ASSUME OwnInv, OwnInv', RecordsInv, CountInv, Next
    PROVE  RecordsInv' /\ CountInv'
<1>1. CASE reset_stats
  BY <1>1, ResetCounted DEF reset_stats, SameProgram, memVars
<1>2. ASSUME NEW x \in tensors, Drop(Main, x) \/ (cfg.unlocked /\ \E t \in Deleter : Drop(t, x))
      PROVE  RecordsInv' /\ CountInv'
  BY <1>2, DropCounted DEF Thread
<1>3. QED
  BY <1>1, <1>2, RunsCounted, MallocCounted, RecordCounted, PreadCounted, PolicyCounted, FreeManagedCounted,
     CudaFreeCounted, RecordFreeCounted, SubtractCounted DEF Next

LEMMA BenchCounted ==
    ASSUME OwnInv, OwnInv', RecordsInv, CountInv, [BenchNext]_<<vars, benchVars>>
    PROVE  RecordsInv' /\ CountInv'
<1>1. CASE StartUvm
  <2>1. /\ cfg' = [cfg EXCEPT !.policy = UvmPolicy] /\ UNCHANGED memVars
        /\ allocated' = 0 /\ base' = Counted
    BY <1>1 DEF StartUvm, Fresh, memVars
  <2>2. SameProgram
    BY <2>1 DEF SameProgram, OwnInv, MemTyped, Program
  <2>3. QED
    BY <2>1, <2>2, ResetCounted
<1>2. ASSUME SameProgram, UNCHANGED memVars, UNCHANGED <<allocated, base>>
      PROVE  RecordsInv' /\ CountInv'
  <2>1. Known' = Known /\ InCall' = InCall /\ Pending' = Pending
    BY <1>2 DEF Known, InCall, Pending, memVars
  <2>2. RecordsInv'
    BY <1>2, <2>1, QuietRecords DEF memVars, RecordsInv, OneSize
  <2>3. QED
    BY <1>2, <2>1, <2>2, CountKept DEF memVars
<1>3. CASE ensure_binary_file
  <2>1. /\ cfg' = [cfg EXCEPT !.fileRows = cfg.rows] /\ UNCHANGED memVars /\ UNCHANGED <<allocated, base>>
    BY <1>3 DEF ensure_binary_file, memVars, acctVars
  <2>2. SameProgram
    BY <2>1 DEF SameProgram, OwnInv, MemTyped, Program
  <2>3. QED
    BY <1>2, <2>1, <2>2
<1>4. CASE TouchFails
  BY <1>2, <1>4 DEF TouchFails, memVars, acctVars, SameProgram
<1>5. CASE UNCHANGED vars
  BY <1>2, <1>5 DEF vars, memVars, acctVars, SameProgram
<1>6. CASE BaselineBatch \/ EndBaseline \/ TouchBatch \/ EndUvm \/ Stop \/ BenchDone
  BY <1>5, <1>6 DEF BaselineBatch, EndBaseline, TouchBatch, EndUvm, Stop, BenchDone
<1>7. CASE UvmCall
  <2>1. Main \in Thread
    BY DEF Thread
  <2>2. Next
    BY <1>7, <2>1 DEF UvmCall, Next
  <2>3. QED
    BY <2>2, NextCounted
<1>8. CASE phase = "other" /\ Next
  BY <1>8, NextCounted
<1>9. QED
  BY <1>1, <1>3, <1>4, <1>5, <1>6, <1>7, <1>8 DEF BenchNext, run_all

LEMMA InitCounted == OneSizeUnlocked /\ BenchInit /\ OwnInv => RecordsInv /\ CountInv
<1> SUFFICES ASSUME OneSizeUnlocked, BenchInit, OwnInv PROVE RecordsInv /\ CountInv
  OBVIOUS
<1>1. /\ cfg \in Config /\ live = [a \in {} |-> 0] /\ sizes = [a \in {} |-> 0] /\ allocated = 0 /\ base = 0
      /\ pc = "idle" /\ tensors = {} /\ raws = {} /\ freeing = [t \in Thread |-> None]
  BY DEF BenchInit, Init
<1>2. DOMAIN live = {} /\ DOMAIN sizes = {} /\ \A t \in Thread : freeing[t] = None
  BY <1>1
<1>3. Known = {} /\ Pending = {} /\ Freeing = {} /\ InCall = {} /\ Main \in Thread
  BY <1>1, <1>2 DEF Known, Pending, Freeing, InCall, None, Thread
<1>4. RecordsInv
  BY <1>1, <1>2, <1>3 DEF RecordsInv, Suited, OneSizeUnlocked, Matched, Taken, Recorded, OneSize, None
<1>5. Counted = 0
  BY <1>3, CountedIs, SumOfNone
<1>6. CountInv
  BY <1>1, <1>3, <1>5, FS_EmptySet, Modulo DEF CountInv, AccountingExact
<1>7. QED
  BY <1>4, <1>6

\* allocated_bytes is, modulo 2^64, what is allocated and recorded since the latest reset_stats, plus
\* the frees that have yet to subtract: for every mixture of sizes, exceptions and failures of
\* cudaFree under the GIL; and, when deleters run on other threads and addresses are handed out
\* again before their record is erased, for programs whose tensors are all of one size.
THEOREM UvmAccountingExact ==
    ASSUME OneSizeUnlocked
    PROVE  BenchSpec => []AccountingExact
<1> DEFINE I == OwnInv /\ RecordsInv /\ CountInv
<1>1. BenchInit => I
  BY InitOwned, InitCounted
<1>2. I /\ [BenchNext]_<<vars, benchVars>> => I'
  BY BenchOwned, BenchCounted
<1>3. I => AccountingExact
  BY DEF CountInv
<1>4. QED
  BY <1>1, <1>2, <1>3, PTL DEF BenchSpec
-----------------------------------------------------------------------------
(* What run_uvm gives back.                                                *)

\* The sum over two sets that have nothing in common.
LEMMA SumSplit ==
    ASSUME NEW f, NEW A, NEW B, IsFiniteSet(A), IsFiniteSet(B), A \cap B = {}, \A x \in A \cup B : f[x] \in Int
    PROVE  SumFunctionOnSet(f, A \cup B) = SumFunctionOnSet(f, A) + SumFunctionOnSet(f, B)
<1> DEFINE Sum(s) == SumFunctionOnSet(f, s)
           Bad == {s \in SUBSET B : Sum(A \cup s) # Sum(A) + Sum(s)}
<1> SUFFICES ASSUME Bad # {} PROVE FALSE
  OBVIOUS
<1>1. PICK s \in Bad : \A t \in SUBSET s : t # s => t \notin Bad
  <2>1. Bad \subseteq SUBSET B
    OBVIOUS
  <2> HIDE DEF Bad
  <2>2. QED
    BY <2>1, SmallestSubset
<1>2. s \subseteq B /\ IsFiniteSet(s) /\ IsFiniteSet(A \cup s)
  BY <1>1, FS_Subset, FS_Union
<1>3. Sum(A) \in Int /\ Sum({}) = 0
  BY SumInt, SumOfNone
<1>4. s # {}
  <2> SUFFICES ASSUME s = {} PROVE FALSE
    OBVIOUS
  <2>1. A \cup s = A
    OBVIOUS
  <2> HIDE DEF Sum
  <2>2. Sum(A \cup s) = Sum(A) + Sum(s)
    BY <1>3, <2>1
  <2>3. QED
    BY <1>1, <2>2
<1>5. PICK x : x \in s
  BY <1>4
<1> DEFINE t == s \ {x}
<1>6. t \in SUBSET s /\ t # s /\ t \in SUBSET B /\ IsFiniteSet(t)
  BY <1>2, <1>5, FS_Subset
<1>7. Sum(A \cup t) = Sum(A) + Sum(t) /\ Sum(t) \in Int
  BY <1>1, <1>2, <1>6, SumInt
<1>8. Sum(s) = f[x] + Sum(t)
  BY <1>2, <1>5, SumTake
<1>9. (A \cup s) \ {x} = A \cup t
  BY <1>2, <1>5
<1>10. Sum(A \cup s) = f[x] + Sum(A \cup t)
  <2>1. x \in A \cup s /\ \A y \in A \cup s : f[y] \in Int
    BY <1>2, <1>5
  <2>2. Sum(A \cup s) = f[x] + Sum((A \cup s) \ {x})
    BY <1>2, <2>1, SumTake
  <2>3. QED
    BY <1>9, <2>2
<1>11. f[x] \in Int
  BY <1>2, <1>5
<1> HIDE DEF t, Sum
<1>12. Sum(A \cup s) = Sum(A) + Sum(s)
  BY <1>3, <1>7, <1>8, <1>10, <1>11
<1>13. QED
  BY <1>1, <1>12

\* A sum of naturals is a natural.
LEMMA SumNat ==
    ASSUME NEW f, NEW A, IsFiniteSet(A), \A x \in A : f[x] \in Nat
    PROVE  SumFunctionOnSet(f, A) \in Nat
<1> DEFINE Sum(s) == SumFunctionOnSet(f, s)
           Bad == {s \in SUBSET A : Sum(s) \notin Nat}
<1> SUFFICES ASSUME Bad # {} PROVE FALSE
  OBVIOUS
<1>1. PICK s \in Bad : \A t \in SUBSET s : t # s => t \notin Bad
  <2>1. Bad \subseteq SUBSET A
    OBVIOUS
  <2> HIDE DEF Bad
  <2>2. QED
    BY <2>1, SmallestSubset
<1>2. s \subseteq A /\ IsFiniteSet(s) /\ s # {}
  <2>1. SumFunctionOnSet(f, {}) \in Nat
    BY SumOfNone
  <2>2. QED
    BY <1>1, <2>1, FS_Subset
<1>3. PICK x : x \in s
  BY <1>2
<1>4. Sum(s) = f[x] + Sum(s \ {x})
  BY <1>2, <1>3, SumTake
<1>5. Sum(s \ {x}) \in Nat
  BY <1>1, <1>2, <1>3
<1>6. f[x] \in Nat
  BY <1>2, <1>3
<1>7. Sum(s) \in Nat
  BY <1>4, <1>5, <1>6
<1>8. QED
  BY <1>1, <1>7

\* The benchmark's file is smaller than what a size_t can count.
RowsCountable == \A c \in Config : c.bench => c.rows < SizeT

\* Memory that earlier runs of run_uvm have lost, and the bytes this one holds or has lost.
Earlier == results[Len(results)].lost
NewBytes == SumFunctionOnSet(live, DOMAIN live \ Earlier)

\* One batch at a time, and no more bytes than the rows asked for so far.
RunInv ==
    /\ tensors # {} => pc = "idle" /\ \E x \in tensors : tensors = {x}
    /\ pc \in {"malloc", "record", "pread", "policy"} => cur.kind = "batch"
    /\ pc = "malloc" => cur.bytes \in Nat
    /\ Earlier \subseteq lost
    /\ base = SumFunctionOnSet(live, Earlier)
    /\ NewBytes + (IF pc = "malloc" THEN cur.bytes ELSE 0) <= RowsBefore(idx)

GivenInv ==
    phase # "other" =>
        /\ cfg.rows < SizeT /\ raws = {}
        /\ \A t \in Thread : t # Main => freeing[t] = None
        /\ \A a \in DOMAIN live : live[a] \in Nat
        /\ phase \in {"file", "baseline", "start"} => pc = "idle" /\ tensors = {}
        /\ phase = "start" => Earlier = lost
        /\ phase = "uvm" => RunInv

\* Nothing is under way: what is allocated is lost memory.
LEMMA AllLost ==
    ASSUME OwnInv, GivenInv, phase # "other", pc = "idle", tensors = {}
    PROVE  DOMAIN live = lost /\ Known = lost /\ Pending = {} /\ Freeing = {}
           /\ Counted = SumFunctionOnSet(live, lost) /\ Counted \in Int
<1>1. \A t \in Thread : freeing[t] = None
  BY DEF GivenInv, OwnInv, MainFrees
<1>2. Pending = {} /\ Freeing = {}
  BY <1>1 DEF Pending, Freeing, None
<1>3. FreeAddrs = {} /\ InCall = {} /\ TensorAddrs = {} /\ raws = {}
  BY <1>2 DEF FreeAddrs, InCall, TensorAddrs, GivenInv
<1>4. DOMAIN live = lost /\ Known = lost
  BY <1>3 DEF OwnInv, AllOwned, Known
<1>5. CountFacts
  BY <1>2, CountFactsHold, FS_EmptySet
<1>6. SumFunctionOnSet(PendingSize, Pending) = 0
  BY <1>2, SumOfNone
<1>7. QED
  BY <1>2, <1>4, <1>5, <1>6 DEF CountFacts

\* The bytes held, in this state and in the next.
NewFacts ==
    /\ NewBytes \in Nat /\ IsFiniteSet(DOMAIN live \ Earlier) /\ \A a \in DOMAIN live \ Earlier : live[a] \in Int

LEMMA NewBytesNat == OwnInv /\ (\A a \in DOMAIN live : live[a] \in Nat) => NewFacts
<1> SUFFICES ASSUME OwnInv, \A a \in DOMAIN live : live[a] \in Nat PROVE NewFacts
  OBVIOUS
<1> DEFINE D == DOMAIN live \ Earlier
<1>1. IsFiniteSet(D) /\ \A a \in D : live[a] \in Nat
  BY LiveFinite, FS_Subset
<1> HIDE DEF D
<1>2. SumFunctionOnSet(live, D) \in Nat
  BY <1>1, SumNat
<1>3. QED
  BY <1>1, <1>2 DEF D, NewFacts, NewBytes

LEMMA GivenMeans == OwnInv /\ CountInv /\ GivenInv => BatchesGivenBack
<1> SUFFICES ASSUME OwnInv, CountInv, GivenInv, phase = "uvm" PROVE BatchesGivenBack
  BY DEF BatchesGivenBack
<1>1. RunInv /\ cfg.rows < SizeT /\ \A a \in DOMAIN live : live[a] \in Nat
  BY DEF GivenInv
<1>2. Cardinality(tensors) + Cardinality(InCall) + Cardinality(Owned(Main)) <= 1
  <2>1. /\ pc = "idle" => InCall = {} /\ Owned(Main) = {}
        /\ pc # "idle" => tensors = {} /\ (InCall = {} \/ Owned(Main) = {})
    BY <1>1 DEF RunInv, OwnInv, MainFrees, InCall, Owned, None
  <2>2. Cardinality({}) = 0 /\ \A x : Cardinality({x}) = 1
    BY FS_EmptySet, FS_Singleton
  <2>3. Cardinality(tensors) \in {0, 1}
    BY <1>1, <2>2 DEF RunInv
  <2>4. Cardinality(InCall) \in {0, 1} /\ Cardinality(Owned(Main)) \in {0, 1}
    BY <2>2 DEF InCall, Owned
  <2>5. /\ pc = "idle" => Cardinality(InCall) = 0 /\ Cardinality(Owned(Main)) = 0
        /\ pc # "idle" => Cardinality(tensors) = 0 /\ (Cardinality(InCall) = 0 \/ Cardinality(Owned(Main)) = 0)
    BY <2>1, <2>2, Zenon
  <2>6. QED
    BY <2>3, <2>4, <2>5
<1>3. ASSUME Idle, tensors = {} PROVE allocated = SumFunctionOnSet(live, lost \ Earlier)
  <2>1. DOMAIN live = lost /\ Counted = SumFunctionOnSet(live, lost) /\ Counted \in Int
    BY <1>3, AllLost DEF Idle
  <2>2. NewFacts
    BY <1>1, NewBytesNat
  <2>3. Earlier \subseteq lost /\ IsFiniteSet(Earlier) /\ base = SumFunctionOnSet(live, Earlier) /\ base \in Int
    BY <1>1, <2>1, LiveFinite, FS_Subset DEF RunInv, CountInv
  <2> DEFINE E == Earlier
             D == lost \ E
  <2>4. NewBytes = SumFunctionOnSet(live, D)
    BY <2>1 DEF NewBytes
  <2>5. /\ IsFiniteSet(E) /\ IsFiniteSet(D) /\ E \cap D = {} /\ E \cup D = lost
        /\ \A x \in E \cup D : live[x] \in Int
    BY <1>1, <2>1, <2>2, <2>3 DEF NewFacts
  <2> HIDE DEF E, D
  <2>6. SumFunctionOnSet(live, E \cup D) = SumFunctionOnSet(live, E) + SumFunctionOnSet(live, D)
    BY <2>5, SumSplit
  <2>7. Counted - base = NewBytes
    <3>1. base = SumFunctionOnSet(live, E) /\ base \in Int
      BY <2>3 DEF E
    <3>2. NewBytes \in Int
      BY <2>2 DEF NewFacts
    <3>3. Counted = base + NewBytes
      BY <2>1, <2>4, <2>5, <2>6, <3>1
    <3>4. QED
      BY <3>1, <3>2, <3>3
  <2>8. NewBytes <= RowsBefore(idx) /\ RowsBefore(idx) \in Nat /\ RowsBefore(idx) <= cfg.rows /\ cfg.rows \in Nat
    BY <1>1, <1>3, <2>2, BatchFacts DEF RunInv, OwnInv, MemTyped, Program, Idle, NewFacts
  <2>9. NewBytes \in 0..(SizeT - 1) /\ SizeT \in Nat \ {0}
    BY <1>1, <2>2, <2>8, ConfigAssumption DEF NewFacts
  <2>10. NewBytes % SizeT = NewBytes
    BY <2>9, SMTT(30)
  <2>11. QED
    BY <2>4, <2>7, <2>10 DEF CountInv, AccountingExact, D, E
<1>4. QED
  BY <1>2, <1>3 DEF BatchesGivenBack, Earlier
\* A call of the extension made by the loop.
LEMMA RunStep ==
    ASSUME GivenInv, phase = "uvm", UNCHANGED <<phase, results, base, raws, cfg>>,
           \A t \in Thread : t # Main => freeing'[t] = freeing[t],
           \A a \in DOMAIN live' : live'[a] \in Nat, lost \subseteq lost',
           SumFunctionOnSet(live', Earlier) = SumFunctionOnSet(live, Earlier),
           tensors' # {} => pc' = "idle" /\ \E x \in tensors' : tensors' = {x},
           pc' \in {"malloc", "record", "pread", "policy"} => cur'.kind = "batch",
           pc' = "malloc" => cur'.bytes \in Nat,
           NewBytes' + (IF pc' = "malloc" THEN cur'.bytes ELSE 0) <= RowsBefore(idx)'
    PROVE  GivenInv'
<1>1. Earlier' = Earlier
  BY DEF Earlier
<1>2. RunInv /\ (phase = "uvm")'
  BY DEF GivenInv
<1>3. RunInv'
  BY <1>1, <1>2 DEF RunInv
<1>4. QED
  BY <1>2, <1>3 DEF GivenInv

\* One that allocates and frees nothing.
LEMMA RunSame ==
    ASSUME OwnInv, GivenInv, phase = "uvm", UNCHANGED <<phase, results, base, raws, cfg, live, idx>>,
           \A t \in Thread : t # Main => freeing'[t] = freeing[t], lost \subseteq lost',
           pc # "malloc", pc' # "malloc",
           tensors' # {} => pc' = "idle" /\ \E x \in tensors' : tensors' = {x},
           pc' \in {"record", "pread", "policy"} => cur'.kind = "batch"
    PROVE  GivenInv'
<1>1. RunInv /\ \A a \in DOMAIN live : live[a] \in Nat
  BY DEF GivenInv
<1>2. NewBytes' = NewBytes /\ RowsBefore(idx)' = RowsBefore(idx) /\ NewBytes \in Nat
  BY <1>1, NewBytesNat DEF NewBytes, Earlier, RowsBefore, StartRow, NewFacts
<1>3. NewBytes' + (IF pc' = "malloc" THEN cur'.bytes ELSE 0) <= RowsBefore(idx)'
  BY <1>1, <1>2 DEF RunInv
<1>4. QED
  BY <1>1, <1>3, RunStep

LEMMA GetItemGiven ==
    ASSUME OwnInv, GivenInv, phase = "uvm", UNCHANGED <<phase, results>>, tensors = {}, GetItem
    PROVE  GivenInv'
<1>1. /\ RunInv /\ (\A a \in DOMAIN live : live[a] \in Nat) /\ cfg \in Program /\ idx \in Nat /\ idx < NumBatches
      /\ pc = "idle" /\ pc' = "malloc" /\ idx' = idx + 1
      /\ UNCHANGED <<base, raws, cfg, live, freeing, lost, tensors>>
      /\ cur'.kind = "batch" /\ cur'.bytes = ActualRows(idx)
  BY DEF GivenInv, GetItem, acctVars, OwnInv, MemTyped, Idle
<1>2. /\ ActualRows(idx) \in Nat /\ RowsBefore(idx) \in Nat
      /\ RowsBefore(idx) + ActualRows(idx) = RowsBefore(idx + 1)
  BY <1>1, BatchFacts
<1>3. NewBytes' = NewBytes /\ RowsBefore(idx)' = RowsBefore(idx + 1) /\ NewBytes \in Nat
  BY <1>1, NewBytesNat DEF NewBytes, Earlier, RowsBefore, StartRow, NewFacts
<1>4. NewBytes' + cur'.bytes <= RowsBefore(idx)' /\ cur'.bytes \in Nat
  BY <1>1, <1>2, <1>3 DEF RunInv
<1>5. QED
  BY <1>1, <1>4, RunStep

LEMMA MallocGiven ==
    ASSUME OwnInv, OwnInv', GivenInv, phase = "uvm", UNCHANGED <<phase, results>>, Malloc
    PROVE  GivenInv'
<1>1. /\ RunInv /\ (\A a \in DOMAIN live : live[a] \in Nat) /\ MemTyped
      /\ pc = "malloc" /\ tensors = {} /\ cur.kind = "batch" /\ cur.bytes \in Nat
      /\ UNCHANGED <<base, raws, cfg, freeing, lost, tensors, idx>>
  BY DEF GivenInv, Malloc, acctVars, OwnInv, RunInv
<1>2. Earlier' = Earlier /\ RowsBefore(idx)' = RowsBefore(idx) /\ RowsBefore(idx) \in Nat /\ NewFacts
  BY <1>1, BatchFacts, NewBytesNat DEF Earlier, RowsBefore, StartRow, MemTyped
<1>3. NewBytes + cur.bytes <= RowsBefore(idx)
  BY <1>1 DEF RunInv
<1>4. ASSUME NEW a \in Addr \ DOMAIN live,
             live' = [x \in DOMAIN live \cup {a} |-> IF x = a THEN cur.bytes ELSE live[x]],
             cur' = [cur EXCEPT !.ptr = a], pc' = "record"
      PROVE  GivenInv'
  <2>1. /\ cur'.kind = "batch" /\ DOMAIN live' = DOMAIN live \cup {a} /\ live'[a] = cur.bytes
        /\ \A x \in DOMAIN live : live'[x] = live[x]
    BY <1>1, <1>4 DEF MemTyped
  <2>2. \A x \in DOMAIN live' : live'[x] \in Nat
    BY <1>1, <2>1
  <2>3. Earlier \subseteq DOMAIN live
    BY <1>1 DEF RunInv, OwnInv, AllOwned
  <2>4. SumFunctionOnSet(live', Earlier) = SumFunctionOnSet(live, Earlier)
    <3>1. IsFiniteSet(Earlier) /\ \A x \in Earlier : live[x] \in Int /\ live[x] = live'[x]
      BY <1>1, <2>1, <2>3, LiveFinite, FS_Subset
    <3>2. QED
      BY <3>1, SumSame
  <2>5. NewBytes' = cur.bytes + NewBytes
    <3> DEFINE D == DOMAIN live \ Earlier
               E == DOMAIN live' \ Earlier'
    <3>1. E \ {a} = D /\ a \in E
      BY <1>2, <1>4, <2>1, <2>3
    <3>2. IsFiniteSet(E) /\ \A x \in E : live'[x] \in Int
      BY <1>2, <2>1, <2>2, <3>1, FS_AddElement DEF NewFacts
    <3>3. IsFiniteSet(D) /\ \A x \in D : live[x] \in Int /\ live[x] = live'[x]
      BY <1>2, <2>1 DEF NewFacts
    <3>4. NewBytes = SumFunctionOnSet(live, D) /\ NewBytes' = SumFunctionOnSet(live', E)
      BY DEF NewBytes
    <3> HIDE DEF D, E
    <3>5. SumFunctionOnSet(live', E) = live'[a] + SumFunctionOnSet(live', E \ {a})
      BY <3>1, <3>2, SumTake
    <3>6. SumFunctionOnSet(live, D) = SumFunctionOnSet(live', D)
      BY <3>3, SumSame
    <3>7. QED
      BY <2>1, <3>1, <3>4, <3>5, <3>6
  <2>6. NewBytes' + 0 <= RowsBefore(idx)'
    BY <1>1, <1>2, <1>3, <2>5 DEF NewFacts
  <2>7. QED
    BY <1>1, <1>4, <2>1, <2>2, <2>4, <2>6, RunStep
<1>5. CASE pc' = "idle" /\ UNCHANGED <<live, cur>>
  <2>1. NewBytes' + 0 <= RowsBefore(idx)'
    BY <1>1, <1>2, <1>3, <1>5 DEF NewFacts, NewBytes
  <2>2. QED
    BY <1>1, <1>5, <2>1, RunStep
<1>6. QED
  BY <1>4, <1>5 DEF Malloc

LEMMA CudaFreeGiven ==
    ASSUME OwnInv, OwnInv', GivenInv, phase = "uvm", UNCHANGED <<phase, results>>, CudaFree(Main)
    PROVE  GivenInv'
<1> DEFINE a == freeing[Main].addr
<1>1. /\ RunInv /\ (\A x \in DOMAIN live : live[x] \in Nat) /\ MemTyped /\ Main \in Thread
      /\ freeing[Main].step = "cudaFree" /\ Main \in Freeing
      /\ UNCHANGED <<base, raws, cfg, tensors, idx, cur>>
  BY DEF GivenInv, CudaFree, acctVars, OwnInv, Freeing, Thread
<1>2. pc \in {"unwind", "freeing"} /\ tensors = {}
  BY <1>1 DEF OwnInv, MainFrees, None, RunInv
<1>3. Earlier' = Earlier /\ RowsBefore(idx)' = RowsBefore(idx) /\ RowsBefore(idx) \in Nat /\ NewFacts
  BY <1>1, BatchFacts, NewBytesNat DEF Earlier, RowsBefore, StartRow, MemTyped
<1>4. a \in DOMAIN live /\ a \notin lost /\ a \notin Earlier
  BY <1>1, OwnersLive DEF OwnInv, Apart, FreeAddrs, RunInv
<1>5. CASE /\ live' = Restrict(live, DOMAIN live \ {a})
           /\ freeing' = [freeing EXCEPT ![Main].step = "record"]
           /\ UNCHANGED <<pc, lost>>
  <2>1. DOMAIN live' = DOMAIN live \ {a} /\ \A x \in DOMAIN live' : live'[x] = live[x]
    BY <1>5 DEF Restrict
  <2>2. (\A t \in Thread : t # Main => freeing'[t] = freeing[t]) /\ \A x \in DOMAIN live' : live'[x] \in Nat
    BY <1>1, <1>5, <2>1 DEF MemTyped
  <2>3. SumFunctionOnSet(live', Earlier) = SumFunctionOnSet(live, Earlier)
    <3>1. Earlier \subseteq DOMAIN live'
      BY <1>1, <1>4, <2>1 DEF RunInv, OwnInv, AllOwned
    <3>2. IsFiniteSet(Earlier) /\ \A x \in Earlier : live[x] \in Int /\ live[x] = live'[x]
      BY <1>1, <2>1, <3>1, LiveFinite, FS_Subset
    <3>3. QED
      BY <3>2, SumSame
  <2>4. NewBytes = live[a] + NewBytes' /\ NewBytes' \in Int
    <3> DEFINE D == DOMAIN live \ Earlier
               E == DOMAIN live' \ Earlier'
    <3>1. D \ {a} = E /\ a \in D
      BY <1>3, <1>4, <2>1
    <3>2. IsFiniteSet(D) /\ \A x \in D : live[x] \in Int
      BY <1>3 DEF NewFacts
    <3>3. IsFiniteSet(E) /\ \A x \in E : live'[x] \in Int /\ live'[x] = live[x]
      BY <2>1, <3>1, <3>2, FS_Subset
    <3>4. NewBytes = SumFunctionOnSet(live, D) /\ NewBytes' = SumFunctionOnSet(live', E)
      BY DEF NewBytes
    <3> HIDE DEF D, E
    <3>5. SumFunctionOnSet(live, D) = live[a] + SumFunctionOnSet(live, D \ {a})
      BY <3>1, <3>2, SumTake
    <3>6. SumFunctionOnSet(live', E) = SumFunctionOnSet(live, E) /\ SumFunctionOnSet(live', E) \in Int
      BY <3>3, SumSame, SumInt
    <3>7. QED
      BY <3>1, <3>4, <3>5, <3>6
  <2>5. NewBytes' + 0 <= RowsBefore(idx)'
    <3>1. live[a] \in Nat /\ NewBytes + 0 <= RowsBefore(idx) /\ NewBytes \in Int
      BY <1>1, <1>2, <1>3, <1>4 DEF RunInv, NewFacts
    <3>2. QED
      BY <1>3, <2>4, <3>1
  <2>6. QED
    BY <1>1, <1>2, <1>5, <2>2, <2>3, <2>5, RunStep
<1>6. CASE freeing' = [freeing EXCEPT ![Main] = None] /\ AfterFree(Main) /\ UNCHANGED live /\ lost' = lost \cup {a}
  <2>1. (\A t \in Thread : t # Main => freeing'[t] = freeing[t]) /\ pc' = "idle"
    BY <1>1, <1>6 DEF MemTyped, AfterFree
  <2>2. QED
    BY <1>1, <1>2, <1>6, <2>1, RunSame
<1>7. QED
  BY <1>5, <1>6 DEF CudaFree
LEMMA UvmCallGiven ==
    ASSUME OwnInv, OwnInv', GivenInv, UvmCall
    PROVE  GivenInv'
<1>1. phase = "uvm" /\ UNCHANGED <<phase, results>> /\ RunInv /\ Main \in Thread /\ MemTyped /\ raws = {}
  BY DEF UvmCall, benchVars, GivenInv, Thread, OwnInv
<1>2. CASE record_allocation
  <2>1. /\ pc = "record" /\ pc' = "pread" /\ tensors = {}
        /\ UNCHANGED <<base, raws, cfg, live, freeing, lost, tensors, idx, cur>>
    BY <1>1, <1>2 DEF record_allocation, RunInv
  <2>2. QED
    BY <1>1, <2>1, RunSame DEF RunInv
<1>3. CASE Pread
  <2>1. /\ pc = "pread" /\ pc' \in {"policy", "unwind"} /\ tensors = {}
        /\ UNCHANGED <<base, raws, cfg, live, lost, tensors, idx, cur>>
        /\ \A t \in Thread : t # Main => freeing'[t] = freeing[t]
    BY <1>1, <1>3 DEF Pread, RunInv, acctVars, FreedOnThrow, StartsFree, MemTyped
  <2>2. QED
    BY <1>1, <2>1, RunSame DEF RunInv
<1>4. CASE Policy
  <2>1. /\ pc = "policy" /\ pc' \in {"idle", "unwind"} /\ tensors = {}
        /\ UNCHANGED <<base, raws, cfg, live, lost, idx, cur>>
        /\ \A t \in Thread : t # Main => freeing'[t] = freeing[t]
    BY <1>1, <1>4 DEF Policy, RunInv, acctVars, FreedOnThrow, StartsFree, MemTyped
  <2>2. tensors' # {} => pc' = "idle" /\ \E x \in tensors' : tensors' = {x}
    BY <1>4, <2>1 DEF Policy
  <2>3. QED
    BY <1>1, <2>1, <2>2, RunSame
<1>5. ASSUME NEW x \in tensors, Drop(Main, x) PROVE GivenInv'
  <2>1. /\ pc = "idle" /\ pc' = "freeing" /\ tensors' = tensors \ {x}
        /\ UNCHANGED <<base, raws, cfg, live, lost, idx, cur>>
        /\ \A t \in Thread : t # Main => freeing'[t] = freeing[t]
    BY <1>1, <1>5 DEF Drop, Idle, acctVars, StartsFree, MemTyped
  <2>2. tensors' = {}
    BY <1>1, <1>5, <2>1 DEF RunInv
  <2>3. QED
    BY <1>1, <2>1, <2>2, RunSame
<1>6. CASE record_free(Main) \/ Subtract(Main)
  <2>1. /\ UNCHANGED <<base, raws, cfg, live, lost, idx, cur, tensors>> /\ freeing[Main] # None
        /\ pc' = pc \/ pc' = "idle"
        /\ \A t \in Thread : t # Main => freeing'[t] = freeing[t]
    BY <1>1, <1>6 DEF record_free, Subtract, AfterFree, MemTyped, None
  <2>2. pc \in {"unwind", "freeing"} /\ tensors = {}
    BY <1>1, <2>1 DEF OwnInv, MainFrees, RunInv
  <2>3. QED
    BY <1>1, <2>1, <2>2, RunSame
<1>7. QED
  BY <1>1, <1>2, <1>3, <1>4, <1>5, <1>6, GetItemGiven, MallocGiven, CudaFreeGiven DEF UvmCall

\* A result is added when nothing but lost memory is allocated.
LEMMA LatestResult ==
    ASSUME \E S : results \in Seq(S), NEW name, NEW bytes, results' = _result(name, bytes), lost' = lost
    PROVE  Earlier' = lost'
<1> DEFINE e == [name |-> name, num_batches |-> num_batches, total_bytes |-> total_bytes,
                 allocated_bytes |-> bytes, lost |-> lost]
<1>1. results' = Append(results, e) /\ e.lost = lost
  BY DEF _result
<1> HIDE DEF e
<1>2. PICK S : results \in Seq(S)
  OBVIOUS
<1>3. results \in Seq(S \cup {e}) /\ e \in S \cup {e}
  BY <1>2
<1>4. Len(results') = Len(results) + 1 /\ results'[Len(results) + 1] = e
  BY <1>1, <1>3
<1>5. QED
  BY <1>1, <1>4 DEF Earlier

LEMMA StartGiven ==
    ASSUME OwnInv, OwnInv', GivenInv, StartUvm
    PROVE  GivenInv'
<1>1. /\ phase = "start" /\ phase' = "uvm" /\ pc = "idle" /\ tensors = {} /\ Earlier = lost /\ MemTyped
      /\ cfg' = [cfg EXCEPT !.policy = UvmPolicy] /\ idx' = 0 /\ base' = Counted
      /\ UNCHANGED <<live, sizes, pc, cur, tensors, raws, freeing, lost, results>>
  BY DEF StartUvm, Fresh, GivenInv, OwnInv
<1>2. Earlier' = Earlier
  BY <1>1 DEF Earlier
<1>3. DOMAIN live = lost /\ Counted = SumFunctionOnSet(live, lost)
  BY <1>1, AllLost
<1>4. NewBytes' = 0
  <2>1. DOMAIN live' \ Earlier' = {}
    BY <1>1, <1>2, <1>3
  <2>2. QED
    BY <2>1, SumOfNone DEF NewBytes
<1>5. RowsBefore(idx)' = 0
  <2>1. cfg'.rows = cfg.rows /\ cfg'.batchRows = cfg.batchRows
    BY <1>1 DEF MemTyped, Program
  <2>2. RowsBefore(idx)' = RowsBefore(0)
    BY <1>1, <2>1 DEF RowsBefore, StartRow
  <2>3. QED
    BY <1>1, <2>2, BatchFacts DEF MemTyped
<1>6. RunInv'
  BY <1>1, <1>2, <1>3, <1>4, <1>5 DEF RunInv
<1>7. cfg'.rows = cfg.rows
  BY <1>1 DEF MemTyped, Program
<1>8. QED
  BY <1>1, <1>6, <1>7 DEF GivenInv

LEMMA BenchGiven ==
    ASSUME OwnInv, OwnInv', PathInv, GivenInv, [BenchNext]_<<vars, benchVars>>
    PROVE  GivenInv'
<1>1. CASE UNCHANGED <<vars, phase, results>>
  <2>1. Earlier' = Earlier /\ NewBytes' = NewBytes /\ RowsBefore(idx)' = RowsBefore(idx)
    BY <1>1 DEF Earlier, NewBytes, RowsBefore, StartRow, vars, acctVars
  <2>2. UNCHANGED <<cfg, live, base, pc, cur, tensors, raws, freeing, lost, phase>>
    BY <1>1 DEF vars, acctVars
  <2>3. QED
    BY <2>1, <2>2 DEF GivenInv, RunInv
<1>2. CASE BaselineBatch \/ TouchBatch \/ BenchDone
  BY <1>1, <1>2 DEF BaselineBatch, TouchBatch, BenchDone, benchVars
<1>3. CASE TouchFails
  <2>1. UNCHANGED <<cfg, live, base, pc, cur, idx, tensors, raws, freeing, lost, phase, results>>
    BY <1>3 DEF TouchFails, acctVars, benchVars
  <2>2. Earlier' = Earlier /\ NewBytes' = NewBytes /\ RowsBefore(idx)' = RowsBefore(idx)
    BY <2>1 DEF Earlier, NewBytes, RowsBefore, StartRow
  <2>3. QED
    BY <2>1, <2>2 DEF GivenInv, RunInv
<1>4. CASE EndBaseline
  <2>1. phase = "baseline" /\ phase' = "start" /\ results' = _result("baseline", 0) /\ UNCHANGED vars
    BY <1>4 DEF EndBaseline
  <2>2. UNCHANGED <<cfg, live, pc, tensors, raws, freeing, lost>>
    BY <2>1 DEF vars, acctVars
  <2>3. Earlier' = lost'
    BY <2>1, <2>2, LatestResult DEF PathInv
  <2>4. QED
    BY <2>1, <2>2, <2>3 DEF GivenInv
<1>5. CASE EndUvm
  <2>1. /\ phase = "uvm" /\ phase' \in {"start", "done"} /\ results' = _result(UvmPolicy, allocated) /\ UNCHANGED vars
        /\ pc = "idle" /\ tensors = {}
    BY <1>5 DEF EndUvm, Idle
  <2>2. UNCHANGED <<cfg, live, pc, tensors, raws, freeing, lost>>
    BY <2>1 DEF vars, acctVars
  <2>3. Earlier' = lost'
    BY <2>1, <2>2, LatestResult DEF PathInv
  <2>4. QED
    BY <2>1, <2>2, <2>3 DEF GivenInv
<1>6. CASE Stop
  BY <1>6 DEF Stop, GivenInv, vars, acctVars
<1>7. CASE ensure_binary_file
  <2>1. /\ phase = "file" /\ phase' = "baseline" /\ cfg' = [cfg EXCEPT !.fileRows = cfg.rows]
        /\ UNCHANGED <<live, pc, tensors, raws, freeing, lost>>
    BY <1>7 DEF ensure_binary_file
  <2>2. cfg'.rows = cfg.rows
    BY <2>1 DEF OwnInv, MemTyped, Program
  <2>3. QED
    BY <2>1, <2>2 DEF GivenInv
<1>8. CASE phase = "other" /\ Next /\ UNCHANGED benchVars
  BY <1>8 DEF GivenInv, benchVars
<1>9. QED
  BY <1>1, <1>2, <1>3, <1>4, <1>5, <1>6, <1>7, <1>8, StartGiven, UvmCallGiven DEF BenchNext, run_all, benchVars

LEMMA InitGiven == RowsCountable /\ BenchInit => GivenInv
<1> SUFFICES ASSUME RowsCountable, BenchInit, phase # "other" PROVE GivenInv
  BY DEF GivenInv
<1>1. /\ cfg \in Config /\ cfg.bench /\ phase = "file" /\ DOMAIN live = {} /\ pc = "idle" /\ tensors = {} /\ raws = {}
      /\ freeing = [t \in Thread |-> None]
  BY DEF BenchInit, Init
<1>2. cfg.rows < SizeT
  BY <1>1 DEF RowsCountable
<1>3. QED
  BY <1>1, <1>2 DEF GivenInv

\* For any file of fewer bytes than a size_t counts, run_uvm holds one batch at a time and gives every
\* one back: when no batch is held, allocated_bytes is what cudaFree has refused during this run, and
\* nothing of what an earlier run lost.
THEOREM UvmBatchesGivenBack ==
    ASSUME OneSizeUnlocked, RowsCountable
    PROVE  BenchSpec => []BatchesGivenBack
<1> DEFINE I == OwnInv /\ EpochInv /\ PathInv /\ RecordsInv /\ CountInv /\ GivenInv
<1>1. BenchInit => I
  BY InitOwned, InitEpoch, InitPaths, InitCounted, InitGiven
<1>2. I /\ [BenchNext]_<<vars, benchVars>> => I'
  BY BenchOwned, BenchEpoch, BenchPaths, BenchCounted, BenchGiven
<1>3. I => BatchesGivenBack
  BY GivenMeans
<1>4. QED
  BY <1>1, <1>2, <1>3, PTL DEF BenchSpec
=============================================================================
