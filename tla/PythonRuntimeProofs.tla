-------------------------- MODULE PythonRuntimeProofs --------------------------
(***************************************************************************)
(* What PythonRuntime says of contexts, for any number of threads, calls   *)
(* and contexts, and of the results of its calls, for every call.          *)
(***************************************************************************)
EXTENDS PythonRuntime, FiniteSetTheorems, WellFoundedInduction, TLAPS

\* Contexts are numbered as they are created.
ContextsTyped ==
    /\ created \in Nat
    /\ ctx \in 0..created
    /\ live \subseteq 1..created
    /\ finalized \in Seq(1..created)
    /\ pc \in [Thread -> {"idle", "check", "create", "assign", "return", "read", "closing"}]
    /\ out \in [Thread -> 0..created]
    /\ overlapped \in BOOLEAN

\* While close_runtime is between its two steps nothing else is under way and the global
\* is not live; at any other time the global is None or a live context.
CloseIsAlone ==
    /\ \A t \in Thread : pc[t] = "closing" =>
           ctx \notin live /\ \A u \in Thread \ {t} : pc[u] = "idle"
    /\ (\A t \in Thread : pc[t] # "closing") /\ ctx # None => ctx \in live

\* A thread that is going to return the global has seen one, or has set it; what a thread
\* holds is live.
HeldIsLive ==
    /\ \A t \in Thread : pc[t] = "return" => ctx # None
    /\ \A t \in Thread : pc[t] \in {"assign", "read"} => out[t] \in live

\* What was finalized is not live, and was finalized once.
FinalizedOnce ==
    /\ \A i \in DOMAIN finalized : finalized[i] \notin live
    /\ \A i, j \in DOMAIN finalized : finalized[i] = finalized[j] => i = j

ContextInv == ContextsTyped /\ CloseIsAlone /\ HeldIsLive /\ FinalizedOnce

LEMMA InitContexts == Init => ContextInv
<1> SUFFICES ASSUME Init PROVE ContextInv
  OBVIOUS
<1>1. created = 0 /\ ctx = 0 /\ live = {} /\ finalized = <<>>
  BY DEF Init, None
<1>2. ContextsTyped
  <2>1. <<>> \in Seq(1..0) /\ 0 \in 0..0
    OBVIOUS
  <2>2. pc = [t \in Thread |-> "idle"] /\ out = [t \in Thread |-> 0] /\ overlapped = FALSE
    BY DEF Init, None
  <2>3. QED
    BY <1>1, <2>1, <2>2 DEF ContextsTyped
<1>3. CloseIsAlone /\ HeldIsLive
  BY <1>1 DEF Init, None, CloseIsAlone, HeldIsLive
<1>4. QED
  BY <1>1, <1>2, <1>3 DEF ContextInv, FinalizedOnce

LEMMA NextContexts ==
    ASSUME ContextInv, [Next]_vars
    PROVE  ContextInv'
<1> USE DEF ContextInv, ContextsTyped, CloseIsAlone, HeldIsLive, FinalizedOnce, Goto, End, None, ctxVars
<1>1. ASSUME NEW t \in Thread, NEW c \in Call, Begin(t, c) PROVE ContextInv'
  BY <1>1 DEF Begin
<1>2. ASSUME NEW t \in Thread, CheckCtx(t) PROVE ContextInv'
  BY <1>2 DEF CheckCtx
<1>3. ASSUME NEW t \in Thread, InitCtx(t) PROVE ContextInv'
  BY <1>3 DEF InitCtx
<1>4. ASSUME NEW t \in Thread, InitFails(t) PROVE ContextInv'
  BY <1>4 DEF InitFails
<1>5. ASSUME NEW t \in Thread, AssignCtx(t) PROVE ContextInv'
  BY <1>5 DEF AssignCtx
<1>6. ASSUME NEW t \in Thread, ReturnCtx(t) PROVE ContextInv'
  BY <1>6 DEF ReturnCtx
<1>7. ASSUME NEW t \in Thread, Read(t) PROVE ContextInv'
  BY <1>7 DEF Read
<1>8. ASSUME NEW t \in Thread, Finalize(t) PROVE ContextInv'
  BY <1>8 DEF Finalize
<1>9. ASSUME NEW t \in Thread, ForgetCtx(t) PROVE ContextInv'
  BY <1>9 DEF ForgetCtx
<1>10. ASSUME UNCHANGED vars PROVE ContextInv'
  BY <1>10 DEF vars
<1>11. QED
  BY <1>1, <1>2, <1>3, <1>4, <1>5, <1>6, <1>7, <1>8, <1>9, <1>10
     DEF Next, Done, get_runtime, close_runtime

-----------------------------------------------------------------------------
\* As long as no two threads have been creating at once, at most one is now, the global
\* is None meanwhile, and the one context there may be is that thread's or the global.
NoRaceYet ==
    ~overlapped =>
        /\ \A t, u \in Creating : t = u
        /\ Creating # {} => ctx = None
        /\ \A c \in live : c = ctx \/ \E t \in Thread : pc[t] = "assign" /\ c = out[t]

LEMMA InitNoRace == Init => NoRaceYet
  BY DEF Init, NoRaceYet, Creating

LEMMA NextNoRace ==
    ASSUME ContextInv, NoRaceYet, [Next]_vars
    PROVE  NoRaceYet'
<1> USE DEF ContextInv, ContextsTyped, CloseIsAlone, HeldIsLive, NoRaceYet, Creating, Goto, End, None, ctxVars
<1>1. ASSUME NEW t \in Thread, NEW c \in Call, Begin(t, c) PROVE NoRaceYet'
  BY <1>1 DEF Begin
<1>2. ASSUME NEW t \in Thread, CheckCtx(t) PROVE NoRaceYet'
  BY <1>2 DEF CheckCtx
<1>3. ASSUME NEW t \in Thread, InitCtx(t) PROVE NoRaceYet'
  BY <1>3 DEF InitCtx
<1>4. ASSUME NEW t \in Thread, InitFails(t) PROVE NoRaceYet'
  BY <1>4 DEF InitFails
<1>5. ASSUME NEW t \in Thread, AssignCtx(t) PROVE NoRaceYet'
  BY <1>5 DEF AssignCtx
<1>6. ASSUME NEW t \in Thread, ReturnCtx(t) PROVE NoRaceYet'
  BY <1>6 DEF ReturnCtx
<1>7. ASSUME NEW t \in Thread, Read(t) PROVE NoRaceYet'
  BY <1>7 DEF Read
<1>8. ASSUME NEW t \in Thread, Finalize(t) PROVE NoRaceYet'
  BY <1>8 DEF Finalize
<1>9. ASSUME NEW t \in Thread, ForgetCtx(t) PROVE NoRaceYet'
  BY <1>9 DEF ForgetCtx
<1>10. ASSUME UNCHANGED vars PROVE NoRaceYet'
  BY <1>10 DEF vars
<1>11. QED
  BY <1>1, <1>2, <1>3, <1>4, <1>5, <1>6, <1>7, <1>8, <1>9, <1>10
     DEF Next, Done, get_runtime, close_runtime

\* Without a race there is at most one context.
LEMMA OneContext ==
    ASSUME ContextInv, NoRaceYet, ~overlapped
    PROVE  Cardinality(live) <= 1
<1>1. \A c, d \in live : c = d
  BY DEF ContextInv, ContextsTyped, NoRaceYet, Creating, None
<1>2. CASE live = {}
  BY <1>2, FS_EmptySet
<1>3. ASSUME NEW c \in live PROVE Cardinality(live) <= 1
  <2>1. live = {c}
    BY <1>1, <1>3
  <2>2. QED
    BY <2>1, FS_Singleton
<1>4. QED
  BY <1>2, <1>3

-----------------------------------------------------------------------------
(* The number of elements of a shape: an induction over the shape, by the  *)
(* least length for which it would fail.                                   *)

\* A nonempty set of naturals has a least element.
LEMMA LeastNat ==
    ASSUME NEW T, T \subseteq Nat, T # {}
    PROVE  \E m \in T : \A k \in T : m <= k
<1> DEFINE R == OpToRel(<, Nat)
<1>1. PICK m \in T : \A k \in T : ~ (<<k, m>> \in R)
  BY NatLessThanWellFounded, WFMin
<1>2. \A k, n \in Nat : k < n => <<k, n>> \in R
  BY DEF OpToRel
<1>3. QED
  <2>1. ASSUME NEW k \in T PROVE m <= k
    <3>1. ~(k < m)
      BY <1>1, <1>2
    <3>2. QED
      BY <3>1
  <2>2. QED
    BY <2>1

\* g holds the products of the first elements of the shape, up to m.
Products(shape, m, g) == \A i \in 0..m : g[i] = IF i = 0 THEN 1 ELSE g[i - 1] * shape[i]

\* _numel's recursion has a solution in the integers, and _numel is its last value.
LEMMA NumelFunction ==
    ASSUME NEW shape \in Seq(Int)
    PROVE  \E g \in [0..Len(shape) -> Int] :
              /\ g = [i \in 0..Len(shape) |-> IF i = 0 THEN 1 ELSE g[i - 1] * shape[i]]
              /\ _numel(shape) = g[Len(shape)]
<1> DEFINE Good(m) == \E g \in [0..m -> Int] : Products(shape, m, g)
<1>1. Len(shape) \in Nat
  OBVIOUS
<1>2. Good(0)
  <2>1. [i \in 0..0 |-> 1] \in [0..0 -> Int]
    OBVIOUS
  <2>2. Products(shape, 0, [i \in 0..0 |-> 1])
    BY DEF Products
  <2>3. QED
    BY <2>1, <2>2
<1>3. ASSUME NEW m \in 1..Len(shape), Good(m - 1) PROVE Good(m)
  <2>4. PICK g \in [0..(m - 1) -> Int] : Products(shape, m - 1, g)
    BY <1>3
  <2> DEFINE h == [i \in 0..m |-> IF i = m THEN g[m - 1] * shape[m] ELSE g[i]]
  <2>5. shape[m] \in Int /\ g[m - 1] \in Int
    BY <1>1
  <2>6. h \in [0..m -> Int]
    BY <2>5
  <2>7. Products(shape, m, h)
    <3>1. ASSUME NEW i \in 0..m PROVE h[i] = IF i = 0 THEN 1 ELSE h[i - 1] * shape[i]
      <4>1. CASE i = m
        BY <4>1
      <4>2. CASE i # m
        <5>1. i \in 0..(m - 1) /\ (i # 0 => i - 1 \in 0..(m - 1))
          BY <4>2
        <5>2. g[i] = IF i = 0 THEN 1 ELSE g[i - 1] * shape[i]
          BY <2>4, <5>1 DEF Products
        <5>3. QED
          BY <4>2, <5>1, <5>2
      <4>3. QED
        BY <4>1, <4>2
    <3>2. QED
      BY <3>1 DEF Products
  <2>8. QED
    BY <2>6, <2>7
<1> HIDE DEF Good
<1>4. Good(Len(shape))
  <2> DEFINE Bad == {m \in 0..Len(shape) : ~Good(m)}
  <2>1. ASSUME Bad # {} PROVE FALSE
    <3>1. Bad \subseteq Nat
      BY <1>1
    <3>2. PICK m \in Bad : \A k \in Bad : m <= k
      BY <2>1, <3>1, LeastNat
    <3>3. m \in 1..Len(shape) /\ m - 1 \in 0..Len(shape) /\ m - 1 \notin Bad
      BY <1>1, <1>2, <3>2
    <3>4. QED
      BY <1>3, <3>2, <3>3
  <2>2. QED
    BY <1>1, <2>1
<1>5. PICK g \in [0..Len(shape) -> Int] : Products(shape, Len(shape), g)
  BY <1>4 DEF Good
<1>6. g = [i \in 0..Len(shape) |-> IF i = 0 THEN 1 ELSE g[i - 1] * shape[i]]
  BY <1>5 DEF Products
<1> DEFINE F == CHOOSE f : f = [i \in 0..Len(shape) |-> IF i = 0 THEN 1 ELSE f[i - 1] * shape[i]]
<1>7. F = [i \in 0..Len(shape) |-> IF i = 0 THEN 1 ELSE F[i - 1] * shape[i]]
  BY <1>6
<1>8. _numel(shape) = F[Len(shape)]
  BY DEF _numel
<1>9. F \in [0..Len(shape) -> Int]
  <2> DEFINE Bad == {m \in 0..Len(shape) : F[m] \notin Int}
  <2> HIDE DEF F
  <2>1. ASSUME Bad # {} PROVE FALSE
    <3>1. Bad \subseteq Nat
      BY <1>1
    <3>2. PICK m \in Bad : \A k \in Bad : m <= k
      BY <2>1, <3>1, LeastNat
    <3>3. F[m] = IF m = 0 THEN 1 ELSE F[m - 1] * shape[m]
      BY <1>7
    <3>4. m \in 1..Len(shape) /\ m - 1 \in 0..Len(shape) /\ m - 1 \notin Bad
      BY <1>1, <3>2, <3>3
    <3>5. QED
      BY <3>2, <3>3, <3>4
  <2>2. QED
    BY <1>1, <1>7, <2>1
<1>10. QED
  BY <1>7, <1>8, <1>9

LEMMA NumelInt ==
    ASSUME NEW shape \in Seq(Int)
    PROVE  _numel(shape) \in Int
  BY NumelFunction

LEMMA NumelOne ==
    ASSUME NEW n \in Int
    PROVE  <<n>> \in Seq(Int) /\ _numel(<<n>>) = n
<1>1. <<n>> \in Seq(Int) /\ Len(<<n>>) = 1 /\ <<n>>[1] = n
  OBVIOUS
<1>2. PICK g \in [0..1 -> Int] :
        /\ g = [i \in 0..1 |-> IF i = 0 THEN 1 ELSE g[i - 1] * <<n>>[i]]
        /\ _numel(<<n>>) = g[1]
  BY <1>1, NumelFunction
<1>3. g[0] = 1 /\ g[1] = g[0] * n
  BY <1>1, <1>2
<1>4. QED
  BY <1>1, <1>2, <1>3

-----------------------------------------------------------------------------
(* The results of the calls.                                               *)

\* A result that is not an error holds the elements of r.n bytes of c's file, at c's offset.
Fits(c, r) ==
    /\ _numel(r.shape) * _DTYPE_SIZE[r.dtype] = r.n
    /\ r.path = c.path /\ r.off = c.off

LEMMA SizeOfDtype ==
    ASSUME NEW d \in DOMAIN _DTYPE_SIZE
    PROVE  _DTYPE_SIZE[d] \in {1, 2, 4}
  BY DEF _DTYPE_SIZE

LEMMA IntoTensorFits ==
    ASSUME NEW c, NEW shape, NEW dtype, IntoTensor(c, shape, dtype).ok
    PROVE  /\ Fits(c, IntoTensor(c, shape, dtype))
           /\ IntoTensor(c, shape, dtype).n = _numel(shape) * _DTYPE_SIZE[dtype]
  BY DEF IntoTensor, Elements, Error, Fits

\* What load_tensor needs of its arguments: their types, and one of nbytes and shape.
LoadArguments(c) ==
    /\ c.nbytes \in Nat
    /\ c.shape \in Seq(Int) /\ c.dtype \in DOMAIN _DTYPE_SIZE
    /\ ~(c.nbytes = None /\ c.shape = NoShape)

\* The bytes load_tensor reads: those asked for, or those the shape takes.
LEMMA LoadTensorFits ==
    ASSUME NEW c, LoadArguments(c), load_tensor(c).ok
    PROVE  /\ Fits(c, load_tensor(c))
           /\ c.shape = NoShape => load_tensor(c).n = c.nbytes
           /\ c.nbytes = None => load_tensor(c).n = _numel(c.shape) * _DTYPE_SIZE[c.dtype]
<1> DEFINE r == load_tensor(c)
           s == _DTYPE_SIZE[c.dtype]
           n == Nbytes(c)
<1>1. s \in {1, 2, 4} /\ _numel(c.shape) \in Int /\ n \in Int
  BY SizeOfDtype, NumelInt DEF LoadArguments, Nbytes
<1>2. /\ c.shape = NoShape => n = c.nbytes
      /\ c.nbytes = None => n = _numel(c.shape) * s
  BY DEF LoadArguments, Nbytes
<1>3. <<n>> \in Seq(Int) /\ _numel(<<n>>) = n /\ _DTYPE_SIZE["uint8"] = 1
  BY <1>1, NumelOne DEF _DTYPE_SIZE
<1> HIDE DEF n, s
<1>4. CASE "torch" \in env /\ c.shape # NoShape
  <2>1. r = IntoTensor(c, c.shape, c.dtype)
    BY <1>4 DEF load_tensor, TorchTensor
  <2>2. QED
    BY <1>4, <2>1, IntoTensorFits
<1>5. CASE "torch" \in env /\ c.shape = NoShape
  <2>1. r = IntoTensor(c, <<n>>, "uint8")
    BY <1>5 DEF load_tensor, TorchTensor, n
  <2>2. Fits(c, r) /\ r.n = n
    BY <1>1, <1>3, <2>1, IntoTensorFits
  <2>3. QED
    BY <1>2, <1>5, <2>2 DEF LoadArguments
<1>6. CASE "torch" \notin env
  <2> DEFINE e == n \div s
  <2>1. r = ArrayOrBytes(c)
    BY <1>6 DEF load_tensor
  <2>2. CASE "numpy" \notin env
    <3>1. r = Elements(c.path, c.off, <<n>>, "uint8", n)
      BY <2>1, <2>2 DEF ArrayOrBytes, Error, n
    <3>2. Fits(c, r) /\ r.n = n
      BY <1>1, <1>3, <3>1 DEF Fits, Elements
    <3>3. QED
      BY <1>2, <3>2 DEF s
  <2>3. CASE "numpy" \in env
    <3>1. /\ n % s = 0 /\ (c.shape # NoShape => _numel(c.shape) = e)
          /\ r = Elements(c.path, c.off, IF c.shape = NoShape THEN <<e>> ELSE c.shape, c.dtype, n)
      BY <2>1, <2>3 DEF ArrayOrBytes, Error, n, s
    <3>2. e \in Int /\ e * s = n
      BY <1>1, <3>1
    <3>3. _numel(<<e>>) = e
      BY <3>2, NumelOne
    <3>4. Fits(c, r) /\ r.n = n
      BY <3>1, <3>2, <3>3 DEF Fits, Elements, s
    <3>5. QED
      BY <1>2, <3>4 DEF s
  <2>4. QED
    BY <2>2, <2>3
<1>7. QED
  BY <1>4, <1>5, <1>6

-----------------------------------------------------------------------------
(* The calls under way, and the one that ended last.                       *)

\* The dataset is one of the arguments', its index without an invalid line.
DatasetOpened ==
    /\ dataset.samples = _parse_index(dataset.lines, dataset.data_file)
    /\ \A i \in DOMAIN Indexed : ValidLine(Indexed[i], dataset.data_file)
    /\ dataset.shape \in Seq(Int) /\ dataset.dtype \in DOMAIN _DTYPE_SIZE

\* A call that uses the library was not refused.
Accepted(c) == c \in Call /\ c.op # "load_chunks" /\ ~Refused(c)

CallsAccepted ==
    /\ DOMAIN pc = Thread /\ DOMAIN cur = Thread
    /\ \A t \in Thread : pc[t] \in {"check", "create", "assign", "return", "read"} => Accepted(cur[t])

\* The last result is an error, a list of chunks, or what the call is to return.
LastIsResult ==
    \/ last.got = Error
    \/ last.call.op = "load_chunks"
    \/ Accepted(last.call) /\ last.got = Result(last.call)

ResultInv == DatasetOpened /\ CallsAccepted /\ LastIsResult

LEMMA InitResults == Init => ResultInv
<1> SUFFICES ASSUME Init PROVE ResultInv
  OBVIOUS
<1>1. CallsAccepted
  BY DEF Init, CallsAccepted
<1>2. LastIsResult
  BY DEF Init, LastIsResult
<1>3. PICK d \in Dataset :
        /\ Opens(d)
        /\ dataset = [samples |-> _parse_index(d.lines, d.data_file), lines |-> d.lines,
                      data_file |-> d.data_file, shape |-> d.shape, dtype |-> d.dtype]
  BY DEF Init
<1>4. DatasetOpened
  <2>1. /\ dataset.samples = _parse_index(d.lines, d.data_file) /\ dataset.lines = d.lines
        /\ dataset.data_file = d.data_file /\ dataset.shape = d.shape /\ dataset.dtype = d.dtype
    BY <1>3
  <2>2. QED
    BY <1>3, <2>1, ArgumentAssumption DEF Opens, DatasetOpened, Indexed
<1>5. QED
  BY <1>1, <1>2, <1>4 DEF ResultInv

LEMMA NextResults ==
    ASSUME ResultInv, [Next]_vars
    PROVE  ResultInv'
<1>1. dataset' = dataset /\ env' = env
  BY DEF Next, Done, get_runtime, close_runtime, Begin, CheckCtx, InitCtx, InitFails, AssignCtx,
         ReturnCtx, Read, Finalize, ForgetCtx, vars
<1>2. DatasetOpened'
  BY <1>1 DEF ResultInv, DatasetOpened, Indexed
<1>3. \A c : Accepted(c)' <=> Accepted(c)
  BY <1>1 DEF Accepted, Refused
<1>4. \A c : Result(c)' = Result(c)
  BY <1>1 DEF Result, IntoTensor, load_tensor, TorchTensor, ArrayOrBytes, __getitem__
<1> HIDE DEF Accepted, Result
<1> USE DEF ResultInv, CallsAccepted, LastIsResult, Goto, End
<1>5. ASSUME NEW t \in Thread, NEW c \in Call, Begin(t, c) PROVE CallsAccepted' /\ LastIsResult'
  <2>1. CASE Refused(c) \/ c.op = "load_chunks"
    BY <1>3, <1>4, <1>5, <2>1 DEF Begin
  <2>2. CASE ~Refused(c) /\ c.op # "load_chunks"
    <3>1. Accepted(c)
      BY <2>2 DEF Accepted
    <3>2. QED
      BY <1>3, <1>4, <1>5, <2>2, <3>1 DEF Begin
  <2>3. QED
    BY <2>1, <2>2
<1>6. ASSUME NEW t \in Thread, get_runtime(t) PROVE CallsAccepted' /\ LastIsResult'
  BY <1>3, <1>4, <1>6 DEF get_runtime, CheckCtx, InitCtx, InitFails, AssignCtx, ReturnCtx
<1>7. ASSUME NEW t \in Thread, Read(t) PROVE CallsAccepted' /\ LastIsResult'
  BY <1>3, <1>4, <1>7 DEF Read
<1>8. ASSUME NEW t \in Thread, close_runtime(t) PROVE CallsAccepted' /\ LastIsResult'
  BY <1>3, <1>4, <1>8 DEF close_runtime, Finalize, ForgetCtx
<1>9. ASSUME UNCHANGED vars PROVE CallsAccepted' /\ LastIsResult'
  BY <1>3, <1>4, <1>9 DEF vars
<1>10. QED
  BY <1>2, <1>5, <1>6, <1>7, <1>8, <1>9 DEF Next, Done

\* A call that ended well and is neither refused nor of chunks gave its result.
LEMMA LastResult ==
    ASSUME ResultInv, last.got.ok, last.call.op # "load_chunks"
    PROVE  Accepted(last.call) /\ last.got = Result(last.call)
  BY DEF ResultInv, LastIsResult, Error

LEMMA ResultsFit ==
    ASSUME ResultInv
    PROVE  TensorsFitTheirBytes
<1> DEFINE c == last.call
           r == last.got
<1> SUFFICES ASSUME c.op \in {"load_tensor", "read_into_tensor"}, r.ok
             PROVE  Fits(c, r) /\ (c.shape = NoShape => r.n = c.nbytes)
  BY DEF TensorsFitTheirBytes, Fits
<1>1. Accepted(c) /\ r = Result(c)
  BY LastResult
<1> HIDE DEF c, r
<1>2. c.nbytes \in Nat /\ c.shape \in Seq(Int) /\ c.dtype \in DOMAIN _DTYPE_SIZE
  BY <1>1, ArgumentAssumption DEF Accepted
<1>3. CASE c.op = "load_tensor"
  <2>1. r = load_tensor(c) /\ ~(c.nbytes = None /\ c.shape = NoShape)
    BY <1>1, <1>3 DEF Accepted, Refused, Result
  <2>2. QED
    BY <1>2, <2>1, LoadTensorFits DEF LoadArguments
<1>4. CASE c.op = "read_into_tensor"
  <2>1. r = IntoTensor(c, c.shape, c.dtype)
    BY <1>1, <1>4 DEF Result
  <2>2. Fits(c, r)
    BY <2>1, IntoTensorFits
  <2>3. ASSUME c.shape = NoShape PROVE FALSE
    <3>1. _numel(c.shape) = -1
      BY <2>3, NumelOne DEF NoShape
    <3>2. ~(_numel(c.shape) * _DTYPE_SIZE[c.dtype] > 0)
      BY <1>2, <3>1, SizeOfDtype
    <3>3. QED
      BY <2>1, <3>2 DEF IntoTensor, Exists, Error
  <2>4. QED
    BY <2>2, <2>3
<1>5. QED
  BY <1>3, <1>4

LEMMA ResultsIndexed ==
    ASSUME ResultInv
    PROVE  SamplesAreIndexed
<1> DEFINE c == last.call
           r == last.got
           l == Indexed[c.idx]
           g == __getitem__(c.idx)
<1> SUFFICES ASSUME c.op = "getitem", r.ok
             PROVE  /\ r.path = Named(l) /\ r.off = l.off
                    /\ r.n = IF dataset.shape = NoShape THEN l.size
                             ELSE _numel(dataset.shape) * _DTYPE_SIZE[dataset.dtype]
  BY DEF SamplesAreIndexed
<1>1. Accepted(c) /\ r = Result(c)
  BY LastResult
<1>2. r = load_tensor(g) /\ c.idx \in DOMAIN dataset.samples
  BY <1>1 DEF Accepted, Refused, Result
<1>3. c.idx \in DOMAIN Indexed /\ dataset.samples[c.idx] = SampleOf(l, dataset.data_file)
  BY <1>2 DEF ResultInv, DatasetOpened, _parse_index, Indexed
<1>4. l.size \in Nat \ {0}
  BY <1>3 DEF ResultInv, DatasetOpened, ValidLine
<1>5. /\ g.path = Named(l) /\ g.off = l.off /\ g.shape = dataset.shape /\ g.dtype = dataset.dtype
      /\ g.nbytes = IF dataset.shape = NoShape THEN l.size ELSE None
  BY <1>3 DEF __getitem__, SampleOf, Named
<1>6. LoadArguments(g)
  BY <1>4, <1>5 DEF LoadArguments, ResultInv, DatasetOpened, None
<1>7. QED
  BY <1>2, <1>5, <1>6, LoadTensorFits DEF Fits

-----------------------------------------------------------------------------
\* No read of any thread uses a context that close_runtime has finalized, and none is
\* finalized twice.
THEOREM PythonNoUseAfterFinalize == Spec => []NoUseAfterFinalize
<1>1. ContextInv => NoUseAfterFinalize
  BY DEF ContextInv, HeldIsLive, FinalizedOnce, NoUseAfterFinalize
<1>2. QED
  BY <1>1, InitContexts, NextContexts, PTL DEF Spec

\* get_runtime loses a context only where two first calls race; else there is one.
THEOREM PythonLostOnlyInARace == Spec => []LostOnlyInARace
<1>1. ContextInv /\ NoRaceYet => LostOnlyInARace
  BY OneContext DEF NoRaceYet, Orphans, LostOnlyInARace
<1>2. QED
  BY <1>1, InitContexts, NextContexts, InitNoRace, NextNoRace, PTL DEF Spec

\* Whatever is imported, the elements that load_tensor and read_into_tensor return take
\* exactly the bytes read.
THEOREM PythonTensorsFit == Spec => []TensorsFitTheirBytes
  BY InitResults, NextResults, ResultsFit, PTL DEF Spec

\* Every sample of a dataset is the bytes its line of the index names.
THEOREM PythonSamplesIndexed == Spec => []SamplesAreIndexed
  BY InitResults, NextResults, ResultsIndexed, PTL DEF Spec
=============================================================================
