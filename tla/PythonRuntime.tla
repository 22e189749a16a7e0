---------------------------- MODULE PythonRuntime -----------------------------
(***************************************************************************)
(* The Python wrapper of the core library (python/memtier): the context    *)
(* that get_runtime creates on first use and all threads share, and the    *)
(* calls read_into_tensor, load_tensor, load_chunks and                    *)
(* MemTierDataset.__getitem__.                                             *)
(*                                                                         *)
(* Threads are Python threads: the interpreter may switch between any two  *)
(* bytecodes, and the lock is released while a function of the library     *)
(* runs.  The library is external here: memtier_read fills the buffer with *)
(* the file's bytes or fails when the file has not got them (what          *)
(* ReadEngine shows).  A context is a number; nobody calls close_runtime   *)
(* while a call is under way, which is the caller's duty.  Hints, cuda     *)
(* devices and transforms change no result.                                *)
(***************************************************************************)
EXTENDS Integers, Sequences, FiniteSets

CONSTANTS
    Thread,
    FileSize,      \* the length of each file
    Call,          \* the calls a thread may make: records, see MCPythonRuntime
    Dataset,       \* arguments of MemTierDataset with the index's lines
    MaxCalls,      \* bound: calls per thread
    MaxContexts    \* bound: contexts ever created

ASSUME PythonAssumption ==
    /\ FileSize \in [DOMAIN FileSize -> Nat]
    /\ MaxCalls \in Nat /\ MaxContexts \in Nat \ {0}

None == 0         \* None: no context, an argument that is not given
NoShape == <<-1>>
NoPath == ""
NoCall == [op |-> "none"]

VARIABLES
    env,        \* what could be imported: the subset of {"torch", "numpy"}
    dataset,    \* a MemTierDataset: its arguments and samples
    ctx,        \* _ctx
    created,    \* how many contexts memtier_init has made
    live,       \* the contexts not finalized
    pc,         \* where each thread is: "idle" between calls
    cur,        \* its call
    out,        \* its context: out or ctx of get_runtime
    last,       \* the call that ended last, with its result
    calls,      \* history: calls made
    finalized,  \* history: the contexts given to memtier_finalize, in order
    overlapped  \* history: two threads were between the check of _ctx and the assignment

ctxVars == <<ctx, created, live, finalized, overlapped>>
vars == <<env, dataset, ctxVars, pc, cur, out, last, calls>>

-----------------------------------------------------------------------------
(* The index of a dataset.                                                 *)

\* A line has n fields: five with a path, four without one.
ValidLine(l, data_file) ==
    /\ l.n = 5 \/ (l.n = 4 /\ data_file # NoPath)
    /\ l.off \in Nat /\ l.size \in Nat \ {0}

\* Bug: data_file overrides the line's path.
SampleInDataFile(l, data_file) ==
    [path |-> IF data_file # NoPath THEN data_file ELSE l.path,
     off |-> l.off, size |-> l.size, label |-> l.label]

SampleOf(l, data_file) ==
    [path |-> IF l.n = 5 THEN l.path ELSE data_file, off |-> l.off, size |-> l.size, label |-> l.label]

\* Blank lines are skipped; any other line that is not valid raises ValueError.
NotBlank(l) == l.n > 0
Kept(lines) == SelectSeq(lines, NotBlank)

_parse_index(lines, data_file) == [i \in DOMAIN Kept(lines) |-> SampleOf(Kept(lines)[i], data_file)]

Opens(d) == \A i \in DOMAIN Kept(d.lines) : ValidLine(Kept(d.lines)[i], d.data_file)

-----------------------------------------------------------------------------
(* Reading into buffers.  A result is Error, or a range of a file with the *)
(* elements that were made of it.                                          *)

Error == [ok |-> FALSE]

\* The bytes of a path from off on, as elements of a type.
Elements(path, off, shape, dtype, n) ==
    [ok |-> TRUE, path |-> path, off |-> off, n |-> n, shape |-> shape, dtype |-> dtype]

_DTYPE_SIZE == [uint8 |-> 1, int32 |-> 4, float16 |-> 2, float32 |-> 4]

\* The arguments have their types.
ASSUME ArgumentAssumption ==
    /\ \A c \in Call :
           /\ c.op \in {"read_into_tensor", "load_tensor", "getitem", "load_chunks"}
           /\ c.op \in {"read_into_tensor", "load_tensor"} =>
                  /\ c.off \in Nat /\ c.nbytes \in Nat
                  /\ c.shape \in Seq(Int) /\ c.dtype \in DOMAIN _DTYPE_SIZE
    /\ \A d \in Dataset : d.shape \in Seq(Int) /\ d.dtype \in DOMAIN _DTYPE_SIZE

_numel(shape) == LET f[i \in 0..Len(shape)] == IF i = 0 THEN 1 ELSE f[i - 1] * shape[i] IN f[Len(shape)]

Exists(path, off, n) == path \in DOMAIN FileSize /\ n > 0 /\ off + n <= FileSize[path]

\* The argument of load_tensor that says how much to read.
Nbytes(c) == IF c.nbytes = None THEN _numel(c.shape) * _DTYPE_SIZE[c.dtype] ELSE c.nbytes

\* read_into_tensor: the tensor's own size counts.
IntoTensor(c, shape, dtype) ==
    LET n == _numel(shape) * _DTYPE_SIZE[dtype]
    IN  IF Exists(c.path, c.off, n) THEN Elements(c.path, c.off, shape, dtype, n) ELSE Error

\* Bug: without a shape the elements have the asked type, as many as there are bytes.
TorchTensorTyped(c) == IntoTensor(c, IF c.shape # NoShape THEN c.shape ELSE <<Nbytes(c)>>, c.dtype)

\* With torch: a tensor of the shape, or of bytes.
TorchTensor(c) ==
    IF c.shape # NoShape THEN IntoTensor(c, c.shape, c.dtype) ELSE IntoTensor(c, <<Nbytes(c)>>, "uint8")

\* Without torch: bytes, or with numpy an array, if the bytes fit its type and shape.
ArrayOrBytes(c) ==
    LET n == Nbytes(c)
        elements == n \div _DTYPE_SIZE[c.dtype]
    IN  IF ~Exists(c.path, c.off, n) THEN Error
        ELSE IF "numpy" \notin env THEN Elements(c.path, c.off, <<n>>, "uint8", n)
        ELSE IF n % _DTYPE_SIZE[c.dtype] # 0 \/ (c.shape # NoShape /\ _numel(c.shape) # elements)
        THEN Error
        ELSE Elements(c.path, c.off, IF c.shape = NoShape THEN <<elements>> ELSE c.shape, c.dtype, n)

load_tensor(c) == IF "torch" \in env THEN TorchTensor(c) ELSE ArrayOrBytes(c)

\* load_chunks reads the file itself; nothing can be read anywhere.
load_chunks(c) ==
    IF /\ c.path \in DOMAIN FileSize
       /\ \A i \in DOMAIN c.offsets : c.lengths[i] = 0 \/ Exists(c.path, c.offsets[i], c.lengths[i])
    THEN [ok |-> TRUE, chunks |-> [i \in DOMAIN c.offsets |-> <<c.path, c.offsets[i], c.lengths[i]>>]]
    ELSE Error

\* The arguments that are refused before the library is used.
Refused(c) ==
    CASE c.op = "read_into_tensor" -> "torch" \notin env \/ ~c.contiguous
      [] c.op = "load_tensor" -> c.nbytes = None /\ c.shape = NoShape
      [] c.op = "getitem" -> c.idx \notin DOMAIN dataset.samples
      [] c.op = "load_chunks" -> Len(c.offsets) # Len(c.lengths)

\* The call of load_tensor that __getitem__ makes.
__getitem__(idx) ==
    LET s == dataset.samples[idx]
    IN  [path |-> s.path, off |-> s.off, shape |-> dataset.shape, dtype |-> dataset.dtype,
         nbytes |-> IF dataset.shape = NoShape THEN s.size ELSE None]

Result(c) ==
    CASE c.op = "read_into_tensor" -> IntoTensor(c, c.shape, c.dtype)
      [] c.op = "load_tensor" -> load_tensor(c)
      [] c.op = "getitem" -> load_tensor(__getitem__(c.idx))

-----------------------------------------------------------------------------
(* Threads.                                                                *)

Init ==
    /\ env \in SUBSET {"torch", "numpy"}
    /\ \E d \in {x \in Dataset : Opens(x)} :
           dataset = [samples |-> _parse_index(d.lines, d.data_file), lines |-> d.lines,
                      data_file |-> d.data_file, shape |-> d.shape, dtype |-> d.dtype]
    /\ ctx = None /\ created = 0 /\ live = {} /\ finalized = <<>> /\ overlapped = FALSE
    /\ pc = [t \in Thread |-> "idle"]
    /\ cur = [t \in Thread |-> NoCall] /\ last = [call |-> NoCall, got |-> Error]
    /\ out = [t \in Thread |-> None]
    /\ calls = [t \in Thread |-> 0]

Goto(t, l) == pc' = [pc EXCEPT ![t] = l]

\* Thread t's call c returns r.
End(t, c, r) ==
    /\ Goto(t, "idle")
    /\ cur' = [cur EXCEPT ![t] = NoCall]
    /\ last' = [call |-> c, got |-> r]

Begin(t, c) ==
    /\ pc[t] = "idle" /\ calls[t] < MaxCalls
    /\ \A u \in Thread : pc[u] # "closing"
    /\ calls' = [calls EXCEPT ![t] = @ + 1]
    /\ \/ Refused(c) /\ End(t, c, Error)
       \/ ~Refused(c) /\ c.op = "load_chunks" /\ End(t, c, load_chunks(c))
       \/ /\ ~Refused(c) /\ c.op # "load_chunks"
          /\ cur' = [cur EXCEPT ![t] = c]
          /\ Goto(t, "check") /\ UNCHANGED last
    /\ UNCHANGED <<env, dataset, ctxVars, out>>

\* The threads that saw no context and have not assigned theirs.
Creating == {t \in Thread : pc[t] \in {"create", "assign"}}

\* Bug: a context is created whatever _ctx is.
AlwaysCreate(t) ==
    /\ pc[t] = "check"
    /\ Goto(t, "create")
    /\ overlapped' = (overlapped \/ Creating # {})
    /\ UNCHANGED <<env, dataset, ctx, created, live, finalized, cur, out, last, calls>>

\* if _ctx is None
CheckCtx(t) ==
    /\ pc[t] = "check"
    /\ Goto(t, IF ctx = None THEN "create" ELSE "return")
    /\ overlapped' = (overlapped \/ (ctx = None /\ Creating # {}))
    /\ UNCHANGED <<env, dataset, ctx, created, live, finalized, cur, out, last, calls>>

\* memtier_init, with its own workers.
InitCtx(t) ==
    /\ pc[t] = "create" /\ created < MaxContexts
    /\ created' = created + 1 /\ live' = live \cup {created'}
    /\ out' = [out EXCEPT ![t] = created']
    /\ Goto(t, "assign")
    /\ UNCHANGED <<env, dataset, ctx, finalized, overlapped, cur, last, calls>>

\* memtier_init fails, for want of memory.
InitFails(t) ==
    /\ pc[t] = "create"
    /\ End(t, cur[t], Error)
    /\ UNCHANGED <<env, dataset, ctxVars, out, calls>>

\* _ctx = out
AssignCtx(t) ==
    /\ pc[t] = "assign"
    /\ ctx' = out[t]
    /\ Goto(t, "return")
    /\ UNCHANGED <<env, dataset, created, live, finalized, overlapped, cur, out, last, calls>>

\* return _lib, _ctx reads the global once more; memtier_read begins.
ReturnCtx(t) ==
    /\ pc[t] = "return"
    /\ out' = [out EXCEPT ![t] = ctx]
    /\ Goto(t, "read")
    /\ UNCHANGED <<env, dataset, ctxVars, cur, last, calls>>

\* memtier_read is over and the result made.
Read(t) ==
    /\ pc[t] = "read"
    /\ End(t, cur[t], Result(cur[t]))
    /\ out' = [out EXCEPT ![t] = None]
    /\ UNCHANGED <<env, dataset, ctxVars, calls>>

\* close_runtime: memtier_finalize, then _ctx = None.
Finalize(t) ==
    /\ \A u \in Thread : pc[u] = "idle"
    /\ ctx # None
    /\ live' = live \ {ctx} /\ finalized' = Append(finalized, ctx)
    /\ Goto(t, "closing")
    /\ UNCHANGED <<env, dataset, ctx, created, overlapped, cur, out, last, calls>>

\* Bug: the global keeps the context.
KeepCtx(t) ==
    /\ pc[t] = "closing"
    /\ Goto(t, "idle")
    /\ UNCHANGED <<env, dataset, ctxVars, cur, out, last, calls>>

ForgetCtx(t) ==
    /\ pc[t] = "closing"
    /\ ctx' = None
    /\ Goto(t, "idle")
    /\ UNCHANGED <<env, dataset, created, live, finalized, overlapped, cur, out, last, calls>>

get_runtime(t) == CheckCtx(t) \/ InitCtx(t) \/ InitFails(t) \/ AssignCtx(t) \/ ReturnCtx(t)

close_runtime(t) == Finalize(t) \/ ForgetCtx(t)

Done == (\A t \in Thread : pc[t] = "idle" /\ calls[t] = MaxCalls) /\ UNCHANGED vars

Next ==
    \/ Done
    \/ \E t \in Thread :
           (\E c \in Call : Begin(t, c)) \/ get_runtime(t) \/ Read(t) \/ close_runtime(t)

Spec == Init /\ [][Next]_vars

-----------------------------------------------------------------------------
(* Properties.                                                             *)

\* No read uses a context that close_runtime has finalized, and no context is finalized
\* twice, as long as close_runtime is called between calls: also when it is called again
\* and again, and when several threads create contexts at once.
NoUseAfterFinalize ==
    /\ \A t \in Thread : pc[t] = "read" => out[t] \in live
    /\ \A i, j \in DOMAIN finalized : finalized[i] = finalized[j] => i = j

\* The contexts that nothing will ever finalize.
Orphans == {c \in live : c # ctx /\ \A t \in Thread : out[t] # c}

\* get_runtime creates one context for all threads and loses none, unless two threads
\* made the first call at the same time: it has no lock.
LostOnlyInARace ==
    /\ Orphans # {} => overlapped
    /\ ~overlapped => Cardinality(live) <= 1

\* The file that a line of the index names.
Named(l) == IF l.n = 5 THEN l.path ELSE dataset.data_file

Indexed == Kept(dataset.lines)

\* A sample of a dataset is exactly the bytes its line of the index names, of the line's
\* file, unless the dataset's shape has another size; then it is as many as the shape has.
SamplesAreIndexed ==
    LET r == last.got IN
    last.call.op = "getitem" /\ r.ok =>
        LET l == Indexed[last.call.idx] IN
        /\ r.path = Named(l) /\ r.off = l.off
        /\ r.n = IF dataset.shape = NoShape THEN l.size
                 ELSE _numel(dataset.shape) * _DTYPE_SIZE[dataset.dtype]

\* Whatever is imported, load_tensor and read_into_tensor return elements that take
\* exactly the bytes read, from the offset on, and without a shape as many as asked for.
TensorsFitTheirBytes ==
    LET c == last.call  r == last.got IN
    c.op \in {"load_tensor", "read_into_tensor"} /\ r.ok =>
        /\ _numel(r.shape) * _DTYPE_SIZE[r.dtype] = r.n
        /\ r.path = c.path /\ r.off = c.off
        /\ c.shape = NoShape => r.n = c.nbytes
=============================================================================
