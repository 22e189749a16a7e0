----------------------------- MODULE RequestPool ------------------------------
(***************************************************************************)
(* Asynchronous reads of the core runtime (src/src/api.cpp): the request   *)
(* queue, the worker threads that memtier_init starts, the handles that    *)
(* memtier_wait, memtier_test, memtier_request_status and                  *)
(* memtier_request_free work on, and memtier_finalize.                     *)
(*                                                                         *)
(* A step is what a thread does inside one critical section, or one notify *)
(* call, which the code always makes after it has unlocked.  A condition   *)
(* variable is the set of threads blocked on it; a blocked thread may also *)
(* wake up spuriously.  What a worker reads for a request (do_read_impl)   *)
(* is the subject of ReadEngine; here it ends with a return code.          *)
(*                                                                         *)
(* Each request has an application thread of its own that submits it,      *)
(* awaits it and frees it.  The application keeps one rule: no thread is   *)
(* inside memtier_read_async when memtier_finalize is called, and none     *)
(* enters it afterwards.  It may wait for and free requests later.         *)
(***************************************************************************)
EXTENDS Integers, Sequences, FiniteSets

CONSTANTS
    Worker,      \* the context's worker threads: memtier_init starts at least one
    Request,     \* the requests that may be submitted, each at most once
    FreePolicy   \* when the application frees a request

ASSUME WorkerAssumption == Worker # {}
ASSUME PolicyAssumption == FreePolicy \in {"after_wait", "after_finalize"}

OK == "MEMTIER_OK"
Failed == "MEMTIER_ERR_IO"
Unset == "MEMTIER_ERR_INTERNAL"    \* the result memtier_read_async stores

ReturnCode == {OK, Failed}

VARIABLES
    queue,       \* ctx->queue
    stop,        \* ctx->stop
    ctx,         \* memtier_finalize: "running", "stopping", "joining" or "deleted"
    worker,      \* where each worker is
    job,         \* the request a worker has in hand (its local r)
    rc,          \* the return code of that request's read (its local rc)
    client,      \* where each request's application thread is
    done,        \* r->done
    result,      \* r->result
    answer       \* what memtier_wait or memtier_request_status gave the client

vars == <<queue, stop, ctx, worker, job, rc, client, done, result, answer>>

WorkerState == {"ready", "blocked", "reading", "finishing", "notifying", "exited"}

\* A worker between popping a request and its last access to it.
Holding == {"reading", "finishing", "notifying"}

ClientState == {"new", "submitting", "holding", "blocked", "woken", "tested",
                "finished", "freed"}

TypeOK ==
    /\ queue \in Seq(Request)
    /\ stop \in BOOLEAN
    /\ ctx \in {"running", "stopping", "joining", "deleted"}
    /\ worker \in [Worker -> WorkerState]
    /\ job \in [Worker -> Request]
    /\ rc \in [Worker -> ReturnCode]
    /\ client \in [Request -> ClientState]
    /\ done \in [Request -> BOOLEAN]
    /\ result \in [Request -> ReturnCode \cup {Unset}]
    /\ answer \in [Request -> ReturnCode \cup {Unset}]

\* memtier_init: every worker thread is about to lock q_mu for the first time.
\* job and rc are uninitialised locals; no step reads them before writing them.
Init ==
    /\ queue = <<>>
    /\ stop = FALSE
    /\ ctx = "running"
    /\ worker = [w \in Worker |-> "ready"]
    /\ job \in [Worker -> Request]
    /\ rc \in [Worker -> ReturnCode]
    /\ client = [r \in Request |-> "new"]
    /\ done = [r \in Request |-> FALSE]
    /\ result = [r \in Request |-> Unset]
    /\ answer = [r \in Request |-> Unset]

-----------------------------------------------------------------------------
(* memtier_read_async                                                      *)

\* Allocate the request and push it while holding q_mu.
Submit(r) ==
    /\ client[r] = "new"
    /\ ctx = "running"
    /\ queue' = Append(queue, r)
    /\ client' = [client EXCEPT ![r] = "submitting"]
    /\ UNCHANGED <<stop, ctx, worker, job, rc, done, result, answer>>

WakeNobody == UNCHANGED worker    \* Bug: the notification is missing

\* q_cv.notify_one(): wake one blocked worker if there is one.
WakeOne ==
    \/ \E w \in Worker :
          /\ worker[w] = "blocked"
          /\ worker' = [worker EXCEPT ![w] = "ready"]
    \/ /\ \A w \in Worker : worker[w] # "blocked"
       /\ UNCHANGED worker

\* Notify, then return r.
NotifyOne(r) ==
    /\ client[r] = "submitting"
    /\ WakeOne
    /\ client' = [client EXCEPT ![r] = "holding"]
    /\ UNCHANGED <<queue, stop, ctx, job, rc, done, result, answer>>

-----------------------------------------------------------------------------
(* The worker's loop                                                       *)

NothingPopped == queue    \* Bug: pop_front is missing

Popped == Tail(queue)

\* q_mu is locked, the predicate holds and the queue is not empty: pop the front.
Take(w) ==
    /\ worker[w] = "ready"
    /\ queue # <<>>
    /\ job' = [job EXCEPT ![w] = Head(queue)]
    /\ queue' = Popped
    /\ worker' = [worker EXCEPT ![w] = "reading"]
    /\ UNCHANGED <<stop, ctx, rc, client, done, result, answer>>

Stopped == stop    \* Bug: stop ends the loop although requests are queued

StoppedAndDrained == stop /\ queue = <<>>

\* The predicate holds because of stop, and the queue is empty: return.
Exit(w) ==
    /\ worker[w] = "ready"
    /\ StoppedAndDrained
    /\ worker' = [worker EXCEPT ![w] = "exited"]
    /\ UNCHANGED <<queue, stop, ctx, job, rc, client, done, result, answer>>

\* The predicate does not hold: block on q_cv.
Block(w) ==
    /\ worker[w] = "ready"
    /\ queue = <<>>
    /\ ~stop
    /\ worker' = [worker EXCEPT ![w] = "blocked"]
    /\ UNCHANGED <<queue, stop, ctx, job, rc, client, done, result, answer>>

\* q_cv.wait may return without a notification; it tests the predicate again.
WakeSpuriously(w) ==
    /\ worker[w] = "blocked"
    /\ worker' = [worker EXCEPT ![w] = "ready"]
    /\ UNCHANGED <<queue, stop, ctx, job, rc, client, done, result, answer>>

\* do_read_impl for the request in hand.
Read(w) ==
    /\ worker[w] = "reading"
    /\ \E c \in ReturnCode : rc' = [rc EXCEPT ![w] = c]
    /\ worker' = [worker EXCEPT ![w] = "finishing"]
    /\ UNCHANGED <<queue, stop, ctx, job, client, done, result, answer>>

Unstored(w) == result[job[w]]    \* Bug: the return code is not stored

Outcome(w) == rc[w]

\* While holding r->mu: store the result and set done.
Finish(w) ==
    /\ worker[w] = "finishing"
    /\ result' = [result EXCEPT ![job[w]] = Outcome(w)]
    /\ done' = [done EXCEPT ![job[w]] = TRUE]
    /\ worker' = [worker EXCEPT ![w] = "notifying"]
    /\ UNCHANGED <<queue, stop, ctx, job, rc, client, answer>>

Unnotified(r) == client[r]    \* Bug: notify_all is missing

Notified(r) == IF client[r] = "blocked" THEN "woken" ELSE client[r]

\* r->cv.notify_all(), after r->mu is unlocked: the last access to r.
NotifyClients(w) ==
    /\ worker[w] = "notifying"
    /\ client' = [client EXCEPT ![job[w]] = Notified(job[w])]
    /\ worker' = [worker EXCEPT ![w] = "ready"]
    /\ UNCHANGED <<queue, stop, ctx, job, rc, done, result, answer>>

-----------------------------------------------------------------------------
(* The client's use of its handle                                          *)

\* memtier_wait with r->mu locked: return the result if done, else block on r->cv.
Wait(r) ==
    /\ client[r] \in {"holding", "woken"}
    /\ IF done[r]
       THEN /\ client' = [client EXCEPT ![r] = "finished"]
            /\ answer' = [answer EXCEPT ![r] = result[r]]
       ELSE /\ client' = [client EXCEPT ![r] = "blocked"]
            /\ UNCHANGED answer
    /\ UNCHANGED <<queue, stop, ctx, worker, job, rc, done, result>>

\* r->cv.wait may return without a notification.
ClientWakesSpuriously(r) ==
    /\ client[r] = "blocked"
    /\ client' = [client EXCEPT ![r] = "woken"]
    /\ UNCHANGED <<queue, stop, ctx, worker, job, rc, done, result, answer>>

\* memtier_test: a poll that reports done.  One that does not changes nothing.
Test(r) ==
    /\ client[r] = "holding"
    /\ done[r]
    /\ client' = [client EXCEPT ![r] = "tested"]
    /\ UNCHANGED <<queue, stop, ctx, worker, job, rc, done, result, answer>>

ResultOf(r) == result[r]

\* memtier_request_status, called once memtier_test has reported done.
Status(r) ==
    /\ client[r] = "tested"
    /\ client' = [client EXCEPT ![r] = "finished"]
    /\ answer' = [answer EXCEPT ![r] = ResultOf(r)]
    /\ UNCHANGED <<queue, stop, ctx, worker, job, rc, done, result>>

\* memtier_request_free.
Free(r) ==
    /\ client[r] = "finished"
    /\ FreePolicy = "after_wait" \/ ctx = "deleted"
    /\ client' = [client EXCEPT ![r] = "freed"]
    /\ UNCHANGED <<queue, stop, ctx, worker, job, rc, done, result, answer>>

-----------------------------------------------------------------------------
(* memtier_finalize                                                        *)

\* Set stop while holding q_mu.
Stop ==
    /\ ctx = "running"
    /\ \A r \in Request : client[r] # "submitting"
    /\ stop' = TRUE
    /\ ctx' = "stopping"
    /\ UNCHANGED <<queue, worker, job, rc, client, done, result, answer>>

WakeJustOne == WakeOne    \* Bug: notify_one

\* q_cv.notify_all().
WakeAll == worker' = [w \in Worker |-> IF worker[w] = "blocked" THEN "ready" ELSE worker[w]]

NotifyAll ==
    /\ ctx = "stopping"
    /\ WakeAll
    /\ ctx' = "joining"
    /\ UNCHANGED <<queue, stop, job, rc, client, done, result, answer>>

NotJoined == TRUE    \* Bug: the workers are not joined

Joined == \A w \in Worker : worker[w] = "exited"

\* Every worker is joined; delete ctx.
Delete ==
    /\ ctx = "joining"
    /\ Joined
    /\ ctx' = "deleted"
    /\ UNCHANGED <<queue, stop, worker, job, rc, client, done, result, answer>>

-----------------------------------------------------------------------------
\* The context is gone and no request is left to free.
Terminated ==
    /\ ctx = "deleted"
    /\ \A r \in Request : client[r] \in {"new", "freed"}
    /\ UNCHANGED vars

WorkerStep(w) ==
    Take(w) \/ Exit(w) \/ Block(w) \/ Read(w) \/ Finish(w) \/ NotifyClients(w)

Next ==
    \/ \E w \in Worker : WorkerStep(w) \/ WakeSpuriously(w)
    \/ \E r \in Request :
          \/ Submit(r) \/ NotifyOne(r) \/ Wait(r) \/ ClientWakesSpuriously(r)
          \/ Test(r) \/ Status(r) \/ Free(r)
    \/ Stop \/ NotifyAll \/ Delete
    \/ Terminated

\* The operating system schedules the worker threads, and every thread that has
\* entered memtier_read_async, memtier_wait or memtier_finalize and can run.  Whether
\* and when the application calls these is its own choice.
Fairness ==
    /\ \A w \in Worker : WF_vars(WorkerStep(w))
    /\ \A r \in Request : /\ WF_vars(NotifyOne(r))
                          /\ WF_vars(client[r] = "woken" /\ Wait(r))
    /\ WF_vars(NotifyAll)
    /\ WF_vars(Delete)

SafetySpec == Init /\ [][Next]_vars

Spec == SafetySpec /\ Fairness

-----------------------------------------------------------------------------
(* Safety.                                                                 *)

Queued(r) == \E i \in 1..Len(queue) : queue[i] = r
InHand(r) == \E w \in Worker : worker[w] \in {"reading", "finishing"} /\ job[w] = r

\* A request is in one place: one queue position, or one worker's hands, or done.  So
\* none is lost between read_async and a worker, and none is read twice.
InOnePlace ==
    /\ \A i, j \in 1..Len(queue) : queue[i] = queue[j] => i = j
    /\ \A w, v \in Worker :
           worker[w] \in Holding /\ worker[v] \in Holding /\ job[w] = job[v] => w = v
    /\ \A r \in Request :
           /\ ~(Queued(r) /\ InHand(r))
           /\ done[r] => ~Queued(r) /\ ~InHand(r)
           /\ client[r] # "new" <=> Queued(r) \/ InHand(r) \/ done[r]

\* A client that was told its request is done got the return code that the read
\* ended with, never the MEMTIER_ERR_INTERNAL that read_async stored.
AnswerIsResult ==
    \A r \in Request : client[r] \in {"finished", "freed"} =>
        answer[r] = result[r] /\ answer[r] \in ReturnCode

\* No worker touches a request after the client has freed it: job[w] is dereferenced
\* until r->cv.notify_all() has returned.
NoUseAfterFree ==
    \A w \in Worker : worker[w] \in Holding => client[job[w]] # "freed"

\* memtier_finalize deletes the context only when every submitted request has been
\* served and every worker has left its loop.
FinalizeDrains ==
    ctx = "deleted" =>
        /\ queue = <<>>
        /\ \A w \in Worker : worker[w] = "exited"
        /\ \A r \in Request : client[r] # "new" => done[r]

-----------------------------------------------------------------------------
(* Liveness.                                                               *)

\* Every submitted request is served, also when memtier_finalize is called while it
\* is still queued.
EveryRequestServed == \A r \in Request : client[r] = "submitting" ~> done[r]

\* memtier_wait returns: a blocked client is woken after done is set.
EveryWaiterReturns == \A r \in Request : client[r] = "blocked" ~> client[r] \in {"finished", "freed"}

\* memtier_finalize returns: stop reaches every worker, also the blocked ones.
FinalizeReturns == ctx = "stopping" ~> ctx = "deleted"
=============================================================================
