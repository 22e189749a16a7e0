-------------------------- MODULE RequestPoolProofs ---------------------------
(***************************************************************************)
(* The request queue loses and repeats no request, its clients get the     *)
(* result of the read, and memtier_finalize drains the queue, for every    *)
(* number of workers and requests.  Freeing requests after                 *)
(* memtier_finalize is safe; RequestPoolFree.cfg shows that freeing them   *)
(* after memtier_wait is not.                                              *)
(***************************************************************************)
EXTENDS RequestPool, TLAPS

\* stop is set by memtier_finalize alone, a worker leaves its loop only when no request
\* is queued, and the context is deleted after every worker has left.
Shutdown ==
    /\ stop <=> ctx # "running"
    /\ \A w \in Worker : worker[w] = "exited" => stop /\ queue = <<>>
    /\ ctx = "deleted" => \A w \in Worker : worker[w] = "exited"
    /\ FreePolicy = "after_finalize" =>
           \A r \in Request : client[r] = "freed" => ctx = "deleted"

\* What done stands for: its result is final, and only a done request is notified,
\* reported or freed.
Completed ==
    /\ \A w \in Worker : worker[w] = "notifying" => done[job[w]]
    /\ \A r \in Request :
           /\ done[r] => result[r] \in ReturnCode
           /\ client[r] \in {"tested", "finished", "freed"} => done[r]
           /\ client[r] \in {"finished", "freed"} => answer[r] = result[r]

\* The inductive invariant.
PoolInv == TypeOK /\ Shutdown /\ InOnePlace /\ Completed

-----------------------------------------------------------------------------
(* What push_back and pop_front do to the requests that are queued.        *)

LEMMA QueuedAfterPush ==
    ASSUME TypeOK, NEW r \in Request, queue' = Append(queue, r)
    PROVE  /\ Len(queue') = Len(queue) + 1
           /\ \A i \in 1..Len(queue) : queue'[i] = queue[i]
           /\ queue'[Len(queue) + 1] = r
           /\ \A s \in Request : Queued(s)' <=> Queued(s) \/ s = r
<1>1. queue \in Seq(Request) /\ Len(queue) \in Nat
  BY DEF TypeOK
<1>2. /\ Len(queue') = Len(queue) + 1
      /\ \A i \in 1..Len(queue) : queue'[i] = queue[i]
      /\ queue'[Len(queue) + 1] = r
  BY <1>1
<1>3. ASSUME NEW s \in Request PROVE Queued(s)' <=> Queued(s) \/ s = r
  <2>1. CASE Queued(s)
    <3>1. PICK i \in 1..Len(queue) : queue[i] = s
      BY <2>1 DEF Queued
    <3>2. QED
      BY <1>1, <1>2, <2>1, <3>1 DEF Queued
  <2>2. CASE s = r
    BY <1>1, <1>2, <2>2 DEF Queued
  <2>3. CASE Queued(s)'
    <3>1. PICK i \in 1..(Len(queue) + 1) : queue'[i] = s
      BY <1>2, <2>3 DEF Queued
    <3>2. CASE i = Len(queue) + 1
      BY <1>2, <2>2, <3>1, <3>2
    <3>3. CASE i \in 1..Len(queue)
      BY <1>2, <3>1, <3>3 DEF Queued
    <3>4. QED
      BY <1>1, <3>1, <3>2, <3>3
  <2>4. QED
    BY <2>1, <2>2, <2>3
<1>4. QED
  BY <1>2, <1>3

LEMMA QueuedAfterPop ==
    ASSUME TypeOK, queue # <<>>, queue' = Tail(queue),
           \A i, j \in 1..Len(queue) : queue[i] = queue[j] => i = j
    PROVE  /\ Head(queue) \in Request
           /\ Queued(Head(queue))
           /\ \A i, j \in 1..Len(queue') : queue'[i] = queue'[j] => i = j
           /\ \A s \in Request : Queued(s)' <=> Queued(s) /\ s # Head(queue)
<1>1. queue \in Seq(Request) /\ Len(queue) \in Nat /\ Len(queue) > 0
  BY DEF TypeOK
<1>2. /\ Len(queue') = Len(queue) - 1
      /\ \A i \in 1..(Len(queue) - 1) : queue'[i] = queue[i + 1]
      /\ Head(queue) = queue[1]
  BY <1>1
<1>3. Head(queue) \in Request /\ Queued(Head(queue))
  BY <1>1, <1>2 DEF Queued
<1>4. ASSUME NEW i \in 1..Len(queue'), NEW j \in 1..Len(queue'), queue'[i] = queue'[j]
      PROVE  i = j
  <2>1. i + 1 \in 1..Len(queue) /\ j + 1 \in 1..Len(queue)
    BY <1>1, <1>2
  <2>2. queue[i + 1] = queue[j + 1]
    BY <1>1, <1>2, <1>4
  <2>3. QED
    BY <2>1, <2>2, <1>1
<1>5. ASSUME NEW s \in Request PROVE Queued(s)' <=> Queued(s) /\ s # Head(queue)
  <2>1. ASSUME Queued(s)' PROVE Queued(s) /\ s # Head(queue)
    <3>1. PICK i \in 1..(Len(queue) - 1) : queue'[i] = s
      BY <1>2, <2>1 DEF Queued
    <3>2. i + 1 \in 1..Len(queue) /\ queue[i + 1] = s /\ i + 1 # 1
      BY <1>1, <1>2, <3>1
    <3>3. 1 \in 1..Len(queue)
      BY <1>1
    <3>4. QED
      BY <1>2, <3>2, <3>3 DEF Queued
  <2>2. ASSUME Queued(s), s # Head(queue) PROVE Queued(s)'
    <3>1. PICK i \in 1..Len(queue) : queue[i] = s
      BY <2>2 DEF Queued
    <3>2. i - 1 \in 1..(Len(queue) - 1) /\ queue'[i - 1] = s
      BY <1>1, <1>2, <2>2, <3>1
    <3>3. QED
      BY <1>2, <3>2 DEF Queued
  <2>3. QED
    BY <2>1, <2>2
<1>6. QED
  BY <1>3, <1>4, <1>5

\* A step that leaves the queue alone leaves the queued requests alone.
LEMMA QueuedUnchanged ==
    ASSUME UNCHANGED queue, NEW r
    PROVE  Queued(r)' <=> Queued(r)
  BY DEF Queued

-----------------------------------------------------------------------------
LEMMA InitPoolInv == Init => PoolInv
<1> SUFFICES ASSUME Init PROVE PoolInv
  OBVIOUS
<1>1. TypeOK
  <2>1. queue \in Seq(Request)
    BY DEF Init
  <2>2. stop \in BOOLEAN
    BY DEF Init
  <2>3. worker \in [Worker -> WorkerState] /\ client \in [Request -> ClientState]
    BY DEF Init, WorkerState, ClientState
  <2>4. done \in [Request -> BOOLEAN]
    BY DEF Init
  <2>5. QED
    BY <2>1, <2>2, <2>3, <2>4 DEF Init, TypeOK
<1>2. Shutdown
  BY DEF Init, Shutdown
<1>3. InOnePlace
  BY DEF Init, InOnePlace, Queued, InHand, Holding
<1>4. Completed
  BY DEF Init, Completed
<1>5. QED
  BY <1>1, <1>2, <1>3, <1>4 DEF PoolInv

LEMMA NextTypeOK == TypeOK /\ [Next]_vars => TypeOK'
<1> SUFFICES ASSUME TypeOK, [Next]_vars PROVE TypeOK'
  OBVIOUS
<1> USE DEF TypeOK, WorkerState, ClientState, ReturnCode
<1>1. ASSUME NEW w \in Worker, Take(w) PROVE TypeOK'
  BY <1>1 DEF Take, Popped
<1>2. ASSUME NEW w \in Worker, Exit(w) \/ Block(w) \/ WakeSpuriously(w) PROVE TypeOK'
  BY <1>2 DEF Exit, Block, WakeSpuriously
<1>3. ASSUME NEW w \in Worker, Read(w) PROVE TypeOK'
  BY <1>3 DEF Read
<1>4. ASSUME NEW w \in Worker, Finish(w) PROVE TypeOK'
  BY <1>4 DEF Finish, Outcome
<1>5. ASSUME NEW w \in Worker, NotifyClients(w) PROVE TypeOK'
  BY <1>5 DEF NotifyClients, Notified
<1>6. ASSUME NEW r \in Request, Submit(r) PROVE TypeOK'
  BY <1>6 DEF Submit
<1>7. ASSUME NEW r \in Request, NotifyOne(r) PROVE TypeOK'
  BY <1>7 DEF NotifyOne, WakeOne
<1>8. ASSUME NEW r \in Request, Wait(r) PROVE TypeOK'
  BY <1>8 DEF Wait
<1>9. ASSUME NEW r \in Request, ClientWakesSpuriously(r) \/ Test(r) \/ Free(r) PROVE TypeOK'
  BY <1>9 DEF ClientWakesSpuriously, Test, Free
<1>10. ASSUME NEW r \in Request, Status(r) PROVE TypeOK'
  BY <1>10 DEF Status, ResultOf
<1>11. ASSUME Stop \/ Delete PROVE TypeOK'
  BY <1>11 DEF Stop, Delete
<1>12. ASSUME NotifyAll PROVE TypeOK'
  BY <1>12 DEF NotifyAll, WakeAll
<1>13. ASSUME UNCHANGED vars PROVE TypeOK'
  BY <1>13 DEF vars
<1>14. QED
  BY <1>1, <1>2, <1>3, <1>4, <1>5, <1>6, <1>7, <1>8, <1>9, <1>10, <1>11, <1>12, <1>13
  DEF Next, WorkerStep, Terminated

LEMMA NextShutdown == PoolInv /\ [Next]_vars => Shutdown'
<1> SUFFICES ASSUME PoolInv, [Next]_vars PROVE Shutdown'
  OBVIOUS
<1> USE DEF PoolInv, TypeOK, WorkerState, ClientState, Shutdown
<1>1. ASSUME NEW w \in Worker, Take(w) PROVE Shutdown'
  BY <1>1 DEF Take, Popped
<1>2. ASSUME NEW w \in Worker, Exit(w) PROVE Shutdown'
  BY <1>2 DEF Exit, StoppedAndDrained
<1>3. ASSUME NEW w \in Worker, Block(w) \/ WakeSpuriously(w) \/ Read(w) PROVE Shutdown'
  BY <1>3 DEF Block, WakeSpuriously, Read
<1>4. ASSUME NEW w \in Worker, Finish(w) PROVE Shutdown'
  BY <1>4 DEF Finish
<1>5. ASSUME NEW w \in Worker, NotifyClients(w) PROVE Shutdown'
  BY <1>5 DEF NotifyClients, Notified
<1>6. ASSUME NEW r \in Request, Submit(r) PROVE Shutdown'
  BY <1>6 DEF Submit
<1>7. ASSUME NEW r \in Request, NotifyOne(r) PROVE Shutdown'
  BY <1>7 DEF NotifyOne, WakeOne
<1>8. ASSUME NEW r \in Request, Wait(r) PROVE Shutdown'
  BY <1>8 DEF Wait
<1>9. ASSUME NEW r \in Request, ClientWakesSpuriously(r) \/ Test(r) \/ Status(r) PROVE Shutdown'
  BY <1>9 DEF ClientWakesSpuriously, Test, Status
<1>10. ASSUME NEW r \in Request, Free(r) PROVE Shutdown'
  BY <1>10 DEF Free
<1>11. ASSUME Stop PROVE Shutdown'
  BY <1>11 DEF Stop
<1>12. ASSUME NotifyAll PROVE Shutdown'
  BY <1>12 DEF NotifyAll, WakeAll
<1>13. ASSUME Delete PROVE Shutdown'
  BY <1>13 DEF Delete, Joined
<1>14. ASSUME UNCHANGED vars PROVE Shutdown'
  BY <1>14 DEF vars
<1>15. QED
  BY <1>1, <1>2, <1>3, <1>4, <1>5, <1>6, <1>7, <1>8, <1>9, <1>10, <1>11, <1>12, <1>13, <1>14
  DEF Next, WorkerStep, Terminated

LEMMA NextCompleted == PoolInv /\ [Next]_vars => Completed'
<1> SUFFICES ASSUME PoolInv, [Next]_vars PROVE Completed'
  OBVIOUS
<1> USE DEF PoolInv, TypeOK, WorkerState, ClientState, Completed
<1>1. ASSUME NEW w \in Worker, Take(w) PROVE Completed'
  BY <1>1 DEF Take, Popped
<1>2. ASSUME NEW w \in Worker, Exit(w) \/ Block(w) \/ WakeSpuriously(w) PROVE Completed'
  BY <1>2 DEF Exit, Block, WakeSpuriously
<1>3. ASSUME NEW w \in Worker, Read(w) PROVE Completed'
  BY <1>3 DEF Read
<1>4. ASSUME NEW w \in Worker, Finish(w) PROVE Completed'
  <2>1. InHand(job[w])
    BY <1>4 DEF Finish, InHand
  <2>2. ~done[job[w]]
    BY <2>1 DEF InOnePlace
  <2>3. QED
    BY <1>4, <2>2 DEF Finish, Outcome, ReturnCode
<1>5. ASSUME NEW w \in Worker, NotifyClients(w) PROVE Completed'
  BY <1>5 DEF NotifyClients, Notified
<1>6. ASSUME NEW r \in Request, Submit(r) PROVE Completed'
  BY <1>6 DEF Submit
<1>7. ASSUME NEW r \in Request, NotifyOne(r) PROVE Completed'
  BY <1>7 DEF NotifyOne, WakeOne
<1>8. ASSUME NEW r \in Request, Wait(r) PROVE Completed'
  BY <1>8 DEF Wait
<1>9. ASSUME NEW r \in Request, ClientWakesSpuriously(r) \/ Test(r) \/ Free(r) PROVE Completed'
  BY <1>9 DEF ClientWakesSpuriously, Test, Free
<1>10. ASSUME NEW r \in Request, Status(r) PROVE Completed'
  BY <1>10 DEF Status, ResultOf
<1>11. ASSUME Stop \/ Delete PROVE Completed'
  BY <1>11 DEF Stop, Delete
<1>12. ASSUME NotifyAll PROVE Completed'
  BY <1>12 DEF NotifyAll, WakeAll
<1>13. ASSUME UNCHANGED vars PROVE Completed'
  BY <1>13 DEF vars
<1>14. QED
  BY <1>1, <1>2, <1>3, <1>4, <1>5, <1>6, <1>7, <1>8, <1>9, <1>10, <1>11, <1>12, <1>13
  DEF Next, WorkerStep, Terminated

LEMMA NextInOnePlace == PoolInv /\ [Next]_vars => InOnePlace'
<1> SUFFICES ASSUME PoolInv, [Next]_vars PROVE InOnePlace'
  OBVIOUS
<1> DEFINE Distinct == \A i, j \in 1..Len(queue) : queue[i] = queue[j] => i = j
           OneHolder == \A w, v \in Worker :
               worker[w] \in Holding /\ worker[v] \in Holding /\ job[w] = job[v] => w = v
           Placed(r) == /\ ~(Queued(r) /\ InHand(r))
                        /\ done[r] => ~Queued(r) /\ ~InHand(r)
                        /\ client[r] # "new" <=> Queued(r) \/ InHand(r) \/ done[r]
<1>0. Distinct /\ OneHolder /\ \A r \in Request : Placed(r)
  BY DEF PoolInv, InOnePlace
<1> USE DEF PoolInv, TypeOK, WorkerState, ClientState, Holding
\* Actions that neither queue, pop nor finish a request.
<1>1. ASSUME UNCHANGED <<queue, done>>,
             OneHolder',
             \A r \in Request : (InHand(r)' <=> InHand(r)) /\ (client[r]' = "new" <=> client[r] = "new")
      PROVE  InOnePlace'
  <2>1. \A r \in Request : Queued(r)' <=> Queued(r)
    BY <1>1 DEF Queued
  <2>2. QED
    BY <1>0, <1>1, <2>1 DEF InOnePlace
<1>2. ASSUME NEW w \in Worker, Take(w) PROVE InOnePlace'
  <2> DEFINE h == Head(queue)
  <2>1. /\ h \in Request /\ Queued(h) /\ Distinct'
        /\ \A s \in Request : Queued(s)' <=> Queued(s) /\ s # h
    BY <1>0, <1>2, QueuedAfterPop DEF Take, Popped
  <2>2. ~InHand(h) /\ ~done[h]
    BY <1>0, <2>1
  <2>3. \A v \in Worker : worker[v] \in Holding => job[v] # h
    BY <2>2 DEF InHand, Completed
  <2> HIDE DEF h
  <2>4. /\ worker[w] = "ready"
        /\ job' = [job EXCEPT ![w] = h]
        /\ worker' = [worker EXCEPT ![w] = "reading"]
        /\ UNCHANGED <<client, done>>
    BY <1>2 DEF Take, h
  <2>5. OneHolder'
    BY <1>0, <2>3, <2>4
  <2>6. \A s \in Request : InHand(s)' <=> InHand(s) \/ s = h
    BY <2>4 DEF InHand
  <2>7. QED
    BY <1>0, <2>1, <2>2, <2>4, <2>5, <2>6 DEF InOnePlace
<1>3. ASSUME NEW w \in Worker, Exit(w) \/ Block(w) \/ WakeSpuriously(w) PROVE InOnePlace'
  <2>1. OneHolder' /\ \A r \in Request : InHand(r)' <=> InHand(r)
    BY <1>0, <1>3 DEF Exit, Block, WakeSpuriously, InHand
  <2>2. QED
    BY <1>1, <1>3, <2>1 DEF Exit, Block, WakeSpuriously
<1>4. ASSUME NEW w \in Worker, Read(w) PROVE InOnePlace'
  <2>1. OneHolder' /\ \A r \in Request : InHand(r)' <=> InHand(r)
    BY <1>0, <1>4 DEF Read, InHand
  <2>2. QED
    BY <1>1, <1>4, <2>1 DEF Read
<1>5. ASSUME NEW w \in Worker, Finish(w) PROVE InOnePlace'
  <2>1. InHand(job[w]) /\ job[w] \in Request
    BY <1>5 DEF Finish, InHand
  <2>2. \A s \in Request : InHand(s)' <=> InHand(s) /\ s # job[w]
    BY <1>0, <1>5 DEF Finish, InHand
  <2>3. \A s \in Request : Queued(s)' <=> Queued(s)
    BY <1>5 DEF Finish, Queued
  <2>4. \A s \in Request : done'[s] <=> done[s] \/ s = job[w]
    BY <1>5, <2>1 DEF Finish
  <2>5. Distinct' /\ OneHolder'
    BY <1>0, <1>5 DEF Finish
  <2>6. UNCHANGED client
    BY <1>5 DEF Finish
  <2>7. QED
    BY <1>0, <2>1, <2>2, <2>3, <2>4, <2>5, <2>6 DEF InOnePlace
<1>6. ASSUME NEW w \in Worker, NotifyClients(w) PROVE InOnePlace'
  <2>1. OneHolder' /\ \A r \in Request : InHand(r)' <=> InHand(r)
    BY <1>0, <1>6 DEF NotifyClients, InHand
  <2>2. \A r \in Request : client[r]' = "new" <=> client[r] = "new"
    BY <1>6 DEF NotifyClients, Notified
  <2>3. QED
    BY <1>1, <1>6, <2>1, <2>2 DEF NotifyClients
<1>7. ASSUME NEW r \in Request, Submit(r) PROVE InOnePlace'
  <2>1. /\ Len(queue') = Len(queue) + 1
        /\ \A i \in 1..Len(queue) : queue'[i] = queue[i]
        /\ queue'[Len(queue) + 1] = r
        /\ \A s \in Request : Queued(s)' <=> Queued(s) \/ s = r
    BY <1>7, QueuedAfterPush DEF Submit
  <2>2. ~Queued(r) /\ ~InHand(r) /\ ~done[r]
    BY <1>0, <1>7 DEF Submit
  <2>3. Distinct'
    <3> SUFFICES ASSUME NEW i \in 1..(Len(queue) + 1), NEW j \in 1..(Len(queue) + 1),
                        queue'[i] = queue'[j]
                 PROVE  i = j
      BY <2>1
    <3>1. \A k \in 1..Len(queue) : queue[k] # r
      BY <2>2 DEF Queued
    <3>2. Len(queue) \in Nat
      OBVIOUS
    <3>3. QED
      BY <1>0, <2>1, <3>1, <3>2
  <2>4. OneHolder' /\ \A s \in Request : InHand(s)' <=> InHand(s)
    BY <1>0, <1>7 DEF Submit, InHand
  <2>5. UNCHANGED done /\ client' = [client EXCEPT ![r] = "submitting"]
    BY <1>7 DEF Submit
  <2>6. QED
    BY <1>0, <2>1, <2>2, <2>3, <2>4, <2>5 DEF InOnePlace
<1>8. ASSUME NEW r \in Request, NotifyOne(r) PROVE InOnePlace'
  <2>1. OneHolder' /\ \A s \in Request : InHand(s)' <=> InHand(s)
    BY <1>0, <1>8 DEF NotifyOne, WakeOne, InHand
  <2>2. \A s \in Request : client[s]' = "new" <=> client[s] = "new"
    BY <1>8 DEF NotifyOne
  <2>3. QED
    BY <1>1, <1>8, <2>1, <2>2 DEF NotifyOne
<1>9. ASSUME NEW r \in Request,
             Wait(r) \/ ClientWakesSpuriously(r) \/ Test(r) \/ Status(r) \/ Free(r)
      PROVE  InOnePlace'
  <2>1. UNCHANGED <<queue, done, worker, job>>
    BY <1>9 DEF Wait, ClientWakesSpuriously, Test, Status, Free
  <2>2. \A s \in Request : client[s]' = "new" <=> client[s] = "new"
    BY <1>9 DEF Wait, ClientWakesSpuriously, Test, Status, Free
  <2>3. OneHolder' /\ \A s \in Request : InHand(s)' <=> InHand(s)
    BY <1>0, <2>1 DEF InHand
  <2>4. QED
    BY <1>1, <2>1, <2>2, <2>3
<1>10. ASSUME Stop \/ Delete \/ UNCHANGED vars PROVE InOnePlace'
  <2>1. UNCHANGED <<queue, done, worker, job, client>>
    BY <1>10 DEF Stop, Delete, vars
  <2>2. OneHolder' /\ \A s \in Request : InHand(s)' <=> InHand(s)
    BY <1>0, <2>1 DEF InHand
  <2>3. QED
    BY <1>1, <2>1, <2>2
<1>11. ASSUME NotifyAll PROVE InOnePlace'
  <2>1. OneHolder' /\ \A s \in Request : InHand(s)' <=> InHand(s)
    BY <1>0, <1>11 DEF NotifyAll, WakeAll, InHand
  <2>2. QED
    BY <1>1, <1>11, <2>1 DEF NotifyAll
<1>12. QED
  BY <1>2, <1>3, <1>4, <1>5, <1>6, <1>7, <1>8, <1>9, <1>10, <1>11
  DEF Next, WorkerStep, Terminated

-----------------------------------------------------------------------------
\* PoolInv is an inductive invariant of the pool.
THEOREM PoolInvariant == SafetySpec => []PoolInv
<1>1. PoolInv /\ [Next]_vars => PoolInv'
  BY NextTypeOK, NextShutdown, NextCompleted, NextInOnePlace DEF PoolInv
<1>2. QED
  BY <1>1, InitPoolInv, PTL DEF SafetySpec

\* Every variable of the pool keeps its type.
THEOREM PoolTypeCorrect == SafetySpec => []TypeOK
<1>1. PoolInv => TypeOK
  BY DEF PoolInv
<1>2. QED
  BY <1>1, PoolInvariant, PTL

\* No request is lost between memtier_read_async and a worker and none is read twice,
\* whatever the number of workers.
THEOREM PoolInOnePlace == SafetySpec => []InOnePlace
<1>1. PoolInv => InOnePlace
  BY DEF PoolInv
<1>2. QED
  BY <1>1, PoolInvariant, PTL

\* memtier_wait, and memtier_request_status after a successful memtier_test, return
\* what the worker's read returned.
THEOREM PoolAnswerIsResult == SafetySpec => []AnswerIsResult
<1>1. PoolInv => AnswerIsResult
  BY DEF PoolInv, Completed, AnswerIsResult
<1>2. QED
  BY <1>1, PoolInvariant, PTL

\* memtier_finalize deletes the context only after the queue has been drained.
THEOREM PoolFinalizeDrains == SafetySpec => []FinalizeDrains
<1>1. PoolInv => FinalizeDrains
  <2> SUFFICES ASSUME PoolInv, ctx = "deleted" PROVE FinalizeDrains
    BY DEF FinalizeDrains
  <2>1. queue = <<>> /\ \A w \in Worker : worker[w] = "exited"
    BY WorkerAssumption DEF PoolInv, Shutdown
  <2>2. \A r \in Request : ~Queued(r) /\ ~InHand(r)
    BY <2>1 DEF Queued, InHand
  <2>3. \A r \in Request : client[r] # "new" => done[r]
    BY <2>2 DEF PoolInv, InOnePlace
  <2>4. QED
    BY <2>1, <2>3 DEF FinalizeDrains
<1>2. QED
  BY <1>1, PoolInvariant, PTL

\* An application that frees its requests after memtier_finalize never frees one that a
\* worker still uses.
THEOREM PoolNoUseAfterFree ==
    ASSUME FreePolicy = "after_finalize" PROVE SafetySpec => []NoUseAfterFree
<1>1. PoolInv => NoUseAfterFree
  BY DEF PoolInv, TypeOK, Shutdown, NoUseAfterFree, Holding
<1>2. QED
  BY <1>1, PoolInvariant, PTL
=============================================================================
