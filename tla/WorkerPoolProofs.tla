-------------------------- MODULE WorkerPoolProofs --------------------------
(***************************************************************************)
(* Proofs about WorkerPool for every MaxTotal and every set of limits: the *)
(* inductive invariant PoolInv, and from it the properties a caller of     *)
(* RunIndexed relies on.                                                   *)
(***************************************************************************)
EXTENDS WorkerPool, FiniteSetTheorems, FunctionTheorems, TLAPS

\* The worker count a call ends up with, after both clamps.
LEMMA NumWorkersRange ==
  ASSUME total \in Nat, total > 0, limit \in Int
  PROVE  NumWorkers \in 1 .. total
  BY DEF NumWorkers

\* The inductive invariant holds before RunIndexed is called.
LEMMA InitPoolInv == Init => PoolInv
<1> SUFFICES ASSUME Init
             PROVE  PoolInv
  OBVIOUS
<1> USE WorkerPoolAssumption DEF WorkerPoolAssumption, Init
<1>1. TypeOK
  <2>1. /\ wstate \in [Worker -> WStates]
        /\ job \in [Worker -> 0 .. MaxTotal]
        /\ begun \in [Index -> Nat]
        /\ ended \in [Index -> Nat]
    BY DEF WStates
  <2>2. /\ total \in 0 .. MaxTotal
        /\ spawned \in 0 .. MaxTotal
        /\ next \in 0 .. MaxTotal
        /\ limit \in Int
    OBVIOUS
  <2>3. /\ ctxDone \in BOOLEAN
        /\ closed \in BOOLEAN
    OBVIOUS
  <2>4. pc \in PCs /\ wg \in SUBSET Worker
    BY DEF PCs
  <2> QED
    BY <2>1, <2>2, <2>3, <2>4 DEF TypeOK
<1>2. DispatcherInv
  BY DEF DispatcherInv
<1>3. Holding = {}
  BY DEF Holding
<1>4. WorkersInv /\ JobsInv /\ CountsInv
  BY <1>3 DEF WorkersInv, JobsInv, CountsInv, Index, Worker
<1> QED BY <1>1, <1>2, <1>4 DEF PoolInv

\* A call of RunIndexed enters with nothing spawned and nothing sent.
LEMMA InvokePoolInv ==
  ASSUME PoolInv, NEW n \in 0 .. MaxTotal, NEW k \in Limits, Invoke(n, k)
  PROVE  PoolInv'
<1> USE WorkerPoolAssumption DEF WorkerPoolAssumption, PoolInv, Invoke
<1>1. TypeOK'
  BY DEF TypeOK, PCs
<1>2. wg = {}
  BY DEF TypeOK, DispatcherInv, WorkersInv, Worker
<1>3. DispatcherInv'
  BY <1>2, NumWorkersRange, <1>1 DEF TypeOK, DispatcherInv, NumWorkers
<1>4. WorkersInv' /\ JobsInv' /\ CountsInv'
  BY DEF WorkersInv, JobsInv, CountsInv, Holding
<1> QED BY <1>1, <1>3, <1>4

\* The steps of the dispatcher.
LEMMA DispatcherPoolInv ==
  ASSUME PoolInv, Dispatcher
  PROVE  PoolInv'
<1> USE WorkerPoolAssumption DEF WorkerPoolAssumption, PoolInv
<1>1. CASE Spawn
  <2> USE <1>1 DEF Spawn
  <2>1. NumWorkers \in 1 .. total /\ NumWorkers' = NumWorkers
    BY NumWorkersRange DEF TypeOK, DispatcherInv, NumWorkers
  <2>2. spawned + 1 \in Worker /\ wstate[spawned + 1] = "unspawned"
    BY <2>1 DEF TypeOK, WorkersInv, Worker
  <2>3. TypeOK'
    BY <2>1, <2>2 DEF TypeOK, WStates, Worker
  <2>4. DispatcherInv'
    BY <2>1 DEF TypeOK, DispatcherInv
  <2>5. WorkersInv'
    BY <2>2 DEF TypeOK, WorkersInv, Worker
  <2>6. Holding' = Holding /\ \A w \in Holding : wstate'[w] = wstate[w]
    BY <2>2 DEF TypeOK, Holding
  <2>7. JobsInv' /\ CountsInv'
    BY <2>6 DEF JobsInv, CountsInv
  <2> QED BY <2>3, <2>4, <2>5, <2>7
<1>2. CASE SpawnedAll
  BY <1>2
  DEF SpawnedAll, TypeOK, PCs, DispatcherInv, WorkersInv, JobsInv, CountsInv,
      Holding, NumWorkers
<1>3. ASSUME NEW w \in Worker, Handoff(w)
      PROVE  PoolInv'
  <2> USE <1>3 DEF Handoff
  <2>1. TypeOK'
    BY DEF TypeOK, WStates
  <2>2. DispatcherInv'
    BY DEF TypeOK, DispatcherInv, NumWorkers
  <2>3. WorkersInv'
    BY DEF TypeOK, WorkersInv
  <2>4. Holding' = Holding \cup {w} /\ w \notin Holding
    BY DEF TypeOK, Holding
  <2>5. next \in Index /\ begun[next] = 0 /\ ended[next] = 0
    BY DEF TypeOK, CountsInv, Index
  <2>6. \A v \in Holding : job'[v] = job[v] /\ wstate'[v] = wstate[v]
    BY <2>4 DEF TypeOK, Holding
  <2>7. job'[w] = next /\ wstate'[w] = "received"
    BY DEF TypeOK
  <2>8. JobsInv'
    <3>1. \A v \in Holding : job[v] \in Nat /\ job[v] < next /\ job[v] # next
      BY DEF TypeOK, JobsInv, Holding
    <3> SUFFICES ASSUME NEW v \in Holding'
                 PROVE  /\ job'[v] < next'
                        /\ begun[job'[v]] = IF wstate'[v] = "running" THEN 1 ELSE 0
                        /\ ended[job'[v]] = 0
                        /\ \A u \in Holding' : u # v => job'[u] # job'[v]
      BY DEF JobsInv
    <3>2. CASE v = w
      BY <3>1, <3>2, <2>4, <2>5, <2>6, <2>7 DEF TypeOK
    <3>3. CASE v # w
      BY <3>1, <3>3, <2>4, <2>6, <2>7 DEF TypeOK, JobsInv
    <3> QED BY <3>2, <3>3
  <2>9. CountsInv'
    BY <2>4, <2>5, <2>6, <2>7 DEF TypeOK, CountsInv, Index
  <2> QED BY <2>1, <2>2, <2>3, <2>8, <2>9
<1>4. CASE CloseJobs
  BY <1>4
  DEF CloseJobs, TypeOK, PCs, DispatcherInv, WorkersInv, JobsInv, CountsInv,
      Holding, NumWorkers
<1>5. CASE Join
  BY <1>5
  DEF Join, TypeOK, PCs, DispatcherInv, WorkersInv, JobsInv, CountsInv,
      Holding, NumWorkers
<1> QED BY <1>1, <1>2, <1>3, <1>4, <1>5 DEF Dispatcher

\* The steps of one worker, the return of its callback included.
LEMMA WorkerPoolInv ==
  ASSUME PoolInv, NEW w \in Worker, WorkerStep(w) \/ CallReturns(w)
  PROVE  PoolInv'
<1> USE WorkerPoolAssumption DEF WorkerPoolAssumption, PoolInv
<1>1. w \in Holding => job[w] \in Index
  BY DEF JobsInv, DispatcherInv, TypeOK, Index
<1>2. CASE Call(w)
  <2> USE <1>2 DEF Call
  <2>1. w \in Holding /\ job[w] \in Index /\ Holding' = Holding
    BY <1>1 DEF Holding, TypeOK
  <2>2. begun' = [begun EXCEPT ![job[w]] = 1]
    <3>1. begun[job[w]] = 0
      BY <2>1 DEF JobsInv
    <3> QED BY <3>1
  <2>3. TypeOK'
    BY <2>1, <2>2 DEF TypeOK, WStates
  <2>4. DispatcherInv' /\ WorkersInv'
    BY DEF TypeOK, DispatcherInv, WorkersInv, NumWorkers
  <2>5. JobsInv'
    BY <2>1, <2>2 DEF TypeOK, JobsInv
  <2>6. CountsInv'
    BY <2>1, <2>2 DEF TypeOK, JobsInv, CountsInv
  <2> QED BY <2>3, <2>4, <2>5, <2>6
<1>3. CASE WorkerExit(w)
  <2> USE <1>3 DEF WorkerExit
  <2>1. TypeOK' /\ WorkersInv'
    BY DEF TypeOK, WorkersInv, WStates
  <2>2. DispatcherInv'
    BY DEF TypeOK, DispatcherInv, NumWorkers
  <2>3. Holding' = Holding /\ \A v \in Holding : wstate'[v] = wstate[v]
    BY DEF Holding, TypeOK
  <2>4. JobsInv' /\ CountsInv'
    BY <2>3 DEF JobsInv, CountsInv
  <2> QED BY <2>1, <2>2, <2>4
<1>4. CASE CallReturns(w)
  <2> USE <1>4 DEF CallReturns
  <2>1. w \in Holding /\ job[w] \in Index /\ Holding' = Holding \ {w}
    BY <1>1 DEF Holding, TypeOK
  <2>2. begun[job[w]] = 1 /\ ended[job[w]] = 0
    BY <2>1 DEF JobsInv
  <2>3. ended' = [ended EXCEPT ![job[w]] = 1]
    BY <2>2
  <2>4. TypeOK'
    BY <2>1, <2>3 DEF TypeOK, WStates
  <2>5. DispatcherInv' /\ WorkersInv'
    BY DEF TypeOK, DispatcherInv, WorkersInv, NumWorkers
  <2>6. \A v \in Holding' : wstate'[v] = wstate[v] /\ job[v] # job[w]
    BY <2>1 DEF JobsInv, TypeOK, Holding
  <2>7. JobsInv'
    BY <2>1, <2>3, <2>6 DEF TypeOK, JobsInv, Holding
  <2>8. CountsInv'
    BY <2>1, <2>2, <2>3, <2>6 DEF TypeOK, JobsInv, CountsInv
  <2> QED BY <2>4, <2>5, <2>7, <2>8
<1> QED BY <1>2, <1>3, <1>4 DEF WorkerStep

\* Every step of the pool, a stuttering one included, keeps the invariant.
LEMMA NextPoolInv == PoolInv /\ [Next]_poolVars => PoolInv'
<1> SUFFICES ASSUME PoolInv, [Next]_poolVars
             PROVE  PoolInv'
  OBVIOUS
<1>1. CASE UNCHANGED poolVars
  BY <1>1
  DEF poolVars, PoolInv, TypeOK, DispatcherInv, WorkersInv, JobsInv, CountsInv,
      Holding, NumWorkers
<1>2. CASE Cancel
  BY <1>2
  DEF Cancel, PoolInv, TypeOK, DispatcherInv, WorkersInv, JobsInv, CountsInv,
      Holding, NumWorkers
<1> QED
  BY <1>1, <1>2, InvokePoolInv, DispatcherPoolInv, WorkerPoolInv
  DEF Next, Terminated

(***************************************************************************)
(* Every reachable state of the pool satisfies the inductive invariant,    *)
(* and so its type invariant.                                              *)
(***************************************************************************)
THEOREM PoolInvariant == Safety => []PoolInv
  BY InitPoolInv, NextPoolInv, PTL DEF Safety

\* The types are those RunIndexed's variables can have: in particular the loop
\* variable never leaves the range of the indexes.
THEOREM TypeCorrect == Safety => []TypeOK
<1>1. PoolInv => TypeOK
  BY DEF PoolInv
<1> QED BY <1>1, PoolInvariant, PTL

(***************************************************************************)
(* When RunIndexed is back every index handed over ran exactly once, the   *)
(* others never, and some were left over only if the context was done.     *)
(***************************************************************************)
THEOREM ReturnSettles == Safety => []SettledAtReturn
<1>1. PoolInv => SettledAtReturn
  <2> SUFFICES ASSUME PoolInv, pc = "returned"
               PROVE  SettledAtReturn
    BY DEF SettledAtReturn
  <2>1. Holding = {}
    BY DEF PoolInv, DispatcherInv, WorkersInv, Holding
  <2> QED
    BY <2>1 DEF SettledAtReturn, PoolInv, CountsInv, DispatcherInv, TypeOK
<1> QED BY <1>1, PoolInvariant, PTL

\* No goroutine of the pool is alive when RunIndexed is back.
THEOREM NoneOutlives == Safety => []NoWorkerOutlivesTheCall
<1>1. PoolInv => NoWorkerOutlivesTheCall
  BY DEF PoolInv, TypeOK, WStates, DispatcherInv, WorkersInv,
         NoWorkerOutlivesTheCall
<1> QED BY <1>1, PoolInvariant, PTL

\* Two workers never hold the same index, nor one that is finished.
THEOREM IndexesExclusive == Safety => []ExclusiveIndexes
<1>1. PoolInv => ExclusiveIndexes
  BY DEF PoolInv, JobsInv, ExclusiveIndexes
<1> QED BY <1>1, PoolInvariant, PTL
-----------------------------------------------------------------------------

\* IndexedRun counts with the same Cardinality.
LEMMA PromiseCardinality ==
  ASSUME NEW S
  PROVE  Promise!Cardinality(S) = Cardinality(S)
  BY DEF Promise!Cardinality, Cardinality

\* The callbacks open at a moment are at most as many as the goroutines
\* started, less any one worker that is not in a callback.
LEMMA OpenBound ==
  ASSUME PoolInv, NEW w \in Worker, wstate[w] = "received"
  PROVE  Cardinality(Promise!Open) < Promise!Bound
<1> USE WorkerPoolAssumption DEF WorkerPoolAssumption, PoolInv
<1> DEFINE Started == 1 .. spawned
           holder  == [i \in Promise!Open |->
                         CHOOSE v \in Holding : job[v] = i]
<1>1. \A i \in Promise!Open : \E v \in Holding : job[v] = i
  <2> SUFFICES ASSUME NEW i \in Index, begun[i] > ended[i]
               PROVE  \E v \in Holding : job[v] = i
    BY DEF Promise!Open, Promise!Index, Index
  <2>1. i \in Int /\ next \in Int /\ ~(begun[i] = 0 /\ ended[i] = 0)
    BY DEF TypeOK, Index
  <2>2. i < next /\ ~(begun[i] = 1 /\ ended[i] = 1)
    BY <2>1 DEF CountsInv
  <2> QED BY <2>2 DEF CountsInv
<1>2. \A i \in Promise!Open : holder[i] \in Holding /\ job[holder[i]] = i
  BY <1>1
<1>3. \A i \in Promise!Open : holder[i] # w
  BY <1>2 DEF JobsInv, Promise!Open
<1>4. Holding \subseteq Started
  BY DEF Holding, WorkersInv, TypeOK, Worker
<1>5. holder \in Injection(Promise!Open, Started \ {w})
  <2>1. holder \in [Promise!Open -> Started \ {w}]
    BY <1>2, <1>3, <1>4
  <2>2. \A i, j \in Promise!Open : holder[i] = holder[j] => i = j
    BY <1>2
  <2> HIDE DEF holder
  <2> QED BY <2>1, <2>2, Fun_IsInj
<1>6. spawned \in Nat /\ w \in Started
  BY <1>4 DEF TypeOK, Holding
<1>7. IsFiniteSet(Started) /\ Cardinality(Started) = spawned
  BY <1>6, FS_Interval
<1>8. /\ IsFiniteSet(Started \ {w})
      /\ Cardinality(Started \ {w}) = spawned - 1
  BY <1>6, <1>7, FS_RemoveElement
<1>9. Cardinality(Promise!Open) <= spawned - 1
  BY <1>5, <1>8, FS_Injection
<1>10. /\ IsFiniteSet(Promise!Open)
       /\ Cardinality(Promise!Open) \in Nat
  BY <1>5, <1>8, FS_Injection, FS_CardinalityType
<1>11. total \in Nat /\ total > 0
  BY <1>6 DEF TypeOK, DispatcherInv, JobsInv, Holding
<1>12. spawned <= NumWorkers
  BY <1>11 DEF DispatcherInv
<1> QED
  BY <1>6, <1>9, <1>10, <1>11, <1>12 DEF NumWorkers, Promise!Bound, TypeOK

\* A step of the pool is a step of the promised call, or leaves it alone: the
\* channel, the spawning and the wait group are invisible to the caller.
LEMMA StepPromise == PoolInv /\ [Next]_poolVars => [Promise!Next]_(Promise!vars)
<1> SUFFICES ASSUME PoolInv, [Next]_poolVars
             PROVE  [Promise!Next]_(Promise!vars)
  OBVIOUS
<1> USE WorkerPoolAssumption DEF WorkerPoolAssumption, PoolInv
<1>1. ASSUME NEW n \in 0 .. MaxTotal, NEW k \in Limits, Invoke(n, k)
      PROVE  Promise!Next
  <2>1. Promise!Invoke(n, k)
    BY <1>1 DEF Invoke, Promise!Invoke
  <2> QED BY <2>1 DEF Promise!Next
<1>2. CASE Cancel
  BY <1>2 DEF Cancel, Promise!Next, Promise!Cancel
<1>3. CASE Spawn \/ SpawnedAll \/ CloseJobs \/ \E w \in Worker : Handoff(w)
  BY <1>3 DEF Spawn, SpawnedAll, CloseJobs, Handoff, Promise!vars
<1>4. CASE Join
  <2>1. \A i \in Index : begun[i] = ended[i] /\ (i < next => ended[i] = 1)
    <3>1. Holding = {}
      BY <1>4 DEF Join, WorkersInv, Holding
    <3> QED BY <3>1 DEF CountsInv, TypeOK, Index
  <2>2. Promise!Open = {}
    BY <2>1 DEF Promise!Open, Promise!Index, Index, TypeOK
  <2>3. ctxDone \/ \A i \in 0 .. total - 1 : ended[i] = 1
    BY <1>4, <2>1 DEF Join, DispatcherInv, TypeOK, Index
  <2>4. Promise!Return
    BY <1>4, <2>2, <2>3 DEF Join, Promise!Return
  <2> QED BY <2>4 DEF Promise!Next
<1>5. ASSUME NEW w \in Worker, Call(w)
      PROVE  Promise!Next
  <2>1. w \in Holding /\ job[w] \in Index /\ job[w] < total
    BY <1>5 DEF Call, Holding, JobsInv, DispatcherInv, TypeOK, Index
  <2>2. pc \notin {"call", "returned"}
    BY <1>5, <2>1 DEF Call, JobsInv, DispatcherInv, WorkersInv, TypeOK
  <2>3. begun[job[w]] = 0
    BY <1>5, <2>1 DEF Call, JobsInv
  <2>4. Promise!Begin(job[w])
    BY <1>5, <2>1, <2>2, <2>3, OpenBound, PromiseCardinality
    DEF Call, Promise!Begin
  <2> QED BY <2>1, <2>4 DEF Promise!Next, Promise!Index, Index
<1>6. ASSUME NEW w \in Worker, CallReturns(w)
      PROVE  Promise!Next
  <2>1. w \in Holding /\ job[w] \in Index
    BY <1>6 DEF CallReturns, Holding, JobsInv, DispatcherInv, TypeOK, Index
  <2>2. begun[job[w]] = 1 /\ ended[job[w]] = 0
    BY <1>6, <2>1 DEF CallReturns, JobsInv
  <2>3. Promise!End(job[w])
    BY <1>6, <2>1, <2>2 DEF CallReturns, Promise!End
  <2> QED BY <2>1, <2>3 DEF Promise!Next, Promise!Index, Index
<1>7. CASE (\E w \in Worker : WorkerExit(w)) \/ Terminated \/ UNCHANGED poolVars
  BY <1>7 DEF WorkerExit, Terminated, poolVars, Promise!vars
<1> QED
  BY <1>1, <1>2, <1>3, <1>4, <1>5, <1>6, <1>7 DEF Next, Dispatcher, WorkerStep

(***************************************************************************)
(* The pool implements the safety part of what IndexedRun promises to the  *)
(* caller of RunIndexed: at most one run per index, no more callbacks open *)
(* than the limit allows, and a return only with everything settled.       *)
(***************************************************************************)
THEOREM PoolImplementsPromise == Safety => Promise!Safety
<1>1. Init => Promise!Init
  BY DEF Init, Promise!Init, Index, Promise!Index
<1> QED
  BY <1>1, StepPromise, PoolInvariant, PTL DEF Safety, Promise!Safety
=============================================================================
