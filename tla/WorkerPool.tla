----------------------------- MODULE WorkerPool -----------------------------
(***************************************************************************)
(* internal/runner.RunIndexed: a dispatcher (the calling goroutine) hands  *)
(* the indexes 0 .. total-1 over an unbuffered channel to worker           *)
(* goroutines, each of which calls fn with what it received.  Both sides   *)
(* select between the channel and ctx.Done(); when both are ready Go picks *)
(* either, so after a cancellation indexes may still be handed over.       *)
(* fn is the caller's: a call begins (Call) and, some time later, returns  *)
(* (CallReturns).  Module Runner refines the interval between the two.     *)
(***************************************************************************)
EXTENDS Integers, FiniteSets

CONSTANTS
  MaxTotal,   \* largest number of indexes one call is given
  Limits      \* the worker counts a caller may ask for, 0 and below included

ASSUME WorkerPoolAssumption ==
  /\ MaxTotal \in Nat
  /\ Limits \subseteq Int

Index  == 0 .. MaxTotal - 1
Worker == 1 .. MaxTotal      \* never more goroutines than indexes

VARIABLES
  total,      \* argument total (the number of cases)
  limit,      \* argument workers, as the caller gave it
  ctxDone,    \* ctx.Done() is closed
  pc,         \* where the dispatcher is
  spawned,    \* goroutines started so far: workers 1 .. spawned
  next,       \* the dispatcher's loop variable i
  closed,     \* jobs has been closed
  wg,         \* the workers that still hold the wait group
  wstate,     \* where each worker is
  job,        \* the idx each worker received last
  begun,      \* history: times fn was entered with each index
  ended       \* history: times fn came back for each index

poolVars == <<total, limit, ctxDone, pc, spawned, next, closed, wg, wstate,
              job, begun, ended>>

PCs     == {"call", "spawn", "dispatch", "join", "returned"}
WStates == {"unspawned", "select", "received", "running", "exited"}

TypeOK ==
  /\ total \in 0 .. MaxTotal
  /\ limit \in Int
  /\ ctxDone \in BOOLEAN
  /\ pc \in PCs
  /\ spawned \in 0 .. MaxTotal
  /\ next \in 0 .. MaxTotal
  /\ closed \in BOOLEAN
  /\ wg \in SUBSET Worker
  /\ wstate \in [Worker -> WStates]
  /\ job \in [Worker -> 0 .. MaxTotal]
  /\ begun \in [Index -> Nat]
  /\ ended \in [Index -> Nat]

-----------------------------------------------------------------------------

\* Mutant of NumWorkers: the limit is not honoured.
NumWorkersUnbounded == IF limit <= 0 THEN 1 ELSE total

\* The worker count after the two clamps.
NumWorkers ==
  IF limit <= 0 THEN 1 ELSE IF limit > total THEN total ELSE limit

Init ==
  /\ total = 0
  /\ limit = 0
  /\ ctxDone = FALSE
  /\ pc = "call"
  /\ spawned = 0
  /\ next = 0
  /\ closed = FALSE
  /\ wg = {}
  /\ wstate = [w \in Worker |-> "unspawned"]
  /\ job = [w \in Worker |-> 0]
  /\ begun = [i \in Index |-> 0]
  /\ ended = [i \in Index |-> 0]

\* RunIndexed is called; with nothing to do it returns at once.
Invoke(n, k) ==
  /\ pc = "call"
  /\ total' = n
  /\ limit' = k
  /\ pc' = IF n <= 0 THEN "returned" ELSE "spawn"
  /\ UNCHANGED <<ctxDone, spawned, next, closed, wg, wstate, job, begun, ended>>

\* The environment cancels the context, or its deadline passes.
Cancel ==
  /\ ~ctxDone
  /\ ctxDone' = TRUE
  /\ UNCHANGED <<total, limit, pc, spawned, next, closed, wg, wstate, job,
                 begun, ended>>

\* Mutant of Spawn: the goroutine is started without wg.Add(1).
SpawnUncounted ==
  /\ pc = "spawn"
  /\ spawned < NumWorkers
  /\ spawned' = spawned + 1
  /\ wstate' = [wstate EXCEPT ![spawned + 1] = "select"]
  /\ UNCHANGED <<total, limit, ctxDone, pc, next, closed, wg, job, begun, ended>>

\* wg.Add(1); go worker(): the new goroutine runs while the loop goes on.
Spawn ==
  /\ pc = "spawn"
  /\ spawned < NumWorkers
  /\ spawned' = spawned + 1
  /\ wg' = wg \cup {spawned + 1}
  /\ wstate' = [wstate EXCEPT ![spawned + 1] = "select"]
  /\ UNCHANGED <<total, limit, ctxDone, pc, next, closed, job, begun, ended>>

SpawnedAll ==
  /\ pc = "spawn"
  /\ spawned = NumWorkers
  /\ pc' = "dispatch"
  /\ UNCHANGED <<total, limit, ctxDone, spawned, next, closed, wg, wstate, job,
                 begun, ended>>

\* Mutant of Handoff: the loop runs past the last index.
HandoffPastEnd(w) ==
  /\ pc = "dispatch"
  /\ wstate[w] = "select"
  /\ wstate' = [wstate EXCEPT ![w] = "received"]
  /\ job' = [job EXCEPT ![w] = next]
  /\ next' = next + 1
  /\ UNCHANGED <<total, limit, ctxDone, pc, spawned, closed, wg, begun, ended>>

\* jobs <- i meets idx, ok := <-jobs: the channel is unbuffered, so the send
\* and the receive are one step of the dispatcher and of worker w.
Handoff(w) ==
  /\ pc = "dispatch"
  /\ next < total
  /\ wstate[w] = "select"
  /\ wstate' = [wstate EXCEPT ![w] = "received"]
  /\ job' = [job EXCEPT ![w] = next]
  /\ next' = next + 1
  /\ UNCHANGED <<total, limit, ctxDone, pc, spawned, closed, wg, begun, ended>>

\* Mutant of CloseJobs: the channel is left open.
CloseJobsForgotten ==
  /\ pc = "dispatch"
  /\ next = total \/ ctxDone
  /\ pc' = "join"
  /\ UNCHANGED <<total, limit, ctxDone, spawned, next, closed, wg, wstate, job,
                 begun, ended>>

\* The dispatcher leaves the loop, having sent every index or chosen
\* ctx.Done(), and closes jobs either way.
CloseJobs ==
  /\ pc = "dispatch"
  /\ next = total \/ ctxDone
  /\ closed' = TRUE
  /\ pc' = "join"
  /\ UNCHANGED <<total, limit, ctxDone, spawned, next, wg, wstate, job, begun,
                 ended>>

\* Mutant of Join: RunIndexed returns without wg.Wait().
JoinWithoutWait ==
  /\ pc = "join"
  /\ pc' = "returned"
  /\ UNCHANGED <<total, limit, ctxDone, spawned, next, closed, wg, wstate, job,
                 begun, ended>>

\* wg.Wait() comes back and RunIndexed returns.
Join ==
  /\ pc = "join"
  /\ wg = {}
  /\ pc' = "returned"
  /\ UNCHANGED <<total, limit, ctxDone, spawned, next, closed, wg, wstate, job,
                 begun, ended>>

\* The worker calls fn(ctx, idx).
Call(w) ==
  /\ wstate[w] = "received"
  /\ wstate' = [wstate EXCEPT ![w] = "running"]
  /\ begun' = [begun EXCEPT ![job[w]] = @ + 1]
  /\ UNCHANGED <<total, limit, ctxDone, pc, spawned, next, closed, wg, job,
                 ended>>

\* fn returns and the worker goes round its loop.
CallReturns(w) ==
  /\ wstate[w] = "running"
  /\ wstate' = [wstate EXCEPT ![w] = "select"]
  /\ ended' = [ended EXCEPT ![job[w]] = @ + 1]
  /\ UNCHANGED <<total, limit, ctxDone, pc, spawned, next, closed, wg, job,
                 begun>>

\* The worker's select takes ctx.Done() or the closed channel; the deferred
\* wg.Done() releases the wait group.
WorkerExit(w) ==
  /\ wstate[w] = "select"
  /\ ctxDone \/ closed
  /\ wstate' = [wstate EXCEPT ![w] = "exited"]
  /\ wg' = wg \ {w}
  /\ UNCHANGED <<total, limit, ctxDone, pc, spawned, next, closed, job, begun,
                 ended>>

\* The call is over: nothing is left to do (keeps the deadlock check honest).
Terminated ==
  /\ pc = "returned"
  /\ UNCHANGED poolVars

Dispatcher ==
  \/ Spawn
  \/ SpawnedAll
  \/ \E w \in Worker : Handoff(w)
  \/ CloseJobs
  \/ Join

\* The steps of a worker that are the pool's own, fn's return excluded.
WorkerStep(w) == Call(w) \/ WorkerExit(w)

Next ==
  \/ \E n \in 0 .. MaxTotal, k \in Limits : Invoke(n, k)
  \/ Cancel
  \/ Dispatcher
  \/ \E w \in Worker : WorkerStep(w) \/ CallReturns(w)
  \/ Terminated

Safety == Init /\ [][Next]_poolVars

(***************************************************************************)
(* Goroutines that can run are run by the Go scheduler; that fn returns is *)
(* an assumption on the caller's callback.  Nothing obliges the context to *)
(* be cancelled or the pool to be called.                                  *)
(***************************************************************************)
Fairness ==
  /\ WF_poolVars(Dispatcher)
  /\ \A w \in Worker : WF_poolVars(WorkerStep(w)) /\ WF_poolVars(CallReturns(w))

Spec == Safety /\ Fairness

-----------------------------------------------------------------------------

\* The workers that hold an index they have not finished.
Holding == {w \in Worker : wstate[w] \in {"received", "running"}}

(***************************************************************************)
(* When RunIndexed is back, the dispatch was cut at one point of the index *)
(* order: everything before it ran exactly once and has come back, and     *)
(* nothing after it was started.  Without a cancellation the cut is at the *)
(* end.  (runner.go: the two returns after wg.Wait.)                       *)
(***************************************************************************)
SettledAtReturn ==
  pc = "returned" =>
    /\ \A i \in Index : i < next => begun[i] = 1 /\ ended[i] = 1
    /\ \A i \in Index : i >= next => begun[i] = 0 /\ ended[i] = 0
    /\ next < total => ctxDone

(***************************************************************************)
(* RunIndexed never returns while a goroutine it started could still run:  *)
(* the callbacks write into slices the caller reads without a lock.        *)
(***************************************************************************)
NoWorkerOutlivesTheCall ==
  pc = "returned" => \A w \in Worker : wstate[w] \in {"unspawned", "exited"}

(***************************************************************************)
(* No index is with two workers, and none that a worker holds has been     *)
(* finished: the callbacks of two workers never share a result slot.       *)
(***************************************************************************)
ExclusiveIndexes ==
  \A v, w \in Holding :
    /\ v # w => job[v] # job[w]
    /\ ended[job[w]] = 0

\* A call that was made comes back, whatever the limit and the cancellation.
CallReturnsEventually == pc = "spawn" ~> pc = "returned"

Promise == INSTANCE IndexedRun WITH
  phase <- CASE pc = "call" -> "called"
             [] pc = "returned" -> "returned"
             [] OTHER -> "running"

(***************************************************************************)
(* The pool implements what IndexedRun promises: at most once per index,   *)
(* no more open callbacks than the limit, no callback open or missing at   *)
(* the return, and progress.                                               *)
(***************************************************************************)
ImplementsPromise == Promise!Spec

-----------------------------------------------------------------------------

(***************************************************************************)
(* The inductive invariant behind the three safety properties: where the   *)
(* dispatcher is fixes what it has sent and closed; the wait group is the  *)
(* set of live workers; and each index below next is either in the hands   *)
(* of exactly one worker or has run once and come back.                    *)
(***************************************************************************)
DispatcherInv ==
  /\ next <= total
  /\ pc \in {"call", "spawn"} => next = 0
  /\ pc = "call" => spawned = 0
  /\ pc \in {"spawn", "dispatch", "join"} => total > 0
  /\ total > 0 => spawned <= NumWorkers
  /\ closed => pc \in {"join", "returned"}
  /\ pc \in {"join", "returned"} => next = total \/ ctxDone
  /\ pc = "returned" => wg = {}

WorkersInv ==
  \A w \in Worker :
    /\ wstate[w] = "unspawned" <=> w > spawned
    /\ w \in wg <=> wstate[w] \in {"select", "received", "running"}

JobsInv ==
  \A w \in Holding :
    /\ job[w] < next
    /\ begun[job[w]] = IF wstate[w] = "running" THEN 1 ELSE 0
    /\ ended[job[w]] = 0
    /\ \A v \in Holding : v # w => job[v] # job[w]

CountsInv ==
  \A i \in Index :
    /\ i >= next => begun[i] = 0 /\ ended[i] = 0
    /\ i < next /\ (\A w \in Holding : job[w] # i) => begun[i] = 1 /\ ended[i] = 1

PoolInv == TypeOK /\ DispatcherInv /\ WorkersInv /\ JobsInv /\ CountsInv
=============================================================================
