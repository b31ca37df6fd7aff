----------------------------- MODULE IndexedRun -----------------------------
(***************************************************************************)
(* What a caller of internal/runner.RunIndexed is promised, without the    *)
(* channel, the wait group or the goroutines: callbacks begin and end,     *)
(* each index at most once, never more of them open than the limit allows, *)
(* and the call comes back when no callback is open and either every index *)
(* has run or the context was cancelled.  WorkerPool implements it.        *)
(***************************************************************************)
EXTENDS Integers, FiniteSets

CONSTANTS
  MaxTotal,   \* largest number of indexes one call is given
  Limits      \* the worker counts a caller may ask for, 0 and below included

Index == 0 .. MaxTotal - 1

VARIABLES
  total,      \* number of indexes of this call
  limit,      \* worker count asked for
  ctxDone,    \* the context passed to the call is done
  begun,      \* begun[i]: times the callback was entered with index i
  ended,      \* ended[i]: times that callback came back
  phase       \* "called" (nothing fixed yet), "running" or "returned"

vars == <<total, limit, ctxDone, begun, ended, phase>>

\* The callbacks that are open.
Open == {i \in Index : begun[i] > ended[i]}

\* The concurrency a caller gets for the limit it asked for.
Bound == IF limit <= 0 THEN 1 ELSE limit

Init ==
  /\ total = 0
  /\ limit = 0
  /\ ctxDone = FALSE
  /\ begun = [i \in Index |-> 0]
  /\ ended = [i \in Index |-> 0]
  /\ phase = "called"

Invoke(n, k) ==
  /\ phase = "called"
  /\ total' = n
  /\ limit' = k
  /\ phase' = IF n = 0 THEN "returned" ELSE "running"
  /\ UNCHANGED <<ctxDone, begun, ended>>

Cancel ==
  /\ ~ctxDone
  /\ ctxDone' = TRUE
  /\ UNCHANGED <<total, limit, begun, ended, phase>>

Begin(i) ==
  /\ phase = "running"
  /\ i < total
  /\ begun[i] = 0
  /\ Cardinality(Open) < Bound
  /\ begun' = [begun EXCEPT ![i] = 1]
  /\ UNCHANGED <<total, limit, ctxDone, ended, phase>>

End(i) ==
  /\ begun[i] = 1
  /\ ended[i] = 0
  /\ ended' = [ended EXCEPT ![i] = 1]
  /\ UNCHANGED <<total, limit, ctxDone, begun, phase>>

Return ==
  /\ phase = "running"
  /\ Open = {}
  /\ ctxDone \/ \A i \in 0 .. total - 1 : ended[i] = 1
  /\ phase' = "returned"
  /\ UNCHANGED <<total, limit, ctxDone, begun, ended>>

Next ==
  \/ \E n \in 0 .. MaxTotal, k \in Limits : Invoke(n, k)
  \/ Cancel
  \/ \E i \in Index : Begin(i) \/ End(i)
  \/ Return

Safety == Init /\ [][Next]_vars

(***************************************************************************)
(* A call that was made makes progress: an open callback ends (callbacks   *)
(* terminate), and while the context is not done either another index      *)
(* begins or the call returns.                                             *)
(***************************************************************************)
Progress ==
  /\ \A i \in Index : WF_vars(End(i))
  /\ WF_vars(~ctxDone /\ \E i \in Index : Begin(i))
  /\ WF_vars(Return)

Spec == Safety /\ Progress
=============================================================================
