----------------------------- MODULE RateLimiter -----------------------------
(***************************************************************************)
(* internal/ratelimit.Limiter: a token bucket shared by the goroutines     *)
(* that judge.  Wait refills the bucket lazily under a mutex and takes a   *)
(* token, or sleeps for as long as the missing part of a token takes and   *)
(* looks again; there is no queue, so another goroutine may be faster.     *)
(*                                                                         *)
(* Time is relative and discrete.  A tick is the clock's resolution, a     *)
(* minute has Minute of them, and the bucket holds fractions of a token of *)
(* size 1/Minute, RequestsPerMinute of which flow in per tick: the model   *)
(* counts exactly where the code rounds floats.                            *)
(***************************************************************************)
EXTENDS Integers

CONSTANTS
  Waiter,             \* the goroutines that share the limiter
  RequestsPerMinute,  \* as configured; 0 means that there is no limiter
  Burst,              \* as configured, 0 included
  Minute,             \* ticks per minute
  Horizon,            \* the longest window, in ticks, the history looks at
  MaxCalls            \* bound: calls of Wait per goroutine

ASSUME RateLimiterAssumption ==
  /\ RequestsPerMinute \in Nat \ {0}
  /\ Burst \in Int
  /\ Minute \in Nat \ {0}
  /\ Horizon \in Nat
  /\ MaxCalls \in Nat

VARIABLES
  level,     \* l.tokens, in fractions of a token
  elapsed,   \* time since l.lastRefill
  wpc,       \* where each goroutine is in Wait
  timer,     \* what is left of its time.After(waitDuration)
  ctxDone,   \* the context of its call, if any, is done
  calls,     \* calls of Wait each goroutine will still make
  recent     \* history: recent[a] = tokens given in the last a ticks

limiterVars == <<level, elapsed, wpc, timer, ctxDone, calls, recent>>

Least(a, b) == IF a <= b THEN a ELSE b

\* l.capacity: a burst below 1 defaults to 1.
Capacity == (IF Burst <= 0 THEN 1 ELSE Burst) * Minute

WPCs == {"idle", "trying", "sleeping"}

TypeOK ==
  /\ level \in 0 .. Capacity
  /\ elapsed \in 0 .. Capacity
  /\ wpc \in [Waiter -> WPCs]
  /\ timer \in [Waiter -> 0 .. Minute]
  /\ ctxDone \in [Waiter -> BOOLEAN]
  /\ calls \in [Waiter -> 0 .. MaxCalls]
  /\ recent \in [0 .. Horizon -> Nat]

-----------------------------------------------------------------------------

\* New: the bucket starts full.
Init ==
  /\ level = Capacity
  /\ elapsed = 0
  /\ wpc = [w \in Waiter |-> "idle"]
  /\ timer = [w \in Waiter |-> 0]
  /\ ctxDone = [w \in Waiter |-> FALSE]
  /\ calls = [w \in Waiter |-> MaxCalls]
  /\ recent = [a \in 0 .. Horizon |-> 0]

\* Mutant of Refilled: the bucket has no capacity.
Overfilled == level + elapsed * RequestsPerMinute

\* The level after the refill that Wait begins with.
Refilled == Least(Capacity, level + elapsed * RequestsPerMinute)

\* Wait is called, with a live context or one that is done already.
CallWait(w) ==
  /\ wpc[w] = "idle"
  /\ calls[w] > 0
  /\ wpc' = [wpc EXCEPT ![w] = "trying"]
  /\ calls' = [calls EXCEPT ![w] = @ - 1]
  /\ \E done \in BOOLEAN : ctxDone' = [ctxDone EXCEPT ![w] = done]
  /\ UNCHANGED <<level, elapsed, timer, recent>>

\* Mutant of TakeToken: the time of the refill is not kept.
TakeTokenUntimed(w) ==
  /\ wpc[w] = "trying"
  /\ Refilled >= Minute
  /\ level' = Refilled - Minute
  /\ wpc' = [wpc EXCEPT ![w] = "idle"]
  /\ recent' = [a \in 0 .. Horizon |-> recent[a] + 1]
  /\ UNCHANGED <<elapsed, timer, ctxDone, calls>>

\* The locked section with a token at hand: Wait returns nil.  The context is
\* not looked at.
TakeToken(w) ==
  /\ wpc[w] = "trying"
  /\ Refilled >= Minute
  /\ level' = Refilled - Minute
  /\ elapsed' = 0
  /\ wpc' = [wpc EXCEPT ![w] = "idle"]
  /\ recent' = [a \in 0 .. Horizon |-> recent[a] + 1]
  /\ UNCHANGED <<timer, ctxDone, calls>>

\* Mutant of MissToken: the sleep is a whole token's time.
MissTokenSleepsLong(w) ==
  /\ wpc[w] = "trying"
  /\ Refilled < Minute
  /\ level' = Refilled
  /\ elapsed' = 0
  /\ wpc' = [wpc EXCEPT ![w] = "sleeping"]
  /\ timer' = [timer EXCEPT ![w] = Minute \div RequestsPerMinute]
  /\ UNCHANGED <<ctxDone, calls, recent>>

\* Mutant of MissToken: the time of the refill is kept, not the refill.
MissTokenForgets(w) ==
  /\ wpc[w] = "trying"
  /\ Refilled < Minute
  /\ elapsed' = 0
  /\ wpc' = [wpc EXCEPT ![w] = "sleeping"]
  /\ timer' = [timer EXCEPT ![w] = (Minute - Refilled) \div RequestsPerMinute]
  /\ UNCHANGED <<level, ctxDone, calls, recent>>

\* The locked section without a token: the deficit becomes a duration, which
\* is cut to the clock's resolution and may thus be short by a fraction.
MissToken(w) ==
  /\ wpc[w] = "trying"
  /\ Refilled < Minute
  /\ level' = Refilled
  /\ elapsed' = 0
  /\ wpc' = [wpc EXCEPT ![w] = "sleeping"]
  /\ timer' = [timer EXCEPT ![w] = (Minute - Refilled) \div RequestsPerMinute]
  /\ UNCHANGED <<ctxDone, calls, recent>>

\* The select takes the timer: the loop starts over.
TimerFires(w) ==
  /\ wpc[w] = "sleeping"
  /\ timer[w] = 0
  /\ wpc' = [wpc EXCEPT ![w] = "trying"]
  /\ UNCHANGED <<level, elapsed, timer, ctxDone, calls, recent>>

\* The select takes ctx.Done(): Wait returns ctx.Err().
GiveUp(w) ==
  /\ wpc[w] = "sleeping"
  /\ ctxDone[w]
  /\ wpc' = [wpc EXCEPT ![w] = "idle"]
  /\ timer' = [timer EXCEPT ![w] = 0]
  /\ UNCHANGED <<level, elapsed, ctxDone, calls, recent>>

\* A goroutine's context is cancelled, or its deadline passes.
CancelWait(w) ==
  /\ ~ctxDone[w]
  /\ ctxDone' = [ctxDone EXCEPT ![w] = TRUE]
  /\ UNCHANGED <<level, elapsed, wpc, timer, calls, recent>>

\* Time passes.  Once the bucket is full more time makes no difference.
Tick ==
  /\ elapsed' = Least(Capacity, elapsed + 1)
  /\ timer' = [w \in Waiter |-> IF timer[w] > 0 THEN timer[w] - 1 ELSE 0]
  /\ recent' = [a \in 0 .. Horizon |-> IF a = 0 THEN 0 ELSE recent[a - 1]]
  /\ UNCHANGED <<level, wpc, ctxDone, calls>>

\* The steps Wait takes by itself.
Runs(w) == TakeToken(w) \/ MissToken(w) \/ TimerFires(w) \/ GiveUp(w)

Next ==
  \/ \E w \in Waiter : CallWait(w) \/ Runs(w) \/ CancelWait(w)
  \/ Tick

Safety == Init /\ [][Next]_limiterVars

\* Time passes, and goroutines that can run are run.
Fairness == WF_limiterVars(Tick) /\ \A w \in Waiter : WF_limiterVars(Runs(w))

Spec == Safety /\ Fairness

-----------------------------------------------------------------------------

(***************************************************************************)
(* The limit: however the goroutines interleave, sleep and are cancelled,  *)
(* in any window of a ticks no more tokens are given out than the burst    *)
(* and what flowed in meanwhile.                                           *)
(***************************************************************************)
RateBound ==
  \A a \in 0 .. Horizon :
    recent[a] * Minute <= Capacity + a * RequestsPerMinute

(***************************************************************************)
(* RateLimitConfig: RequestsPerMinute is the maximum number of requests    *)
(* per minute.  With the default burst that is so in any minute at all,    *)
(* its end excluded; a larger burst comes on top (RateBound).              *)
(***************************************************************************)
MaximumPerMinute ==
  Burst <= 1 /\ Minute - 1 <= Horizon => recent[Minute - 1] <= RequestsPerMinute

(***************************************************************************)
(* No token is slept over: while a token is to be had no goroutine's timer *)
(* is still running, although the others change the bucket after it        *)
(* computed its deficit and released the mutex.                            *)
(***************************************************************************)
NoTokenSleptOver ==
  Refilled >= Minute => \A w \in Waiter : wpc[w] = "sleeping" => timer[w] = 0

(***************************************************************************)
(* Every call of Wait comes back.  There is no queue, so this needs the    *)
(* bound on the calls of the others: see README, starvation.               *)
(***************************************************************************)
EveryWaitEnds == \A w \in Waiter : wpc[w] # "idle" ~> wpc[w] = "idle"

-----------------------------------------------------------------------------

(***************************************************************************)
(* The inductive invariant.  What was given in the last a ticks and what   *)
(* is in the bucket together came from a full bucket and the inflow up to  *)
(* the last refill, before which time does not count yet; and a sleeper's  *)
(* timer never exceeds the time until the next token.                      *)
(***************************************************************************)
WindowInv ==
  \A a \in 0 .. Horizon :
    /\ a < elapsed => recent[a] = 0
    /\ a >= elapsed =>
         recent[a] * Minute + level
           <= Capacity + (a - elapsed) * RequestsPerMinute

SleepersInv ==
  \A w \in Waiter : wpc[w] = "sleeping" =>
    \/ timer[w] = 0
    \/ timer[w] * RequestsPerMinute <= Minute - Refilled

LimiterInv == TypeOK /\ WindowInv /\ SleepersInv
=============================================================================
