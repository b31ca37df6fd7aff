-------------------------- MODULE RateLimiterProofs --------------------------
(***************************************************************************)
(* Proofs about RateLimiter for every set of goroutines, rate, burst and   *)
(* resolution of the clock: the inductive invariant LimiterInv, and from   *)
(* it the bounds on what the limiter lets through.                         *)
(***************************************************************************)
EXTENDS RateLimiter, TLAPS

\* The capacity is a whole number of tokens, at least one.
LEMMA CapacityFacts == Capacity \in Nat /\ Capacity >= Minute
<1> USE RateLimiterAssumption DEF RateLimiterAssumption
<1> DEFINE tokens == IF Burst <= 0 THEN 1 ELSE Burst
<1>1. tokens \in Nat /\ tokens >= 1
  OBVIOUS
<1> HIDE DEF tokens
<1>2. tokens * Minute \in Nat /\ tokens * Minute >= Minute
  BY <1>1
<1> QED BY <1>2 DEF Capacity, tokens

\* What a refill leaves: no less than before, no more than fits or flowed in.
LEMMA RefillFacts ==
  ASSUME TypeOK
  PROVE  /\ Refilled \in 0 .. Capacity
         /\ Refilled >= level
         /\ Refilled <= level + elapsed * RequestsPerMinute
         /\ elapsed = 0 => Refilled = level
<1> USE RateLimiterAssumption, CapacityFacts DEF RateLimiterAssumption
<1> DEFINE inflow == elapsed * RequestsPerMinute
<1>1. /\ level \in 0 .. Capacity
      /\ elapsed \in Nat
  BY DEF TypeOK
<1>2. inflow \in Nat /\ (elapsed = 0 => inflow = 0)
  BY <1>1
<1>3. Refilled = IF Capacity <= level + inflow THEN Capacity ELSE level + inflow
  BY DEF Refilled, Least
<1> HIDE DEF inflow
<1>4. /\ Refilled \in 0 .. Capacity
      /\ Refilled >= level
      /\ Refilled <= level + inflow
      /\ elapsed = 0 => Refilled = level
  BY <1>1, <1>2, <1>3
<1> QED BY <1>4 DEF inflow

\* Rounding down to whole ticks never makes a sleep too long.
LEMMA DeficitRounded ==
  ASSUME NEW d \in Nat
  PROVE  /\ d \div RequestsPerMinute \in Nat
         /\ (d \div RequestsPerMinute) * RequestsPerMinute <= d
         /\ d \div RequestsPerMinute <= d
  BY RateLimiterAssumption DEF RateLimiterAssumption

\* The bucket starts full, with nothing given out.
LEMMA InitLimiterInv == Init => LimiterInv
<1> SUFFICES ASSUME Init
             PROVE  LimiterInv
  OBVIOUS
<1> USE RateLimiterAssumption, CapacityFacts DEF RateLimiterAssumption, Init
<1>1. TypeOK
  BY DEF TypeOK, WPCs
<1>2. WindowInv
  <2> SUFFICES ASSUME NEW a \in 0 .. Horizon
               PROVE  0 * Minute + Capacity <= Capacity + (a - 0) * RequestsPerMinute
    BY DEF WindowInv
  <2>1. a * RequestsPerMinute \in Nat
    OBVIOUS
  <2> QED BY <2>1
<1>3. SleepersInv
  BY DEF SleepersInv
<1> QED BY <1>1, <1>2, <1>3 DEF LimiterInv

\* Steps that leave the bucket, the clock and the sleepers alone.
LEMMA QuietStep ==
  ASSUME LimiterInv, NEW w \in Waiter,
         CallWait(w) \/ TimerFires(w) \/ GiveUp(w) \/ CancelWait(w)
  PROVE  LimiterInv'
<1> USE RateLimiterAssumption DEF RateLimiterAssumption, LimiterInv
<1>1. UNCHANGED <<level, elapsed, recent>> /\ Refilled' = Refilled
  BY DEF CallWait, TimerFires, GiveUp, CancelWait, Refilled
<1>2. TypeOK'
  <2>1. wpc' \in [Waiter -> WPCs]
    <3>1. \/ wpc' = [wpc EXCEPT ![w] = "trying"]
          \/ wpc' = [wpc EXCEPT ![w] = "idle"]
          \/ wpc' = wpc
      BY DEF CallWait, TimerFires, GiveUp, CancelWait
    <3> QED BY <3>1 DEF TypeOK, WPCs
  <2>2. calls' \in [Waiter -> 0 .. MaxCalls]
    <3>1. CASE CallWait(w)
      <4>1. calls[w] - 1 \in 0 .. MaxCalls
        BY <3>1 DEF CallWait, TypeOK
      <4>2. calls' = [calls EXCEPT ![w] = calls[w] - 1]
        BY <3>1 DEF CallWait
      <4> QED BY <4>1, <4>2 DEF TypeOK
    <3>2. CASE ~CallWait(w)
      BY <3>2 DEF TypeOK, TimerFires, GiveUp, CancelWait
    <3> QED BY <3>1, <3>2
  <2>3. timer' \in [Waiter -> 0 .. Minute]
    <3>1. timer' = timer \/ timer' = [timer EXCEPT ![w] = 0]
      BY DEF CallWait, TimerFires, GiveUp, CancelWait
    <3>2. 0 \in 0 .. Minute
      OBVIOUS
    <3>3. CASE timer' = timer
      BY <3>3 DEF TypeOK
    <3>4. CASE timer' = [timer EXCEPT ![w] = 0]
      BY <3>2, <3>4 DEF TypeOK
    <3> QED BY <3>1, <3>3, <3>4
  <2>4. ctxDone' \in [Waiter -> BOOLEAN]
    <3>1. CASE CallWait(w)
      <4>1. PICK d \in BOOLEAN : ctxDone' = [ctxDone EXCEPT ![w] = d]
        BY <3>1 DEF CallWait
      <4> QED BY <4>1 DEF TypeOK
    <3>2. CASE ~CallWait(w)
      BY <3>2 DEF TypeOK, TimerFires, GiveUp, CancelWait
    <3> QED BY <3>1, <3>2
  <2> QED BY <1>1, <2>1, <2>2, <2>3, <2>4 DEF TypeOK
<1>3. WindowInv'
  BY <1>1 DEF WindowInv
<1>4. SleepersInv'
  BY <1>1 DEF SleepersInv, TypeOK, CallWait, TimerFires, GiveUp, CancelWait
<1> QED BY <1>2, <1>3, <1>4

\* A refill that leaves the level at what it found keeps the account straight:
\* the inflow since the last refill is what a later window start would lack.
LEMMA RefillWindow ==
  ASSUME TypeOK, WindowInv, NEW a \in 0 .. Horizon
  PROVE  recent[a] * Minute + Refilled <= Capacity + a * RequestsPerMinute
<1> USE RateLimiterAssumption, CapacityFacts DEF RateLimiterAssumption
<1>1. /\ recent[a] \in Nat
      /\ level \in Nat
      /\ elapsed \in Nat
      /\ a \in Nat
      /\ a * RequestsPerMinute \in Nat
      /\ Refilled \in Nat
  BY RefillFacts DEF TypeOK
<1>2. CASE a < elapsed
  <2>1. recent[a] = 0 /\ Refilled <= Capacity
    BY <1>2, RefillFacts DEF WindowInv
  <2> QED BY <2>1, <1>1
<1>3. CASE a >= elapsed
  <2>1. recent[a] * Minute + level <= Capacity + (a - elapsed) * RequestsPerMinute
    BY <1>3 DEF WindowInv
  <2>2. Refilled <= level + elapsed * RequestsPerMinute
    BY RefillFacts
  <2>3. (a - elapsed) * RequestsPerMinute + elapsed * RequestsPerMinute
          = a * RequestsPerMinute
    BY <1>1
  <2>4. /\ recent[a] * Minute \in Nat
        /\ elapsed * RequestsPerMinute \in Nat
        /\ (a - elapsed) * RequestsPerMinute \in Int
    BY <1>1
  <2> QED BY <1>1, <2>1, <2>2, <2>3, <2>4
<1> QED BY <1>1, <1>2, <1>3

\* A token is taken: what is given out is no longer in the bucket, and every
\* sleeper's timer has run out already.
LEMMA TakeTokenInv ==
  ASSUME LimiterInv, NEW w \in Waiter, TakeToken(w)
  PROVE  LimiterInv'
<1> USE RateLimiterAssumption, CapacityFacts
    DEF RateLimiterAssumption, LimiterInv, TakeToken
<1>1. Refilled \in 0 .. Capacity /\ Refilled >= Minute
  BY RefillFacts
<1>2. TypeOK'
  <2>1. level' \in 0 .. Capacity /\ elapsed' \in 0 .. Capacity
    BY <1>1
  <2>2. recent' \in [0 .. Horizon -> Nat]
    BY DEF TypeOK
  <2> QED BY <2>1, <2>2 DEF TypeOK, WPCs
<1>3. WindowInv'
  <2> SUFFICES ASSUME NEW a \in 0 .. Horizon
               PROVE  recent'[a] * Minute + level'
                        <= Capacity + (a - 0) * RequestsPerMinute
    BY DEF WindowInv
  <2>1. recent[a] * Minute + Refilled <= Capacity + a * RequestsPerMinute
    BY RefillWindow
  <2>2. recent'[a] = recent[a] + 1 /\ recent[a] \in Nat
    BY DEF TypeOK
  <2>3. (recent[a] + 1) * Minute = recent[a] * Minute + Minute
    BY <2>2
  <2>4. recent[a] * Minute \in Nat /\ a * RequestsPerMinute \in Nat
    BY <2>2
  <2>5. recent'[a] * Minute + level' = recent[a] * Minute + Refilled
    BY <1>1, <2>2, <2>3, <2>4
  <2> QED BY <2>1, <2>5
<1>4. SleepersInv'
  <2> SUFFICES ASSUME NEW v \in Waiter, wpc'[v] = "sleeping"
               PROVE  timer'[v] = 0
    BY DEF SleepersInv
  <2>1. wpc[v] = "sleeping" /\ timer[v] \in Nat
    BY DEF TypeOK
  <2>2. CASE timer[v] * RequestsPerMinute <= Minute - Refilled
    <3>1. timer[v] * RequestsPerMinute <= 0
      <4>1. timer[v] * RequestsPerMinute \in Int
        BY <2>1
      <4> QED BY <2>2, <1>1, <4>1
    <3>2. timer[v] # 0 => timer[v] * RequestsPerMinute > 0
      BY <2>1
    <3> QED BY <3>1, <3>2, <2>1
  <2> QED BY <2>1, <2>2 DEF SleepersInv
<1> QED BY <1>2, <1>3, <1>4

\* No token: the level and the time of the refill change together, so that the
\* next refill starts from where this one stopped.
LEMMA MissTokenInv ==
  ASSUME LimiterInv, NEW w \in Waiter, MissToken(w)
  PROVE  LimiterInv'
<1> USE RateLimiterAssumption, CapacityFacts
    DEF RateLimiterAssumption, LimiterInv, MissToken
<1> DEFINE wait == (Minute - Refilled) \div RequestsPerMinute
<1>1. Refilled \in 0 .. Capacity /\ Minute - Refilled \in Nat
  BY RefillFacts
<1>2. /\ wait \in 0 .. Minute
      /\ wait * RequestsPerMinute <= Minute - Refilled
  BY <1>1, DeficitRounded
<1> HIDE DEF wait
<1>3. TypeOK'
  <2>1. timer' = [timer EXCEPT ![w] = wait]
    BY DEF wait
  <2>2. timer' \in [Waiter -> 0 .. Minute]
    BY <2>1, <1>2 DEF TypeOK
  <2>3. level' \in 0 .. Capacity /\ elapsed' \in 0 .. Capacity
    BY <1>1
  <2> QED BY <2>2, <2>3 DEF TypeOK, WPCs
<1>4. WindowInv'
  <2> SUFFICES ASSUME NEW a \in 0 .. Horizon
               PROVE  recent[a] * Minute + Refilled
                        <= Capacity + (a - 0) * RequestsPerMinute
    BY DEF WindowInv
  <2> QED BY RefillWindow
<1>5. Refilled' = Refilled
  <2>1. Refilled' = Least(Capacity, Refilled + 0 * RequestsPerMinute)
    BY DEF Refilled
  <2>2. 0 * RequestsPerMinute = 0
    OBVIOUS
  <2> QED BY <1>1, <2>1, <2>2 DEF Least
<1>6. SleepersInv'
  <2> SUFFICES ASSUME NEW v \in Waiter, wpc'[v] = "sleeping"
               PROVE  \/ timer'[v] = 0
                      \/ timer'[v] * RequestsPerMinute <= Minute - Refilled
    BY <1>5 DEF SleepersInv
  <2>1. CASE v = w
    BY <2>1, <1>2 DEF TypeOK, wait
  <2>2. CASE v # w
    BY <2>2 DEF TypeOK, SleepersInv
  <2> QED BY <2>1, <2>2
<1> QED BY <1>3, <1>4, <1>6

\* Time passes: the windows move on with the time since the last refill, and a
\* tick shortens a sleep by no less than what it adds to the bucket.
LEMMA TickInv ==
  ASSUME LimiterInv, Tick
  PROVE  LimiterInv'
<1> USE RateLimiterAssumption, CapacityFacts
    DEF RateLimiterAssumption, LimiterInv, Tick
<1>1. /\ elapsed \in Nat /\ elapsed' \in Nat
      /\ elapsed' \in 0 .. Capacity
      /\ elapsed <= elapsed' /\ elapsed' <= elapsed + 1
  BY DEF TypeOK, Least
<1>2. TypeOK'
  <2>1. timer' \in [Waiter -> 0 .. Minute]
    BY DEF TypeOK
  <2>2. recent' \in [0 .. Horizon -> Nat]
    BY DEF TypeOK
  <2> QED BY <1>1, <2>1, <2>2 DEF TypeOK
<1>3. WindowInv'
  <2> SUFFICES ASSUME NEW a \in 0 .. Horizon
               PROVE  /\ a < elapsed' => recent'[a] = 0
                      /\ a >= elapsed' =>
                           recent'[a] * Minute + level
                             <= Capacity + (a - elapsed') * RequestsPerMinute
    BY DEF WindowInv
  <2>1. CASE a = 0
    <3>1. recent'[a] = 0
      BY <2>1
    <3>2. a >= elapsed' => (a - elapsed') * RequestsPerMinute = 0
      BY <1>1, <2>1
    <3>3. level \in 0 .. Capacity
      BY DEF TypeOK
    <3> QED BY <3>1, <3>2, <3>3
  <2>2. CASE a # 0
    <3>1. recent'[a] = recent[a - 1] /\ a - 1 \in 0 .. Horizon
      BY <2>2
    <3>2. a < elapsed' => recent'[a] = 0
      BY <3>1, <1>1 DEF WindowInv
    <3>3. ASSUME a >= elapsed', a - 1 >= elapsed
          PROVE  recent'[a] * Minute + level
                   <= Capacity + (a - elapsed') * RequestsPerMinute
      <4>1. recent[a - 1] * Minute + level
              <= Capacity + (a - 1 - elapsed) * RequestsPerMinute
        BY <3>1, <3>3 DEF WindowInv
      <4>2. (a - 1 - elapsed) * RequestsPerMinute
              <= (a - elapsed') * RequestsPerMinute
        <5>1. a - 1 - elapsed \in Nat /\ a - elapsed' - (a - 1 - elapsed) \in Nat
          BY <1>1, <3>3
        <5>2. (a - elapsed' - (a - 1 - elapsed)) * RequestsPerMinute >= 0
          BY <5>1
        <5> QED BY <5>1, <5>2, <1>1
      <4>3. /\ recent[a - 1] * Minute \in Nat
            /\ level \in Nat
            /\ (a - 1 - elapsed) * RequestsPerMinute \in Int
            /\ (a - elapsed') * RequestsPerMinute \in Int
        BY <3>1, <1>1 DEF TypeOK
      <4> QED BY <3>1, <4>1, <4>2, <4>3
    <3>4. ASSUME a >= elapsed', a - 1 < elapsed
          PROVE  recent'[a] * Minute + level
                   <= Capacity + (a - elapsed') * RequestsPerMinute
      <4>1. recent'[a] = 0
        BY <3>1, <3>4 DEF WindowInv
      <4>2. (a - elapsed') * RequestsPerMinute \in Nat
        BY <1>1, <3>4
      <4>3. level \in 0 .. Capacity
        BY DEF TypeOK
      <4> QED BY <4>1, <4>2, <4>3
    <3> QED BY <3>2, <3>3, <3>4, <1>1
  <2> QED BY <2>1, <2>2
<1>4. Refilled' <= Refilled + RequestsPerMinute
  <2>1. elapsed' * RequestsPerMinute
          <= elapsed * RequestsPerMinute + RequestsPerMinute
    <3>1. CASE elapsed' = elapsed
      BY <3>1, <1>1
    <3>2. CASE elapsed' = elapsed + 1
      BY <3>2, <1>1
    <3> QED BY <3>1, <3>2, <1>1
  <2>2. /\ elapsed' * RequestsPerMinute \in Nat
        /\ elapsed * RequestsPerMinute \in Nat
        /\ level \in Nat
    BY <1>1 DEF TypeOK
  <2> QED BY <2>1, <2>2 DEF Refilled, Least
<1>5. SleepersInv'
  <2> SUFFICES ASSUME NEW v \in Waiter, wpc'[v] = "sleeping", timer'[v] # 0
               PROVE  timer'[v] * RequestsPerMinute <= Minute - Refilled'
    BY DEF SleepersInv
  <2>1. timer[v] \in Nat /\ timer[v] > 0 /\ timer'[v] = timer[v] - 1
    BY DEF TypeOK
  <2>2. timer[v] * RequestsPerMinute <= Minute - Refilled
    BY <2>1 DEF SleepersInv
  <2>3. timer'[v] * RequestsPerMinute
          = timer[v] * RequestsPerMinute - RequestsPerMinute
    BY <2>1
  <2>4. Refilled \in Int /\ Refilled' \in Int
    BY <1>2, RefillFacts DEF Refilled, Least, TypeOK
  <2>5. timer[v] * RequestsPerMinute \in Int
    BY <2>1
  <2> QED BY <1>4, <2>2, <2>3, <2>4, <2>5
<1> QED BY <1>2, <1>3, <1>5

\* Every step of the limiter, a stuttering one included, keeps the invariant.
LEMMA NextLimiterInv == LimiterInv /\ [Next]_limiterVars => LimiterInv'
<1>1. ASSUME LimiterInv, UNCHANGED limiterVars
      PROVE  LimiterInv'
  BY <1>1
  DEF limiterVars, LimiterInv, TypeOK, WindowInv, SleepersInv, Refilled
<1> QED
  BY <1>1, QuietStep, TakeTokenInv, MissTokenInv, TickInv DEF Next, Runs

(***************************************************************************)
(* Every reachable state of the limiter satisfies the inductive invariant, *)
(* and so its type invariant: the bucket neither overflows nor goes below  *)
(* empty.                                                                  *)
(***************************************************************************)
THEOREM LimiterInvariant == Safety => []LimiterInv
  BY InitLimiterInv, NextLimiterInv, PTL DEF Safety

\* The bucket never overflows, and no sleep is longer than a minute.
THEOREM LimiterTypes == Safety => []TypeOK
<1>1. LimiterInv => TypeOK
  BY DEF LimiterInv
<1> QED BY <1>1, LimiterInvariant, PTL

(***************************************************************************)
(* The limiter limits: in no window of a ticks are more tokens given out   *)
(* than the burst and the inflow of a ticks, for any number of goroutines. *)
(***************************************************************************)
THEOREM WindowsBounded == Safety => []RateBound
<1>1. LimiterInv => RateBound
  <2> SUFFICES ASSUME LimiterInv, NEW a \in 0 .. Horizon
               PROVE  recent[a] * Minute <= Capacity + a * RequestsPerMinute
    BY DEF RateBound
  <2> USE RateLimiterAssumption, CapacityFacts
      DEF RateLimiterAssumption, LimiterInv
  <2>1. recent[a] * Minute + Refilled <= Capacity + a * RequestsPerMinute
    BY RefillWindow
  <2>2. /\ recent[a] * Minute \in Nat
        /\ a * RequestsPerMinute \in Nat
        /\ Refilled \in Nat
    BY RefillFacts DEF TypeOK
  <2> QED BY <2>1, <2>2
<1> QED BY <1>1, LimiterInvariant, PTL

(***************************************************************************)
(* With the default burst RequestsPerMinute is what its doc comment says:  *)
(* the maximum number of requests in a minute.                             *)
(***************************************************************************)
THEOREM DefaultBurstIsStrict == Safety => []MaximumPerMinute
<1>1. RateBound /\ TypeOK => MaximumPerMinute
  <2> SUFFICES ASSUME RateBound, TypeOK, Burst <= 1, Minute - 1 <= Horizon
               PROVE  recent[Minute - 1] <= RequestsPerMinute
    BY DEF MaximumPerMinute
  <2> USE RateLimiterAssumption DEF RateLimiterAssumption
  <2> DEFINE given == recent[Minute - 1]
  <2>1. Capacity = Minute
    BY DEF Capacity
  <2>2. given \in Nat
    BY DEF TypeOK
  <2>3. given * Minute <= Minute + (Minute - 1) * RequestsPerMinute
    BY <2>1 DEF RateBound
  <2> HIDE DEF given
  <2>4. (Minute - 1) * RequestsPerMinute
          = Minute * RequestsPerMinute - RequestsPerMinute
    OBVIOUS
  <2>5. given * Minute < Minute + Minute * RequestsPerMinute
    <3>1. Minute * RequestsPerMinute \in Nat /\ given * Minute \in Nat
      BY <2>2
    <3> QED BY <2>3, <2>4, <3>1
  <2>6. ASSUME given >= RequestsPerMinute + 1
        PROVE  FALSE
    <3>1. (given - (RequestsPerMinute + 1)) * Minute \in Nat
      BY <2>2, <2>6
    <3>2. (given - (RequestsPerMinute + 1)) * Minute
            = given * Minute - (Minute * RequestsPerMinute + Minute)
      BY <2>2
    <3>3. Minute * RequestsPerMinute \in Nat /\ given * Minute \in Nat
      BY <2>2
    <3> QED BY <2>5, <3>1, <3>2, <3>3
  <2> QED BY <2>2, <2>6 DEF given
<1> QED BY <1>1, WindowsBounded, LimiterTypes, PTL

(***************************************************************************)
(* While there is a token no goroutine sleeps on a running timer, however  *)
(* many others changed the bucket after the mutex was released.            *)
(***************************************************************************)
THEOREM TokensAreNoticed == Safety => []NoTokenSleptOver
<1>1. LimiterInv => NoTokenSleptOver
  <2> SUFFICES ASSUME LimiterInv, Refilled >= Minute, NEW w \in Waiter,
                      wpc[w] = "sleeping", timer[w] # 0
               PROVE  FALSE
    BY DEF NoTokenSleptOver
  <2> USE RateLimiterAssumption DEF RateLimiterAssumption, LimiterInv
  <2>1. timer[w] \in Nat /\ timer[w] > 0 /\ Refilled \in Nat
    BY RefillFacts DEF TypeOK
  <2>2. timer[w] * RequestsPerMinute > 0
    BY <2>1
  <2>3. timer[w] * RequestsPerMinute <= Minute - Refilled
    BY <2>1 DEF SleepersInv
  <2>4. timer[w] * RequestsPerMinute \in Nat
    BY <2>1
  <2> QED BY <2>1, <2>2, <2>3, <2>4
<1> QED BY <1>1, LimiterInvariant, PTL
=============================================================================
