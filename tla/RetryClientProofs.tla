-------------------------- MODULE RetryClientProofs --------------------------
(***************************************************************************)
(* What a call of PostJSONWithOptions returns and how long it sleeps, for  *)
(* any number of concurrent calls, any configurations, any Retry-After     *)
(* headers and any width of a Duration.                                    *)
(***************************************************************************)
EXTENDS RetryClient, FiniteSets, FiniteSetTheorems, SequenceTheorems, TLAPS

\* The backoff factor is a natural number: it counts the subsets of a set.
LEMMA PowerIsNat ==
  ASSUME NEW k \in Nat
  PROVE  2 ^ k \in Nat
<1>1. IsFiniteSet(1 .. k) /\ Cardinality(1 .. k) = k
  BY FS_Interval
<1>2. IsFiniteSet(SUBSET (1 .. k)) /\ Cardinality(SUBSET (1 .. k)) = 2 ^ k
  BY <1>1, FS_SUBSET
<1> QED BY <1>2, FS_CardinalityType

\* Wrapping yields a Duration, and leaves alone what is one already.
LEMMA WrapFacts ==
  ASSUME NEW n \in Int
  PROVE  /\ Wrap(n) \in -DurationLimit .. DurationLimit - 1
         /\ n \in 0 .. DurationLimit - 1 => Wrap(n) = n
<1> DEFINE m == 2 * DurationLimit
<1>1. DurationLimit \in Nat \ {0} /\ m \in Nat \ {0}
  BY RetryAssumption DEF RetryAssumption
<1>2. (n + DurationLimit) % m \in 0 .. m - 1
  <2> HIDE DEF m
  <2> QED BY <1>1
<1>3. ASSUME n \in 0 .. DurationLimit - 1
      PROVE  (n + DurationLimit) % m = n + DurationLimit
  <2>1. n + DurationLimit \in 0 .. m - 1
    BY <1>1, <1>3
  <2> HIDE DEF m
  <2> QED BY <1>1, <2>1
<1> QED BY <1>1, <1>2, <1>3 DEF Wrap

\* The delay due is not negative.
LEMMA DueDelayTyped ==
  ASSUME cfg.baseDelay \in Nat, NEW k \in Nat \ {0},
         NEW after \in RetryAfters \cup {NoHeader}
  PROVE  DueDelay(k, after) \in Nat
<1>1. after.kind \in {"absent", "seconds", "date"} /\ after.value \in Int
  BY RetryAssumption DEF RetryAssumption, NoHeader
<1>2. Second \in Nat
  BY RetryAssumption DEF RetryAssumption
<1>3. NonNegative(after.value) \in Nat
  BY <1>1 DEF NonNegative
<1>4. CASE after.kind = "absent"
  <2>1. 2 ^ (k - 1) \in Nat
    BY PowerIsNat
  <2>2. DueDelay(k, after) = cfg.baseDelay * 2 ^ (k - 1)
    BY <1>4 DEF DueDelay
  <2> DEFINE p == 2 ^ (k - 1)
  <2> HIDE DEF p
  <2>3. cfg.baseDelay * p \in Nat
    BY <2>1 DEF p
  <2> QED BY <2>2, <2>3 DEF p
<1>5. CASE after.kind = "seconds"
  <2>1. DueDelay(k, after) = NonNegative(after.value) * Second
    BY <1>5 DEF DueDelay
  <2> QED BY <2>1, <1>2, <1>3
<1>6. CASE after.kind = "date"
  BY <1>3, <1>6 DEF DueDelay
<1> QED BY <1>1, <1>4, <1>5, <1>6

\* Every delay that may result is a Duration, is capped, and is the one due
\* where a Duration holds it.
LEMMA RetryDelayCapped ==
  ASSUME cfg \in [maxAttempts : Nat \ {0}, baseDelay : Nat, maxDelay : Nat \ {0}],
         NEW k \in Nat \ {0}, NEW after \in RetryAfters \cup {NoHeader},
         NEW d \in RetryDelay(k, after)
  PROVE  /\ d \in -DurationLimit .. DurationLimit - 1
         /\ d <= cfg.maxDelay
         /\ DueDelay(k, after) < DurationLimit =>
              d = IF DueDelay(k, after) > cfg.maxDelay THEN cfg.maxDelay
                  ELSE DueDelay(k, after)
<1> DEFINE n == DueDelay(k, after)
<1>1. n \in Nat
  BY DueDelayTyped
<1> HIDE DEF n
<1>2. DurationLimit \in Nat \ {0} /\ cfg.maxDelay \in Nat \ {0}
  BY RetryAssumption DEF RetryAssumption
<1>3. PICK r \in -DurationLimit .. DurationLimit - 1 :
        /\ d = CapDuration(r)
        /\ n < DurationLimit => r = n
  <2>1. CASE after.kind = "absent"
    <3>1. PICK r \in FromFloat(n) : d = CapDuration(r)
      BY <2>1 DEF RetryDelay, n
    <3> QED BY <1>1, <1>2, <3>1 DEF FromFloat
  <2>2. CASE after.kind # "absent"
    <3>1. d = CapDuration(Wrap(n))
      BY <2>2 DEF RetryDelay, n
    <3> QED BY <1>1, <1>2, <3>1, WrapFacts
  <2> QED BY <2>1, <2>2
<1>4. /\ d \in -DurationLimit .. DurationLimit - 1
      /\ d <= cfg.maxDelay
      /\ n < DurationLimit =>
           d = IF n > cfg.maxDelay THEN cfg.maxDelay ELSE n
  BY <1>1, <1>2, <1>3 DEF CapDuration
<1> QED BY <1>4 DEF n

-----------------------------------------------------------------------------

\* A client as it is made, with a normalised configuration.
LEMMA InitClientInv == Init => ClientInv
<1> SUFFICES ASSUME Init PROVE ClientInv
  OBVIOUS
<1> USE DEF Init
<1>1. cfg \in [maxAttempts : Nat \ {0}, baseDelay : Nat, maxDelay : Nat \ {0}]
  <2>1. PICK c \in Configs : cfg = NormalizeRetryConfig(c)
    OBVIOUS
  <2>2. Second \in Nat \ {0}
    BY RetryAssumption DEF RetryAssumption
  <2>3. c \in [maxAttempts : Nat, baseDelay : Nat, maxDelay : Nat]
    BY RetryAssumption DEF RetryAssumption
  <2>4. /\ DefaultRetryConfig.maxAttempts \in Nat \ {0}
        /\ DefaultRetryConfig.baseDelay \in Nat
        /\ DefaultRetryConfig.maxDelay \in Nat \ {0}
    BY <2>2 DEF DefaultRetryConfig
  <2>5. /\ OrDefault(c.maxAttempts, DefaultRetryConfig.maxAttempts) \in Nat \ {0}
        /\ OrDefault(c.baseDelay, DefaultRetryConfig.baseDelay) \in Nat
        /\ OrDefault(c.maxDelay, DefaultRetryConfig.maxDelay) \in Nat \ {0}
    BY <2>3, <2>4 DEF OrDefault
  <2>6. cfg = [maxAttempts |-> OrDefault(c.maxAttempts, DefaultRetryConfig.maxAttempts),
               baseDelay |-> OrDefault(c.baseDelay, DefaultRetryConfig.baseDelay),
               maxDelay |-> OrDefault(c.maxDelay, DefaultRetryConfig.maxDelay)]
    BY <2>1, <2>3 DEF NormalizeRetryConfig
  <2> QED BY <2>5, <2>6
<1>2. TypeOK
  BY <1>1, RetryAssumption, EmptySeq DEF TypeOK, RetryAssumption, Outcome
<1>3. \A c \in Call : LoopInv(c)
  BY DEF LoopInv
<1>4. ReplyIsLastWord
  <2> SUFFICES ASSUME NEW c \in Call PROVE LastWord(c)
    BY DEF ReplyIsLastWord
  <2>1. outcomes[c] = <<>> /\ Len(outcomes[c]) = 0 /\ cpc[c] = "idle"
    OBVIOUS
  <2>2. \A k \in 1 .. Len(outcomes[c]) - 1 : FALSE
    BY <2>1
  <2>3. Len(outcomes[c]) <= cfg.maxAttempts
    BY <1>1, <2>1
  <2> QED BY <2>1, <2>2, <2>3, Zenon DEF LastWord
<1>5. DelayAsConfigured
  BY DEF DelayAsConfigured, SleepsAsConfigured
<1> QED BY <1>1, <1>2, <1>3, <1>4, <1>5 DEF ClientInv


\* What holds of a call goes on holding while the call does not move.
LEMMA Untouched ==
  ASSUME NEW c \in Call,
         LoopInv(c), LastWord(c), SleepsAsConfigured(c),
         cfg' = cfg, cpc'[c] = cpc[c], attempt'[c] = attempt[c],
         ctx'[c] = ctx[c] \/ ctx[c] = "live",
         last'[c] = last[c], delay'[c] = delay[c], reply'[c] = reply[c],
         outcomes'[c] = outcomes[c], asked'[c] = asked[c]
  PROVE  LoopInv(c)' /\ LastWord(c)' /\ SleepsAsConfigured(c)'
<1>1. LoopInv(c)'
  BY DEF LoopInv, AllTransient
<1>2. LastWord(c)'
  BY DEF LastWord, CtxError
<1>3. SleepsAsConfigured(c)'
  BY DEF SleepsAsConfigured, CappedAsked
<1> QED BY <1>1, <1>2, <1>3

\* One more outcome: the earlier ones stay.
LEMMA OneMoreOutcome ==
  ASSUME NEW s \in Seq(Outcome), NEW o \in Outcome
  PROVE  /\ Append(s, o) \in Seq(Outcome)
         /\ Len(Append(s, o)) = Len(s) + 1
         /\ Append(s, o)[Len(s) + 1] = o
         /\ \A k \in 1 .. Len(s) : Append(s, o)[k] = s[k]
  BY AppendProperties

\* An outcome of an attempt ends the call or sends it to sleep.
LEMMA HandleKeeps ==
  ASSUME ClientInv, NEW c \in Call, cpc[c] \in {"ready", "awaiting"},
         NEW o \in Outcome, NEW after \in RetryAfters \cup {NoHeader},
         Handle(c, o, after)
  PROVE  ClientInv'
<1> DEFINE n == Len(outcomes[c])
           response == IF o \in Responses THEN o ELSE "none"
<1>1. /\ attempt[c] \in 1 .. cfg.maxAttempts /\ n = attempt[c] - 1
      /\ outcomes[c] \in Seq(Outcome)
      /\ \A k \in 1 .. n : Retryable(outcomes[c][k])
      /\ cfg.maxAttempts \in Nat \ {0}
  BY DEF ClientInv, TypeOK, LoopInv, AllTransient
<1>2. /\ outcomes' = [outcomes EXCEPT ![c] = Append(@, o)]
      /\ cfg' = cfg /\ ctx' = ctx /\ attempt' = attempt
      /\ last' = IF response = "none" THEN last ELSE [last EXCEPT ![c] = response]
  BY DEF Handle
<1>3. /\ outcomes'[c] \in Seq(Outcome)
      /\ Len(outcomes'[c]) = attempt[c]
      /\ outcomes'[c][attempt[c]] = o
      /\ \A k \in 1 .. attempt[c] - 1 : Retryable(outcomes'[c][k])
  <2>1. outcomes'[c] = Append(outcomes[c], o)
    BY <1>2 DEF ClientInv, TypeOK
  <2> QED BY <1>1, <2>1, OneMoreOutcome
<1>4. response \in Responses \cup {"none"}
  OBVIOUS
<1>5. CASE Concludes(c, o)
  <2>1. /\ reply' = [reply EXCEPT ![c] =
             [resp |-> response,
              err |-> IF response = "none" THEN o ELSE "none"]]
        /\ cpc' = [cpc EXCEPT ![c] = "returned"]
        /\ delay' = delay /\ asked' = asked
    BY <1>5 DEF Handle
  <2>2. response = "none" => o \in Errors
    BY DEF Outcome, Responses
  <2>3. TypeOK'
    BY <1>2, <1>3, <1>4, <2>1, <2>2 DEF ClientInv, TypeOK
  <2>4. Retryable(o) => attempt[c] = cfg.maxAttempts
    BY <1>5 DEF Concludes
  <2>5. reply'[c] = [resp |-> response,
                     err |-> IF response = "none" THEN o ELSE "none"]
        /\ cpc'[c] = "returned"
    BY <2>1 DEF ClientInv, TypeOK
  <2>6. LastWord(c)'
    <3>1. CASE response = "none"
      BY <1>1, <1>2, <1>3, <2>4, <2>5, <3>1 DEF LastWord
    <3>2. CASE response = o
      <4>1. response # "none"
        BY <3>2 DEF Outcome, Responses, Errors
      <4> QED BY <1>1, <1>2, <1>3, <2>4, <2>5, <3>2, <4>1 DEF LastWord
    <3> QED BY <3>1, <3>2
  <2>7. LoopInv(c)' /\ SleepsAsConfigured(c)'
    BY <1>1, <1>2, <1>3, <2>5 DEF LoopInv, SleepsAsConfigured
  <2>8. ASSUME NEW b \in Call, b # c
        PROVE  LoopInv(b)' /\ LastWord(b)' /\ SleepsAsConfigured(b)'
    BY <1>2, <2>1, <2>8, Untouched
       DEF ClientInv, TypeOK, ReplyIsLastWord, DelayAsConfigured
  <2> QED BY <1>2, <2>3, <2>6, <2>7, <2>8
          DEF ClientInv, ReplyIsLastWord, DelayAsConfigured
<1>6. CASE ~Concludes(c, o)
  <2>1. /\ cpc' = [cpc EXCEPT ![c] = "sleeping"]
        /\ asked' = [asked EXCEPT ![c] = DueDelay(attempt[c], after)]
        /\ reply' = reply
    BY <1>6 DEF Handle
  <2>2. PICK d \in RetryDelay(attempt[c], after) :
          delay' = [delay EXCEPT ![c] = d]
    BY <1>6 DEF Handle
  <2>3. /\ d \in -DurationLimit .. DurationLimit - 1
        /\ d <= cfg.maxDelay
        /\ DueDelay(attempt[c], after) < DurationLimit =>
             d = IF DueDelay(attempt[c], after) > cfg.maxDelay THEN cfg.maxDelay
                 ELSE DueDelay(attempt[c], after)
    BY <1>1, RetryDelayCapped DEF ClientInv
  <2>4. DueDelay(attempt[c], after) \in Nat
    BY <1>1, DueDelayTyped DEF ClientInv
  <2>5. TypeOK'
    BY <1>2, <1>3, <1>4, <2>1, <2>2, <2>3, <2>4 DEF ClientInv, TypeOK
  <2>6. Retryable(o) /\ attempt[c] # cfg.maxAttempts
    BY <1>6 DEF Concludes
  <2>7. /\ cpc'[c] = "sleeping" /\ delay'[c] = d
        /\ asked'[c] = DueDelay(attempt[c], after)
    BY <2>1, <2>2 DEF ClientInv, TypeOK
  <2>8. LoopInv(c)'
    BY <1>1, <1>2, <1>3, <2>6, <2>7 DEF LoopInv, AllTransient
  <2>9. LastWord(c)'
    BY <1>1, <1>2, <1>3, <2>7 DEF LastWord
  <2>10. SleepsAsConfigured(c)'
    BY <1>2, <2>3, <2>7 DEF SleepsAsConfigured, CappedAsked
  <2>11. ASSUME NEW b \in Call, b # c
         PROVE  LoopInv(b)' /\ LastWord(b)' /\ SleepsAsConfigured(b)'
    BY <1>2, <2>1, <2>2, <2>11, Untouched
       DEF ClientInv, TypeOK, ReplyIsLastWord, DelayAsConfigured
  <2> QED BY <1>2, <2>5, <2>8, <2>9, <2>10, <2>11
          DEF ClientInv, ReplyIsLastWord, DelayAsConfigured
<1> QED BY <1>5, <1>6

\* PostJSON is called.
LEMMA PostKeeps ==
  ASSUME ClientInv, NEW c \in Call, Post(c)
  PROVE  ClientInv'
<1> USE DEF Post
<1>1. /\ attempt' = [attempt EXCEPT ![c] = 1] /\ cpc' = [cpc EXCEPT ![c] = "ready"]
      /\ attempt'[c] = 1 /\ cpc'[c] = "ready" /\ outcomes'[c] = <<>>
      /\ cfg.maxAttempts \in Nat \ {0} /\ Len(outcomes'[c]) = 0
  BY EmptySeq DEF ClientInv, TypeOK, LoopInv
<1>2. TypeOK' /\ attempt' \in [Call -> Nat]
  BY <1>1 DEF ClientInv, TypeOK
<1>3. LoopInv(c)'
  BY <1>1 DEF LoopInv, AllTransient
<1>4. LastWord(c)' /\ SleepsAsConfigured(c)'
  BY <1>1 DEF LastWord, SleepsAsConfigured
<1>5. ASSUME NEW b \in Call, b # c
      PROVE  LoopInv(b)' /\ LastWord(b)' /\ SleepsAsConfigured(b)'
  BY <1>1, <1>5, Untouched
     DEF ClientInv, TypeOK, ReplyIsLastWord, DelayAsConfigured
<1> QED BY <1>2, <1>3, <1>4, <1>5
        DEF ClientInv, ReplyIsLastWord, DelayAsConfigured

\* A request goes out.
LEMMA SendKeeps ==
  ASSUME ClientInv, NEW c \in Call, Send(c)
  PROVE  ClientInv'
<1> USE DEF Send
<1>1. /\ cpc' = [cpc EXCEPT ![c] = "awaiting"] /\ cpc'[c] = "awaiting"
      /\ cpc[c] = "ready"
  BY DEF ClientInv, TypeOK
<1>2. TypeOK'
  BY <1>1 DEF ClientInv, TypeOK
<1>3. LoopInv(c)'
  BY <1>1 DEF ClientInv, LoopInv, AllTransient
<1>4. LastWord(c)' /\ SleepsAsConfigured(c)'
  BY <1>1 DEF ClientInv, ReplyIsLastWord, LastWord, SleepsAsConfigured
<1>5. ASSUME NEW b \in Call, b # c
      PROVE  LoopInv(b)' /\ LastWord(b)' /\ SleepsAsConfigured(b)'
  BY <1>1, <1>5, Untouched
     DEF ClientInv, TypeOK, ReplyIsLastWord, DelayAsConfigured
<1> QED BY <1>2, <1>3, <1>4, <1>5
        DEF ClientInv, ReplyIsLastWord, DelayAsConfigured

\* The sleep is over: one more attempt, of which there is one left.
LEMMA WakesKeeps ==
  ASSUME ClientInv, NEW c \in Call, Wakes(c)
  PROVE  ClientInv'
<1> USE DEF Wakes
<1>1. /\ cpc' = [cpc EXCEPT ![c] = "ready"] /\ cpc'[c] = "ready"
      /\ attempt' = [attempt EXCEPT ![c] = @ + 1]
      /\ attempt'[c] = attempt[c] + 1
      /\ attempt[c] \in Nat /\ 1 <= attempt[c] /\ attempt[c] < cfg.maxAttempts
      /\ cfg.maxAttempts \in Nat
      /\ Len(outcomes[c]) = attempt[c] /\ AllTransient(c)
  BY DEF ClientInv, TypeOK, LoopInv
<1>2. TypeOK' /\ attempt' \in [Call -> Nat]
  BY <1>1 DEF ClientInv, TypeOK
<1>3. LoopInv(c)'
  BY <1>1 DEF LoopInv, AllTransient
<1>4. LastWord(c)' /\ SleepsAsConfigured(c)'
  BY <1>1 DEF LastWord, SleepsAsConfigured, AllTransient
<1>5. ASSUME NEW b \in Call, b # c
      PROVE  LoopInv(b)' /\ LastWord(b)' /\ SleepsAsConfigured(b)'
  BY <1>1, <1>5, Untouched
     DEF ClientInv, TypeOK, ReplyIsLastWord, DelayAsConfigured
<1> QED BY <1>2, <1>3, <1>4, <1>5
        DEF ClientInv, ReplyIsLastWord, DelayAsConfigured

\* The context ends a sleep, and with it the call.
LEMMA AbandonsKeeps ==
  ASSUME ClientInv, NEW c \in Call, Abandons(c)
  PROVE  ClientInv'
<1> USE DEF Abandons
<1>1. /\ cpc' = [cpc EXCEPT ![c] = "returned"] /\ cpc'[c] = "returned"
      /\ reply' = [reply EXCEPT ![c] = [resp |-> last[c], err |-> CtxError(c)]]
      /\ reply'[c].err = CtxError(c) /\ CtxError(c)' = CtxError(c)
      /\ attempt[c] \in Nat /\ 1 <= attempt[c] /\ attempt[c] < cfg.maxAttempts
      /\ cfg.maxAttempts \in Nat
      /\ Len(outcomes[c]) = attempt[c] /\ AllTransient(c)
  BY DEF ClientInv, TypeOK, LoopInv, CtxError
<1>2. TypeOK'
  <2>1. [resp |-> last[c], err |-> CtxError(c)]
          \in [resp : Responses \cup {"none"}, err : Errors \cup {"none"}]
    BY DEF ClientInv, TypeOK, CtxError, Errors
  <2> QED BY <1>1, <2>1 DEF ClientInv, TypeOK
<1>3. LoopInv(c)'
  BY <1>1 DEF LoopInv
<1>4. LastWord(c)' /\ SleepsAsConfigured(c)'
  BY <1>1 DEF LastWord, SleepsAsConfigured, AllTransient
<1>5. ASSUME NEW b \in Call, b # c
      PROVE  LoopInv(b)' /\ LastWord(b)' /\ SleepsAsConfigured(b)'
  BY <1>1, <1>5, Untouched
     DEF ClientInv, TypeOK, ReplyIsLastWord, DelayAsConfigured
<1> QED BY <1>2, <1>3, <1>4, <1>5
        DEF ClientInv, ReplyIsLastWord, DelayAsConfigured

\* A context that ends belies no call that said so, for it ends once.
LEMMA EndContextKeeps ==
  ASSUME ClientInv, NEW c \in Call, EndContext(c)
  PROVE  ClientInv'
<1> USE DEF EndContext
<1>1. PICK why \in {"canceled", "expired"} : ctx' = [ctx EXCEPT ![c] = why]
  OBVIOUS
<1>2. TypeOK'
  BY <1>1 DEF ClientInv, TypeOK
<1>3. ASSUME NEW b \in Call
      PROVE  LoopInv(b)' /\ LastWord(b)' /\ SleepsAsConfigured(b)'
  <2>1. ctx'[b] = ctx[b] \/ ctx[b] = "live"
    BY <1>1 DEF ClientInv, TypeOK
  <2> QED BY <2>1, Untouched DEF ClientInv, ReplyIsLastWord, DelayAsConfigured
<1> QED BY <1>2, <1>3 DEF ClientInv, ReplyIsLastWord, DelayAsConfigured

\* Every step of every call keeps the invariant.
LEMMA NextClientInv == ClientInv /\ [Next]_clientVars => ClientInv'
<1> SUFFICES ASSUME ClientInv, [Next]_clientVars PROVE ClientInv'
  OBVIOUS
<1>1. CASE UNCHANGED clientVars
  <2>1. TypeOK'
    BY <1>1 DEF ClientInv, TypeOK, clientVars
  <2>2. ASSUME NEW b \in Call
        PROVE  LoopInv(b)' /\ LastWord(b)' /\ SleepsAsConfigured(b)'
    BY <1>1, Untouched
       DEF ClientInv, ReplyIsLastWord, DelayAsConfigured, clientVars
  <2> QED BY <1>1, <2>1, <2>2
          DEF ClientInv, ReplyIsLastWord, DelayAsConfigured, clientVars
<1>2. ASSUME NEW c \in Call, Answered(c) PROVE ClientInv'
  BY <1>2, HandleKeeps DEF Answered, Outcome
<1>3. ASSUME NEW c \in Call, Breaks(c) PROVE ClientInv'
  BY <1>3, HandleKeeps DEF Breaks, Outcome
<1>4. ASSUME NEW c \in Call, Interrupted(c) PROVE ClientInv'
  <2>1. CtxError(c) \in Outcome
    BY DEF CtxError, Outcome, Errors
  <2> QED BY <1>4, <2>1, HandleKeeps DEF Interrupted
<1> QED
  BY <1>1, <1>2, <1>3, <1>4, PostKeeps, SendKeeps, WakesKeeps, AbandonsKeeps,
     EndContextKeeps
     DEF Next, Proceeds, Terminated

-----------------------------------------------------------------------------

(***************************************************************************)
(* The invariant of the retry loop holds in every reachable state.         *)
(***************************************************************************)
THEOREM ClientInvariant == Safety => []ClientInv
  BY InitClientInv, NextClientInv, PTL DEF Safety

\* The state of the calls is typed; no call makes more attempts than it may,
\* and no delay is more than a Duration holds.
THEOREM ClientTyped == Safety => []TypeOK
<1>1. ClientInv => TypeOK
  BY DEF ClientInv
<1> QED BY <1>1, ClientInvariant, PTL

(***************************************************************************)
(* What a call returns is the last word: the response or the error of its  *)
(* last attempt, transient only with the attempts used up, or the error of *)
(* its context, and it was reached over transient outcomes alone.          *)
(***************************************************************************)
THEOREM RepliesAreLast == Safety => []ReplyIsLastWord
<1>1. ClientInv => ReplyIsLastWord
  BY DEF ClientInv
<1> QED BY <1>1, ClientInvariant, PTL

(***************************************************************************)
(* MaxDelay caps every delay, overflowing backoffs and Retry-After headers *)
(* included, and what a Duration holds is slept exactly up to the cap.     *)
(***************************************************************************)
THEOREM DelaysCapped == Safety => []DelayAsConfigured
<1>1. ClientInv => DelayAsConfigured
  BY DEF ClientInv
<1> QED BY <1>1, ClientInvariant, PTL
=============================================================================
