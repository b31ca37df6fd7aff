------------------------- MODULE ProviderJudgeProofs -------------------------
(***************************************************************************)
(* Proofs about ProviderJudge, for any number of concurrent evaluations    *)
(* and any configuration of the limiter and the client.  A judge takes     *)
(* steps of RateLimiter and of RetryClient, so the inductive invariants of *)
(* both hold in it; with JudgeInv they give what it says of itself.        *)
(***************************************************************************)
EXTENDS ProviderJudge, FiniteSetTheorems, TLAPS

LimiterProofs == INSTANCE RateLimiterProofs WITH
  Waiter <- Caller, MaxCalls <- 1,
  ctxDone <- [c \in Caller |-> ctx[c] # "live"]

ClientProofs == INSTANCE RetryClientProofs WITH Call <- Caller

\* The judge's assumption is what the limiter ...
LEMMA LimiterAssumption ==
  /\ RequestsPerMinute \in Nat \ {0}
  /\ Burst \in Int
  /\ Minute \in Nat \ {0}
  /\ Horizon \in Nat
  /\ 1 \in Nat
  BY JudgeAssumption

\* ... and the client assume.
LEMMA ClientAssumption ==
  /\ Second \in Nat \ {0}
  /\ DurationLimit \in Nat \ {0}
  /\ Configs \subseteq [maxAttempts : Nat, baseDelay : 0 .. DurationLimit - 1,
                        maxDelay : 0 .. DurationLimit - 1]
  /\ \A c \in Configs :
       c.baseDelay > 0 /\ c.maxDelay > 0 => c.baseDelay <= c.maxDelay
  /\ RetryAfters \subseteq [kind : {"absent", "seconds", "date"}, value : Int]
  BY JudgeAssumption

-----------------------------------------------------------------------------
(* The client in the judge *)

\* A step of the judge is one of the client, or none the client can see.
LEMMA StepOfClient == [Next]_vars => [Client!Next]_(Client!clientVars)
<1> SUFFICES ASSUME [Next]_vars
             PROVE  [Client!Next]_(Client!clientVars)
  OBVIOUS
<1>1. ASSUME UNCHANGED clientVars
      PROVE  UNCHANGED Client!clientVars
  BY <1>1 DEF clientVars, Client!clientVars
<1>2. ASSUME NEW c \in Caller,
             Evaluate(c) \/ Waits(c) \/ EncodingFails(c) \/ Returns(c)
      PROVE  UNCHANGED clientVars
  BY <1>2
  DEF Evaluate, Waits, KeepsWaiting, Admitted, WaitFails, EncodingFails, Returns
<1>3. ASSUME Tick \/ UNCHANGED vars
      PROVE  UNCHANGED clientVars
  BY <1>3 DEF Tick, vars
<1>4. ASSUME NEW c \in Caller,
             Posts(c) \/ Sends(c) \/ ClientProceeds(c) \/ EndContext(c)
      PROVE  Client!Next
  BY <1>4
  DEF Posts, Sends, ClientProceeds, EndContext, Client!Next, Client!Proceeds
<1> QED
  BY <1>1, <1>2, <1>3, <1>4 DEF Next, Builds

(***************************************************************************)
(* The judge calls the client as it expects: its steps are steps of        *)
(* RetryClient.  This is the safety part of ImplementsClient.              *)
(***************************************************************************)
THEOREM JudgeImplementsClient == Safety => Client!Safety
<1>1. Init => Client!Init
  BY DEF Init
<1> QED BY <1>1, StepOfClient, PTL DEF Safety, Client!Safety

\* The delays of the client, as the judge and as the client's proofs know them.
LEMMA SameDelays ==
  ASSUME NEW k, NEW after
  PROVE  /\ Client!DueDelay(k, after) = ClientProofs!DueDelay(k, after)
         /\ Client!RetryDelay(k, after) = ClientProofs!RetryDelay(k, after)
<1>1. Client!DueDelay(k, after) = ClientProofs!DueDelay(k, after)
  BY Zenon DEF Client!DueDelay, ClientProofs!DueDelay, Client!NonNegative,
        ClientProofs!NonNegative
<1>2. ASSUME NEW d
      PROVE  /\ Client!CapDuration(d) = ClientProofs!CapDuration(d)
             /\ Client!FromFloat(d) = ClientProofs!FromFloat(d)
             /\ Client!Wrap(d) = ClientProofs!Wrap(d)
  BY Zenon DEF Client!CapDuration, ClientProofs!CapDuration, Client!FromFloat,
         ClientProofs!FromFloat, Client!Wrap, ClientProofs!Wrap
<1> QED BY <1>1, <1>2 DEF Client!RetryDelay, ClientProofs!RetryDelay

\* The initial states and the steps of the client, likewise.
LEMMA SameClient ==
  /\ Client!Init => ClientProofs!Init
  /\ [Client!Next]_(Client!clientVars)
       => [ClientProofs!Next]_(ClientProofs!clientVars)
<1>1. Client!Init => ClientProofs!Init
  BY DEF Client!Init, ClientProofs!Init, Client!NormalizeRetryConfig,
         ClientProofs!NormalizeRetryConfig, Client!OrDefault,
         ClientProofs!OrDefault, Client!DefaultRetryConfig,
         ClientProofs!DefaultRetryConfig
<1>2. ASSUME NEW c, NEW o, NEW after, Client!Handle(c, o, after)
      PROVE  ClientProofs!Handle(c, o, after)
  BY <1>2, SameDelays
  DEF Client!Handle, ClientProofs!Handle, Client!Concludes,
      ClientProofs!Concludes, Client!Retryable, ClientProofs!Retryable,
      Client!Responses, ClientProofs!Responses
<1>3. ASSUME NEW c \in Caller, Client!Proceeds(c)
      PROVE  ClientProofs!Proceeds(c)
  BY <1>2, <1>3
  DEF Client!Proceeds, ClientProofs!Proceeds, Client!Send, ClientProofs!Send,
      Client!Answered, ClientProofs!Answered, Client!Breaks,
      ClientProofs!Breaks, Client!Interrupted, ClientProofs!Interrupted,
      Client!Wakes, ClientProofs!Wakes, Client!Abandons,
      ClientProofs!Abandons, Client!CtxError, ClientProofs!CtxError,
      Client!Responses, ClientProofs!Responses, Client!Errors,
      ClientProofs!Errors, Client!NoHeader, ClientProofs!NoHeader
<1>4. ASSUME Client!Next PROVE ClientProofs!Next
  BY <1>3, <1>4
  DEF Client!Next, ClientProofs!Next, Client!Post, ClientProofs!Post,
      Client!EndContext, ClientProofs!EndContext, Client!Terminated,
      ClientProofs!Terminated, Client!clientVars, ClientProofs!clientVars
<1> QED BY <1>1, <1>4 DEF Client!clientVars, ClientProofs!clientVars

\* So what is proved of the client holds in the judge.
LEMMA ClientInvariant == Safety => []ClientProofs!ClientInv
<1>1. Safety => ClientProofs!Safety
  BY JudgeImplementsClient, SameClient, PTL DEF Client!Safety, ClientProofs!Safety
<1> QED BY <1>1, ClientAssumption, ClientProofs!ClientInvariant, PTL

-----------------------------------------------------------------------------
(* The limiter in the judge *)

\* A step of the judge is one of the limiter, or none the limiter can see.
\* The end of a context is the cancellation of a wait.
LEMMA StepOfLimiter ==
  ClientProofs!ClientInv /\ [Next]_vars => [Limiter!Next]_(Limiter!limiterVars)
<1> SUFFICES ASSUME ClientProofs!ClientInv, [Next]_vars
             PROVE  [Limiter!Next]_(Limiter!limiterVars)
  OBVIOUS
<1> USE DEF Limiter!limiterVars, limiterVars, clientVars, judgeVars
<1>1. ASSUME UNCHANGED <<limiterVars, ctx>>
      PROVE  UNCHANGED Limiter!limiterVars
  BY <1>1
<1>2. ASSUME NEW c \in Caller, Evaluate(c) \/ Waits(c)
      PROVE  Limiter!Next
  BY <1>2
  DEF Evaluate, Waits, KeepsWaiting, Admitted, WaitFails, Limiter!Next,
      Limiter!Runs
<1>3. ASSUME NEW c \in Caller, EndContext(c)
      PROVE  Limiter!Next
  <2>1. PICK why \in {"canceled", "expired"} : ctx' = [ctx EXCEPT ![c] = why]
    BY <1>3 DEF EndContext, Client!EndContext
  <2>2. DOMAIN ctx = Caller /\ ctx[c] = "live" /\ UNCHANGED limiterVars
    BY <1>3
    DEF EndContext, Client!EndContext, ClientProofs!ClientInv,
        ClientProofs!TypeOK
  <2>3. [d \in Caller |-> ctx'[d] # "live"] =
          [[d \in Caller |-> ctx[d] # "live"] EXCEPT ![c] = TRUE]
    BY <2>1, <2>2
  <2>4. Limiter!CancelWait(c)
    BY <2>2, <2>3 DEF Limiter!CancelWait
  <2> QED BY <2>4 DEF Limiter!Next
<1>4. ASSUME Tick PROVE Limiter!Next
  BY <1>4 DEF Tick, Limiter!Next
<1>5. ASSUME NEW c \in Caller, Builds(c) \/ Sends(c) \/ Returns(c)
      PROVE  UNCHANGED <<limiterVars, ctx>>
  BY <1>5
  DEF Builds, EncodingFails, Posts, Client!Post, Sends, Client!Send, Returns
<1>6. ASSUME NEW c \in Caller, ClientProceeds(c)
      PROVE  UNCHANGED <<limiterVars, ctx>>
  BY <1>6
  DEF ClientProceeds, Client!Answered, Client!Breaks, Client!Interrupted,
      Client!Handle, Client!Wakes, Client!Abandons
<1> QED
  BY <1>1, <1>2, <1>3, <1>4, <1>5, <1>6 DEF Next, vars

(***************************************************************************)
(* The judge calls the limiter as it expects: its steps are steps of       *)
(* RateLimiter.  This is the safety part of ImplementsLimiter.             *)
(***************************************************************************)
THEOREM JudgeImplementsLimiter == Safety => Limiter!Safety
<1>1. Init => Limiter!Init
  BY DEF Init
<1> QED
  BY <1>1, ClientInvariant, StepOfLimiter, PTL DEF Safety, Limiter!Safety

\* The initial states and the steps of the limiter, as the judge and as the
\* limiter's proofs know them.
LEMMA SameLimiter ==
  /\ Limiter!Init => LimiterProofs!Init
  /\ [Limiter!Next]_(Limiter!limiterVars)
       => [LimiterProofs!Next]_(LimiterProofs!limiterVars)
<1>1. /\ Limiter!Capacity = LimiterProofs!Capacity
      /\ Limiter!Refilled = LimiterProofs!Refilled
  BY DEF Limiter!Capacity, LimiterProofs!Capacity, Limiter!Refilled,
         LimiterProofs!Refilled, Limiter!Least, LimiterProofs!Least
<1>2. Limiter!Init => LimiterProofs!Init
  BY <1>1 DEF Limiter!Init, LimiterProofs!Init
<1>3. ASSUME NEW c \in Caller, Limiter!Runs(c)
      PROVE  LimiterProofs!Runs(c)
  BY <1>1, <1>3
  DEF Limiter!Runs, LimiterProofs!Runs,
      Limiter!TakeToken, LimiterProofs!TakeToken, Limiter!MissToken,
      LimiterProofs!MissToken, Limiter!TimerFires, LimiterProofs!TimerFires,
      Limiter!GiveUp, LimiterProofs!GiveUp
<1>4. ASSUME Limiter!Tick PROVE LimiterProofs!Tick
  BY <1>1, <1>4
  DEF Limiter!Tick, LimiterProofs!Tick, Limiter!Least, LimiterProofs!Least
<1>5. ASSUME Limiter!Next PROVE LimiterProofs!Next
  BY <1>3, <1>4, <1>5
  DEF Limiter!Next, LimiterProofs!Next, Limiter!CallWait,
      LimiterProofs!CallWait, Limiter!CancelWait, LimiterProofs!CancelWait
<1> QED
  BY <1>2, <1>5 DEF Limiter!limiterVars, LimiterProofs!limiterVars

\* So what is proved of the limiter holds in the judge.
LEMMA LimiterInvariant == Safety => []LimiterProofs!LimiterInv
<1>1. Safety => LimiterProofs!Safety
  BY JudgeImplementsLimiter, SameLimiter, PTL
  DEF Limiter!Safety, LimiterProofs!Safety
<1> QED BY <1>1, LimiterAssumption, LimiterProofs!LimiterInvariant, PTL

-----------------------------------------------------------------------------
(* The judge *)

\* What the invariants of the parts say of the variables.
LEMMA PartsTyped ==
  /\ ClientProofs!ClientInv =>
       /\ ctx \in [Caller -> {"live", "canceled", "expired"}]
       /\ cpc \in [Caller -> {"idle", "ready", "awaiting", "sleeping", "returned"}]
       /\ attempt \in [Caller -> Nat]
       /\ \A c \in Caller : attempt[c] \in 0 .. cfg.maxAttempts
       /\ cfg.maxAttempts \in Nat \ {0}
       /\ DOMAIN outcomes = Caller
  /\ LimiterProofs!LimiterInv =>
       wpc \in [Caller -> {"idle", "trying", "sleeping"}]
  BY DEF ClientProofs!ClientInv, ClientProofs!TypeOK, LimiterProofs!LimiterInv,
         LimiterProofs!TypeOK, LimiterProofs!WPCs

\* An evaluation that does not move keeps what holds of it.
LEMMA CallerUntouched ==
  ASSUME NEW c \in Caller, CallerInv(c), TruthfulVerdict(c),
         jpc'[c] = jpc[c], verdict'[c] = verdict[c], cpc'[c] = cpc[c],
         wpc'[c] = "idle" <=> wpc[c] = "idle",
         outcomes'[c] = outcomes[c], cfg' = cfg,
         ctx'[c] = ctx[c] \/ ctx[c] = "live"
  PROVE  CallerInv(c)' /\ TruthfulVerdict(c)'
<1>1. CallerInv(c)'
  BY DEF CallerInv
<1>2. TruthfulVerdict(c)'
  BY DEF TruthfulVerdict
<1> QED BY <1>1, <1>2

\* The holders of tokens change with the evaluations alone.
LEMMA HoldersUntouched ==
  ASSUME UNCHANGED <<jpc, verdict>>
  PROVE  Holders' = Holders
  BY DEF Holders

\* The attempts change with those of each call.
LEMMA SpentUntouched ==
  ASSUME cfg' = cfg, \A c \in Caller : Spent(c)' = Spent(c)
  PROVE  SpentAttempts' = SpentAttempts
<1>1. \A p \in Caller \X (1 .. cfg.maxAttempts) :
        p[1] \in Caller /\ Spent(p[1])' = Spent(p[1])
  OBVIOUS
<1> QED BY <1>1 DEF SpentAttempts

\* A call that puts an attempt behind it adds this one to them.
LEMMA SpentOneMore ==
  ASSUME cfg' = cfg, cfg.maxAttempts \in Nat, NEW c \in Caller,
         attempt[c] \in 1 .. cfg.maxAttempts,
         Spent(c) = attempt[c] - 1, Spent(c)' = attempt[c],
         \A d \in Caller : d # c => Spent(d)' = Spent(d),
         IsFiniteSet(SpentAttempts)
  PROVE  /\ IsFiniteSet(SpentAttempts')
         /\ Cardinality(SpentAttempts') = Cardinality(SpentAttempts) + 1
<1> DEFINE x == <<c, attempt[c]>>
<1>1. x \notin SpentAttempts
  BY DEF SpentAttempts
<1>2. SpentAttempts' = SpentAttempts \cup {x}
  <2>1. ASSUME NEW p \in Caller \X (1 .. cfg.maxAttempts)
        PROVE  p \in SpentAttempts' <=> p \in SpentAttempts \cup {x}
    <3>1. p = <<p[1], p[2]>> /\ p[1] \in Caller /\ p[2] \in 1 .. cfg.maxAttempts
      OBVIOUS
    <3>2. /\ p \in SpentAttempts <=> p[2] <= Spent(p[1])
          /\ p \in SpentAttempts' <=> p[2] <= Spent(p[1])'
      BY DEF SpentAttempts
    <3>3. CASE p[1] = c
      <4>1. p = x <=> p[2] = attempt[c]
        BY <3>1, <3>3
      <4>2. p[2] <= Spent(p[1])' <=> p[2] <= attempt[c]
        BY <3>3
      <4>3. p[2] <= Spent(p[1]) <=> p[2] <= attempt[c] - 1
        BY <3>3
      <4> QED BY <3>1, <3>2, <4>1, <4>2, <4>3
    <3>4. CASE p[1] # c
      BY <3>1, <3>2, <3>4
    <3> QED BY <3>3, <3>4
  <2>2. x \in Caller \X (1 .. cfg.maxAttempts)
    OBVIOUS
  <2>3. /\ SpentAttempts \subseteq Caller \X (1 .. cfg.maxAttempts)
        /\ SpentAttempts' \subseteq Caller \X (1 .. cfg.maxAttempts)
    BY DEF SpentAttempts
  <2> QED BY <2>1, <2>2, <2>3
<1> QED BY <1>1, <1>2, FS_AddElement

\* A new judge: nobody holds a token, no attempt was made.
LEMMA InitJudgeInv == Init /\ ClientProofs!ClientInv => JudgeInv
<1> SUFFICES ASSUME Init, ClientProofs!ClientInv PROVE JudgeInv
  OBVIOUS
<1> USE DEF Init
<1>1. /\ cpc = [c \in Caller |-> "idle"]
      /\ attempt = [c \in Caller |-> 0]
      /\ outcomes = [c \in Caller |-> <<>>]
      /\ wpc = [c \in Caller |-> "idle"]
  BY DEF Client!Init, Limiter!Init
<1>2. \A c \in Caller : CallerInv(c)
  BY <1>1 DEF CallerInv
<1>3. VerdictIsTruthful
  BY <1>1 DEF VerdictIsTruthful, TruthfulVerdict
<1>4. Holders = {}
  BY DEF Holders
<1>5. SpentAttempts = {}
  <2>1. \A c \in Caller : Spent(c) = 0
    BY <1>1 DEF Spent
  <2>2. cfg.maxAttempts \in Nat
    BY PartsTyped
  <2>3. ASSUME NEW p \in Caller \X (1 .. cfg.maxAttempts)
        PROVE  ~(p[2] <= Spent(p[1]))
    BY <2>1, <2>2
  <2> QED BY <2>3 DEF SpentAttempts
<1>6. IsFiniteSet({}) /\ Cardinality({}) = 0
  BY FS_EmptySet
<1> QED BY <1>2, <1>3, <1>4, <1>5, <1>6 DEF JudgeInv, Verdicts

\* What the invariants together say before a step.
Before ==
  JudgeInv /\ ClientProofs!ClientInv /\ LimiterProofs!LimiterInv

\* Steps inside the limiter move no evaluation.
LEMMA LimiterStepKeeps ==
  ASSUME Before, UNCHANGED <<clientVars, judgeVars>>,
         \A c \in Caller : wpc'[c] = "idle" <=> wpc[c] = "idle"
  PROVE  JudgeInv'
<1> USE DEF clientVars, judgeVars
<1>1. ASSUME NEW c \in Caller
      PROVE  CallerInv(c)' /\ TruthfulVerdict(c)'
  BY CallerUntouched DEF Before, JudgeInv, VerdictIsTruthful
<1>2. Holders' = Holders
  BY HoldersUntouched
<1>3. SpentAttempts' = SpentAttempts
  BY SpentUntouched DEF Spent
<1> QED BY <1>1, <1>2, <1>3 DEF Before, JudgeInv, VerdictIsTruthful

\* The evaluation begins to wait.
LEMMA EvaluateKeeps ==
  ASSUME Before, NEW c \in Caller, Evaluate(c)
  PROVE  JudgeInv'
<1> USE DEF Evaluate, Goes, clientVars
<1>1. /\ jpc' = [jpc EXCEPT ![c] = "waiting"] /\ jpc[c] = "idle"
      /\ wpc' = [wpc EXCEPT ![c] = "trying"]
  BY DEF Limiter!CallWait
<1>2. ASSUME NEW d \in Caller
      PROVE  CallerInv(d)' /\ TruthfulVerdict(d)'
  <2>1. CASE d # c
    BY <1>1, <2>1, PartsTyped, CallerUntouched
       DEF Before, JudgeInv, VerdictIsTruthful
  <2>2. CASE d = c
    <3>1. CallerInv(c)'
      BY <1>1, PartsTyped DEF Before, JudgeInv, CallerInv
    <3>2. TruthfulVerdict(c)'
      BY DEF Before, JudgeInv, VerdictIsTruthful, TruthfulVerdict
    <3> QED BY <2>2, <3>1, <3>2
  <2> QED BY <2>1, <2>2
<1>3. Holders' = Holders
  BY <1>1 DEF Before, JudgeInv, Holders
<1>4. SpentAttempts' = SpentAttempts
  BY SpentUntouched DEF Spent
<1> QED BY <1>1, <1>2, <1>3, <1>4 DEF Before, JudgeInv, VerdictIsTruthful

\* The evaluation gets its token.
LEMMA AdmittedKeeps ==
  ASSUME Before, NEW c \in Caller, Admitted(c)
  PROVE  JudgeInv'
<1> USE DEF Admitted, Goes, clientVars
<1>1. /\ jpc' = [jpc EXCEPT ![c] = "admitted"]
      /\ wpc' = [wpc EXCEPT ![c] = "idle"] /\ wpc[c] = "trying"
  BY DEF Limiter!TakeToken
<1>2. jpc[c] = "waiting" /\ cpc[c] = "idle" /\ verdict[c] = "none"
  BY <1>1 DEF Before, JudgeInv, CallerInv
<1>3. ASSUME NEW d \in Caller
      PROVE  CallerInv(d)' /\ TruthfulVerdict(d)'
  <2>1. CASE d # c
    BY <1>1, <2>1, PartsTyped, CallerUntouched
       DEF Before, JudgeInv, VerdictIsTruthful
  <2>2. CASE d = c
    <3>1. CallerInv(c)'
      BY <1>1, <1>2, PartsTyped DEF Before, JudgeInv, CallerInv
    <3>2. TruthfulVerdict(c)'
      BY DEF Before, JudgeInv, VerdictIsTruthful, TruthfulVerdict
    <3> QED BY <2>2, <3>1, <3>2
  <2> QED BY <2>1, <2>2
<1>4. c \notin Holders /\ Holders' = Holders \cup {c}
  BY <1>1, <1>2 DEF Before, JudgeInv, Holders
<1>5. IsFiniteSet(Holders') /\ Cardinality(Holders') = Cardinality(Holders) + 1
  BY <1>4, FS_AddElement DEF Before, JudgeInv
<1>6. SpentAttempts' = SpentAttempts
  BY SpentUntouched DEF Spent
<1> QED BY <1>1, <1>3, <1>5, <1>6 DEF Before, JudgeInv, VerdictIsTruthful

\* The wait ends with the context's error.
LEMMA WaitFailsKeeps ==
  ASSUME Before, NEW c \in Caller, WaitFails(c)
  PROVE  JudgeInv'
<1> USE DEF WaitFails, Gives, Goes, clientVars
<1>1. /\ jpc' = [jpc EXCEPT ![c] = "done"]
      /\ verdict' = [verdict EXCEPT ![c] = "wait error"]
      /\ wpc' = [wpc EXCEPT ![c] = "idle"] /\ wpc[c] = "sleeping"
      /\ ctx[c] # "live"
  BY DEF Limiter!GiveUp
<1>2. jpc[c] = "waiting" /\ cpc[c] = "idle" /\ verdict[c] = "none"
  BY <1>1 DEF Before, JudgeInv, CallerInv
<1>3. ASSUME NEW d \in Caller
      PROVE  CallerInv(d)' /\ TruthfulVerdict(d)'
  <2>1. CASE d # c
    BY <1>1, <2>1, PartsTyped, CallerUntouched
       DEF Before, JudgeInv, VerdictIsTruthful
  <2>2. CASE d = c
    <3>1. CallerInv(c)'
      BY <1>1, <1>2, PartsTyped DEF Before, JudgeInv, CallerInv
    <3>2. verdict'[c] = "wait error"
      BY <1>1 DEF Before, JudgeInv
    <3>3. TruthfulVerdict(c)'
      BY <1>1, <1>2, <3>2 DEF TruthfulVerdict
    <3> QED BY <2>2, <3>1, <3>3
  <2> QED BY <2>1, <2>2
<1>4. Holders' = Holders
  BY <1>1, <1>2 DEF Before, JudgeInv, Holders
<1>5. SpentAttempts' = SpentAttempts
  BY SpentUntouched DEF Spent
<1> QED BY <1>1, <1>3, <1>4, <1>5 DEF Before, JudgeInv, VerdictIsTruthful, Verdicts

\* The request cannot be built.
LEMMA EncodingFailsKeeps ==
  ASSUME Before, NEW c \in Caller, EncodingFails(c)
  PROVE  JudgeInv'
<1> USE DEF EncodingFails, Gives, Goes, clientVars, limiterVars
<1>1. /\ jpc' = [jpc EXCEPT ![c] = "done"] /\ jpc[c] = "admitted"
      /\ verdict' = [verdict EXCEPT ![c] = "request error"]
  OBVIOUS
<1>2. cpc[c] = "idle" /\ wpc[c] = "idle"
  BY <1>1 DEF Before, JudgeInv, CallerInv
<1>3. ASSUME NEW d \in Caller
      PROVE  CallerInv(d)' /\ TruthfulVerdict(d)'
  <2>1. CASE d # c
    BY <1>1, <2>1, CallerUntouched DEF Before, JudgeInv, VerdictIsTruthful
  <2>2. CASE d = c
    <3>1. verdict'[c] = "request error" /\ jpc'[c] = "done"
      BY <1>1 DEF Before, JudgeInv
    <3>2. CallerInv(c)'
      BY <1>2, <3>1 DEF CallerInv
    <3>3. TruthfulVerdict(c)'
      BY <3>1 DEF TruthfulVerdict
    <3> QED BY <2>2, <3>2, <3>3
  <2> QED BY <2>1, <2>2
<1>4. Holders' = Holders
  BY <1>1 DEF Before, JudgeInv, Holders
<1>5. SpentAttempts' = SpentAttempts
  BY SpentUntouched DEF Spent
<1> QED BY <1>1, <1>3, <1>4, <1>5 DEF Before, JudgeInv, VerdictIsTruthful, Verdicts

\* The client is called.
LEMMA PostsKeeps ==
  ASSUME Before, NEW c \in Caller, Posts(c)
  PROVE  JudgeInv'
<1> USE DEF Posts, Goes, limiterVars
<1>1. /\ jpc' = [jpc EXCEPT ![c] = "posting"] /\ jpc[c] = "admitted"
      /\ cpc' = [cpc EXCEPT ![c] = "ready"] /\ cpc[c] = "idle"
      /\ attempt' = [attempt EXCEPT ![c] = 1]
      /\ UNCHANGED <<cfg, ctx, outcomes>>
  BY DEF Client!Post
<1>2. ASSUME NEW d \in Caller
      PROVE  CallerInv(d)' /\ TruthfulVerdict(d)'
  <2>1. CASE d # c
    BY <1>1, <2>1, PartsTyped, CallerUntouched
       DEF Before, JudgeInv, VerdictIsTruthful
  <2>2. CASE d = c
    <3>1. verdict[c] = "none"
      BY <1>1 DEF Before, JudgeInv, CallerInv
    <3>2. CallerInv(c)'
      BY <1>1, PartsTyped DEF Before, JudgeInv, CallerInv
    <3>3. TruthfulVerdict(c)'
      BY <3>1 DEF TruthfulVerdict
    <3> QED BY <2>2, <3>2, <3>3
  <2> QED BY <2>1, <2>2
<1>3. Holders' = Holders
  BY <1>1 DEF Before, JudgeInv, Holders
<1>4. SpentAttempts' = SpentAttempts
  <2>1. attempt[c] = 0
    BY <1>1 DEF Before, ClientProofs!ClientInv, ClientProofs!LoopInv
  <2>2. ASSUME NEW d \in Caller
        PROVE  Spent(d)' = Spent(d)
    BY <1>1, <2>1, PartsTyped DEF Before, Spent
  <2> QED BY <1>1, <2>2, SpentUntouched
<1> QED BY <1>1, <1>2, <1>3, <1>4 DEF Before, JudgeInv, VerdictIsTruthful

\* A step of a call that is under way moves no evaluation; what it did so far
\* is judged when it comes back.
LEMMA CallMoves ==
  ASSUME Before, NEW c \in Caller, cpc[c] \notin {"idle", "returned"},
         cpc'[c] # "idle", UNCHANGED <<limiterVars, jpc, verdict, tokens, cfg, ctx>>,
         \A d \in Caller : d # c =>
           cpc'[d] = cpc[d] /\ outcomes'[d] = outcomes[d]
  PROVE  /\ \A d \in Caller : CallerInv(d)' /\ TruthfulVerdict(d)'
         /\ Holders' = Holders
<1> USE DEF limiterVars
<1>1. jpc[c] = "posting" /\ verdict[c] = "none"
  BY DEF Before, JudgeInv, CallerInv
<1>2. ASSUME NEW d \in Caller
      PROVE  CallerInv(d)' /\ TruthfulVerdict(d)'
  <2>1. CASE d # c
    BY <2>1, CallerUntouched DEF Before, JudgeInv, VerdictIsTruthful
  <2>2. CASE d = c
    <3>1. CallerInv(c)'
      BY <1>1 DEF Before, JudgeInv, CallerInv
    <3>2. TruthfulVerdict(c)'
      BY <1>1 DEF TruthfulVerdict
    <3> QED BY <2>2, <3>1, <3>2
  <2> QED BY <2>1, <2>2
<1> QED BY <1>2, HoldersUntouched

\* A request goes out, as an attempt that was not spent.
LEMMA SendsKeeps ==
  ASSUME Before, NEW c \in Caller, Sends(c)
  PROVE  JudgeInv'
<1> USE DEF Sends
<1>1. /\ cpc' = [cpc EXCEPT ![c] = "awaiting"] /\ cpc[c] = "ready"
      /\ UNCHANGED <<cfg, ctx, outcomes, attempt>> /\ cpc'[c] = "awaiting"
  BY PartsTyped DEF Before, Client!Send
<1>2. attempt[c] \in 1 .. cfg.maxAttempts /\ cfg.maxAttempts \in Nat
  BY <1>1, PartsTyped DEF Before, ClientProofs!ClientInv, ClientProofs!LoopInv
<1>3. /\ \A d \in Caller : CallerInv(d)' /\ TruthfulVerdict(d)'
      /\ Holders' = Holders
  BY <1>1, PartsTyped, CallMoves DEF Before
<1>4. /\ Spent(c) = attempt[c] - 1 /\ Spent(c)' = attempt[c]
      /\ \A d \in Caller : d # c => Spent(d)' = Spent(d)
  BY <1>1, PartsTyped DEF Before, Spent
<1>5. /\ IsFiniteSet(SpentAttempts')
      /\ Cardinality(SpentAttempts') = Cardinality(SpentAttempts) + 1
  BY <1>1, <1>2, <1>4, SpentOneMore DEF Before, JudgeInv
<1>6. sent' \in Nat /\ sent' <= Cardinality(SpentAttempts')
  BY <1>5, FS_CardinalityType DEF Before, JudgeInv
<1> QED BY <1>3, <1>5, <1>6 DEF Before, JudgeInv, VerdictIsTruthful

\* The outcome of an attempt, which is spent, be it that it was never sent.
LEMMA HandleKeepsJudge ==
  ASSUME Before, NEW c \in Caller, cpc[c] \in {"ready", "awaiting"},
         NEW o, NEW after, Client!Handle(c, o, after),
         UNCHANGED <<limiterVars, judgeVars>>
  PROVE  JudgeInv'
<1> USE DEF judgeVars
<1>1. /\ outcomes' = [outcomes EXCEPT ![c] = Append(@, o)]
      /\ \/ cpc' = [cpc EXCEPT ![c] = "returned"]
         \/ cpc' = [cpc EXCEPT ![c] = "sleeping"]
      /\ UNCHANGED <<cfg, ctx, attempt>>
  BY DEF Client!Handle
<1>2. /\ cpc'[c] \in {"returned", "sleeping"}
      /\ \A d \in Caller : d # c =>
           cpc'[d] = cpc[d] /\ outcomes'[d] = outcomes[d]
  BY <1>1, PartsTyped DEF Before
<1>3. /\ \A d \in Caller : CallerInv(d)' /\ TruthfulVerdict(d)'
      /\ Holders' = Holders
  BY <1>1, <1>2, CallMoves
<1>4. attempt[c] \in 1 .. cfg.maxAttempts /\ cfg.maxAttempts \in Nat
  BY PartsTyped DEF Before, ClientProofs!ClientInv, ClientProofs!LoopInv
<1>5. \A d \in Caller : d # c => Spent(d)' = Spent(d)
  BY <1>1, <1>2 DEF Spent
<1>6. IsFiniteSet(SpentAttempts') /\ sent' <= Cardinality(SpentAttempts')
  <2>1. CASE cpc[c] = "ready"
    <3>1. Spent(c) = attempt[c] - 1 /\ Spent(c)' = attempt[c]
      BY <1>1, <1>2, <2>1 DEF Spent
    <3>2. /\ IsFiniteSet(SpentAttempts')
          /\ Cardinality(SpentAttempts') = Cardinality(SpentAttempts) + 1
      BY <1>1, <1>4, <1>5, <3>1, SpentOneMore DEF Before, JudgeInv
    <3> QED BY <3>2, FS_CardinalityType DEF Before, JudgeInv
  <2>2. CASE cpc[c] = "awaiting"
    <3>1. \A d \in Caller : Spent(d)' = Spent(d)
      BY <1>1, <1>2, <1>5, <2>2 DEF Spent
    <3>2. SpentAttempts' = SpentAttempts
      BY <1>1, <3>1, SpentUntouched
    <3> QED BY <3>2 DEF Before, JudgeInv
  <2> QED BY <2>1, <2>2
<1> QED BY <1>3, <1>6 DEF Before, JudgeInv, VerdictIsTruthful

\* The client's own steps.
LEMMA ClientProceedsKeeps ==
  ASSUME Before, NEW c \in Caller, ClientProceeds(c)
  PROVE  JudgeInv'
<1> USE DEF ClientProceeds, judgeVars
<1>1. CASE Client!Answered(c) \/ Client!Breaks(c) \/ Client!Interrupted(c)
  BY <1>1, HandleKeepsJudge
     DEF Client!Answered, Client!Breaks, Client!Interrupted
<1>2. CASE Client!Wakes(c)
  <2>1. /\ cpc[c] = "sleeping" /\ cpc' = [cpc EXCEPT ![c] = "ready"]
        /\ attempt' = [attempt EXCEPT ![c] = @ + 1]
        /\ UNCHANGED <<cfg, ctx, outcomes>>
    BY <1>2 DEF Client!Wakes
  <2>2. /\ \A d \in Caller : CallerInv(d)' /\ TruthfulVerdict(d)'
        /\ Holders' = Holders
    BY <2>1, PartsTyped, CallMoves DEF Before
  <2>3. ASSUME NEW d \in Caller
        PROVE  Spent(d)' = Spent(d)
    <3>1. cpc'[d] = IF d = c THEN "ready" ELSE cpc[d]
      BY <2>1, PartsTyped DEF Before
    <3>2. /\ attempt'[d] = IF d = c THEN attempt[c] + 1 ELSE attempt[d]
          /\ attempt[d] \in Nat
      BY <2>1, PartsTyped DEF Before
    <3>3. CASE d = c
      <4>1. Spent(d) = attempt[c] /\ Spent(d)' = (attempt[c] + 1) - 1
        BY <2>1, <3>1, <3>2, <3>3 DEF Spent
      <4> QED BY <3>2, <3>3, <4>1
    <3>4. CASE d # c
      BY <3>1, <3>2, <3>4 DEF Spent
    <3> QED BY <3>3, <3>4
  <2>4. SpentAttempts' = SpentAttempts
    BY <2>1, <2>3, SpentUntouched
  <2> QED BY <2>2, <2>4 DEF Before, JudgeInv, VerdictIsTruthful
<1>3. CASE Client!Abandons(c)
  <2>1. /\ cpc[c] = "sleeping" /\ cpc' = [cpc EXCEPT ![c] = "returned"]
        /\ UNCHANGED <<cfg, ctx, outcomes, attempt>>
    BY <1>3 DEF Client!Abandons
  <2>2. /\ \A d \in Caller : CallerInv(d)' /\ TruthfulVerdict(d)'
        /\ Holders' = Holders
    BY <2>1, PartsTyped, CallMoves DEF Before
  <2>3. \A d \in Caller : Spent(d)' = Spent(d)
    BY <2>1, PartsTyped DEF Before, Spent
  <2>4. SpentAttempts' = SpentAttempts
    BY <2>1, <2>3, SpentUntouched
  <2> QED BY <2>2, <2>4 DEF Before, JudgeInv, VerdictIsTruthful
<1> QED BY <1>1, <1>2, <1>3

\* The evaluation judges what the client came back with.
LEMMA ReturnsKeeps ==
  ASSUME Before, NEW c \in Caller, Returns(c)
  PROVE  JudgeInv'
<1> USE DEF Returns, Gives, Goes, clientVars, limiterVars
<1>1. PICK v \in VerdictsOn(reply[c]) :
        /\ jpc' = [jpc EXCEPT ![c] = "done"]
        /\ verdict' = [verdict EXCEPT ![c] = v]
  OBVIOUS
<1>2. jpc[c] = "posting" /\ cpc[c] = "returned" /\ wpc[c] = "idle"
  BY DEF Before, JudgeInv, CallerInv
<1>3. v \in Verdicts \ {"none", "wait error"}
  BY <1>1 DEF VerdictsOn, Verdicts
<1>4. /\ v \in {"answer", "decode error"} =>
           reply[c].err = "none" /\ reply[c].resp = "ok"
      /\ v = "status error" =>
           reply[c].err = "none" /\ reply[c].resp # "ok"
  BY <1>1 DEF VerdictsOn
<1>5. verdict'[c] = v /\ jpc'[c] = "done"
  BY <1>1 DEF Before, JudgeInv
<1>6. TruthfulVerdict(c)'
  <2> DEFINE n == Len(outcomes[c])
  <2>1. n \in Nat \ {0} /\ n <= cfg.maxAttempts
    BY <1>2, PartsTyped
    DEF Before, ClientProofs!ClientInv, ClientProofs!LoopInv, ClientProofs!TypeOK
  <2>2. ASSUME reply[c].err = "none"
        PROVE  /\ reply[c].resp = outcomes[c][n]
               /\ reply[c].resp \in {"ok", "rejected", "busy"}
               /\ reply[c].resp = "busy" => n = cfg.maxAttempts
    <3>1. ClientProofs!LastWord(c)
      BY DEF Before, ClientProofs!ClientInv, ClientProofs!ReplyIsLastWord
    <3>2. outcomes[c][n] # "none"
      <4>1. outcomes[c] \in Seq(ClientProofs!Outcome) /\ n \in 1 .. Len(outcomes[c])
        BY <2>1 DEF Before, ClientProofs!ClientInv, ClientProofs!TypeOK
      <4>2. outcomes[c][n] \in ClientProofs!Outcome
        BY <4>1
      <4> QED
        BY <4>2
        DEF ClientProofs!Outcome, ClientProofs!Responses, ClientProofs!Errors
    <3>3. ClientProofs!CtxError(c) # "none"
      BY DEF ClientProofs!CtxError
    <3>4. /\ reply[c].resp = outcomes[c][n]
          /\ ClientProofs!Retryable(reply[c].resp) => n = cfg.maxAttempts
      BY <1>2, <2>2, <3>1, <3>2, <3>3 DEF ClientProofs!LastWord
    <3>5. reply[c].resp \in {"ok", "rejected", "busy", "none"}
      BY DEF Before, ClientProofs!ClientInv, ClientProofs!TypeOK,
             ClientProofs!Responses
    <3> QED BY <3>2, <3>4, <3>5 DEF ClientProofs!Retryable
  <2>3. n # 0
    BY <2>1
  <2> HIDE DEF n
  <2>4. /\ verdict'[c] \in {"answer", "decode error"} => outcomes[c][n] = "ok"
        /\ verdict'[c] = "status error" =>
             \/ outcomes[c][n] = "rejected"
             \/ outcomes[c][n] = "busy" /\ n = cfg.maxAttempts
        /\ verdict'[c] # "wait error"
    BY <1>3, <1>4, <1>5, <2>2
  <2> QED BY <2>3, <2>4 DEF TruthfulVerdict, n
<1>7. ASSUME NEW d \in Caller
      PROVE  CallerInv(d)' /\ TruthfulVerdict(d)'
  <2>1. CASE d # c
    BY <1>1, <2>1, CallerUntouched DEF Before, JudgeInv, VerdictIsTruthful
  <2>2. CASE d = c
    BY <1>2, <1>5, <1>6, <2>2 DEF CallerInv
  <2> QED BY <2>1, <2>2
<1>8. Holders' = Holders
  BY <1>1, <1>2, <1>3 DEF Before, JudgeInv, Holders
<1>9. SpentAttempts' = SpentAttempts
  BY SpentUntouched DEF Spent
<1> QED BY <1>1, <1>3, <1>7, <1>8, <1>9 DEF Before, JudgeInv, VerdictIsTruthful

\* A context ends.
LEMMA EndContextKeeps ==
  ASSUME Before, NEW c \in Caller, EndContext(c)
  PROVE  JudgeInv'
<1> USE DEF EndContext, judgeVars, limiterVars
<1>1. PICK why : ctx[c] = "live" /\ ctx' = [ctx EXCEPT ![c] = why]
  BY DEF Client!EndContext
<1>2. UNCHANGED <<cfg, cpc, attempt, outcomes>>
  BY DEF Client!EndContext
<1>3. ASSUME NEW d \in Caller
      PROVE  CallerInv(d)' /\ TruthfulVerdict(d)'
  <2>1. ctx'[d] = ctx[d] \/ ctx[d] = "live"
    BY <1>1, PartsTyped DEF Before
  <2> QED BY <1>2, <2>1, CallerUntouched DEF Before, JudgeInv, VerdictIsTruthful
<1>4. Holders' = Holders
  BY HoldersUntouched
<1>5. SpentAttempts' = SpentAttempts
  BY <1>2, SpentUntouched DEF Spent
<1> QED BY <1>3, <1>4, <1>5 DEF Before, JudgeInv, VerdictIsTruthful

\* Every step of the judge keeps the invariant.
LEMMA NextJudgeInv ==
  JudgeInv /\ ClientProofs!ClientInv /\ LimiterProofs!LimiterInv /\ [Next]_vars
    => JudgeInv'
<1> SUFFICES ASSUME Before, [Next]_vars PROVE JudgeInv'
  BY DEF Before
<1>1. ASSUME Tick \/ UNCHANGED vars PROVE JudgeInv'
  BY <1>1, LimiterStepKeeps
     DEF Tick, Limiter!Tick, vars, clientVars, judgeVars, limiterVars
<1>2. ASSUME NEW c \in Caller, KeepsWaiting(c) PROVE JudgeInv'
  <2>1. /\ wpc[c] \in {"trying", "sleeping"}
        /\ \E to \in {"trying", "sleeping"} : wpc' = [wpc EXCEPT ![c] = to]
    BY <1>2 DEF KeepsWaiting, Limiter!MissToken, Limiter!TimerFires
  <2>2. \A d \in Caller : wpc'[d] = "idle" <=> wpc[d] = "idle"
    BY <2>1, PartsTyped DEF Before
  <2> QED BY <1>2, <2>2, LimiterStepKeeps DEF KeepsWaiting
<1> QED
  BY <1>1, <1>2, EvaluateKeeps, AdmittedKeeps, WaitFailsKeeps,
     EncodingFailsKeeps, PostsKeeps, SendsKeeps, ClientProceedsKeeps,
     ReturnsKeeps, EndContextKeeps
     DEF Next, Waits, Builds

-----------------------------------------------------------------------------

(***************************************************************************)
(* The invariant of the judge holds in every reachable state.              *)
(***************************************************************************)
THEOREM JudgeInvariant == Safety => []JudgeInv
<1>1. Init => ClientProofs!Init
  BY SameClient DEF Init
<1> QED
  BY InitJudgeInv, NextJudgeInv, ClientInvariant, LimiterInvariant, PTL
     DEF Safety

(***************************************************************************)
(* An evaluation says what happened: an answer needs a last attempt that   *)
(* succeeded, a status error is the last attempt's, an error of the wait   *)
(* means that nothing was sent.                                            *)
(***************************************************************************)
THEOREM VerdictsTruthful == Safety => []VerdictIsTruthful
<1>1. JudgeInv => VerdictIsTruthful
  BY DEF JudgeInv
<1> QED BY <1>1, JudgeInvariant, PTL

(***************************************************************************)
(* A token pays for as many requests as an evaluation has attempts: the    *)
(* attempts spent are pairs of a holder and a number up to maxAttempts.    *)
(***************************************************************************)
THEOREM RequestsBounded == Safety => []RequestsPerToken
<1>1. JudgeInv /\ ClientProofs!ClientInv => RequestsPerToken
  <2> SUFFICES ASSUME JudgeInv, ClientProofs!ClientInv PROVE RequestsPerToken
    OBVIOUS
  <2> DEFINE m == cfg.maxAttempts
             Numbers == 1 .. m
  <2>1. m \in Nat \ {0}
    BY PartsTyped
  <2>2. IsFiniteSet(Numbers) /\ Cardinality(Numbers) = m
    BY <2>1, FS_Interval
  <2>3. ASSUME NEW p \in SpentAttempts
        PROVE  p \in Holders \X Numbers
    <3>1. /\ p = <<p[1], p[2]>> /\ p[1] \in Caller /\ p[2] \in Numbers
          /\ p[2] <= Spent(p[1])
      BY DEF SpentAttempts
    <3>2. Spent(p[1]) \in Int /\ Spent(p[1]) >= 1
      BY <3>1, <2>1, PartsTyped DEF Spent
    <3>3. cpc[p[1]] # "idle"
      BY <3>1, <3>2
      DEF Spent, ClientProofs!ClientInv, ClientProofs!LoopInv
    <3>4. p[1] \in Holders
      BY <3>1, <3>3
      DEF JudgeInv, CallerInv, VerdictIsTruthful, TruthfulVerdict, Holders
    <3> QED BY <3>1, <3>4
  <2>4. /\ IsFiniteSet(Holders \X Numbers)
        /\ Cardinality(Holders \X Numbers) = Cardinality(Holders) * Cardinality(Numbers)
    BY <2>2, FS_Product DEF JudgeInv
  <2>5. Cardinality(SpentAttempts) <= Cardinality(Holders \X Numbers)
    BY <2>3, <2>4, FS_Subset
  <2>6. Cardinality(SpentAttempts) \in Nat
    BY FS_CardinalityType DEF JudgeInv
  <2>7. sent <= tokens * m
    BY <2>1, <2>2, <2>4, <2>5, <2>6 DEF JudgeInv
  <2> QED BY <2>1, <2>7 DEF RequestsPerToken, JudgeInv
<1> QED BY <1>1, JudgeInvariant, ClientInvariant, PTL

(***************************************************************************)
(* The judge's state is typed.                                             *)
(***************************************************************************)
THEOREM JudgeTyped == Safety => []TypeOK
<1>1. LimiterProofs!LimiterInv => Limiter!TypeOK
  BY DEF LimiterProofs!LimiterInv, LimiterProofs!TypeOK, Limiter!TypeOK,
         Limiter!WPCs, LimiterProofs!WPCs, Limiter!Capacity,
         LimiterProofs!Capacity
<1>2. ClientProofs!ClientInv => Client!TypeOK
  BY DEF ClientProofs!ClientInv, ClientProofs!TypeOK, Client!TypeOK,
         Client!Responses, ClientProofs!Responses, Client!Errors,
         ClientProofs!Errors, Client!Outcome, ClientProofs!Outcome
<1>3. JudgeInv /\ LimiterProofs!LimiterInv /\ ClientProofs!ClientInv => TypeOK
  BY <1>1, <1>2 DEF JudgeInv, TypeOK
<1> QED BY <1>3, JudgeInvariant, ClientInvariant, LimiterInvariant, PTL

(***************************************************************************)
(* In every evaluation of the judge the limit of the limiter holds, and no *)
(* evaluation sleeps over a token.                                         *)
(***************************************************************************)
THEOREM JudgeKeepsRate == Safety => [](Limiter!RateBound /\ Limiter!NoTokenSleptOver)
<1>1. Safety => LimiterProofs!Safety
  BY JudgeImplementsLimiter, SameLimiter, PTL
  DEF Limiter!Safety, LimiterProofs!Safety
<1>2. Safety => []LimiterProofs!RateBound /\ []LimiterProofs!NoTokenSleptOver
  BY <1>1, LimiterAssumption, LimiterProofs!WindowsBounded,
     LimiterProofs!TokensAreNoticed, PTL
<1>3. /\ LimiterProofs!RateBound => Limiter!RateBound
      /\ LimiterProofs!NoTokenSleptOver => Limiter!NoTokenSleptOver
  BY DEF Limiter!RateBound, LimiterProofs!RateBound, Limiter!Capacity,
         LimiterProofs!Capacity, Limiter!NoTokenSleptOver,
         LimiterProofs!NoTokenSleptOver, Limiter!Refilled,
         LimiterProofs!Refilled, Limiter!Least, LimiterProofs!Least
<1> QED BY <1>2, <1>3, PTL

(***************************************************************************)
(* In every evaluation of the judge what the client returns is the last    *)
(* word, and its delays are those configured.                              *)
(***************************************************************************)
THEOREM JudgeKeepsWord ==
  Safety => [](Client!ReplyIsLastWord /\ Client!DelayAsConfigured)
<1>1. ClientProofs!ReplyIsLastWord => Client!ReplyIsLastWord
  BY DEF ClientProofs!ReplyIsLastWord, Client!ReplyIsLastWord,
         ClientProofs!LastWord, Client!LastWord, ClientProofs!Retryable,
         Client!Retryable, ClientProofs!CtxError, Client!CtxError
<1>2. ClientProofs!DelayAsConfigured => Client!DelayAsConfigured
  BY DEF ClientProofs!DelayAsConfigured, Client!DelayAsConfigured,
         ClientProofs!SleepsAsConfigured, Client!SleepsAsConfigured,
         ClientProofs!CappedAsked, Client!CappedAsked
<1>3. ClientProofs!ClientInv =>
        Client!ReplyIsLastWord /\ Client!DelayAsConfigured
  BY <1>1, <1>2 DEF ClientProofs!ClientInv
<1> QED BY <1>3, ClientInvariant, PTL
=============================================================================
