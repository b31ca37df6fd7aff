----------------------------- MODULE RetryClient -----------------------------
(***************************************************************************)
(* PostJSONWithOptions of internal/provider/wire: a JSON request is posted *)
(* until it is answered with something that is not transient, the attempts *)
(* are used up, or the context ends between two attempts.  Several calls   *)
(* go on at once; they share nothing but the configuration.                *)
(*                                                                         *)
(* A response is what the loop tells apart: "ok", "rejected" (a status     *)
(* that is not retried) or "busy" (429 and 5xx).  An error is "transient"  *)
(* (EOF, reset, timeout), "deadline" (context.DeadlineExceeded, be it of   *)
(* the context or of http.Client.Timeout), "canceled" or "fatal" (any      *)
(* other, a body that is too large included).  Durations are integers of   *)
(* a fixed width, as in Go.                                                *)
(***************************************************************************)
EXTENDS Integers, Sequences

CONSTANTS
  Call,           \* calls in progress
  Configs,        \* retry configurations that pass RetryConfig.Validate
  RetryAfters,    \* the Retry-After headers of responses
  Second,         \* time.Second
  DurationLimit   \* durations range over -DurationLimit .. DurationLimit - 1

ASSUME RetryAssumption ==
  /\ Second \in Nat \ {0}
  /\ DurationLimit \in Nat \ {0}
  /\ Configs \subseteq [maxAttempts : Nat, baseDelay : 0 .. DurationLimit - 1,
                        maxDelay : 0 .. DurationLimit - 1]
  /\ \A c \in Configs :
       c.baseDelay > 0 /\ c.maxDelay > 0 => c.baseDelay <= c.maxDelay
  /\ RetryAfters \subseteq [kind : {"absent", "seconds", "date"}, value : Int]

VARIABLES
  cfg,        \* the configuration, normalised
  ctx,        \* the context of each call: "live", "canceled" or "expired"
  cpc,        \* where each call is
  attempt,    \* the loop variable
  last,       \* the last response, "none" at first
  delay,      \* the delay of the sleep it is in
  reply,      \* what it returned
  outcomes,   \* history: the outcome of each attempt
  asked       \* history: the delay that was due, before capping and wrapping

clientVars == <<cfg, ctx, cpc, attempt, last, delay, reply, outcomes, asked>>

Responses == {"ok", "rejected", "busy"}
Errors    == {"transient", "deadline", "canceled", "fatal"}
Outcome   == Responses \cup Errors

Retryable(outcome) == outcome \in {"busy", "transient", "deadline"}

TypeOK ==
  /\ cfg.maxAttempts \in Nat \ {0}
  /\ ctx \in [Call -> {"live", "canceled", "expired"}]
  /\ cpc \in [Call -> {"idle", "ready", "awaiting", "sleeping", "returned"}]
  /\ \A c \in Call : attempt[c] \in 0 .. cfg.maxAttempts
  /\ last \in [Call -> Responses \cup {"none"}]
  /\ delay \in [Call -> -DurationLimit .. DurationLimit - 1]
  /\ reply \in [Call -> [resp : Responses \cup {"none"},
                         err : Errors \cup {"none"}]]
  /\ outcomes \in [Call -> Seq(Outcome)]
  /\ asked \in [Call -> Nat]

-----------------------------------------------------------------------------
(* Configuration and delays *)

\* DefaultRetryConfig: three attempts, 100 ms, 2 s.
DefaultRetryConfig ==
  [maxAttempts |-> 3, baseDelay |-> Second \div 10, maxDelay |-> 2 * Second]

OrDefault(value, default) == IF value = 0 THEN default ELSE value

\* Negative values do not get here: RetryConfig.Validate refuses them.
NormalizeRetryConfig(c) ==
  [c EXCEPT !.maxAttempts = OrDefault(@, DefaultRetryConfig.maxAttempts),
            !.baseDelay = OrDefault(@, DefaultRetryConfig.baseDelay),
            !.maxDelay = OrDefault(@, DefaultRetryConfig.maxDelay)]

\* time.Duration arithmetic wraps.
Wrap(n) == ((n + DurationLimit) % (2 * DurationLimit)) - DurationLimit

\* A conversion of a float64 that does not fit is up to the platform: amd64
\* gives the least integer, arm64 the nearest one.
FromFloat(n) ==
  IF n < DurationLimit THEN {n} ELSE {-DurationLimit, DurationLimit - 1}

\* capDuration
CapDuration(d) == IF cfg.maxDelay > 0 /\ d > cfg.maxDelay THEN cfg.maxDelay ELSE d

NonNegative(n) == IF n < 0 THEN 0 ELSE n

\* The delay due after attempt k, given the Retry-After header of the answer.
DueDelay(k, after) ==
  CASE after.kind = "absent"  -> cfg.baseDelay * 2 ^ (k - 1)
    [] after.kind = "seconds" -> NonNegative(after.value) * Second
    [] after.kind = "date"    -> NonNegative(after.value)

\* Mutant of RetryDelay: Retry-After is taken as it comes.
RetryDelayUncapped(k, after) ==
  IF after.kind = "absent"
  THEN {CapDuration(d) : d \in FromFloat(DueDelay(k, after))}
  ELSE {Wrap(DueDelay(k, after))}

\* retryDelay: what the computation may yield.
RetryDelay(k, after) ==
  IF after.kind = "absent"
  THEN {CapDuration(d) : d \in FromFloat(DueDelay(k, after))}
  ELSE {CapDuration(Wrap(DueDelay(k, after)))}

NoHeader == [kind |-> "absent", value |-> 0]

-----------------------------------------------------------------------------

Init ==
  /\ cfg \in {NormalizeRetryConfig(c) : c \in Configs}
  /\ ctx = [c \in Call |-> "live"]
  /\ cpc = [c \in Call |-> "idle"]
  /\ attempt = [c \in Call |-> 0]
  /\ last = [c \in Call |-> "none"]
  /\ delay = [c \in Call |-> 0]
  /\ reply = [c \in Call |-> [resp |-> "none", err |-> "none"]]
  /\ outcomes = [c \in Call |-> <<>>]
  /\ asked = [c \in Call |-> 0]

\* ctx.Err() as an error of the loop.
CtxError(c) == IF ctx[c] = "canceled" THEN "canceled" ELSE "deadline"

Post(c) ==
  /\ cpc[c] = "idle"
  /\ cpc' = [cpc EXCEPT ![c] = "ready"]
  /\ attempt' = [attempt EXCEPT ![c] = 1]
  /\ UNCHANGED <<cfg, ctx, last, delay, reply, outcomes, asked>>

\* client.Do puts the request on the wire.
Send(c) ==
  /\ cpc[c] = "ready"
  /\ ctx[c] = "live"
  /\ cpc' = [cpc EXCEPT ![c] = "awaiting"]
  /\ UNCHANGED <<cfg, ctx, attempt, last, delay, reply, outcomes, asked>>

\* The attempt ends the loop.
Concludes(c, outcome) == ~Retryable(outcome) \/ attempt[c] = cfg.maxAttempts

\* postJSONOnce comes back to the loop with an outcome.
Handle(c, outcome, after) ==
  LET response == IF outcome \in Responses THEN outcome ELSE "none" IN
  /\ outcomes' = [outcomes EXCEPT ![c] = Append(@, outcome)]
  /\ last' = IF response = "none" THEN last ELSE [last EXCEPT ![c] = response]
  /\ \/ /\ Concludes(c, outcome)
        /\ reply' = [reply EXCEPT ![c] =
             [resp |-> response,
              err |-> IF response = "none" THEN outcome ELSE "none"]]
        /\ cpc' = [cpc EXCEPT ![c] = "returned"]
        /\ UNCHANGED <<delay, asked>>
     \/ /\ ~Concludes(c, outcome)
        /\ \E d \in RetryDelay(attempt[c], after) :
             delay' = [delay EXCEPT ![c] = d]
        /\ asked' = [asked EXCEPT ![c] = DueDelay(attempt[c], after)]
        /\ cpc' = [cpc EXCEPT ![c] = "sleeping"]
        /\ UNCHANGED reply
  /\ UNCHANGED <<cfg, ctx, attempt>>

\* A response with its body arrives, possibly after the context ended.
Answered(c) ==
  /\ cpc[c] = "awaiting"
  /\ \E outcome \in Responses, after \in RetryAfters : Handle(c, outcome, after)

\* The round trip or the reading of the body fails for a reason of its own.
Breaks(c) ==
  /\ cpc[c] = "awaiting"
  /\ \E outcome \in Errors \ {"canceled"} : Handle(c, outcome, NoHeader)

\* Mutant of Interrupted: the request is built without the context.
InterruptedEarly(c) ==
  /\ cpc[c] = "ready"
  /\ ctx[c] # "live"
  /\ Handle(c, CtxError(c), NoHeader)

\* The context has ended: client.Do, before or after sending, or the reading
\* of the body returns its error.
Interrupted(c) ==
  /\ cpc[c] \in {"ready", "awaiting"}
  /\ ctx[c] # "live"
  /\ Handle(c, CtxError(c), NoHeader)

\* sleepRetry returns nil: its timer fired, or there was nothing to sleep and
\* the context is alive.
Wakes(c) ==
  /\ cpc[c] = "sleeping"
  /\ delay[c] > 0 \/ ctx[c] = "live"
  /\ attempt' = [attempt EXCEPT ![c] = @ + 1]
  /\ cpc' = [cpc EXCEPT ![c] = "ready"]
  /\ UNCHANGED <<cfg, ctx, last, delay, reply, outcomes, asked>>

\* Mutant of Abandons: the error of the context is lost.
AbandonsSilently(c) ==
  /\ cpc[c] = "sleeping"
  /\ ctx[c] # "live"
  /\ reply' = [reply EXCEPT ![c] = [resp |-> last[c], err |-> "none"]]
  /\ cpc' = [cpc EXCEPT ![c] = "returned"]
  /\ UNCHANGED <<cfg, ctx, attempt, last, delay, outcomes, asked>>

\* sleepRetry returns ctx.Err(), and with it the call, beside the last
\* response there was.
Abandons(c) ==
  /\ cpc[c] = "sleeping"
  /\ ctx[c] # "live"
  /\ reply' = [reply EXCEPT ![c] = [resp |-> last[c], err |-> CtxError(c)]]
  /\ cpc' = [cpc EXCEPT ![c] = "returned"]
  /\ UNCHANGED <<cfg, ctx, attempt, last, delay, outcomes, asked>>

\* The context is cancelled, or its deadline passes.
EndContext(c) ==
  /\ ctx[c] = "live"
  /\ \E why \in {"canceled", "expired"} : ctx' = [ctx EXCEPT ![c] = why]
  /\ UNCHANGED <<cfg, cpc, attempt, last, delay, reply, outcomes, asked>>

\* The steps of a call once it was made.
Proceeds(c) ==
  \/ Send(c) \/ Answered(c) \/ Breaks(c) \/ Interrupted(c)
  \/ Wakes(c) \/ Abandons(c)

Terminated ==
  /\ \A c \in Call : cpc[c] = "returned"
  /\ UNCHANGED clientVars

Next ==
  \/ \E c \in Call : Post(c) \/ Proceeds(c) \/ EndContext(c)
  \/ Terminated

Safety == Init /\ [][Next]_clientVars

(***************************************************************************)
(* The calling goroutine is scheduled, timers fire, and net/http comes     *)
(* back once the context has ended.  That a server ever answers is not     *)
(* assumed.                                                                *)
(***************************************************************************)
Fairness ==
  \A c \in Call :
    /\ WF_clientVars(Send(c) \/ Interrupted(c))
    /\ WF_clientVars(Wakes(c) \/ Abandons(c))

Spec == Safety /\ Fairness

-----------------------------------------------------------------------------

\* What is said of a call in ReplyIsLastWord.
LastWord(c) ==
  LET n == Len(outcomes[c]) IN
  /\ n <= cfg.maxAttempts
  /\ \A k \in 1 .. n - 1 : Retryable(outcomes[c][k])
  /\ cpc[c] = "returned" =>
       \/ /\ reply[c].err = "none"
          /\ reply[c].resp = outcomes[c][n]
          /\ Retryable(reply[c].resp) => n = cfg.maxAttempts
       \/ /\ reply[c] = [resp |-> "none", err |-> outcomes[c][n]]
          /\ Retryable(outcomes[c][n]) => n = cfg.maxAttempts
       \/ ctx[c] # "live" /\ reply[c].err = CtxError(c)

(***************************************************************************)
(* What a call returns is the last word.  It went on only after transient  *)
(* outcomes; a response without an error is that of the last attempt, and  *)
(* is itself transient only with the attempts used up; an error is that of *)
(* the last attempt, or the context's, and then the context has ended.     *)
(***************************************************************************)
ReplyIsLastWord == \A c \in Call : LastWord(c)

CappedAsked(c) == IF asked[c] > cfg.maxDelay THEN cfg.maxDelay ELSE asked[c]

\* What is said of a call in DelayAsConfigured.
SleepsAsConfigured(c) ==
  cpc[c] = "sleeping" =>
    /\ delay[c] <= cfg.maxDelay
    /\ asked[c] < DurationLimit => delay[c] = CappedAsked(c)

(***************************************************************************)
(* RetryConfig: MaxDelay caps backoff and Retry-After delays, whatever the *)
(* server sends and however far the backoff has grown; and a delay that a  *)
(* Duration can hold is kept exactly up to the cap, the server's when it   *)
(* names one, the backoff otherwise.                                       *)
(***************************************************************************)
DelayAsConfigured == \A c \in Call : SleepsAsConfigured(c)

-----------------------------------------------------------------------------

(***************************************************************************)
(* The inductive invariant.  Each attempt that ended left one outcome, and *)
(* a call in its loop has seen only transient ones; between two attempts   *)
(* there is another one to come, and its delay is the one configured.      *)
(***************************************************************************)
AllTransient(c) ==
  \A k \in 1 .. Len(outcomes[c]) : Retryable(outcomes[c][k])

LoopInv(c) ==
  /\ cpc[c] = "idle" => attempt[c] = 0 /\ outcomes[c] = <<>>
  /\ cpc[c] \in {"ready", "awaiting"} =>
       /\ attempt[c] >= 1
       /\ Len(outcomes[c]) = attempt[c] - 1
       /\ AllTransient(c)
  /\ cpc[c] = "sleeping" =>
       /\ 1 <= attempt[c] /\ attempt[c] < cfg.maxAttempts
       /\ Len(outcomes[c]) = attempt[c]
       /\ AllTransient(c)
  /\ cpc[c] = "returned" =>
       attempt[c] >= 1 /\ Len(outcomes[c]) = attempt[c]

ClientInv ==
  /\ TypeOK
  /\ cfg \in [maxAttempts : Nat \ {0}, baseDelay : Nat, maxDelay : Nat \ {0}]
  /\ attempt \in [Call -> Nat]
  /\ \A c \in Call : LoopInv(c)
  /\ ReplyIsLastWord
  /\ DelayAsConfigured
=============================================================================
