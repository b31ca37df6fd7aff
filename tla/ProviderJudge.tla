---------------------------- MODULE ProviderJudge ----------------------------
(***************************************************************************)
(* EvaluateJSON of a provider's Judge: the metrics of concurrent cases ask *)
(* one judge; each evaluation waits for the shared limiter, encodes its    *)
(* request, has it posted by the retrying client, and makes an answer or   *)
(* an error of what comes back.  All the bundled providers do this in the  *)
(* same way.  The limiter is RateLimiter and the client RetryClient; this  *)
(* module says how an evaluation goes from one to the other.  Without a    *)
(* limiter an evaluation is the client's part alone.                       *)
(***************************************************************************)
EXTENDS Integers, Sequences, FiniteSets

CONSTANTS
  Caller,             \* the evaluations, one per goroutine
  RequestsPerMinute, Burst, Minute, Horizon,           \* see RateLimiter
  Configs, RetryAfters, Second, DurationLimit          \* see RetryClient

\* What the parts assume of their constants.
ASSUME JudgeAssumption ==
  /\ RequestsPerMinute \in Nat \ {0}
  /\ Burst \in Int
  /\ Minute \in Nat \ {0}
  /\ Horizon \in Nat
  /\ Second \in Nat \ {0}
  /\ DurationLimit \in Nat \ {0}
  /\ Configs \subseteq [maxAttempts : Nat, baseDelay : 0 .. DurationLimit - 1,
                        maxDelay : 0 .. DurationLimit - 1]
  /\ \A c \in Configs :
       c.baseDelay > 0 /\ c.maxDelay > 0 => c.baseDelay <= c.maxDelay
  /\ RetryAfters \subseteq [kind : {"absent", "seconds", "date"}, value : Int]

VARIABLES
  level, elapsed, wpc, timer, calls, recent,           \* the limiter
  cfg, ctx, cpc, attempt, last, delay, reply, outcomes, asked, \* the client
  jpc,       \* where each evaluation is in EvaluateJSON
  verdict,   \* what it returned
  tokens,    \* history: tokens the limiter gave out
  sent       \* history: requests that went onto the wire

limiterVars == <<level, elapsed, wpc, timer, calls, recent>>
clientVars == <<cfg, ctx, cpc, attempt, last, delay, reply, outcomes, asked>>
judgeVars == <<jpc, verdict, tokens, sent>>
vars == <<limiterVars, clientVars, judgeVars>>

Limiter == INSTANCE RateLimiter WITH
  Waiter <- Caller, MaxCalls <- 1,
  ctxDone <- [c \in Caller |-> ctx[c] # "live"]

Client == INSTANCE RetryClient WITH Call <- Caller

Verdicts == {"none", "answer", "wait error", "request error", "status error",
             "decode error"}

TypeOK ==
  /\ Limiter!TypeOK
  /\ Client!TypeOK
  /\ jpc \in [Caller -> {"idle", "waiting", "admitted", "posting", "done"}]
  /\ verdict \in [Caller -> Verdicts]
  /\ tokens \in Nat
  /\ sent \in Nat

-----------------------------------------------------------------------------

Init ==
  /\ Client!Init
  /\ Limiter!Init
  /\ jpc = [c \in Caller |-> "idle"]
  /\ verdict = [c \in Caller |-> "none"]
  /\ tokens = 0
  /\ sent = 0

Goes(c, to) == jpc' = [jpc EXCEPT ![c] = to]

\* EvaluateJSON returns.
Gives(c, v) == Goes(c, "done") /\ verdict' = [verdict EXCEPT ![c] = v]

\* Mutant of Evaluate: the limiter is not asked.
EvaluateAtOnce(c) ==
  /\ jpc[c] = "idle"
  /\ Goes(c, "admitted")
  /\ UNCHANGED <<limiterVars, clientVars, verdict, tokens, sent>>

\* j.limiter.Wait(ctx) is called.
Evaluate(c) ==
  /\ jpc[c] = "idle"
  /\ Goes(c, "waiting")
  /\ UNCHANGED <<clientVars, verdict, tokens, sent>>
  /\ Limiter!CallWait(c)

\* Wait goes round its loop.
KeepsWaiting(c) ==
  /\ UNCHANGED <<clientVars, judgeVars>>
  /\ Limiter!MissToken(c) \/ Limiter!TimerFires(c)

\* Mutant of Admitted: the evaluation goes on without a token.
AdmittedFree(c) ==
  /\ wpc[c] = "trying"
  /\ wpc' = [wpc EXCEPT ![c] = "idle"]
  /\ tokens' = tokens + 1
  /\ Goes(c, "admitted")
  /\ UNCHANGED <<clientVars, level, elapsed, timer, calls, recent, verdict, sent>>

\* Wait returns nil.
Admitted(c) ==
  /\ UNCHANGED <<clientVars, verdict, sent>>
  /\ Limiter!TakeToken(c)
  /\ tokens' = tokens + 1
  /\ Goes(c, "admitted")

\* Wait returns the error of the context.
WaitFails(c) ==
  /\ UNCHANGED <<clientVars, tokens, sent>>
  /\ Limiter!GiveUp(c)
  /\ Gives(c, "wait error")

\* The request cannot be built: no API key, or a schema that is not JSON.
EncodingFails(c) ==
  /\ jpc[c] = "admitted"
  /\ Gives(c, "request error")
  /\ UNCHANGED <<limiterVars, clientVars, tokens, sent>>

\* wire.PostJSONWithOptions is called.
Posts(c) ==
  /\ jpc[c] = "admitted"
  /\ Client!Post(c)
  /\ Goes(c, "posting")
  /\ UNCHANGED <<limiterVars, verdict, tokens, sent>>

\* Mutant of Sends: the request goes out although its context has ended.
SendsRegardless(c) ==
  /\ cpc[c] = "ready"
  /\ cpc' = [cpc EXCEPT ![c] = "awaiting"]
  /\ sent' = sent + 1
  /\ UNCHANGED <<cfg, ctx, attempt, last, delay, reply, outcomes, asked,
                 limiterVars, jpc, verdict, tokens>>

\* The client sends a request, for the first time or again.
Sends(c) ==
  /\ Client!Send(c)
  /\ sent' = sent + 1
  /\ UNCHANGED <<limiterVars, jpc, verdict, tokens>>

ClientProceeds(c) ==
  /\ \/ Client!Answered(c) \/ Client!Breaks(c) \/ Client!Interrupted(c)
     \/ Client!Wakes(c) \/ Client!Abandons(c)
  /\ UNCHANGED <<limiterVars, judgeVars>>

\* Mutant of VerdictsOn: the status is not looked at.
VerdictsWithoutStatus(r) ==
  CASE r.err # "none" -> {"request error"}
    [] OTHER -> {"answer", "decode error"}

\* What EvaluateJSON of the wire package makes of the client's reply: an error
\* first, then a status of 400 and up, then the body, which may be of no use.
VerdictsOn(r) ==
  CASE r.err # "none" -> {"request error"}
    [] r.err = "none" /\ r.resp # "ok" -> {"status error"}
    [] OTHER -> {"answer", "decode error"}

Returns(c) ==
  /\ jpc[c] = "posting"
  /\ cpc[c] = "returned"
  /\ \E v \in VerdictsOn(reply[c]) : Gives(c, v)
  /\ UNCHANGED <<limiterVars, clientVars, tokens, sent>>

EndContext(c) ==
  /\ Client!EndContext(c)
  /\ UNCHANGED <<limiterVars, judgeVars>>

Tick ==
  /\ UNCHANGED <<clientVars, judgeVars>>
  /\ Limiter!Tick

Waits(c) == KeepsWaiting(c) \/ Admitted(c) \/ WaitFails(c)

Builds(c) == EncodingFails(c) \/ Posts(c)

Next ==
  \/ \E c \in Caller :
       \/ Evaluate(c) \/ Waits(c) \/ Builds(c)
       \/ Sends(c) \/ ClientProceeds(c) \/ Returns(c) \/ EndContext(c)
  \/ Tick

Safety == Init /\ [][Next]_vars

(***************************************************************************)
(* The fairness of the two parts, and of the goroutine between them.       *)
(* Servers need not answer.                                                *)
(***************************************************************************)
Fairness ==
  /\ WF_vars(Tick)
  /\ \A c \in Caller :
       /\ WF_vars(Waits(c))
       /\ WF_vars(Builds(c))
       /\ WF_vars(\/ Sends(c)
                  \/ Client!Interrupted(c) /\ UNCHANGED <<limiterVars, judgeVars>>)
       /\ WF_vars((Client!Wakes(c) \/ Client!Abandons(c))
                    /\ UNCHANGED <<limiterVars, judgeVars>>)
       /\ WF_vars(Returns(c))

Spec == Safety /\ Fairness

-----------------------------------------------------------------------------

(***************************************************************************)
(* The traffic a provider sees is bounded through the tokens: a token pays *)
(* for one evaluation and so for as many requests as it has attempts.      *)
(***************************************************************************)
RequestsPerToken == sent <= cfg.maxAttempts * tokens

(***************************************************************************)
(* What the reference says: requests are held before they are sent, and    *)
(* rate limiting controls how fast judge requests leave the process        *)
(* (docs/reference/errors-and-retries.md:195,206).  Then no more requests  *)
(* leave than the limiter let through.                                     *)
(***************************************************************************)
EveryRequestHasToken == sent <= tokens

\* What is said of an evaluation in VerdictIsTruthful.
TruthfulVerdict(c) ==
  LET n == Len(outcomes[c])
      final == IF n = 0 THEN "none" ELSE outcomes[c][n] IN
  /\ verdict[c] \in {"answer", "decode error"} => final = "ok"
  /\ verdict[c] = "status error" =>
       \/ final = "rejected"
       \/ final = "busy" /\ n = cfg.maxAttempts
  /\ verdict[c] = "wait error" => ctx[c] # "live" /\ cpc[c] = "idle"

(***************************************************************************)
(* An evaluation says what happened.  Only a last attempt that succeeded   *)
(* gives an answer; a status error is the status of the last attempt; an   *)
(* error of the wait means that its context ended and nothing was sent.    *)
(***************************************************************************)
VerdictIsTruthful == \A c \in Caller : TruthfulVerdict(c)

(***************************************************************************)
(* An evaluation whose context ends comes back, wherever it is: waiting    *)
(* for a token, on the wire, or between two attempts.                      *)
(***************************************************************************)
EndedEvaluationReturns ==
  \A c \in Caller : (jpc[c] # "idle" /\ ctx[c] # "live") ~> jpc[c] = "done"

(***************************************************************************)
(* The judge uses its parts as they expect it, so that what is shown of    *)
(* the limiter (RateBound, NoTokenSleptOver) and of the client             *)
(* (ReplyIsLastWord, the delays) holds in every evaluation.                *)
(***************************************************************************)
ImplementsLimiter == Limiter!Spec
ImplementsClient == Client!Spec

-----------------------------------------------------------------------------

(***************************************************************************)
(* The inductive invariant.  Where an evaluation is in EvaluateJSON says   *)
(* where it can be in the limiter and in the client; the tokens are as     *)
(* many as the evaluations that got past the limiter, and the requests no  *)
(* more than the attempts these have begun.                                *)
(***************************************************************************)
CallerInv(c) ==
  /\ jpc[c] # "done" => verdict[c] = "none"
  /\ jpc[c] = "waiting" <=> wpc[c] # "idle"
  /\ jpc[c] \in {"idle", "waiting", "admitted"} => cpc[c] = "idle"
  /\ jpc[c] = "posting" => cpc[c] # "idle"
  /\ jpc[c] = "done" => cpc[c] \in {"idle", "returned"}

Holders ==
  {c \in Caller : \/ jpc[c] \in {"admitted", "posting"}
                  \/ jpc[c] = "done" /\ verdict[c] # "wait error"}

\* The attempts of a call that it put on the wire, or could have.
Spent(c) == IF cpc[c] = "ready" THEN attempt[c] - 1 ELSE attempt[c]

SpentAttempts ==
  {p \in Caller \X (1 .. cfg.maxAttempts) : p[2] <= Spent(p[1])}

JudgeInv ==
  /\ jpc \in [Caller -> {"idle", "waiting", "admitted", "posting", "done"}]
  /\ verdict \in [Caller -> Verdicts]
  /\ tokens \in Nat
  /\ sent \in Nat
  /\ \A c \in Caller : CallerInv(c)
  /\ VerdictIsTruthful
  /\ IsFiniteSet(Holders) /\ tokens = Cardinality(Holders)
  /\ IsFiniteSet(SpentAttempts) /\ sent <= Cardinality(SpentAttempts)
=============================================================================
