----------------------------- MODULE JudgePath ------------------------------
(***************************************************************************)
(* One evaluation of a judge metric, through every layer an error crosses: *)
(* metric (metric/judge.go), judge and wire (provider/..., wire.go),       *)
(* parser, and the runner that stores the classification and decides       *)
(* whether the case's other checks still run (suite.go).  The case context *)
(* may end at any moment; the limiter, the HTTP client and the provider    *)
(* give any of their outcomes (RateLimiter, RetryClient and Wires say      *)
(* which there are).                                                       *)
(***************************************************************************)
EXTENDS ProviderConfig

CONSTANT Configs  \* the configurations judges are made from
ASSUME ConfigsAssumption == Configs \subseteq ConfigType

VARIABLES pc,      \* where the evaluation is, from "new" to "done", or
                   \* "refused" when there is no judge to evaluate with
          config,  \* the configuration of the judge
          ctx,     \* the case context: "live", "canceled" or "expired"
          status,  \* the status the provider answered with, 0 before
          reply,   \* the provider's reply, once there is one
          err,     \* the error as its links, outermost first
          cause,   \* history: what went wrong
          info,    \* the ErrorInfo stored with the failed check
          stops,   \* the case's remaining checks are not run
          pass     \* the check passed

vars == <<pc, config, ctx, status, reply, err, cause, info, stops, pass>>

NoReply == [decodes |-> FALSE, answers |-> FALSE, stop |-> "end",
            parts |-> <<>>]

Status == {400, 401, 403, 429, 500, 503}

Cause == {"none", "no judge", "no expectation", "context", "client timeout",
          "transport", "broken body", "large body", "status", "reply",
          "verdict", "panic"}

wire == WireOf(config)

TypeOK ==
  /\ pc \in {"new", "refused", "evaluate", "admit", "post", "read", "parse",
             "done"}
  /\ config \in Configs
  /\ ctx \in {"live", "canceled", "expired"}
  /\ status \in Status \cup {0, 200}
  /\ reply \in Replies(wire) \cup {NoReply}
  /\ cause \in Cause
  /\ info.kind \in Kind
  /\ stops \in BOOLEAN /\ pass \in BOOLEAN

Init ==
  /\ pc = "new"
  /\ config \in Configs
  /\ ctx = "live"
  /\ status = 0
  /\ reply = NoReply
  /\ err = <<>>
  /\ cause = "none"
  /\ info = NoInfo
  /\ stops = FALSE
  /\ pass = FALSE

-----------------------------------------------------------------------------
(* Errors *)

CtxError == IF ctx = "canceled" THEN Canceled ELSE Deadline

\* Mutant of MetricErrorCanceled: only the outermost error is compared.
MetricErrorCanceledOutside(links) == links[1] \in {Canceled, Deadline}

\* metricErrorCanceled: a context error, of whichever context.
MetricErrorCanceled(links) == ContextEnded(links)

\* The runner records the check as failed.
Fails(why, links) ==
  /\ err' = links
  /\ cause' = why
  /\ info' = Classify(links)
  /\ stops' = MetricErrorCanceled(links)
  /\ pc' = "done"
  /\ UNCHANGED <<config, ctx, pass>>

\* judgeEvaluationError wraps whatever the judge returned.
JudgeEvaluationError(links) == <<Plain>> \o links

\* Mutant of JudgeRequestErrorForWire: the wrapped error is not classified.
JudgeRequestErrorBlunt(links) ==
  <<[Gaugo("provider_request", "provider_http_request")
       EXCEPT !.label = wire]>> \o links

\* JudgeRequestErrorForWire: kind and code are those of the wrapped error,
\* as far as it is known.
JudgeRequestErrorForWire(links) ==
  LET inner == Classify(links)
  IN  <<[Gaugo(IF Known(inner.kind) THEN inner.kind ELSE "provider_request",
               IF Known(inner.code) THEN inner.code
               ELSE "provider_http_request")
           EXCEPT !.label = wire]>> \o links

\* Mutant of StatusErrorForWire: the test of the status is turned round.
StatusErrorSwapped(code) ==
  <<[Gaugo(KindFromStatusCode(code), "provider_http_status")
       EXCEPT !.status = code, !.retryable = ~RetryableStatus(code),
              !.label = wire]>>

StatusErrorForWire(code) ==
  <<[Gaugo(KindFromStatusCode(code), "provider_http_status")
       EXCEPT !.status = code, !.retryable = RetryableStatus(code),
              !.label = wire]>>

DecodeErrorCode(kind) ==
  IF kind \in {"provider_refusal", "provider_truncated"} THEN kind
  ELSE "provider_response_invalid"

DecodeResponseErrorForWire(kind) ==
  <<[Gaugo(kind, DecodeErrorCode(kind)) EXCEPT !.label = wire]>>

DecodeResponseWrapErrorForWire ==
  <<[Gaugo("provider_response", "provider_response_decode")
       EXCEPT !.label = wire], Plain>>

ExecuteRequestError(retryable, inner) ==
  <<[Gaugo("provider_request", "provider_http_request")
       EXCEPT !.retryable = retryable], inner>>

ReadBodyError(code, inner) == <<Gaugo("provider_response", code), inner>>

-----------------------------------------------------------------------------
(* The evaluation *)

\* New refuses the configuration; its caller classifies the error.
NewRefuses ==
  /\ pc = "new"
  /\ Refusal(config) # <<>>
  /\ err' = Refusal(config)
  /\ info' = Classify(err')
  /\ pc' = "refused"
  /\ UNCHANGED <<config, ctx, status, reply, cause, stops, pass>>

NewJudge ==
  /\ pc = "new"
  /\ Refusal(config) = <<>>
  /\ pc' = "evaluate"
  /\ UNCHANGED <<config, ctx, status, reply, err, cause, info, stops, pass>>

\* No judge is configured.
NoJudge ==
  /\ pc = "evaluate"
  /\ Fails("no judge", <<Gaugo("metric", "metric_invalid")>>)
  /\ UNCHANGED <<status, reply>>

\* The request builder misses Expected.Answer or Expected.Instructions.
NoExpectation ==
  /\ pc = "evaluate"
  /\ Fails("no expectation", <<Gaugo("metric", "metric_invalid")>>)
  /\ UNCHANGED <<status, reply>>

Builds ==
  /\ pc = "evaluate"
  /\ pc' = "admit"
  /\ UNCHANGED <<config, ctx, status, reply, err, cause, info, stops, pass>>

\* The limiter gives up with the context's own error.
LimiterGivesUp ==
  /\ pc = "admit"
  /\ ctx # "live"
  /\ Fails("context", JudgeEvaluationError(<<CtxError>>))
  /\ UNCHANGED <<status, reply>>

\* Admitted by the limiter, or there is none.
Admitted ==
  /\ pc = "admit"
  /\ pc' = "post"
  /\ UNCHANGED <<config, ctx, status, reply, err, cause, info, stops, pass>>

PostFails(why, links) ==
  /\ pc = "post"
  /\ Fails(why, JudgeEvaluationError(JudgeRequestErrorForWire(links)))
  /\ UNCHANGED <<status, reply>>

\* The context ends the request, the reading of its body or the wait for the
\* next attempt; postJSONOnce marks a passed deadline as retryable.
PostEnded ==
  /\ ctx # "live"
  /\ \/ PostFails("context",
                  ExecuteRequestError(CtxError = Deadline, CtxError))
     \/ PostFails("context",
                  ReadBodyError("provider_response_decode", CtxError))
     \/ PostFails("context", <<CtxError>>)

\* The http.Client's own timeout, which is a context.DeadlineExceeded too, on
\* the last attempt.
PostTimesOut ==
  \/ PostFails("client timeout", ExecuteRequestError(TRUE, Deadline))
  \/ PostFails("client timeout",
               ReadBodyError("provider_response_decode", Deadline))

\* A transport error: transient on the last attempt, or one never retried.
PostBreaks ==
  \E transient \in BOOLEAN :
    PostFails("transport", ExecuteRequestError(transient, Plain))

BodyBreaks ==
  PostFails("broken body", ReadBodyError("provider_response_decode", Plain))

BodyTooLarge ==
  PostFails("large body", ReadBodyError("provider_response_too_large", Plain))

\* A status that is not retried, or one that is on the last attempt.
StatusFails ==
  /\ pc = "post"
  /\ status' \in Status
  /\ Fails("status", JudgeEvaluationError(StatusErrorForWire(status')))
  /\ UNCHANGED reply

Replied ==
  /\ pc = "post"
  /\ status' = 200
  /\ reply' \in Replies(wire)
  /\ pc' = "read"
  /\ UNCHANGED <<config, ctx, err, cause, info, stops, pass>>

\* The wire cannot decode the reply, or refuses what it says.
ReplyRefused ==
  /\ pc = "read"
  /\ Fault(wire, reply) # ""
  /\ Fails("reply",
           JudgeEvaluationError(
             IF reply.decodes THEN DecodeResponseErrorForWire(Fault(wire, reply))
             ELSE DecodeResponseWrapErrorForWire))
  /\ UNCHANGED <<status, reply>>

ReplyAccepted ==
  /\ pc = "read"
  /\ Fault(wire, reply) = ""
  /\ pc' = "parse"
  /\ UNCHANGED <<config, ctx, status, reply, err, cause, info, stops, pass>>

\* The parser does not accept the JSON.
ParseFails ==
  /\ pc = "parse"
  /\ TextOf(wire, reply.parts) # "verdict"
  /\ Fails("verdict", <<Gaugo("metric_parse", "metric_parse"), Plain>>)
  /\ UNCHANGED <<status, reply>>

\* Parsed and scored; Pass is score >= threshold.
Scored ==
  /\ pc = "parse"
  /\ TextOf(wire, reply.parts) = "verdict"
  /\ pass' \in BOOLEAN
  /\ pc' = "done"
  /\ UNCHANGED <<config, ctx, status, reply, err, cause, info, stops>>

\* evaluateMetricSafely recovers a panic of the metric or of the judge.
Panics ==
  /\ pc \in {"evaluate", "admit", "post", "read", "parse"}
  /\ Fails("panic", <<[Gaugo("panic", "panic") EXCEPT !.type = "foreign"]>>)
  /\ UNCHANGED <<status, reply>>

\* Environment: the case context ends.
EndContext ==
  /\ ctx = "live"
  /\ pc \in {"evaluate", "admit", "post", "read", "parse"}
  /\ ctx' \in {"canceled", "expired"}
  /\ UNCHANGED <<pc, config, status, reply, err, cause, info, stops, pass>>

Next ==
  \/ NewRefuses \/ NewJudge
  \/ NoJudge \/ NoExpectation \/ Builds
  \/ LimiterGivesUp \/ Admitted
  \/ PostEnded \/ PostTimesOut \/ PostBreaks \/ BodyBreaks \/ BodyTooLarge
  \/ StatusFails \/ Replied
  \/ ReplyRefused \/ ReplyAccepted
  \/ ParseFails \/ Scored
  \/ Panics \/ EndContext

Spec == Init /\ [][Next]_vars

-----------------------------------------------------------------------------
(* Properties *)

Failed == pc = "done" /\ err # <<>>

\* Whether the wire has the reply's stop reason before it: ollama never reads
\* it, chat only with a choice, gemini only with a part of text.
StopRead ==
  /\ reply.decodes
  /\ wire # "ollama"
  /\ wire \in {"chat", "generatecontent"} => reply.answers
  /\ wire = "generatecontent" => reply.parts # <<>>

\* An answer that is no good, by why the model stopped: a stop the wire reads
\* decides, whatever text there is.
KindsOfReply ==
  IF StopRead /\ reply.stop = "limit" THEN {"provider_truncated"}
  ELSE IF StopRead /\ reply.stop \in {"refusal", "blocked"}
       THEN {"provider_refusal"}
  ELSE {"provider_response"}
       \cup {k \in {"provider_refusal"} : "refusal" \in Range(reply.parts)}

\* What a cause is called, whatever it is wrapped in on the way out.
KindOf(why) ==
  CASE why \in {"no judge", "no expectation"} -> {"metric"}
    [] why = "context"        -> {Classify(<<CtxError>>).kind}
    [] why = "client timeout" -> {"context_deadline"}
    [] why = "transport"      -> {"provider_request"}
    [] why \in {"broken body", "large body"} -> {"provider_response"}
    [] why = "reply"   -> KindsOfReply
    [] why = "verdict" -> {"metric_parse"}
    [] why = "panic"   -> {"panic"}
    [] why = "status"  -> {KindFromStatusCode(status)}

\* A body that was not read to its end or is no JSON: the answer was lost on
\* the way, as against an answer that is no good.
Unreadable == cause = "broken body" \/ (cause = "reply" /\ ~reply.decodes)

\* The stored ErrorInfo names the cause, in its kind and in the code that
\* tells a lost answer from a bad one, a reply cut at the token limit or refused
\* included: three layers of wrapping (http client, wire, metric) and the
\* re-classification in the wire do not blur it.  What New refuses is a config
\* error, also where a validation error is at the bottom of it.
CauseTold ==
  /\ Failed => /\ info.kind \in KindOf(cause)
               /\ info.code = "provider_response_decode" <=> Unreadable
  /\ pc = "refused" => info.kind = "config" /\ ErrorsIs(err, Sentinel("config"))

\* The two readers of the same error agree: the runner skips the rest of the
\* case (metricErrorCanceled) exactly when the stored kind is a context kind.
StopAgreesWithInfo == Failed => (stops <=> info.kind \in ContextKind)

\* What ErrorInfo calls retryable is what the HTTP client retries: transient
\* transport errors, 429 and 5xx, and never an ended case context, a refusal
\* or an answer that cannot be read.
RetryableIsTransient ==
  Failed /\ info.retryable =>
    cause = "transport" \/ status \in {429, 500, 503}

\* A check never passes on a reply that says it was cut at the limit, refused
\* or blocked, on any wire that reads why the model stopped (ollama's does
\* not, and other reasons are read by none), nor on text that is not the JSON
\* the metric asked for, nor after an error.
PassIsEarned ==
  pass =>
    /\ err = <<>>
    /\ reply.decodes
    /\ wire # "ollama" => reply.stop \in {"end", "other"}
    /\ wire = "chat" => "refusal" \notin Range(reply.parts)
    /\ TextOf(wire, reply.parts) = "verdict"

\* Where the documentation says the requests of each provider go below the
\* API root, the root's own /v1 included.
ApiPath ==
  CASE config.provider \in {"openai", "nvidia"} ->
         <<"v1", "chat", "completions">>
    [] config.provider = "xai" ->
         IF config.useChatCompletions THEN <<"v1", "chat", "completions">>
         ELSE <<"v1", "responses">>
    [] config.provider = "gemini" ->
         <<"v1beta", "models", "model:generateContent">>
    [] config.provider = "anthropic" -> <<"v1", "messages">>
    [] config.provider = "custom" ->
         CASE config.mode = "anthropic" -> <<"v1", "messages">>
           [] config.mode = "openai" ->
                IF config.compatEndpoint = "responses" THEN <<"v1", "responses">>
                ELSE <<"v1", "chat", "completions">>
           [] OTHER -> <<"api", "chat">>

\* The base URL is the default or a spelling of an API root the documentation
\* shows: with or without a last slash, a custom OpenAI root also without /v1.
Customary ==
  \/ config.baseURL.form = "blank"
  \/ Trimmed(config.baseURL.path) =
       IF config.provider \in {"openai", "xai", "nvidia"} THEN <<"v1">> ELSE <<>>
  \/ /\ config.provider = "custom" /\ config.mode = "openai"
     /\ Trimmed(config.baseURL.path) = <<"v1">>

\* A request goes to the URL of the judge's own provider, over https and under
\* the key it was given, unless the configuration says otherwise; and below a
\* customary root to the path of that provider's API.
GoesHome ==
  LET url == Target(config)
  IN  /\ config.provider # "custom" =>
           /\ KeyOf(config) = "own"
           /\ ~config.allowUnsafeURL =>
                /\ url.scheme = "https" /\ ~url.user
                /\ url.host = OfficialHost(config.provider)
      /\ wire # "ollama" => KeyOf(config) # "blank"
      /\ config.endpointURL.form = "blank" /\ Customary => url.path = ApiPath

\* Whatever is left to defaults, by the judge or by the wire it shares with
\* other providers, the requests of an evaluation go to its own provider.
RequestGoesHome == pc \in {"post", "read", "parse"} => GoesHome

-----------------------------------------------------------------------------
(* What every step keeps: the properties, and what they rest on *)

Running == {"evaluate", "admit", "post", "read", "parse"}

\* Until it fails or is scored, an evaluation has nothing to show.
Quiet ==
  pc \in Running \cup {"new", "refused"} =>
    /\ pc # "refused" => err = <<>>
    /\ cause = "none" /\ ~stops /\ ~pass

\* Only the judge of a configuration New accepts evaluates.
Legit == pc \in Running \cup {"done"} => Refusal(config) = <<>>

\* What the parser is given has passed the wire's checks.
Checked ==
  /\ pc \in {"read", "parse"} => reply \in Replies(wire) /\ status = 200
  /\ pc = "parse" => Fault(wire, reply) = ""

PathInv ==
  /\ TypeOK /\ Quiet /\ Legit /\ Checked
  /\ CauseTold /\ StopAgreesWithInfo /\ RetryableIsTransient
  /\ PassIsEarned /\ RequestGoesHome
=============================================================================
