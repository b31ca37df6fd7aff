------------------------------ MODULE Failure ------------------------------
(***************************************************************************)
(* internal/failure/failure.go: the structured errors every part of Gaugo  *)
(* returns, errors.Is on them, and Classify, which turns an error into the *)
(* ErrorInfo stored with a failed metric.                                  *)
(*                                                                         *)
(* An error is a tree of links (an error and what its Unwrap gives).       *)
(* errors.Is and walk visit that tree in the same order, each link before  *)
(* what it wraps, so an error is modelled by the sequence of its links in  *)
(* that order.  The link types are                                         *)
(*   "gaugo"     *failure.Error                                            *)
(*   "foreign"   an error of another type with Gaugo* methods and no Is    *)
(*   "sentinel"  ErrConfig, ..., ErrPanic                                  *)
(*   "canceled"  context.Canceled     "deadline"  context.DeadlineExceeded *)
(*   "plain"     any other error                                           *)
(* Operation, field, provider, wire, model and request id are merged       *)
(* alike, the first one that is not empty wins: "label" stands for them.   *)
(***************************************************************************)
EXTENDS Naturals, Sequences

CONSTANTS Codes,   \* the codes of errors, those of other programs included
          Labels   \* the labels of errors

ContextKind == {"context_canceled", "context_deadline"}

Kind == ContextKind \cup
  {"", "unknown", "config", "validation", "panic", "metric", "metric_parse",
   "provider_request", "provider_auth", "provider_rate_limit",
   "provider_unavailable", "provider_response", "provider_refusal",
   "provider_truncated"}

Code == ContextKind \cup
  {"", "unknown", "config_invalid", "runner_config_invalid",
   "validation_invalid", "case_invalid", "retry_invalid", "rate_limit_invalid",
   "metric_invalid", "metric_parse", "provider_config_invalid",
   "provider_api_key_required", "provider_http_request",
   "provider_http_status", "provider_response_decode",
   "provider_response_invalid", "provider_response_too_large",
   "provider_refusal", "provider_truncated", "panic"}

ASSUME CodesAssumption == Code \subseteq Codes /\ "" \in Labels

LinkType == [type : {"gaugo", "foreign", "sentinel", "canceled", "deadline",
                     "plain"},
             kind : Kind, code : Codes, status : Nat, retryable : BOOLEAN,
             label : Labels]

InfoType == [kind : Kind, code : Codes, status : Nat, retryable : BOOLEAN,
             label : Labels]

Silent == [type |-> "plain", kind |-> "", code |-> "", status |-> 0,
           retryable |-> FALSE, label |-> ""]
Plain    == Silent
Canceled == [Silent EXCEPT !.type = "canceled"]
Deadline == [Silent EXCEPT !.type = "deadline"]

Sentinel(kind) == [Silent EXCEPT !.type = "sentinel", !.kind = kind]

Gaugo(kind, code) ==
  [Silent EXCEPT !.type = "gaugo", !.kind = kind, !.code = code]

Known(name) == name \notin {"", "unknown"}

KindFromStatusCode(status) ==
  IF status = 429 THEN "provider_rate_limit"
  ELSE IF status \in {401, 403} THEN "provider_auth"
  ELSE IF status \in 400 .. 499 THEN "provider_request"
  ELSE IF status >= 500 THEN "provider_unavailable"
  ELSE "unknown"

RetryableStatus(status) == status = 429 \/ status >= 500

\* What a link answers to GaugoErrorKind; for a *failure.Error this is
\* Info().Kind, where the status speaks if the kind does not.
LinkKind(link) ==
  IF link.type = "gaugo" /\ ~Known(link.kind) /\ link.status # 0
  THEN KindFromStatusCode(link.status)
  ELSE link.kind

-----------------------------------------------------------------------------
(* errors.Is *)

MatchInfo(link, target) ==
  /\ Known(LinkKind(target)) => LinkKind(link) = LinkKind(target)
  /\ Known(target.code)      => link.code = target.code
  /\ Known(LinkKind(target)) \/ Known(target.code)

\* Mutant of TypedIs: the kind as written, not the one of the status.
TypedIsAsWritten(link, target) ==
  IF target.type = "gaugo" THEN MatchInfo(link, target)
  ELSE \/ Known(target.kind) /\ link.kind = target.kind
       \/ Known(target.code) /\ link.code = target.code

\* (*Error).Is.
TypedIs(link, target) ==
  IF target.type = "gaugo" THEN MatchInfo(link, target)
  ELSE \/ Known(target.kind) /\ LinkKind(link) = target.kind
       \/ Known(target.code) /\ link.code = target.code

\* errors.Is(err, target): a comparable target is also found by identity.
ErrorsIs(err, target) ==
  \E i \in DOMAIN err :
    \/ target.type \in {"sentinel", "canceled", "deadline"} /\ err[i] = target
    \/ err[i].type = "gaugo" /\ TypedIs(err[i], target)

-----------------------------------------------------------------------------
(* Classify *)

NoInfo == [kind |-> "unknown", code |-> "", status |-> 0,
           retryable |-> FALSE, label |-> ""]

\* The two context errors are looked for first, wherever they are in the
\* tree, and nothing else is read when one is found.
ContextInfo(kind) == [NoInfo EXCEPT !.kind = kind, !.code = kind]

ContextEnded(err) == ErrorsIs(err, Canceled) \/ ErrorsIs(err, Deadline)

\* mergeKind, mergeCode.
Prefer(old, new) == IF Known(old) \/ ~Known(new) THEN old ELSE new

\* Mutant of Merge: the innermost link has the last word.
MergeInnermost(info, link) ==
  [kind      |-> Prefer(LinkKind(link), info.kind),
   code      |-> Prefer(link.code, info.code),
   status    |-> IF link.status = 0 THEN info.status ELSE link.status,
   retryable |-> info.retryable \/ link.retryable,
   label     |-> IF link.label = "" THEN info.label ELSE link.label]

\* Mutant of Merge: the innermost link says whether to retry.
MergeRetryableInnermost(info, link) ==
  [kind      |-> Prefer(info.kind, LinkKind(link)),
   code      |-> Prefer(info.code, link.code),
   status    |-> IF info.status = 0 THEN link.status ELSE info.status,
   retryable |-> link.retryable,
   label     |-> IF info.label = "" THEN link.label ELSE info.label]

\* Mutant of Merge: the code comes with the kind or not at all.
MergeCodeWithKind(info, link) ==
  [kind      |-> Prefer(info.kind, LinkKind(link)),
   code      |-> IF Known(info.kind) THEN info.code
                 ELSE Prefer(info.code, link.code),
   status    |-> IF info.status = 0 THEN link.status ELSE info.status,
   retryable |-> info.retryable \/ link.retryable,
   label     |-> IF info.label = "" THEN link.label ELSE info.label]

\* mergeFromError, of which mergeInfo is the part for a *failure.Error: what
\* is known stays, and one retryable link is enough.
Merge(info, link) ==
  [kind      |-> Prefer(info.kind, LinkKind(link)),
   code      |-> Prefer(info.code, link.code),
   status    |-> IF info.status = 0 THEN link.status ELSE info.status,
   retryable |-> info.retryable \/ link.retryable,
   label     |-> IF info.label = "" THEN link.label ELSE info.label]

\* The status, wherever it was found, decides when no link knows its kind.
KindOrStatus(info) ==
  IF ~Known(info.kind) /\ info.status # 0
  THEN [info EXCEPT !.kind = KindFromStatusCode(info.status)]
  ELSE info

\* walk: the links merged in their order, outermost first.
Walked[links \in Seq(LinkType)] ==
  LET n == Len(links) IN
  IF n = 0 THEN NoInfo
  ELSE Merge(Walked[SubSeq(links, 1, n - 1)], links[n])

Classify(err) ==
  IF ErrorsIs(err, Canceled) THEN ContextInfo("context_canceled")
  ELSE IF ErrorsIs(err, Deadline) THEN ContextInfo("context_deadline")
  ELSE KindOrStatus(Walked[err])
=============================================================================
