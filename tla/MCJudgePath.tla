---------------------------- MODULE MCJudgePath -----------------------------
(***************************************************************************)
(* Instance of JudgePath: judges of every provider, their base URLs and    *)
(* endpoints blank, official, elsewhere and malformed, and each other part *)
(* of a configuration wrong in turn.                                       *)
(***************************************************************************)
EXTENDS JudgePath

Retries(attempts, base, max) ==
  [maxAttempts |-> attempts, baseDelay |-> base, maxDelay |-> max]

Plainly(provider) ==
  [provider |-> provider, apiKey |-> "own", baseURL |-> Blank,
   endpointURL |-> Blank, allowUnsafeURL |-> FALSE, mode |-> "blank",
   compatEndpoint |-> "blank", useChatCompletions |-> FALSE,
   retry |-> Retries(0, 0, 0),
   rateLimit |-> [requestsPerMinute |-> 0, burst |-> 0],
   maxResponseBody |-> 0]

Root(provider) ==
  CASE provider = "openai"    -> OpenAIBaseURL
    [] provider = "anthropic" -> AnthropicBaseURL
    [] provider = "gemini"    -> GeminiBaseURL
    [] provider = "xai"       -> XAIBaseURL
    [] provider = "nvidia"    -> NVIDIABaseURL
    [] provider = "custom"    -> CustomBaseURL

Hosted == Provider \ {"custom"}

\* An own gateway that stands in for the provider.
Gateway == URL("http", "gateway", <<"v1">>)

Slashed(url) == [url EXCEPT !.path = @ \o <<"">>]

URLs(root) ==
  { Blank, root, Slashed(root), [root EXCEPT !.scheme = "http"], Gateway }

BadURLs(root) ==
  { [Blank EXCEPT !.form = "broken"], [root EXCEPT !.host = ""],
    [root EXCEPT !.scheme = "ftp"], [root EXCEPT !.user = TRUE] }

HostedConfigs ==
  UNION { { [Plainly(p) EXCEPT !.baseURL = base, !.allowUnsafeURL = unsafe,
                               !.useChatCompletions = chat] :
            base \in URLs(Root(p)), unsafe \in BOOLEAN,
            chat \in IF p = "xai" THEN BOOLEAN ELSE {FALSE} }
          \cup { [Plainly(p) EXCEPT !.endpointURL = endpoint,
                                    !.allowUnsafeURL = unsafe] :
                 endpoint \in URLs(Root(p)) \ {Blank}, unsafe \in BOOLEAN }
          : p \in Hosted }

CustomConfigs ==
  { [Plainly("custom") EXCEPT !.apiKey = key, !.baseURL = base, !.mode = mode,
                              !.compatEndpoint = compat] :
    key \in {"blank", "own"},
    base \in {Blank, Slashed(CustomBaseURL), Gateway, Slashed(Gateway)},
    mode \in {"blank", "native", "openai", "anthropic", "misspelt"},
    compat \in {"blank", "responses"} }
  \cup { [Plainly("custom") EXCEPT !.mode = "openai", !.compatEndpoint = compat] :
         compat \in {"chat_completions", "misspelt"} }
  \cup { [Plainly("custom") EXCEPT !.endpointURL = Gateway] }

\* One part of the configuration is wrong.
FaultyConfigs ==
  UNION { { [Plainly(p) EXCEPT !.apiKey = "blank"],
            [Plainly(p) EXCEPT !.retry = Retries(-1, 0, 0)],
            [Plainly(p) EXCEPT !.retry = Retries(0, 2, 1)],
            [Plainly(p) EXCEPT !.rateLimit.burst = -1],
            [Plainly(p) EXCEPT !.maxResponseBody = -1] }
          \cup { [Plainly(p) EXCEPT !.baseURL = bad] : bad \in BadURLs(Root(p)) }
          \cup { [Plainly(p) EXCEPT !.endpointURL = bad] : bad \in BadURLs(Root(p)) }
          : p \in Provider }

MCConfigs == HostedConfigs \cup CustomConfigs \cup FaultyConfigs

MCCodes  == Code
MCLabels == Wire \cup {""}
=============================================================================
