--------------------------- MODULE ProviderConfig ---------------------------
(***************************************************************************)
(* How a provider's judge is configured: what New refuses                  *)
(* (provider/.../judge.go, internal/provider/validate), and which wire,    *)
(* URL and key a judge that New returned uses.  Defaults are filled in     *)
(* twice: by some judges, and by the wire they call.                       *)
(*                                                                         *)
(* A URL is "blank" (empty, or spaces, which parseAbsoluteHTTPURL and all  *)
(* that use it trim away), "broken" (url.Parse fails) or a "url" with a    *)
(* scheme and a host ("" where it has none, and the host in lower case,    *)
(* without its port and its last dot), whether it names a user, and its    *)
(* path; a path that ends in a slash has a last segment "".  Queries and   *)
(* fragments are left out.                                                 *)
(***************************************************************************)
EXTENDS Wires, Integers

Provider == {"openai", "anthropic", "gemini", "xai", "nvidia", "custom"}

URL(scheme, host, path) ==
  [form |-> "url", scheme |-> scheme, host |-> host, user |-> FALSE,
   path |-> path]

URLType ==
  [form : {"blank", "broken", "url"}, scheme : STRING, host : STRING,
   user : BOOLEAN, path : Seq(STRING)]

\* The Config of all providers; the parts a provider does not have are blank.
\* A blank compatEndpoint is an empty one; spaces count as none except in mode
\* openai, where they are one of the unsupported strings.
ConfigType ==
  [provider : Provider, apiKey : {"blank", "own"}, baseURL : URLType,
   endpointURL : URLType, allowUnsafeURL : BOOLEAN, mode : STRING,
   compatEndpoint : STRING, useChatCompletions : BOOLEAN,
   retry : [maxAttempts : Int, baseDelay : Int, maxDelay : Int],
   rateLimit : [requestsPerMinute : Int, burst : Int],
   maxResponseBody : Int]

Blank == [URL("", "", <<>>) EXCEPT !.form = "blank"]

OfficialHost(provider) ==
  CASE provider = "openai"    -> "api.openai.com"
    [] provider = "anthropic" -> "api.anthropic.com"
    [] provider = "gemini"    -> "generativelanguage.googleapis.com"
    [] provider = "xai"       -> "api.x.ai"
    [] provider = "nvidia"    -> "integrate.api.nvidia.com"

OpenAIBaseURL    == URL("https", "api.openai.com", <<"v1">>)
AnthropicBaseURL == URL("https", "api.anthropic.com", <<>>)
GeminiBaseURL ==
  URL("https", "generativelanguage.googleapis.com", <<>>)
XAIBaseURL    == URL("https", "api.x.ai", <<"v1">>)
NVIDIABaseURL == URL("https", "integrate.api.nvidia.com", <<"v1">>)
CustomBaseURL == URL("http", "127.0.0.1", <<>>)

-----------------------------------------------------------------------------
(* What New refuses *)

\* parseAbsoluteHTTPURL, and with it BaseURL: nothing, or an absolute URL.
BaseURLOk(url) ==
  \/ url.form = "blank"
  \/ /\ url.form = "url"
     /\ url.host # ""
     /\ url.scheme \in {"http", "https"}

CloudURLOk(url, allowUnsafeURL, host) ==
  \/ url.form = "blank"
  \/ /\ BaseURLOk(url)
     /\ ~url.user
     /\ allowUnsafeURL \/ (url.scheme = "https" /\ url.host = host)

\* RetryConfig.Validate
RetryOk(retry) ==
  /\ retry.maxAttempts >= 0 /\ retry.baseDelay >= 0 /\ retry.maxDelay >= 0
  /\ retry.baseDelay > 0 /\ retry.maxDelay > 0
       => retry.baseDelay <= retry.maxDelay

\* RateLimitConfig.Validate
RateLimitOk(rate) == rate.requestsPerMinute >= 0 /\ rate.burst >= 0

ConfigError(code) == <<Gaugo("config", code)>>

\* ConfigWrapError and ConfigFieldWrapError around a failure.Validation.
ConfigWrapError(code) == <<Gaugo("config", ""), Gaugo("validation", code)>>

\* Common to all judges, and checked last.
CommonChecks(config) ==
  <<Check(~RetryOk(config.retry), ConfigWrapError("retry_invalid")),
    Check(~RateLimitOk(config.rateLimit), ConfigWrapError("rate_limit_invalid")),
    Check(config.maxResponseBody < 0, ConfigError("provider_config_invalid"))>>

\* Config.Validate of the hosted providers.
HostedChecks(config) ==
  LET Strange(url) == ~CloudURLOk(url, config.allowUnsafeURL,
                                  OfficialHost(config.provider))
  IN  <<Check(config.apiKey = "blank",
              ConfigError("provider_api_key_required")),
        Check(Strange(config.baseURL), ConfigWrapError("validation_invalid")),
        Check(Strange(config.endpointURL),
              ConfigWrapError("validation_invalid"))>>
      \o CommonChecks(config)

\* normalizeMode; "" stands for an error.
NormalizeMode(mode) ==
  CASE mode \in {"blank", "native"}      -> "native"
    [] mode \in {"openai", "anthropic"} -> mode
    [] OTHER                            -> ""

\* validateConfig of the custom provider, which needs no key.
CustomChecks(config) ==
  LET mode == NormalizeMode(config.mode)
  IN  <<Check(mode = "", ConfigWrapError("provider_config_invalid")),
        Check(~BaseURLOk(config.baseURL),
              ConfigWrapError("validation_invalid")),
        Check(~BaseURLOk(config.endpointURL),
              ConfigWrapError("validation_invalid")),
        Check(mode # "openai" /\ config.compatEndpoint # "blank",
              ConfigError("provider_config_invalid")),
        Check(mode = "openai" /\ config.compatEndpoint \notin
                {"blank", "chat_completions", "responses"},
              ConfigError("provider_config_invalid"))>>
      \o CommonChecks(config)

\* New: the error of the first check that fails, none if there is none.
Refusal(config) ==
  LET checks == IF config.provider = "custom" THEN CustomChecks(config)
                ELSE HostedChecks(config)
      i      == SelectInSeq(checks, LAMBDA check : check.fails)
  IN  IF i = 0 THEN <<>> ELSE checks[i].kind

-----------------------------------------------------------------------------
(* What a judge uses *)

\* EvaluateJSON of each provider: the wire it calls.
WireOf(config) ==
  CASE config.provider \in {"openai", "nvidia"} -> "chat"
    [] config.provider = "anthropic"            -> "messages"
    [] config.provider = "gemini"               -> "generatecontent"
    [] config.provider = "xai" ->
         IF config.useChatCompletions THEN "chat" ELSE "responses"
    [] config.provider = "custom" ->
         CASE NormalizeMode(config.mode) = "anthropic" -> "messages"
           [] NormalizeMode(config.mode) = "openai" ->
                IF config.compatEndpoint = "responses" THEN "responses"
                ELSE "chat"
           [] OTHER -> "ollama"

\* The key the wire is given; a compatible service gets a placeholder.
KeyOf(config) ==
  IF WireOf(config) # "ollama" /\ config.apiKey = "blank" THEN "custom"
  ELSE config.apiKey

OrDefault(url, default) == IF url.form = "blank" THEN default ELSE url

\* strings.TrimRight(url, "/")
Trimmed(path) ==
  SubSeq(path, 1, SelectLastInSeq(path, LAMBDA segment : segment # ""))

\* openAICompatBaseURL: a base that ends in /v1 keeps it.
OpenAICompatBaseURL(url) ==
  [OrDefault(url, CustomBaseURL) EXCEPT
     !.path = LET path == Trimmed(@)
              IN  IF IsSuffix(<<"v1">>, path) THEN path ELSE path \o <<"v1">>]

\* Mutant of JudgeBaseURL: xAI and NVIDIA leave the default to the wire.
JudgeBaseURLOfWire(config) ==
  CASE config.provider = "custom" ->
         IF NormalizeMode(config.mode) = "openai"
         THEN OpenAICompatBaseURL(config.baseURL)
         ELSE OrDefault(config.baseURL, CustomBaseURL)
    [] OTHER -> config.baseURL

\* The base URL the judge gives its wire.
JudgeBaseURL(config) ==
  CASE config.provider = "xai"    -> OrDefault(config.baseURL, XAIBaseURL)
    [] config.provider = "nvidia" -> OrDefault(config.baseURL, NVIDIABaseURL)
    [] config.provider = "custom" ->
         IF NormalizeMode(config.mode) = "openai"
         THEN OpenAICompatBaseURL(config.baseURL)
         ELSE OrDefault(config.baseURL, CustomBaseURL)
    [] OTHER -> config.baseURL

\* The default base URL of a wire, whichever judge calls it.
WireBaseURL(wire) ==
  CASE wire \in {"chat", "responses"} -> OpenAIBaseURL
    [] wire = "messages"              -> AnthropicBaseURL
    [] wire = "generatecontent"       -> GeminiBaseURL
    [] wire = "ollama"                -> CustomBaseURL

\* What a wire appends to the base URL.
WirePath(wire) ==
  CASE wire = "chat"            -> <<"chat", "completions">>
    [] wire = "responses"       -> <<"responses">>
    [] wire = "messages"        -> <<"v1", "messages">>
    [] wire = "generatecontent" -> <<"v1beta", "models", "model:generateContent">>
    [] wire = "ollama"          -> <<"api", "chat">>

\* EndpointURL and buildEndpoint.
EndpointURL(endpointURL, baseURL, default, path) ==
  IF endpointURL.form # "blank" THEN endpointURL
  ELSE [OrDefault(baseURL, default) EXCEPT !.path = Trimmed(@) \o path]

\* Where the requests of a judge go.
Target(config) ==
  EndpointURL(config.endpointURL, JudgeBaseURL(config),
              WireBaseURL(WireOf(config)), WirePath(WireOf(config)))
=============================================================================
