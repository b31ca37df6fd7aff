# A TLA+ model of Gaugo

Gaugo evaluates programs that call language models. A user registers cases, gives a `RunFunc` that asks the
system under test, and a list of metrics, some of which ask a judge model over HTTP; a run produces a result per
case and per metric. This directory holds TLA+ modules that follow that code, TLC configurations that check them
on small instances, and TLAPS proofs of what holds for every instance. Paths below are relative to the repository
(`src/` stands for its root).

## 1. The system

### Components, their state, and how they interact

| Component | Source | State it keeps | Operations | Works with |
|---|---|---|---|---|
| Worker pool | `internal/runner/runner.go` | loop index, channel `jobs`, wait group, goroutines | `RunIndexed` | called by `Runner.Run` with a callback; cancelled through the context |
| Evaluation runner | `suite.go`, `case.go`, `options.go` | registered cases (mutex), per run: `results`, `done` | `NewRunner`, `Case`, `Run`; `Suite` forwards to it from a `testing.T` | pool, user's `RunFunc`, metrics, reporter |
| Rate limiter | `internal/ratelimit/ratelimit.go` | tokens, last refill (mutex) | `New`, `Wait` | shared by all goroutines that use one judge |
| HTTP client with retries | `internal/provider/wire/wire.go`, `retry.go` | none beyond a call | `PostJSONWithOptions` | called by the wires; the server; the context |
| Provider judges | `provider/*/judge.go` | configuration, HTTP client, limiter | `New`, `EvaluateJSON` | limiter, then a wire |
| Wire protocols | `internal/provider/wire/*/*/wire.go` | none | encode a request, decode a response body or an error body | HTTP client |
| Failure classification | `internal/failure/failure.go`, `errors.go` | none | `Classify`, `Is`, `Info`, merging of error chains | errors of judges and metrics, `MetricErrorInfo` |
| Results and reporting | `result.go`, `reporter.go` | the result of a run | `Failed`, `PassRate`, `Summary`, `Assert` | `testing.T` |
| Judge metrics | `metric/judge.go`, `metric/metric.go` | configuration | build a request with a schema, ask the judge, parse, score, compare with a threshold | judge, parsers, prompts |
| Judge answer parsers | `internal/metrics/**`, `internal/strictjson` | none | strict decoding, required fields, ranges, score | judge metrics |
| Deterministic metrics | `metric/deterministic.go`, `metric/text.go` | configuration | compare an output with an expectation or a bound | runner |
| JSON schema metric | `metric/jsonschema.go` | configuration | validate a value, compare values, look up a path | deterministic metrics |
| Prompts | `prompt.go`, `internal/prompt/prompt.go` | a capped buffer | build prompts with a size limit | judge metrics |
| Provider configuration | `internal/provider/info.go`, `validate`, `request`; `New` of `provider/*/judge.go` | none | defaults, URL and value checks, config errors | constructors of judges |

A case flows through them like this. `Run` takes a snapshot of the cases and calls `RunIndexed` with a callback.
A worker goroutine runs the callback for an index: it asks the user's `RunFunc`, then each metric in turn. A judge
metric builds a prompt and calls `EvaluateJSON` of its judge, which waits at the rate limiter it shares with the
other workers, has the request posted by the retrying client, and decodes the answer. What comes back is scored,
or becomes an error that the runner turns into a failing check. When the pool returns, `Run` settles the cases it
never started and reports.

### What is hard about it

* **Interleaving.** The dispatcher and the workers of the pool all select between the channel and `ctx.Done()`;
  with both ready either may be taken. Workers write `results[i]` and `done[i]` without a lock; the wait group is
  all that separates them from the reader. The limiter computes a deficit under its mutex and sleeps on it after
  the mutex was released.
* **Cancellation and timeouts.** A run's context, a case's timeout, an HTTP client's timeout and a retry's sleep
  can end at any moment, and each must leave a result that does not look like success.
* **Partial failure.** A metric, a `RunFunc` or a reporter may fail or panic; one failure must not take the other
  results with it.
* **Retries.** The outcome of an attempt decides whether another follows; delays come from the server, from an
  exponential backoff, or from the cap, all in 64-bit nanoseconds.
* **Numeric edges.** A worker count of zero or more than there are cases, a burst of zero, a sleep cut to whole
  nanoseconds, a `Retry-After` that does not fit a `time.Duration`, details of exactly the limit.

There is no persistence, hence no crash and recovery: a process that dies loses the run. `PROJECT.json` lists each
hazard at its line and the properties that watch it.

### What makes each component correct

* *Pool*: every index handed over runs exactly once and has come back when `RunIndexed` returns; nothing else ran;
  no goroutine outlives the call; never more callbacks than asked for; the call returns.
* *Runner*: no case passes for lack of checks; a passing case went through all of them; a `RunError` is told of
  exactly the cases it is true of; results follow the registration order; the result is not written to once it
  was handed out; a run returns.
* *Limiter*: no window of time gets more than the burst and its inflow; nobody sleeps past a token; waits end.
* *Client*: only transient outcomes are retried, at most so many times; a call returns its last outcome or its
  context's error; delays are the server's or the backoff's, capped.
* *Judge*: the parts are used as they expect; traffic is bounded through tokens; a verdict reflects the last
  attempt.
* *Classification*: an error has the kind its chain says, whatever wraps it. *Results*: counts add up, and a pass
  rate never hides a failure. *Metrics and parsers*: an answer that is malformed never becomes a score, a score is
  in range, the threshold is inclusive. *Wires*: a truncated or refused answer is never handed on as an answer.
* *Prompts*: a prompt never exceeds its limit, no character is cut apart, and nothing is missing but what the cap
  took. *Configuration*: what `New` accepts sends its key to nobody but the provider or to whom the user named.
* *Schemas and expected fields*: a value passes exactly when it is what the schema or the expectation describes.

## 2. Modules

| Module | Models | Uses |
|---|---|---|
| `IndexedRun` | what `RunIndexed` promises, without goroutines | |
| `WorkerPool` | `RunIndexed` as it is | refines `IndexedRun` |
| `WorkerPoolProofs` | theorems about `WorkerPool` | `WorkerPool`, `TLAPS` |
| `Reporting` | the methods of `CaseResult` and `RunResult`, the reporter `Assert` | |
| `Runner` | `Runner.Case`, `Runner.Run`, the callback | `Reporting`, `Pool == INSTANCE WorkerPool` |
| `RunnerProofs` | theorems about `Runner` and the loops of `Reporting` | `Runner`, `INSTANCE WorkerPoolProofs`, `TLAPS` |
| `RateLimiter` | `Limiter.Wait` with time | |
| `RateLimiterProofs` | theorems about `RateLimiter` | `RateLimiter`, `TLAPS` |
| `RetryClient` | `PostJSONWithOptions` and its delays | |
| `RetryClientProofs` | theorems about `RetryClient` | `RetryClient`, `TLAPS` |
| `ProviderJudge` | `EvaluateJSON`, from limiter to verdict | `INSTANCE RateLimiter`, `INSTANCE RetryClient` |
| `ProviderJudgeProofs` | theorems about `ProviderJudge` | `ProviderJudge`, `INSTANCE RateLimiterProofs`, `INSTANCE RetryClientProofs`, `TLAPS` |
| `Failure` | links of an error, `failure.Classify`, `errors.Is` on Gaugo's errors | |
| `FailureWalk` | `Classify` as the walk it is | `Failure` |
| `Wires` | what the five wires make of a reply | `Failure` |
| `ProviderConfig` | `New` of every provider: what it refuses, and the wire, URL and key a judge uses | `Wires` |
| `JudgePath` | one evaluation, from `New` through all layers an error crosses | `ProviderConfig` |
| `JudgePathProofs` | theorems about `FailureWalk` and `JudgePath` | `FailureWalk`, `JudgePath`, `TLAPS` |
| `Floats` | the arithmetic of `float64`, and the decimals read into it | |
| `Schemas` | the JSON schemas of the prompts | `Floats` |
| `Scores` | parsers and scores of the judge metrics, in the floats of Go | `Schemas` |
| `JSONValues` | JSON values, their equality, lookup by path | |
| `JSONSchema` | `validateSchemaValue`, and what JSON Schema says | `JSONValues` |
| `MetricOptions` | the options of metrics and the constructors' checks | `Schemas`, `JSONValues` |
| `Metrics` | one evaluation of any built-in metric | `Scores`, `MetricOptions`, `JSONSchema` |
| `MetricsProofs` | theorems about `Metrics`, and the lemmas on floats, folds, schemas and JSON values under them | `Metrics`, `TLAPS` |
| `CappedWriter` | the bounded writer of prompts, and what it promises | |
| `UserPrompt` | the prompt a judge gets, written piece by piece | `CappedWriter` |
| `UserPromptProofs` | theorems about `UserPrompt` and the writer | `UserPrompt`, `TLAPS` |
| `MC...` | constants for TLC | one per checked module |

### WorkerPool and IndexedRun

The calling goroutine is `pc` (`spawn`, `dispatch`, `join`), a worker is `wstate[w]`. The channel is unbuffered, so
a send and its receive are one action, `Handoff(w)`. A select with two ready cases is two enabled actions
(`Handoff`/`CloseJobs` for the dispatcher, `Handoff`/`WorkerExit` for a worker). `wg` is the set of workers that
have not called `Done`. `begun` and `ended` count the calls of the callback per index; they are history and guard
nothing. `IndexedRun` keeps only those counts: a caller invokes, callbacks begin and end, at most `Bound` open at
once, and the return comes when nothing is open and either all ran or the context is done.

### Runner

`registered` is `Runner.cases` under its mutex, `cases` the snapshot, `result` and `done` the two slices. The pool's
variables are those of `WorkerPool`; `PoolStep` takes the pool's own steps and `StartCase(w)` joins the pool's
`Call(w)` with the beginning of the callback. The callback of `Run` is a sequence of steps per worker (`step[w]`):
the user's `RunFunc` (`RunFuncFails`, `RunFuncAnswers`, the latter with the containment check), then for each
metric the context check (`MetricBegins` or `MetricFindsCtxDone`) and the evaluation (`MetricJudges`, `MetricErrs`,
`MetricErrsOnContext`). A panic of user code is an error: `runFuncSafely` and its siblings recover it, so the model
has one failing outcome for both. `Settle` is the loop after `RunIndexed`, `Report` the reporter and the return.
Details are reduced to their length and to what a reader finds in them: the metric's own, an `ErrorInfo`, one with a
context kind, or what `limitDetails` left of any of these. The names of metrics have no spaces around them
(`MetricsByName` trims the name it is asked for and not those it compares it with), and a metric's own details are not an
`ErrorInfo`.

### Reporting

Everything in `result.go` and `reporter.go` is a function of the finished result: `Failed`, `FailedMetrics`,
`MetricsByName`, `failedCases`, `counts` with `PassRate`, and `Assert`, each the fold over cases and checks that its loop
is, with the local variables of `Assert` as one record. `Runner` extends the module, so `SignalsAgree` compares these
functions on every result a run can end with. `MaxFailureLogs` stands for the hundred failures `Assert` logs before it only counts.

### RateLimiter

Time is relative: `elapsed` since the last refill and `timer[w]` until a sleeper wakes. `Tick` lets a unit pass.
Tokens are counted in fractions of `1/Minute`, so that `RequestsPerMinute` of them flow in per tick and the
arithmetic is exact where the code rounds floats. What does round is kept: the sleep is the integer part of
deficit / rate, as a `time.Duration` is whole nanoseconds, and a goroutine may wake up a little early and miss
again. `recent[a]` counts the tokens of the last `a` ticks, so that a bound on any window is an invariant.

### RetryClient

One call is `cpc[c]`; each attempt ends with an outcome, and `Handle` is the body of the loop: conclude, or compute
a delay and sleep. `Answered` and `Breaks` come from the network, `Interrupted` from the context. Delays are
integers of a fixed width: `Wrap` is Go's multiplication, `FromFloat` the two results of a float that does not fit
(amd64 and arm64 differ). `asked` remembers the delay that was due before capping and wrapping.

### ProviderJudge

The caller's context is one variable, `ctx`, that the limiter sees as `ctxDone` (substituted) and the client as
`ctx`. All bundled providers have the same `EvaluateJSON`: `Limiter.Wait`, then `EvaluateJSON` of a wire, which
builds the request, posts it and decodes the reply. Two paths of the wires cannot be taken and are left out: a
missing API key, which `New` refuses (see `ProviderConfig`), and a schema that does not decode, as all schemas are
built in.

### Failure and FailureWalk

An error is the sequence of links `errors.Unwrap` goes through, outermost first; each link is reduced to what
`Classify` and `errors.Is` read of it: its type (a `*failure.Error`, a foreign error with the interfaces, a sentinel,
a context error, or anything else), kind, code, status, retryable and one label that stands for provider, wire,
model, request id and URL. `Failure` has the functions: `Classify` merges the links one after the other (the recursive
function `Walked`), `TypedIs` and `ErrorsIs` answer for a sentinel. `FailureWalk` is `Classify` as it runs: the two context checks, then
`walk` link by link, then the default from the status; the properties are about where it ends, for every error there
is. `JudgePath` uses the function, and that the walk ends with it is a lemma of the proofs (`MachineIsClassify`).
Joined errors are walked depth first by the code and are taken in that order.

### Wires, ProviderConfig and JudgePath

Each wire is an ordered list of checks over a reply; `Fault` is the kind of the first that fails. A reply is whether
it decodes, whether it has a choice or a candidate, why the model stopped, and its pieces of text.

`ProviderConfig` has the six `New` functions as two ordered lists of checks (`HostedChecks`, `CustomChecks`) whose first
failing one names the error, and what a judge makes of the configuration it accepted: its wire, its key and its
target, with the defaults where the code fills them in. xAI and NVIDIA give their base URL to a wire that would
default to OpenAI's, the custom provider normalizes the `/v1` of a compatible base URL, the others leave the default
to the wire; `Target` is the URL that comes out of both layers. A URL is its scheme, host, user and the segments of
its path.

`JudgePath` starts with a configuration. `NewRefuses` or `NewJudge` comes first; then it runs
one evaluation: builder, limiter, post, read, parse, score, with the case context ending at any point. Its `err` is
the error as the code builds it, wrapper by wrapper (`ExecuteRequestError` or `ReadBodyError`, then
`JudgeRequestErrorForWire`, then `JudgeEvaluationError`); `info` is what the runner stores, `stops` what
`metricErrorCanceled` decides. `cause` is history: what really went wrong.

### Schemas, Scores, MetricOptions and Metrics

`Schemas` lists, per metric, the object a judge is asked for; `Scores` lists, per metric, the struct its parser
decodes into, with the fields it insists on and the numbers it checks, and the rule that makes the score: a ratio of
flags, one minus a ratio, a mean, a mean of three, or the number given. Null counts as missing, as the pointers of
the structs make it. Which of several faults of an answer is reported is wording and left out, and so are values of a
wrong JSON type, repeated keys and keys in another case.

`Floats` has the four operations a score goes through (read a number, add, divide, subtract), each rounded to the nearest
float as IEEE does. `Precision` and `Scale` are constants, 53 and 1074 for `float64`. Numbers and thresholds are
decimals, counted in `1 / Unit`. As in the code, a number is compared with 0 and 1 as the float it was read as.

`MetricOptions` is the list of options a constructor applies in order: each sets a field or is refused, a nil one is
skipped, bounds that cross and missing parts are found at the end, and a metric so built answers each evaluation with
its error. `Metrics` has one action per way an evaluation can go, for the sixteen metrics that ask a judge and the
seven that do not. Tokenising (answer similarity) and matching (regular expressions) are inputs: the sets of words,
and whether the pattern matches.

### JSONValues and JSONSchema

A JSON value is a tagged record; a number is a significand and an exponent, so that 1, 1.0 and 1e0 are three numbers
that compare equal, and a number whose exponent nobody can read compares to none. The values are a constant, `JSON`: any
set of decoded values that holds the parts of each of its members, with `JSONDepth` to say that they are finite trees,
which is what a decoder returns. Schemas are one as well (`Shapes`, `ShapeDepth`). So the code's recursions are recursive
functions on these sets: `EqualTo` is `jsonValuesEqual`, as the set of values that are equal to each; `Accepted` is
`validateSchemaValue` and its helpers, as the set of values each schema accepts. `LookupJSONPath` is a fold over the path.
`MaxDigits` bounds the digits a number is written with; TLC has 32-bit integers and takes nine, the proofs any.
Beside them stand reference definitions that are not translated from the code: `Canonical` (one value for all that are
equal), `Addressed` (every path of a value with what is there) and `Faults` (the set of violations JSON Schema sees, each
with its path).

### CappedWriter and UserPrompt

`CappedWriter` is `cappedWriter` in bytes: its buffer, its limit and whether it was truncated; a cut steps back to
the start of a character. `UserPrompt` writes the parts of a prompt into it in the order of
`BuildUserPromptWithExpectedAndInstructions`, one action per part and per document. Texts arrive trimmed; the fixed lines
are shortened to a byte or two, since only their number of bytes matters. The system prompts of the metrics are
constants of the code and have no behaviour.

## 3. Runs

TLC checks deadlock wherever goroutines wait for each other; where such a system is done its module has an action
`Terminated` that stutters. `FailureWalk`, `JudgePath`, `Metrics` and `UserPrompt` follow one call to its end and really
stop, as `CHECK_DEADLOCK FALSE` says.

| Run | Expect | Question |
|---|---|---|
| `worker_pool` | pass | Is the pool correct for up to four indexes, limits -1, 0, 1, 2, 5, and a cancellation at any point; does its call return; does it implement `IndexedRun`? |
| `runner` | pass | What can a run's result look like, with two cases, two metrics or none, one or two workers, when everything may fail, time out or be cancelled; does the run return; does it use the pool as `WorkerPool` allows; do the methods of the result and `Assert` tell the same story? |
| `runner_reporting` | violation | Does a case whose context lived have a result for every check? |
| `rate_limiter` | pass | Does the limit hold in any window, with a burst of two; does anyone sleep past a token; do waits end? |
| `retry_client` | pass | Is the reply the last word, are the delays the configured ones? |
| `provider_judge` | pass | What do tokens bound; is the verdict true; does an ended evaluation return; are limiter and client used as they allow? |
| `provider_judge_quota` | violation | Does every request have a token? |
| `failure_walk` | pass | Which link of an error decides what `ErrorInfo` says, and does `errors.Is` agree? |
| `failure_kinds` | violation | Does `errors.Is` find the sentinel of every kind `ErrorInfo` carries? |
| `judge_path` | pass | Does a judge that `New` returns send its key and its requests to its own provider and no one else; does the stored `ErrorInfo` name the cause on every wire; does the case stop exactly on context kinds; is a pass earned? |
| `metrics` | pass | Do schema and parser agree; does the verdict follow the documented score and the options, whatever is rounded; do schema validation and expected fields mean what they say? |
| `user_prompt` | pass | Is a prompt cut as its limit says, wherever the limit falls, and is it otherwise whole? |

Each property of a passing run has a mutant in `PROJECT.json`: a variant of an action, defined beside it, with a bug
one could plausibly write (an unlimited worker count, a wait group not released, a refill whose time is not kept,
a retry that forgets the cap), under which the run finds the property violated.

### What the violations show

1. **`runner_reporting`.** `metricErrorCanceled` takes every error that wraps `context.DeadlineExceeded` for the
   end of the case, and an `http.Client.Timeout` wraps it too. A single slow judge request then drops the remaining
   metrics of a case whose own context is alive.
2. **`provider_judge_quota`.** One token pays for an evaluation, not for a request: retries are sent without
   asking the limiter. `RequestsPerToken` is the bound the code does keep.
3. **`failure_kinds`.** The error of a recovered panic tells `Classify` its kind through an interface, but has no `Is`;
   `errors.Is(err, ErrPanic)` is false while `ErrorInfo.Kind` is `panic`. `TypedKindMatches` is what holds.

More disagreements were met while modelling. The properties step around them, and no run shows them:

* `limitDetails` (`src/suite.go:304-321`) cuts the JSON of an `ErrorInfo` like any other details. With
  `WithMetricDetailsLimit` below its size, or an error longer than the default of 8 KiB, the info no longer decodes, and a
  check that could not be evaluated looks like one that judged the answer
  (`docs/reference/results-and-reporting.md:96-97`). `FailuresAreTold` says that this is the only way to lose it.
* `time.Duration(seconds) * time.Second` (`src/internal/provider/wire/wire.go:557`) wraps for a `Retry-After` of more
  than about 9.2e9 seconds, and a negative result is retried at once. `DelayAsConfigured` takes headers that fit.
* `Classify` returns at once on a context error, so provider, wire and status of the `*Error` around it stay out of
  the `ErrorInfo`, which has them "when available" (`docs/reference/errors-and-retries.md:26-28`).
* Gemini's wire counts the parts of a candidate before it reads why it finished (`wire.go:124`), so an answer blocked
  before its first part is "no text candidates returned" and not "output blocked" (`docs/provider/gemini.md:133-134`).
  `CauseTold` speaks of candidates with a part.
* Three documents of relevance 0.7 have a mean of 0.6999999999999998 (`src/internal/metrics/contextrelevancy/parser.go:72`) and
  fail the default threshold of 0.7, though the documented score is the mean (`docs/metrics/rag.md:22-23`) and passes at the
  threshold (`docs/metrics/index.md:108`). `VerdictMatchesScore` says that rounding does no more than this: it turns a
  verdict only where score and threshold are nearer than 2^-53 for each rounding, and never against an answer that
  reaches the threshold unless floats are added or subtracted.
* A keyword makes a type of its own: `{"type": ["object", "null"], "properties": ...}` refuses null
  (`src/metric/jsonschema.go:81-85`). `SchemaMeansSchema` demands acceptance only of schemas that state the one type their
  keywords are for.
* A nested schema that is itself invalid is found only when a value reaches it; then the answer scores 0, and otherwise
  it passes. `docs/metrics/structured-output.md:36-37` speaks of a failure at evaluation time.
* The deterministic JSON metrics score 0 or 1 "regardless of threshold" (`docs/metrics/index.md:76-77`), but at a threshold
  of 0 the score 0 passes. `VerdictMatchesScore` takes the threshold as it is.
* Two equal texts without a single token are not similar: their score is 0 (`src/metric/text.go:47`).
* The counts called failed cases differ: that of `Summary` is of every failed case, that of `Assert` of run errors only
  (`src/reporter.go`). `SignalsAgree` says so of each.
* A document without an id is called `doc-N`, which may be the id another document was given. A prompt that is cut has
  no closing marker line for its last section, and nothing tells the metric that it was cut. `PromptIsWhole` speaks of
  what is written, not of what a judge makes of it.
* A retry's base delay above a maximum that is left to its default passes validation
  (`RetryConfig.Validate` compares only when both are given) and is capped silently; `DelayAsConfigured` includes it.

### Bounds, and why they are enough

* *Pool*, `MaxTotal = 4`: more indexes than workers and more workers than indexes both occur, with two workers
  that each go round their loop twice. The proofs lift the bound.
* *Runner*, two cases, two metrics: enough for one case to be running while another is settled, for the metric
  loop to break off in the middle, for names to collide, and for a registration during a run. `caseTimeout`, the
  reporter and the parallelism vary over two configurations, and so does the limit on details: 1 cuts everything a metric
  leaves, 2 is filled by one of its two sizes (2 and 3) and exceeded by the other, for its own details and for errors.
* *Limiter*, `Minute = 7`, `RequestsPerMinute = 2`: the rate does not divide the minute, so sleeps are cut short.
  `Horizon` is the longest window looked at; `MaxCalls` bounds the calls of a goroutine. `elapsed` stops at the
  time after which the bucket is full, beyond which it makes no difference.
* *Client*, a unit of 100 ms, eight-bit durations: `Retries(4, 40, 100)` overflows the backoff at the third attempt,
  `Retries(2, 40, 0)` starts above the default cap, and 13 seconds overflow a header, as 9.3e9 do in 64 bits. Calls share nothing, so one is enough.
* *Judge*, two evaluations, two attempts, one token at a time: contention at the limiter, a retry, and a context
  that ends at each place.
* *Classification*, errors of up to three links out of thirteen kinds of link: a wire's error around a client's around a
  cause is the deepest the code builds itself, a metric's text-only wrapper apart. The proofs lift both bounds.
* *Judge path*, replies of up to two pieces of text: the first that speaks, one behind it, and a verdict in halves.
  Each of 260 configurations is tried: per provider the base URL or the endpoint blank, official, with a trailing
  slash, over http or at a gateway, with and without `AllowUnsafeURL`; every mode of the custom provider; and one part
  wrong at a time (key, retry, rate limit, body limit, a URL that does not parse, has no host, a strange scheme or a
  user). One at a time is enough, as the checks are ordered and each stands alone.
* *Metrics*, numbers -0.05, 0, 0.1, 0.7, 0.75, 1, 1.05 and thresholds 0, 0.2, 0.6, 0.7, 0.75, 1, 1.05: both ends of the
  range, the next twentieth outside, and numbers whose sums and complements are not exact. Five flags make 3/5 and
  1 - 4/5, three numbers make 0.7 + 0.7 + 0.7. One field may be wrong: the parsers look at each field by itself. TLC has
  32-bit integers, so `Precision` is 21; a twentieth has a binary period of four and 53 - 21 is a multiple of four, so
  that twentieths, their sums and the quotients of these round as they do with 53. The proofs take any precision. Schemas and
  values go two levels deep, so that each recursion is taken from an object, from an array and from an item; paths are
  up to three parts, with indexes that are negative, padded or past the end; each bound of a length or a latency is met
  from both sides, and options come repeated, nil, refused and crossed.
* *User prompt*, every limit from 1 to 44 bytes, where the longest prompt has 43: so each limit falls
  into each part, between two, into a character of three bytes and into the room of the marker at least once. A
  document's own limit is below one of its texts; up to three documents are named, unnamed, blank or too long
  (`MaxDocs = 9` keeps a label by place to one digit, in the proofs too).
* *Reporting*, `MaxFailureLogs = 2`: two cases with two metrics fail up to four times, so failures are suppressed.

### Fairness

Weak fairness of every goroutine that is ready stands for the Go scheduler. That a user's `RunFunc`, metric or
reporter returns is an assumption on that code, stated as fairness of `CallReturns` and of the callback's steps.
Timers fire and time passes (`Tick`). `net/http` comes back once the context has ended (`Interrupted`), but no server has to
answer: `Answered` and `Breaks` are not fair. Nothing obliges a context to be cancelled.

*Starvation.* The limiter has no queue. A goroutine that wakes up may find the token taken by one that came later,
over and over; `EveryWaitEnds` needs the others to make finitely many calls, which is what `MaxCalls` says.

*Bursts.* With a burst `b > 1` a minute may see `RequestsPerMinute + b` tokens. That is documented as what a burst is;
`RateBound` is stated for all bursts; `MaximumPerMinute`, for the default burst, follows and is proved.

## 4. Proofs

**`WorkerPoolProofs`**, for every `MaxTotal \in Nat` and every set of integer limits. The three safety properties are
not inductive: that every index ran once at the return needs to know where each index is before. `PoolInv` says it:
the position of the dispatcher fixes what was sent; the wait group is the set of live workers; an index below
`next` is held by exactly one worker or has run once and come back (`DispatcherInv`, `WorkersInv`, `JobsInv`,
`CountsInv`). `PoolInvariant` proves it inductive with one step per action; `ReturnSettles`, `NoneOutlives` and
`IndexesExclusive` follow. `PoolImplementsPromise` proves that every step of the pool is a step of `IndexedRun` or a
stutter; the bound on open callbacks is an injection of them into the workers spawned.

**`RateLimiterProofs`**, for every rate, minute, burst, horizon and set of goroutines. A bound on the tokens of a window
is not inductive: it must count what is in the bucket too. `WindowInv` says that tokens given in the last `a` ticks
and the level together come from a full bucket and the inflow of the `a - elapsed` ticks before the last refill;
`SleepersInv` that a timer never exceeds the time to the next token. `LimiterInvariant` proves both inductive;
`WindowsBounded`, `DefaultBurstIsStrict` and `TokensAreNoticed` follow.

**`RunnerProofs`**, for every number of cases, metrics and workers and every configuration. `RunnerImplementsPool` proves
the safety part of `ImplementsPool`; with it the theorems of the pool hold here (`RunnerKeepsPromise`), and `PoolInv` is a
part of the induction. What is missing in it is where a callback is: `CallInv(w)` relates the place of a worker in its
callback to the number of checks its case has; `CaseInv(i)` says that checks are recorded in order, that nothing is
recorded before a case begins, and that a case that has come back failed or has them all (`Over`); `PhaseInv` relates
the run to the pool. `RunnerInvariant` proves the three inductive; `PassIsComplete`, `RunErrorsTruthful` and
`ResultStaysFinal` follow. `SignalsAgreed` proves that all that is told of a result agrees. Its two sides are different
loops over that result, so the proof follows nine loops side by side: a fold of the library is first shown to be the last
of the rounds of its loop (`FoldedRounds`, one lemma per loop), then `Tally` relates the reporter's variables, the counts
and what `FailedMetrics` and `MetricsByName` collected, and is kept by every check (`TallyCheck`, `TallyChecks`) and
every case (`TallyCase`, `TallyCases`), by a least round where it would not. It needs a verdict for every case, which is
where `ValidRun` comes in: what `validateEffectiveChecks` found at the start is so at the end, and so a case that went
through all of its checks has one (`EveryCaseReportable`). `FailuresTold` has no hypothesis on details or their
limit. What a single check tells (`Telling`) is kept by every step that adds one (`NextKeepsTold`); that a case that lacks
checks has one that broke the loop off is in `CaseInv` (`Over`), which says so of every case that came back
(`LackingSaysWhy`).

**`RetryClientProofs`**, for every set of calls, every configuration `New` accepts and every header. `LoopInv` says, for each
place in the loop, how many outcomes there are for the attempts made and that all of those that were retried are transient;
with it `ReplyIsLastWord` and `DelayAsConfigured` are inductive (`RepliesAreLast`, `DelaysCapped`), the latter with the
arithmetic of a wrapping multiplication and of a float that does not fit.

**`ProviderJudgeProofs`**, for every set of callers. `JudgeImplementsLimiter` and `JudgeImplementsClient` prove the safety
part of the two refinements step by step, and carry the theorems of both parts over (`JudgeKeepsRate`,
`JudgeKeepsWord`). `JudgeInv` adds where an evaluation can be in limiter and client (`CallerInv`) and two cardinalities:
the tokens are as many as the evaluations that got past the limiter (`Holders`), and the requests no more than the
attempts begun (`SpentAttempts`). That gives `RequestsBounded`, as a caller has at most `MaxAttempts` of them;
`VerdictsTruthful` follows from the client's part of the invariant.

**`JudgePathProofs`** has two parts. The classification comes first, for every set of links, codes and
labels and errors of every length. That the outermost known kind decides is a statement about the end of the walk;
`WalkInv` carries it through: what is merged so far is decided by the outermost of the links visited that knows. `OutermostKindWins`, `ContextKindWins`, `RetryableIsKept` and
`TypedKindsMatch` follow. `OutermostDetailsWin` says the same of code, status and labels, each by itself (`ToldFirst`). The
lemma `MachineIsClassify` says that the walk ends with `Classify` of the error, for the part on the judge's path; that the
recursive `Walked` is what its equation says is shown through a least error without it, from the well-foundedness of `<`.

The judge's path is then for every subset of `ConfigType`, every number of pieces in a reply and every set of codes. The
invariant `PathInv` is the properties themselves with what a step needs to know of the ones before: an evaluation that
runs has nothing to show yet (`Quiet`), its configuration was accepted (`Legit`) and what is read passed the wire's checks
(`Checked`). The work is in the lemmas: what `Classify` says of an error that was wrapped by name (the theorems on the
walk are used here), what each of the five wires' lists of checks lets through, and where the base URLs of each
provider end up. `CausesTold`, `StopsAgree`, `RetryableTransient`, `PassEarned` and `RequestsGoHome` follow.

**`UserPromptProofs`**, for every set of bytes and continuation bytes, every marker, limit and input whose texts start
with a character. The writer never sees the whole prompt: a piece is cut by where the limit falls in that piece, or
takes back what earlier pieces left. `WriteShows` says that this comes to the same as cutting the whole: a writer that
shows `c` and is given `s` shows `c \o s`. Its cases are the ways of `writeString` and `markTruncated`, each the lemma
that the place where the code stops is the last cut that leaves room (`CutInPiece`, `CutBeforePiece`,
`CappedOfLonger`); `GreatestExists`, from the well-foundedness of `<`, gives that place. `PromptInv` then follows action
by action, and `PromptsAreCapped` from it. That texts start with a character is needed: behind a continuation byte the
code would cut between two pieces and not between two characters.
`PromptsAreWhole` needs to know what was written before each action: `SoFar` gives it as a front of the whole prompt,
where the documents are joined up to the one the loop is at (`LinesTo`), and says that the counter the code looks at for
`(none)` is zero exactly if none of these has a line. When the writer is full the loop stops early; `FrontOfWhole` says
that what is there is a front of the whole all the same, and `CappedOfLonger` that the rest would not show.

**`MetricsProofs`**, for every precision of floats from two bits on, numbers and thresholds of any number of decimals, every
list of options, every number of elements up to `MaxItems`, and every set of JSON values and of schemas, however deep. An
evaluation is one step, so the inductive invariant is short: `Inv` says that verdict and score are what the metric's rule
makes of options and subject, and that an error has a reason (`EvaluationsSettle`). The work is in showing that the rules mean what the properties say.

* *Parsers.* `SchemasAreParsed` compares the sixteen pairs of schema and struct field by field (`SameFields`).
* *Floats.* `Round` yields one of the two neighbours of a quotient on the grid of its size (`RoundStands`); so it is monotone,
  also across the places where the grid gets coarser, and near. A rounding moves a number of at most one by no more than
  `2^-Precision`, and so a mean by that much for each number in it (`SumNear`, `MeanNear`). A score that was rounded `k` times
  is then on the right side of a threshold that was rounded once unless the two are nearer than `k + 1` of these
  (`Distinguished`), and a single division never puts an answer that reaches the threshold below it (`FractionScore`).
  `VerdictsMatchScores` combines them per rule. Evidence that adds to a ratio or a mean stays in order through each
  rounding (`EvidenceCountsForTheAnswer`), with the complement of `InverseRatio` turned round.
* *Folds.* The sums of means and the options of a constructor are folds of the library. As for the writer's loops, a fold is
  shown to be the last of its rounds, and what a round keeps is kept: after all options the last accepted threshold is the
  one in force, and one refusal is never undone (`ConfigSet`).
* *Recursion on trees.* That a recursive function obeys its equation is not given by the library for functions whose domain
  is a set of trees. `RecursionExists` proves it once for all eight of them, by building the function up to each depth;
  `TreeInduction` is the induction over the depth. `SchemasMean` then shows by it that what `Accepted` accepts has no
  `Faults`, and the converse for schemas that state their types (`SchemasMeanSchema`).
* *Values.* Two numbers are equal exactly if they are the same once their trailing zeros are moved into the scale
  (`EqualNumbers`, from `OneWayToTrim`); with it two values are equal exactly if their `Canonical` is (`EqualValues`). The fold of
  `LookupJSONPath` finds a value at a path exactly if `Addressed` has it there (`PathsReach`), whatever indexes and keys the
  path mixes. `ExpectedFieldsAreMatched` follows from both.

The assumptions are those a `New` or a caller has to meet: limits and sizes are naturals, configurations are of their
types and pass `Validate`, the fixed lines are made of characters (`PromptAssumption`); `CodesAssumption` and `WireLabels` say that
the codes and names of the code are among those an error may have. TLC evaluates each of them on the runs.

`MetricsProofs` rests on what a decoder returns being a finite tree (`JSONAssumption`, `ShapesAssumption`), on sets of words
being finite (`MetricsAssumption`), and on lists with numbers having at most `2^Precision` elements (`ScoresAssumption`),
which is 2^53 in the code. Lists of flags are bounded by nothing but `MaxItems`, which is any natural.

Every invariant of a passing run is a theorem. Only model-checked is liveness (`CallReturnsEventually`, `RunReturns`,
`EveryWaitEnds`, `EndedEvaluationReturns`) and the liveness part of the refinements, which are outside what the prover does.

## 5. Not modelled

* The wording of prompts, messages, schema names and logs; queries, fragments and ports of URLs, which no check and no
  default depends on; default models, API versions and token limits, which are data of a request; the HTTP transport
  below `client.Do`.
* How a text is split into words and how a pattern is matched: both are inputs of `Metrics`.
* Rounding of the limiter's floats, which is below the resolution of its clock.
* `Suite`, which forwards to `Runner`, and the benchmarks, examples and commands of the repository.

## 6. What could follow

* `Runner` with `JudgePath` for its metrics: the errors of one evaluation decide which checks of a case are run.
