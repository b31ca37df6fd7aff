------------------------------- MODULE Runner -------------------------------
(***************************************************************************)
(* The evaluation runner of suite.go: cases are registered (Runner.Case,   *)
(* under a mutex), one Runner.Run takes a snapshot of them, executes each  *)
(* case on the worker pool of internal/runner, settles the cases the pool  *)
(* never started, and reports.  The callback a worker runs for a case is   *)
(* taken apart here into its steps: the system under test, the containment *)
(* check, and one check and one evaluation per metric; cancellation, the   *)
(* case timeout and further registrations happen between any two of them.  *)
(*                                                                         *)
(* The pool's own steps are those of WorkerPool.  RunFunc, the metrics and *)
(* the reporter are the user's: they may answer, fail or panic.            *)
(***************************************************************************)
EXTENDS Reporting, FiniteSets

CONSTANTS
  MaxTotal,      \* most cases that can be registered
  Names,         \* the case names users choose
  Blank,         \* a text that is empty once trimmed
  Needles,       \* the texts passed to ExpectedContains
  MetricNames,   \* the metrics of a suite
  NilMetric,     \* a nil in the variadic metrics argument
  MetricLists,   \* the metric arguments of Run: sequences of the above
  CaseInputs,    \* what Case is called with: name, question, contains
  Configs,       \* runner configurations
  DetailsSizes   \* for each metric, the sizes its Details may have

Limits == {c.parallelism : c \in Configs}

ASSUME RunnerAssumption ==
  /\ MaxTotal \in Nat
  /\ Blank \notin Names
  /\ NilMetric \notin MetricNames
  /\ MetricLists \subseteq Seq(MetricNames \cup {NilMetric})
  /\ CaseInputs \subseteq [name : Names \cup {Blank},
                           question : {Blank, "question"},
                           contains : SUBSET (Needles \cup {Blank})]
  /\ Configs \subseteq [parallelism : Nat \ {0}, caseTimeout : BOOLEAN,
                        detailsMax : Nat, reporter : BOOLEAN]
  /\ DetailsSizes \in [MetricNames -> SUBSET (Nat \ {0})]

VARIABLES
  \* the worker pool of the run in progress (see WorkerPool)
  total, limit, ctxDone, pc, spawned, next, closed, wg, wstate, job, begun,
  ended,
  \* the Runner
  cfg,         \* its configuration
  registered,  \* r.cases
  names,       \* r.names
  \* the run in progress
  phase,       \* "idle", "running", "reporting" or "returned"
  cases,       \* the snapshot of r.cases
  metrics,     \* the metrics after compactMetrics
  done,        \* done[i]: the callback of case i was entered
  result,      \* result.Cases
  runErr,      \* what Run returns beside the result
  \* the callback each worker is in
  step,        \* where it is
  metricAt,    \* the index of the metric it is at
  expired      \* its case context's own deadline has passed

poolVars == <<total, limit, ctxDone, pc, spawned, next, closed, wg, wstate,
              job, begun, ended>>
runVars == <<cfg, registered, names, phase, cases, metrics, done, result,
             runErr>>
callVars == <<step, metricAt, expired>>
vars == <<poolVars, runVars, callVars>>

Pool == INSTANCE WorkerPool

Index  == 0 .. MaxTotal - 1
Worker == 1 .. MaxTotal

CaseRecord == [name : Names, contains : SUBSET Needles]

\* What a metric left in Details: nothing, its own data, the JSON of an
\* ErrorInfo, that of a context error's, or the front part of any of these,
\* which parses as none; and how many bytes of it there are.
Details == [text : {"none", "own", "info", "context", "cut"}, length : Nat]

NoDetails == [text |-> "none", length |-> 0]

ContainsCheck == "expected_contains"

\* A MetricResult; cause is history: did the check judge the answer, or did
\* it not get so far?
CheckResult == [check : MetricNames \cup {ContainsCheck}, pass : BOOLEAN,
                details : Details, cause : {"quality", "operational"}]

\* A CaseResult; lived is history: the case context was still alive when the
\* callback ended.
CaseResult == [name : Names \cup {Blank}, checks : Seq(CheckResult),
               runError : {"none", "run failed", "canceled"}, lived : BOOLEAN]

Steps == {"none", "run", "metric", "evaluate", "end"}

TypeOK ==
  /\ Pool!TypeOK
  /\ cfg \in Configs
  /\ registered \in Seq(CaseRecord)
  /\ names \subseteq Names
  /\ phase \in {"idle", "running", "reporting", "returned"}
  /\ cases \in Seq(CaseRecord)
  /\ metrics \in Seq(MetricNames)
  /\ done \in [Index -> BOOLEAN]
  /\ result \in [Index -> CaseResult]
  /\ runErr \in {"none", "invalid", "reporter panicked"}
  /\ step \in [Worker -> Steps]
  /\ metricAt \in [Worker -> Nat]
  /\ expired \in [Worker -> BOOLEAN]

-----------------------------------------------------------------------------

NoResult == [name |-> Blank, checks |-> <<>>, runError |-> "none",
             lived |-> FALSE]

Init ==
  /\ Pool!Init
  /\ cfg \in Configs
  /\ registered = <<>>
  /\ names = {}
  /\ phase = "idle"
  /\ cases = <<>>
  /\ metrics = <<>>
  /\ done = [i \in Index |-> FALSE]
  /\ result = [i \in Index |-> NoResult]
  /\ runErr = "none"
  /\ step = [w \in Worker |-> "none"]
  /\ metricAt = [w \in Worker |-> 0]
  /\ expired = [w \in Worker |-> FALSE]

-----------------------------------------------------------------------------
(* Registration *)

ValidCase(c) == c.name # Blank /\ c.question # Blank /\ Blank \notin c.contains

\* Runner.Case; a call that is invalid or repeats a name changes nothing.
Register(c) ==
  /\ ValidCase(c)
  /\ Len(registered) < MaxTotal
  /\ c.name \notin names
  /\ names' = names \cup {c.name}
  /\ registered' =
       Append(registered, [name |-> c.name, contains |-> c.contains])
  /\ UNCHANGED <<poolVars, callVars, cfg, phase, cases, metrics, done, result,
                 runErr>>

-----------------------------------------------------------------------------
(* The frame of Run *)

\* compactMetrics: the metrics that are not nil, in order.
CompactMetrics[list \in Seq(MetricNames \cup {NilMetric})] ==
  IF list = <<>> THEN <<>>
  ELSE (IF Head(list) = NilMetric THEN <<>> ELSE <<Head(list)>>)
         \o CompactMetrics[Tail(list)]

\* validateEffectiveChecks: with no metric every case needs a containment check.
EffectiveChecks(cs, ms) ==
  ms # <<>> \/ \A i \in DOMAIN cs : cs[i].contains # {}

\* Run up to the call of RunIndexed: arguments, snapshot, validation, result.
RunStarts(list, nilRun) ==
  LET ms == CompactMetrics[list] IN
  /\ phase = "idle"
  /\ ~nilRun
  /\ registered # <<>>
  /\ EffectiveChecks(registered, ms)
  /\ phase' = "running"
  /\ cases' = registered
  /\ metrics' = ms
  /\ result' = [i \in Index |->
                  IF i < Len(registered)
                  THEN [NoResult EXCEPT !.name = registered[i + 1].name]
                  ELSE NoResult]
  /\ Pool!Invoke(Len(registered), cfg.parallelism)
  /\ UNCHANGED <<callVars, cfg, registered, names, done, runErr>>

RunRejected(list, nilRun) ==
  /\ phase = "idle"
  /\ \/ nilRun
     \/ registered = <<>>
     \/ ~EffectiveChecks(registered, CompactMetrics[list])
  /\ phase' = "returned"
  /\ runErr' = "invalid"
  /\ UNCHANGED <<poolVars, callVars, cfg, registered, names, cases, metrics,
                 done, result>>

\* Mutants of Settle: started cases are marked too; the result is settled
\* while the pool still waits for its workers.
SettleAll ==
  /\ phase = "running"
  /\ pc = "returned"
  /\ phase' = "reporting"
  /\ result' = [i \in Index |->
                  IF ctxDone /\ i < total
                  THEN [result[i] EXCEPT !.runError = "canceled"]
                  ELSE result[i]]
  /\ UNCHANGED <<poolVars, callVars, cfg, registered, names, cases, metrics,
                 done, runErr>>

SettleEarly ==
  /\ phase = "running"
  /\ pc \in {"join", "returned"}
  /\ phase' = "reporting"
  /\ result' = [i \in Index |->
                  IF ctxDone /\ i < total /\ ~done[i]
                  THEN [result[i] EXCEPT !.runError = "canceled"]
                  ELSE result[i]]
  /\ UNCHANGED <<poolVars, callVars, cfg, registered, names, cases, metrics,
                 done, runErr>>

\* RunIndexed is back: cases it never started are marked as cancelled.
Settle ==
  /\ phase = "running"
  /\ pc = "returned"
  /\ phase' = "reporting"
  /\ result' = [i \in Index |->
                  IF ctxDone /\ i < total /\ ~done[i]
                  THEN [result[i] EXCEPT !.runError = "canceled"]
                  ELSE result[i]]
  /\ UNCHANGED <<poolVars, callVars, cfg, registered, names, cases, metrics,
                 done, runErr>>

\* reportSafely, when a reporter is configured; its panic becomes Run's error.
Report ==
  /\ phase = "reporting"
  /\ phase' = "returned"
  /\ runErr' \in IF cfg.reporter THEN {"none", "reporter panicked"} ELSE {"none"}
  /\ UNCHANGED <<poolVars, callVars, cfg, registered, names, cases, metrics,
                 done, result>>

\* Steps of the pool between its callbacks; the caller's cancellation.
PoolStep ==
  /\ Pool!Dispatcher \/ \E w \in Worker : Pool!WorkerExit(w)
  /\ UNCHANGED <<runVars, callVars>>

Cancel ==
  /\ Pool!Cancel
  /\ UNCHANGED <<runVars, callVars>>

-----------------------------------------------------------------------------
(* The callback of worker w for case job[w] *)

\* caseCtx.Err() # nil: the parent is done or the case's deadline has passed.
CtxErr(w) == ctxDone \/ expired[w]

\* What limitDetails leaves of details: all of them, or as many bytes as fit.
LimitDetails(text, size) ==
  CASE cfg.detailsMax = 0 -> NoDetails
    [] cfg.detailsMax > 0 /\ size <= cfg.detailsMax ->
         [text |-> text, length |-> size]
    [] OTHER -> [text |-> "cut", length |-> cfg.detailsMax]

Judged(check, pass, details) ==
  [check |-> check, pass |-> pass, details |-> details, cause |-> "quality"]

\* Mutant of Unjudged: the limit is for a metric's own details only.
UnjudgedWhole(check, text, size) ==
  [check |-> check, pass |-> FALSE,
   details |-> [text |-> text, length |-> size], cause |-> "operational"]

\* An error's result, with errorInfoDetails of the error.
Unjudged(check, text, size) ==
  [check |-> check, pass |-> FALSE, details |-> LimitDetails(text, size),
   cause |-> "operational"]

\* Append a check result to the case of worker w.
AddResult(w, r) ==
  result' = [result EXCEPT ![job[w]].checks = Append(@, r)]

\* Mutant of StartCase: a case that finds the run cancelled is dropped.
StartCaseUnlessDone(w) ==
  /\ wstate[w] = "received"
  /\ wstate' = [wstate EXCEPT ![w] = IF ctxDone THEN "select" ELSE "running"]
  /\ begun' = IF ctxDone THEN begun ELSE [begun EXCEPT ![job[w]] = @ + 1]
  /\ done' = [done EXCEPT ![job[w]] = TRUE]
  /\ step' = [step EXCEPT ![w] = IF ctxDone THEN "none" ELSE "run"]
  /\ expired' = [expired EXCEPT ![w] = FALSE]
  /\ UNCHANGED <<total, limit, ctxDone, pc, spawned, next, closed, wg, job,
                 ended, metricAt, cfg, registered, names, phase, cases,
                 metrics, result, runErr>>

\* The callback begins: done[index] is set and the case context is made.
StartCase(w) ==
  /\ Pool!Call(w)
  /\ done' = [done EXCEPT ![job[w]] = TRUE]
  /\ step' = [step EXCEPT ![w] = "run"]
  /\ expired' = [expired EXCEPT ![w] = FALSE]
  /\ UNCHANGED <<metricAt, cfg, registered, names, phase, cases, metrics,
                 result, runErr>>

\* The deadline of the case context passes while the callback is running.
CaseTimeout(w) ==
  /\ cfg.caseTimeout
  /\ step[w] # "none"
  /\ ~expired[w]
  /\ expired' = [expired EXCEPT ![w] = TRUE]
  /\ UNCHANGED <<poolVars, runVars, step, metricAt>>

\* runFuncSafely returns an error, the system's own or a recovered panic.
RunFuncFails(w) ==
  /\ step[w] = "run"
  /\ result' = [result EXCEPT ![job[w]].runError = "run failed"]
  /\ step' = [step EXCEPT ![w] = "end"]
  /\ UNCHANGED <<poolVars, metricAt, expired, cfg, registered, names, phase,
                 cases, metrics, done, runErr>>

\* The system answers (it may ignore ctx), and the containment check, if the
\* case has one, is recorded before the metric loop.
RunFuncAnswers(w) ==
  /\ step[w] = "run"
  /\ IF cases[job[w] + 1].contains = {}
     THEN UNCHANGED result
     ELSE \E matched \in BOOLEAN :
            AddResult(w, Judged(ContainsCheck, matched, NoDetails))
  /\ step' = [step EXCEPT ![w] = "metric"]
  /\ metricAt' = [metricAt EXCEPT ![w] = 1]
  /\ UNCHANGED <<poolVars, expired, cfg, registered, names, phase, cases,
                 metrics, done, runErr>>

\* The head of the metric loop: the case context is looked at once per metric.
MetricBegins(w) ==
  /\ step[w] = "metric"
  /\ metricAt[w] <= Len(metrics)
  /\ ~CtxErr(w)
  /\ step' = [step EXCEPT ![w] = "evaluate"]
  /\ UNCHANGED <<poolVars, runVars, metricAt, expired>>

\* The context is done before a metric: that metric fails and the loop ends.
MetricFindsCtxDone(w) ==
  /\ step[w] = "metric"
  /\ metricAt[w] <= Len(metrics)
  /\ CtxErr(w)
  /\ \E size \in DetailsSizes[metrics[metricAt[w]]] :
       AddResult(w, Unjudged(metrics[metricAt[w]], "context", size))
  /\ step' = [step EXCEPT ![w] = "end"]
  /\ UNCHANGED <<poolVars, metricAt, expired, cfg, registered, names, phase,
                 cases, metrics, done, runErr>>

MetricsExhausted(w) ==
  /\ step[w] = "metric"
  /\ metricAt[w] > Len(metrics)
  /\ step' = [step EXCEPT ![w] = "end"]
  /\ UNCHANGED <<poolVars, runVars, metricAt, expired>>

\* The metric judged the answer.
MetricJudges(w) ==
  /\ step[w] = "evaluate"
  /\ \E pass \in BOOLEAN, size \in DetailsSizes[metrics[metricAt[w]]] :
       AddResult(w, Judged(metrics[metricAt[w]], pass, LimitDetails("own", size)))
  /\ step' = [step EXCEPT ![w] = "metric"]
  /\ metricAt' = [metricAt EXCEPT ![w] = @ + 1]
  /\ UNCHANGED <<poolVars, expired, cfg, registered, names, phase, cases,
                 metrics, done, runErr>>

\* The metric failed or panicked with something that is no context error.
MetricErrs(w) ==
  /\ step[w] = "evaluate"
  /\ \E size \in DetailsSizes[metrics[metricAt[w]]] :
       AddResult(w, Unjudged(metrics[metricAt[w]], "info", size))
  /\ step' = [step EXCEPT ![w] = "metric"]
  /\ metricAt' = [metricAt EXCEPT ![w] = @ + 1]
  /\ UNCHANGED <<poolVars, expired, cfg, registered, names, phase, cases,
                 metrics, done, runErr>>

\* Mutant of MetricErrsOnContext: the loop ends without a failing check.
MetricErrsUnseen(w) ==
  /\ step[w] = "evaluate"
  /\ step' = [step EXCEPT ![w] = "end"]
  /\ UNCHANGED <<poolVars, runVars, metricAt, expired>>

\* The error is, or wraps, a context error, of the case context or of some
\* narrower one (an http.Client timeout): metricErrorCanceled, the loop ends.
MetricErrsOnContext(w) ==
  /\ step[w] = "evaluate"
  /\ \E size \in DetailsSizes[metrics[metricAt[w]]] :
       AddResult(w, Unjudged(metrics[metricAt[w]], "context", size))
  /\ step' = [step EXCEPT ![w] = "end"]
  /\ UNCHANGED <<poolVars, metricAt, expired, cfg, registered, names, phase,
                 cases, metrics, done, runErr>>

\* The callback returns to the worker, cancelling the case context.
EndCase(w) ==
  /\ step[w] = "end"
  /\ Pool!CallReturns(w)
  /\ step' = [step EXCEPT ![w] = "none"]
  /\ metricAt' = [metricAt EXCEPT ![w] = 0]
  /\ expired' = [expired EXCEPT ![w] = FALSE]
  /\ result' = [result EXCEPT ![job[w]].lived = ~CtxErr(w)]
  /\ UNCHANGED <<cfg, registered, names, phase, cases, metrics, done, runErr>>

CallbackStep(w) ==
  \/ RunFuncFails(w) \/ RunFuncAnswers(w)
  \/ MetricBegins(w) \/ MetricFindsCtxDone(w) \/ MetricsExhausted(w)
  \/ MetricJudges(w) \/ MetricErrs(w) \/ MetricErrsOnContext(w)
  \/ EndCase(w)

-----------------------------------------------------------------------------

Terminated ==
  /\ phase = "returned"
  /\ UNCHANGED vars

Next ==
  \/ \E c \in CaseInputs : Register(c)
  \/ \E list \in MetricLists, nilRun \in BOOLEAN :
       RunStarts(list, nilRun) \/ RunRejected(list, nilRun)
  \/ PoolStep
  \/ Cancel
  \/ \E w \in Worker : StartCase(w) \/ CaseTimeout(w) \/ CallbackStep(w)
  \/ Settle
  \/ Report
  \/ Terminated

(***************************************************************************)
(* The goroutines of the pool and the calling goroutine are scheduled by   *)
(* Go.  That a RunFunc, a metric and a reporter return is assumed of the   *)
(* user's code; nobody has to call Case or Run, and no context has to be   *)
(* cancelled nor a deadline to pass.                                       *)
(***************************************************************************)
Fairness ==
  /\ WF_vars(Pool!Dispatcher /\ UNCHANGED <<runVars, callVars>>)
  /\ WF_vars(Settle \/ Report)
  /\ \A w \in Worker :
       /\ WF_vars(\/ StartCase(w)
                  \/ Pool!WorkerExit(w) /\ UNCHANGED <<runVars, callVars>>)
       /\ WF_vars(CallbackStep(w))

Safety == Init /\ [][Next]_vars

Spec == Safety /\ Fairness

-----------------------------------------------------------------------------

\* The run got past validation and its result is with the reporter or caller.
HasResult == phase \in {"reporting", "returned"} /\ runErr # "invalid"

RunIndexes == 0 .. total - 1

\* The result as its reader gets it.
CaseResults == [i \in 1 .. total |-> result[i - 1]]

\* The checks a case is meant to go through, in order.
ExpectedChecks(i) ==
  (IF cases[i + 1].contains = {} THEN <<>> ELSE <<ContainsCheck>>) \o metrics

CheckNames(i) ==
  [k \in DOMAIN result[i].checks |-> result[i].checks[k].check]

(***************************************************************************)
(* Everything that tells of a run tells the same, and of every case: no    *)
(* case is without a verdict; Failed, PassRate, the failed cases of the    *)
(* summary and whether Assert fails the test agree; and the failures that  *)
(* Assert logs or counts as suppressed are those that PassRate misses.     *)
(***************************************************************************)
SignalsAgree ==
  HasResult =>
    LET named  == MetricNames \cup {ContainsCheck}
        counts == Counts(CaseResults)
        rate   == PassRate(CaseResults)
        told   == AssertRun(CaseResults, named)
        Total(count(_)) ==
          FoldLeft(LAMBDA sum, c : sum + count(c), 0, CaseResults)
    IN  /\ \A i \in RunIndexes :
             result[i].runError # "none" \/ result[i].checks # <<>>
        /\ RunFailed(CaseResults) <=> rate[1] < rate[2]
        /\ RunFailed(CaseResults) <=> FailedCases(CaseResults) > 0
        /\ RunFailed(CaseResults) <=> told.errorfs > 0
        /\ told.logged + told.suppressed = rate[2] - rate[1]
        /\ told.totalMetrics = counts.checks
        /\ told.failedCases = counts.runErrors
        /\ told.failedMetrics = Total(LAMBDA c : Len(FailedMetrics(c)))
        /\ \A n \in named :
             told.metricTotals[n] = Total(LAMBDA c : Len(MetricsByName(c, n)))

(***************************************************************************)
(* The checks of a case are recorded in order without gap or repetition,   *)
(* and a case that does not fail went through all of them: breaking off    *)
(* the metric loop always leaves a failing check behind.                   *)
(***************************************************************************)
PassMeansComplete ==
  /\ phase # "idle" => \A i \in RunIndexes :
       IsPrefix(CheckNames(i), ExpectedChecks(i))
  /\ HasResult => \A i \in RunIndexes :
       ~Failed(result[i]) => CheckNames(i) = ExpectedChecks(i)

(***************************************************************************)
(* A RunError excludes check results (RunResult.counts skips the checks of *)
(* such a case), and "canceled before execution" is said of exactly the    *)
(* cases whose callback the pool never entered.                            *)
(***************************************************************************)
RunErrorsAreTruthful ==
  \A i \in Index :
    /\ result[i].runError # "none" => result[i].checks = <<>>
    /\ result[i].runError = "run failed" => begun[i] = 1
    /\ HasResult /\ i < total =>
         (result[i].runError = "canceled" <=> begun[i] = 0)

(***************************************************************************)
(* Once the reporter or the caller has the result nothing writes to it any *)
(* more, although it is shared memory with the workers.                    *)
(***************************************************************************)
ResultIsFinal ==
  [][(phase = "reporting" \/ phase = "returned") =>
       UNCHANGED <<result, done>>]_vars

\* MetricErrorInfo finds an ErrorInfo in the details of the check.
ReadsInfo(check) == check.details.text \in {"info", "context"}

\* The details were cut at the limit, so that nothing is read from them.
LostToLimit(check) ==
  ~ReadsInfo(check) /\ check.details.length = cfg.detailsMax

\* The check tells that the metric loop was broken off, if it tells anything.
BreaksOff(check) ==
  ~check.pass /\ (check.details.text = "context" \/ LostToLimit(check))

(***************************************************************************)
(* What a reader of the result can tell from it, whatever the limit on     *)
(* details: details keep to the limit; an ErrorInfo is found only in a     *)
(* failing check that did not judge the answer, and is missing there only  *)
(* when the limit cut it; and an answered case that lacks checks says why, *)
(* in its last check and nowhere else: it fails with the ErrorInfo of an   *)
(* ended context, unless the limit cut that one.                           *)
(***************************************************************************)
FailuresAreTold ==
  /\ \A i \in RunIndexes : \A k \in DOMAIN result[i].checks :
       LET check == result[i].checks[k] IN
       /\ check.details.length <= cfg.detailsMax
       /\ ReadsInfo(check) => ~check.pass /\ check.cause = "operational"
       /\ check.cause = "operational" => ReadsInfo(check) \/ LostToLimit(check)
       /\ check.details.text = "context" => k = Len(result[i].checks)
  /\ HasResult => \A i \in RunIndexes :
       LET checks == result[i].checks IN
       result[i].runError = "none" /\ CheckNames(i) # ExpectedChecks(i) =>
         checks # <<>> /\ BreaksOff(Last(checks))

(***************************************************************************)
(* What the reference says of errors of a metric: they become failing      *)
(* results, and every failure is reported                                  *)
(* (docs/reference/results-and-reporting.md:83-85).  A case that was       *)
(* answered and whose context lived to its end has a result per check.     *)
(***************************************************************************)
EveryCheckReported ==
  HasResult => \A i \in RunIndexes :
    result[i].lived /\ result[i].runError = "none" =>
      CheckNames(i) = ExpectedChecks(i)

\* Run comes back once it got past validation.
RunReturns == phase = "running" ~> phase = "returned"

(***************************************************************************)
(* The runner uses the pool as the pool expects: its steps are steps of    *)
(* WorkerPool, and its callbacks return, so that everything shown of the   *)
(* pool (parallelism bound, at most once, settled at the return) holds in  *)
(* the runner.                                                             *)
(***************************************************************************)
ImplementsPool == Pool!Spec

-----------------------------------------------------------------------------

(***************************************************************************)
(* The inductive invariant behind the safety properties, to be read beside *)
(* the pool's PoolInv.  The phase of the run goes with the place of the    *)
(* dispatcher; a worker's place in its callback says how many checks its   *)
(* case has; and a case that has come back failed or went through all of   *)
(* its checks.                                                             *)
(***************************************************************************)
PhaseInv ==
  /\ pc = "call" <=> phase = "idle" \/ runErr = "invalid"
  /\ pc = "call" => total = 0
  /\ pc # "call" => Len(cases) = total
  /\ runErr # "none" => phase = "returned"
  /\ HasResult => pc = "returned"

\* The number of checks before the metrics.
Lead(i) == IF cases[i + 1].contains = {} THEN 0 ELSE 1

\* The checks recorded so far are the first ones expected, and none follows
\* one that says the context had ended.
Aligned(i) ==
  LET checks == result[i].checks IN
  /\ Len(checks) <= Len(ExpectedChecks(i))
  /\ \A k \in 1 .. Len(checks) :
       /\ checks[k].check = ExpectedChecks(i)[k]
       /\ checks[k].details.text = "context" => k = Len(checks)

\* The metric loop goes on: no check says that the context had ended.
Unbroken(i) ==
  LET checks == result[i].checks IN
  \A k \in 1 .. Len(checks) : checks[k].details.text # "context"

\* Nothing is missing in the result of a case that does not say so.
Over(i) ==
  LET checks == result[i].checks IN
  \/ result[i].runError # "none"
  \/ Len(checks) = Len(ExpectedChecks(i))
  \/ Len(checks) > 0 /\ BreaksOff(checks[Len(checks)])

CallInv(w) ==
  LET this == result[job[w]] IN
  /\ step[w] # "none" <=> wstate[w] = "running"
  /\ step[w] = "run" => this.checks = <<>> /\ this.runError = "none"
  /\ step[w] \in {"metric", "evaluate"} =>
       /\ this.runError = "none"
       /\ Unbroken(job[w])
       /\ metricAt[w] >= 1
       /\ Len(this.checks) = Lead(job[w]) + metricAt[w] - 1
  /\ step[w] = "evaluate" => metricAt[w] <= Len(metrics)
  /\ step[w] = "end" => Over(job[w])

CaseInv(i) ==
  /\ done[i] <=> begun[i] # 0
  /\ begun[i] = 0 => result[i].checks = <<>>
  /\ ended[i] # 0 => Over(i)
  /\ i < total => Aligned(i)
  /\ result[i].runError # "none" => result[i].checks = <<>>
  /\ result[i].runError = "run failed" => begun[i] # 0
  /\ result[i].runError = "canceled" => begun[i] = 0 /\ HasResult
  /\ HasResult /\ i < total /\ begun[i] = 0 => result[i].runError = "canceled"

RunnerInv ==
  /\ TypeOK
  /\ PhaseInv
  /\ \A w \in Worker : CallInv(w)
  /\ \A i \in Index : CaseInv(i)
=============================================================================
