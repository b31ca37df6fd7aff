----------------------------- MODULE Reporting ------------------------------
(***************************************************************************)
(* What is told about a finished run: the methods of RunResult and         *)
(* CaseResult (result.go) and the default reporter Assert (reporter.go).   *)
(* A case has runError and checks, a check its name and pass; names of     *)
(* checks are the keys of the reporter's two maps.                         *)
(***************************************************************************)
EXTENDS Integers, SequencesExt

CONSTANT MaxFailureLogs  \* failures Assert logs one by one

ASSUME ReportingAssumption == MaxFailureLogs \in Nat \ {0}

-----------------------------------------------------------------------------
(* result.go *)

FailedMetrics(c) ==
  FoldLeft(LAMBDA out, check : IF check.pass THEN out ELSE Append(out, check),
           <<>>, c.checks)

\* The name is trimmed first, those of the checks are not: here none has spaces
\* around it.
MetricsByName(c, name) ==
  FoldLeft(LAMBDA out, check :
             IF check.check = name THEN Append(out, check) ELSE out,
           <<>>, c.checks)

\* CaseResult.Failed
Failed(c) == c.runError # "none" \/ \E k \in DOMAIN c.checks : ~c.checks[k].pass

\* RunResult.Failed
RunFailed(cases) == \E i \in DOMAIN cases : Failed(cases[i])

FailedCases(cases) ==
  FoldLeft(LAMBDA failed, c : IF Failed(c) THEN failed + 1 ELSE failed,
           0, cases)

\* counts: the checks of a case that was not answered are not looked at.
CountCheck(counts, check) ==
  [counts EXCEPT !.checks = @ + 1,
                 !.failedChecks = IF check.pass THEN @ ELSE @ + 1]

CountCase(counts, c) ==
  IF c.runError # "none" THEN [counts EXCEPT !.runErrors = @ + 1]
  ELSE FoldLeft(CountCheck, counts, c.checks)

Counts(cases) ==
  FoldLeft(CountCase, [checks |-> 0, failedChecks |-> 0, runErrors |-> 0],
           cases)

\* PassRate as numerator and denominator; with nothing to count it is 0.
PassRate(cases) ==
  LET c     == Counts(cases)
      total == c.checks + c.runErrors
  IN  IF total = 0 THEN <<0, 1>> ELSE <<c.checks - c.failedChecks, total>>

-----------------------------------------------------------------------------
(* reporter.go *)

\* The local variables of Assert; errorfs counts its calls of t.Errorf.
NothingTold(names) ==
  [failed |-> FALSE, logged |-> 0, suppressed |-> 0, errorfs |-> 0,
   totalMetrics |-> 0, failedCases |-> 0, failedMetrics |-> 0,
   metricTotals |-> [n \in names |-> 0], metricFailed |-> [n \in names |-> 0]]

\* Mutant of LogFailure: a suppressed failure is not counted.
LogFailureOrForget(told) ==
  IF told.logged < MaxFailureLogs
  THEN [told EXCEPT !.failed = TRUE, !.logged = @ + 1, !.errorfs = @ + 1]
  ELSE [told EXCEPT !.failed = TRUE]

\* One failure, logged by itself or only counted.
LogFailure(told) ==
  IF told.logged < MaxFailureLogs
  THEN [told EXCEPT !.failed = TRUE, !.logged = @ + 1, !.errorfs = @ + 1]
  ELSE [told EXCEPT !.failed = TRUE, !.suppressed = @ + 1]

TellCheck(told, check) ==
  LET counted == [told EXCEPT !.totalMetrics = @ + 1,
                              !.metricTotals[check.check] = @ + 1]
  IN  IF check.pass THEN counted
      ELSE LogFailure([counted EXCEPT !.failedMetrics = @ + 1,
                                      !.metricFailed[check.check] = @ + 1])

TellCase(told, c) ==
  IF c.runError # "none"
  THEN LogFailure([told EXCEPT !.failedCases = @ + 1])
  ELSE FoldLeft(TellCheck, told, c.checks)

\* The whole of Assert, with one more t.Errorf when failures were suppressed.
AssertRun(cases, names) ==
  LET told == FoldLeft(TellCase, NothingTold(names), cases)
  IN  IF told.suppressed > 0 THEN [told EXCEPT !.errorfs = @ + 1] ELSE told
=============================================================================
