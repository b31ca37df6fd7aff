------------------------------ MODULE MCRunner ------------------------------
(***************************************************************************)
(* Instances of Runner: two cases, two workers, up to two metrics.         *)
(***************************************************************************)
EXTENDS Runner

MCCaseInputs ==
  { [name |-> "a", question |-> "question", contains |-> {"needle"}],
    [name |-> "b", question |-> "question", contains |-> {}],
    [name |-> "b", question |-> "question", contains |-> {"blank"}],
    [name |-> "blank", question |-> "question", contains |-> {}],
    [name |-> "b", question |-> "blank", contains |-> {}] }

\* Two metrics, or only a nil: with and without checks.
MCMetricLists == { <<"m1", "m2">>, <<"nil">> }

MCOneList == { <<"m1", "m2">> }

Config(p, t, d, r) ==
  [parallelism |-> p, caseTimeout |-> t, detailsMax |-> d, reporter |-> r]

\* Two workers with a timeout, where all details are cut; one with a reporter,
\* where some are and some just fit.
MCConfigs == { Config(2, TRUE, 1, FALSE), Config(1, FALSE, 2, TRUE) }

\* What m1 leaves may be cut at the limit of 2, what m2 leaves fills it.
MCDetailsSizes == [m \in {"m1", "m2"} |-> IF m = "m1" THEN {2, 3} ELSE {2}]

MCOneWorker == { Config(1, TRUE, 2, FALSE) }
=============================================================================
