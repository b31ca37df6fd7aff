--------------------------- MODULE MCProviderJudge ---------------------------
(***************************************************************************)
(* Instance of ProviderJudge: two evaluations, a token every third tick    *)
(* and no burst, two attempts per evaluation.                              *)
(***************************************************************************)
EXTENDS ProviderJudge

MCConfigs == { [maxAttempts |-> 2, baseDelay |-> 2, maxDelay |-> 3] }

\* No header, and one that asks for no delay at all.
MCRetryAfters ==
  { [kind |-> "absent", value |-> 0], [kind |-> "seconds", value |-> 0] }

\* No header, for the run that checks liveness.
MCNoRetryAfter == { [kind |-> "absent", value |-> 0] }
=============================================================================
