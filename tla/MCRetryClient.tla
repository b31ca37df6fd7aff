---------------------------- MODULE MCRetryClient ----------------------------
(***************************************************************************)
(* Instances of RetryClient.  A unit of time is 100 ms, so that a second   *)
(* has ten and the default delays are 1 and 20; a duration has eight bits, *)
(* so that 13 seconds wrap as 9.3e9 do in an int64.                        *)
(***************************************************************************)
EXTENDS RetryClient

Retries(n, base, max) ==
  [maxAttempts |-> n, baseDelay |-> base, maxDelay |-> max]

\* The defaults; one attempt; a cap that the second backoff exceeds; a backoff
\* that outgrows a duration at the third attempt; a base delay above the cap
\* that is left to the default.
MCConfigs ==
  { Retries(0, 0, 0), Retries(1, 2, 5), Retries(4, 2, 3), Retries(4, 40, 100),
    Retries(2, 40, 0) }

Header(kind, value) == [kind |-> kind, value |-> value]

\* No header, seconds below, at and above the cap, not positive, more than a
\* duration holds, and dates.
MCRetryAfters ==
  { Header("absent", 0), Header("seconds", 1), Header("seconds", 2),
    Header("seconds", 12), Header("seconds", -1), Header("seconds", 13),
    Header("date", -3), Header("date", 7) }

=============================================================================
