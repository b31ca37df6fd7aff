---------------------------- MODULE MCRateLimiter ----------------------------
(***************************************************************************)
(* Instance of RateLimiter: two requests per minute of seven ticks, so     *)
(* that a token takes a fraction of ticks and sleeps are cut short; a      *)
(* burst of two, and windows up to a minute.                               *)
(***************************************************************************)
EXTENDS RateLimiter

CONSTANTS g1, g2

MCWaiter == {g1, g2}
=============================================================================
