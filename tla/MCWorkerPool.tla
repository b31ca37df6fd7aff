---------------------------- MODULE MCWorkerPool ----------------------------
(***************************************************************************)
(* Instance of WorkerPool: up to four indexes, and every kind of limit    *)
(* (negative, zero, below, equal to and above the number of indexes).      *)
(***************************************************************************)
EXTENDS WorkerPool

MCLimits == {-1, 0, 1, 2, 5}
=============================================================================
