----------------------------- MODULE MCWorkerPool -----------------------------
(* Bounded instances of WorkerPool for TLC: two workers, each with its mirror. *)
EXTENDS WorkerPool, TLC

CONSTANTS w1, w2, s1, s2

TwoMirrors == (w1 :> s1) @@ (w2 :> s2)
================================================================================
