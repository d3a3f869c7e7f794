---------------------------- MODULE MCThreadPool ----------------------------
(* Instances of ThreadPool for TLC. *)
EXTENDS ThreadPool, TLC

CONSTANTS w1, w2, w3, j1, j2

ThreeWorkers == {w1, w2, w3}
TwoJobs == {j1, j2}
=============================================================================
