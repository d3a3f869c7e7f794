--------------------------- MODULE MCCortexServer ---------------------------
(* Instances of CortexServer for TLC. *)
EXTENDS CortexServer, TLC

CONSTANTS w1, w2, c1, c2, c3

OneWorker == {w1}
TwoWorkers == {w1, w2}
TwoConns == {c1, c2}
ThreeConns == {c1, c2, c3}
AnsweredRoutes == AllRoutes \ {"embeddings"}
Symmetry == Permutations(TwoWorkers) \cup Permutations(ThreeConns)
=============================================================================
