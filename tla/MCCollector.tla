----------------------------- MODULE MCCollector -----------------------------
(* The collector on small instances.                                       *)
EXTENDS Collector

CONSTANTS r1, r2, w1, w2

OneRequest == {r1}
TwoRequests == {r1, r2}
OneWorker == {w1}
TwoWorkers == {w1, w2}

Symmetry == Permutations(Requests) \cup Permutations(Workers)
=============================================================================
