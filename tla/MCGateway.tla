------------------------------ MODULE MCGateway ------------------------------
(* The gateway on small instances.                                         *)
EXTENDS Gateway

CONSTANTS r1, r2, r3, w1, c1, c2, s1, none

OneRequest == {r1}
TwoRequests == {r1, r2}
ThreeRequests == {r1, r2, r3}
OneWorker == {w1}
OneClient == {c1}
TwoClients == {c1, c2}
NoClientSessions == {}
OneClientSession == {s1}

Symmetry == Permutations(Requests) \cup Permutations(Clients)
=============================================================================
