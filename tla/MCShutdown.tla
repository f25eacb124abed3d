----------------------------- MODULE MCShutdown -----------------------------
(* A process with one request and one worker.                              *)
EXTENDS Shutdown

CONSTANTS r1, w1, c1, none

OneRequest == {r1}
OneWorker == {w1}
OneClient == {c1}
NoClientSessions == {}
=============================================================================
