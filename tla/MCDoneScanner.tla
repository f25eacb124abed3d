--------------------------- MODULE MCDoneScanner ---------------------------
(* Streams of up to MaxUnits events, cut into Reads in every way.          *)
EXTENDS DoneScanner

\* A short text, one that mentions [DONE], and one longer than the cap.
MCPayloads == {<<"J">>, <<"J", "E">>, <<"J", "D", "S", "E", "J">>}
=============================================================================
