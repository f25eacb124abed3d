------------------------------ MODULE MCConfig ------------------------------
(* Integers of six bits: the second and the units are small enough to fit  *)
(* and large enough to overflow.                                           *)
EXTENDS Config

MCUnit == [B |-> 1, K |-> 4, M |-> 16]
MCNumbers == {-64, -4, -2, -1, 0, 1, 3, 5, 7, 15, 31, 32, 63, 64}
MCTimeUnit == [ms |-> 2, s |-> 10, m |-> 20]
=============================================================================
