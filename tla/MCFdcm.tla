------------------------------- MODULE MCFdcm -------------------------------
(* Fdcm on an area of 31 bytes: two chunks of 11 bytes (two slots, the last  *)
(* ends with the area), one of 6 bytes (three slots) and one that does not   *)
(* fit.                                                                      *)
EXTENDS Fdcm

CONSTANTS chA, chB, chC, chD

MCChunk == {chA, chB, chC, chD}
MCSize == [x \in MCChunk |-> CASE x \in {chA, chB} -> 11 [] x = chC -> 6 [] x = chD -> 30]
=============================================================================
