--------------------------- MODULE MCProjectTools ---------------------------
(***************************************************************************)
(* Instances of ProjectTools for TLC.  Two template versions; the second   *)
(* has dropped one object file of mbed/ and kept the other.                *)
(***************************************************************************)
EXTENDS ProjectTools

MCMbedOf == <<{"kept.o", "dropped.o"}, {"kept.o"}>>
=============================================================================
