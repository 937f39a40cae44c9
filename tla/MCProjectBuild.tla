--------------------------- MODULE MCProjectBuild ---------------------------
(***************************************************************************)
(* An instance of ProjectBuild for TLC.  The second version of the         *)
(* template drops an object file, adds one and keeps the library.          *)
(***************************************************************************)
EXTENDS ProjectBuild

MCMbedOf == <<{"dropped.o", "libmbed.a"}, {"added.o", "libmbed.a"}>>
MCProject == Beside("app")
=============================================================================
