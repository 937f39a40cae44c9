--------------------------- MODULE MCBuildUpload ----------------------------
(***************************************************************************)
(* Instances of BuildUpload for TLC.                                       *)
(***************************************************************************)
EXTENDS BuildUpload, TLC

\* The names of the source files do not matter.
SourceNames == Permutations(Sources)
=============================================================================
