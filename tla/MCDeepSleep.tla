---------------------------- MODULE MCDeepSleep -----------------------------
(***************************************************************************)
(* Instances of DeepSleep for TLC.                                         *)
(***************************************************************************)
EXTENDS DeepSleep
=============================================================================
