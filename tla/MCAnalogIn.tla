----------------------------- MODULE MCAnalogIn -----------------------------
(***************************************************************************)
(* Three threads: one may construct the mutex, one wait for the singleton   *)
(* lock and one use the converter.                                          *)
(***************************************************************************)
EXTENDS AnalogIn
=============================================================================
