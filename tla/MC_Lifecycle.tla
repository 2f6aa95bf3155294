----------------------------- MODULE MC_Lifecycle -----------------------------
(***************************************************************************)
(* Lifecycle for TLC.  It has no parameters: the run is exhaustive.        *)
(***************************************************************************)
EXTENDS Lifecycle
===============================================================================
