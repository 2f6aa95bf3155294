-------------------------- MODULE MC_SandbirdStreams --------------------------
(***************************************************************************)
(* SandbirdStreams for TLC.                                                *)
(***************************************************************************)
EXTENDS SandbirdStreams
===============================================================================
