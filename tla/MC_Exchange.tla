------------------------------ MODULE MC_Exchange ------------------------------
(***************************************************************************)
(* Exchange for TLC.                                                       *)
(***************************************************************************)
EXTENDS Exchange
===============================================================================
