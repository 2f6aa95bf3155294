------------------------------ MODULE MC_TinyJson ------------------------------
(***************************************************************************)
(* TinyJson for TLC: two strings, so that a name may come twice, and a     *)
(* pool that a text within the bound can exhaust.                          *)
(***************************************************************************)
EXTENDS TinyJson
===============================================================================
