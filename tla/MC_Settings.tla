------------------------------ MODULE MC_Settings ------------------------------
(***************************************************************************)
(* Settings for TLC.  "cut" is what the static keeps of a path of more     *)
(* than 255 characters, as "long" is: no bundle is there.                  *)
(***************************************************************************)
EXTENDS Settings
===============================================================================
