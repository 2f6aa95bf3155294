------------------------------- MODULE MC_Buffer -------------------------------
(***************************************************************************)
(* Buffer for TLC: two bytes beside NUL, so that an order can be told.     *)
(***************************************************************************)
EXTENDS Buffer, TLC

CONSTANTS x, y

TheBytes == {x, y, Nul}
Symmetry == Permutations({x, y})
===============================================================================
