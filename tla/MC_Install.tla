------------------------------- MODULE MC_Install -------------------------------
(***************************************************************************)
(* Install for TLC, with the name install_pieces computes: init_time XOR   *)
(* the low 32 bits of the stream's address.  The addresses are so close    *)
(* that the seconds make the names of two requests meet.                   *)
(***************************************************************************)
EXTENDS Install, Bitwise, TLC

tmp_name(init_time, s) == init_time ^^ s
Symmetry == Permutations(Pkgs)
===============================================================================
