-------------------------------- MODULE MC_Tasks --------------------------------
(***************************************************************************)
(* Tasks for TLC with sizes scaled down: a content id has 8 characters     *)
(* (v-tt_v-l with a title id of 2), an int has 3 bits.                     *)
(***************************************************************************)
EXTENDS Tasks, TLC

Title == <<"x", "y">>
Other == <<"x", "x">>

\* Of the documented form, with the underscore in the label only, without a second dash
\* in its place, with a dash in the label.
Good      == <<"v", "-", "x", "y", "_", "v", "-", "l">>
Misplaced == <<"v", "-", "x", "y", "v", "v", "-", "_">>
Undashed  == <<"v", "-", "x", "y", "_", "v", "v", "l">>
Dashes    == <<"v", "-", "x", "y", "_", "v", "-", "-">>

TheIds   == {<<>>, <<"x">>, Title, Title \o <<"x">>, Good, Good \o <<"l">>,
             Misplaced, Undashed, Dashes}
TheItems == {<<"game", Title>>, <<"game", Other>>, <<"patch", Title>>,
             <<"ac", Title \o <<"l">>>>, <<"theme", Good>>}
TheContents == (0 :> Good) @@ (1 :> Dashes)
TheNumbers == {-1, 0, 1, 5, 8}
Symmetry == Permutations(Threads)
=================================================================================
