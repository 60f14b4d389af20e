------------------------------- MODULE MCFiles -------------------------------
EXTENDS FileManager, TLC

(* The base, its two possible directories, a file in each, a way back and a way above. *)
SomePaths == {<<>>, <<"a">>, <<"b">>, <<"a", "x">>, <<"b", "x">>, <<"a", "..", "b">>,
              <<"..", "a">>}

Symmetry == Permutations(Requests)
=============================================================================
