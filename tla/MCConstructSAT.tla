--------------------------- MODULE MCConstructSAT ---------------------------
(* Every DFA and counterexample automaton with one or two states.          *)
EXTENDS ConstructSAT

Spaced == {}                   \* the letters of linearGame: e, l and s
Consecutive == {<<"a", "b">>}  \* those of boxGame
Antecedents == {<<>>, <<"a">>, <<"b", "a">>}

=============================================================================
