---------------------------- MODULE MCOperations ----------------------------
(***************************************************************************)
(* An instance of Operations: the automata of BasicAutomata over three     *)
(* letters, what RegExp makes of its simplest expressions.                 *)
(***************************************************************************)
EXTENDS Operations

MakeCharRange(min, max) == Explicit(0, {1}, {<<0, min, max, 1>>}, TRUE)

MakeAnyString == Explicit(0, {0}, {<<0, 0, MaxChar, 0>>}, TRUE)

BasicAutomata ==
  {MakeEmpty, Singleton(<<1>>), MakeCharRange(0, 1), MakeAnyString}

=============================================================================
