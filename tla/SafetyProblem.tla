--------------------------- MODULE SafetyProblem ---------------------------
(***************************************************************************)
(* A rational safety game, as class SafetyProblem holds it: the languages  *)
(* of the automata aV0, aV1, aI and aF and the relation of the transducer  *)
(* tE.  An automaton is represented by its language and the transducer by  *)
(* the pairs of words it relates.                                          *)
(***************************************************************************)

CONSTANTS
  Word,    \* the words over the alphabet of the game
  V0,      \* vertices where player 0 (the system) moves
  V1,      \* vertices where player 1 (the environment) moves
  I,       \* initial vertices
  F,       \* safe vertices
  Edges    \* the moves: pairs of words

Vertex == V0 \cup V1

(***************************************************************************)
(* The arena of a safety game: its languages are sets of words and a move  *)
(* goes from a vertex to a vertex.  The turns need not be disjoint.        *)
(***************************************************************************)
ASSUME ArenaAssumption ==
  /\ V0 \subseteq Word
  /\ V1 \subseteq Word
  /\ I \subseteq Word
  /\ F \subseteq Word
  /\ Edges \subseteq Vertex \X Vertex

-----------------------------------------------------------------------------
(***************************************************************************)
(* TransducerOperations.image of tE and of its inverse, on languages.      *)
(* They are exact where imageRec returns and merges no loop wrongly, as    *)
(* module Teacher finds of the linear game; that it may not return at all  *)
(* is an action of Solver.                                                 *)
(***************************************************************************)

Post(L) == {v \in Word : \E u \in L : <<u, v>> \in Edges}

Pre(L) == {u \in Word : \E v \in L : <<u, v>> \in Edges}

-----------------------------------------------------------------------------
(***************************************************************************)
(* The winning sets of player 0: they hold the initial vertices and only   *)
(* safe ones, player 0 has a move that stays inside and player 1 has none  *)
(* that leaves.                                                            *)
(***************************************************************************)
IsWinningSet(W) ==
  /\ W \subseteq Word
  /\ I \subseteq W
  /\ W \subseteq F
  /\ \A u \in W \cap V0 : Post({u}) \cap W # {}
  /\ \A u \in W \cap V1 : Post({u}) \subseteq W

Solvable == \E W \in SUBSET Word : IsWinningSet(W)

=============================================================================
