--------------------------- MODULE WinningSetSpec ---------------------------
(***************************************************************************)
(* What Main.solve promises: once it returns, it has returned an automaton *)
(* of a winning set, and it never takes its answer back.                   *)
(***************************************************************************)
EXTENDS SafetyProblem

CONSTANT NoAnswer

VARIABLE answer

Init == answer = NoAnswer

Answer ==
  /\ answer = NoAnswer
  /\ \E W \in SUBSET Word : IsWinningSet(W) /\ answer' = W

Next == Answer

Spec == Init /\ [][Next]_answer

=============================================================================
