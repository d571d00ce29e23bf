----------------------------- MODULE MCTeacher -----------------------------
(***************************************************************************)
(* The teacher of SafetyProblem.linearGame(1): its automata, built as      *)
(* RegExp builds them, and conjectures of several kinds.                   *)
(***************************************************************************)
EXTENDS Teacher

Chars == "e" :> 1 @@ "l" :> 3 @@ "s" :> 5

Spaced == {}   \* no two letters have consecutive codes

-----------------------------------------------------------------------------
(* linearGame(k)                                                           *)
Letter1(l) == B!Singleton(<<Chars[l]>>)

LinearV(player) ==
  B!Determinize(B!ConcatenateList(<<Letter1(player), B!Repeat(Letter1("l"))>>))

LinearV0 == LinearV("s")

LinearV1 == LinearV("e")

(* What follows the turn: l{k-1}l+.                                        *)
FromK(turn, k) ==
  B!Determinize(B!ConcatenateList(
    <<turn, B!RepeatMinMax(Letter1("l"), k - 1, k - 1), B!RepeatMin(Letter1("l"), 1)>>))

LinearI == FromK(Letter1("s"), 1)

LinearF == FromK(B!Determinize(B!UnionList(<<Letter1("s"), Letter1("e")>>)), 1)

LinearT ==
  [na |-> 4, acc |-> {1, 2, 3},
   trans |-> {<<0, "s", "e", 1>>, <<1, "l", "l", 1>>, <<1, "-", "l", 3>>,
              <<0, "e", "s", 2>>, <<2, "l", "l", 2>>, <<2, "l", "-", 3>>}]

-----------------------------------------------------------------------------
(* A DFA given by its transitions <<p, letter, q>>, as translateModel      *)
(* makes it and minimize trims it.                                         *)
Dfa(final, edges) ==
  B!RemoveDeadTransitions(
    B!Explicit(0, final, {<<e[1], Chars[e[2]], Chars[e[2]], e[3]>> : e \in edges}, TRUE))

(* Every DFA of two states.                                                *)
TwoStates ==
  {Dfa(final, {<<c[1], c[2], m[c]>> : c \in DOMAIN m}) :
     final \in SUBSET (0..1), m \in [(0..1) \X {"e", "l", "s"} -> 0..1]}

(* Sets between the initial and the safe vertices: every s l+, and the     *)
(* words e l^i for i among some numbers, the last of which stands for all  *)
(* from there on, or modulo the last.                                      *)
Line(k, loop, numbers) ==
  Dfa({2} \cup {3 + i : i \in numbers},
      {<<0, "s", 1>>, <<1, "l", 2>>, <<2, "l", 2>>, <<0, "e", 3>>, <<3 + k, "l", 3 + loop>>}
        \cup {<<3 + i, "l", 4 + i>> : i \in 0..k - 1})

Between == {Line(k, loop, numbers) :
              <<k, loop, numbers>> \in {c \in (1..3) \X (0..3) \X SUBSET (1..3) :
                                          c[2] <= c[1] /\ c[3] \subseteq 1..c[1]}}

AllConjectures == TwoStates \cup Between

=============================================================================
