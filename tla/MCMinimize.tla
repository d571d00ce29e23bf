----------------------------- MODULE MCMinimize -----------------------------
(***************************************************************************)
(* Instances of Minimize: deterministic automata over two letters, with    *)
(* three states of their own, and nondeterministic ones with two.          *)
(***************************************************************************)
EXTENDS Minimize

(* A move of State q: none, or to a state, by each letter.                 *)
MoveTables(n) == [0..n - 1 -> [Char -> 0..n]]

FromMoves(m, n, acc, det) ==
  RemoveDeadTransitions(
    Explicit(0, acc, {<<q, c, c, m[q][c]>> : <<q, c>> \in
                        {p \in (0..n - 1) \X Char : m[p[1]][p[2]] # n}}, det))

(* Each automaton once: its states are met in the order of their numbers.  *)
Ordered(m, n) ==
  \A q \in 1..n - 1 :
    LET from(r) == {p \in (0..n - 1) \X Char : m[p[1]][p[2]] = r}
        key(r) == CHOOSE i \in {p[1] * 2 + p[2] : p \in from(r)} :
                    \A j \in {p[1] * 2 + p[2] : p \in from(r)} : i <= j
    IN  from(q) # {} /\ key(q) < 2 * q /\ (q > 1 => key(q - 1) < key(q))

Deterministic(n) ==
  {FromMoves(m, n, acc, TRUE) :
     m \in {x \in MoveTables(n) : Ordered(x, n)}, acc \in SUBSET (0..n - 1)}

Nondeterministic ==
  {RemoveDeadTransitions(Explicit(0, {1}, {<<t[1], t[2], t[2], t[3]>> : t \in trans}, FALSE)) :
     trans \in SUBSET ((0..1) \X Char \X (0..1))}

(* Words on one letter modulo a number.                                    *)
Cycle(n, acc) == Explicit(0, acc, {<<q, 0, 0, (q + 1) % n>> : q \in 0..n - 1}, TRUE)

AllInputs ==
  Deterministic(1) \cup Deterministic(2) \cup Deterministic(3) \cup Nondeterministic
    \cup {Cycle(6, acc) : acc \in SUBSET (0..5) \ {{}}}
    \cup {Singleton(<<>>), Singleton(<<0, 1>>)}

=============================================================================
