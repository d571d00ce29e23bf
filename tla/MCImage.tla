------------------------------ MODULE MCImage ------------------------------
(***************************************************************************)
(* Instances of Image: small automata and transducers, and the transducer  *)
(* of SafetyProblem.linearGame with its inverse.                           *)
(***************************************************************************)
EXTENDS Image

Spaced == {}                   \* e, l and s
Consecutive == {<<"a", "b">>}  \* the letters of boxGame

-----------------------------------------------------------------------------
(* Transducers of two states with one or two transitions.                 *)
Pairs(letters) ==
  ((letters \cup {Epsilon}) \X (letters \cup {Epsilon})) \ {<<Epsilon, Epsilon>>}

Edges(letters) ==
  {<<t, p[1], p[2], t2>> : t \in 0..1, p \in Pairs(letters), t2 \in 0..1}

Transducers(letters) ==
  {[na |-> 2, acc |-> final, trans |-> {f, g}] :
     final \in {{1}, {0, 1}}, f \in Edges(letters), g \in Edges(letters)}

(* No cycle of T but a letter for a letter, or an erased one.              *)
Advancing(t) == \A f \in t.trans : f[1] < f[4] \/ (f[1] = f[4] /\ f[2] # Epsilon)

(* The words, as new RegExp(u).toAutomaton() expands to; two other finite  *)
(* languages; the loop l*.                                                 *)
Line(u) == [na |-> Len(u) + 1, acc |-> {Len(u)},
            trans |-> {<<j - 1, u[j], j>> : j \in 1..Len(u)}]

Forks == {[na |-> 2, acc |-> {1}, trans |-> {<<0, "e", 1>>, <<0, "s", 1>>}],
          [na |-> 3, acc |-> {1, 2}, trans |-> {<<0, "e", 1>>, <<0, "s", 2>>, <<1, "s", 2>>}]}

Star == [na |-> 1, acc |-> {0}, trans |-> {<<0, "l", 0>>}]

FiniteInputs ==
  ({Line(u) : u \in {<<>>, <<"e">>, <<"s">>} \cup ({"e", "s"} \X {"e", "s"})} \cup Forks)
    \X {t \in Transducers({"e", "s"}) : Advancing(t)}

StarInputs == {Star} \X {t \in Transducers({"l"}) : Advancing(t)}

-----------------------------------------------------------------------------
(* The linear game: the transducer of (ac*d?)|(bc*e?), and its inverse.    *)
LinearT ==
  [na |-> 4, acc |-> {1, 2, 3},
   trans |-> {<<0, "s", "e", 1>>, <<1, "l", "l", 1>>, <<1, "-", "l", 3>>,
              <<0, "e", "s", 2>>, <<2, "l", "l", 2>>, <<2, "l", "-", 3>>}]

(* Sets of vertices, words of one letter e or s and then letters l, as the *)
(* teacher has them: its first two checks come before its calls of image.  *)
(* Their trim DFAs with up to four states whose cycles are loops: every    *)
(* state goes to itself or to a later one.                                 *)
Functional(edges) == \A e, f \in edges : e[1] = f[1] /\ e[2] = f[2] => e = f

Trim(a) == \A q \in 1..a.na - 1 :
             /\ \E e \in a.trans : e[1] < q /\ e[3] = q
             /\ q \in a.acc \/ \E e \in a.trans : e[1] = q /\ e[3] > q

VertexEdges(k) ==
  {0} \X {"e", "s"} \X (1..k - 1)
    \cup {<<p, "l", q>> : <<p, q>> \in {r \in (1..k - 1) \X (1..k - 1) : r[1] <= r[2]}}

Dfas(k) ==
  {a \in [na : {k}, acc : SUBSET (1..k - 1),
          trans : {edges \in SUBSET VertexEdges(k) : Functional(edges)}] : Trim(a)}

LinearInputs == (Dfas(2) \cup Dfas(3) \cup Dfas(4)) \X {LinearT, Invert(LinearT)}

AllInputs == FiniteInputs \cup LinearInputs

(* The result is then a deterministic automaton for the image, as the      *)
(* operations of the teacher that follow image take it to be.              *)
ASSUME LinearAssumption ==
  \A x \in LinearInputs : Plain(x[1], x[2]) /\ EndsTogether(x[1], x[2])

=============================================================================
