---------------------------- MODULE MCTransducers ----------------------------
(***************************************************************************)
(* Instances of Transducers: the expression of the linear game, and small  *)
(* automata of pairs, with intervals or without.                           *)
(***************************************************************************)
EXTENDS Transducers

(* (ac*d?)|(bc*e?), where a is 1, b 2, c 3, d 4 and e 5.                   *)
LinearPairs ==
  [q0 |-> 0, acc |-> {1, 2, 3},
   map |-> << <<"s", "e">>, <<"e", "s">>, <<"l", "l">>, <<"-", "l">>, <<"l", "-">> >>,
   trans |-> {<<0, 1, 1, 1>>, <<0, 2, 2, 2>>, <<1, 3, 3, 1>>, <<2, 3, 3, 2>>,
              <<1, 4, 4, 3>>, <<2, 5, 5, 3>>}]

(* Pairs that overlap, to be read by two transitions.                      *)
Map == << <<"a", "a">>, <<"-", "a">>, <<"a", "-">>, <<"b", "a">> >>

Small ==
  {[q0 |-> 0, acc |-> acc, map |-> Map, trans |-> {s, t}] :
     acc \in {{1}, {0, 1}},
     s \in {<<0, c, d, 1>> : <<c, d>> \in {p \in (1..4) \X (1..4) : p[1] <= p[2] /\ p[2] <= p[1] + 1}},
     t \in {<<p, c, c, q>> : p \in 0..1, c \in 1..4, q \in 0..1}}

AllInputs == {LinearPairs} \cup Small

=============================================================================
