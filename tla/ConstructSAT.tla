---------------------------- MODULE ConstructSAT ----------------------------
(***************************************************************************)
(* The formula Learner.constructSAT builds for one implication             *)
(* counterexample (u, A), read on one candidate model: the DFA given by    *)
(* the variables d and f.  The variables x, y and z tie the DFA to the     *)
(* word u and to the automaton A.                                          *)
(*                                                                         *)
(* A is deterministic, without dead states, its states are 0..na-1 and 0   *)
(* is initial.  A transition of the library carries an interval of         *)
(* characters: two letters with consecutive codes and the same destination *)
(* are one transition, of which constructSAT looks up the first letter     *)
(* only.                                                                   *)
(***************************************************************************)
EXTENDS Integers, Sequences

CONSTANTS
  Letter,      \* the alphabet of the game
  Adjacent,    \* the pairs of letters with consecutive codes
  MaxN,        \* bound on n, the number of states of the DFA
  MaxNA,       \* bound on na, the number of states of A
  Antecedent   \* the words u

ASSUME AntecedentAssumption == Antecedent \subseteq Seq(Letter)
ASSUME BoundsAssumption == MaxN \in Nat /\ MaxNA \in Nat

None == -1     \* no transition

VARIABLES n, d, f, kind, u, A, verdict

problem == <<n, d, f, kind, u, A>>

vars == <<n, d, f, kind, u, A, verdict>>

-----------------------------------------------------------------------------
(* Automata                                                                *)

States(k) == 0..k - 1

Automata(k) ==
  [na : {k}, delta : [States(k) -> [Letter -> States(k) \cup {None}]],
   acc : SUBSET States(k)]

Step(B, q, a) == IF q = None THEN None ELSE B.delta[q][a]

Run(B, q, v) ==
  LET state[i \in 0..Len(v)] ==
        IF i = 0 THEN q ELSE Step(B, state[i - 1], v[i])
  IN  state[Len(v)]

Accepts(B, v) == Run(B, 0, v) \in B.acc

WordsUpTo(k) == UNION {[1..l -> Letter] : l \in 0..k}

(* Each state is reached from the initial one and reaches an accepting one *)
(* (Automaton.removeDeadTransitions); alone, the initial one may not.      *)
Trim(B) ==
  LET words == WordsUpTo(B.na - 1)
  IN  B.na = 1 \/ \A q \in States(B.na) :
        /\ \E v \in words : Run(B, 0, v) = q
        /\ \E v \in words : Run(B, q, v) \in B.acc

(* The letters map.get(transition.getMin()) yields at state q: the first   *)
(* one of each interval left by Automaton.reduce.                          *)
FirstLetters(q) ==
  {a \in Letter :
     /\ A.delta[q][a] # None
     /\ \A b \in Letter : <<b, a>> \in Adjacent => A.delta[q][b] # A.delta[q][a]}

-----------------------------------------------------------------------------
(* The formula                                                             *)

DFA == [na |-> n, delta |-> d, acc |-> f]

(* x: the DFA reads the antecedent; accept_uni_ante and accept_ex_ante.    *)
Antecedes == Accepts(DFA, u)

(* y relates the pairs of states that a common word reaches: it holds of   *)
(* the initial states and is closed under the transitions of A.            *)
(* Faulty: the initial pair is forgotten.                                  *)
YConstraintNoInit(Y) ==
  \A p \in States(n), pA \in States(A.na) : \A a \in FirstLetters(pA) :
    <<p, pA>> \in Y => <<d[p][a], A.delta[pA][a]>> \in Y

YConstraint(Y) ==
  /\ <<0, 0>> \in Y
  /\ \A p \in States(n), pA \in States(A.na) : \A a \in FirstLetters(pA) :
       <<p, pA>> \in Y => <<d[p][a], A.delta[pA][a]>> \in Y

(* Faulty: every state of A counts as accepting.                           *)
UniFormulaAllStates ==
  Antecedes => \E Y \in SUBSET (States(n) \X States(A.na)) :
                 /\ YConstraint(Y)
                 /\ \A q \in States(n), qA \in States(A.na) : <<q, qA>> \in Y => q \in f

UniFormula ==
  Antecedes => \E Y \in SUBSET (States(n) \X States(A.na)) :
                 /\ YConstraint(Y)
                 /\ \A q \in States(n), qA \in A.acc : <<q, qA>> \in Y => q \in f

(* z relates the pairs reached by a common word of each length: the        *)
(* transition constraints and their converse leave it no other value.      *)
ZRow(l) ==
  LET row[k \in Nat] ==
        IF k = 0 THEN {<<0, 0>>}
        ELSE UNION {{<<d[s[1]][a], A.delta[s[2]][a]>> : a \in FirstLetters(s[2])} :
                      s \in row[k - 1]}
  IN  row[l]

(* Faulty: one length less.                                                *)
LMaxShort == n * A.na - 2

LMax == n * A.na - 1

ExFormula ==
  Antecedes => \E l \in 0..LMax - 1 : \E s \in ZRow(l) : s[1] \in f /\ s[2] \in A.acc

-----------------------------------------------------------------------------
(* Any DFA of n states as candidate model, any counterexample.             *)
Init ==
  /\ n \in 1..MaxN
  /\ d \in [States(n) -> [Letter -> States(n)]]
  /\ f \in SUBSET States(n)
  /\ kind \in {"ex", "uni"}
  /\ u \in Antecedent
  /\ \E k \in 1..MaxNA : A \in Automata(k)
  /\ Trim(A)
  /\ verdict = "none"

EncodeUni ==
  /\ verdict = "none" /\ kind = "uni"
  /\ verdict' = IF UniFormula THEN "sat" ELSE "unsat"
  /\ UNCHANGED problem

EncodeEx ==
  /\ verdict = "none" /\ kind = "ex" /\ LMax > 0
  /\ verdict' = IF ExFormula THEN "sat" ELSE "unsat"
  /\ UNCHANGED problem

(* z[e][0][0] is an empty array: its element 0 does not exist.             *)
EncodeExFails ==
  /\ verdict = "none" /\ kind = "ex" /\ LMax = 0
  /\ verdict' = "exception"
  /\ UNCHANGED problem

Next == EncodeUni \/ EncodeEx \/ EncodeExFails

Spec == Init /\ [][Next]_vars

-----------------------------------------------------------------------------
(***************************************************************************)
(* Properties.  A common word of the DFA and A, if there is one, and a     *)
(* word of A that the DFA rejects, have one of length below n * na.        *)
(***************************************************************************)
Consequent == {v \in WordsUpTo(n * A.na) : Accepts(A, v)}

Coherent ==
  Accepts(DFA, u) =>
    IF kind = "uni" THEN \A v \in Consequent : Accepts(DFA, v)
    ELSE \E v \in Consequent : Accepts(DFA, v)

(* A model of the formula is a DFA coherent with the counterexample: what  *)
(* constructSAT says it constructs.                                        *)
SatIsCoherent == verdict = "sat" => Coherent

(* A DFA coherent with a universal counterexample is a model.              *)
UniComplete == kind = "uni" /\ verdict = "unsat" => ~ Coherent

(* A DFA coherent with an existential counterexample is a model, unless    *)
(* the words that witness it are all of the greatest length, n * na - 1.   *)
ExCompleteBelowBound ==
  kind = "ex" /\ verdict = "unsat" =>
    \A v \in Consequent : Accepts(DFA, v) => Len(v) >= n * A.na - 1

=============================================================================
