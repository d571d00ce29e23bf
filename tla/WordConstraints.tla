--------------------------- MODULE WordConstraints ---------------------------
(***************************************************************************)
(* The rest of the formula of Learner.constructSAT: the variables d, f and *)
(* x, which describe the DFA and its runs on the words of the prefix tree, *)
(* and translateModel, which reads the DFA off a model.                    *)
(*                                                                         *)
(* The clauses on x are added one node of the tree after the other and     *)
(* speak of that node and its children: a model is built along the same    *)
(* loop, a row of x being any that the clauses so far allow.  A choice     *)
(* that a clause forbids is given up: it is no model.                      *)
(***************************************************************************)
EXTENDS PrefixTree

CONSTANT MaxN   \* bound on n, the number of states of the DFA

ASSUME BoundAssumption == MaxN \in Nat

VARIABLES
  n, d, f,      \* the candidate: d[p][a] is the set of q with d_p,a,q true
  x,            \* x[id] is the set of q with x_id,q true
  prefixes,     \* the nodes whose clauses are still to be added
  conjectured   \* what translateModel returns

model == <<n, d, f, x, prefixes, conjectured>>

States(k) == 0..k - 1

-----------------------------------------------------------------------------
(* d is a total function: one q is true, and no two of them.               *)
Total(k) == {e \in [States(k) -> [Letters -> SUBSET States(k)]] :
               \A p \in States(k), c \in Letters :
                 e[p][c] # {} /\ \A q, r \in e[p][c] : q = r}

(* Any assignment of d and f; the initial node is read to state 0 only.    *)
Choose ==
  /\ phase = "lookup" /\ todo = {}
  /\ n' \in 1..MaxN
  /\ d' \in Total(n')
  /\ f' \in SUBSET States(n')
  /\ x' = [i \in {tree[<<>>].id} |-> {0}]
  /\ prefixes' = << <<>> >>
  /\ phase' = "solve"
  /\ UNCHANGED <<sample, todo, tree, rows, found, conjectured>>

Children(v) == {u \in DOMAIN tree : Len(u) = Len(v) + 1 /\ SubSeq(u, 1, Len(v)) = v}

(* The clauses of one node that have no variable of its children.          *)
Satisfied(v) ==
  LET row == x[tree[v].id]
  IN  /\ \A q1, q2 \in row : q1 = q2
      /\ tree[v].accept > 0 => row \subseteq f
      /\ tree[v].accept < 0 => row \cap f = {}

(* Those that have: the states the child's letter leads to are in its row. *)
Transitions(v, y) ==
  \A u \in Children(v) :
    \A p \in x[tree[v].id] : d[p][Last(u)] \subseteq y[tree[u].id]

Constrain ==
  /\ phase = "solve" /\ prefixes # <<>>
  /\ LET v == Head(prefixes)
         ids == {tree[u].id : u \in Children(v)}
     IN  /\ Satisfied(v)
         /\ \E y \in [ids -> SUBSET States(n)] :
              /\ Transitions(v, y)
              /\ x' = [i \in DOMAIN x \cup ids |-> IF i \in DOMAIN x THEN x[i] ELSE y[i]]
         /\ prefixes' = Tail(prefixes) \o SetToSeq(Children(v))
  /\ UNCHANGED <<sample, todo, phase, tree, rows, found, n, d, f, conjectured>>

GiveUp ==
  /\ phase = "solve" /\ prefixes # <<>>
  /\ ~ Satisfied(Head(prefixes))
  /\ phase' = "no model"
  /\ UNCHANGED <<sample, todo, tree, rows, found, model>>

(* translateModel: a transition for each d that is true.                   *)
Moves == {t \in States(n) \X Letters \X States(n) : t[3] \in d[t[1]][t[2]]}

TranslateModel ==
  /\ phase = "solve" /\ prefixes = <<>>
  /\ conjectured' = [acc |-> f, trans |-> Moves]
  /\ phase' = "model"
  /\ UNCHANGED <<sample, todo, tree, rows, found, n, d, f, x, prefixes>>

Ended == phase \in {"model", "no model"} /\ UNCHANGED <<vars, model>>

-----------------------------------------------------------------------------
FormulaInit ==
  /\ Init
  /\ n = 0 /\ d = <<>> /\ f = {} /\ x = <<>> /\ prefixes = <<>>
  /\ conjectured = [acc |-> {}, trans |-> {}]

Build == (Add \/ EndLoop \/ Declare \/ GetNode) /\ UNCHANGED model

FormulaNext == Build \/ Choose \/ Constrain \/ GiveUp \/ TranslateModel \/ Ended

FormulaSpec == FormulaInit /\ [][FormulaNext]_<<vars, model>>

-----------------------------------------------------------------------------
(* Properties                                                              *)

(* The states automaton a is in after the letters of u.                    *)
Reached(a, u) ==
  LET s[i \in 0..Len(u)] ==
        IF i = 0 THEN {0} ELSE {t[3] : t \in {e \in a.trans : e[1] \in s[i - 1] /\ e[2] = u[i]}}
  IN  s[Len(u)]

Accepts(a, u) == Reached(a, u) \cap a.acc # {}

RunsOfDFA ==
  \A v \in DOMAIN tree :
    tree[v].id \in DOMAIN x =>
      x[tree[v].id] = Reached([acc |-> f, trans |-> Moves], v)

(* The DFA of a model accepts the positive words and rejects the negative  *)
(* ones, and a DFA that does is given up for no row of x that describes    *)
(* its runs: the formula holds of the DFAs that agree with the words of    *)
(* the sample, and of no others (Learner.constructSAT, translateModel).    *)
WordsExact ==
  LET agrees(a) == /\ \A u \in pos : Accepts(a, u)
                   /\ \A u \in neg \ pos : ~ Accepts(a, u)
  IN  /\ phase = "model" => agrees(conjectured)
      /\ phase = "no model" /\ RunsOfDFA =>
           ~ agrees([acc |-> f, trans |-> Moves])

=============================================================================
