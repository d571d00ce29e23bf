----------------------------- MODULE PrefixTree -----------------------------
(***************************************************************************)
(* The prefix tree Learner.constructSAT builds from the sample: the words  *)
(* of each list are added in turn, the array x is declared with one row    *)
(* per node, then the node of each antecedent is looked up again.          *)
(*                                                                         *)
(* The tree is the function from the prefixes it holds to their nodes; the *)
(* order of a list is that of the counterexamples, that is, any.           *)
(***************************************************************************)
EXTENDS Integers, Sequences, SequencesExt, FiniteSets

CONSTANTS
  Words,           \* the words that occur in samples
  MaxWords,        \* bound on the number of positive and of negative words,
  MaxAntecedents   \* and of implications of each kind

Letters == UNION {ToSet(u) : u \in Words}

ASSUME WordsAssumption == Words \subseteq Seq(Letters)

VARIABLES
  pos, neg, uni, ex,   \* the lists of the sample; the antecedents of the last two
  todo,    \* the words the current loop has not added yet
  phase,   \* which loop that is
  tree,    \* PrefixTree: per prefix, the id and the label of its node
  rows,    \* the number of rows of x
  found    \* the ids getNode returned

sample == <<pos, neg, uni, ex>>

vars == <<sample, todo, phase, tree, rows, found>>

size == Cardinality(DOMAIN tree)

-----------------------------------------------------------------------------
(* Faulty: the last label wins.                                            *)
SetAcceptLast(node, accept) == [node EXCEPT !.accept = accept]

(* Node.setAccept: a label other than 0 is never changed.                  *)
SetAccept(node, accept) ==
  IF node.accept = 0 THEN [node EXCEPT !.accept = accept] ELSE node

(* PrefixTree.addWord: the missing prefixes get the next ids, shortest     *)
(* first, then the node of the word gets the label.                        *)
Missing(u) == {l \in 0..Len(u) : SubSeq(u, 1, l) \notin DOMAIN tree}

(* Faulty: every new node gets the same id.                                *)
NewIdSame(u, l) == size

NewId(u, l) == size + Cardinality({k \in Missing(u) : k < l})

AddWord(u, accept) ==
  LET nodes == [v \in DOMAIN tree \cup {SubSeq(u, 1, l) : l \in Missing(u)} |->
                  IF v \in DOMAIN tree THEN tree[v]
                  ELSE [id |-> NewId(u, Len(v)), accept |-> 0]]
  IN  tree' = [nodes EXCEPT ![u] = SetAccept(@, accept)]

-----------------------------------------------------------------------------
(* The four loops that fill the tree, in this order.                       *)
Label(p) == CASE p = "pos" -> 1 [] p = "neg" -> -1 [] OTHER -> 0

Add ==
  /\ phase \in {"pos", "neg", "uni", "ex"}
  /\ \E u \in todo : AddWord(u, Label(phase)) /\ todo' = todo \ {u}
  /\ UNCHANGED <<sample, phase, rows, found>>

(* Faulty: no loop over the existential implications.                      *)
NextLoopNoEx(p) ==
  CASE p = "pos" -> <<"neg", neg>> [] p = "neg" -> <<"uni", uni>> [] p = "uni" -> <<"ex", {}>>

NextLoop(p) ==
  CASE p = "pos" -> <<"neg", neg>> [] p = "neg" -> <<"uni", uni>> [] p = "uni" -> <<"ex", ex>>

EndLoop ==
  /\ phase \in {"pos", "neg", "uni"} /\ todo = {}
  /\ phase' = NextLoop(phase)[1]
  /\ todo' = NextLoop(phase)[2]
  /\ UNCHANGED <<sample, tree, rows, found>>

(* x = new BoolExpr[w.size][n]                                             *)
Declare ==
  /\ phase = "ex" /\ todo = {}
  /\ rows' = size
  /\ phase' = "lookup"
  /\ todo' = uni \cup ex
  /\ UNCHANGED <<sample, tree, found>>

(* getNode is addWord with the label 0: the row of x that is used.         *)
GetNode ==
  /\ phase = "lookup"
  /\ \E u \in todo :
       /\ AddWord(u, 0)
       /\ found' = found \cup {tree'[u].id}
       /\ todo' = todo \ {u}
  /\ UNCHANGED <<sample, phase, rows>>

Built == phase = "lookup" /\ todo = {} /\ UNCHANGED vars

Lists(max) == {s \in SUBSET Words : Cardinality(s) <= max}

Init ==
  /\ pos \in Lists(MaxWords) /\ neg \in Lists(MaxWords)
  /\ uni \in Lists(MaxAntecedents) /\ ex \in Lists(MaxAntecedents)
  /\ todo = pos
  /\ phase = "pos"
  /\ tree = [v \in {<<>>} |-> [id |-> 0, accept |-> 0]]
  /\ rows = 0
  /\ found = {}

Next == Add \/ EndLoop \/ Declare \/ GetNode \/ Built

Spec == Init /\ [][Next]_vars

-----------------------------------------------------------------------------
(* Properties                                                              *)

(* The ids number the nodes from 0: each is a row of x of its own, and the *)
(* tree holds the prefixes of what it holds.                               *)
TypeOK ==
  /\ \A v \in DOMAIN tree : \A l \in 0..Len(v) : SubSeq(v, 1, l) \in DOMAIN tree
  /\ {tree[v].id : v \in DOMAIN tree} = 0..size - 1
  /\ \A v \in DOMAIN tree : tree[v].accept \in {-1, 0, 1}

(* Looking an antecedent up makes no node: x, declared before, has its row *)
(* (Learner.constructSAT, x[uante] and x[eante]).                          *)
LookupInRange == phase = "lookup" => size = rows /\ \A k \in found : k < rows

=============================================================================
