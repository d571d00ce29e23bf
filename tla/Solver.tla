------------------------------- MODULE Solver -------------------------------
(***************************************************************************)
(* Main.solve: the learner conjectures a DFA consistent with its sample,   *)
(* the teacher checks it and either accepts it or adds a counterexample to *)
(* the sample, which is all that the two share.                            *)
(*                                                                         *)
(* A DFA is represented by the language it accepts; Lang[n] holds the      *)
(* languages of the DFAs with at most n states.  The SAT solver may return *)
(* any model: the conjecture is any consistent language of Lang[n].        *)
(***************************************************************************)
EXTENDS SafetyProblem, Integers

CONSTANTS
  Lang,       \* Lang[n]: the languages of the DFAs with at most n states
  Rank,       \* the order in which getShortestExample meets the words
  MaxStates,  \* bound on n: the exploration stops there
  NoAnswer,   \* what Main.solve has returned before it returns
  Endless     \* the sets some automaton of which imageRec, run on the inverse
              \* of tE, follows around a cycle and so never returns

ASSUME LearnerAssumption ==
  /\ MaxStates \in Nat \ {0}
  /\ Lang \in [1..MaxStates -> SUBSET SUBSET Word]
  /\ \A n \in 1..MaxStates - 1 : Lang[n] \subseteq Lang[n+1]
  /\ Rank \in [Word -> Nat]
  /\ \A L \in SUBSET Word : NoAnswer # L
  /\ Endless \subseteq SUBSET Word

VARIABLES
  n,       \* Learner.n: the number of states of the DFA looked for
  sample,  \* Learner.s: the counterexamples
  w,       \* the conjecture, local variable of Main.solve
  pc       \* whose turn it is, "done" once Main.solve has returned, or
           \* "overflow" once a StackOverflowError has ended it

vars == <<n, sample, w, pc>>

-----------------------------------------------------------------------------
(* The sample                                                              *)

Implication == [u : Word, a : SUBSET Word]

Sample == [pos : SUBSET Word, neg : SUBSET Word,
           ex : SUBSET Implication, uni : SUBSET Implication, size : Nat]

EmptySample == [pos |-> {}, neg |-> {}, ex |-> {}, uni |-> {}, size |-> 0]

(* Sample.addPos, addNeg, addEx and addUni leave the sample alone when it  *)
(* already contains the counterexample.                                    *)
AddPos(s, u) ==
  IF u \in s.pos THEN s ELSE [s EXCEPT !.pos = @ \cup {u}, !.size = @ + 1]

AddNeg(s, u) ==
  IF u \in s.neg THEN s ELSE [s EXCEPT !.neg = @ \cup {u}, !.size = @ + 1]

AddEx(s, c) ==
  IF c \in s.ex THEN s ELSE [s EXCEPT !.ex = @ \cup {c}, !.size = @ + 1]

(* Faulty: the new implication replaces the others.                        *)
AddUniReplaces(s, c) ==
  IF c \in s.uni THEN s ELSE [s EXCEPT !.uni = {c}, !.size = @ + 1]

AddUni(s, c) ==
  IF c \in s.uni THEN s ELSE [s EXCEPT !.uni = @ \cup {c}, !.size = @ + 1]

-----------------------------------------------------------------------------
(* The learner                                                             *)

(* Faulty: no constraint for the universal implications,                   *)
ConsistentWithoutUni(L, s) ==
  /\ s.pos \subseteq L
  /\ (s.neg \ s.pos) \cap L = {}
  /\ \A c \in s.ex : c.u \in L => c.a \cap L # {}

(* or none for the negative words.                                         *)
ConsistentWithoutNeg(L, s) ==
  /\ s.pos \subseteq L
  /\ \A c \in s.ex : c.u \in L => c.a \cap L # {}
  /\ \A c \in s.uni : c.u \in L => c.a \subseteq L

(***************************************************************************)
(* What the SAT problem asks of the language L of a model.  The prefix     *)
(* tree gets the positive words first and a label, once set, stays: a word *)
(* that is both positive and negative is positive for the learner.  The    *)
(* bound l_max on the length of witnesses and the exception for an empty   *)
(* array z are left out: see NoDeadEnd and module ConstructSAT.            *)
(***************************************************************************)
Consistent(L, s) ==
  /\ s.pos \subseteq L
  /\ (s.neg \ s.pos) \cap L = {}
  /\ \A c \in s.ex : c.u \in L => c.a \cap L # {}
  /\ \A c \in s.uni : c.u \in L => c.a \subseteq L

Models(k, s) == {L \in Lang[k] : Consistent(L, s)}

(* An unsatisfiable round of the loop of Learner.conjecture.               *)
Unsatisfiable ==
  /\ pc = "learner"
  /\ Models(n, sample) = {}
  /\ n < MaxStates
  /\ n' = n + 1
  /\ UNCHANGED <<sample, w, pc>>

(* Faulty: n is increased by the satisfiable round too.                    *)
ConjectureAndGrow ==
  /\ pc = "learner"
  /\ \E L \in Models(n, sample) : w' = L
  /\ pc' = "teacher"
  /\ n' = IF n < MaxStates THEN n + 1 ELSE n
  /\ UNCHANGED sample

(* The satisfiable round that ends it: the model becomes the conjecture.   *)
Conjecture ==
  /\ pc = "learner"
  /\ \E L \in Models(n, sample) : w' = L
  /\ pc' = "teacher"
  /\ UNCHANGED <<n, sample>>

-----------------------------------------------------------------------------
(* The teacher: four checks, in this order.                                *)

MissingInitial == I \ w

(* Faulty: aV0 is subtracted in place of aF.                               *)
UnsafeByTurn == w \ V0

Unsafe == w \ F

Stuck == w \cap (V0 \ Pre(w))

Leaving == V1 \cap w \cap Pre(Vertex \ w)

(* BasicOperations.getShortestExample                                      *)
IsShortest(u, L) == u \in L /\ \A v \in L : Rank[u] <= Rank[v]

Reject(s) ==
  /\ sample' = s
  /\ pc' = "learner"
  /\ UNCHANGED <<n, w>>

RejectPos ==
  /\ pc = "teacher"
  /\ \E u \in Word : IsShortest(u, MissingInitial) /\ Reject(AddPos(sample, u))

RejectNeg ==
  /\ pc = "teacher"
  /\ MissingInitial = {}
  /\ \E u \in Word : IsShortest(u, Unsafe) /\ Reject(AddNeg(sample, u))

(* Faulty: the implication is added to the wrong list.                     *)
RejectExAsUni ==
  /\ pc = "teacher"
  /\ MissingInitial = {} /\ Unsafe = {}
  /\ \E u \in Word :
       /\ IsShortest(u, Stuck)
       /\ Reject(AddUni(sample, [u |-> u, a |-> Post({u})]))

RejectEx ==
  /\ pc = "teacher"
  /\ MissingInitial = {} /\ Unsafe = {}
  /\ \E u \in Word :
       /\ IsShortest(u, Stuck)
       /\ Reject(AddEx(sample, [u |-> u, a |-> Post({u})]))

RejectUni ==
  /\ pc = "teacher"
  /\ MissingInitial = {} /\ Unsafe = {} /\ Stuck = {}
  /\ \E u \in Word :
       /\ IsShortest(u, Leaving)
       /\ Reject(AddUni(sample, [u |-> u, a |-> Post({u})]))

(* Faulty: the last check is skipped.                                      *)
AcceptEarly ==
  /\ pc = "teacher"
  /\ MissingInitial = {} /\ Unsafe = {} /\ Stuck = {}
  /\ pc' = "done"
  /\ UNCHANGED <<n, sample, w>>

(* The conjecture passes the four checks: Main.solve returns it.           *)
Accept ==
  /\ pc = "teacher"
  /\ MissingInitial = {} /\ Unsafe = {} /\ Stuck = {} /\ Leaving = {}
  /\ pc' = "done"
  /\ UNCHANGED <<n, sample, w>>

(***************************************************************************)
(* The stack overflows in the third check, on the conjecture, or in the    *)
(* fourth, on the vertices outside it; nothing catches the error.  A set   *)
(* has automata with and without a cycle, so the other exits remain.       *)
(***************************************************************************)
Overflow ==
  /\ pc = "teacher"
  /\ MissingInitial = {} /\ Unsafe = {}
  /\ w \in Endless \/ (Stuck = {} /\ Vertex \ w \in Endless)
  /\ pc' = "overflow"
  /\ UNCHANGED <<n, sample, w>>

Ended == pc \in {"done", "overflow"} /\ UNCHANGED vars

-----------------------------------------------------------------------------
(* Main.solve: one thread, so it always takes its next step.               *)

(* Faulty: a DFA without a state.                                          *)
InitFromZero ==
  /\ n = 0
  /\ sample = EmptySample
  /\ w = {}
  /\ pc = "learner"

Init ==
  /\ n = 1
  /\ sample = EmptySample
  /\ w = {}
  /\ pc = "learner"

Rejection == RejectPos \/ RejectNeg \/ RejectEx \/ RejectUni

Next == Unsatisfiable \/ Conjecture \/ Rejection \/ Accept \/ Overflow \/ Ended

Spec == Init /\ [][Next]_vars

FairSpec == Spec /\ WF_vars(Next)

-----------------------------------------------------------------------------
(* Properties                                                              *)

(***************************************************************************)
(* A language coherent with a sample, whatever the learner makes of it:    *)
(* each counterexample is respected.                                       *)
(***************************************************************************)
CoherentWith(L, s) ==
  /\ s.pos \subseteq L
  /\ s.neg \cap L = {}
  /\ \A c \in s.ex : c.u \in L => c.a \cap L # {}
  /\ \A c \in s.uni : c.u \in L => c.a \subseteq L

(* The fields of Learner, of its Sample and of Main.solve.                 *)
TypeOK ==
  /\ n \in 1..MaxStates
  /\ sample \in Sample
  /\ w \in SUBSET Word
  /\ pc \in {"learner", "teacher", "done", "overflow"}

(* Every counterexample is true of every winning set, so the learner never *)
(* loses the solution it looks for (Teacher.checkIfWinningSet).            *)
SampleSound ==
  \A W \in SUBSET Word : IsWinningSet(W) => CoherentWith(W, sample)

(* In a game that has a winning set no word is asked to be both accepted   *)
(* and rejected: what PrefixTree.addWord takes for granted.                *)
NoContradiction == Solvable => sample.pos \cap sample.neg = {}

(* What Learner.conjecture submits agrees with every counterexample, those *)
(* whose label the prefix tree may have ignored included.                  *)
ConjectureCoherent ==
  pc = "teacher" /\ Solvable => CoherentWith(w, sample)

(* Learner.conjecture resumes at the n of its previous call; all the same  *)
(* no DFA with fewer states is coherent with the sample, however many      *)
(* counterexamples came since: the conjectured DFA is minimal.             *)
ConjectureMinimal ==
  \A k \in 1..n - 1 : \A L \in Lang[k] : ~ CoherentWith(L, sample)

(* The learner never looks for more states than the smallest winning set   *)
(* needs (the loop of Learner.conjecture).                                 *)
StatesBounded ==
  \A k \in 1..MaxStates : (\E W \in Lang[k] : IsWinningSet(W)) => n <= k

(* A rejected conjecture never comes back, whatever counterexamples follow *)
(* it (the loop of Main.solve): the one added rules it out, and a language *)
(* once ruled out stays so.                                                *)
RejectedForGood ==
  [][pc = "teacher" /\ pc' = "learner"
       => /\ ~ CoherentWith(w, sample')
          /\ \A L \in SUBSET Word :
               CoherentWith(L, sample') => CoherentWith(L, sample)]_vars

(* No counterexample is a duplicate: the branches of Sample that report    *)
(* one are dead code in a game that has a winning set.                     *)
NoDuplicate ==
  [][Solvable /\ pc = "teacher" /\ pc' = "learner"
       => sample'.size = sample.size + 1]_vars

(* Main.solve returns winning sets only, and one answer only.              *)
Abstract == INSTANCE WinningSetSpec
              WITH answer <- IF pc = "done" THEN w ELSE NoAnswer

ReturnsWinningSet == Abstract!Spec

(***************************************************************************)
(* Player 0 always has a move.  A DFA of one state accepts every word or   *)
(* none, so it is not Stuck and the first existential implication comes at *)
(* n of 2 or more.  There no word of a finite set of successors is as long *)
(* as l_max (Learner.java:329), and l_max is not 0 (348): constructSAT     *)
(* loses no model and does not fail, that is, Consistent is exact.         *)
(***************************************************************************)
NoDeadEnd == \A u \in V0 : Post({u}) # {}

(* The learner and the teacher do not exchange conjectures for ever when a *)
(* DFA of the hypothesis space wins: the loop of Main.solve ends, with the *)
(* answer or with an overflow of the stack.                                *)
ExchangeEnds ==
  NoDeadEnd /\ (\E W \in Lang[MaxStates] : IsWinningSet(W))
    => <>(pc \in {"done", "overflow"})

=============================================================================
