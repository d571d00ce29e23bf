--------------------------- MODULE Solver_proofs ---------------------------
(***************************************************************************)
(* Theorems about Solver, for every game, every family of hypothesis       *)
(* spaces and every order in which counterexamples are looked for.         *)
(***************************************************************************)
EXTENDS Solver, TLAPS

-----------------------------------------------------------------------------
(* The sample                                                              *)

(* Sample.addPos, addNeg, addEx and addUni keep a sample a sample.         *)
LEMMA AddType ==
  ASSUME NEW s \in Sample, NEW u \in Word, NEW c \in Implication
  PROVE  /\ AddPos(s, u) \in Sample
         /\ AddNeg(s, u) \in Sample
         /\ AddEx(s, c) \in Sample
         /\ AddUni(s, c) \in Sample
<1>1. /\ s.pos \cup {u} \in SUBSET Word
      /\ s.neg \cup {u} \in SUBSET Word
      /\ s.ex \cup {c} \in SUBSET Implication
      /\ s.uni \cup {c} \in SUBSET Implication
      /\ s.size + 1 \in Nat
  BY DEF Sample
<1>2. AddPos(s, u) \in Sample
  BY <1>1 DEF Sample, AddPos
<1>3. AddNeg(s, u) \in Sample
  BY <1>1 DEF Sample, AddNeg
<1>4. AddEx(s, c) \in Sample
  BY <1>1 DEF Sample, AddEx
<1>5. AddUni(s, c) \in Sample
  BY <1>1 DEF Sample, AddUni
<1> QED BY <1>2, <1>3, <1>4, <1>5

(* ... add the counterexample and nothing else to what they constrain.     *)
LEMMA AddCoherent ==
  ASSUME NEW s \in Sample, NEW u \in Word, NEW c \in Implication,
         NEW L \in SUBSET Word
  PROVE  /\ CoherentWith(L, AddPos(s, u)) <=> CoherentWith(L, s) /\ u \in L
         /\ CoherentWith(L, AddNeg(s, u)) <=> CoherentWith(L, s) /\ u \notin L
         /\ CoherentWith(L, AddEx(s, c))
              <=> CoherentWith(L, s) /\ (c.u \in L => c.a \cap L # {})
         /\ CoherentWith(L, AddUni(s, c))
              <=> CoherentWith(L, s) /\ (c.u \in L => c.a \subseteq L)
<1>1. CoherentWith(L, AddPos(s, u)) <=> CoherentWith(L, s) /\ u \in L
  BY DEF Sample, AddPos, CoherentWith
<1>2. CoherentWith(L, AddNeg(s, u)) <=> CoherentWith(L, s) /\ u \notin L
  BY DEF Sample, AddNeg, CoherentWith
<1>3. CoherentWith(L, AddEx(s, c))
        <=> CoherentWith(L, s) /\ (c.u \in L => c.a \cap L # {})
  BY DEF Sample, AddEx, CoherentWith
<1>4. CoherentWith(L, AddUni(s, c))
        <=> CoherentWith(L, s) /\ (c.u \in L => c.a \subseteq L)
  BY DEF Sample, AddUni, CoherentWith
<1> QED BY <1>1, <1>2, <1>3, <1>4

(* The learner asks no more than coherence, and no less as long as no word *)
(* has two labels.                                                         *)
LEMMA CoherentIsConsistent ==
  ASSUME NEW L, NEW s
  PROVE  /\ CoherentWith(L, s) => Consistent(L, s)
         /\ Consistent(L, s) /\ s.pos \cap s.neg = {} => CoherentWith(L, s)
BY DEF CoherentWith, Consistent

(* A counterexample that is not a duplicate is counted.                    *)
LEMMA AddSize ==
  ASSUME NEW s \in Sample, NEW u \in Word, NEW c \in Implication
  PROVE  /\ AddPos(s, u) # s => AddPos(s, u).size = s.size + 1
         /\ AddNeg(s, u) # s => AddNeg(s, u).size = s.size + 1
         /\ AddEx(s, c) # s => AddEx(s, c).size = s.size + 1
         /\ AddUni(s, c) # s => AddUni(s, c).size = s.size + 1
BY DEF Sample, AddPos, AddNeg, AddEx, AddUni

-----------------------------------------------------------------------------
(* The teacher                                                             *)

(* What each check of the teacher finds holds in every winning set and     *)
(* fails in the conjecture.                                                *)
LEMMA Counterexample ==
  ASSUME TypeOK, NEW u \in Word
  PROVE  /\ u \in MissingInitial =>
              u \notin w /\ \A W : IsWinningSet(W) => u \in W
         /\ u \in Unsafe =>
              u \in w /\ \A W : IsWinningSet(W) => u \notin W
         /\ u \in Stuck =>
              /\ u \in w /\ Post({u}) \cap w = {}
              /\ \A W : IsWinningSet(W) => (u \in W => Post({u}) \cap W # {})
         /\ u \in Leaving =>
              /\ u \in w /\ ~ (Post({u}) \subseteq w)
              /\ \A W : IsWinningSet(W) => (u \in W => Post({u}) \subseteq W)
<1>1. ASSUME u \in MissingInitial
      PROVE  u \notin w /\ \A W : IsWinningSet(W) => u \in W
  BY <1>1 DEF MissingInitial, IsWinningSet
<1>2. ASSUME u \in Unsafe
      PROVE  u \in w /\ \A W : IsWinningSet(W) => u \notin W
  BY <1>2 DEF Unsafe, IsWinningSet
<1>3. ASSUME u \in Stuck
      PROVE  /\ u \in w /\ Post({u}) \cap w = {}
             /\ \A W : IsWinningSet(W) => (u \in W => Post({u}) \cap W # {})
  <2>1. u \in w /\ u \in V0 /\ u \notin Pre(w)
    BY <1>3 DEF Stuck
  <2>2. Post({u}) \cap w = {}
    BY <2>1 DEF Pre, Post
  <2>3. \A W : IsWinningSet(W) => (u \in W => Post({u}) \cap W # {})
    BY <2>1 DEF IsWinningSet
  <2> QED BY <2>1, <2>2, <2>3
<1>4. ASSUME u \in Leaving
      PROVE  /\ u \in w /\ ~ (Post({u}) \subseteq w)
             /\ \A W : IsWinningSet(W) => (u \in W => Post({u}) \subseteq W)
  <2>1. u \in w /\ u \in V1 /\ u \in Pre(Vertex \ w)
    BY <1>4 DEF Leaving
  <2>2. PICK v \in Vertex \ w : <<u, v>> \in Edges
    BY <2>1 DEF Pre
  <2>3. v \in Post({u})
    BY <2>2, ArenaAssumption DEF Post, Vertex
  <2>4. ~ (Post({u}) \subseteq w)
    BY <2>2, <2>3
  <2>5. \A W : IsWinningSet(W) => (u \in W => Post({u}) \subseteq W)
    BY <2>1 DEF IsWinningSet
  <2> QED BY <2>1, <2>4, <2>5
<1> QED BY <1>1, <1>2, <1>3, <1>4

(* A conjecture that passes the four checks is a winning set.              *)
LEMMA PassingWins ==
  ASSUME TypeOK, MissingInitial = {}, Unsafe = {}, Stuck = {}, Leaving = {}
  PROVE  IsWinningSet(w)
<1>1. w \subseteq Word /\ I \subseteq w /\ w \subseteq F
  BY DEF TypeOK, MissingInitial, Unsafe
<1>2. ASSUME NEW u \in w \cap V0
      PROVE  Post({u}) \cap w # {}
  <2>1. u \in Pre(w)
    BY <1>2 DEF Stuck
  <2>2. PICK v \in w : <<u, v>> \in Edges
    BY <2>1 DEF Pre
  <2> QED BY <1>1, <2>2 DEF Post
<1>3. ASSUME NEW u \in w \cap V1, NEW v \in Post({u})
      PROVE  v \in w
  <2>1. <<u, v>> \in Edges
    BY <1>3 DEF Post
  <2>2. u \in Word /\ v \in Vertex
    BY <1>1, <2>1, ArenaAssumption
  <2>3. u \notin Pre(Vertex \ w)
    BY <1>3 DEF Leaving
  <2> QED BY <2>1, <2>2, <2>3 DEF Pre
<1> QED BY <1>1, <1>2, <1>3 DEF IsWinningSet

(***************************************************************************)
(* A rejection changes nothing but the sample, which now rules out the     *)
(* conjecture, and what it ruled out before, but no winning set.           *)
(***************************************************************************)
LEMMA RejectionStep ==
  ASSUME TypeOK, Rejection
  PROVE  /\ pc = "teacher" /\ pc' = "learner" /\ n' = n /\ w' = w
         /\ sample' \in Sample
         /\ \A L \in SUBSET Word :
              CoherentWith(L, sample') => CoherentWith(L, sample)
         /\ ~ CoherentWith(w, sample')
         /\ \A W \in SUBSET Word :
              IsWinningSet(W) /\ CoherentWith(W, sample) => CoherentWith(W, sample')
         /\ sample' # sample => sample'.size = sample.size + 1
<1>0. sample \in Sample /\ w \in SUBSET Word
  BY DEF TypeOK
<1>1. CASE RejectPos
  <2>1. PICK u \in Word : u \in MissingInitial /\ Reject(AddPos(sample, u))
    BY <1>1 DEF RejectPos, IsShortest
  <2>2. sample' = AddPos(sample, u) /\ pc' = "learner" /\ n' = n /\ w' = w
    BY <2>1 DEF Reject
  <2>3. pc = "teacher"
    BY <1>1 DEF RejectPos
  <2>4. u \notin w /\ \A W : IsWinningSet(W) => u \in W
    BY <2>1, Counterexample
  <2>5. PICK c : c \in Implication
    <3>1. [u |-> u, a |-> {}] \in Implication
      BY DEF Implication
    <3> QED BY <3>1
  <2> QED BY <1>0, <2>2, <2>3, <2>4, <2>5, AddType, AddCoherent, AddSize
<1>2. CASE RejectNeg
  <2>1. PICK u \in Word : u \in Unsafe /\ Reject(AddNeg(sample, u))
    BY <1>2 DEF RejectNeg, IsShortest
  <2>2. sample' = AddNeg(sample, u) /\ pc' = "learner" /\ n' = n /\ w' = w
    BY <2>1 DEF Reject
  <2>3. pc = "teacher"
    BY <1>2 DEF RejectNeg
  <2>4. u \in w /\ \A W : IsWinningSet(W) => u \notin W
    BY <2>1, Counterexample
  <2>5. PICK c : c \in Implication
    <3>1. [u |-> u, a |-> {}] \in Implication
      BY DEF Implication
    <3> QED BY <3>1
  <2> QED BY <1>0, <2>2, <2>3, <2>4, <2>5, AddType, AddCoherent, AddSize
<1>3. CASE RejectEx
  <2>1. PICK u \in Word :
          u \in Stuck /\ Reject(AddEx(sample, [u |-> u, a |-> Post({u})]))
    BY <1>3 DEF RejectEx, IsShortest
  <2> DEFINE c == [u |-> u, a |-> Post({u})]
  <2>2. sample' = AddEx(sample, c) /\ pc' = "learner" /\ n' = n /\ w' = w
    BY <2>1 DEF Reject
  <2>3. pc = "teacher"
    BY <1>3 DEF RejectEx
  <2>4. /\ u \in w /\ Post({u}) \cap w = {}
        /\ \A W : IsWinningSet(W) => (u \in W => Post({u}) \cap W # {})
    BY <2>1, Counterexample
  <2>5. c \in Implication /\ c.u = u /\ c.a = Post({u})
    BY DEF Implication, Post
  <2> HIDE DEF c
  <2> QED BY <1>0, <2>2, <2>3, <2>4, <2>5, AddType, AddCoherent, AddSize
<1>4. CASE RejectUni
  <2>1. PICK u \in Word :
          u \in Leaving /\ Reject(AddUni(sample, [u |-> u, a |-> Post({u})]))
    BY <1>4 DEF RejectUni, IsShortest
  <2> DEFINE c == [u |-> u, a |-> Post({u})]
  <2>2. sample' = AddUni(sample, c) /\ pc' = "learner" /\ n' = n /\ w' = w
    BY <2>1 DEF Reject
  <2>3. pc = "teacher"
    BY <1>4 DEF RejectUni
  <2>4. /\ u \in w /\ ~ (Post({u}) \subseteq w)
        /\ \A W : IsWinningSet(W) => (u \in W => Post({u}) \subseteq W)
    BY <2>1, Counterexample
  <2>5. c \in Implication /\ c.u = u /\ c.a = Post({u})
    BY DEF Implication, Post
  <2> HIDE DEF c
  <2>6. \A L \in SUBSET Word : CoherentWith(L, sample')
          <=> CoherentWith(L, sample) /\ (u \in L => Post({u}) \subseteq L)
    BY <1>0, <2>2, <2>5, AddCoherent
  <2>7. ~ CoherentWith(w, sample')
    BY <1>0, <2>4, <2>6
  <2>8. /\ sample' \in Sample
        /\ sample' # sample => sample'.size = sample.size + 1
    BY <1>0, <2>2, <2>5, AddType, AddSize
  <2> QED BY <2>2, <2>3, <2>4, <2>6, <2>7, <2>8
<1> QED BY <1>1, <1>2, <1>3, <1>4 DEF Rejection

-----------------------------------------------------------------------------
(* The invariant                                                           *)

(***************************************************************************)
(* TypeOK, SampleSound and ConjectureMinimal are inductive together with   *)
(* what the program counter says of the conjecture: submitted, it is       *)
(* consistent; returned, it is a winning set.                              *)
(***************************************************************************)
Submitted == pc = "teacher" => Consistent(w, sample)

ReturnedWins == pc = "done" => IsWinningSet(w)

IInv == TypeOK /\ SampleSound /\ ConjectureMinimal /\ Submitted /\ ReturnedWins

LEMMA InitIInv == Init => IInv
<1> SUFFICES ASSUME Init PROVE IInv
  OBVIOUS
<1>1. TypeOK
  BY LearnerAssumption DEF Init, TypeOK, Sample, EmptySample
<1>2. SampleSound
  BY DEF Init, SampleSound, CoherentWith, EmptySample
<1>3. ConjectureMinimal
  BY DEF Init, ConjectureMinimal
<1>4. Submitted /\ ReturnedWins
  BY DEF Init, Submitted, ReturnedWins
<1> QED BY <1>1, <1>2, <1>3, <1>4 DEF IInv

LEMMA NextIInv == IInv /\ [Next]_vars => IInv'
<1> SUFFICES ASSUME IInv, [Next]_vars PROVE IInv'
  OBVIOUS
<1> USE DEF IInv
<1>1. CASE Unsatisfiable
  <2>1. /\ pc = "learner" /\ Models(n, sample) = {} /\ n < MaxStates
        /\ n' = n + 1 /\ sample' = sample /\ w' = w /\ pc' = pc
    BY <1>1 DEF Unsatisfiable
  <2>2. TypeOK'
    BY <2>1, LearnerAssumption DEF TypeOK
  <2>3. SampleSound'
    BY <2>1 DEF SampleSound
  <2>4. ConjectureMinimal'
    <3>1. ASSUME NEW k \in 1..n' - 1, NEW L \in Lang[k]
          PROVE  ~ CoherentWith(L, sample')
      <4>1. CASE k = n
        BY <2>1, <3>1, <4>1, CoherentIsConsistent DEF Models
      <4>2. CASE k # n
        <5>1. k \in 1..n - 1
          BY <2>1, <4>2 DEF TypeOK
        <5> QED BY <2>1, <3>1, <5>1 DEF ConjectureMinimal
      <4> QED BY <4>1, <4>2
    <3> QED BY <3>1 DEF ConjectureMinimal
  <2>5. Submitted' /\ ReturnedWins'
    BY <2>1 DEF Submitted, ReturnedWins
  <2> QED BY <2>2, <2>3, <2>4, <2>5
<1>2. CASE Conjecture
  <2>1. PICK L \in Lang[n] : Consistent(L, sample) /\ w' = L
    BY <1>2 DEF Conjecture, Models
  <2>2. pc' = "teacher" /\ n' = n /\ sample' = sample
    BY <1>2 DEF Conjecture
  <2>3. TypeOK'
    BY <2>1, <2>2, LearnerAssumption DEF TypeOK
  <2>4. SampleSound' /\ ConjectureMinimal'
    BY <2>2 DEF SampleSound, ConjectureMinimal
  <2>5. Submitted' /\ ReturnedWins'
    BY <2>1, <2>2 DEF Submitted, ReturnedWins
  <2> QED BY <2>3, <2>4, <2>5
<1>3. CASE Rejection
  <2>1. /\ pc' = "learner" /\ n' = n /\ w' = w /\ sample' \in Sample
        /\ \A L \in SUBSET Word :
             CoherentWith(L, sample') => CoherentWith(L, sample)
        /\ \A W \in SUBSET Word :
             IsWinningSet(W) /\ CoherentWith(W, sample) => CoherentWith(W, sample')
    BY <1>3, RejectionStep
  <2>2. TypeOK'
    BY <2>1 DEF TypeOK
  <2>3. SampleSound'
    BY <2>1 DEF SampleSound
  <2>4. ConjectureMinimal'
    <3>1. ASSUME NEW k \in 1..n - 1, NEW L \in Lang[k]
          PROVE  ~ CoherentWith(L, sample')
      <4>1. L \in SUBSET Word
        BY LearnerAssumption DEF TypeOK
      <4>2. ~ CoherentWith(L, sample)
        BY DEF ConjectureMinimal
      <4> QED BY <2>1, <4>1, <4>2
    <3> QED BY <2>1, <3>1 DEF ConjectureMinimal
  <2>5. Submitted' /\ ReturnedWins'
    BY <2>1 DEF Submitted, ReturnedWins
  <2> QED BY <2>2, <2>3, <2>4, <2>5
<1>4. CASE Accept
  <2>1. pc' = "done" /\ n' = n /\ sample' = sample /\ w' = w
    BY <1>4 DEF Accept
  <2>2. IsWinningSet(w)
    BY <1>4, PassingWins DEF Accept
  <2>3. TypeOK' /\ SampleSound' /\ ConjectureMinimal'
    BY <2>1 DEF TypeOK, SampleSound, ConjectureMinimal
  <2>4. Submitted' /\ ReturnedWins'
    BY <2>1, <2>2 DEF Submitted, ReturnedWins
  <2> QED BY <2>3, <2>4
<1>5. CASE Overflow
  <2>1. pc' = "overflow" /\ n' = n /\ sample' = sample /\ w' = w
    BY <1>5 DEF Overflow
  <2> QED BY <2>1 DEF TypeOK, SampleSound, ConjectureMinimal, Submitted, ReturnedWins
<1>6. CASE UNCHANGED vars
  BY <1>6 DEF vars, TypeOK, SampleSound, ConjectureMinimal, Submitted, ReturnedWins
<1> QED BY <1>1, <1>2, <1>3, <1>4, <1>5, <1>6 DEF Next, Ended

LEMMA Invariance == Spec => []IInv
BY InitIInv, NextIInv, PTL DEF Spec

-----------------------------------------------------------------------------
(* The theorems                                                            *)

(* Learner, Sample and Main.solve keep their fields in their types.        *)
THEOREM TypeCorrect == Spec => []TypeOK
<1>1. IInv => TypeOK
  BY DEF IInv
<1> QED BY <1>1, Invariance, PTL

(* The counterexamples of Teacher.checkIfWinningSet exclude no winning set.*)
THEOREM SolutionKept == Spec => []SampleSound
<1>1. IInv => SampleSound
  BY DEF IInv
<1> QED BY <1>1, Invariance, PTL

(* A game with a winning set never gives a word two labels (PrefixTree).   *)
THEOREM ContradictionFree == Spec => []NoContradiction
<1>1. IInv => NoContradiction
  BY DEF IInv, SampleSound, CoherentWith, NoContradiction, Solvable
<1> QED BY <1>1, Invariance, PTL

(* What Learner.conjecture submits respects the whole sample.              *)
THEOREM Coherence == Spec => []ConjectureCoherent
<1>1. IInv => ConjectureCoherent
  <2> SUFFICES ASSUME IInv, pc = "teacher", Solvable
               PROVE  CoherentWith(w, sample)
    BY DEF ConjectureCoherent
  <2>1. sample.pos \cap sample.neg = {}
    BY DEF IInv, SampleSound, CoherentWith, Solvable
  <2>2. Consistent(w, sample)
    BY DEF IInv, Submitted
  <2> QED BY <2>1, <2>2, CoherentIsConsistent
<1> QED BY <1>1, Invariance, PTL

(* Resuming at the previous n, Learner.conjecture still finds a smallest   *)
(* DFA.                                                                    *)
THEOREM Minimality == Spec => []ConjectureMinimal
<1>1. IInv => ConjectureMinimal
  BY DEF IInv
<1> QED BY <1>1, Invariance, PTL

(* The smallest winning set bounds the n of Learner.conjecture.            *)
THEOREM BoundedStates == Spec => []StatesBounded
<1>1. IInv => StatesBounded
  <2> SUFFICES ASSUME IInv, NEW k \in 1..MaxStates, NEW W \in Lang[k],
                      IsWinningSet(W), ~ (n <= k)
               PROVE  FALSE
    BY DEF StatesBounded
  <2>1. k \in 1..n - 1
    BY LearnerAssumption DEF IInv, TypeOK
  <2>2. CoherentWith(W, sample)
    BY DEF IInv, SampleSound, IsWinningSet
  <2> QED BY <2>1, <2>2 DEF IInv, ConjectureMinimal
<1> QED BY <1>1, Invariance, PTL

(* The only step from the teacher back to the learner is a rejection.      *)
LEMMA BackToLearner ==
  ASSUME IInv, [Next]_vars, pc = "teacher", pc' = "learner"
  PROVE  Rejection
BY DEF Next, vars, Unsatisfiable, Conjecture, Accept, Overflow, Ended

(* No conjecture is made twice by Main.solve.                              *)
THEOREM ForGood == Spec => RejectedForGood
<1>1. IInv /\ [Next]_vars
        => [pc = "teacher" /\ pc' = "learner"
              => /\ ~ CoherentWith(w, sample')
                 /\ \A L \in SUBSET Word :
                      CoherentWith(L, sample') => CoherentWith(L, sample)]_vars
  BY BackToLearner, RejectionStep DEF IInv
<1> QED BY <1>1, Invariance, PTL DEF Spec, RejectedForGood

(* The counterexamples given to Sample are new.                            *)
THEOREM DuplicateFree == Spec => NoDuplicate
<1>1. IInv /\ [Next]_vars
        => [Solvable /\ pc = "teacher" /\ pc' = "learner"
              => sample'.size = sample.size + 1]_vars
  <2> SUFFICES ASSUME IInv, [Next]_vars, Solvable, pc = "teacher", pc' = "learner"
               PROVE  sample'.size = sample.size + 1
    OBVIOUS
  <2>1. ~ CoherentWith(w, sample')
    BY BackToLearner, RejectionStep DEF IInv
  <2>2. sample.pos \cap sample.neg = {}
    BY DEF IInv, SampleSound, CoherentWith, Solvable
  <2>3. CoherentWith(w, sample)
    BY <2>2, CoherentIsConsistent DEF IInv, Submitted
  <2> QED BY <2>1, <2>3, BackToLearner, RejectionStep DEF IInv
<1> QED BY <1>1, Invariance, PTL DEF Spec, NoDuplicate

(* Main.solve implements its promise: it returns a winning set, once.      *)
THEOREM Correctness == Spec => ReturnsWinningSet
<1>1. \A W : IsWinningSet(W) <=> Abstract!IsWinningSet(W)
  BY DEF IsWinningSet, Abstract!IsWinningSet, Post, Abstract!Post
<1>2. Init => Abstract!Init
  BY DEF Init, Abstract!Init
<1>3. IInv /\ IInv' /\ [Next]_vars
        => [Abstract!Next]_(IF pc = "done" THEN w ELSE NoAnswer)
  <2> SUFFICES ASSUME IInv, IInv', [Next]_vars
               PROVE  [Abstract!Next]_(IF pc = "done" THEN w ELSE NoAnswer)
    OBVIOUS
  <2>1. CASE pc = "done"
    BY <2>1 DEF Next, vars, Unsatisfiable, Conjecture, Rejection, RejectPos,
                RejectNeg, RejectEx, RejectUni, Accept, Overflow, Ended
  <2>2. CASE pc # "done" /\ pc' = "done"
    <3>1. IsWinningSet(w')
      BY <2>2 DEF IInv, ReturnedWins
    <3>2. w' \in SUBSET Word
      BY <3>1 DEF IsWinningSet
    <3> QED BY <1>1, <2>2, <3>1, <3>2 DEF Abstract!Next, Abstract!Answer
  <2>3. CASE pc # "done" /\ pc' # "done"
    BY <2>3
  <2> QED BY <2>1, <2>2, <2>3
<1> QED BY <1>2, <1>3, Invariance, PTL
          DEF Spec, ReturnsWinningSet, Abstract!Spec

=============================================================================
