-------------------------- MODULE Minimize_proofs --------------------------
(***************************************************************************)
(* minimizeHopcroft is right for every automaton it is called on: the rule *)
(* by which pairs are put in the queue is right; when the queue is empty   *)
(* the partition is stable, and the coarsest that is; the result accepts   *)
(* the words of the argument, by as few states as it can.                  *)
(***************************************************************************)
EXTENDS Minimize, Automata_proofs

(* The letters of minimizeHopcroft *)

(* The letters of getStartPoints are in the array once each.               *)
LEMMA SigmaInOrder ==
  ASSUME NEW Q, NEW m, IsAutomaton(m, Q)
  PROVE  /\ Sigma(m) \in Seq(Char) /\ NoDuplicates(Sigma(m))
         /\ ToSet(Sigma(m)) = StartPoints(m)
<1> DEFINE points == StartPoints(m)
           below(c) == {b \in points : b < c}
           n == Cardinality(points)
           rank == [c \in points |-> Cardinality(below(c))]
           at(i) == CHOOSE c \in points : Cardinality(below(c)) = i - 1
<1>1. points \subseteq Char /\ IsFiniteSet(points)
  BY StartsAreLetters
<1>2. n \in Nat
  BY <1>1, FS_CardinalityType
<1>3. \A c \in points : c \in Nat
  BY <1>1, CharAssumption DEF Char
<1>4. Sigma(m) = [i \in 1..n |-> at(i)]
  BY DEF Sigma
<1> HIDE DEF points
<1>5. ASSUME NEW c \in points
      PROVE  IsFiniteSet(below(c)) /\ rank[c] = Cardinality(below(c)) /\ rank[c] \in Nat /\ rank[c] < n
  <2>1. /\ IsFiniteSet(below(c)) /\ Cardinality(below(c)) <= n
        /\ n = Cardinality(below(c)) => points = below(c)
    <3>1. below(c) \in SUBSET points
      OBVIOUS
    <3> HIDE DEF below
    <3> QED BY <1>1, <3>1, FS_Subset
  <2>2. c \notin below(c)
    BY <1>3
  <2>3. Cardinality(below(c)) # n
    BY <2>1, <2>2
  <2>4. Cardinality(below(c)) \in Nat
    BY <2>1, FS_CardinalityType
  <2>5. rank[c] = Cardinality(below(c))
    OBVIOUS
  <2> HIDE DEF rank, below, n
  <2> QED BY <1>2, <2>1, <2>3, <2>4, <2>5
<1>6. ASSUME NEW b \in points, NEW c \in points, b < c PROVE rank[b] # rank[c]
  <2>1. below(b) \in SUBSET below(c) /\ b \in below(c) /\ b \notin below(b)
    BY <1>3, <1>6
  <2>2. IsFiniteSet(below(c)) /\ rank[b] = Cardinality(below(b)) /\ rank[c] = Cardinality(below(c))
    BY <1>5
  <2> HIDE DEF below, rank
  <2>3. Cardinality(below(c)) = Cardinality(below(b)) => below(c) = below(b)
    BY <2>1, <2>2, FS_Subset
  <2> QED BY <2>1, <2>2, <2>3
<1>7. rank \in Injection(points, 0..n - 1)
  <2>1. rank \in [points -> 0..n - 1]
    <3>1. \A c \in points : rank[c] \in 0..n - 1
      <4> TAKE c \in points
      <4>1. rank[c] \in Nat /\ rank[c] < n
        BY <1>5
      <4> HIDE DEF rank, n
      <4> QED BY <1>2, <4>1
    <3> QED BY <3>1
  <2>2. \A b, c \in points : rank[b] = rank[c] => b = c
    <3> SUFFICES ASSUME NEW b \in points, NEW c \in points, b # c PROVE rank[b] # rank[c]
      OBVIOUS
    <3>1. b < c \/ c < b
      BY <1>3
    <3> HIDE DEF rank
    <3> QED BY <1>6, <3>1
  <2> HIDE DEF rank
  <2> QED BY <2>1, <2>2 DEF Injection, IsInjective
<1>8. IsFiniteSet(0..n - 1) /\ Cardinality(0..n - 1) = n
  <2> HIDE DEF n
  <2>1. 0 \in Int /\ n - 1 \in Int
    BY <1>2
  <2>2. /\ IsFiniteSet(0..n - 1)
        /\ Cardinality(0..n - 1) = IF 0 > n - 1 THEN 0 ELSE n - 1 - 0 + 1
    BY <2>1, FS_Interval
  <2> QED BY <1>2, <2>2
<1>9. rank \in Surjection(points, 0..n - 1)
  <2>0. n = Cardinality(points)
    OBVIOUS
  <2> HIDE DEF rank, n
  <2> QED BY <1>7, <1>8, <2>0, FS_Injection
<1>10. ASSUME NEW i \in 1..n PROVE at(i) \in points /\ rank[at(i)] = i - 1
  <2>1. i - 1 \in 0..n - 1
    BY <1>2
  <2>2. \E c \in points : rank[c] = i - 1
    <3> HIDE DEF rank
    <3> QED BY <1>9, <2>1 DEF Surjection
  <2>3. \E c \in points : Cardinality(below(c)) = i - 1
    <3> HIDE DEF rank, below
    <3> QED BY <1>5, <2>2
  <2>4. at(i) \in points /\ Cardinality(below(at(i))) = i - 1
    <3> HIDE DEF below
    <3> QED BY <2>3
  <2> HIDE DEF rank, below, at
  <2> QED BY <1>5, <2>4
<1>11. \A c \in points : rank[c] + 1 \in 1..n /\ at(rank[c] + 1) = c
  <2> SUFFICES ASSUME NEW c \in points PROVE rank[c] + 1 \in 1..n /\ at(rank[c] + 1) = c
    OBVIOUS
  <2>1. rank[c] + 1 \in 1..n /\ (rank[c] + 1) - 1 = rank[c]
    <3>1. rank[c] \in Nat /\ rank[c] < n
      BY <1>5
    <3> HIDE DEF rank, n
    <3> QED BY <1>2, <3>1
  <2> HIDE DEF rank, at
  <2>2. at(rank[c] + 1) \in points /\ rank[at(rank[c] + 1)] = rank[c]
    BY <1>10, <2>1
  <2> QED BY <1>7, <2>1, <2>2 DEF Injection, IsInjective
<1> DEFINE s == [i \in 1..n |-> at(i)]
<1> HIDE DEF rank, at, n
<1>12. s \in Seq(Char)
  BY <1>1, <1>2, <1>10
<1>13. NoDuplicates(s)
  <2> SUFFICES ASSUME NEW i \in 1..n, NEW j \in 1..n, at(i) = at(j) PROVE i = j
    BY DEF NoDuplicates
  <2>1. i - 1 = j - 1
    BY <1>10
  <2> QED BY <2>1
<1>14. ToSet(s) = points
  BY <1>10, <1>11 DEF ToSet
<1> QED BY <1>4, <1>12, <1>13, <1>14 DEF points

LEMMA WholeAlphabet == Intervals(Char) = {<<0, MaxChar>>}
<1>1. MaxChar \in Nat /\ \A c \in Char : c \in Int /\ 0 <= c /\ c <= MaxChar
  BY CharAssumption DEF Char
<1>2. \A c \in Int : c \in Char <=> 0 <= c /\ c <= MaxChar
  BY <1>1 DEF Char
<1>3. ASSUME NEW i \in Intervals(Char) PROVE i = <<0, MaxChar>>
  <2>1. /\ i = <<i[1], i[2]>> /\ i[1] \in Char /\ i[2] \in Char
        /\ i[1] - 1 \notin Char /\ i[2] + 1 \notin Char
    <3>1. Char \in SUBSET Char
      OBVIOUS
    <3> QED BY <3>1, Interval
  <2>2. i[1] \in Int /\ i[2] \in Int /\ i[1] - 1 \in Int /\ i[2] + 1 \in Int
    BY <1>1, <2>1
  <2>3. i[1] = 0 /\ i[2] = MaxChar
    BY <1>1, <1>2, <2>1, <2>2
  <2> QED BY <2>1, <2>3
<1>4. <<0, MaxChar>> \in Intervals(Char)
  <2>1. 0 \in Char /\ MaxChar \in Char /\ 0 <= MaxChar /\ 0 - 1 \notin Char /\ MaxChar + 1 \notin Char
    BY <1>1, <1>2
  <2>2. 0..MaxChar \subseteq Char
    BY DEF Char
  <2> QED BY <2>1, <2>2 DEF Intervals
<1> QED BY <1>3, <1>4

(* One state that reads every letter: then the early return was taken.     *)
LEMMA LoopRecognized ==
  ASSUME NEW d, IsAutomaton(d, Nat), ~ IsSingleton(d),
         d.det /\ LettersFrom(d, d.q0, d.q0) = Char => IsLoop(d),
         NEW D, D = Determinize(d),
         LettersFrom(D, D.q0, D.q0) = Char,
         \A t \in D.trans : t[1] = D.q0 => t[4] = D.q0
  PROVE  IsLoop(D)
<1>1. /\ IsAutomaton(D, Nat)
      /\ d.det => D = d
      /\ ~ d.det => \E Q, m, number :
           /\ IsAutomaton(m, Q) /\ Merged(m) /\ IsNumbering(number, m) /\ D = Rename(m, number)
  BY Determinized
<1>2. CASE d.det
  BY <1>1, <1>2
<1>3. CASE ~ d.det
  <2>1. PICK Q, m, number : /\ IsAutomaton(m, Q) /\ Merged(m) /\ IsNumbering(number, m)
                            /\ D = Rename(m, number)
    BY <1>1, <1>3
  <2>2. D.q0 = 0 /\ number[m.q0] = 0
    BY <2>1 DEF Rename, Explicit, IsNumbering
  <2>3. m.q0 \in GetStates(m)
    BY <2>1, Reachable DEF IsAutomaton
  <2>4. Joining(D, 0, 0) = {<<0, t[2], t[3], 0>> : t \in Joining(m, m.q0, m.q0)}
    <3>1. \A p, q \in GetStates(m) :
            Joining(Rename(m, number), number[p], number[q])
              = {<<number[p], t[2], t[3], number[q]>> : t \in Joining(m, p, q)}
      BY <2>1, Unnumbered
    <3>2. Joining(Rename(m, number), number[m.q0], number[m.q0])
              = {<<number[m.q0], t[2], t[3], number[m.q0]>> : t \in Joining(m, m.q0, m.q0)}
      BY <2>3, <3>1
    <3> QED BY <2>1, <2>2, <3>2
  <2>5. LettersFrom(m, m.q0, m.q0) = Char
    <3>1. /\ LettersFrom(m, m.q0, m.q0) \subseteq Char
          /\ \A c \in Int : c \in LettersFrom(m, m.q0, m.q0)
               <=> \E t \in Joining(m, m.q0, m.q0) : t[2] <= c /\ c <= t[3]
      BY <2>1, LettersRead DEF Joining
    <3>2. \A c \in Int : c \in LettersFrom(D, 0, 0)
               <=> \E t \in Joining(D, 0, 0) : t[2] <= c /\ c <= t[3]
      BY <1>1, LettersRead DEF Joining
    <3>3. ASSUME NEW c \in Char PROVE c \in LettersFrom(m, m.q0, m.q0)
      <4>1. c \in Int
        BY CharAssumption DEF Char
      <4>2. PICK t \in Joining(D, 0, 0) : t[2] <= c /\ c <= t[3]
        BY <2>2, <3>2, <4>1
      <4>3. PICK u \in Joining(m, m.q0, m.q0) : t = <<0, u[2], u[3], 0>>
        BY <2>4
      <4>4. u[2] <= c /\ c <= u[3]
        BY <4>2, <4>3
      <4> QED BY <3>1, <4>1, <4>4
    <3> QED BY <3>1, <3>3
  <2>6. Joining(m, m.q0, m.q0) = {<<m.q0, i[1], i[2], m.q0>> : i \in {<<0, MaxChar>>}}
    BY <2>1, <2>5, WholeAlphabet DEF Merged
  <2>7. Joining(m, m.q0, m.q0) = {<<m.q0, 0, MaxChar, m.q0>>}
    BY <2>6
  <2>8. Joining(D, 0, 0) = {<<0, 0, MaxChar, 0>>}
    BY <2>4, <2>7
  <2> QED BY <2>2, <2>8 DEF IsLoop, Joining
<1> QED BY <1>2, <1>3

(* What totalize and determinize promise to minimizeHopcroft: every state  *)
(* reads every letter, the letters are different, and there are two states *)
(* unless the early return was taken.                                      *)
LEMMA Prepared ==
  ASSUME NEW d, IsAutomaton(d, Nat), ~ IsSingleton(d),
         d.det /\ LettersFrom(d, d.q0, d.q0) = Char => IsLoop(d),
         NEW t, t = Totalize(Determinize(d))
  PROVE  /\ Sigma(t) \in Seq(Char) /\ NoDuplicates(Sigma(t))
         /\ \A q \in GetStates(t), c \in ToSet(Sigma(t)) :
              \E r \in GetStates(t) : r \in Step(t, {q}, c)
         /\ IsFiniteSet(GetStates(t))
         /\ ~ IsLoop(Determinize(d)) => Cardinality(GetStates(t)) > 1
<1> DEFINE D == Determinize(d)
           sink == Cardinality(GetStates(D))
           n == Numbered(D)
<1>1. IsAutomaton(D, Nat) /\ ~ IsSingleton(D)
  BY Determinized
<1>2. t = WithSink(n, sink)
  BY DEF Totalize
<1>3. IsFiniteSet(D.trans)
  BY <1>1 DEF IsAutomaton
<1>4. /\ IsFiniteSet(GetStates(D)) /\ D.q0 \in GetStates(D)
      /\ \A e \in D.trans : e[1] \in GetStates(D) => e[4] \in GetStates(D)
  BY <1>3, Reachable
<1>5. sink \in Nat \ {0}
  BY <1>4, FS_CardinalityType, FS_EmptySet
<1> HIDE DEF D
<1>6. PICK number : /\ IsNumbering(number, D) /\ n = Rename(D, number)
                    /\ IsAutomaton(n, 0..sink - 1)
  BY <1>1, NumberedAutomaton
<1>7. ~ IsSingleton(n) /\ n.q0 = 0
  BY <1>6 DEF Rename, Explicit, IsSingleton
<1> HIDE DEF sink, n
<1>8. /\ IsAutomaton(t, 0..sink)
      /\ t.q0 = 0
      /\ n.trans \subseteq t.trans
      /\ \A p \in 0..sink, c \in Char : \E e \in t.trans : e[1] = p /\ e[2] <= c /\ c <= e[3]
      /\ \A e \in t.trans \ n.trans : e[4] = sink
  BY <1>2, <1>5, <1>6, <1>7, Total
<1>9. Sigma(t) \in Seq(Char) /\ NoDuplicates(Sigma(t)) /\ ToSet(Sigma(t)) \subseteq Char
  BY <1>8, SigmaInOrder, StartsAreLetters
<1>10. IsFiniteSet(t.trans)
  BY <1>8 DEF IsAutomaton
<1>11. /\ IsFiniteSet(GetStates(t)) /\ GetStates(t) \subseteq Ends(t) /\ 0 \in GetStates(t)
       /\ \A e \in t.trans : e[1] \in GetStates(t) => e[4] \in GetStates(t)
  BY <1>8, <1>10, Reachable
<1>12. GetStates(t) \subseteq 0..sink
  <2>1. \A e \in t.trans : e[1] \in 0..sink /\ e[4] \in 0..sink
    BY <1>8, Transition
  <2>2. 0 \in 0..sink
    BY <1>5
  <2>3. Ends(t) \subseteq 0..sink
    BY <1>8, <2>1, <2>2 DEF Ends
  <2> QED BY <1>11, <2>3
<1>13. ASSUME NEW q \in GetStates(t), NEW c \in ToSet(Sigma(t))
       PROVE  \E r \in GetStates(t) : r \in Step(t, {q}, c)
  <2>1. PICK e \in t.trans : e[1] = q /\ e[2] <= c /\ c <= e[3]
    BY <1>8, <1>9, <1>12
  <2>2. e[4] \in GetStates(t)
    BY <1>11, <2>1
  <2> QED BY <2>1, <2>2 DEF Step
<1>14. ASSUME ~ (Cardinality(GetStates(t)) > 1) PROVE IsLoop(D)
  <2>1. Cardinality(GetStates(t)) \in Nat /\ Cardinality(GetStates(t)) # 0
    BY <1>11, FS_CardinalityType, FS_EmptySet
  <2>2. Cardinality(GetStates(t)) = 1
    BY <1>14, <2>1
  <2>3. \E x : GetStates(t) = {x}
    BY <1>11, <2>2, FS_Singleton
  <2>4. GetStates(t) = {0}
    BY <1>11, <2>3
  <2>5. \A e \in t.trans : e[1] = 0 => e[4] = 0 /\ e \in n.trans
    <3> SUFFICES ASSUME NEW e \in t.trans, e[1] = 0 PROVE e[4] = 0 /\ e \in n.trans
      OBVIOUS
    <3>1. e[4] = 0
      BY <1>11, <2>4
    <3>2. sink # 0
      BY <1>5
    <3> QED BY <1>8, <3>1, <3>2
  <2>6. number[D.q0] = 0 /\ \A p, q \in GetStates(D) : number[p] = number[q] => p = q
    BY <1>6 DEF IsNumbering
  <2>7. Joining(n, 0, 0) = {<<0, e[2], e[3], 0>> : e \in Joining(D, D.q0, D.q0)}
    <3>1. \A p, q \in GetStates(D) :
            Joining(Rename(D, number), number[p], number[q])
              = {<<number[p], e[2], e[3], number[q]>> : e \in Joining(D, p, q)}
      BY <1>1, <1>6, Unnumbered
    <3>2. Joining(Rename(D, number), number[D.q0], number[D.q0])
              = {<<number[D.q0], e[2], e[3], number[D.q0]>> : e \in Joining(D, D.q0, D.q0)}
      BY <1>4, <3>1
    <3> QED BY <1>6, <2>6, <3>2
  <2>8. LettersFrom(D, D.q0, D.q0) = Char
    <3>1. /\ LettersFrom(D, D.q0, D.q0) \subseteq Char
          /\ \A c \in Int : c \in LettersFrom(D, D.q0, D.q0)
               <=> \E e \in Joining(D, D.q0, D.q0) : e[2] <= c /\ c <= e[3]
      BY <1>1, LettersRead DEF Joining
    <3>2. ASSUME NEW c \in Char PROVE c \in LettersFrom(D, D.q0, D.q0)
      <4>1. c \in Int /\ 0 \in 0..sink
        BY <1>5, CharAssumption DEF Char
      <4>2. PICK e \in t.trans : e[1] = 0 /\ e[2] <= c /\ c <= e[3]
        BY <1>8, <4>1
      <4>3. e \in Joining(n, 0, 0)
        BY <2>5, <4>2 DEF Joining
      <4>4. PICK u \in Joining(D, D.q0, D.q0) : e = <<0, u[2], u[3], 0>>
        BY <2>7, <4>3
      <4>5. u[2] <= c /\ c <= u[3]
        BY <4>2, <4>4
      <4> QED BY <3>1, <4>1, <4>5
    <3> QED BY <3>1, <3>2
  <2>9. ASSUME NEW u \in D.trans, u[1] = D.q0 PROVE u[4] = D.q0
    <3>1. u[4] \in GetStates(D)
      BY <1>4, <2>9
    <3>2. <<number[u[1]], u[2], u[3], number[u[4]]>> \in n.trans
      <4>1. u[1] \in DOMAIN number
        BY <1>4, <1>6, <2>9 DEF IsNumbering
      <4> QED BY <1>6, <4>1 DEF Rename, Explicit
    <3>3. number[u[4]] = 0
      <4> DEFINE e == <<number[u[1]], u[2], u[3], number[u[4]]>>
      <4>1. e \in t.trans /\ e[1] = 0 /\ e[4] = number[u[4]]
        BY <1>8, <2>6, <2>9, <3>2
      <4> HIDE DEF e
      <4> QED BY <2>5, <4>1
    <3> QED BY <1>4, <2>6, <3>1, <3>3
  <2>10. D = Determinize(d)
    BY DEF D
  <2> QED BY <2>8, <2>9, <2>10, LoopRecognized
<1> QED BY <1>9, <1>11, <1>13, <1>14 DEF D

-----------------------------------------------------------------------------
(* The inductive invariant.                                                *)

(* The arrays of the loop; every state has a next state for every letter.  *)
Typed ==
  /\ Sigma(a) \in Seq(Char)
  /\ \A q \in State : /\ DOMAIN delta[q] = ToSet(Sigma(a))
                      /\ \A x \in ToSet(Sigma(a)) : delta[q][x] \in State
  /\ k \in Nat
  /\ \A q \in State : block[q] \in 0..k - 1
  /\ refine \subseteq 0..k - 1
  /\ pending \in Seq((0..k - 1) \X ToSet(Sigma(a)))

(* The pair <<j, x>> tells s and t apart.                                  *)
Tells(j, x, s, t) == ~ (block[delta[s][x]] = j <=> block[delta[t][x]] = j)

(* Two states of a block that go to different blocks are told apart by a   *)
(* pair of the queue, or they are about to be separated.                   *)
Separated ==
  \A s, t \in State : block[s] = block[t] =>
    \A x \in ToSet(Sigma(a)) :
      \/ block[delta[s][x]] = block[delta[t][x]]
      \/ \E j \in 0..k - 1 : <<j, x>> \in ToSet(pending) /\ Tells(j, x, s, t)
      \/ block[s] \in refine /\ ~ (s \in split <=> t \in split)

(* A block has accepting states or others, not both.                       *)
Agreeing == \A s, t \in State : block[s] = block[t] => (s \in a.acc <=> t \in a.acc)

IInv ==
  /\ pc = "start" => a \in Inputs /\ refine = {}
  /\ pc = "loop" => Typed /\ Separated /\ Agreeing

-----------------------------------------------------------------------------
LEMMA Initially == Init => IInv
BY DEF Init, IInv

(* What totalize promises makes the choice of a next state proper.         *)
LEMMA NextState ==
  ASSUME NEW d \in Inputs, ~ IsSingleton(d),
         NEW t, t = Totalize(Determinize(d))
  PROVE  /\ Sigma(t) \in Seq(Char) /\ NoDuplicates(Sigma(t))
         /\ \A q \in GetStates(t), c \in ToSet(Sigma(t)) :
              (CHOOSE r \in GetStates(t) : r \in Step(t, {q}, c)) \in GetStates(t)
         /\ IsFiniteSet(GetStates(t))
         /\ ~ IsLoop(Determinize(d)) => Cardinality(GetStates(t)) > 1
<1>1. /\ IsAutomaton(d, Nat)
      /\ d.det /\ LettersFrom(d, d.q0, d.q0) = Char => IsLoop(d)
  BY InputsAssumption
<1>2. /\ Sigma(t) \in Seq(Char) /\ NoDuplicates(Sigma(t))
      /\ \A q \in GetStates(t), c \in ToSet(Sigma(t)) :
           \E r \in GetStates(t) : r \in Step(t, {q}, c)
      /\ IsFiniteSet(GetStates(t))
      /\ ~ IsLoop(Determinize(d)) => Cardinality(GetStates(t)) > 1
  BY <1>1, Prepared
<1>3. ASSUME NEW q \in GetStates(t), NEW c \in ToSet(Sigma(t))
      PROVE  (CHOOSE r \in GetStates(t) : r \in Step(t, {q}, c)) \in GetStates(t)
  BY <1>2, <1>3
<1> QED BY <1>2, <1>3

(* At first one of the two blocks is queued, for each letter.              *)
LEMMA StartEstablishes == IInv /\ Start => IInv'
<1> SUFFICES ASSUME IInv, Start PROVE IInv'
  OBVIOUS
<1> DEFINE t == Totalize(Determinize(a))
           sigma == Sigma(t)
           d == [q \in GetStates(t) |->
                   [c \in ToSet(sigma) |->
                      CHOOSE r \in GetStates(t) : r \in Step(t, {q}, c)]]
           b == StartBlock(t)
           first(x) == IF Size(d, b, 0, sigma[x]) <= Size(d, b, 1, sigma[x]) THEN 0 ELSE 1
<1>1. /\ a' = t
      /\ delta' = d
      /\ block' = b
      /\ pending' = [x \in DOMAIN sigma |-> <<first(x), sigma[x]>>]
      /\ k' = 2
      /\ pc' = "loop"
      /\ refine' = {}
      /\ split' = split
      /\ a \in Inputs
      /\ ~ IsSingleton(a)
  BY DEF Start, IInv
<1>2. /\ sigma \in Seq(Char)
      /\ \A q \in GetStates(t), c \in ToSet(sigma) :
           (CHOOSE r \in GetStates(t) : r \in Step(t, {q}, c)) \in GetStates(t)
  BY <1>1, NextState
<1> HIDE DEF t, sigma
<1>3. /\ State' = GetStates(t)
      /\ \A q \in GetStates(t) : block'[q] = IF q \in t.acc THEN 0 ELSE 1
  BY <1>1 DEF State, StartBlock
<1>4. Sigma(a') = sigma
  BY <1>1 DEF sigma
<1>5. /\ DOMAIN sigma = 1..Len(sigma)
      /\ \A x \in DOMAIN sigma : sigma[x] \in Char
  BY <1>2
<1>6. \A x \in DOMAIN sigma : first(x) \in {0, 1}
  BY DEF first
<1> HIDE DEF first
<1>7. pending' \in Seq((0..1) \X ToSet(sigma))
  <2>1. \A x \in 1..Len(sigma) : <<first(x), sigma[x]>> \in (0..1) \X ToSet(sigma)
    BY <1>5, <1>6 DEF ToSet
  <2> QED BY <1>1, <1>2, <1>5, <2>1
<1>8. \A x \in ToSet(sigma) : \E j \in {0, 1} : <<j, x>> \in ToSet(pending')
  <2> TAKE x \in ToSet(sigma)
  <2>1. PICK i \in DOMAIN sigma : x = sigma[i]
    BY DEF ToSet
  <2>2. i \in DOMAIN pending' /\ pending'[i] = <<first(i), x>>
    BY <1>1, <2>1
  <2> QED BY <1>6, <2>1, <2>2 DEF ToSet
<1>9. Typed'
  <2>1. \A q \in State' : /\ DOMAIN (delta'[q]) = ToSet(sigma)
                          /\ \A x \in ToSet(sigma) : delta'[q][x] \in State'
    <3> SUFFICES ASSUME NEW q \in State'
                 PROVE  /\ DOMAIN (delta'[q]) = ToSet(sigma)
                        /\ \A x \in ToSet(sigma) : delta'[q][x] \in State'
      OBVIOUS
    <3>1. q \in GetStates(t)
      BY <1>3
    <3>2. delta'[q] = [x \in ToSet(sigma) |-> CHOOSE r \in GetStates(t) : r \in Step(t, {q}, x)]
      BY <1>1, <3>1
    <3> QED BY <1>2, <1>3, <3>1, <3>2
  <2>2. \A q \in State' : block'[q] \in 0..k' - 1
    BY <1>1, <1>3
  <2>3. pending' \in Seq((0..k' - 1) \X ToSet(sigma))
    BY <1>1, <1>7
  <2> QED BY <1>1, <1>2, <1>4, <2>1, <2>2, <2>3 DEF Typed
<1>10. Separated'
  <2> SUFFICES ASSUME NEW u \in State', NEW v \in State', NEW x \in ToSet(sigma),
                      block'[delta'[u][x]] # block'[delta'[v][x]]
               PROVE  \E j \in 0..k' - 1 :
                        /\ <<j, x>> \in ToSet(pending')
                        /\ ~ (block'[delta'[u][x]] = j <=> block'[delta'[v][x]] = j)
    BY <1>4 DEF Separated, Tells
  <2>1. delta'[u][x] \in GetStates(t) /\ delta'[v][x] \in GetStates(t)
    BY <1>1, <1>2, <1>3
  <2>2. block'[delta'[u][x]] \in {0, 1} /\ block'[delta'[v][x]] \in {0, 1}
    BY <1>3, <2>1
  <2>3. PICK j \in {0, 1} : <<j, x>> \in ToSet(pending')
    BY <1>8
  <2>4. j \in 0..k' - 1
    BY <1>1, <2>3
  <2> QED BY <2>2, <2>3, <2>4
<1>11. Agreeing'
  BY <1>1, <1>3 DEF Agreeing
<1> QED BY <1>1, <1>9, <1>10, <1>11 DEF IInv

-----------------------------------------------------------------------------
(* The pair that is taken told apart states that are now to be separated.  *)
LEMMA TakeKeeps == IInv /\ Take => IInv'
<1> SUFFICES ASSUME IInv, Take PROVE IInv'
  OBVIOUS
<1> DEFINE p == Head(pending)[1]
           y == Head(pending)[2]
<1>1. /\ pc = "loop" /\ pc' = "loop"
      /\ refine = {} /\ pending # <<>>
      /\ split' = {s \in State : block[delta[s][y]] = p}
      /\ refine' = {block[s] : s \in split'}
      /\ pending' = Tail(pending)
      /\ a' = a /\ delta' = delta /\ block' = block /\ k' = k
  BY DEF Take
<1>2. Typed /\ Separated /\ Agreeing
  BY <1>1 DEF IInv
<1>3. /\ State' = State
      /\ Sigma(a') = Sigma(a)
  BY <1>1 DEF State
<1>4. /\ Head(pending) = <<p, y>>
      /\ Tail(pending) \in Seq((0..k - 1) \X ToSet(Sigma(a)))
      /\ \A e \in ToSet(pending) : e = Head(pending) \/ e \in ToSet(Tail(pending))
  <2>1. pending \in Seq((0..k - 1) \X ToSet(Sigma(a))) /\ pending # <<>>
    BY <1>1, <1>2 DEF Typed
  <2>2. Head(pending) \in (0..k - 1) \X ToSet(Sigma(a))
    BY <2>1, TakenOut
  <2>3. Head(pending) = <<p, y>>
    BY <2>2
  <2> QED BY <2>1, <2>3, TakenOut
<1> HIDE DEF p, y
<1>5. Typed'
  BY <1>1, <1>2, <1>3, <1>4 DEF Typed
<1>6. Separated'
  <2> SUFFICES ASSUME NEW s \in State, NEW t \in State, block[s] = block[t],
                      NEW x \in ToSet(Sigma(a))
               PROVE  \/ block[delta[s][x]] = block[delta[t][x]]
                      \/ \E j \in 0..k - 1 : <<j, x>> \in ToSet(pending') /\ Tells(j, x, s, t)
                      \/ block[s] \in refine' /\ ~ (s \in split' <=> t \in split')
    <3>1. Separated' =
            \A s, t \in State : block[s] = block[t] =>
              \A x \in ToSet(Sigma(a)) :
                \/ block[delta[s][x]] = block[delta[t][x]]
                \/ \E j \in 0..k - 1 : <<j, x>> \in ToSet(pending') /\ Tells(j, x, s, t)
                \/ block[s] \in refine' /\ ~ (s \in split' <=> t \in split')
      BY <1>1, <1>3 DEF Separated, Tells
    <3> QED BY <3>1
  <2>1. \/ block[delta[s][x]] = block[delta[t][x]]
        \/ \E j \in 0..k - 1 : <<j, x>> \in ToSet(pending) /\ Tells(j, x, s, t)
    BY <1>1, <1>2 DEF Separated
  <2>2. ASSUME NEW j \in 0..k - 1, <<j, x>> \in ToSet(pending), Tells(j, x, s, t),
               <<j, x>> \notin ToSet(pending')
        PROVE  block[s] \in refine' /\ ~ (s \in split' <=> t \in split')
    <3>1. j = p /\ x = y
      BY <1>1, <1>4, <2>2
    <3>2. ~ (s \in split' <=> t \in split')
      BY <1>1, <2>2, <3>1 DEF Tells
    <3> QED BY <1>1, <3>2
  <2> QED BY <2>1, <2>2
<1>7. Agreeing'
  BY <1>1, <1>2, <1>3 DEF Agreeing
<1> QED BY <1>1, <1>5, <1>6, <1>7 DEF IInv

-----------------------------------------------------------------------------
(* A block whose states are all split off needs no other.                  *)
LEMMA WholeBlock ==
  ASSUME Typed, Separated, Agreeing, NEW j \in refine,
         \A q \in State : block[q] = j => q \in split,
         a' = a, delta' = delta, split' = split,
         UNCHANGED <<block, k, pending>>, refine' = refine \ {j}
  PROVE  Typed' /\ Separated' /\ Agreeing'
<1>1. /\ State' = State
      /\ Sigma(a') = Sigma(a)
  BY DEF State
<1>2. Typed'
  BY <1>1 DEF Typed
<1>3. Separated'
  BY <1>1 DEF Separated, Tells
<1>4. Agreeing'
  BY <1>1 DEF Agreeing
<1> QED BY <1>2, <1>3, <1>4

(* Block j is cut in two: whichever part is queued, it tells apart what    *)
(* went to j alone; if j was queued, both parts are now.                   *)
LEMMA CutBlock ==
  ASSUME Typed, Separated, Agreeing, NEW j \in refine,
         a' = a, delta' = delta, split' = split, refine' = refine \ {j}, k' = k + 1,
         block' = [q \in State |-> IF q \in split /\ block[q] = j THEN k ELSE block[q]],
         pending' = pending \o [x \in DOMAIN Sigma(a) |-> Smaller(block', j, Sigma(a)[x])]
  PROVE  Typed' /\ Separated' /\ Agreeing'
<1> DEFINE sigma == Sigma(a)
           added == [x \in DOMAIN sigma |-> Smaller(block', j, sigma[x])]
<1>1. /\ State' = State
      /\ Sigma(a') = sigma
  BY DEF State
<1>2. /\ sigma \in Seq(Char)
      /\ DOMAIN sigma = 1..Len(sigma)
      /\ k \in Nat
      /\ j \in 0..k - 1
  BY DEF Typed
<1>3. \A q \in State : /\ block[q] \in 0..k - 1
                       /\ block'[q] = IF q \in split /\ block[q] = j THEN k ELSE block[q]
  BY DEF Typed
<1>4. \A c : /\ Smaller(block', j, c) \in {<<j, c>>, <<k, c>>}
             /\ <<j, c>> \in ToSet(pending) => Smaller(block', j, c) = <<k, c>>
  BY DEF Smaller
<1>5. added \in Seq((0..k) \X ToSet(sigma))
  <2>1. ASSUME NEW x \in 1..Len(sigma)
        PROVE  Smaller(block', j, sigma[x]) \in (0..k) \X ToSet(sigma)
    <3>1. sigma[x] \in ToSet(sigma)
      BY <1>2 DEF ToSet
    <3>2. /\ <<j, sigma[x]>> \in (0..k) \X ToSet(sigma)
          /\ <<k, sigma[x]>> \in (0..k) \X ToSet(sigma)
      BY <1>2, <3>1
    <3> QED BY <1>4, <3>2
  <2> QED BY <1>2, <2>1
<1>6. \A c \in ToSet(sigma) : Smaller(block', j, c) \in ToSet(added)
  BY DEF ToSet
<1> HIDE DEF added
<1>7. pending \in Seq((0..k) \X ToSet(sigma))
  BY <1>2 DEF Typed
<1>8. /\ pending' = pending \o added
      /\ pending' \in Seq((0..k) \X ToSet(sigma))
      /\ ToSet(pending) \subseteq ToSet(pending')
      /\ ToSet(added) \subseteq ToSet(pending')
  BY <1>5, <1>7, PutIn DEF added
<1> HIDE DEF sigma
<1>9. Typed'
  <2>1. k' - 1 = k /\ k' \in Nat
    BY <1>2
  <2>2. \A q \in State : block'[q] \in 0..k
    BY <1>2, <1>3
  <2>3. refine' \subseteq 0..k
    BY <1>2 DEF Typed
  <2>4. \A q \in State : /\ DOMAIN (delta'[q]) = ToSet(sigma)
                         /\ \A x \in ToSet(sigma) : delta'[q][x] \in State
    BY DEF Typed, sigma
  <2> QED BY <1>1, <1>2, <1>8, <2>1, <2>2, <2>3, <2>4 DEF Typed
<1>10. Agreeing'
  BY <1>1, <1>2, <1>3 DEF Agreeing
<1>11. Separated'
  <2> SUFFICES ASSUME NEW s \in State', NEW t \in State', block'[s] = block'[t],
                      NEW x \in ToSet(Sigma(a')),
                      ~ \/ block'[delta'[s][x]] = block'[delta'[t][x]]
                        \/ \E i \in 0..k' - 1 :
                             /\ <<i, x>> \in ToSet(pending')
                             /\ ~ (block'[delta'[s][x]] = i <=> block'[delta'[t][x]] = i)
               PROVE  block'[s] \in refine' /\ ~ (s \in split' <=> t \in split')
    BY DEF Separated, Tells
  <2>1. /\ s \in State /\ t \in State
        /\ x \in ToSet(sigma)
        /\ 0..k' - 1 = 0..k
        /\ block'[delta[s][x]] # block'[delta[t][x]]
        /\ \A i \in 0..k' - 1 : <<i, x>> \in ToSet(pending') =>
             (block'[delta[s][x]] = i <=> block'[delta[t][x]] = i)
    <3>1. s \in State /\ t \in State /\ x \in ToSet(sigma)
      BY <1>1
    <3>2. 0..k' - 1 = 0..k
      BY <1>2
    <3> QED BY <3>1, <3>2
  <2> DEFINE u == delta[s][x]
             v == delta[t][x]
  <2>2. u \in State /\ v \in State
    BY <2>1 DEF Typed, sigma
  <2>3. /\ block[s] = block[t]
        /\ block[s] = j => (s \in split <=> t \in split)
    BY <1>2, <1>3, <2>1
  <2> HIDE DEF u, v
  <2>4. /\ block'[u] # block'[v]
        /\ \A i \in 0..k : <<i, x>> \in ToSet(pending') => (block'[u] = i <=> block'[v] = i)
    BY <2>1 DEF u, v
  <2>5. <<j, x>> \in ToSet(pending') \/ <<k, x>> \in ToSet(pending')
    BY <1>4, <1>6, <1>8, <2>1
  <2>6. block[u] # block[v]
    <3> SUFFICES ASSUME block[u] = block[v] PROVE FALSE
      OBVIOUS
    <3>1. \/ block'[u] = j /\ block'[v] = k
          \/ block'[u] = k /\ block'[v] = j
      BY <1>3, <2>2, <2>4
    <3>2. j \in 0..k /\ k \in 0..k /\ j # k
      BY <1>2
    <3> QED BY <2>4, <2>5, <3>1, <3>2
  <2>7. \A i \in 0..k - 1 : <<i, x>> \in ToSet(pending) => (block[u] = i <=> block[v] = i)
    <3> SUFFICES ASSUME NEW i \in 0..k - 1, <<i, x>> \in ToSet(pending)
                 PROVE  block[u] = i <=> block[v] = i
      OBVIOUS
    <3>1. block'[u] = i <=> block'[v] = i
      <4>1. <<i, x>> \in ToSet(pending')
        BY <1>8
      <4>2. i \in 0..k
        BY <1>2
      <4> QED BY <2>4, <4>1, <4>2
    <3>2. CASE i # j
      BY <1>2, <1>3, <2>2, <3>1, <3>2
    <3>3. CASE i = j
      <4>1. <<k, x>> \in ToSet(pending')
        BY <1>4, <1>6, <1>8, <2>1, <3>3
      <4>2. k \in 0..k
        BY <1>2
      <4>3. block'[u] = k <=> block'[v] = k
        BY <2>4, <4>1, <4>2
      <4> QED BY <1>2, <1>3, <2>2, <3>1, <3>3, <4>3
    <3> QED BY <3>2, <3>3
  <2>8. block[s] \in refine /\ ~ (s \in split <=> t \in split)
    BY <2>1, <2>3, <2>6, <2>7 DEF Separated, Tells, u, v, sigma
  <2> QED BY <1>1, <1>3, <2>1, <2>3, <2>8
<1> QED BY <1>9, <1>10, <1>11

LEMMA RefineKeeps == IInv /\ Refine => IInv'
<1> SUFFICES ASSUME IInv, Refine PROVE IInv'
  OBVIOUS
<1>1. PICK j \in refine :
        /\ LET b == [q \in State |-> IF q \in split /\ block[q] = j THEN k ELSE block[q]]
               sigma == Sigma(a)
           IN  IF Members(b, j) # {}
               THEN /\ block' = b
                    /\ k' = k + 1
                    /\ pending' = pending \o [x \in DOMAIN sigma |-> Smaller(b, j, sigma[x])]
               ELSE UNCHANGED <<block, k, pending>>
        /\ refine' = refine \ {j}
  BY DEF Refine
<1> DEFINE b == [q \in State |-> IF q \in split /\ block[q] = j THEN k ELSE block[q]]
<1>2. /\ pc = "loop" /\ pc' = "loop"
      /\ a' = a /\ delta' = delta /\ split' = split
  BY DEF Refine
<1>3. Typed /\ Separated /\ Agreeing
  BY <1>2 DEF IInv
<1>4. CASE Members(b, j) # {}
  <2>1. /\ block' = b
        /\ k' = k + 1
        /\ pending' = pending \o [x \in DOMAIN Sigma(a) |-> Smaller(block', j, Sigma(a)[x])]
        /\ refine' = refine \ {j}
    BY <1>1, <1>4
  <2>2. Typed' /\ Separated' /\ Agreeing'
    BY <1>2, <1>3, <2>1, CutBlock
  <2> QED BY <1>2, <2>2 DEF IInv
<1>5. CASE Members(b, j) = {}
  <2>1. UNCHANGED <<block, k, pending>> /\ refine' = refine \ {j}
    BY <1>1, <1>5
  <2>2. \A q \in State : block[q] = j => q \in split
    BY <1>5 DEF Members
  <2>3. Typed' /\ Separated' /\ Agreeing'
    BY <1>2, <1>3, <2>1, <2>2, WholeBlock
  <2> QED BY <1>2, <2>3 DEF IInv
<1> QED BY <1>4, <1>5

-----------------------------------------------------------------------------
LEMMA StepKeeps == IInv /\ [Next]_vars => IInv'
<1> SUFFICES ASSUME IInv, [Next]_vars PROVE IInv'
  OBVIOUS
<1>1. CASE Start
  BY <1>1, StartEstablishes
<1>2. CASE Take
  BY <1>2, TakeKeeps
<1>3. CASE Refine
  BY <1>3, RefineKeeps
<1>4. CASE StartMinimal \/ Build
  BY <1>4 DEF StartMinimal, Build, IInv
<1>5. CASE Returned \/ UNCHANGED vars
  <2>1. /\ a' = a /\ delta' = delta /\ block' = block /\ k' = k /\ pending' = pending
        /\ split' = split /\ refine' = refine /\ pc' = pc
    BY <1>5 DEF Returned, vars, loop
  <2>2. /\ Typed' <=> Typed
        /\ Separated' <=> Separated
        /\ Agreeing' <=> Agreeing
    BY <2>1 DEF Typed, Separated, Agreeing, Tells, State
  <2> QED BY <2>1, <2>2 DEF IInv
<1> QED BY <1>1, <1>2, <1>3, <1>4, <1>5 DEF Next

(* The invariant of the loop of minimizeHopcroft.                          *)
THEOREM LoopInvariant == Spec => []IInv
BY Initially, StepKeeps, PTL DEF Spec

(* When no block is left to refine, two states of a block that the queue   *)
(* does not tell apart go to the same block by every letter: it is enough  *)
(* to queue one part of a block that is not in the queue (the update of    *)
(* pending in minimizeHopcroft).                                           *)
THEOREM QueueSuffices == Spec => []PendingSuffices
<1>1. IInv => PendingSuffices
  <2> SUFFICES ASSUME IInv, pc = "loop", refine = {},
                      NEW s \in State, NEW t \in State, block[s] = block[t],
                      NEW x \in Letter,
                      \A j \in 0..k - 1 : <<j, x>> \in ToSet(pending)
                        => (block[delta[s][x]] = j <=> block[delta[t][x]] = j)
               PROVE  block[delta[s][x]] = block[delta[t][x]]
    BY DEF PendingSuffices
  <2>1. x \in ToSet(Sigma(a))
    BY DEF IInv, Typed, Letter
  <2> QED BY <2>1 DEF IInv, Separated, Tells
<1> QED BY <1>1, LoopInvariant, PTL

(* When the main loop ends, the states of a block agree on acceptance and  *)
(* go to the same block by every letter: one state can stand for them all  *)
(* (the construction of the result in minimizeHopcroft).                   *)
Stable ==
  pc = "loop" /\ refine = {} /\ pending = <<>> =>
    \A s, t \in State : block[s] = block[t] =>
      /\ s \in a.acc <=> t \in a.acc
      /\ \A x \in ToSet(Sigma(a)) : block[delta[s][x]] = block[delta[t][x]]

THEOREM EndsStable == Spec => []Stable
<1>1. IInv => Stable
  <2> SUFFICES ASSUME IInv, pc = "loop", refine = {}, pending = <<>>,
                      NEW s \in State, NEW t \in State, block[s] = block[t]
               PROVE  /\ s \in a.acc <=> t \in a.acc
                      /\ \A x \in ToSet(Sigma(a)) : block[delta[s][x]] = block[delta[t][x]]
    BY DEF Stable
  <2>1. ToSet(pending) = {}
    BY DEF ToSet
  <2> QED BY <2>1 DEF IInv, Agreeing, Separated
<1> QED BY <1>1, LoopInvariant, PTL

-----------------------------------------------------------------------------
(* The converse: no split separates states that behave alike.              *)

(* Related states agree on acceptance, and their moves are related.        *)
Bisimulation(E) ==
  \A s, t \in State : <<s, t>> \in E =>
    /\ s \in a.acc <=> t \in a.acc
    /\ \A x \in ToSet(Sigma(a)) : <<delta[s][x], delta[t][x]>> \in E

(* They are in the same block, and split off together.                     *)
Together ==
  \A E \in SUBSET (State \X State) : Bisimulation(E) =>
    \A s, t \in State : <<s, t>> \in E =>
      /\ block[s] = block[t]
      /\ refine # {} => (s \in split <=> t \in split)

KeptTogether == pc = "loop" => Together

LEMMA StartTogether == IInv /\ Start => KeptTogether'
<1> SUFFICES ASSUME IInv, Start,
                    NEW E \in SUBSET (State \X State)', Bisimulation(E)',
                    NEW s \in State', NEW t \in State', <<s, t>> \in E
             PROVE  /\ block'[s] = block'[t]
                    /\ refine' # {} => (s \in split' <=> t \in split')
  BY DEF KeptTogether, Together
<1>1. block' = StartBlock(a') /\ refine' = {}
  BY DEF Start, IInv
<1>2. s \in a'.acc <=> t \in a'.acc
  BY DEF Bisimulation
<1> QED BY <1>1, <1>2 DEF StartBlock, State

(* Related states reach the block of the pair taken together.              *)
LEMMA TakeTogether == IInv /\ KeptTogether /\ Take => KeptTogether'
<1> SUFFICES ASSUME IInv, KeptTogether, Take PROVE KeptTogether'
  OBVIOUS
<1>1. a' = a /\ delta' = delta /\ block' = block
  BY DEF Take
<1>2. State' = State
  BY <1>1 DEF State
<1> SUFFICES ASSUME NEW E \in SUBSET (State \X State), Bisimulation(E),
                    NEW s \in State, NEW t \in State, <<s, t>> \in E
             PROVE  block[s] = block[t] /\ (s \in split' <=> t \in split')
  BY <1>1, <1>2 DEF KeptTogether, Together, Bisimulation
<1> DEFINE p == Head(pending)[1]
           y == Head(pending)[2]
<1>3. /\ pc = "loop"
      /\ split' = {q \in State : block[delta[q][y]] = p}
      /\ pending # <<>>
  BY DEF Take
<1>4. Typed /\ Together
  BY <1>3 DEF IInv, KeptTogether
<1>5. y \in ToSet(Sigma(a))
  <2>1. Head(pending) \in (0..k - 1) \X ToSet(Sigma(a))
    BY <1>3, <1>4, TakenOut DEF Typed
  <2> QED BY <2>1
<1> HIDE DEF p, y
<1>6. /\ delta[s][y] \in State /\ delta[t][y] \in State
      /\ <<delta[s][y], delta[t][y]>> \in E
  BY <1>4, <1>5 DEF Typed, Bisimulation
<1>7. block[delta[s][y]] = block[delta[t][y]]
  BY <1>4, <1>6 DEF Together
<1>8. block[s] = block[t]
  BY <1>4 DEF Together
<1> QED BY <1>3, <1>7, <1>8

LEMMA RefineTogether == KeptTogether /\ Refine => KeptTogether'
<1> SUFFICES ASSUME KeptTogether, Refine PROVE KeptTogether'
  OBVIOUS
<1>1. PICK j \in refine :
        \/ block' = [q \in State |-> IF q \in split /\ block[q] = j THEN k ELSE block[q]]
        \/ block' = block
  BY DEF Refine
<1>2. pc = "loop" /\ split' = split /\ a' = a /\ delta' = delta
  BY DEF Refine
<1>3. State' = State
  BY <1>1 DEF State
<1> SUFFICES ASSUME NEW E \in SUBSET (State \X State), Bisimulation(E),
                    NEW s \in State, NEW t \in State, <<s, t>> \in E
             PROVE  block'[s] = block'[t] /\ (s \in split' <=> t \in split')
  BY <1>2, <1>3 DEF KeptTogether, Together, Bisimulation
<1>4. block[s] = block[t] /\ (s \in split <=> t \in split)
  BY <1>1, <1>2 DEF KeptTogether, Together
<1> QED BY <1>1, <1>2, <1>4

(* No step of the main loop of minimizeHopcroft separates related states.  *)
THEOREM NeverSeparates == Spec => []KeptTogether
<1>1. Init => KeptTogether
  BY DEF Init, KeptTogether
<1>2. IInv /\ KeptTogether /\ [Next]_vars => KeptTogether'
  <2> SUFFICES ASSUME IInv, KeptTogether, [Next]_vars PROVE KeptTogether'
    OBVIOUS
  <2>1. CASE Start
    BY <2>1, StartTogether
  <2>2. CASE Take
    BY <2>2, TakeTogether
  <2>3. CASE Refine
    BY <2>3, RefineTogether
  <2>4. CASE StartMinimal \/ Build
    BY <2>4 DEF StartMinimal, Build, KeptTogether
  <2>5. CASE Returned \/ UNCHANGED vars
    <3>1. /\ a' = a /\ delta' = delta /\ block' = block
          /\ split' = split /\ refine' = refine /\ pc' = pc
      BY <2>5 DEF Returned, vars, loop
    <3>2. Together' <=> Together
      BY <3>1 DEF Together, Bisimulation, State
    <3> QED BY <3>1, <3>2 DEF KeptTogether
  <2> QED BY <2>1, <2>2, <2>3, <2>4, <2>5 DEF Next
<1> QED BY <1>1, <1>2, LoopInvariant, PTL DEF Spec

(* When the main loop of minimizeHopcroft ends, to be in the same block is *)
(* a bisimulation and contains every other: the blocks are as few as they  *)
(* can be.                                                                 *)
Coarsest ==
  pc = "loop" /\ refine = {} /\ pending = <<>> =>
    LET same == {p \in State \X State : block[p[1]] = block[p[2]]}
    IN  /\ Bisimulation(same)
        /\ \A E \in SUBSET (State \X State) : Bisimulation(E) => E \subseteq same

THEOREM EndsCoarsest == Spec => []Coarsest
<1>1. IInv /\ KeptTogether /\ Stable => Coarsest
  <2> SUFFICES ASSUME IInv, KeptTogether, Stable, pc = "loop", refine = {}, pending = <<>>
               PROVE  LET same == {p \in State \X State : block[p[1]] = block[p[2]]}
                      IN  /\ Bisimulation(same)
                          /\ \A E \in SUBSET (State \X State) :
                               Bisimulation(E) => E \subseteq same
    BY DEF Coarsest
  <2> DEFINE same == {p \in State \X State : block[p[1]] = block[p[2]]}
  <2>1. \A s, t \in State : <<s, t>> \in same <=> block[s] = block[t]
    OBVIOUS
  <2>2. Bisimulation(same)
    <3> HIDE DEF same
    <3>1. \A q \in State, x \in ToSet(Sigma(a)) : delta[q][x] \in State
      BY DEF IInv, Typed
    <3> QED BY <2>1, <3>1 DEF Stable, Bisimulation
  <2>3. ASSUME NEW E \in SUBSET (State \X State), Bisimulation(E)
        PROVE  E \subseteq same
    <3>1. ASSUME NEW e \in E PROVE e \in same
      <4>1. PICK s \in State, t \in State : e = <<s, t>>
        OBVIOUS
      <4>2. block[s] = block[t]
        BY <2>3, <4>1 DEF KeptTogether, Together
      <4> QED BY <4>1, <4>2
    <3> QED BY <3>1
  <2> QED BY <2>2, <2>3
<1> QED BY <1>1, LoopInvariant, NeverSeparates, EndsStable, PTL

-----------------------------------------------------------------------------
(* The arrays.                                                             *)

(* Each block has a state; unless all states agree on acceptance, when one *)
(* of the first two has none and no block is ever split.                   *)
Filled ==
  \/ \A j \in 0..k - 1 : \E q \in State : block[q] = j
  \/ k = 2 /\ \A s, t \in State : s \in a.acc <=> t \in a.acc

Arrays ==
  /\ IsFiniteSet(State) /\ Cardinality(State) > 1
  /\ NoDuplicates(Sigma(a))
  /\ delta \in [State -> [ToSet(Sigma(a)) -> State]]
  /\ block \in [State -> 0..k - 1]
  /\ split \subseteq State
  /\ \A j \in refine : \E s \in split : block[s] = j
  /\ NoDuplicates(pending)
  /\ Filled

InArrays ==
  /\ pc = "start" => a \in Inputs /\ block = <<>> /\ split = {} /\ refine = {}
  /\ pc = "loop" => Arrays

LEMMA InitInArrays == Init => InArrays
BY DEF Init, InArrays

LEMMA StartInArrays == IInv /\ InArrays /\ Start => InArrays'
<1> SUFFICES ASSUME IInv, InArrays, Start PROVE InArrays'
  OBVIOUS
<1> DEFINE t == Totalize(Determinize(a))
           sigma == Sigma(t)
           d == [q \in GetStates(t) |->
                   [c \in ToSet(sigma) |->
                      CHOOSE r \in GetStates(t) : r \in Step(t, {q}, c)]]
           b == StartBlock(t)
           first(x) == IF Size(d, b, 0, sigma[x]) <= Size(d, b, 1, sigma[x]) THEN 0 ELSE 1
<1>1. /\ a' = t
      /\ delta' = d
      /\ block' = b
      /\ pending' = [x \in DOMAIN sigma |-> <<first(x), sigma[x]>>]
      /\ k' = 2
      /\ pc' = "loop"
      /\ refine' = {} /\ split' = {}
      /\ a \in Inputs /\ ~ IsSingleton(a) /\ ~ IsLoop(Determinize(a))
  BY DEF Start, InArrays
<1>2. /\ NoDuplicates(sigma)
      /\ IsFiniteSet(GetStates(t)) /\ Cardinality(GetStates(t)) > 1
  BY <1>1, NextState
<1>3. \A q \in GetStates(t), c \in ToSet(sigma) :
        (CHOOSE r \in GetStates(t) : r \in Step(t, {q}, c)) \in GetStates(t)
  BY <1>1, NextState
<1>4. Sigma(a') = sigma
  BY <1>1
<1> HIDE DEF t, sigma, first
<1>5. State' = GetStates(t)
  BY <1>1 DEF State, StartBlock
<1>6. delta' \in [State' -> [ToSet(sigma) -> State']]
  BY <1>1, <1>3, <1>5
<1> HIDE DEF d
<1>7. /\ block' \in [State' -> 0..k' - 1]
      /\ \A q \in State' : block'[q] = IF q \in a'.acc THEN 0 ELSE 1
  BY <1>1, <1>5 DEF StartBlock
<1>8. NoDuplicates(pending')
  BY <1>1, <1>2 DEF NoDuplicates
<1>9. Filled'
  <2> SUFFICES ASSUME NEW s \in State', NEW r \in State', ~ (s \in a'.acc <=> r \in a'.acc)
               PROVE  \A j \in 0..k' - 1 : \E q \in State' : block'[q] = j
    BY <1>1 DEF Filled
  <2>1. 0..k' - 1 = {0, 1}
    BY <1>1
  <2> QED BY <1>7, <2>1
<1> QED BY <1>1, <1>2, <1>4, <1>5, <1>6, <1>7, <1>8, <1>9 DEF InArrays, Arrays

LEMMA TakeInArrays == InArrays /\ Take /\ IInv => InArrays'
<1> SUFFICES ASSUME InArrays, Take, IInv PROVE InArrays'
  OBVIOUS
<1>1. /\ pc = "loop" /\ pc' = "loop"
      /\ pending # <<>> /\ pending' = Tail(pending)
      /\ split' \subseteq State
      /\ refine' = {block[s] : s \in split'}
      /\ a' = a /\ delta' = delta /\ block' = block /\ k' = k
  BY DEF Take
<1>2. Arrays
  BY <1>1 DEF InArrays
<1>3. State' = State /\ Sigma(a') = Sigma(a) /\ Filled'
  BY <1>1, <1>2 DEF State, Arrays, Filled
<1>4. NoDuplicates(pending')
  <2>1. pending \in Seq((0..k - 1) \X ToSet(Sigma(a))) /\ pending # <<>>
    BY <1>1 DEF IInv, Typed
  <2>2. /\ DOMAIN Tail(pending) = 1..Len(pending) - 1
        /\ \A i \in 1..Len(pending) - 1 : Tail(pending)[i] = pending[i + 1]
        /\ DOMAIN pending = 1..Len(pending)
    BY <2>1
  <2>3. \A i \in 1..Len(pending) - 1 : i + 1 \in 1..Len(pending)
    BY <2>1
  <2>4. Len(pending) \in Nat
    BY <2>1
  <2> QED BY <1>1, <1>2, <2>2, <2>3, <2>4 DEF Arrays, NoDuplicates
<1>5. Arrays'
  BY <1>1, <1>2, <1>3, <1>4 DEF Arrays
<1> QED BY <1>1, <1>5 DEF InArrays

(* When all states agree on acceptance any two are related, so a block is  *)
(* split off as a whole.                                                   *)
LEMMA UniformTogether ==
  ASSUME Typed, Together, \A s, t \in State : s \in a.acc <=> t \in a.acc
  PROVE  \A s, t \in State : block[s] = block[t] /\ (refine # {} => (s \in split <=> t \in split))
<1> DEFINE E == State \X State
<1>1. \A s, t \in State : <<s, t>> \in E
  OBVIOUS
<1> HIDE DEF E
<1>2. Bisimulation(E)
  BY <1>1 DEF Bisimulation, Typed
<1>3. E \in SUBSET (State \X State)
  BY DEF E
<1> QED BY <1>1, <1>2, <1>3 DEF Together

(* The pairs that a split adds were not in the queue.                      *)
LEMMA AddedFresh ==
  ASSUME Typed, NoDuplicates(Sigma(a)), NoDuplicates(pending), NEW b, NEW j \in 0..k - 1
  PROVE  NoDuplicates(pending \o [x \in DOMAIN Sigma(a) |-> Smaller(b, j, Sigma(a)[x])])
<1> DEFINE sigma == Sigma(a)
           added == [x \in DOMAIN sigma |-> Smaller(b, j, sigma[x])]
           T == (0..k) \X ToSet(sigma)
<1>1. /\ sigma \in Seq(Char) /\ k \in Nat /\ j \in 0..k - 1
      /\ DOMAIN sigma = 1..Len(sigma) /\ Len(sigma) \in Nat
  BY DEF Typed
<1>2. \A c : /\ Smaller(b, j, c) \in {<<j, c>>, <<k, c>>}
             /\ Smaller(b, j, c) = <<j, c>> /\ j # k => <<j, c>> \notin ToSet(pending)
  BY DEF Smaller
<1>3. added \in Seq(T)
  <2>1. ASSUME NEW x \in 1..Len(sigma)
        PROVE  Smaller(b, j, sigma[x]) \in T
    <3>1. sigma[x] \in ToSet(sigma)
      BY <1>1 DEF ToSet
    <3>2. <<j, sigma[x]>> \in T /\ <<k, sigma[x]>> \in T
      BY <1>1, <3>1
    <3> QED BY <1>2, <3>2
  <2> QED BY <1>1, <2>1
<1>4. \A x \in DOMAIN sigma : added[x][2] = sigma[x] /\ added[x] \notin ToSet(pending)
  <2> TAKE x \in DOMAIN sigma
  <2> DEFINE c == sigma[x]
  <2>1. added[x] \in {<<j, c>>, <<k, c>>}
    BY <1>2
  <2>2. added[x] = <<j, c>> => <<j, c>> \notin ToSet(pending)
    BY <1>1, <1>2
  <2>3. <<k, c>> \notin ToSet(pending)
    <3>1. \A e \in ToSet(pending) : e[1] \in 0..k - 1
      BY DEF ToSet, Typed
    <3> QED BY <1>1, <3>1
  <2> HIDE DEF added, c
  <2>4. added[x][2] = c
    BY <2>1
  <2> QED BY <2>1, <2>2, <2>3, <2>4 DEF c
<1>5. pending \in Seq((0..k - 1) \X ToSet(sigma)) /\ Len(pending) \in Nat
  BY DEF Typed
<1>6. DOMAIN added = 1..Len(sigma) /\ Len(added) = Len(sigma)
  BY <1>1, <1>3
<1> HIDE DEF added, T, sigma
<1>7. \A i \in DOMAIN pending : pending[i] \in ToSet(pending)
  BY DEF ToSet
<1>8. /\ DOMAIN (pending \o added) = 1..Len(pending) + Len(added)
      /\ \A i \in 1..Len(pending) + Len(added) :
           (pending \o added)[i] =
             IF i <= Len(pending) THEN pending[i] ELSE added[i - Len(pending)]
  BY <1>3, <1>5
<1>9. \A i, m \in DOMAIN added : added[i] = added[m] => i = m
  BY <1>1, <1>4, <1>6 DEF NoDuplicates, sigma
<1>10. /\ DOMAIN pending = 1..Len(pending)
       /\ \A i \in 1..Len(pending) + Len(added) : ~ (i <= Len(pending)) =>
            i - Len(pending) \in DOMAIN added
  BY <1>1, <1>5, <1>6
<1>11. ASSUME NEW i \in 1..Len(pending) + Len(added), NEW m \in 1..Len(pending) + Len(added),
              (pending \o added)[i] = (pending \o added)[m]
       PROVE  i = m
  <2>1. CASE i <= Len(pending) /\ m <= Len(pending)
    <3>1. i \in DOMAIN pending /\ m \in DOMAIN pending
      BY <1>5, <1>10, <2>1
    <3>2. pending[i] = pending[m]
      BY <1>8, <1>11, <2>1
    <3> QED BY <3>1, <3>2 DEF NoDuplicates
  <2>2. CASE ~ (i <= Len(pending)) /\ ~ (m <= Len(pending))
    <3>1. i - Len(pending) = m - Len(pending)
      BY <1>8, <1>9, <1>10, <1>11, <2>2
    <3> QED BY <1>5, <3>1
  <2>3. CASE ~ (i <= Len(pending) <=> m <= Len(pending))
    <3>1. \A y \in DOMAIN added : added[y] \notin ToSet(pending)
      BY <1>1, <1>4, <1>6
    <3>2. \A y \in 1..Len(pending) + Len(added) : y <= Len(pending) => y \in DOMAIN pending
      BY <1>5, <1>10
    <3> QED BY <1>7, <1>8, <1>10, <1>11, <2>3, <3>1, <3>2
  <2> QED BY <2>1, <2>2, <2>3
<1>12. NoDuplicates(pending \o added)
  BY <1>8, <1>11 DEF NoDuplicates
<1> QED BY <1>12 DEF added, sigma

(* A refinement cuts a block into two parts that have states.              *)
LEMMA RefineCases ==
  ASSUME IInv, InArrays, KeptTogether, Refine
  PROVE  /\ pc = "loop" /\ pc' = "loop"
         /\ a' = a /\ delta' = delta /\ split' = split
         /\ \E j \in refine :
              /\ refine' = refine \ {j}
              /\ \/ UNCHANGED <<block, k, pending>>
                 \/ /\ k' = k + 1
                    /\ block' = [q \in State |->
                                   IF q \in split /\ block[q] = j THEN k ELSE block[q]]
                    /\ pending' = pending \o
                         [x \in DOMAIN Sigma(a) |-> Smaller(block', j, Sigma(a)[x])]
                    /\ \E s \in State : s \in split /\ block[s] = j
                    /\ \E s \in State : s \notin split /\ block[s] = j
<1>1. pc = "loop" /\ pc' = "loop" /\ a' = a /\ delta' = delta /\ split' = split
  BY DEF Refine
<1>2. Arrays
  BY <1>1 DEF InArrays
<1>3. PICK j \in refine :
        /\ refine' = refine \ {j}
        /\ LET b == [q \in State |-> IF q \in split /\ block[q] = j THEN k ELSE block[q]]
               sigma == Sigma(a)
           IN  IF Members(b, j) # {}
               THEN /\ block' = b
                    /\ k' = k + 1
                    /\ pending' = pending \o [x \in DOMAIN sigma |-> Smaller(b, j, sigma[x])]
               ELSE UNCHANGED <<block, k, pending>>
  BY DEF Refine
<1> DEFINE b == [q \in State |-> IF q \in split /\ block[q] = j THEN k ELSE block[q]]
<1>4. CASE Members(b, j) = {}
  BY <1>1, <1>3, <1>4
<1>5. CASE Members(b, j) # {}
  <2>1. /\ block' = b /\ k' = k + 1
        /\ pending' = pending \o [x \in DOMAIN Sigma(a) |-> Smaller(block', j, Sigma(a)[x])]
    BY <1>3, <1>5
  <2>2. \E s \in State : s \in split /\ block[s] = j
    BY <1>2 DEF Arrays
  <2>3. k \in Nat /\ j \in 0..k - 1
    BY <1>1 DEF IInv, Typed
  <2>4. \E s \in State : s \notin split /\ block[s] = j
    <3>1. PICK q \in State : b[q] = j
      BY <1>5 DEF Members
    <3>2. j # k
      BY <2>3
    <3>3. j = IF q \in split /\ block[q] = j THEN k ELSE block[q]
      BY <3>1
    <3> QED BY <3>2, <3>3
  <2> QED BY <1>1, <1>3, <2>1, <2>2, <2>4
<1> QED BY <1>4, <1>5

LEMMA RefineInArrays == IInv /\ InArrays /\ KeptTogether /\ Refine => InArrays'
<1> SUFFICES ASSUME IInv, InArrays, KeptTogether, Refine PROVE InArrays'
  OBVIOUS
<1>1. pc = "loop" /\ pc' = "loop" /\ a' = a /\ delta' = delta /\ split' = split
  BY RefineCases
<1>2. PICK j \in refine :
        /\ refine' = refine \ {j}
        /\ \/ UNCHANGED <<block, k, pending>>
           \/ /\ k' = k + 1
              /\ block' = [q \in State |->
                             IF q \in split /\ block[q] = j THEN k ELSE block[q]]
              /\ pending' = pending \o
                   [x \in DOMAIN Sigma(a) |-> Smaller(block', j, Sigma(a)[x])]
              /\ \E s \in State : s \in split /\ block[s] = j
              /\ \E s \in State : s \notin split /\ block[s] = j
  BY RefineCases
<1>3. Typed /\ Together /\ Arrays
  BY <1>1 DEF IInv, InArrays, KeptTogether
<1>4. CASE UNCHANGED <<block, k, pending>>
  <2>1. State' = State /\ Sigma(a') = Sigma(a) /\ Filled'
    BY <1>1, <1>3, <1>4 DEF State, Arrays, Filled
  <2> QED BY <1>1, <1>2, <1>3, <1>4, <2>1 DEF InArrays, Arrays
<1>5. CASE /\ k' = k + 1
           /\ block' = [q \in State |-> IF q \in split /\ block[q] = j THEN k ELSE block[q]]
           /\ pending' = pending \o [x \in DOMAIN Sigma(a) |-> Smaller(block', j, Sigma(a)[x])]
           /\ \E s \in State : s \in split /\ block[s] = j
           /\ \E s \in State : s \notin split /\ block[s] = j
  <2>1. State' = State /\ Sigma(a') = Sigma(a)
    BY <1>1, <1>5 DEF State
  <2>2. k \in Nat /\ j \in 0..k - 1 /\ 0..k' - 1 = 0..k /\ \A q \in State : block[q] \in 0..k - 1
    BY <1>3, <1>5 DEF Typed
  <2>3. \A q \in State : block'[q] = IF q \in split /\ block[q] = j THEN k ELSE block[q]
    BY <1>5
  <2>4. block' \in [State' -> 0..k' - 1]
    <3>1. \A q \in State : block'[q] \in 0..k
      BY <2>2, <2>3
    <3> QED BY <1>5, <2>1, <2>2, <3>1
  <2>5. \A i \in refine' : \E s \in split' : block'[s] = i
    BY <1>1, <1>2, <1>3, <2>3 DEF Arrays
  <2>6. NoDuplicates(pending')
    <3>1. NoDuplicates(Sigma(a)) /\ NoDuplicates(pending)
      BY <1>3 DEF Arrays
    <3>2. NoDuplicates(pending \o [x \in DOMAIN Sigma(a) |-> Smaller(block', j, Sigma(a)[x])])
      BY <1>3, <2>2, <3>1, AddedFresh
    <3> QED BY <1>5, <3>2
  <2>7. Filled'
    <3>1. \A i \in 0..k - 1 : \E q \in State : block[q] = i
      BY <1>2, <1>3, <1>5, UniformTogether DEF Arrays, Filled
    <3>2. ASSUME NEW i \in 0..k PROVE \E q \in State : block'[q] = i
      <4>1. CASE i = k
        BY <1>5, <2>3, <4>1
      <4>2. CASE i = j
        BY <1>5, <2>3, <4>2
      <4>3. CASE i # k /\ i # j
        <5>1. i \in 0..k - 1
          BY <2>2, <4>3
        <5> QED BY <2>3, <3>1, <4>3, <5>1
      <4> QED BY <4>1, <4>2, <4>3
    <3> QED BY <2>1, <2>2, <3>2 DEF Filled
  <2>8. Arrays'
    BY <1>1, <1>3, <2>1, <2>4, <2>5, <2>6, <2>7 DEF Arrays
  <2> QED BY <1>1, <2>8 DEF InArrays
<1> QED BY <1>2, <1>4, <1>5

THEOREM ArraysKept == Spec => []InArrays
<1>1. IInv /\ KeptTogether /\ InArrays /\ [Next]_vars => InArrays'
  <2> SUFFICES ASSUME IInv, KeptTogether, InArrays, [Next]_vars PROVE InArrays'
    OBVIOUS
  <2>1. CASE Start
    BY <2>1, StartInArrays
  <2>2. CASE Take
    BY <2>2, TakeInArrays
  <2>3. CASE Refine
    BY <2>3, RefineInArrays
  <2>4. CASE StartMinimal \/ Build
    BY <2>4 DEF StartMinimal, Build, InArrays
  <2>5. CASE Returned \/ UNCHANGED vars
    <3>1. /\ a' = a /\ delta' = delta /\ block' = block /\ k' = k /\ pending' = pending
          /\ split' = split /\ refine' = refine /\ pc' = pc
      BY <2>5 DEF Returned, vars, loop
    <3>2. Arrays' <=> Arrays
      BY <3>1 DEF Arrays, Filled, State
    <3> QED BY <3>1, <3>2 DEF InArrays
  <2> QED BY <2>1, <2>2, <2>3, <2>4, <2>5 DEF Next
<1> QED BY <1>1, InitInArrays, LoopInvariant, NeverSeparates, PTL DEF Spec

(* The numbers of blocks stay below the number of states, so the arrays    *)
(* of minimizeHopcroft have a cell for each of them, and the queue never   *)
(* holds a pair twice, as pending2 has it.                                 *)
THEOREM TypesCorrect == Spec => []TypeOK
<1>1. ASSUME Typed, Arrays
      PROVE  /\ delta \in [State -> [Letter -> State]]
             /\ block \in [State -> 0..k - 1]
             /\ k <= Cardinality(State)
             /\ refine \subseteq 0..k - 1 /\ split \subseteq State
             /\ \A i \in DOMAIN pending : pending[i] \in (0..k - 1) \X Letter
             /\ \A i, j \in DOMAIN pending : pending[i] = pending[j] => i = j
  <2>1. State # {}
    <3>1. Cardinality(State) # 0
      BY <1>1 DEF Arrays
    <3> QED BY <3>1, FS_EmptySet
  <2>2. Letter = ToSet(Sigma(a))
    BY <1>1, <2>1 DEF Letter, Typed
  <2>3. k <= Cardinality(State)
    <3>1. CASE \A j \in 0..k - 1 : \E q \in State : block[q] = j
      <4>1. block \in Surjection(State, 0..k - 1)
        BY <1>1, <3>1 DEF Surjection, Arrays
      <4>2. Cardinality(0..k - 1) <= Cardinality(State)
        BY <1>1, <4>1, FS_Surjection DEF Arrays
      <4>3. k \in Nat /\ k - 1 \in Int /\ Cardinality(State) \in Nat
        BY <1>1, FS_CardinalityType DEF Typed, Arrays
      <4>4. Cardinality(0..k - 1) = k
        <5>1. Cardinality(0..k - 1) = IF 0 > k - 1 THEN 0 ELSE k - 1 - 0 + 1
          BY <4>3, FS_Interval
        <5> QED BY <4>3, <5>1
      <4> QED BY <4>2, <4>4
    <3>2. CASE k = 2
      <4>1. Cardinality(State) \in Nat /\ Cardinality(State) > 1
        BY <1>1, FS_CardinalityType DEF Arrays
      <4> QED BY <3>2, <4>1
    <3> QED BY <1>1, <3>1, <3>2 DEF Arrays, Filled
  <2>4. /\ pending \in Seq((0..k - 1) \X Letter)
        /\ \A i \in DOMAIN pending : pending[i] \in (0..k - 1) \X Letter
    BY <1>1, <2>2 DEF Typed
  <2> QED BY <1>1, <2>2, <2>3, <2>4 DEF Typed, Arrays, NoDuplicates
<1> DEFINE Place == pc \in {"start", "loop", "done"}
<1>2. Spec => []Place
  <2>1. Init => Place
    BY DEF Init
  <2>2. Place /\ [Next]_vars => Place'
    BY DEF Next, StartMinimal, Start, Take, Refine, Build, Returned, vars
  <2> HIDE DEF Place
  <2> QED BY <2>1, <2>2, PTL DEF Spec
<1>3. Place /\ IInv /\ InArrays => TypeOK
  BY <1>1 DEF IInv, InArrays, TypeOK
<1> HIDE DEF Place
<1> QED BY <1>2, <1>3, LoopInvariant, ArraysKept, PTL

-----------------------------------------------------------------------------
(* What a refinement that splits does to the partition.                    *)
LEMMA BlocksSplit ==
  ASSUME Typed, Arrays, State' = State, NEW j \in 0..k - 1,
         \A q \in State : block'[q] = IF q \in split /\ block[q] = j THEN k ELSE block[q],
         \E s \in State : s \in split /\ block[s] = j,
         \E s \in State : s \notin split /\ block[s] = j
  PROVE  LET B == {q \in State : block[q] = j}
             C == {q \in State : block[q] = j /\ q \in split}
             D == {q \in State : block[q] = j /\ q \notin split}
         IN  /\ B \in Blocks
             /\ C # {} /\ D # {} /\ C \subseteq B /\ D = B \ C /\ C # B
             /\ C \notin Blocks /\ D \notin Blocks /\ C # D
             /\ Blocks' = (Blocks \ {B}) \cup {C, D}
             /\ B \notin Blocks'
<1> DEFINE B == {q \in State : block[q] = j}
           C == {q \in State : block[q] = j /\ q \in split}
           D == {q \in State : block[q] = j /\ q \notin split}
           Old(i) == {q \in State : block[q] = i}
           New(i) == {q \in State : block'[q] = i}
<1>0. k \in Nat /\ j # k /\ \A q \in State : block[q] # k
  BY DEF Typed
<1>1. Blocks = {Old(block[q]) : q \in State}
  BY DEF Blocks, Members, State
<1>2. Blocks' = {New(block'[q]) : q \in State}
  BY DEF Blocks, Members, State
<1>3. \A q \in State : /\ block'[q] = k => New(block'[q]) = C
                       /\ block'[q] = j => New(block'[q]) = D
                       /\ block'[q] # k /\ block'[q] # j =>
                            block[q] = block'[q] /\ New(block'[q]) = Old(block[q]) /\ q \notin B
  BY <1>0
<1>4. PICK s \in State : s \in split /\ block[s] = j
  OBVIOUS
<1>5. PICK t \in State : t \notin split /\ block[t] = j
  OBVIOUS
<1>6. block'[s] = k /\ block'[t] = j
  BY <1>4, <1>5
<1>7. B \in Blocks /\ C # {} /\ D # {} /\ C \subseteq B /\ D = B \ C /\ C # B /\ C # D
  BY <1>1, <1>4, <1>5
<1>8. \A X \in Blocks : s \in X \/ t \in X => X = B
  BY <1>1, <1>4, <1>5
<1>9. C \notin Blocks /\ D \notin Blocks
  <2>1. s \in C /\ t \in D /\ t \notin C /\ s \notin D /\ s \in B /\ t \in B
    BY <1>4, <1>5
  <2> HIDE DEF B, C, D, Old, New
  <2> QED BY <1>8, <2>1
<1>10. C \in Blocks' /\ D \in Blocks'
  BY <1>2, <1>3, <1>4, <1>5, <1>6
<1>11. ASSUME NEW q \in State PROVE New(block'[q]) \in (Blocks \ {B}) \cup {C, D}
  <2>1. CASE block'[q] = k \/ block'[q] = j
    BY <1>3, <2>1
  <2>2. CASE block'[q] # k /\ block'[q] # j
    <3>1. New(block'[q]) = Old(block[q]) /\ q \notin B
      BY <1>3, <2>2
    <3>2. Old(block[q]) \in Blocks /\ q \in Old(block[q])
      BY <1>1
    <3> QED BY <3>1, <3>2
  <2> QED BY <2>1, <2>2
<1>12. ASSUME NEW q \in State, Old(block[q]) # B PROVE Old(block[q]) \in Blocks'
  <2>1. block[q] # j
    BY <1>12
  <2>2. block'[q] # k /\ block'[q] # j
    BY <1>0, <2>1
  <2> QED BY <1>2, <1>3, <2>2
<1>13. Blocks' = (Blocks \ {B}) \cup {C, D}
  <2>1. ASSUME NEW X \in Blocks' PROVE X \in (Blocks \ {B}) \cup {C, D}
    BY <1>2, <1>11
  <2>2. ASSUME NEW X \in Blocks, X # B PROVE X \in Blocks'
    BY <1>1, <1>12, <2>2
  <2> HIDE DEF B, C, D, Old, New
  <2> QED BY <1>10, <2>1, <2>2
<1>14. B \notin Blocks'
  <2> HIDE DEF B, C, D, Old, New
  <2> QED BY <1>7, <1>9, <1>13
<1> QED BY <1>7, <1>9, <1>13, <1>14

LEMMA BlocksFinite ==
  ASSUME IsFiniteSet(State)
  PROVE  IsFiniteSet(Blocks) /\ Cardinality(Blocks) \in Nat
<1>1. Blocks \subseteq SUBSET State
  BY DEF Blocks, Members, State
<1>2. IsFiniteSet(Blocks)
  BY <1>1, FS_SUBSET, FS_Subset
<1> QED BY <1>2, FS_CardinalityType

(* The main loop of minimizeHopcroft ends: each of its steps makes a new   *)
(* block or leaves less to do.                                             *)
THEOREM LoopEnds == Spec => LoopAdvances
<1> DEFINE Advances ==
             pc = "loop" /\ pc' = "loop" =>
               \/ Cardinality(Blocks') > Cardinality(Blocks)
               \/ /\ UNCHANGED block
                  /\ \/ Len(pending') < Len(pending)
                     \/ pending' = pending /\ Cardinality(refine') < Cardinality(refine)
<1>1. ASSUME IInv, InArrays, KeptTogether, Next PROVE Advances \/ UNCHANGED vars
  <2> SUFFICES ASSUME pc = "loop", pc' = "loop" PROVE Advances \/ UNCHANGED vars
    OBVIOUS
  <2>0. Typed /\ Arrays
    BY <1>1 DEF IInv, InArrays
  <2>1. CASE Take
    <3>1. pending \in Seq((0..k - 1) \X ToSet(Sigma(a))) /\ pending # <<>>
      BY <2>0, <2>1 DEF Typed, Take
    <3>2. Len(Tail(pending)) < Len(pending)
      BY <3>1
    <3> QED BY <2>1, <3>2 DEF Take
  <2>2. CASE Refine
    <3>1. PICK j \in refine :
            /\ refine' = refine \ {j}
            /\ \/ UNCHANGED <<block, k, pending>>
               \/ /\ k' = k + 1
                  /\ block' = [q \in State |->
                                 IF q \in split /\ block[q] = j THEN k ELSE block[q]]
                  /\ pending' = pending \o
                       [x \in DOMAIN Sigma(a) |-> Smaller(block', j, Sigma(a)[x])]
                  /\ \E s \in State : s \in split /\ block[s] = j
                  /\ \E s \in State : s \notin split /\ block[s] = j
      BY <1>1, <2>2, RefineCases
    <3>2. CASE UNCHANGED <<block, k, pending>>
      <4>1. IsFiniteSet(refine)
        <5>1. k - 1 \in Int /\ refine \subseteq 0..k - 1
          BY <2>0 DEF Typed
        <5>2. IsFiniteSet(0..k - 1)
          BY <5>1, FS_Interval
        <5> QED BY <5>1, <5>2, FS_Subset
      <4>2. Cardinality(refine') = Cardinality(refine) - 1 /\ Cardinality(refine) \in Nat
        BY <3>1, <4>1, FS_RemoveElement, FS_CardinalityType
      <4>3. Cardinality(refine') < Cardinality(refine)
        BY <4>2
      <4> QED BY <3>2, <4>3
    <3>3. CASE /\ block' = [q \in State |->
                              IF q \in split /\ block[q] = j THEN k ELSE block[q]]
               /\ \E s \in State : s \in split /\ block[s] = j
               /\ \E s \in State : s \notin split /\ block[s] = j
      <4>1. State' = State
        BY <3>3 DEF State
      <4>2. j \in 0..k - 1
        BY <2>0 DEF Typed
      <4>3. \A q \in State : block'[q] = IF q \in split /\ block[q] = j THEN k ELSE block[q]
        BY <3>3
      <4>4. \E B \in Blocks : \E C, D :
              /\ C \notin Blocks /\ D \notin Blocks /\ C # D
              /\ Blocks' = (Blocks \ {B}) \cup {C, D}
        <5> DEFINE B == {q \in State : block[q] = j}
                   C == {q \in State : block[q] = j /\ q \in split}
                   D == {q \in State : block[q] = j /\ q \notin split}
        <5>1. /\ B \in Blocks /\ C \notin Blocks /\ D \notin Blocks /\ C # D
              /\ Blocks' = (Blocks \ {B}) \cup {C, D}
          BY <2>0, <3>3, <4>1, <4>2, <4>3, BlocksSplit
        <5> QED BY <5>1
      <4>5. IsFiniteSet(Blocks) /\ Cardinality(Blocks) \in Nat
        BY <2>0, BlocksFinite DEF Arrays
      <4>6. Cardinality(Blocks') = Cardinality(Blocks) + 1
        BY <4>4, <4>5, CardinalityGrows
      <4>7. Cardinality(Blocks') > Cardinality(Blocks)
        BY <4>5, <4>6
      <4> QED BY <4>7
    <3> QED BY <3>1, <3>2, <3>3
  <2>3. CASE StartMinimal \/ Start \/ Build
    BY <2>3 DEF StartMinimal, Start, Build
  <2>4. CASE Returned
    BY <2>4 DEF Returned
  <2> QED BY <1>1, <2>1, <2>2, <2>3, <2>4 DEF Next
<1>2. IInv /\ InArrays /\ KeptTogether /\ [Next]_vars => [Advances]_vars
  BY <1>1
<1> QED BY <1>2, LoopInvariant, ArraysKept, NeverSeparates, PTL DEF Spec, LoopAdvances

-----------------------------------------------------------------------------
(* minimizeHopcroft implements the construction of the classes.            *)

StatePairs == State \X State

Now == {p \in StatePairs : p[1] \in a.acc <=> p[2] \notin a.acc}

ToldBy(S) == {p \in StatePairs : \E c \in Letter : <<delta[p[1]][c], delta[p[2]][c]>> \in S}

LEMMA ApartLeast ==
  ASSUME IsFiniteSet(State)
  PROVE  /\ Apart \in SUBSET StatePairs
         /\ Now \subseteq Apart
         /\ ToldBy(Apart) \subseteq Apart
         /\ \A D \in SUBSET StatePairs : Now \subseteq D /\ ToldBy(D) \subseteq D => Apart \subseteq D
<1> DEFINE next == [S \in SUBSET StatePairs |-> ToldBy(S)]
           Grown(grow) == grow = [s \in SUBSET StatePairs |->
                                    IF s \cup ToldBy(s) = s THEN s ELSE grow[s \cup ToldBy(s)]]
           r == CHOOSE grow : Grown(grow)
<1>1. Apart = r[Now]
  BY DEF Apart, Closure, Now, ToldBy, StatePairs
<1>2. Monotone(StatePairs, next)
  BY DEF Monotone, ToldBy
<1>3. \A grow : Grown(grow) <=> Closes(grow, StatePairs, next)
  BY DEF Closes
<1>4. Grown(r)
  <2>1. \E grow : Grown(grow)
    BY <1>2, <1>3, ClosesExists
  <2> QED BY <2>1
<1> HIDE DEF r, Grown
<1>5. Closes(r, StatePairs, next)
  BY <1>3, <1>4
<1>6. IsFiniteSet(StatePairs) /\ Now \in SUBSET StatePairs
  BY FS_Product DEF StatePairs, Now
<1> HIDE DEF next
<1>7. IsLeastClosed(r[Now], Now, StatePairs, next)
  BY <1>2, <1>5, <1>6, ClosesLeast
<1>8. \A S \in SUBSET StatePairs : next[S] = ToldBy(S)
  BY DEF next
<1> QED BY <1>1, <1>7, <1>8 DEF IsLeastClosed

(* Two states that are not apart are related, and conversely.              *)
LEMMA AlikeBisimilar ==
  ASSUME Typed, Arrays
  PROVE  /\ Letter = ToSet(Sigma(a))
         /\ Bisimulation(StatePairs \ Apart)
         /\ \A E \in SUBSET StatePairs : Bisimulation(E) => E \cap Apart = {}
<1>1. Letter = ToSet(Sigma(a))
  <2>1. Cardinality(State) # 0
    BY DEF Arrays
  <2>2. State # {}
    BY <2>1, FS_EmptySet
  <2> QED BY <2>2 DEF Letter, Typed
<1>2. /\ Apart \in SUBSET StatePairs
      /\ Now \subseteq Apart
      /\ ToldBy(Apart) \subseteq Apart
      /\ \A D \in SUBSET StatePairs : Now \subseteq D /\ ToldBy(D) \subseteq D => Apart \subseteq D
  BY ApartLeast DEF Arrays
<1>3. Bisimulation(StatePairs \ Apart)
  <2> SUFFICES ASSUME NEW s \in State, NEW t \in State, <<s, t>> \in StatePairs \ Apart
               PROVE  /\ s \in a.acc <=> t \in a.acc
                      /\ \A x \in ToSet(Sigma(a)) : <<delta[s][x], delta[t][x]>> \in StatePairs \ Apart
    BY DEF Bisimulation
  <2>1. <<s, t>> \in StatePairs /\ <<s, t>> \notin Now /\ <<s, t>> \notin ToldBy(Apart)
    BY <1>2
  <2>2. s \in a.acc <=> t \in a.acc
    BY <2>1 DEF Now
  <2>3. ASSUME NEW x \in ToSet(Sigma(a)) PROVE <<delta[s][x], delta[t][x]>> \in StatePairs \ Apart
    <3>1. <<delta[s][x], delta[t][x]>> \notin Apart
      BY <1>1, <2>1 DEF ToldBy
    <3>2. delta[s][x] \in State /\ delta[t][x] \in State
      BY DEF Typed
    <3> QED BY <3>1, <3>2 DEF StatePairs
  <2> QED BY <2>2, <2>3
<1>4. ASSUME NEW E \in SUBSET StatePairs, Bisimulation(E) PROVE E \cap Apart = {}
  <2> DEFINE D == StatePairs \ E
  <2>1. Now \subseteq D
    <3>1. ASSUME NEW p \in Now PROVE p \in D
      <4>1. PICK s \in State, t \in State : p = <<s, t>>
        BY DEF Now, StatePairs
      <4>2. ~ (s \in a.acc <=> t \in a.acc)
        BY <4>1 DEF Now
      <4> QED BY <1>4, <4>1, <4>2 DEF Bisimulation, StatePairs
    <3> QED BY <3>1
  <2>2. ToldBy(D) \subseteq D
    <3>1. ASSUME NEW p \in ToldBy(D) PROVE p \in D
      <4>1. PICK s \in State, t \in State : p = <<s, t>>
        BY DEF ToldBy, StatePairs
      <4>2. PICK c \in Letter : <<delta[s][c], delta[t][c]>> \in D
        BY <4>1 DEF ToldBy
      <4> QED BY <1>1, <1>4, <4>1, <4>2 DEF Bisimulation, StatePairs
    <3> QED BY <3>1
  <2>3. Apart \subseteq D
    <3> HIDE DEF D
    <3>1. D \in SUBSET StatePairs
      BY DEF D
    <3> QED BY <1>2, <2>1, <2>2, <3>1
  <2> QED BY <2>3
<1> QED BY <1>1, <1>3, <1>4

ClassOf(q) == {r \in State : <<q, r>> \notin Apart}

LEMMA ClassesAre == Classes = {ClassOf(q) : q \in State}
BY DEF Classes, ClassOf

(* Blocks hold classes, each state its own class.                          *)
LEMMA ClassesInBlocks ==
  ASSUME Typed, Arrays, Together
  PROVE  /\ \A q \in State : q \in ClassOf(q) /\ ClassOf(q) \subseteq Members(block, block[q])
         /\ \A c \in Classes : \E b \in Blocks : c \subseteq b
         /\ UNION Classes = State
<1>1. ASSUME NEW q \in State PROVE q \in ClassOf(q)
  <2> DEFINE E == {p \in StatePairs : p[1] = p[2]}
  <2>1. Bisimulation(E)
    BY DEF Bisimulation, Typed, StatePairs
  <2>2. <<q, q>> \in E
    BY DEF StatePairs
  <2> HIDE DEF E
  <2>3. E \in SUBSET StatePairs
    BY DEF E
  <2> QED BY <2>1, <2>2, <2>3, AlikeBisimilar DEF ClassOf
<1>2. ASSUME NEW q \in State PROVE ClassOf(q) \subseteq Members(block, block[q])
  <2> SUFFICES ASSUME NEW r \in State, <<q, r>> \notin Apart PROVE block[r] = block[q]
    BY DEF ClassOf, Members, State
  <2> DEFINE E == StatePairs \ Apart
  <2>1. Bisimulation(E) /\ E \in SUBSET StatePairs /\ <<q, r>> \in E
    BY AlikeBisimilar DEF StatePairs
  <2> HIDE DEF E
  <2> QED BY <2>1 DEF Together, StatePairs
<1>3. \A c \in Classes : \E b \in Blocks : c \subseteq b
  BY <1>2, ClassesAre DEF Blocks
<1>4. UNION Classes = State
  BY <1>1, ClassesAre DEF ClassOf
<1> QED BY <1>1, <1>2, <1>3, <1>4

(* When the loop ends the blocks are the classes.                          *)
LEMMA EndsWithClasses ==
  ASSUME Typed, Arrays, Together, Coarsest, pc = "loop", refine = {}, pending = <<>>
  PROVE  Classes = Blocks
<1> DEFINE same == {p \in State \X State : block[p[1]] = block[p[2]]}
<1>1. Bisimulation(same)
  BY DEF Coarsest
<1>2. same \cap Apart = {} /\ same \in SUBSET StatePairs
  <2>1. same \in SUBSET StatePairs
    BY DEF StatePairs
  <2> HIDE DEF same
  <2> QED BY <1>1, <2>1, AlikeBisimilar
<1>3. ASSUME NEW q \in State PROVE ClassOf(q) = Members(block, block[q])
  <2>1. ClassOf(q) \subseteq Members(block, block[q])
    BY ClassesInBlocks
  <2>2. ASSUME NEW r \in Members(block, block[q]) PROVE r \in ClassOf(q)
    <3>1. r \in State /\ <<q, r>> \in same
      BY DEF Members, State
    <3> HIDE DEF same
    <3> QED BY <1>2, <3>1 DEF ClassOf
  <2> QED BY <2>1, <2>2
<1> QED BY <1>3, ClassesAre DEF Blocks

LEMMA ClassesKept ==
  ASSUME a' = a, delta' = delta, State' = State
  PROVE  Classes' = Classes
BY DEF Classes, Apart, Closure, Letter

(* The variables of the abstract specification.                            *)
classes == CASE pc = "start" -> {}
             [] pc = "loop" -> Classes
             [] pc = "done" -> Blocks

LEMMA NoBlocksYet ==
  ASSUME block = <<>>
  PROVE  Blocks = {}
BY DEF Blocks, State

BlocksHoldClasses ==
  /\ \A c \in Classes : \E b \in Blocks : c \subseteq b
  /\ UNION Classes = State

LEMMA HoldClassesNext == Typed' /\ Arrays' /\ Together' => BlocksHoldClasses'
<1>1. Typed /\ Arrays /\ Together => BlocksHoldClasses
  BY ClassesInBlocks DEF BlocksHoldClasses
<1> QED BY <1>1, PTL

LEMMA StartBegins ==
  ASSUME IInv, InArrays, Start, IInv', InArrays', KeptTogether'
  PROVE  Abstract!Begin
<1>1. /\ pc = "start" /\ pc' = "loop" /\ k' = 2 /\ block = <<>>
  BY DEF Start, InArrays
<1>2. Blocks = {}
  BY <1>1, NoBlocksYet
<1>3. Typed' /\ Arrays' /\ Together'
  BY <1>1 DEF IInv, InArrays, KeptTogether
<1>4. /\ \A q \in State' : block'[q] \in {0, 1}
      /\ State' = DOMAIN block'
  <2>1. block' \in [State' -> 0..k' - 1] /\ 0..k' - 1 = {0, 1}
    BY <1>1, <1>3 DEF Arrays
  <2> QED BY <2>1 DEF State
<1>5. \E q \in State' : TRUE
  <2>1. Cardinality(State') # 0
    BY <1>3 DEF Arrays
  <2> QED BY <2>1, FS_EmptySet
<1> DEFINE M(j) == Members(block', j)
<1>6. Blocks' = {M(block'[q]) : q \in State'}
  BY DEF Blocks
<1> HIDE DEF M
<1>7. \E b \in Blocks', c \in Blocks' : Blocks' = {b, c}
  <2>1. PICK q \in State' : TRUE
    BY <1>5
  <2>2. CASE \A r \in State' : block'[r] = block'[q]
    BY <1>6, <2>1, <2>2
  <2>3. CASE \E r \in State' : block'[r] # block'[q]
    <3>1. PICK r \in State' : block'[r] # block'[q]
      BY <2>3
    <3>2. \A s \in State' : block'[s] \in {block'[q], block'[r]}
      BY <1>4, <3>1
    <3>3. Blocks' = {M(block'[q]), M(block'[r])}
      BY <1>6, <3>2
    <3> QED BY <1>6, <3>3
  <2> QED BY <2>2, <2>3
<1>8. UNION Blocks' = State'
  <2>1. \A q \in State' : q \in M(block'[q])
    BY <1>4 DEF M, Members
  <2>2. \A j : M(j) \subseteq State'
    BY <1>4 DEF M, Members
  <2> QED BY <1>6, <2>1, <2>2
<1>9. /\ \A c \in Classes' : \E b \in Blocks' : c \subseteq b
      /\ UNION Classes' = State'
  <2> QED BY <1>3, HoldClassesNext DEF BlocksHoldClasses
<1>10. classes' = Classes'
  BY <1>1 DEF classes
<1> QED BY <1>2, <1>7, <1>8, <1>9, <1>10 DEF Abstract!Begin, Abstract!Respects, classes

LEMMA RefineSplits ==
  ASSUME IInv, InArrays, KeptTogether, Refine, block' # block, IInv', InArrays', KeptTogether'
  PROVE  Abstract!Split
<1>1. pc = "loop" /\ pc' = "loop" /\ Typed /\ Arrays /\ Typed' /\ Arrays' /\ Together'
  BY DEF Refine, IInv, InArrays, KeptTogether
<1>2. PICK j \in refine :
        /\ refine' = refine \ {j}
        /\ \/ UNCHANGED <<block, k, pending>>
           \/ /\ k' = k + 1
              /\ block' = [q \in State |->
                             IF q \in split /\ block[q] = j THEN k ELSE block[q]]
              /\ pending' = pending \o
                   [x \in DOMAIN Sigma(a) |-> Smaller(block', j, Sigma(a)[x])]
              /\ \E s \in State : s \in split /\ block[s] = j
              /\ \E s \in State : s \notin split /\ block[s] = j
  BY RefineCases
<1>3. /\ block' = [q \in State |-> IF q \in split /\ block[q] = j THEN k ELSE block[q]]
      /\ \E s \in State : s \in split /\ block[s] = j
      /\ \E s \in State : s \notin split /\ block[s] = j
  BY <1>2
<1>4. State' = State /\ j \in 0..k - 1
  BY <1>1, <1>3 DEF State, Typed
<1>5. \A q \in State : block'[q] = IF q \in split /\ block[q] = j THEN k ELSE block[q]
  BY <1>3
<1>6. \E B, C, D : /\ B \in Blocks /\ C # {} /\ D = B \ C /\ C \subseteq B /\ C # B
                   /\ Blocks' = (Blocks \ {B}) \cup {C, D}
                   /\ B \notin Blocks'
  <2> DEFINE B == {q \in State : block[q] = j}
             C == {q \in State : block[q] = j /\ q \in split}
             D == {q \in State : block[q] = j /\ q \notin split}
  <2>1. /\ B \in Blocks /\ C # {} /\ D = B \ C /\ C \subseteq B /\ C # B
        /\ Blocks' = (Blocks \ {B}) \cup {C, D}
        /\ B \notin Blocks'
    BY <1>1, <1>3, <1>4, <1>5, BlocksSplit
  <2> QED BY <2>1
<1>7. a' = a /\ delta' = delta
  BY DEF Refine
<1>8. Classes' = Classes
  BY <1>4, <1>7, ClassesKept
<1>9. BlocksHoldClasses'
  BY <1>1, HoldClassesNext
<1>10. \A c \in Classes' : \E b \in Blocks' : c \subseteq b
  BY <1>9 DEF BlocksHoldClasses
<1>11. classes' = classes /\ classes' = Classes'
  BY <1>1, <1>8 DEF classes
<1>12. \E b \in Blocks \ Blocks' :
          \E c \in (SUBSET b) \ {{}, b} : Blocks' = (Blocks \ {b}) \cup {c, b \ c}
  BY <1>6
<1>13. Abstract!Respects'
  BY <1>10, <1>11 DEF Abstract!Respects, classes
<1> QED BY <1>11, <1>12, <1>13 DEF Abstract!Split, classes

(* minimizeHopcroft starts from at most two blocks, splits one block at a  *)
(* time without ever separating states that no word tells apart, and ends  *)
(* with the classes of those states (MyhillNerode).                        *)
THEOREM ImplementsMyhillNerode == Spec => FindsClasses
<1>1. Init => Abstract!Init
  BY NoBlocksYet DEF Init, Abstract!Init
<1>2. IInv /\ InArrays /\ KeptTogether /\ Coarsest /\ [Next]_vars /\ IInv' /\ InArrays'
        /\ KeptTogether' => [Abstract!Next]_<<classes, Blocks>>
  <2> SUFFICES ASSUME IInv, InArrays, KeptTogether, Coarsest, [Next]_vars,
                      IInv', InArrays', KeptTogether'
               PROVE  [Abstract!Next]_<<classes, Blocks>>
    OBVIOUS
  <2>1. CASE Start
    BY <2>1, StartBegins DEF Abstract!Next
  <2>2. ASSUME a' = a, delta' = delta, block' = block, pc' = pc
        PROVE  UNCHANGED <<classes, Blocks>>
    <3>1. State' = State /\ Blocks' = Blocks
      BY <2>2 DEF State, Blocks
    <3>2. Classes' = Classes
      BY <2>2, <3>1, ClassesKept
    <3> QED BY <2>2, <3>1, <3>2 DEF classes
  <2>3. CASE Take \/ Returned \/ UNCHANGED vars
    <3>1. a' = a /\ delta' = delta /\ block' = block /\ pc' = pc
      BY <2>3 DEF Take, Returned, vars, loop
    <3> QED BY <2>2, <3>1
  <2>4. CASE Refine
    <3>1. CASE block' = block
      BY <2>2, <2>4, <3>1 DEF Refine
    <3>2. CASE block' # block
      BY <2>4, <3>2, RefineSplits DEF Abstract!Next
    <3> QED BY <3>1, <3>2
  <2>5. CASE StartMinimal
    <3>1. block = <<>> /\ block' = block /\ pc = "start" /\ pc' = "done"
      BY <2>5 DEF StartMinimal, InArrays, loop
    <3>2. Blocks = {} /\ Blocks' = Blocks
      BY <3>1, NoBlocksYet DEF Blocks, State
    <3> QED BY <3>1, <3>2 DEF classes
  <2>6. CASE Build
    <3>1. pc = "loop" /\ refine = {} /\ pending = <<>> /\ pc' = "done" /\ block' = block
      BY <2>6 DEF Build, loop
    <3>2. Classes = Blocks
      BY <3>1, EndsWithClasses DEF IInv, InArrays, KeptTogether
    <3>3. Blocks' = Blocks
      BY <3>1 DEF Blocks, State
    <3> QED BY <3>1, <3>2, <3>3 DEF classes
  <2> QED BY <2>1, <2>3, <2>4, <2>5, <2>6 DEF Next
<1> QED BY <1>1, <1>2, LoopInvariant, ArraysKept, NeverSeparates, EndsCoarsest, PTL
        DEF Spec, FindsClasses, Abstract!Spec, classes

-----------------------------------------------------------------------------
(* Where words lead.                                                       *)

(* New names for the states: a word leads to the new names of the states   *)
(* that it led to.                                                         *)
Renames(f, m, n) == \A w \in Seq(Char) : After(n, w) = {f[q] : q \in After(m, w)}

LEMMA NumberedAfter ==
  ASSUME NEW Q, NEW m, IsAutomaton(m, Q)
  PROVE  \E f : Renames(f, m, Numbered(m))
<1>1. PICK number : IsNumbering(number, m) /\ Numbered(m) = Rename(m, number)
  BY NumberedAutomaton
<1>2. /\ DOMAIN number = GetStates(m)
      /\ \A p, q \in GetStates(m) : number[p] = number[q] => p = q
      /\ number[m.q0] = 0
  BY <1>1 DEF IsNumbering
<1> DEFINE n == Rename(m, number)
           Image(S) == {number[q] : q \in S}
           G == GetStates(m)
<1>3. /\ n.q0 = 0
      /\ n.trans = {<<number[t[1]], t[2], t[3], number[t[4]]>> : t \in {u \in m.trans : u[1] \in G}}
  BY <1>2 DEF Rename, Explicit
<1>4. IsFiniteSet(m.trans) /\ \A t \in m.trans : t[1] \in G => t[4] \in G
  BY Reachable DEF IsAutomaton
<1> HIDE DEF n
<1>5. ASSUME NEW S \in SUBSET G, NEW c PROVE Step(n, Image(S), c) = Image(Step(m, S, c))
  <2>1. ASSUME NEW x \in Step(n, Image(S), c) PROVE x \in Image(Step(m, S, c))
    <3>1. PICK u \in n.trans : u[1] \in Image(S) /\ u[2] <= c /\ c <= u[3] /\ u[4] = x
      BY <2>1, StepBy
    <3>2. PICK t \in m.trans : t[1] \in G /\ u = <<number[t[1]], t[2], t[3], number[t[4]]>>
      BY <1>3
    <3>3. PICK p \in S : number[t[1]] = number[p]
      BY <3>1, <3>2
    <3>4. t[1] \in S
      BY <1>2, <3>2, <3>3
    <3>5. t[4] \in Step(m, S, c)
      BY <3>1, <3>2, <3>4, StepBy
    <3> QED BY <3>1, <3>2, <3>5
  <2>2. ASSUME NEW q \in Step(m, S, c) PROVE number[q] \in Step(n, Image(S), c)
    <3>1. PICK t \in m.trans : t[1] \in S /\ t[2] <= c /\ c <= t[3] /\ t[4] = q
      BY <2>2, StepBy
    <3> DEFINE u == <<number[t[1]], t[2], t[3], number[t[4]]>>
    <3>2. u \in n.trans
      BY <1>3, <3>1
    <3>3. u[1] \in Image(S) /\ u[2] <= c /\ c <= u[3] /\ u[4] = number[q]
      BY <3>1
    <3> HIDE DEF u
    <3> QED BY <3>2, <3>3, StepBy
  <2> QED BY <2>1, <2>2
<1> DEFINE T == {v \in Seq(Char) : After(n, v) = Image(After(m, v))}
<1>6. <<>> \in T
  <2>1. Image({m.q0}) = {0}
    BY <1>2
  <2> QED BY <1>3, <2>1, AfterAppend
<1>7. ASSUME NEW v \in Seq(Char), NEW c \in Char, v \in T PROVE Append(v, c) \in T
  <2>1. After(m, v) \in SUBSET G
    BY <1>4, AfterReachable
  <2>2. Step(n, Image(After(m, v)), c) = Image(Step(m, After(m, v), c))
    BY <1>5, <2>1
  <2>3. After(n, Append(v, c)) = Step(n, After(n, v), c) /\ After(n, v) = Image(After(m, v))
    <3>1. After(n, Append(v, c)) = Step(n, After(n, v), c)
      BY AfterAppend
    <3> QED BY <1>7, <3>1
  <2>4. After(m, Append(v, c)) = Step(m, After(m, v), c)
    BY AfterAppend
  <2>5. Append(v, c) \in Seq(Char)
    OBVIOUS
  <2>6. After(n, Append(v, c)) = Image(After(m, Append(v, c)))
    BY <2>2, <2>3, <2>4
  <2> QED BY <2>5, <2>6
<1> HIDE DEF T
<1>8. Seq(Char) \subseteq T
  BY <1>6, <1>7, WordInduction
<1>9. Renames(number, m, n)
  BY <1>8 DEF T, Renames
<1> QED BY <1>1, <1>9 DEF n

(* Every state that getStates lists has a word that leads to it.           *)
LEMMA ReachedByWord ==
  ASSUME NEW m, IsAutomaton(m, Nat), NEW p \in GetStates(m)
  PROVE  \E u \in Seq(Char) : p \in After(m, u)
<1> DEFINE D == {q \in Ends(m) : \E u \in Seq(Char) : q \in After(m, u)}
           nil == <<>>
<1>1. IsFiniteSet(m.trans)
  BY DEF IsAutomaton
<1>2. m.q0 \in Ends(m) /\ \A t \in m.trans : t[4] \in Ends(m)
  BY DEF Ends
<1>3. m.q0 \in D
  <2>1. nil \in Seq(Char) /\ After(m, nil) = {m.q0}
    BY AfterAppend
  <2> HIDE DEF nil
  <2> QED BY <1>2, <2>1
<1>4. ASSUME NEW t \in m.trans, t[1] \in D PROVE t[4] \in D
  <2>1. PICK u \in Seq(Char) : t[1] \in After(m, u)
    BY <1>4
  <2> DEFINE uc == Append(u, t[2])
  <2>2. t[2] \in Char /\ t[2] <= t[2] /\ t[2] <= t[3]
    <3>1. t[2] \in Char /\ t[2] \in Nat /\ t[2] <= t[3]
      BY Transition
    <3> QED BY <3>1
  <2>3. uc \in Seq(Char) /\ After(m, uc) = Step(m, After(m, u), t[2])
    BY <2>2, AfterAppend
  <2> HIDE DEF uc
  <2>4. t[4] \in After(m, uc)
    BY <2>1, <2>2, <2>3, StepBy
  <2> QED BY <1>2, <2>3, <2>4
<1> HIDE DEF D
<1>5. D \subseteq Ends(m)
  BY DEF D
<1>6. GetStates(m) \subseteq D
  BY <1>1, <1>3, <1>4, <1>5, Reachable
<1> QED BY <1>6 DEF D

(* From a state that a word leads to alone, words lead where they do after *)
(* that word.                                                              *)
From(m, p) == [m EXCEPT !.q0 = p]

GoesOn(n, m, u) == \A w \in Seq(Char) : After(n, w) = After(m, u \o w)

LEMMA ContinuedFrom ==
  ASSUME NEW m, NEW u \in Seq(Char), NEW p, After(m, u) = {p},
         NEW n, n.q0 = p, n.trans = m.trans
  PROVE  GoesOn(n, m, u)
<1> DEFINE T == {w \in Seq(Char) : After(n, w) = After(m, u \o w)}
<1>1. <<>> \in T
  <2>1. u \o <<>> = u /\ <<>> \in Seq(Char) /\ After(n, <<>>) = {p}
    BY AfterAppend
  <2> QED BY <2>1
<1>2. ASSUME NEW w \in Seq(Char), NEW c \in Char, w \in T PROVE Append(w, c) \in T
  <2>1. /\ u \o w \in Seq(Char) /\ u \o Append(w, c) = Append(u \o w, c)
        /\ Append(w, c) \in Seq(Char)
    OBVIOUS
  <2>2. After(m, Append(u \o w, c)) = Step(m, After(m, u \o w), c)
    <3> DEFINE x == u \o w
    <3>1. x \in Seq(Char)
      BY <2>1
    <3> HIDE DEF x
    <3>2. After(m, Append(x, c)) = Step(m, After(m, x), c)
      BY <3>1, AfterAppend
    <3> QED BY <3>2 DEF x
  <2>3. After(n, Append(w, c)) = Step(n, After(n, w), c)
    BY AfterAppend
  <2>4. \A S : Step(n, S, c) = Step(m, S, c)
    BY DEF Step
  <2>5. After(n, w) = After(m, u \o w)
    BY <1>2
  <2> QED BY <2>1, <2>2, <2>3, <2>4, <2>5
<1> HIDE DEF T
<1>3. Seq(Char) \subseteq T
  BY <1>1, <1>2, WordInduction
<1> QED BY <1>3 DEF T, GoesOn

(* Two words after which the same words are accepted.                      *)
Alike(m, u, v) == \A w \in Seq(Char) : Accepts(m, u \o w) <=> Accepts(m, v \o w)

(* Such words lead to the same states, if anywhere.                        *)
Distinct(m) ==
  \A u, v \in Seq(Char) :
    Alike(m, u, v) /\ After(m, u) # {} /\ After(m, v) # {} => After(m, u) = After(m, v)

(* Sequences that end alike begin alike, and have a last letter.           *)
LEMMA SameRest ==
  ASSUME NEW S, NEW u \in Seq(S), NEW v \in Seq(S), NEW w \in Seq(S), u \o w = v \o w
  PROVE  u = v
<1>1. Len(u) = Len(v) /\ Len(u) \in Nat
  <2>1. Len(u \o w) = Len(u) + Len(w) /\ Len(v \o w) = Len(v) + Len(w)
    OBVIOUS
  <2>2. Len(u) \in Nat /\ Len(v) \in Nat /\ Len(w) \in Nat
    OBVIOUS
  <2> QED BY <2>1, <2>2
<1>2. \A i \in 1..Len(u) : u[i] = (u \o w)[i]
  OBVIOUS
<1>3. \A i \in 1..Len(v) : v[i] = (v \o w)[i]
  OBVIOUS
<1>4. \A i \in 1..Len(u) : u[i] = v[i]
  BY <1>1, <1>2, <1>3
<1> QED BY <1>1, <1>4, SeqEqual

LEMMA LastLetter ==
  ASSUME NEW S, NEW u \in Seq(S), u # <<>>
  PROVE  \E s \in Seq(S), c \in S : u = Append(s, c)
<1> DEFINE T == {w \in Seq(S) : w = <<>> \/ \E s \in Seq(S), c \in S : w = Append(s, c)}
<1>1. <<>> \in T
  OBVIOUS
<1>2. ASSUME NEW w \in Seq(S), NEW x \in S PROVE Append(w, x) \in T
  <2>1. Append(w, x) \in Seq(S)
    OBVIOUS
  <2> QED BY <2>1
<1> HIDE DEF T
<1>3. Seq(S) \subseteq T
  BY <1>1, <1>2, WordInduction
<1> QED BY <1>3 DEF T

LEMMA LetterBetween ==
  ASSUME NEW S, NEW u \in Seq(S), NEW x \in S, NEW w \in Seq(S)
  PROVE  <<x>> \o w \in Seq(S) /\ Append(u, x) \o w = u \o (<<x>> \o w)
<1> DEFINE r == <<x>> \o w
           y == Append(u, x) \o w
           z == u \o r
<1>1. r \in Seq(S) /\ Len(r) = Len(w) + 1 /\ r[1] = x /\ \A i \in 1..Len(w) : r[i + 1] = w[i]
  OBVIOUS
<1>2. y \in Seq(S) /\ Len(y) = Len(u) + 1 + Len(w)
  OBVIOUS
<1>3. z \in Seq(S) /\ Len(z) = Len(u) + Len(r)
  BY <1>1
<1>4. Len(u) \in Nat /\ Len(w) \in Nat
  OBVIOUS
<1>5. ASSUME NEW i \in 1..Len(y) PROVE y[i] = z[i]
  <2>1. CASE i <= Len(u)
    BY <1>1, <1>4, <2>1
  <2>2. CASE i = Len(u) + 1
    BY <1>1, <1>4, <2>2
  <2>3. CASE i > Len(u) + 1
    <3> DEFINE j == i - Len(u) - 1
    <3>1. j \in 1..Len(w) /\ i = Len(u) + (j + 1) /\ i = (Len(u) + 1) + j
      BY <1>2, <1>4, <2>3
    <3> HIDE DEF j
    <3>2. y[i] = w[j]
      BY <1>4, <3>1
    <3>3. z[i] = r[j + 1]
      BY <1>1, <1>4, <3>1
    <3> QED BY <1>1, <3>1, <3>2, <3>3
  <2> QED BY <1>2, <1>4, <2>1, <2>2, <2>3
<1>6. Len(y) = Len(z)
  BY <1>1, <1>2, <1>3, <1>4
<1> HIDE DEF y, z
<1>7. y = z
  BY <1>2, <1>3, <1>5, <1>6, SeqEqual
<1> QED BY <1>1, <1>7 DEF y, z

(* Then no two states accept the same, as subsetOf has it.                 *)
LEMMA DistinctStates ==
  ASSUME NEW e, Tidy(e), e.det, ~ IsSingleton(e), Distinct(e),
         NEW p \in GetStates(e), NEW q \in GetStates(e), p # q
  PROVE  ~ (SubsetOf(From(e, p), From(e, q)) /\ SubsetOf(From(e, q), From(e, p)))
<1> DEFINE ep == From(e, p)
           eq == From(e, q)
<1>1. Sound(e) /\ IsAutomaton(e, Nat) /\ IsDeterministic(e) /\ NoneDead(e)
  BY DEF Tidy, Sound, IsHonest
<1>2. p \in Nat /\ q \in Nat
  BY <1>1, Parts
<1>3. ASSUME NEW r \in Nat
      PROVE  /\ Tidy(From(e, r)) /\ ~ IsSingleton(From(e, r))
             /\ From(e, r).q0 = r /\ From(e, r).trans = e.trans /\ From(e, r).acc = e.acc
  <2> DEFINE m == From(e, r)
  <2>1. e \in [word : SUBSET Seq(Char), q0 : Nat, acc : SUBSET Nat,
               trans : SUBSET (Nat \X Char \X Char \X Nat), det : BOOLEAN]
    BY <1>1 DEF IsAutomaton
  <2>2. /\ m.q0 = r /\ m.trans = e.trans /\ m.acc = e.acc /\ m.word = e.word /\ m.det = e.det
        /\ m \in [word : SUBSET Seq(Char), q0 : Nat, acc : SUBSET Nat,
                  trans : SUBSET (Nat \X Char \X Char \X Nat), det : BOOLEAN]
    BY <2>1 DEF From
  <2> HIDE DEF m
  <2>3. IsAutomaton(m, Nat)
    BY <1>1, <2>2 DEF IsAutomaton
  <2>4. IsDeterministic(m)
    BY <1>1, <2>2 DEF IsDeterministic
  <2>5. Productive(e) \subseteq Productive(m)
    BY <2>2, ProductiveGrows
  <2>6. NoneDead(m)
    BY <1>1, <2>2, <2>5 DEF NoneDead
  <2>7. ~ IsSingleton(m)
    BY <2>2 DEF IsSingleton
  <2> QED BY <2>2, <2>3, <2>4, <2>6, <2>7 DEF Tidy, Sound, IsHonest, m
<1>4. PICK u \in Seq(Char) : p \in After(e, u)
  BY <1>1, ReachedByWord
<1>5. PICK v \in Seq(Char) : q \in After(e, v)
  BY <1>1, ReachedByWord
<1>6. After(e, u) = {p} /\ After(e, v) = {q}
  BY <1>1, <1>4, <1>5, OneAfter
<1>7. /\ Tidy(ep) /\ ~ IsSingleton(ep) /\ ep.q0 = p /\ ep.trans = e.trans /\ ep.acc = e.acc
      /\ Tidy(eq) /\ ~ IsSingleton(eq) /\ eq.q0 = q /\ eq.trans = e.trans /\ eq.acc = e.acc
  BY <1>2, <1>3
<1>8. Sound(ep) /\ Sound(eq)
  BY <1>7 DEF Tidy
<1> HIDE DEF ep, eq
<1>9. \A w \in Seq(Char) : /\ Run(ep, w) <=> Accepts(e, u \o w)
                           /\ Run(eq, w) <=> Accepts(e, v \o w)
  <2> SUFFICES ASSUME NEW w \in Seq(Char)
               PROVE  (Run(ep, w) <=> Accepts(e, u \o w)) /\ (Run(eq, w) <=> Accepts(e, v \o w))
    OBVIOUS
  <2>1. GoesOn(ep, e, u)
    BY <1>4, <1>6, <1>7, ContinuedFrom
  <2>2. GoesOn(eq, e, v)
    BY <1>5, <1>6, <1>7, ContinuedFrom
  <2>3. (Run(ep, w) <=> Accepts(ep, w)) /\ (Run(eq, w) <=> Accepts(eq, w))
    BY <1>7, RunExplicit
  <2>4. After(ep, w) = After(e, u \o w) /\ After(eq, w) = After(e, v \o w)
    BY <2>1, <2>2 DEF GoesOn
  <2> QED BY <1>7, <2>3, <2>4 DEF Accepts
<1>10. ASSUME SubsetOf(ep, eq), SubsetOf(eq, ep) PROVE FALSE
  <2>1. \A w \in Seq(Char) : Run(ep, w) => Run(eq, w)
    BY <1>7, <1>8, <1>10, SubsetOfRun
  <2>2. \A w \in Seq(Char) : Run(eq, w) => Run(ep, w)
    BY <1>7, <1>8, <1>10, SubsetOfRun
  <2>3. Alike(e, u, v)
    BY <1>9, <2>1, <2>2 DEF Alike
  <2>4. After(e, u) = After(e, v)
    BY <1>6, <2>3 DEF Distinct
  <2> QED BY <1>6, <2>4
<1> QED BY <1>10 DEF ep, eq

(* The line of states that a singleton is expanded to.                     *)
LEMMA LineDistinct ==
  ASSUME NEW m, Tidy(m), IsSingleton(m)
  PROVE  Distinct(ExpandSingleton(m))
<1> DEFINE e == ExpandSingleton(m)
<1>1. Sound(m) /\ NoneDead(m)
  BY DEF Tidy
<1>2. Sound(e) /\ NoneDead(e)
  BY <1>1, Expanded
<1>3. \A w : Run(m, w) <=> Accepts(e, w)
  BY RunIs
<1> HIDE DEF e
<1>4. PICK x \in Seq(Char) : \A w \in Seq(Char) : Accepts(e, w) <=> w = x
  BY <1>1, <1>3, OneWord
<1>5. IsAutomaton(e, Nat)
  BY <1>2 DEF Sound
<1>6. ASSUME NEW u \in Seq(Char), NEW v \in Seq(Char), Alike(e, u, v) PROVE Continued(e, u) => u = v
  <2> SUFFICES ASSUME Continued(e, u) PROVE u = v
    OBVIOUS
  <2>1. PICK w \in Seq(Char) : Accepts(e, u \o w)
    BY DEF Continued
  <2>2. Accepts(e, v \o w) /\ u \o w \in Seq(Char) /\ v \o w \in Seq(Char)
    BY <1>6, <2>1 DEF Alike
  <2>3. u \o w = v \o w
    BY <1>4, <2>1, <2>2
  <2> QED BY <2>3, SameRest
<1>7. ASSUME NEW u \in Seq(Char), After(e, u) # {} PROVE u = <<>> \/ Continued(e, u)
  <2>1. CASE u = <<>>
    BY <2>1
  <2>2. CASE u # <<>>
    <3>1. PICK s \in Seq(Char), c \in Char : u = Append(s, c)
      BY <2>2, LastLetter
    <3>2. After(e, u) = Step(e, After(e, s), c)
      BY <3>1, AfterAppend
    <3>3. PICK q \in After(e, u) : TRUE
      BY <1>7
    <3>4. PICK t \in e.trans : t[4] = q
      BY <3>2, <3>3, StepBy
    <3>5. q \in Productive(e)
      BY <1>2, <3>4 DEF NoneDead
    <3> QED BY <1>5, <3>3, <3>5, ProductiveContinues
  <2> QED BY <2>1, <2>2
<1>8. ASSUME NEW u \in Seq(Char), NEW v \in Seq(Char), Alike(e, u, v),
             After(e, u) # {}, After(e, v) # {}
      PROVE  After(e, u) = After(e, v)
  <2>1. Alike(e, v, u)
    BY <1>8 DEF Alike
  <2>2. Continued(e, u) => u = v
    BY <1>6, <1>8
  <2>3. Continued(e, v) => v = u
    BY <1>6, <2>1
  <2>4. u = <<>> \/ Continued(e, u)
    BY <1>7, <1>8
  <2>5. v = <<>> \/ Continued(e, v)
    BY <1>7, <1>8
  <2>6. u = v
    BY <2>2, <2>3, <2>4, <2>5
  <2> QED BY <2>6
<1> QED BY <1>8 DEF Distinct, e

(* One state that stays where it is.                                       *)
LEMMA LoopDistinct ==
  ASSUME NEW m, IsLoop(m)
  PROVE  Distinct(m) /\ \A w \in Seq(Char) : After(m, w) \subseteq {m.q0}
<1> DEFINE T == {w \in Seq(Char) : After(m, w) \subseteq {m.q0}}
<1>1. \A t \in m.trans : t[1] = m.q0 => t[4] = m.q0
  BY DEF IsLoop
<1>2. <<>> \in T
  BY AfterAppend
<1>3. ASSUME NEW w \in Seq(Char), NEW c \in Char, w \in T PROVE Append(w, c) \in T
  <2>1. After(m, Append(w, c)) = Step(m, After(m, w), c) /\ After(m, w) \subseteq {m.q0}
    BY <1>3, AfterAppend
  <2>2. Step(m, After(m, w), c) \subseteq {m.q0}
    BY <1>1, <2>1, StepBy
  <2> QED BY <2>1, <2>2
<1> HIDE DEF T
<1>4. Seq(Char) \subseteq T
  BY <1>2, <1>3, WordInduction
<1>5. \A w \in Seq(Char) : After(m, w) \subseteq {m.q0}
  BY <1>4 DEF T
<1>6. ASSUME NEW u \in Seq(Char), NEW v \in Seq(Char), After(m, u) # {}, After(m, v) # {}
      PROVE  After(m, u) = After(m, v)
  <2> DEFINE x == After(m, u)
             y == After(m, v)
  <2>1. x \subseteq {m.q0} /\ y \subseteq {m.q0} /\ x # {} /\ y # {}
    BY <1>5, <1>6
  <2> HIDE DEF x, y
  <2>2. x = {m.q0}
    BY <2>1
  <2>3. y = {m.q0}
    BY <2>1
  <2> QED BY <2>2, <2>3 DEF x, y
<1> QED BY <1>5, <1>6 DEF Distinct

-----------------------------------------------------------------------------
(* An automaton of which each state has one next state for each letter.    *)
Complete(t) ==
  /\ IsAutomaton(t, Nat) /\ IsDeterministic(t)
  /\ \A p \in GetStates(t), c \in Char :
       \E e \in t.trans : e[1] = p /\ e[2] <= c /\ c <= e[3]

LEMMA OneStep ==
  ASSUME NEW t, Complete(t), NEW p \in GetStates(t), NEW c \in Char
  PROVE  \E q \in GetStates(t) : Step(t, {p}, c) = {q}
<1>1. IsAutomaton(t, Nat) /\ IsDeterministic(t) /\ IsFiniteSet(t.trans)
  BY DEF Complete, IsAutomaton
<1>2. PICK e \in t.trans : e[1] = p /\ e[2] <= c /\ c <= e[3]
  BY DEF Complete
<1>3. e[4] \in Step(t, {p}, c)
  BY <1>2, StepBy
<1>4. ASSUME NEW q \in Step(t, {p}, c) PROVE q = e[4]
  <2>1. PICK u \in t.trans : u[1] = p /\ u[2] <= c /\ c <= u[3] /\ u[4] = q
    BY <1>4, StepBy
  <2>2. /\ u[2] \in Nat /\ u[3] \in Nat /\ e[2] \in Nat /\ e[3] \in Nat
    BY <1>1, Transition
  <2>3. c \in Nat
    BY CharAssumption DEF Char
  <2>4. u[2] <= e[3] /\ e[2] <= u[3]
    BY <1>2, <2>1, <2>2, <2>3
  <2> QED BY <1>1, <1>2, <2>1, <2>4 DEF IsDeterministic
<1>5. Step(t, {p}, c) = {e[4]}
  BY <1>3, <1>4
<1>6. e[4] \in GetStates(t)
  BY <1>1, <1>2, Reachable
<1> QED BY <1>5, <1>6

(* Blocks of states that can be told apart neither by acceptance nor by    *)
(* the blocks they go to, and one state of each.                           *)
SameNext(t, b, p, q) ==
  \A c \in Char : \A x \in Step(t, {p}, c), y \in Step(t, {q}, c) : b[x] = b[y]

Compatible(t, b) ==
  \A p, q \in GetStates(t) : b[p] = b[q] =>
    (p \in t.acc <=> q \in t.acc) /\ SameNext(t, b, p, q)

Represents(rep, t, b) ==
  /\ rep \in SUBSET GetStates(t)
  /\ \A q \in GetStates(t) : \E r \in rep : b[r] = b[q]
  /\ \A p, q \in rep : b[p] = b[q] => p = q

(* What minimizeHopcroft makes of them.                                    *)
Quotient(t, b, rep) ==
  Explicit(b[t.q0], {b[q] : q \in rep \cap t.acc},
    {<<b[e[1]], e[2], e[3], b[e[4]]>> : e \in {u \in t.trans : u[1] \in rep}}, TRUE)

LEMMA QuotientIs ==
  ASSUME NEW t, Complete(t), NEW b, \A q \in GetStates(t) : b[q] \in Nat,
         NEW rep, Represents(rep, t, b), NEW n, n = Quotient(t, b, rep)
  PROVE  /\ IsAutomaton(n, Nat) /\ ~ IsSingleton(n) /\ n.det /\ IsDeterministic(n)
         /\ n.q0 = b[t.q0] /\ n.acc = {b[q] : q \in rep \cap t.acc}
         /\ \A u : u \in n.trans <=> \E e \in t.trans :
              e[1] \in rep /\ u = <<b[e[1]], e[2], e[3], b[e[4]]>>
<1> DEFINE q0 == b[t.q0]
           acc == {b[q] : q \in rep \cap t.acc}
           from == {e \in t.trans : e[1] \in rep}
           moved == [e \in from |-> <<b[e[1]], e[2], e[3], b[e[4]]>>]
           trans == {moved[e] : e \in from}
           yes == TRUE
<1>1. /\ IsAutomaton(t, Nat) /\ IsDeterministic(t) /\ IsFiniteSet(t.trans)
      /\ rep \in SUBSET GetStates(t) /\ \A p, q \in rep : b[p] = b[q] => p = q
  BY DEF Complete, IsAutomaton, Represents
<1>2. /\ t.q0 \in GetStates(t)
      /\ \A e \in t.trans : e[1] \in GetStates(t) => e[4] \in GetStates(t)
  BY <1>1, Reachable
<1>3. \A e \in t.trans : /\ e[2] \in Char /\ e[3] \in Char /\ e[2] <= e[3]
                         /\ e[2] \in Nat /\ e[3] \in Nat
  BY <1>1, Transition
<1>4. q0 \in Nat /\ acc \in SUBSET Nat
  BY <1>1, <1>2
<1>5. \A e \in from : /\ moved[e] = <<b[e[1]], e[2], e[3], b[e[4]]>>
                      /\ moved[e] \in Nat \X Char \X Char \X Nat
                      /\ moved[e][2] <= moved[e][3]
  BY <1>1, <1>2, <1>3
<1>6. n = Explicit(q0, acc, trans, yes)
  BY DEF Quotient
<1>7. \A u : u \in trans <=> \E e \in t.trans :
                e[1] \in rep /\ u = <<b[e[1]], e[2], e[3], b[e[4]]>>
  OBVIOUS
<1>8. IsFiniteSet(from)
  BY <1>1, FS_Subset
<1> HIDE DEF q0, acc, moved, from
<1>9. IsFiniteSet(trans)
  <2>1. moved \in [from -> Nat \X Char \X Char \X Nat]
    BY <1>5 DEF moved
  <2> QED BY <1>8, <2>1, FiniteImage
<1>10. trans \in SUBSET (Nat \X Char \X Char \X Nat) /\ \A u \in trans : u[2] <= u[3]
  BY <1>5
<1> HIDE DEF trans
<1>11. yes \in BOOLEAN
  OBVIOUS
<1> HIDE DEF yes
<1>12. /\ IsAutomaton(n, Nat) /\ ~ IsSingleton(n)
       /\ n.q0 = q0 /\ n.acc = acc /\ n.trans = trans /\ n.det = yes
  <2> DEFINE x == Explicit(q0, acc, trans, yes)
  <2>1. IsAutomaton(x, Nat) /\ ~ IsSingleton(x)
    BY <1>4, <1>9, <1>10, <1>11, Made
  <2>2. x.q0 = q0 /\ x.acc = acc /\ x.trans = trans /\ x.det = yes
    BY DEF Explicit
  <2> QED BY <1>6, <2>1, <2>2
<1>13. IsDeterministic(n)
  <2> SUFFICES ASSUME NEW x \in n.trans, NEW y \in n.trans,
                      x[1] = y[1], x[2] <= y[3], y[2] <= x[3]
               PROVE  x[4] = y[4]
    BY DEF IsDeterministic
  <2>1. PICK e \in t.trans : e[1] \in rep /\ x = <<b[e[1]], e[2], e[3], b[e[4]]>>
    BY <1>7, <1>12
  <2>2. PICK f \in t.trans : f[1] \in rep /\ y = <<b[f[1]], f[2], f[3], b[f[4]]>>
    BY <1>7, <1>12
  <2>3. e[1] = f[1] /\ e[2] <= f[3] /\ f[2] <= e[3]
    BY <1>1, <2>1, <2>2
  <2>4. e[4] = f[4]
    BY <1>1, <2>3 DEF IsDeterministic
  <2> QED BY <2>1, <2>2, <2>4
<1> QED BY <1>7, <1>12, <1>13 DEF q0, acc, yes

(* Words lead to the block of the state that they led to.                  *)
LEMMA QuotientAfter ==
  ASSUME NEW t, Complete(t), NEW b, \A q \in GetStates(t) : b[q] \in Nat,
         Compatible(t, b), NEW rep, Represents(rep, t, b), NEW n, n = Quotient(t, b, rep),
         NEW w \in Seq(Char)
  PROVE  /\ \E q \in GetStates(t) : After(t, w) = {q} /\ After(n, w) = {b[q]}
         /\ Accepts(n, w) <=> Accepts(t, w)
<1> DEFINE T == {v \in Seq(Char) :
                   \E q \in GetStates(t) : After(t, v) = {q} /\ After(n, v) = {b[q]}}
<1>1. /\ n.q0 = b[t.q0] /\ n.acc = {b[q] : q \in rep \cap t.acc}
      /\ \A u : u \in n.trans <=> \E e \in t.trans :
                  e[1] \in rep /\ u = <<b[e[1]], e[2], e[3], b[e[4]]>>
  BY QuotientIs
<1>2. IsAutomaton(t, Nat) /\ IsFiniteSet(t.trans)
  BY DEF Complete, IsAutomaton
<1>3. /\ rep \in SUBSET GetStates(t)
      /\ \A q \in GetStates(t) : \E r \in rep : b[r] = b[q]
      /\ \A p, q \in rep : b[p] = b[q] => p = q
  BY DEF Represents
<1>4. <<>> \in T
  <2>1. t.q0 \in GetStates(t)
    BY <1>2, Reachable
  <2> QED BY <1>1, <2>1, AfterAppend
<1>5. ASSUME NEW v \in Seq(Char), NEW c \in Char, v \in T PROVE Append(v, c) \in T
  <2> DEFINE vc == Append(v, c)
  <2>1. PICK p \in GetStates(t) : After(t, v) = {p} /\ After(n, v) = {b[p]}
    BY <1>5
  <2>2. vc \in Seq(Char) /\ After(t, vc) = Step(t, {p}, c) /\ After(n, vc) = Step(n, {b[p]}, c)
    <3>1. After(t, vc) = Step(t, After(t, v), c) /\ After(n, vc) = Step(n, After(n, v), c)
      BY AfterAppend
    <3> QED BY <2>1, <3>1
  <2>3. PICK r \in rep : b[r] = b[p]
    BY <1>3
  <2>4. PICK q \in GetStates(t) : Step(t, {p}, c) = {q}
    BY OneStep
  <2>5. PICK y \in GetStates(t) : Step(t, {r}, c) = {y}
    BY <1>3, OneStep
  <2>6. b[y] = b[q]
    <3>1. r \in GetStates(t)
      BY <1>3
    <3>2. SameNext(t, b, r, p)
      BY <2>3, <3>1 DEF Compatible
    <3>3. \A x \in Step(t, {r}, c), z \in Step(t, {p}, c) : b[x] = b[z]
      BY <3>2 DEF SameNext
    <3> QED BY <2>4, <2>5, <3>3
  <2>7. b[y] \in Step(n, {b[p]}, c)
    <3>0. y \in Step(t, {r}, c)
      BY <2>5
    <3>1. PICK e \in t.trans : e[1] = r /\ e[2] <= c /\ c <= e[3] /\ e[4] = y
      BY <3>0, StepBy
    <3> DEFINE u == <<b[e[1]], e[2], e[3], b[e[4]]>>
    <3>2. u \in n.trans
      BY <1>1, <2>3, <3>1
    <3>3. u[1] = b[p] /\ u[2] <= c /\ c <= u[3] /\ u[4] = b[y]
      BY <2>3, <3>1
    <3> HIDE DEF u
    <3> QED BY <3>2, <3>3, StepBy
  <2>8. ASSUME NEW x \in Step(n, {b[p]}, c) PROVE x = b[y]
    <3>1. PICK u \in n.trans : u[1] = b[p] /\ u[2] <= c /\ c <= u[3] /\ u[4] = x
      BY <2>8, StepBy
    <3>2. PICK e \in t.trans : e[1] \in rep /\ u = <<b[e[1]], e[2], e[3], b[e[4]]>>
      BY <1>1
    <3>3. e[1] = r /\ e[2] <= c /\ c <= e[3]
      BY <1>3, <2>3, <3>1, <3>2
    <3>4. e[4] \in Step(t, {r}, c)
      BY <3>3, StepBy
    <3> QED BY <2>5, <3>1, <3>2, <3>4
  <2>9. Step(n, {b[p]}, c) = {b[q]}
    BY <2>6, <2>7, <2>8
  <2> HIDE DEF vc
  <2>10. vc \in T
    BY <2>2, <2>4, <2>9
  <2> QED BY <2>10 DEF vc
<1> HIDE DEF T
<1>6. Seq(Char) \subseteq T
  BY <1>4, <1>5, WordInduction
<1>7. PICK q \in GetStates(t) : After(t, w) = {q} /\ After(n, w) = {b[q]}
  BY <1>6 DEF T
<1>8. q \in t.acc <=> b[q] \in n.acc
  <2>1. PICK r \in rep : b[r] = b[q]
    BY <1>3
  <2>2. q \in t.acc <=> r \in t.acc
    BY <1>3, <2>1 DEF Compatible
  <2>3. ASSUME b[q] \in n.acc PROVE r \in t.acc
    <3>1. PICK s \in rep \cap t.acc : b[s] = b[q]
      BY <1>1, <2>3
    <3> QED BY <1>3, <2>1, <3>1
  <2> QED BY <1>1, <2>1, <2>2, <2>3
<1>9. (Accepts(n, w) <=> b[q] \in n.acc) /\ (Accepts(t, w) <=> q \in t.acc)
  BY <1>7 DEF Accepts
<1> QED BY <1>7, <1>8, <1>9

(* Without some of its letters an automaton goes nowhere else.             *)
LEMMA FewerAfter ==
  ASSUME NEW m, IsAutomaton(m, Nat), NEW n, IsAutomaton(n, Nat), n.q0 = m.q0,
         \A p, q : LettersFrom(n, p, q) \subseteq LettersFrom(m, p, q),
         NEW w \in Seq(Char)
  PROVE  After(n, w) \subseteq After(m, w)
<1> DEFINE T == {v \in Seq(Char) : After(n, v) \subseteq After(m, v)}
<1>1. <<>> \in T
  BY AfterAppend
<1>2. ASSUME NEW v \in Seq(Char), NEW c \in Char, v \in T PROVE Append(v, c) \in T
  <2>1. After(n, v) \subseteq After(m, v)
    BY <1>2
  <2>2. /\ After(n, Append(v, c)) = Step(n, After(n, v), c)
        /\ After(m, Append(v, c)) = Step(m, After(m, v), c)
    BY AfterAppend
  <2>3. ASSUME NEW q \in Step(n, After(n, v), c) PROVE q \in Step(m, After(m, v), c)
    <3>1. PICK p \in After(n, v) : c \in LettersFrom(n, p, q)
      BY <2>3, StepReads
    <3>2. p \in After(m, v) /\ c \in LettersFrom(m, p, q)
      BY <2>1, <3>1
    <3> QED BY <3>2, StepReads
  <2>4. Append(v, c) \in Seq(Char)
    OBVIOUS
  <2> QED BY <2>2, <2>3, <2>4
<1> HIDE DEF T
<1>3. Seq(Char) \subseteq T
  BY <1>1, <1>2, WordInduction
<1> QED BY <1>3 DEF T

(* Blocks that hold all states that accept the same words.                 *)
Gathers(t, b) ==
  \A u, v \in Seq(Char) : \A p, q \in GetStates(t) :
    After(t, u) = {p} /\ After(t, v) = {q} /\ Alike(t, u, v) => b[p] = b[q]

(* With such blocks no two states of what minimizeHopcroft returns accept  *)
(* the same.                                                               *)
LEMMA QuotientDistinct ==
  ASSUME NEW t, Complete(t), NEW b, \A q \in GetStates(t) : b[q] \in Nat,
         Compatible(t, b), Gathers(t, b), NEW rep, Represents(rep, t, b),
         NEW r, r = Numbered(RemoveDeadTransitions(Quotient(t, b, rep)))
  PROVE  /\ Sound(r) /\ ~ IsSingleton(r) /\ r.det /\ NoneDead(r) /\ Distinct(r)
         /\ \A w \in Seq(Char) : Accepts(r, w) <=> Accepts(t, w)
<1> DEFINE n == Quotient(t, b, rep)
           d == RemoveDeadTransitions(n)
<1>1. IsAutomaton(n, Nat) /\ ~ IsSingleton(n) /\ n.det /\ IsDeterministic(n)
  BY QuotientIs
<1>2. \A w \in Seq(Char) :
        /\ \E q \in GetStates(t) : After(t, w) = {q} /\ After(n, w) = {b[q]}
        /\ Accepts(n, w) <=> Accepts(t, w)
  BY QuotientAfter
<1> HIDE DEF n
<1>3. /\ IsAutomaton(d, Nat) /\ d.q0 = n.q0
      /\ \A p, q : LettersFrom(d, p, q) \subseteq LettersFrom(n, p, q)
  BY <1>1, DeadRemoved
<1>4. /\ IsAutomaton(r, Nat) /\ ~ IsSingleton(r) /\ NoneDead(r)
      /\ r.det = n.det
      /\ IsDeterministic(n) => IsDeterministic(r)
  BY <1>1, Trimmed DEF n
<1>5. Sound(r) /\ r.det
  BY <1>1, <1>4 DEF Sound, IsHonest
<1>6. \A w \in Seq(Char) : Accepts(r, w) <=> Accepts(t, w)
  <2> SUFFICES ASSUME NEW w \in Seq(Char) PROVE Accepts(r, w) <=> Accepts(t, w)
    OBVIOUS
  <2>1. Accepts(r, w) <=> Accepts(n, w)
    BY <1>1, TrimmedAccepts DEF n
  <2> QED BY <1>2, <2>1
<1> HIDE DEF d
<1>7. PICK f : Renames(f, d, r)
  BY <1>3, NumberedAfter DEF n, d
<1>8. ASSUME NEW u \in Seq(Char), After(r, u) # {}
      PROVE  \E p \in GetStates(t) : After(t, u) = {p} /\ After(d, u) = {b[p]}
  <2>1. PICK p \in GetStates(t) : After(t, u) = {p} /\ After(n, u) = {b[p]}
    BY <1>2
  <2>2. After(d, u) \subseteq {b[p]}
    BY <1>1, <1>3, <2>1, FewerAfter
  <2>3. After(r, u) = {f[q] : q \in After(d, u)}
    BY <1>7 DEF Renames
  <2>4. After(d, u) # {}
    BY <1>8, <2>3
  <2>5. After(d, u) = {b[p]}
    BY <2>2, <2>4
  <2> QED BY <2>1, <2>5
<1>9. ASSUME NEW u \in Seq(Char), NEW v \in Seq(Char), Alike(r, u, v),
             After(r, u) # {}, After(r, v) # {}
      PROVE  After(r, u) = After(r, v)
  <2>1. PICK p \in GetStates(t) : After(t, u) = {p} /\ After(d, u) = {b[p]}
    BY <1>8, <1>9
  <2>2. PICK q \in GetStates(t) : After(t, v) = {q} /\ After(d, v) = {b[q]}
    BY <1>8, <1>9
  <2>3. Alike(t, u, v)
    <3> SUFFICES ASSUME NEW w \in Seq(Char) PROVE Accepts(t, u \o w) <=> Accepts(t, v \o w)
      BY DEF Alike
    <3>1. u \o w \in Seq(Char) /\ v \o w \in Seq(Char)
      OBVIOUS
    <3> QED BY <1>6, <1>9, <3>1 DEF Alike
  <2>4. b[p] = b[q]
    BY <2>1, <2>2, <2>3 DEF Gathers
  <2>5. After(d, u) = After(d, v)
    BY <2>1, <2>2, <2>4
  <2>6. After(r, u) = {f[x] : x \in After(d, u)} /\ After(r, v) = {f[x] : x \in After(d, v)}
    BY <1>7 DEF Renames
  <2> QED BY <2>5, <2>6
<1>10. Distinct(r)
  BY <1>9 DEF Distinct
<1> QED BY <1>4, <1>5, <1>6, <1>10

-----------------------------------------------------------------------------
(* The automaton that minimizeHopcroft works on.                           *)
LEMMA TotalizedIs ==
  ASSUME NEW m, Sound(m), ~ IsSingleton(m), NEW t, t = Totalize(Determinize(m))
  PROVE  /\ Complete(t) /\ ~ IsSingleton(t)
         /\ \A w \in Seq(Char) : Accepts(t, w) <=> Accepts(m, w)
<1> DEFINE d == Determinize(m)
           sink == Cardinality(GetStates(d))
           b == Numbered(d)
<1>1. Sound(d) /\ ~ IsSingleton(d) /\ d.det /\ IsAutomaton(d, Nat)
  BY DeterminizeSound DEF Sound
<1>2. \A w \in Seq(Char) : Accepts(d, w) <=> Accepts(m, w)
  BY DeterminizeAccepts DEF Sound
<1> HIDE DEF d
<1>3. Sound(t) /\ ~ IsSingleton(t) /\ t.det
  BY <1>1, TotalizeSound DEF d
<1>4. t = WithSink(b, sink)
  BY DEF Totalize, d
<1>5. sink \in Nat \ {0}
  <2>1. IsFiniteSet(d.trans)
    BY <1>1 DEF IsAutomaton
  <2>2. IsFiniteSet(GetStates(d)) /\ d.q0 \in GetStates(d)
    BY <2>1, Reachable
  <2> QED BY <2>2, FS_CardinalityType, FS_EmptySet
<1>6. /\ IsAutomaton(b, 0..sink - 1) /\ ~ IsSingleton(b)
      /\ \A w \in Seq(Char) : Accepts(b, w) <=> Accepts(d, w)
  BY <1>1, NumberedAutomaton, NamesChanged, NumberedAccepts
<1> HIDE DEF b, sink
<1>7. /\ IsAutomaton(t, 0..sink)
      /\ \A p \in 0..sink, c \in Char : \E u \in t.trans : u[1] = p /\ u[2] <= c /\ c <= u[3]
  <2>1. IsAutomaton(b, 0..sink - 1) /\ ~ IsSingleton(b)
    BY <1>6
  <2> DEFINE x == WithSink(b, sink)
  <2>2. /\ IsAutomaton(x, 0..sink)
        /\ \A p \in 0..sink, c \in Char : \E u \in x.trans : u[1] = p /\ u[2] <= c /\ c <= u[3]
    BY <1>5, <2>1, Total
  <2> HIDE DEF x
  <2> QED BY <1>4, <2>2 DEF x
<1>8. \A w \in Seq(Char) : Accepts(t, w) <=> Accepts(b, w)
  BY <1>4, <1>5, <1>6, SinkAccepts
<1>9. GetStates(t) \subseteq 0..sink
  BY <1>7, Parts
<1>10. Complete(t)
  BY <1>3, <1>7, <1>9 DEF Complete, Sound, IsHonest
<1> QED BY <1>2, <1>3, <1>6, <1>8, <1>10

(* Its moves by the letters of getStartPoints.                             *)
MovesOf(t) ==
  [q \in GetStates(t) |->
     [c \in ToSet(Sigma(t)) |-> CHOOSE r \in GetStates(t) : r \in Step(t, {q}, c)]]

LEMMA MovesAre ==
  ASSUME NEW t, Complete(t), NEW q \in GetStates(t), NEW c \in ToSet(Sigma(t))
  PROVE  /\ c \in StartPoints(t) /\ c \in Char
         /\ MovesOf(t)[q][c] \in GetStates(t) /\ Step(t, {q}, c) = {MovesOf(t)[q][c]}
<1>1. IsAutomaton(t, Nat)
  BY DEF Complete
<1>2. c \in StartPoints(t) /\ c \in Char
  BY <1>1, SigmaInOrder, StartsAreLetters
<1>3. PICK r \in GetStates(t) : Step(t, {q}, c) = {r}
  BY <1>2, OneStep
<1> DEFINE x == CHOOSE y \in GetStates(t) : y \in Step(t, {q}, c)
<1>4. MovesOf(t)[q][c] = x
  BY DEF MovesOf
<1>5. x = r
  BY <1>3
<1> QED BY <1>2, <1>3, <1>4, <1>5

(* When the main loop ends nothing tells the states of a block apart,      *)
NoneTold ==
  \A s, t \in State : block[s] = block[t] =>
    /\ s \in a.acc <=> t \in a.acc
    /\ \A x \in ToSet(Sigma(a)) : block[delta[s][x]] = block[delta[t][x]]

LEMMA EndCompatible ==
  ASSUME Complete(a), State = GetStates(a), delta = MovesOf(a), NoneTold
  PROVE  Compatible(a, block)
<1>1. IsAutomaton(a, Nat)
  BY DEF Complete
<1>2. ASSUME NEW p \in GetStates(a), NEW q \in GetStates(a), block[p] = block[q]
      PROVE  SameNext(a, block, p, q)
  <2> SUFFICES ASSUME NEW c \in Char, NEW x \in Step(a, {p}, c), NEW y \in Step(a, {q}, c)
               PROVE  block[x] = block[y]
    BY DEF SameNext
  <2>1. PICK e \in StartPoints(a) : e <= c /\ c <= Stretch(StartPoints(a), e)
    BY <1>1, StretchesCover
  <2>2. Step(a, {p}, e) = Step(a, {p}, c) /\ Step(a, {q}, e) = Step(a, {q}, c)
    BY <1>1, <2>1, StretchAlike
  <2>3. e \in ToSet(Sigma(a))
    BY <1>1, SigmaInOrder
  <2>4. x = delta[p][e] /\ y = delta[q][e]
    <3>1. Step(a, {p}, e) = {MovesOf(a)[p][e]}
      BY <2>3, MovesAre
    <3>2. Step(a, {q}, e) = {MovesOf(a)[q][e]}
      BY <2>3, MovesAre
    <3> QED BY <2>2, <3>1, <3>2
  <2>5. block[delta[p][e]] = block[delta[q][e]]
    BY <1>2, <2>3 DEF NoneTold
  <2> QED BY <2>4, <2>5
<1>3. \A p, q \in GetStates(a) : block[p] = block[q] => (p \in a.acc <=> q \in a.acc)
  BY DEF NoneTold
<1> QED BY <1>2, <1>3 DEF Compatible

(* and those that accept the same are in one block.                        *)
RelatedTogether ==
  \A E \in SUBSET (State \X State) : Bisimulation(E) =>
    \A s, t \in State : <<s, t>> \in E => block[s] = block[t]

LEMMA EndGathers ==
  ASSUME Complete(a), State = GetStates(a), delta = MovesOf(a), RelatedTogether
  PROVE  Gathers(a, block)
<1> DEFINE E == {p \in State \X State :
                   \E u, v \in Seq(Char) :
                     After(a, u) = {p[1]} /\ After(a, v) = {p[2]} /\ Alike(a, u, v)}
           nil == <<>>
<1>1. IsAutomaton(a, Nat)
  BY DEF Complete
<1>2. ASSUME NEW s \in State, NEW t \in State, <<s, t>> \in E
      PROVE  /\ s \in a.acc <=> t \in a.acc
             /\ \A x \in ToSet(Sigma(a)) : <<delta[s][x], delta[t][x]>> \in E
  <2>1. PICK u \in Seq(Char), v \in Seq(Char) :
          After(a, u) = {s} /\ After(a, v) = {t} /\ Alike(a, u, v)
    BY <1>2
  <2>2. s \in a.acc <=> t \in a.acc
    <3>1. nil \in Seq(Char) /\ u \o nil = u /\ v \o nil = v
      OBVIOUS
    <3> HIDE DEF nil
    <3>2. Accepts(a, u) <=> Accepts(a, v)
      BY <2>1, <3>1 DEF Alike
    <3> QED BY <2>1, <3>2 DEF Accepts
  <2>3. ASSUME NEW x \in ToSet(Sigma(a)) PROVE <<delta[s][x], delta[t][x]>> \in E
    <3> DEFINE ux == Append(u, x)
               vx == Append(v, x)
    <3>1. /\ x \in Char
          /\ delta[s][x] \in State /\ Step(a, {s}, x) = {delta[s][x]}
          /\ delta[t][x] \in State /\ Step(a, {t}, x) = {delta[t][x]}
      <4>0. s \in GetStates(a) /\ t \in GetStates(a)
        OBVIOUS
      <4>1. /\ x \in Char /\ MovesOf(a)[s][x] \in GetStates(a)
            /\ Step(a, {s}, x) = {MovesOf(a)[s][x]}
        BY <4>0, MovesAre
      <4>2. MovesOf(a)[t][x] \in GetStates(a) /\ Step(a, {t}, x) = {MovesOf(a)[t][x]}
        BY <4>0, MovesAre
      <4> QED BY <4>1, <4>2
    <3>2. ux \in Seq(Char) /\ vx \in Seq(Char)
      BY <3>1
    <3>3. After(a, ux) = {delta[s][x]} /\ After(a, vx) = {delta[t][x]}
      <4>0. x \in Char
        BY <3>1
      <4>1. After(a, ux) = Step(a, After(a, u), x) /\ After(a, vx) = Step(a, After(a, v), x)
        BY <4>0, AfterAppend
      <4> QED BY <2>1, <3>1, <4>1
    <3>4. Alike(a, ux, vx)
      <4> SUFFICES ASSUME NEW w \in Seq(Char) PROVE Accepts(a, ux \o w) <=> Accepts(a, vx \o w)
        BY DEF Alike
      <4> DEFINE xw == <<x>> \o w
      <4>1. xw \in Seq(Char) /\ ux \o w = u \o xw /\ vx \o w = v \o xw
        BY <3>1, LetterBetween
      <4> HIDE DEF ux, vx, xw
      <4> QED BY <2>1, <4>1 DEF Alike
    <3> HIDE DEF ux, vx
    <3> QED BY <3>1, <3>2, <3>3, <3>4
  <2> QED BY <2>2, <2>3
<1> HIDE DEF E
<1>3. Bisimulation(E)
  BY <1>2 DEF Bisimulation
<1>4. E \in SUBSET (State \X State)
  BY DEF E
<1>5. ASSUME NEW u \in Seq(Char), NEW v \in Seq(Char),
             NEW p \in GetStates(a), NEW q \in GetStates(a),
             After(a, u) = {p}, After(a, v) = {q}, Alike(a, u, v)
      PROVE  block[p] = block[q]
  <2>1. <<p, q>> \in E
    BY <1>5 DEF E
  <2> QED BY <1>3, <1>4, <2>1 DEF RelatedTogether
<1> QED BY <1>5 DEF Gathers

-----------------------------------------------------------------------------
(* What minimizeHopcroft returns.                                          *)

(* It accepts the words of its argument, and words that can be followed    *)
(* by the same lead to one state; if every transition of the argument      *)
(* leads to a state that accepts some word, then so does every transition  *)
(* of the result.                                                          *)
Minimized(m, d) ==
  /\ Sound(m) /\ m.det
  /\ Distinct(ExpandSingleton(m))
  /\ NoneDead(d) => NoneDead(m)
  /\ \A w \in Seq(Char) : Run(m, w) <=> Run(d, w)

(* During the main loop, a is the argument made total.                     *)
Origin ==
  /\ input \in Inputs
  /\ pc = "start" => a = input
  /\ pc = "loop" =>
       /\ ~ IsSingleton(input) /\ a = Totalize(Determinize(input))
       /\ State = GetStates(a) /\ delta = MovesOf(a)
  /\ pc = "done" => Minimized(a, input)

LEMMA InputsSound == \A d \in Inputs : Sound(d)
  BY InputsAssumption DEF Sound

(* The early returns: a singleton is a line of states, and a loop has one  *)
(* state.                                                                  *)
LEMMA AtOnce ==
  ASSUME NEW d \in Inputs, IsSingleton(d) \/ IsLoop(Determinize(d)),
         NEW m, m = Determinize(d)
  PROVE  Minimized(m, d)
<1>1. Sound(d)
  BY InputsSound
<1>2. /\ Sound(m) /\ m.det
      /\ ~ IsSingleton(d) => ~ IsSingleton(m)
      /\ Tidy(d) => Tidy(m)
  BY <1>1, DeterminizeSound
<1>3. \A w \in Seq(Char) : Run(m, w) <=> Run(d, w)
  BY <1>1, DeterminizeRun
<1>4. CASE IsSingleton(m)
  <2>1. m.trans = {}
    BY <1>2, <1>4 DEF Sound, IsAutomaton, IsSingleton
  <2>2. Tidy(m)
    BY <1>2, <2>1 DEF Tidy, NoneDead
  <2>3. Distinct(ExpandSingleton(m))
    BY <1>4, <2>2, LineDistinct
  <2> QED BY <1>2, <1>3, <2>2, <2>3 DEF Minimized, Tidy
<1>5. CASE ~ IsSingleton(m)
  <2>1. IsLoop(m)
    BY <1>5 DEF Determinize
  <2>2. Distinct(m)
    BY <2>1, LoopDistinct
  <2>3. ExpandSingleton(m) = m
    BY <1>5 DEF ExpandSingleton
  <2> QED BY <1>1, <1>2, <1>3, <2>2, <2>3 DEF Minimized, Tidy
<1> QED BY <1>4, <1>5

LEMMA OriginAtOnce == Origin /\ StartMinimal => Origin'
<1> SUFFICES ASSUME Origin, StartMinimal PROVE Origin'
  OBVIOUS
<1>1. /\ input \in Inputs /\ a = input /\ input' = input /\ pc' = "done"
      /\ a' = Determinize(a) /\ (IsSingleton(a) \/ IsLoop(Determinize(a)))
  BY DEF Origin, StartMinimal
<1>2. Minimized(a', input)
  BY <1>1, AtOnce
<1> QED BY <1>1, <1>2 DEF Origin

LEMMA OriginStart == Origin /\ Start => Origin'
<1> SUFFICES ASSUME Origin, Start PROVE Origin'
  OBVIOUS
<1> DEFINE t == Totalize(Determinize(a))
<1>1. /\ input \in Inputs /\ a = input /\ input' = input /\ pc' = "loop" /\ ~ IsSingleton(a)
  BY DEF Origin, Start
<1>2. /\ a' = t /\ block' = StartBlock(t) /\ delta' = MovesOf(t)
  BY DEF Start, MovesOf
<1>3. State' = GetStates(t)
  BY <1>2 DEF State, StartBlock
<1> HIDE DEF t
<1>4. a' = Totalize(Determinize(input'))
  BY <1>1, <1>2 DEF t
<1>5. State' = GetStates(a') /\ delta' = MovesOf(a')
  BY <1>2, <1>3
<1> QED BY <1>1, <1>4, <1>5 DEF Origin

(* The main loop: there is one state for each block.                       *)
LEMMA OneOfEach ==
  ASSUME IsFiniteSet(State), NEW rep \in SUBSET State,
         \A q \in State : Cardinality(Members(block, block[q]) \cap rep) = 1,
         State = GetStates(a)
  PROVE  Represents(rep, a, block)
<1>1. ASSUME NEW q \in State PROVE \E x : Members(block, block[q]) \cap rep = {x}
  <2>1. IsFiniteSet(Members(block, block[q]) \cap rep)
    BY FS_Subset
  <2> QED BY <2>1, FS_Singleton
<1>2. \A q \in State : Members(block, block[q]) = {r \in State : block[r] = block[q]}
  BY DEF Members, State
<1>3. ASSUME NEW q \in State PROVE \E r \in rep : block[r] = block[q]
  <2>1. PICK x : Members(block, block[q]) \cap rep = {x}
    BY <1>1
  <2> QED BY <1>2, <2>1
<1>4. ASSUME NEW p \in rep, NEW q \in rep, block[p] = block[q] PROVE p = q
  <2>1. PICK x : Members(block, block[q]) \cap rep = {x}
    BY <1>1
  <2> QED BY <1>2, <1>4, <2>1
<1> QED BY <1>3, <1>4 DEF Represents

LEMMA OriginBuild == Origin /\ IInv /\ KeptTogether /\ Stable /\ Build => Origin'
<1> SUFFICES ASSUME Origin, IInv, KeptTogether, Stable, Build PROVE Origin'
  OBVIOUS
<1>1. /\ pc = "loop" /\ refine = {} /\ pending = <<>> /\ pc' = "done" /\ input' = input
  BY DEF Build
<1>2. PICK rep \in SUBSET State :
        /\ \A q \in State : Cardinality(Members(block, block[q]) \cap rep) = 1
        /\ a' = Numbered(RemoveDeadTransitions(Quotient(a, block, rep)))
  BY DEF Build, Quotient
<1>3. /\ input \in Inputs /\ ~ IsSingleton(input) /\ a = Totalize(Determinize(input))
      /\ State = GetStates(a) /\ delta = MovesOf(a)
  BY <1>1 DEF Origin
<1>4. Sound(input)
  BY <1>3, InputsSound
<1>5. /\ Complete(a) /\ ~ IsSingleton(a)
      /\ \A w \in Seq(Char) : Accepts(a, w) <=> Accepts(input, w)
  BY <1>3, <1>4, TotalizedIs
<1>6. IsFiniteSet(State)
  BY <1>3, <1>5, Reachable DEF Complete, IsAutomaton
<1>7. \A q \in State : block[q] \in Nat
  BY <1>1 DEF IInv, Typed
<1>8. NoneTold
  BY <1>1 DEF Stable, NoneTold
<1>9. RelatedTogether
  BY <1>1 DEF KeptTogether, Together, RelatedTogether
<1>10. Represents(rep, a, block)
  BY <1>2, <1>3, <1>6, OneOfEach
<1>11. Compatible(a, block)
  BY <1>3, <1>5, <1>8, EndCompatible
<1>12. Gathers(a, block)
  BY <1>3, <1>5, <1>9, EndGathers
<1>13. /\ Sound(a') /\ ~ IsSingleton(a') /\ a'.det /\ NoneDead(a') /\ Distinct(a')
       /\ \A w \in Seq(Char) : Accepts(a', w) <=> Accepts(a, w)
  BY <1>2, <1>3, <1>5, <1>7, <1>10, <1>11, <1>12, QuotientDistinct
<1>14. \A w \in Seq(Char) : Run(a', w) <=> Run(input, w)
  <2> SUFFICES ASSUME NEW w \in Seq(Char) PROVE Run(a', w) <=> Run(input, w)
    OBVIOUS
  <2>1. Run(a', w) <=> Accepts(a', w)
    BY <1>13, RunExplicit
  <2>2. Run(input, w) <=> Accepts(input, w)
    BY <1>3, RunExplicit
  <2> QED BY <1>5, <1>13, <2>1, <2>2
<1>15. ExpandSingleton(a') = a'
  BY <1>13 DEF ExpandSingleton
<1>16. Minimized(a', input)
  BY <1>13, <1>14, <1>15 DEF Minimized
<1> QED BY <1>1, <1>3, <1>16 DEF Origin

THEOREM ResultsExplained == Spec => []Origin
<1>1. Init => Origin
  BY DEF Init, Origin
<1>2. Origin /\ IInv /\ KeptTogether /\ Stable /\ [Next]_vars => Origin'
  <2> SUFFICES ASSUME Origin, IInv, KeptTogether, Stable, [Next]_vars PROVE Origin'
    OBVIOUS
  <2>1. CASE StartMinimal
    BY <2>1, OriginAtOnce
  <2>2. CASE Start
    BY <2>2, OriginStart
  <2>3. CASE Take
    <3>1. a' = a /\ input' = input /\ delta' = delta /\ block' = block /\ pc' = pc /\ pc = "loop"
      BY <2>3 DEF Take
    <3>2. State' = State
      BY <3>1 DEF State
    <3> QED BY <3>1, <3>2 DEF Origin
  <2>4. CASE Refine
    <3>1. a' = a /\ input' = input /\ delta' = delta /\ pc' = pc /\ pc = "loop"
      BY <2>4 DEF Refine
    <3>2. State' = State
      BY <2>4 DEF Refine, State
    <3> QED BY <3>1, <3>2 DEF Origin
  <2>5. CASE Build
    BY <2>5, OriginBuild
  <2>6. CASE Returned \/ UNCHANGED vars
    <3>1. a' = a /\ input' = input /\ delta' = delta /\ block' = block /\ pc' = pc
      BY <2>6 DEF Returned, vars, loop
    <3>2. State' = State
      BY <3>1 DEF State
    <3> QED BY <3>1, <3>2 DEF Origin
  <2> QED BY <2>1, <2>2, <2>3, <2>4, <2>5, <2>6 DEF Next
<1> QED BY <1>1, <1>2, LoopInvariant, NeverSeparates, EndsStable, PTL DEF Spec

(* minimizeHopcroft keeps the language, and no two states of its result    *)
(* accept the same words: words after which the same can follow lead to    *)
(* the same state.                                                         *)
ResultExact ==
  pc = "done" =>
    /\ \A w \in Seq(Char) : Run(a, w) <=> Run(input, w)
    /\ Distinct(ExpandSingleton(a))

THEOREM ResultsAreExact == Spec => []ResultExact
<1>1. Origin => ResultExact
  BY DEF Origin, ResultExact, Minimized
<1> QED BY <1>1, ResultsExplained, PTL

(* Without dead transitions every state but perhaps the initial one is     *)
(* among getLiveStates.                                                    *)
LEMMA LiveAre ==
  ASSUME NEW m, IsAutomaton(m, Nat), NoneDead(m)
  PROVE  GetStates(m) \subseteq GetLiveStates(m) \cup {m.q0}
<1> DEFINE D == GetStates(m) \cap (Productive(m) \cup {m.q0})
<1>1. IsFiniteSet(m.trans)
  BY DEF IsAutomaton
<1>2. m.q0 \in D /\ D \subseteq Ends(m)
  BY <1>1, Reachable
<1>3. \A t \in m.trans : t[1] \in D => t[4] \in D
  BY <1>1, Reachable DEF NoneDead
<1>4. GetStates(m) \subseteq D
  <2> HIDE DEF D
  <2> QED BY <1>1, <1>2, <1>3, Reachable
<1> QED BY <1>1, <1>4, ProductiveIsLive

(* What minimizeHopcroft returns for an automaton without dead             *)
(* transitions.                                                            *)
LEMMA MinimizedIs ==
  ASSUME NEW d, Tidy(d), NEW m, Minimized(m, d), NEW e, e = ExpandSingleton(m)
  PROVE  /\ SubsetOf(m, d) /\ SubsetOf(d, m)
         /\ GetStates(e) \subseteq GetLiveStates(e) \cup {e.q0}
         /\ \A p, q \in GetStates(e) : p # q =>
              ~ (SubsetOf(From(e, p), From(e, q)) /\ SubsetOf(From(e, q), From(e, p)))
<1>1. /\ Sound(d) /\ Sound(m) /\ m.det /\ Tidy(m) /\ Distinct(e)
      /\ \A w \in Seq(Char) : Run(m, w) <=> Run(d, w)
  BY DEF Minimized, Tidy
<1>2. SubsetOf(m, d)
  BY <1>1, SubsetOfRun
<1>3. SubsetOf(d, m)
  BY <1>1, SubsetOfRun
<1>4. /\ Sound(e) /\ ~ IsSingleton(e) /\ NoneDead(e)
  BY <1>1, Expanded DEF Tidy
<1>5. e.det
  BY <1>1 DEF ExpandSingleton, Explicit
<1>6. Tidy(e) /\ IsAutomaton(e, Nat)
  BY <1>4 DEF Tidy, Sound
<1>7. GetStates(e) \subseteq GetLiveStates(e) \cup {e.q0}
  BY <1>4, <1>6, LiveAre
<1>8. ASSUME NEW p \in GetStates(e), NEW q \in GetStates(e), p # q
      PROVE  ~ (SubsetOf(From(e, p), From(e, q)) /\ SubsetOf(From(e, q), From(e, p)))
  BY <1>1, <1>4, <1>5, <1>6, <1>8, DistinctStates
<1> QED BY <1>2, <1>3, <1>7, <1>8

(* The result of minimizeHopcroft accepts the same words, by as few states *)
(* as it can.  subsetOf answers so of automata without dead transitions    *)
(* only, as removeDeadTransitions leaves them.                             *)
THEOREM ResultsAreMinimal ==
  ASSUME \A d \in Inputs : NoneDead(d)
  PROVE  Spec => []ResultMinimal
<1>1. Origin => ResultMinimal
  <2> SUFFICES ASSUME Origin, pc = "done", NEW e, e = ExpandSingleton(a)
               PROVE  /\ SubsetOf(a, input) /\ SubsetOf(input, a)
                      /\ GetStates(e) \subseteq GetLiveStates(e) \cup {e.q0}
                      /\ \A p, q \in GetStates(e) : p # q =>
                           ~ (/\ SubsetOf([e EXCEPT !.q0 = p], [e EXCEPT !.q0 = q])
                              /\ SubsetOf([e EXCEPT !.q0 = q], [e EXCEPT !.q0 = p]))
    BY DEF ResultMinimal
  <2>1. Tidy(input) /\ Minimized(a, input)
    BY InputsSound DEF Origin, Tidy
  <2> QED BY <2>1, MinimizedIs DEF From
<1> QED BY <1>1, ResultsExplained, PTL

=============================================================================
