------------------------- MODULE Transducers_proofs -------------------------
(***************************************************************************)
(* Proofs about Transducers.  What a transducer relates is given by its    *)
(* paths; two transducers whose states simulate each other have the same   *)
(* paths but for the names of the states, and the traversal makes such a   *)
(* pair of the one that it reads and the one that it builds.               *)
(***************************************************************************)
EXTENDS Transducers, Recursion

-----------------------------------------------------------------------------
(* The paths, one step at a time                                           *)
IsPaths(f, q0, moves) ==
  f = [l \in 0..MaxLength |->
         IF l = 0 THEN {<<q0, <<>>, <<>>>>}
         ELSE f[l - 1] \cup Extended(f[l - 1], moves)]

Paths(q0, moves) == CHOOSE f : IsPaths(f, q0, moves)

LEMMA RelatedByPaths ==
  ASSUME NEW q0, NEW acc, NEW moves
  PROVE  Related(q0, acc, moves)
           = {<<p[2], p[3]>> : p \in {r \in Paths(q0, moves)[MaxLength] : r[1] \in acc}}
BY DEF Related, Paths, IsPaths

Symbols(moves) == UNION {{m[2], m[3]} : m \in moves}

Ends(q0, moves) == {q0} \cup {m[4] : m \in moves}

Places(q0, moves) == Ends(q0, moves) \X Seq(Symbols(moves)) \X Seq(Symbols(moves))

LEMMA ExtendedTyped ==
  ASSUME NEW q0, NEW moves, NEW P \in SUBSET Places(q0, moves)
  PROVE  P \cup Extended(P, moves) \in SUBSET Places(q0, moves)
<1> SUFFICES ASSUME NEW p \in P, NEW m \in moves
             PROVE  Onwards(p, m) \in Places(q0, moves)
  BY DEF Extended
<1>1. m[2] \in Symbols(moves) /\ m[3] \in Symbols(moves)
  BY DEF Symbols
<1>2. p[2] \in Seq(Symbols(moves)) /\ p[3] \in Seq(Symbols(moves))
  BY DEF Places
<1>3. /\ Write(p[2], m[2]) \in Seq(Symbols(moves))
      /\ Write(p[3], m[3]) \in Seq(Symbols(moves))
  BY <1>1, <1>2 DEF Write
<1>4. m[4] \in Ends(q0, moves)
  BY DEF Ends
<1> QED BY <1>3, <1>4 DEF Onwards, Places

LEMMA PathsStepwise ==
  ASSUME NEW q0, NEW moves
  PROVE  /\ Paths(q0, moves)[0] = {<<q0, <<>>, <<>>>>}
         /\ \A l \in 1..MaxLength :
              Paths(q0, moves)[l]
                = Paths(q0, moves)[l - 1] \cup Extended(Paths(q0, moves)[l - 1], moves)
         /\ \A l \in 0..MaxLength : Paths(q0, moves)[l] \in SUBSET Places(q0, moves)
<1> DEFINE V == SUBSET Places(q0, moves)
           next == [l \in 1..MaxLength |-> [P \in V |-> P \cup Extended(P, moves)]]
           start == {<<q0, <<>>, <<>>>>}
<1>1. start \in V
  <2>1. <<>> \in Seq(Symbols(moves)) /\ q0 \in Ends(q0, moves)
    BY EmptySeq DEF Ends
  <2>2. \A e : e \in Seq(Symbols(moves)) => <<q0, e, e>> \in Places(q0, moves)
    BY <2>1 DEF Places
  <2> QED BY <2>1, <2>2, Zenon
<1>2. next \in [1..MaxLength -> [V -> V]]
  BY ExtendedTyped
<1>3. \A l \in 1..MaxLength, P \in V : next[l][P] = P \cup Extended(P, moves)
  OBVIOUS
<1>4. MaxLength \in Nat
  BY TransducersAssumption
<1> HIDE DEF V, next, start
<1>5. PICK f : IteratesUpto(f, MaxLength, V, start, next)
  BY <1>1, <1>2, <1>4, BoundedIteration
<1>6. f \in [0..MaxLength -> V] /\ f[0] = start
  BY <1>5 DEF IteratesUpto
<1>7. \A l \in 1..MaxLength : f[l] = f[l - 1] \cup Extended(f[l - 1], moves)
  <2> SUFFICES ASSUME NEW l \in 1..MaxLength
               PROVE  f[l] = f[l - 1] \cup Extended(f[l - 1], moves)
    OBVIOUS
  <2>1. l - 1 \in 0..MaxLength
    BY <1>4
  <2>2. f[l - 1] \in V
    BY <1>6, <2>1
  <2>3. f[l] = next[l][f[l - 1]]
    BY <1>5 DEF IteratesUpto
  <2> QED BY <1>3, <2>2, <2>3
<1>8. IsPaths(f, q0, moves)
  <2>1. \A l \in 0..MaxLength : f[l] = IF l = 0 THEN {<<q0, <<>>, <<>>>>}
                                       ELSE f[l - 1] \cup Extended(f[l - 1], moves)
    BY <1>4, <1>6, <1>7 DEF start
  <2> QED BY <1>6, <2>1 DEF IsPaths
<1> DEFINE g == Paths(q0, moves)
<1>9. IsPaths(g, q0, moves)
  BY <1>8 DEF Paths
<1> HIDE DEF g
<1>10. \A l \in 0..MaxLength : g[l] = IF l = 0 THEN {<<q0, <<>>, <<>>>>}
                                      ELSE g[l - 1] \cup Extended(g[l - 1], moves)
  BY <1>9 DEF IsPaths
<1>11. g[0] = {<<q0, <<>>, <<>>>>}
  <2>1. 0 \in 0..MaxLength
    BY <1>4
  <2> QED BY <1>10, <2>1, Zenon
<1>12. \A l \in 1..MaxLength : g[l] = g[l - 1] \cup Extended(g[l - 1], moves)
  <2>1. \A l \in 1..MaxLength : l \in 0..MaxLength /\ l # 0
    BY <1>4
  <2> QED BY <1>10, <2>1, Zenon
<1>13. 0..MaxLength \subseteq {l \in Nat : l <= MaxLength => g[l] \in V}
  <2> DEFINE T == {l \in Nat : l <= MaxLength => g[l] \in V}
  <2>1. 0 \in T
    BY <1>1, <1>11 DEF start
  <2>2. ASSUME NEW l \in 0..MaxLength - 1, l \in T PROVE l + 1 \in T
    <3>1. l + 1 \in 1..MaxLength /\ (l + 1) - 1 = l /\ l <= MaxLength
      BY <1>4
    <3>2. g[l] \in V
      BY <2>2, <3>1
    <3>3. g[l + 1] = g[l] \cup Extended(g[l], moves)
      BY <1>12, <3>1
    <3>4. g[l + 1] \in V
      BY <3>2, <3>3, ExtendedTyped DEF V
    <3> QED BY <3>1, <3>4
  <2> HIDE DEF T
  <2>3. 0..MaxLength \subseteq T
    BY <1>4, <2>1, <2>2, IntervalInduction
  <2> QED BY <2>3 DEF T
<1> QED BY <1>11, <1>12, <1>13 DEF g, V

-----------------------------------------------------------------------------
(* Simulation                                                              *)
Flip(flip, x, y) == IF flip THEN <<y, x>> ELSE <<x, y>>

(* R relates the states so that each move is answered by one that reads    *)
(* the same, or the same the other way round.                              *)
IsSimulation(R, flip, moves, others) ==
  \A m \in moves : \A r \in R : r[1] = m[1] =>
    \E n \in others : /\ n[1] = r[2] /\ <<m[4], n[4]>> \in R
                      /\ <<n[2], n[3]>> = Flip(flip, m[2], m[3])

LEMMA PathsSimulated ==
  ASSUME NEW q1, NEW q2, NEW moves, NEW others, NEW R, NEW flip \in BOOLEAN,
         <<q1, q2>> \in R, IsSimulation(R, flip, moves, others)
  PROVE  \A l \in 0..MaxLength : \A p \in Paths(q1, moves)[l] :
           \E r \in Paths(q2, others)[l] :
             <<p[1], r[1]>> \in R /\ <<r[2], r[3]>> = Flip(flip, p[2], p[3])
<1> DEFINE f == Paths(q1, moves)
           g == Paths(q2, others)
           Answers(r, p) == <<p[1], r[1]>> \in R /\ <<r[2], r[3]>> = Flip(flip, p[2], p[3])
           T == {l \in Nat : l <= MaxLength => \A p \in f[l] : \E r \in g[l] : Answers(r, p)}
<1>0. MaxLength \in Nat
  BY TransducersAssumption
<1>1. /\ f[0] = {<<q1, <<>>, <<>>>>} /\ g[0] = {<<q2, <<>>, <<>>>>}
      /\ \A l \in 1..MaxLength : f[l] = f[l - 1] \cup Extended(f[l - 1], moves)
      /\ \A l \in 1..MaxLength : g[l] = g[l - 1] \cup Extended(g[l - 1], others)
  BY PathsStepwise
<1> HIDE DEF f, g
<1>2. 0 \in T
  <2>1. \A e : Answers(<<q2, e, e>>, <<q1, e, e>>)
    BY DEF Flip
  <2> HIDE DEF Answers
  <2>2. \A p \in f[0] : \E r \in g[0] : Answers(r, p)
    BY <1>1, <2>1, Zenon
  <2> QED BY <2>2, SMTT(30)
<1>3. ASSUME NEW l \in 0..MaxLength - 1, l \in T PROVE l + 1 \in T
  <2>1. l \in Nat /\ l + 1 \in 1..MaxLength /\ (l + 1) - 1 = l /\ l <= MaxLength
    BY <1>0
  <2>2. \A p \in f[l] : \E r \in g[l] : Answers(r, p)
    BY <1>3, <2>1
  <2>3. f[l + 1] = f[l] \cup Extended(f[l], moves) /\ g[l + 1] = g[l] \cup Extended(g[l], others)
    BY <1>1, <2>1
  <2>4. ASSUME NEW p \in f[l], NEW m \in moves, m[1] = p[1]
        PROVE  \E r \in g[l + 1] : Answers(r, Onwards(p, m))
    <3>1. PICK r \in g[l] : Answers(r, p)
      BY <2>2
    <3> DEFINE pair == <<p[1], r[1]>>
    <3>2. pair \in R /\ pair[1] = m[1] /\ pair[2] = r[1]
      BY <2>4, <3>1
    <3>3. PICK n \in others : /\ n[1] = pair[2] /\ <<m[4], n[4]>> \in R
                              /\ <<n[2], n[3]>> = Flip(flip, m[2], m[3])
      BY <3>2 DEF IsSimulation
    <3>4. Onwards(r, n) \in g[l + 1]
      BY <2>3, <3>2, <3>3 DEF Extended
    <3>5. Answers(Onwards(r, n), Onwards(p, m))
      <4>1. CASE flip
        <5>1. r[2] = p[3] /\ r[3] = p[2] /\ n[2] = m[3] /\ n[3] = m[2]
          BY <3>1, <3>3, <4>1 DEF Flip
        <5> QED BY <3>3, <4>1, <5>1 DEF Onwards, Flip
      <4>2. CASE ~ flip
        <5>1. r[2] = p[2] /\ r[3] = p[3] /\ n[2] = m[2] /\ n[3] = m[3]
          BY <3>1, <3>3, <4>2 DEF Flip
        <5> QED BY <3>3, <4>2, <5>1 DEF Onwards, Flip
      <4> QED BY <4>1, <4>2
    <3> QED BY <3>4, <3>5
  <2> HIDE DEF Answers
  <2>5. \A p \in f[l + 1] : \E r \in g[l + 1] : Answers(r, p)
    <3> SUFFICES ASSUME NEW p \in f[l + 1] PROVE \E r \in g[l + 1] : Answers(r, p)
      OBVIOUS
    <3>1. CASE p \in f[l]
      BY <2>2, <2>3, <3>1
    <3>2. CASE p \in Extended(f[l], moves)
      <4>1. PICK o \in f[l], m \in moves : m[1] = o[1] /\ p = Onwards(o, m)
        BY <3>2 DEF Extended
      <4> QED BY <2>4, <4>1
    <3> QED BY <2>3, <3>1, <3>2
  <2> QED BY <2>1, <2>5
<1> HIDE DEF T, Answers
<1>4. 0..MaxLength \subseteq T
  BY <1>0, <1>2, <1>3, IntervalInduction
<1> QED BY <1>4 DEF T, f, g, Answers

(* The second transducer can do what the first does, and accepts then.     *)
SimulatedBy(flip, q1, acc1, moves, q2, acc2, others) ==
  \E R : /\ <<q1, q2>> \in R
         /\ IsSimulation(R, flip, moves, others)
         /\ \A r \in R : r[1] \in acc1 => r[2] \in acc2

LEMMA RelatedSimulated ==
  ASSUME NEW q1, NEW acc1, NEW moves, NEW q2, NEW acc2, NEW others,
         NEW flip \in BOOLEAN, SimulatedBy(flip, q1, acc1, moves, q2, acc2, others),
         NEW x, NEW y, <<x, y>> \in Related(q1, acc1, moves)
  PROVE  Flip(flip, x, y) \in Related(q2, acc2, others)
<1>1. PICK p \in Paths(q1, moves)[MaxLength] : p[1] \in acc1 /\ <<x, y>> = <<p[2], p[3]>>
  BY RelatedByPaths
<1>2. MaxLength \in 0..MaxLength
  BY TransducersAssumption
<1>3. PICK R : /\ <<q1, q2>> \in R
               /\ IsSimulation(R, flip, moves, others)
               /\ \A r \in R : r[1] \in acc1 => r[2] \in acc2
  BY DEF SimulatedBy
<1>4. PICK r \in Paths(q2, others)[MaxLength] :
             <<p[1], r[1]>> \in R /\ <<r[2], r[3]>> = Flip(flip, p[2], p[3])
  BY <1>2, <1>3, PathsSimulated
<1>5. r[1] \in acc2
  <2> DEFINE pair == <<p[1], r[1]>>
  <2>1. pair \in R /\ pair[1] \in acc1 /\ pair[2] = r[1]
    BY <1>1, <1>4
  <2> QED BY <1>3, <2>1
<1>6. x = p[2] /\ y = p[3]
  BY <1>1
<1> QED BY <1>4, <1>5, <1>6, RelatedByPaths

-----------------------------------------------------------------------------
(* The inductive invariant                                                 *)

(* The moves of the source, as the new transducer is to make them.         *)
Moved(t) == <<t[1], Pair(t)[1], Pair(t)[2], t[4]>>

Moves == {Moved(t) : t \in source.trans}

Renamed(names, t) == <<names[t[1]], Pair(t)[1], Pair(t)[2], names[t[4]]>>

(* What is meant is related, and nothing else.                             *)
Right(q0, acc, moves) ==
  /\ Related(q0, acc, moves) \subseteq Meant
  /\ IsSingleLetters => Meant \subseteq Related(q0, acc, moves)

IsMachine(x) ==
  /\ x.q0 \in Nat /\ x.acc \subseteq Nat /\ IsFiniteSet(x.trans)
  /\ \A t \in x.trans : t = <<t[1], t[2], t[3], t[4]>> /\ t[1] \in Nat /\ t[4] \in Nat

(* The new states are numbered from 0 on.                                  *)
IsNumbering(names) ==
  /\ DOMAIN names \in SUBSET Nat /\ IsFiniteSet(DOMAIN names)
  /\ names \in [DOMAIN names -> Nat]
  /\ \A q \in DOMAIN names : names[q] < Cardinality(DOMAIN names)
  /\ \A p, q \in DOMAIN names : names[p] = names[q] => p = q

(* The states in D were visited: the new transducer has their transitions, *)
(* and all states that were met.                                           *)
Traversed(D) ==
  /\ D \subseteq DOMAIN idMap
  /\ DOMAIN idMap \subseteq D \cup ToSet(worklist)
  /\ source.q0 \in D \cup ToSet(worklist)
  /\ source.q0 \in D => ret.q0 = idMap[source.q0]
  /\ \A t \in source.trans : t[1] \in D => t[4] \in DOMAIN idMap
  /\ ret.trans = {Renamed(idMap, t) : t \in {e \in source.trans : e[1] \in D}}
  /\ ret.acc = {idMap[q] : q \in DOMAIN idMap \cap source.acc}

Building ==
  /\ IsMachine(source)
  /\ worklist \in Seq(Nat)
  /\ IsNumbering(idMap)
  /\ \E D \in SUBSET Nat : Traversed(D)
  /\ Right(source.q0, source.acc, Moves)

IInv ==
  /\ a \in Inputs /\ swapped \in BOOLEAN
  /\ op \in {"toTransducer", "copy", "invert"}
  /\ pc = "build" => Building
  /\ pc # "build" => IsMachine(ret) /\ Right(ret.q0, ret.acc, ret.trans)

-----------------------------------------------------------------------------
(* What is meant, when the transducer is read the other way round          *)
LEMMA Unflipped ==
  ASSUME NEW flip \in BOOLEAN, NEW x, NEW y
  PROVE  Flip(flip, Flip(flip, x, y)[1], Flip(flip, x, y)[2]) = <<x, y>>
BY DEF Flip

LEMMA RelatedArePairs ==
  ASSUME NEW q0, NEW acc, NEW moves, NEW e \in Related(q0, acc, moves)
  PROVE  e = <<e[1], e[2]>>
BY RelatedByPaths

LEMMA MeantArePairs == \A e \in Meant : e = <<e[1], e[2]>>
BY RelatedArePairs DEF Meant, Turned

(* What is to be meant of a transducer that is read that way.              *)
MeantOf(flip) == IF flip THEN Turned(Meant) ELSE Meant

LEMMA MeantFlipped ==
  ASSUME NEW flip \in BOOLEAN
  PROVE  /\ \A x, y : <<x, y>> \in Meant <=> Flip(flip, x, y) \in MeantOf(flip)
         /\ \A e \in MeantOf(flip) : e = <<e[1], e[2]>>
<1>1. CASE flip
  <2>1. ASSUME NEW x, NEW y, <<y, x>> \in Turned(Meant) PROVE <<x, y>> \in Meant
    <3>1. PICK e \in Meant : <<y, x>> = <<e[2], e[1]>>
      BY <2>1 DEF Turned
    <3> QED BY <3>1, MeantArePairs
  <2>2. ASSUME NEW x, NEW y, <<x, y>> \in Meant PROVE <<y, x>> \in Turned(Meant)
    <3> DEFINE e == <<x, y>>
    <3>1. e \in Meant /\ <<e[2], e[1]>> = <<y, x>>
      BY <2>2
    <3> QED BY <3>1 DEF Turned
  <2> QED BY <1>1, <2>1, <2>2 DEF MeantOf, Flip, Turned
<1>2. CASE ~ flip
  BY <1>2, MeantArePairs DEF MeantOf, Flip
<1> QED BY <1>1, <1>2

(* Simulation both ways keeps a transducer right.                          *)
LEMMA RightSimulated ==
  ASSUME NEW q1, NEW acc1, NEW moves, NEW q2, NEW acc2, NEW others, NEW flip \in BOOLEAN,
         SimulatedBy(flip, q1, acc1, moves, q2, acc2, others),
         SimulatedBy(flip, q2, acc2, others, q1, acc1, moves),
         Right(q1, acc1, moves)
  PROVE  /\ Related(q2, acc2, others) \subseteq MeantOf(flip)
         /\ IsSingleLetters => MeantOf(flip) \subseteq Related(q2, acc2, others)
<1>1. ASSUME NEW e \in Related(q2, acc2, others) PROVE e \in MeantOf(flip)
  <2>1. e = <<e[1], e[2]>>
    BY RelatedArePairs
  <2>2. Flip(flip, e[1], e[2]) \in Related(q1, acc1, moves)
    BY <2>1, RelatedSimulated
  <2> DEFINE d == Flip(flip, e[1], e[2])
  <2>3. d \in Meant /\ d = <<d[1], d[2]>>
    BY <2>2, MeantArePairs DEF Right
  <2>4. Flip(flip, d[1], d[2]) = <<e[1], e[2]>>
    BY Unflipped
  <2> HIDE DEF d
  <2>5. Flip(flip, d[1], d[2]) \in MeantOf(flip)
    BY <2>3, MeantFlipped
  <2> QED BY <2>1, <2>4, <2>5
<1>2. ASSUME IsSingleLetters, NEW e \in MeantOf(flip) PROVE e \in Related(q2, acc2, others)
  <2> DEFINE d == Flip(flip, e[1], e[2])
  <2>1. e = <<e[1], e[2]>>
    BY MeantFlipped
  <2>2. Flip(flip, d[1], d[2]) = <<e[1], e[2]>> /\ d = <<d[1], d[2]>>
    BY Unflipped DEF Flip
  <2> HIDE DEF d
  <2>3. <<d[1], d[2]>> \in Meant
    BY <2>1, <2>2, MeantFlipped
  <2>4. <<d[1], d[2]>> \in Related(q1, acc1, moves)
    BY <1>2, <2>3 DEF Right
  <2>5. Flip(flip, d[1], d[2]) \in Related(q2, acc2, others)
    BY <2>4, RelatedSimulated
  <2> QED BY <2>1, <2>2, <2>5
<1> QED BY <1>1, <1>2

-----------------------------------------------------------------------------
(* The letter of a transition that the constructor reads is one of those   *)
(* that it stands for.                                                     *)
LEMMA FirstLetters ==
  ASSUME NEW x \in Inputs, a = x, op = "toTransducer",
         source = [q0 |-> a.q0, acc |-> a.acc, trans |-> a.trans], swapped = FALSE
  PROVE  Right(source.q0, source.acc, Moves)
<1> DEFINE R == {<<q, q>> : q \in Ends(a.q0, Moves) \cup Ends(a.q0, MeantMoves)
                                   \cup {t[1] : t \in a.trans}}
<1>1. <<a.q0, a.q0>> \in R
  BY DEF Ends
<1>2. \A t \in a.trans : t[2] \in Int /\ t[3] \in Int /\ t[2] <= t[3]
  BY InputsAssumption DEF IsPairAutomaton
<1>3. \A t \in a.trans : Moved(t) = <<t[1], a.map[t[2]][1], a.map[t[2]][2], t[4]>>
  BY DEF Moved, Pair
<1>4. Moves \subseteq MeantMoves
  <2> SUFFICES ASSUME NEW t \in a.trans PROVE Moved(t) \in MeantMoves
    BY DEF Moves
  <2>1. t[2] \in t[2]..t[3]
    BY <1>2
  <2> QED BY <1>3, <2>1 DEF MeantMoves
<1>5. ASSUME IsSingleLetters, NEW m \in MeantMoves PROVE m \in Moves
  <2>1. PICK t \in a.trans : m \in {<<t[1], a.map[c][1], a.map[c][2], t[4]>> : c \in t[2]..t[3]}
    BY DEF MeantMoves
  <2>2. PICK c \in t[2]..t[3] : m = <<t[1], a.map[c][1], a.map[c][2], t[4]>>
    BY <2>1
  <2>3. c = t[2]
    BY <1>2, <1>5 DEF IsSingleLetters
  <2> QED BY <1>3, <2>2, <2>3 DEF Moves
<1>6. ASSUME NEW M, NEW N, M \subseteq N, N \subseteq MeantMoves \cup Moves
      PROVE  IsSimulation(R, FALSE, M, N)
  <2> SUFFICES ASSUME NEW m \in M, NEW r \in R, r[1] = m[1]
               PROVE  \E n \in N : /\ n[1] = r[2] /\ <<m[4], n[4]>> \in R
                                   /\ <<n[2], n[3]>> = Flip(FALSE, m[2], m[3])
    BY DEF IsSimulation
  <2>1. m \in N /\ m[1] = r[2] /\ <<m[2], m[3]>> = Flip(FALSE, m[2], m[3])
    BY <1>6 DEF Flip
  <2>2. m[4] \in Ends(a.q0, Moves) \cup Ends(a.q0, MeantMoves)
    BY <1>6 DEF Ends
  <2>3. <<m[4], m[4]>> \in R
    BY <2>2
  <2> QED BY <2>1, <2>3
<1>7. \A r \in R : r[1] = r[2]
  OBVIOUS
<1> HIDE DEF R
<1>8. ASSUME NEW M, NEW N, M \subseteq N, N \subseteq MeantMoves \cup Moves
      PROVE  Related(a.q0, a.acc, M) \subseteq Related(a.q0, a.acc, N)
  <2> SUFFICES ASSUME NEW e \in Related(a.q0, a.acc, M)
               PROVE  e \in Related(a.q0, a.acc, N)
    OBVIOUS
  <2>1. e = <<e[1], e[2]>>
    BY RelatedArePairs
  <2>2. IsSimulation(R, FALSE, M, N)
    BY <1>6, <1>8
  <2>3. SimulatedBy(FALSE, a.q0, a.acc, M, a.q0, a.acc, N)
    BY <1>1, <1>7, <2>2 DEF SimulatedBy
  <2>4. <<e[1], e[2]>> \in Related(a.q0, a.acc, M)
    BY <2>1
  <2>5. Flip(FALSE, e[1], e[2]) \in Related(a.q0, a.acc, N)
    BY <2>3, <2>4, RelatedSimulated
  <2> QED BY <2>1, <2>5 DEF Flip
<1>9. Related(a.q0, a.acc, Moves) \subseteq Related(a.q0, a.acc, MeantMoves)
  BY <1>4, <1>8
<1>10. IsSingleLetters => Related(a.q0, a.acc, MeantMoves) \subseteq Related(a.q0, a.acc, Moves)
  BY <1>5, <1>8
<1>11. Meant = Related(a.q0, a.acc, MeantMoves)
  BY DEF Meant
<1> QED BY <1>9, <1>10, <1>11 DEF Right

LEMMA Initially == Init => IInv
<1> SUFFICES ASSUME Init PROVE IInv
  OBVIOUS
<1>1. PICK x \in Inputs : a = x
  BY DEF Init
<1>2. IsPairAutomaton(a)
  BY <1>1, InputsAssumption
<1>3. IsMachine(source)
  BY <1>2 DEF Init, IsMachine, IsPairAutomaton
<1>4. worklist \in Seq(Nat) /\ ToSet(worklist) = {a.q0}
  BY <1>2 DEF Init, IsPairAutomaton, ToSet
<1>5. DOMAIN idMap = {}
  BY DEF Init
<1>6. IsNumbering(idMap)
  BY <1>5, FS_EmptySet DEF IsNumbering, Init
<1>7. Traversed({})
  BY <1>4, <1>5 DEF Traversed, Init, Empty
<1>8. Right(source.q0, source.acc, Moves)
  BY <1>1, FirstLetters DEF Init
<1>9. Building
  BY <1>3, <1>4, <1>6, <1>7, <1>8 DEF Building
<1> QED BY <1>1, <1>9 DEF IInv, Init

-----------------------------------------------------------------------------
(* One state of the source is visited                                      *)

(* New states take the numbers that follow.                                *)
LEMMA NewNumbers ==
  ASSUME IsNumbering(idMap), NEW new \in SUBSET Nat, IsFiniteSet(new),
         new \cap DOMAIN idMap = {}
  PROVE  /\ DOMAIN WithNew(new) = DOMAIN idMap \cup new
         /\ IsNumbering(WithNew(new))
         /\ \A q \in DOMAIN idMap : WithNew(new)[q] = idMap[q]
<1> DEFINE order == SetToSeq(new)
           place(q) == CHOOSE k \in DOMAIN order : order[k] = q
           n == Cardinality(DOMAIN idMap)
           m == WithNew(new)
<1>1. order \in Seq(new) /\ Len(order) = Cardinality(new) /\ ToSet(order) = new
  BY Enumerated
<1>2. n \in Nat /\ Cardinality(new) \in Nat
  BY FS_CardinalityType DEF IsNumbering
<1>3. m = [q \in DOMAIN idMap \cup new |-> IF q \in new THEN n + place(q) - 1 ELSE idMap[q]]
  BY DEF WithNew
<1>4. ASSUME NEW q \in new
      PROVE  place(q) \in 1..Cardinality(new) /\ order[place(q)] = q
  <2>1. \E k \in DOMAIN order : order[k] = q
    BY <1>1 DEF ToSet
  <2>2. place(q) \in DOMAIN order /\ order[place(q)] = q
    BY <2>1
  <2> QED BY <1>1, <2>2
<1> HIDE DEF order, place, m, n
<1>5. DOMAIN m = DOMAIN idMap \cup new
  BY <1>3
<1>6. \A q \in DOMAIN idMap : m[q] = idMap[q]
  BY <1>3
<1>7. \A q \in new : m[q] = n + place(q) - 1
  BY <1>3
<1>8. \A q \in DOMAIN idMap : idMap[q] \in Nat /\ idMap[q] < n
  BY DEF IsNumbering, n
<1>9. IsFiniteSet(DOMAIN m) /\ Cardinality(DOMAIN m) = n + Cardinality(new)
  <2>1. Cardinality(DOMAIN idMap \cap new) = 0
    BY FS_EmptySet
  <2>2. /\ IsFiniteSet(DOMAIN idMap \cup new)
        /\ Cardinality(DOMAIN idMap \cup new)
             = Cardinality(DOMAIN idMap) + Cardinality(new) - Cardinality(DOMAIN idMap \cap new)
    BY FS_Union DEF IsNumbering
  <2> QED BY <1>2, <1>5, <2>1, <2>2 DEF n
<1>10. \A q \in DOMAIN m : m[q] \in Nat /\ m[q] < n + Cardinality(new)
  <2> SUFFICES ASSUME NEW q \in DOMAIN m PROVE m[q] \in Nat /\ m[q] < n + Cardinality(new)
    OBVIOUS
  <2>1. CASE q \in new
    <3>1. place(q) \in 1..Cardinality(new) /\ m[q] = n + place(q) - 1
      BY <1>4, <1>7, <2>1
    <3> QED BY <1>2, <3>1
  <2>2. CASE q \in DOMAIN idMap
    <3>1. m[q] \in Nat /\ m[q] < n
      BY <1>6, <1>8, <2>2
    <3> QED BY <1>2, <3>1
  <2> QED BY <1>5, <2>1, <2>2
<1>11. ASSUME NEW p \in DOMAIN m, NEW q \in DOMAIN m, m[p] = m[q] PROVE p = q
  <2>1. ASSUME NEW x \in new PROVE m[x] \in Nat /\ m[x] >= n
    <3>1. place(x) \in 1..Cardinality(new) /\ m[x] = n + place(x) - 1
      BY <1>4, <1>7
    <3> QED BY <1>2, <3>1
  <2>2. CASE p \in new /\ q \in new
    <3>1. /\ place(p) \in 1..Cardinality(new) /\ m[p] = n + place(p) - 1
          /\ place(q) \in 1..Cardinality(new) /\ m[q] = n + place(q) - 1
      BY <1>4, <1>7, <2>2
    <3>2. place(p) = place(q)
      <4>1. place(p) \in Int /\ place(q) \in Int /\ n \in Int
        BY <1>2, <3>1
      <4>2. n + place(p) - 1 = n + place(q) - 1
        BY <1>11, <3>1
      <4> QED BY <4>1, <4>2
    <3>3. order[place(p)] = p /\ order[place(q)] = q
      BY <1>4, <2>2
    <3> QED BY <3>2, <3>3
  <2>3. CASE p \in DOMAIN idMap /\ q \in DOMAIN idMap
    <3>1. idMap[p] = idMap[q]
      BY <1>6, <1>11, <2>3
    <3> QED BY <2>3, <3>1 DEF IsNumbering
  <2>4. \A x \in new, y \in DOMAIN idMap : m[x] # m[y]
    <3> SUFFICES ASSUME NEW x \in new, NEW y \in DOMAIN idMap PROVE m[x] # m[y]
      OBVIOUS
    <3>1. m[y] \in Nat /\ m[y] < n
      BY <1>6, <1>8
    <3> QED BY <1>2, <2>1, <3>1
  <2> QED BY <1>5, <1>11, <2>2, <2>3, <2>4
<1>12. IsNumbering(m)
  <2>1. DOMAIN m \in SUBSET Nat
    BY <1>5 DEF IsNumbering
  <2>2. m \in [DOMAIN m -> Nat]
    BY <1>3, <1>10
  <2> QED BY <1>9, <1>10, <1>11, <2>1, <2>2 DEF IsNumbering
<1> QED BY <1>5, <1>6, <1>12 DEF m

LEMMA VisitEstablishes == IInv /\ Visit => IInv'
<1> SUFFICES ASSUME IInv, Visit PROVE IInv'
  OBVIOUS
<1>0. Building /\ pc = "build" /\ worklist # <<>>
  BY DEF IInv, Visit
<1> DEFINE s == Head(worklist)
           out == {t \in source.trans : t[1] = s}
           met == {s} \cup {t[4] : t \in out}
           new == met \ DOMAIN idMap
           m == WithNew(new)
<1>1. PICK D \in SUBSET Nat : Traversed(D)
  BY <1>0 DEF Building
<1>2. PICK order \in SetToSeqs(met \ (DOMAIN idMap \cup {s})) :
             worklist' = Tail(worklist) \o order
  BY DEF Visit
<1>3. /\ idMap' = m
      /\ ret' = [q0 |-> IF s = source.q0 THEN m[s] ELSE ret.q0,
                 acc |-> Accepting(m, new),
                 trans |-> ret.trans
                   \cup {<<m[s], Pair(t)[1], Pair(t)[2], m[t[4]]>> : t \in out}]
      /\ source' = source /\ a' = a /\ op' = op /\ swapped' = swapped /\ pc' = pc
  BY DEF Visit
<1>4. /\ s \in Nat /\ Tail(worklist) \in Seq(Nat)
      /\ \A e \in ToSet(worklist) : e = s \/ e \in ToSet(Tail(worklist))
  <2>1. worklist \in Seq(Nat)
    BY <1>0 DEF Building
  <2> QED BY <1>0, <2>1, TakenOut
<1>5. met \in SUBSET Nat /\ IsFiniteSet(met)
  <2>1. IsMachine(source)
    BY <1>0 DEF Building
  <2>2. out \subseteq source.trans /\ IsFiniteSet(source.trans)
    BY <2>1 DEF IsMachine
  <2>3. IsFiniteSet(out)
    BY <2>2, FS_Subset
  <2> DEFINE f == [t \in out |-> t[4]]
  <2>4. f \in [out -> Nat]
    BY <2>1 DEF IsMachine
  <2>5. {f[t] : t \in out} = {t[4] : t \in out}
    OBVIOUS
  <2> HIDE DEF f, out
  <2>6. IsFiniteSet({t[4] : t \in out})
    <3>1. IsFiniteSet({f[t] : t \in out})
      BY <2>3, <2>4, FiniteImage
    <3> QED BY <2>5, <3>1
  <2>7. IsFiniteSet({s}) /\ met = {s} \cup {t[4] : t \in out}
    BY FS_Singleton
  <2> HIDE DEF met
  <2>8. IsFiniteSet(met)
    BY <2>6, <2>7, FS_Union
  <2>9. {t[4] : t \in out} \subseteq Nat
    BY <2>1, <2>2 DEF IsMachine
  <2> QED BY <1>4, <2>7, <2>8, <2>9
<1>6. /\ DOMAIN m = DOMAIN idMap \cup new
      /\ IsNumbering(m)
      /\ \A q \in DOMAIN idMap : m[q] = idMap[q]
  <2>1. new \in SUBSET Nat /\ IsFiniteSet(new) /\ new \cap DOMAIN idMap = {}
    BY <1>5, FS_Subset
  <2>2. IsNumbering(idMap)
    BY <1>0 DEF Building
  <2> HIDE DEF new
  <2> QED BY <2>1, <2>2, NewNumbers
<1>7. /\ worklist' \in Seq(Nat)
      /\ ToSet(Tail(worklist)) \subseteq ToSet(worklist')
      /\ met \ (DOMAIN idMap \cup {s}) \subseteq ToSet(worklist')
  <2> DEFINE S == met \ (DOMAIN idMap \cup {s})
  <2>1. S \in SUBSET Nat /\ IsFiniteSet(S)
    BY <1>5, FS_Subset
  <2> HIDE DEF S
  <2>2. order \in Seq(S) /\ ToSet(order) = S
    BY <1>2, <2>1, Orders DEF S
  <2>3. order \in Seq(Nat)
    <3>1. Len(order) \in Nat /\ order \in [1..Len(order) -> S]
      BY <2>2
    <3>2. order \in [1..Len(order) -> Nat]
      BY <2>1, <3>1
    <3> QED BY <3>1, <3>2, SeqDef
  <2>4. /\ Tail(worklist) \o order \in Seq(Nat)
        /\ ToSet(Tail(worklist)) \subseteq ToSet(Tail(worklist) \o order)
        /\ ToSet(order) \subseteq ToSet(Tail(worklist) \o order)
    BY <1>4, <2>3, PutIn
  <2> QED BY <1>2, <2>2, <2>4 DEF S
<1>8. s \in DOMAIN m /\ \A t \in out : t[4] \in DOMAIN m
  BY <1>6
<1>9. \A t \in source.trans : Pair(t)' = Pair(t)
  BY <1>3 DEF Pair
<1>10. /\ D \subseteq DOMAIN idMap
       /\ DOMAIN idMap \subseteq D \cup ToSet(worklist)
       /\ source.q0 \in D \cup ToSet(worklist)
       /\ source.q0 \in D => ret.q0 = idMap[source.q0]
       /\ \A t \in source.trans : t[1] \in D => t[4] \in DOMAIN idMap
       /\ ret.trans = {Renamed(idMap, t) : t \in {e \in source.trans : e[1] \in D}}
       /\ ret.acc = {idMap[q] : q \in DOMAIN idMap \cap source.acc}
  BY <1>1 DEF Traversed
<1> DEFINE E == D \cup {s}
           R(t) == Renamed(m, t)
<1>11. ret'.trans = {R(t) : t \in {e \in source.trans : e[1] \in E}}
  <2>1. ASSUME NEW t \in source.trans, t[1] \in D PROVE R(t) = Renamed(idMap, t)
    <3>1. m[t[1]] = idMap[t[1]] /\ m[t[4]] = idMap[t[4]]
      BY <1>6, <1>10, <2>1
    <3> QED BY <3>1 DEF Renamed
  <2>2. ASSUME NEW t \in out PROVE R(t) = <<m[s], Pair(t)[1], Pair(t)[2], m[t[4]]>>
    BY DEF Renamed
  <2>3. ret.trans = {R(t) : t \in {e \in source.trans : e[1] \in D}}
    BY <1>10, <2>1
  <2>4. {<<m[s], Pair(t)[1], Pair(t)[2], m[t[4]]>> : t \in out} = {R(t) : t \in out}
    BY <2>2
  <2>5. {e \in source.trans : e[1] \in E} = {e \in source.trans : e[1] \in D} \cup out
    OBVIOUS
  <2>6. ret'.trans = ret.trans \cup {<<m[s], Pair(t)[1], Pair(t)[2], m[t[4]]>> : t \in out}
    BY <1>3
  <2> HIDE DEF out, m, R, E
  <2> QED BY <2>3, <2>4, <2>5, <2>6
<1>12. ret'.acc = {m[q] : q \in DOMAIN m \cap source.acc}
  <2>1. ret'.acc = ret.acc \cup {m[q] : q \in new \cap source.acc}
    BY <1>3 DEF Accepting
  <2>2. ret.acc = {m[q] : q \in DOMAIN idMap \cap source.acc}
    BY <1>6, <1>10
  <2> HIDE DEF new, m
  <2> QED BY <1>6, <2>1, <2>2
<1>13. source.q0 \in E => ret'.q0 = m[source.q0]
  <2>1. CASE source.q0 = s
    BY <1>3, <2>1
  <2>2. CASE source.q0 \in D /\ source.q0 # s
    BY <1>3, <1>6, <1>10, <2>2
  <2> QED BY <2>1, <2>2
<1>14. E \in SUBSET Nat
  BY <1>4
<1>15. E \subseteq DOMAIN m
  BY <1>6, <1>8, <1>10
<1>16. DOMAIN m \subseteq E \cup ToSet(worklist')
  <2>1. DOMAIN idMap \subseteq E \cup ToSet(worklist')
    BY <1>4, <1>7, <1>10
  <2>2. new \subseteq E \cup ToSet(worklist')
    BY <1>7
  <2> QED BY <1>6, <2>1, <2>2
<1>17. source.q0 \in E \cup ToSet(worklist')
  BY <1>4, <1>7, <1>10
<1>18. \A t \in source.trans : t[1] \in E => t[4] \in DOMAIN m
  BY <1>6, <1>8, <1>10
<1> HIDE DEF m, E, new, met, out, s
<1>19. PICK names : names = m
  OBVIOUS
<1>20. PICK V \in SUBSET Nat : V = E
  BY <1>14
<1>21. Traversed(V)'
  <2>1. \A t \in source.trans : Renamed(idMap, t)' = R(t)
    BY <1>3, <1>9 DEF Renamed
  <2>2. ret'.trans = {Renamed(idMap, t)' : t \in {e \in source.trans : e[1] \in V}}
    BY <1>11, <1>20, <2>1
  <2> HIDE DEF R
  <2> QED BY <1>3, <1>12, <1>13, <1>15, <1>16, <1>17, <1>18, <1>19, <1>20, <2>2
          DEF Traversed
<1>22. IsNumbering(idMap)'
  BY <1>3, <1>6 DEF IsNumbering
<1>23. IsMachine(source)'
  BY <1>0, <1>3 DEF Building, IsMachine
<1>24. Right(source.q0, source.acc, Moves)'
  <2>1. Moves' = Moves
    BY <1>3, <1>9 DEF Moves, Moved
  <2>2. Right(source.q0, source.acc, Moves)
    BY <1>0 DEF Building
  <2>3. Meant' = Meant /\ (IsSingleLetters <=> IsSingleLetters')
    BY <1>3 DEF Meant, MeantMoves, IsSingleLetters
  <2>4. Right(source.q0, source.acc, Moves)' = Right(source.q0, source.acc, Moves')
    BY <1>3, <2>3 DEF Right
  <2> QED BY <2>1, <2>2, <2>4
<1>25. Building'
  BY <1>7, <1>21, <1>22, <1>23, <1>24 DEF Building
<1> QED BY <1>0, <1>3, <1>25 DEF IInv

-----------------------------------------------------------------------------
(* When no state waits, the transducer built has the paths of its source.  *)
LEMMA TraversalDone ==
  ASSUME IInv, pc = "build", worklist = <<>>
  PROVE  IsMachine(ret) /\ Right(ret.q0, ret.acc, ret.trans)
<1>0. Building
  BY DEF IInv
<1>1. PICK D \in SUBSET Nat : Traversed(D)
  BY <1>0 DEF Building
<1>2. ToSet(worklist) = {}
  BY DEF ToSet
<1>3. /\ D = DOMAIN idMap
      /\ source.q0 \in D /\ ret.q0 = idMap[source.q0]
      /\ \A t \in source.trans : t[1] \in D => t[4] \in D
      /\ ret.trans = {Renamed(idMap, t) : t \in {e \in source.trans : e[1] \in D}}
      /\ ret.acc = {idMap[q] : q \in D \cap source.acc}
  BY <1>1, <1>2 DEF Traversed
<1>4. /\ idMap \in [D -> Nat]
      /\ \A p, q \in D : idMap[p] = idMap[q] => p = q
  BY <1>0, <1>3 DEF Building, IsNumbering
<1>5. IsMachine(ret)
  <2>1. ret.q0 \in Nat /\ ret.acc \subseteq Nat
    BY <1>3, <1>4
  <2>2. \A n \in ret.trans : n = <<n[1], n[2], n[3], n[4]>> /\ n[1] \in Nat /\ n[4] \in Nat
    BY <1>3, <1>4 DEF Renamed
  <2>3. IsFiniteSet(ret.trans)
    <3> DEFINE S == {e \in source.trans : e[1] \in D}
               f == [t \in S |-> Renamed(idMap, t)]
               T == {Renamed(idMap, t) : t \in S}
    <3>1. S \subseteq source.trans /\ IsFiniteSet(source.trans)
      BY <1>0 DEF Building, IsMachine
    <3>2. IsFiniteSet(S)
      BY <3>1, FS_Subset
    <3>3. f \in [S -> T] /\ {f[t] : t \in S} = T /\ ret.trans = T
      BY <1>3
    <3> HIDE DEF S, f, T
    <3>4. f \in [S -> T]
      BY <3>3
    <3>5. IsFiniteSet({f[t] : t \in S})
      BY <3>2, <3>4, FiniteImage
    <3> QED BY <3>3, <3>5
  <2> QED BY <2>1, <2>2, <2>3 DEF IsMachine
<1> DEFINE R == {<<q, idMap[q]>> : q \in D}
           S == {<<idMap[q], q>> : q \in D}
<1>6. <<source.q0, ret.q0>> \in R /\ <<ret.q0, source.q0>> \in S
  BY <1>3
<1>7. /\ \A r \in R : r[1] \in source.acc => r[2] \in ret.acc
      /\ \A r \in S : r[1] \in ret.acc => r[2] \in source.acc
  BY <1>3, <1>4
<1>8. IsSimulation(R, FALSE, Moves, ret.trans)
  <2> SUFFICES ASSUME NEW m \in Moves, NEW r \in R, r[1] = m[1]
               PROVE  \E n \in ret.trans : /\ n[1] = r[2] /\ <<m[4], n[4]>> \in R
                                           /\ <<n[2], n[3]>> = Flip(FALSE, m[2], m[3])
    BY DEF IsSimulation
  <2>0. PICK t \in source.trans, q \in D : m = Moved(t) /\ r = <<q, idMap[q]>>
    BY DEF Moves
  <2>1. q = t[1] /\ t[4] \in D
    BY <1>3, <2>0 DEF Moved
  <2>2. Renamed(idMap, t) \in ret.trans
    BY <1>3, <2>1
  <2>3. <<Moved(t)[4], Renamed(idMap, t)[4]>> \in R
    BY <2>1 DEF Moved, Renamed
  <2>4. /\ Renamed(idMap, t)[1] = r[2]
        /\ Renamed(idMap, t)[2] = m[2] /\ Renamed(idMap, t)[3] = m[3]
    BY <2>0, <2>1 DEF Moved, Renamed
  <2> HIDE DEF R
  <2> QED BY <2>0, <2>2, <2>3, <2>4 DEF Flip
<1>9. IsSimulation(S, FALSE, ret.trans, Moves)
  <2> SUFFICES ASSUME NEW n \in ret.trans, NEW r \in S, r[1] = n[1]
               PROVE  \E m \in Moves : /\ m[1] = r[2] /\ <<n[4], m[4]>> \in S
                                       /\ <<m[2], m[3]>> = Flip(FALSE, n[2], n[3])
    BY DEF IsSimulation
  <2>0. PICK q \in D : r = <<idMap[q], q>>
    OBVIOUS
  <2>1. PICK t \in source.trans : t[1] \in D /\ n = Renamed(idMap, t)
    BY <1>3
  <2>2. t[1] = q /\ t[4] \in D
    BY <1>3, <1>4, <2>0, <2>1 DEF Renamed
  <2>3. Moved(t) \in Moves
    BY DEF Moves
  <2>4. <<n[4], Moved(t)[4]>> \in S
    BY <2>1, <2>2 DEF Moved, Renamed
  <2>5. Moved(t)[1] = r[2] /\ Moved(t)[2] = n[2] /\ Moved(t)[3] = n[3]
    BY <2>0, <2>1, <2>2 DEF Moved, Renamed
  <2> HIDE DEF S
  <2> QED BY <2>3, <2>4, <2>5 DEF Flip
<1> HIDE DEF R, S
<1>10. /\ SimulatedBy(FALSE, source.q0, source.acc, Moves, ret.q0, ret.acc, ret.trans)
       /\ SimulatedBy(FALSE, ret.q0, ret.acc, ret.trans, source.q0, source.acc, Moves)
  BY <1>6, <1>7, <1>8, <1>9 DEF SimulatedBy
<1>11. Right(source.q0, source.acc, Moves)
  BY <1>0 DEF Building
<1>12. /\ Related(ret.q0, ret.acc, ret.trans) \subseteq MeantOf(FALSE)
       /\ IsSingleLetters => MeantOf(FALSE) \subseteq Related(ret.q0, ret.acc, ret.trans)
  BY <1>10, <1>11, RightSimulated
<1> QED BY <1>5, <1>12 DEF Right, MeantOf

LEMMA BuiltEstablishes == IInv /\ Built => IInv'
<1> SUFFICES ASSUME IInv, Built PROVE IInv'
  OBVIOUS
<1>1. pc = "build" /\ worklist = <<>> /\ pc' = "built"
  BY DEF Built
<1>2. IsMachine(ret) /\ Right(ret.q0, ret.acc, ret.trans)
  BY <1>1, TraversalDone
<1>3. a' = a /\ op' = op /\ ret' = ret /\ swapped' = swapped
  BY DEF Built, build
<1>4. Right(ret.q0, ret.acc, ret.trans)'
  BY <1>2, <1>3 DEF Right, Meant, MeantMoves, IsSingleLetters
<1>5. IsMachine(ret)'
  BY <1>2, <1>3 DEF IsMachine
<1> QED BY <1>1, <1>3, <1>4, <1>5 DEF IInv

-----------------------------------------------------------------------------
(* A transducer that was built is copied or inverted                       *)
TurnedMoves(flip, moves) ==
  {<<t[1], Flip(flip, t[2], t[3])[1], Flip(flip, t[2], t[3])[2], t[4]>> : t \in moves}

LEMMA MovesTurned ==
  ASSUME NEW flip \in BOOLEAN, NEW q0, NEW acc, NEW moves
  PROVE  /\ SimulatedBy(flip, q0, acc, moves, q0, acc, TurnedMoves(flip, moves))
         /\ SimulatedBy(flip, q0, acc, TurnedMoves(flip, moves), q0, acc, moves)
<1> DEFINE N == TurnedMoves(flip, moves)
           Turn(t) == <<t[1], Flip(flip, t[2], t[3])[1], Flip(flip, t[2], t[3])[2], t[4]>>
           states == {q0} \cup {t[4] : t \in moves}
           R == {<<q, q>> : q \in states}
<1>1. <<q0, q0>> \in R
  OBVIOUS
<1>2. \A r \in R : r[1] = r[2]
  OBVIOUS
<1>3. \A t \in moves : <<t[4], t[4]>> \in R
  OBVIOUS
<1>4. \A t \in moves : /\ Turn(t) \in N /\ Turn(t)[1] = t[1] /\ Turn(t)[4] = t[4]
                       /\ <<Turn(t)[2], Turn(t)[3]>> = Flip(flip, t[2], t[3])
                       /\ <<t[2], t[3]>> = Flip(flip, Turn(t)[2], Turn(t)[3])
  BY DEF TurnedMoves, Flip
<1>5. \A n \in N : \E t \in moves : n = Turn(t)
  BY DEF TurnedMoves
<1> HIDE DEF R, N, Turn
<1>6. IsSimulation(R, flip, moves, N)
  <2> SUFFICES ASSUME NEW m \in moves, NEW r \in R, r[1] = m[1]
               PROVE  \E n \in N : /\ n[1] = r[2] /\ <<m[4], n[4]>> \in R
                                   /\ <<n[2], n[3]>> = Flip(flip, m[2], m[3])
    BY DEF IsSimulation
  <2>1. Turn(m) \in N
    BY <1>4
  <2> QED BY <1>2, <1>3, <1>4, <2>1
<1>7. IsSimulation(R, flip, N, moves)
  <2> SUFFICES ASSUME NEW m \in N, NEW r \in R, r[1] = m[1]
               PROVE  \E n \in moves : /\ n[1] = r[2] /\ <<m[4], n[4]>> \in R
                                       /\ <<n[2], n[3]>> = Flip(flip, m[2], m[3])
    BY DEF IsSimulation
  <2>1. PICK t \in moves : m = Turn(t)
    BY <1>5
  <2> QED BY <1>2, <1>3, <1>4, <2>1
<1>8. SimulatedBy(flip, q0, acc, moves, q0, acc, N)
  BY <1>1, <1>2, <1>6 DEF SimulatedBy
<1>9. SimulatedBy(flip, q0, acc, N, q0, acc, moves)
  BY <1>1, <1>2, <1>7 DEF SimulatedBy
<1> QED BY <1>8, <1>9 DEF N

LEMMA TurnedTwice ==
  ASSUME NEW P, \A e \in P : e = <<e[1], e[2]>>
  PROVE  Turned(Turned(P)) = P
<1>1. ASSUME NEW e \in P PROVE e \in Turned(Turned(P))
  <2> DEFINE d == <<e[2], e[1]>>
  <2>1. d \in Turned(P) /\ <<d[2], d[1]>> = e
    BY DEF Turned
  <2> HIDE DEF d
  <2> QED BY <2>1 DEF Turned
<1>2. ASSUME NEW e \in Turned(Turned(P)) PROVE e \in P
  <2>1. PICK d \in Turned(P) : e = <<d[2], d[1]>>
    BY DEF Turned
  <2>2. PICK c \in P : d = <<c[2], c[1]>>
    BY DEF Turned
  <2> QED BY <2>1, <2>2
<1> QED BY <1>1, <1>2

LEMMA DeepCopyEstablishes ==
  ASSUME NEW flip \in BOOLEAN, IInv, DeepCopy(flip)
  PROVE  IInv'
<1>1. /\ pc = "built" /\ IsMachine(ret) /\ Right(ret.q0, ret.acc, ret.trans)
      /\ a \in Inputs /\ swapped \in BOOLEAN
  BY DEF IInv, DeepCopy
<1>2. /\ source' = ret /\ op' = IF flip THEN "invert" ELSE "copy"
      /\ ret' = Empty /\ idMap' = <<>> /\ worklist' = <<ret.q0>>
      /\ swapped' = IF flip THEN ~ swapped ELSE swapped
      /\ pc' = "build" /\ a' = a
  BY DEF DeepCopy
<1>3. Moves' = TurnedMoves(flip, ret.trans)
  <2>1. ASSUME NEW t \in ret.trans
        PROVE  Moved(t)' = <<t[1], Flip(flip, t[2], t[3])[1], Flip(flip, t[2], t[3])[2], t[4]>>
    BY <1>2 DEF Moved, Pair, Flip
  <2>2. Moves' = {Moved(t)' : t \in ret.trans}
    BY <1>2 DEF Moves
  <2> QED BY <2>1, <2>2 DEF TurnedMoves
<1>4. Meant' = MeantOf(flip)
  <2> DEFINE P == Related(a.q0, a.acc, MeantMoves)
  <2>1. Meant' = IF swapped' THEN Turned(P) ELSE P
    BY <1>2 DEF Meant, MeantMoves
  <2>2. Meant = IF swapped THEN Turned(P) ELSE P
    BY DEF Meant
  <2>3. Turned(Turned(P)) = P
    BY RelatedArePairs, TurnedTwice
  <2> HIDE DEF P
  <2> QED BY <1>1, <1>2, <2>1, <2>2, <2>3 DEF MeantOf
<1>5. /\ Related(ret.q0, ret.acc, TurnedMoves(flip, ret.trans)) \subseteq MeantOf(flip)
      /\ IsSingleLetters => MeantOf(flip) \subseteq Related(ret.q0, ret.acc, TurnedMoves(flip, ret.trans))
  BY <1>1, MovesTurned, RightSimulated
<1>6. IsSingleLetters <=> IsSingleLetters'
  BY <1>2 DEF IsSingleLetters
<1>7. Right(source.q0, source.acc, Moves)'
  <2>1. Right(source.q0, source.acc, Moves)'
          <=> /\ Related(ret.q0, ret.acc, Moves') \subseteq Meant'
              /\ IsSingleLetters' => Meant' \subseteq Related(ret.q0, ret.acc, Moves')
    BY <1>2 DEF Right
  <2> QED BY <1>3, <1>4, <1>5, <1>6, <2>1
<1>8. IsMachine(source)'
  BY <1>1, <1>2 DEF IsMachine
<1>9. /\ worklist' \in Seq(Nat) /\ ToSet(worklist') = {ret.q0}
      /\ DOMAIN idMap' = {}
  BY <1>1, <1>2 DEF IsMachine, ToSet
<1>10. IsNumbering(idMap)'
  BY <1>2, <1>9, FS_EmptySet DEF IsNumbering
<1>11. Traversed({})'
  BY <1>2, <1>9 DEF Traversed, Empty
<1>12. (\E D \in SUBSET Nat : Traversed(D))'
  BY <1>11
<1>13. Building'
  BY <1>7, <1>8, <1>9, <1>10, <1>12 DEF Building
<1> QED BY <1>1, <1>2, <1>13 DEF IInv

(* The run of a transducer changes none.                                   *)
LEMMA KeptByRun ==
  ASSUME IInv, pc # "build", pc' # "build", UNCHANGED build
  PROVE  IInv'
<1>1. a' = a /\ op' = op /\ ret' = ret /\ swapped' = swapped
  BY DEF build
<1>2. IsMachine(ret) /\ Right(ret.q0, ret.acc, ret.trans)
  BY DEF IInv
<1>3. IsMachine(ret)' /\ Right(ret.q0, ret.acc, ret.trans)'
  BY <1>1, <1>2 DEF IsMachine, Right, Meant, MeantMoves, IsSingleLetters
<1> QED BY <1>1, <1>3 DEF IInv

LEMMA Inductive == IInv /\ [Next]_vars => IInv'
<1> SUFFICES ASSUME IInv, [Next]_vars PROVE IInv'
  OBVIOUS
<1>1. CASE Visit
  BY <1>1, VisitEstablishes
<1>2. CASE Built
  BY <1>2, BuiltEstablishes
<1>3. CASE Copy
  BY <1>3, DeepCopyEstablishes DEF Copy
<1>4. CASE Invert
  BY <1>4, DeepCopyEstablishes DEF Invert
<1>5. CASE StartRun
  BY <1>5, KeptByRun DEF StartRun
<1>6. CASE RunStep
  BY <1>6, KeptByRun DEF RunStep
<1>7. CASE RunStuck
  BY <1>7, KeptByRun DEF RunStuck
<1>8. CASE RunEnd
  BY <1>8, KeptByRun DEF RunEnd
<1>9. CASE UNCHANGED vars
  <2>1. /\ a' = a /\ source' = source /\ op' = op /\ ret' = ret /\ idMap' = idMap
        /\ worklist' = worklist /\ swapped' = swapped /\ pc' = pc
    BY <1>9 DEF vars, build
  <2>2. IInv' <=> IInv
    BY <2>1 DEF IInv, Building, IsMachine, IsNumbering, Traversed, Renamed, Right, Moves,
                Moved, Pair, Meant, MeantMoves, IsSingleLetters
  <2> QED BY <2>2
<1> QED BY <1>1, <1>2, <1>3, <1>4, <1>5, <1>6, <1>7, <1>8, <1>9 DEF Next

LEMMA Invariance == Spec => []IInv
BY Initially, Inductive, PTL DEF Spec

(* Whatever was built, copied and inverted, over any letters and in any    *)
(* order of the visits, relates only words that the automaton of pairs     *)
(* says, and all of them when no transition stands for more than one pair. *)
THEOREM TransducersAreRight == Spec => []RelationExact
<1>1. IInv => RelationExact
  BY DEF IInv, RelationExact, Right
<1> QED BY <1>1, Invariance, PTL

-----------------------------------------------------------------------------
(* The run of a transducer on two words                                    *)

(* From position k of w to position l, reading x.                          *)
Reads(w, k, x, l) ==
  \/ x = Epsilon /\ l = k
  \/ x # Epsilon /\ k <= Len(w) /\ x = w[k] /\ l = k + 1

Prefix(w, k) == SubSeq(w, 1, k - 1)

LEMMA PrefixSteps ==
  ASSUME NEW S, NEW w \in Seq(S)
  PROVE  /\ Prefix(w, 1) = <<>>
         /\ Prefix(w, Len(w) + 1) = w
         /\ \A k \in 1..Len(w) + 1 : Prefix(w, k) \in Seq(S) /\ Len(Prefix(w, k)) = k - 1
         /\ \A k \in 1..Len(w) : Prefix(w, k + 1) = Append(Prefix(w, k), w[k])
<1>0. Len(w) \in Nat
  OBVIOUS
<1>1. Prefix(w, 1) = <<>>
  BY DEF Prefix
<1>2. Prefix(w, Len(w) + 1) = w
  <2>1. Len(w) + 1 - 1 = Len(w)
    BY <1>0
  <2> QED BY <2>1 DEF Prefix
<1>3. ASSUME NEW k \in 1..Len(w) + 1
      PROVE  Prefix(w, k) \in Seq(S) /\ Len(Prefix(w, k)) = k - 1
  BY <1>0 DEF Prefix
<1>4. ASSUME NEW k \in 1..Len(w)
      PROVE  Prefix(w, k + 1) = Append(Prefix(w, k), w[k])
  BY <1>0 DEF Prefix
<1> QED BY <1>1, <1>2, <1>3, <1>4

LEMMA Written ==
  ASSUME NEW S, NEW w \in Seq(S), Epsilon \notin S, NEW k \in 1..Len(w) + 1,
         NEW x, NEW l, Reads(w, k, x, l)
  PROVE  l \in 1..Len(w) + 1 /\ Prefix(w, l) = Write(Prefix(w, k), x)
<1>0. Len(w) \in Nat
  OBVIOUS
<1>1. CASE x = Epsilon
  BY <1>1 DEF Reads, Write
<1>2. CASE x # Epsilon
  <2>1. k \in 1..Len(w) /\ l = k + 1 /\ x = w[k]
    BY <1>0, <1>2 DEF Reads
  <2> QED BY <1>0, <1>2, <2>1, PrefixSteps DEF Write
<1> QED BY <1>1, <1>2

LEMMA Unwritten ==
  ASSUME NEW S, NEW w \in Seq(S), NEW k \in 1..Len(w) + 1,
         NEW T, NEW y \in Seq(T), NEW x \in T, Write(y, x) = Prefix(w, k)
  PROVE  \E l \in 1..Len(w) + 1 : y = Prefix(w, l) /\ Reads(w, l, x, k)
<1>0. Len(w) \in Nat
  OBVIOUS
<1>1. CASE x = Epsilon
  BY <1>1 DEF Reads, Write
<1>2. CASE x # Epsilon
  <2>1. Append(y, x) = Prefix(w, k)
    BY <1>2 DEF Write
  <2>2. Len(Prefix(w, k)) = k - 1 /\ Len(Append(y, x)) = Len(y) + 1 /\ Len(y) \in Nat
    BY PrefixSteps
  <2>3. k - 1 \in 1..Len(w) /\ (k - 1) + 1 = k
    BY <1>0, <2>1, <2>2
  <2>4. Prefix(w, k) = Append(Prefix(w, k - 1), w[k - 1])
    BY <2>3, PrefixSteps
  <2>5. Prefix(w, k - 1) \in Seq(S) /\ w[k - 1] \in S
    BY <1>0, <2>3, PrefixSteps
  <2>6. y = Prefix(w, k - 1) /\ x = w[k - 1]
    <3>1. Append(y, x) = Append(Prefix(w, k - 1), w[k - 1])
      BY <2>1, <2>4
    <3>2. y \in Seq(S \cup T) /\ Prefix(w, k - 1) \in Seq(S \cup T)
      BY <2>5, SeqDef
    <3> QED BY <2>5, <3>1, <3>2, AppendInjective
  <2>7. Reads(w, k - 1, x, k)
    BY <1>2, <2>3, <2>6 DEF Reads
  <2>8. k - 1 \in 1..Len(w) + 1
    BY <1>0, <2>3
  <2> QED BY <2>6, <2>7, <2>8
<1> QED BY <1>1, <1>2

(* A configuration of the run: the state, and the positions in the words.  *)
Configs == Nat \X (1..Len(u) + 1) \X (1..Len(v) + 1)

Goes(c, m, d) ==
  m[1] = c[1] /\ d[1] = m[4] /\ Reads(u, c[2], m[2], d[2]) /\ Reads(v, c[3], m[3], d[3])

Final == {c \in Configs : c[1] \in ret.acc /\ c[2] = Len(u) + 1 /\ c[3] = Len(v) + 1}

(* From some configurations the end can be reached: the least set with the *)
(* final ones and all that lead to one of the set.                         *)
IsClosed(X) ==
  /\ Final \subseteq X
  /\ \A c \in Configs, m \in ret.trans, d \in X : Goes(c, m, d) => c \in X

Accepts(c) == \A X \in SUBSET Configs : IsClosed(X) => c \in X

LEMMA AcceptsBackwards ==
  /\ \A c \in Final : Accepts(c)
  /\ \A c \in Configs, m \in ret.trans : \A d : Goes(c, m, d) /\ Accepts(d) => Accepts(c)
BY DEF Accepts, IsClosed

LEMMA AcceptsOnwards ==
  ASSUME NEW c \in Configs, Accepts(c), c \notin Final
  PROVE  \E m \in ret.trans, d \in Configs : Goes(c, m, d) /\ Accepts(d)
<1> DEFINE Onward(e) == \E m \in ret.trans, d \in Configs : Goes(e, m, d) /\ Accepts(d)
           X == {e \in Configs : e \in Final \/ Onward(e)}
<1>1. \A d \in X : d \in Configs /\ Accepts(d)
  BY AcceptsBackwards
<1>2. Final \subseteq X
  BY DEF Final
<1>3. ASSUME NEW e \in Configs, NEW m \in ret.trans, NEW d \in X, Goes(e, m, d)
      PROVE  e \in X
  BY <1>1, <1>3
<1>4. X \in SUBSET Configs /\ IsClosed(X)
  BY <1>2, <1>3 DEF IsClosed
<1>5. c \in X
  BY <1>4 DEF Accepts
<1> QED BY <1>5

(* The words of a run; a state of a path of the transducer.                *)
IsRunOf ==
  /\ IsMachine(ret)
  /\ u \in Seq(Letters) /\ v \in Seq(Letters)

LEMMA PathStates ==
  ASSUME IsMachine(ret), NEW l \in 0..MaxLength, NEW p \in Paths(ret.q0, ret.trans)[l]
  PROVE  /\ p[1] \in Nat /\ p = <<p[1], p[2], p[3]>>
         /\ p[2] \in Seq(Symbols(ret.trans)) /\ p[3] \in Seq(Symbols(ret.trans))
<1>1. p \in Places(ret.q0, ret.trans)
  BY PathsStepwise
<1>2. Ends(ret.q0, ret.trans) \subseteq Nat
  BY DEF Ends, IsMachine
<1> QED BY <1>1, <1>2 DEF Places

(* A path to a configuration from which the end can be reached.            *)
LEMMA PathsAccept ==
  ASSUME IsRunOf
  PROVE  \A l \in 0..MaxLength : \A p \in Paths(ret.q0, ret.trans)[l] :
           \A x \in 1..Len(u) + 1, y \in 1..Len(v) + 1 :
             p[2] = Prefix(u, x) /\ p[3] = Prefix(v, y) /\ Accepts(<<p[1], x, y>>)
               => Accepts(<<ret.q0, 1, 1>>)
<1> DEFINE f == Paths(ret.q0, ret.trans)
           Leads(p) == \A x \in 1..Len(u) + 1, y \in 1..Len(v) + 1 :
             p[2] = Prefix(u, x) /\ p[3] = Prefix(v, y) /\ Accepts(<<p[1], x, y>>)
               => Accepts(<<ret.q0, 1, 1>>)
           T == {l \in Nat : l <= MaxLength => \A p \in f[l] : Leads(p)}
<1>0. /\ MaxLength \in Nat /\ Len(u) \in Nat /\ Len(v) \in Nat
      /\ u \in Seq(Letters) /\ v \in Seq(Letters)
      /\ IsMachine(ret)
  BY TransducersAssumption DEF IsRunOf
<1>1. /\ f[0] = {<<ret.q0, <<>>, <<>>>>}
      /\ \A l \in 1..MaxLength : f[l] = f[l - 1] \cup Extended(f[l - 1], ret.trans)
  BY PathsStepwise
<1>2. \A l \in 0..MaxLength : \A p \in f[l] :
        /\ p[1] \in Nat
        /\ p[2] \in Seq(Symbols(ret.trans)) /\ p[3] \in Seq(Symbols(ret.trans))
  BY <1>0, PathStates
<1> HIDE DEF f
<1>3. 0 \in T
  <2> SUFFICES ASSUME NEW x \in 1..Len(u) + 1, NEW y \in 1..Len(v) + 1,
                      <<>> = Prefix(u, x), <<>> = Prefix(v, y), Accepts(<<ret.q0, x, y>>)
               PROVE  Accepts(<<ret.q0, 1, 1>>)
    BY <1>1
  <2>1. Len(Prefix(u, x)) = x - 1 /\ Len(Prefix(v, y)) = y - 1
    BY <1>0, PrefixSteps
  <2>2. x = 1 /\ y = 1
    BY <1>0, <2>1
  <2> QED BY <2>2
<1>4. ASSUME NEW l \in 0..MaxLength - 1, l \in T PROVE l + 1 \in T
  <2>1. l \in Nat /\ l + 1 \in 1..MaxLength /\ (l + 1) - 1 = l /\ l <= MaxLength /\ l \in 0..MaxLength
    BY <1>0
  <2>2. \A p \in f[l] : Leads(p)
    BY <1>4, <2>1
  <2>3. f[l + 1] = f[l] \cup Extended(f[l], ret.trans)
    BY <1>1, <2>1
  <2>4. ASSUME NEW p \in f[l], NEW m \in ret.trans, m[1] = p[1],
               NEW x \in 1..Len(u) + 1, NEW y \in 1..Len(v) + 1,
               Write(p[2], m[2]) = Prefix(u, x), Write(p[3], m[3]) = Prefix(v, y),
               Accepts(<<m[4], x, y>>)
        PROVE  Accepts(<<ret.q0, 1, 1>>)
    <3>0. m[2] \in Symbols(ret.trans) /\ m[3] \in Symbols(ret.trans)
      BY DEF Symbols
    <3>1. /\ p[1] \in Nat
          /\ p[2] \in Seq(Symbols(ret.trans)) /\ p[3] \in Seq(Symbols(ret.trans))
      BY <1>2, <2>1
    <3>2. PICK x0 \in 1..Len(u) + 1 : p[2] = Prefix(u, x0) /\ Reads(u, x0, m[2], x)
      BY <1>0, <2>4, <3>0, <3>1, Unwritten
    <3>3. PICK y0 \in 1..Len(v) + 1 : p[3] = Prefix(v, y0) /\ Reads(v, y0, m[3], y)
      BY <1>0, <2>4, <3>0, <3>1, Unwritten
    <3>4. <<p[1], x0, y0>> \in Configs
      BY <3>1 DEF Configs
    <3>5. Goes(<<p[1], x0, y0>>, m, <<m[4], x, y>>)
      BY <2>4, <3>2, <3>3 DEF Goes
    <3>6. Accepts(<<p[1], x0, y0>>)
      BY <2>4, <3>4, <3>5, AcceptsBackwards
    <3> QED BY <2>2, <3>2, <3>3, <3>6
  <2>5. \A p \in f[l + 1] : Leads(p)
    <3> SUFFICES ASSUME NEW p \in f[l + 1], NEW x \in 1..Len(u) + 1, NEW y \in 1..Len(v) + 1,
                        p[2] = Prefix(u, x), p[3] = Prefix(v, y), Accepts(<<p[1], x, y>>)
                 PROVE  Accepts(<<ret.q0, 1, 1>>)
      OBVIOUS
    <3>1. CASE p \in f[l]
      BY <2>2, <3>1
    <3>2. CASE p \in Extended(f[l], ret.trans)
      <4>1. PICK o \in f[l], m \in ret.trans : m[1] = o[1] /\ p = Onwards(o, m)
        BY <3>2 DEF Extended
      <4>2. p[1] = m[4] /\ p[2] = Write(o[2], m[2]) /\ p[3] = Write(o[3], m[3])
        BY <4>1 DEF Onwards
      <4> QED BY <2>4, <4>1, <4>2
    <3> QED BY <2>3, <3>1, <3>2
  <2> QED BY <2>1, <2>5
<1> HIDE DEF T, Leads
<1>5. 0..MaxLength \subseteq T
  BY <1>0, <1>3, <1>4, IntervalInduction
<1> QED BY <1>5 DEF T, Leads, f

LEMMA RelatedAccepts ==
  ASSUME IsRunOf, <<u, v>> \in Related(ret.q0, ret.acc, ret.trans)
  PROVE  Accepts(<<ret.q0, 1, 1>>)
<1>0. MaxLength \in 0..MaxLength
  BY TransducersAssumption
<1>1. PICK p \in Paths(ret.q0, ret.trans)[MaxLength] : p[1] \in ret.acc /\ <<u, v>> = <<p[2], p[3]>>
  BY RelatedByPaths
<1>2. p[2] = Prefix(u, Len(u) + 1) /\ p[3] = Prefix(v, Len(v) + 1)
  BY <1>1, PrefixSteps DEF IsRunOf
<1>3. Len(u) + 1 \in 1..Len(u) + 1 /\ Len(v) + 1 \in 1..Len(v) + 1
  BY DEF IsRunOf
<1>4. <<p[1], Len(u) + 1, Len(v) + 1>> \in Final
  BY <1>0, <1>1, <1>3, PathStates DEF Final, Configs, IsRunOf
<1>5. Accepts(<<p[1], Len(u) + 1, Len(v) + 1>>)
  BY <1>4, AcceptsBackwards
<1> QED BY <1>0, <1>2, <1>3, <1>5, PathsAccept

-----------------------------------------------------------------------------
(* The choices of the run                                                  *)
Determined == Deterministic \/ EpsilonLast

(* Each transition reads a letter of one of the words at least.            *)
HasLetter(x, y) == x # Epsilon \/ y # Epsilon

Lettered == \A m \in ret.trans : HasLetter(m[2], m[3])

At == <<ts, i, j>>

IsRunning ==
  /\ IsRunOf
  /\ Len(u) + Len(v) <= MaxLength
  /\ At \in Configs

(* What the first possible choice reads.                                   *)
IsTaken(e) ==
  \/ HasU /\ HasV /\ e[2] = u[i] /\ e[3] = v[j]
  \/ HasU /\ Both = {} /\ e[2] = u[i] /\ e[3] = Epsilon
  \/ HasV /\ Both = {} /\ OnlyU = {} /\ e[2] = Epsilon /\ e[3] = v[j]

LEMMA LettersRead ==
  ASSUME IsRunning
  PROVE  /\ Len(u) \in Nat /\ Len(v) \in Nat
         /\ ts \in Nat /\ i \in 1..Len(u) + 1 /\ j \in 1..Len(v) + 1
         /\ HasU => i \in 1..Len(u) /\ u[i] # Epsilon
         /\ HasV => j \in 1..Len(v) /\ v[j] # Epsilon
<1>1. u \in Seq(Letters) /\ v \in Seq(Letters) /\ Epsilon \notin Letters
  BY DEF IsRunning, IsRunOf, Letters
<1>2. Len(u) \in Nat /\ Len(v) \in Nat
  BY <1>1
<1>3. ts \in Nat /\ i \in 1..Len(u) + 1 /\ j \in 1..Len(v) + 1
  BY DEF IsRunning, At, Configs
<1>4. HasU => i \in 1..Len(u)
  BY <1>2, <1>3 DEF HasU
<1>5. HasV => j \in 1..Len(v)
  BY <1>2, <1>3 DEF HasV
<1>6. ASSUME NEW k \in 1..Len(u) PROVE u[k] # Epsilon
  BY <1>1
<1>7. ASSUME NEW k \in 1..Len(v) PROVE v[k] # Epsilon
  BY <1>1
<1> QED BY <1>2, <1>3, <1>4, <1>5, <1>6, <1>7

LEMMA StepTaken ==
  ASSUME IsRunning, RunStep
  PROVE  \E e \in ret.trans : Goes(At, e, <<ts', i', j'>>) /\ IsTaken(e)
<1>0. /\ HasU => i <= Len(u) /\ u[i] # Epsilon
      /\ HasV => j <= Len(v) /\ v[j] # Epsilon
  BY LettersRead DEF HasU, HasV
<1>1. ASSUME NEW x, NEW y, ts' \in Dests(x, y)
      PROVE  \E e \in ret.trans : e[1] = ts /\ e[4] = ts' /\ e[2] = x /\ e[3] = y
  BY <1>1 DEF Dests
<1>2. CASE ts' \in Both /\ i' = i + 1 /\ j' = j + 1
  <2>1. HasU /\ HasV /\ ts' \in Dests(u[i], v[j])
    BY <1>2 DEF Both
  <2>2. PICK e \in ret.trans : e[1] = ts /\ e[4] = ts' /\ e[2] = u[i] /\ e[3] = v[j]
    BY <1>1, <2>1
  <2> QED BY <1>0, <1>2, <2>1, <2>2 DEF Goes, At, Reads, IsTaken
<1>3. CASE Both = {} /\ ts' \in OnlyU /\ i' = i + 1 /\ j' = j
  <2>1. HasU /\ ts' \in Dests(u[i], Epsilon)
    BY <1>3 DEF OnlyU
  <2>2. PICK e \in ret.trans : e[1] = ts /\ e[4] = ts' /\ e[2] = u[i] /\ e[3] = Epsilon
    BY <1>1, <2>1
  <2> QED BY <1>0, <1>3, <2>1, <2>2 DEF Goes, At, Reads, IsTaken
<1>4. CASE Both = {} /\ OnlyU = {} /\ ts' \in OnlyV /\ j' = j + 1 /\ i' = i
  <2>1. HasV /\ ts' \in Dests(Epsilon, v[j])
    BY <1>4 DEF OnlyV
  <2>2. PICK e \in ret.trans : e[1] = ts /\ e[4] = ts' /\ e[2] = Epsilon /\ e[3] = v[j]
    BY <1>1, <2>1
  <2> QED BY <1>0, <1>4, <2>1, <2>2 DEF Goes, At, Reads, IsTaken
<1> QED BY <1>2, <1>3, <1>4 DEF RunStep

(* What any transition reads that can be gone along.                       *)
LEMMA MoveReads ==
  ASSUME IsRunning, NEW m \in ret.trans, NEW d \in Configs, Goes(At, m, d), Lettered
  PROVE  \/ /\ HasU /\ HasV /\ m[2] = u[i] /\ m[3] = v[j]
            /\ m[4] \in Both /\ d = <<m[4], i + 1, j + 1>>
         \/ /\ HasU /\ m[2] = u[i] /\ m[3] = Epsilon
            /\ m[4] \in OnlyU /\ d = <<m[4], i + 1, j>>
         \/ /\ HasV /\ m[2] = Epsilon /\ m[3] = v[j]
            /\ m[4] \in OnlyV /\ d = <<m[4], i, j + 1>>
<1>1. /\ m[1] = ts /\ d[1] = m[4] /\ Reads(u, i, m[2], d[2]) /\ Reads(v, j, m[3], d[3])
      /\ d = <<d[1], d[2], d[3]>>
  BY DEF Goes, At, Configs
<1>2. \A x, y : m[2] = x /\ m[3] = y => m[4] \in Dests(x, y)
  BY <1>1 DEF Dests
<1>3. m[2] # Epsilon \/ m[3] # Epsilon
  BY DEF Lettered, HasLetter
<1>4. CASE m[2] # Epsilon /\ m[3] # Epsilon
  <2>1. HasU /\ HasV /\ m[2] = u[i] /\ m[3] = v[j] /\ d[2] = i + 1 /\ d[3] = j + 1
    BY <1>1, <1>4 DEF Reads, HasU, HasV
  <2> QED BY <1>1, <1>2, <2>1 DEF Both
<1>5. CASE m[2] # Epsilon /\ m[3] = Epsilon
  <2>1. HasU /\ m[2] = u[i] /\ d[2] = i + 1 /\ d[3] = j
    BY <1>1, <1>5 DEF Reads, HasU
  <2> QED BY <1>1, <1>2, <1>5, <2>1 DEF OnlyU
<1>6. CASE m[2] = Epsilon /\ m[3] # Epsilon
  <2>1. HasV /\ m[3] = v[j] /\ d[2] = i /\ d[3] = j + 1
    BY <1>1, <1>6 DEF Reads, HasV
  <2> QED BY <1>1, <1>2, <1>6, <2>1 DEF OnlyV
<1> QED BY <1>3, <1>4, <1>5, <1>6

(* If the end can be reached, it can still be after the choice.            *)
LEMMA ChoiceAccepts ==
  ASSUME IsRunning, Determined, Lettered, Accepts(At), RunStep
  PROVE  Accepts(<<ts', i', j'>>)
<1>0. /\ Len(u) \in Nat /\ Len(v) \in Nat
      /\ ts \in Nat /\ i \in 1..Len(u) + 1 /\ j \in 1..Len(v) + 1
      /\ HasU => i \in 1..Len(u) /\ u[i] # Epsilon
      /\ HasV => j \in 1..Len(v) /\ v[j] # Epsilon
      /\ HasU \/ HasV
  BY LettersRead DEF RunStep
<1>1. PICK e \in ret.trans : Goes(At, e, <<ts', i', j'>>) /\ IsTaken(e)
  BY StepTaken
<1>2. At \in Configs /\ At \notin Final
  BY <1>0 DEF IsRunning, At, Final, HasU, HasV
<1>3. PICK m \in ret.trans, d \in Configs : Goes(At, m, d) /\ Accepts(d)
  BY <1>2, AcceptsOnwards
<1> DEFINE Reading(n) ==
             \/ HasU /\ HasV /\ n[2] = u[i] /\ n[3] = v[j] /\ n[4] \in Both
             \/ HasU /\ n[2] = u[i] /\ n[3] = Epsilon /\ n[4] \in OnlyU
             \/ HasV /\ n[2] = Epsilon /\ n[3] = v[j] /\ n[4] \in OnlyV
<1>4. Reading(m)
  BY <1>3, MoveReads
<1>5. /\ m[1] = e[1]
      /\ d = <<d[1], d[2], d[3]>> /\ d[1] = m[4]
      /\ Reads(u, i, m[2], d[2]) /\ Reads(v, j, m[3], d[3])
      /\ ts' = e[4] /\ Reads(u, i, e[2], i') /\ Reads(v, j, e[3], j')
  BY <1>1, <1>3 DEF Goes, At, Configs
<1>6. ASSUME m = e PROVE Accepts(<<ts', i', j'>>)
  <2>1. d[2] = i' /\ d[3] = j' /\ d[1] = ts'
    BY <1>5, <1>6 DEF Reads
  <2> QED BY <1>3, <1>5, <2>1
<1>7. ASSUME m # e PROVE FALSE
  <2>1. CASE Deterministic
    <3>1. PICK k \in 2..3 : m[k] # e[k] /\ Epsilon \notin {m[k], e[k]}
      BY <1>5, <1>7, <2>1 DEF Deterministic
    <3>2. CASE k = 2
      BY <1>1, <1>4, <3>1, <3>2 DEF IsTaken
    <3>3. CASE k = 3
      BY <1>1, <1>4, <3>1, <3>3 DEF IsTaken
    <3> QED BY <3>1, <3>2, <3>3
  <2>2. CASE EpsilonLast
    <3>1. ~ (m[2] = e[2] /\ m[3] = e[3])
      BY <1>5, <1>7, <2>2 DEF EpsilonLast
    <3>2. ASSUME Epsilon \in {m[2], m[3]}
          PROVE  d[2] = Len(u) + 1 /\ d[3] = Len(v) + 1
      <4>1. \A t \in ret.trans : t[1] # m[4]
        BY <2>2, <3>2 DEF EpsilonLast
      <4>2. ~ \E t \in ret.trans, c \in Configs : Goes(d, t, c)
        BY <1>5, <4>1 DEF Goes
      <4>3. d \in Final
        BY <1>3, <4>2, AcceptsOnwards
      <4> QED BY <4>3 DEF Final
    <3>3. CASE HasU /\ HasV /\ e[2] = u[i] /\ e[3] = v[j]
      <4>1. Epsilon \in {m[2], m[3]}
        BY <1>4, <3>1, <3>3
      <4>2. d[2] = i \/ d[3] = j
        BY <1>5, <4>1 DEF Reads
      <4> QED BY <1>0, <3>2, <3>3, <4>1, <4>2
    <3>4. CASE HasU /\ Both = {} /\ e[2] = u[i] /\ e[3] = Epsilon
      <4>1. m[2] = Epsilon
        BY <1>4, <3>1, <3>4
      <4>2. d[2] = i
        BY <1>5, <4>1 DEF Reads
      <4> QED BY <1>0, <3>2, <3>4, <4>1, <4>2
    <3>5. CASE HasV /\ Both = {} /\ OnlyU = {} /\ e[2] = Epsilon /\ e[3] = v[j]
      BY <1>4, <3>1, <3>5
    <3> QED BY <1>1, <3>3, <3>4, <3>5 DEF IsTaken
  <2> QED BY <2>1, <2>2 DEF Determined
<1> QED BY <1>6, <1>7

(* Where no choice is left, the end is reached or cannot be.               *)
LEMMA StuckRejects ==
  ASSUME IsRunning, Lettered, Accepts(At)
  PROVE  /\ RunStuck => FALSE
         /\ ~ HasU /\ ~ HasV => ts \in ret.acc
<1>1. ASSUME At \notin Final PROVE Both # {} \/ OnlyU # {} \/ OnlyV # {}
  <2>1. PICK m \in ret.trans, d \in Configs : Goes(At, m, d) /\ Accepts(d)
    BY <1>1, AcceptsOnwards DEF IsRunning
  <2> QED BY <2>1, MoveReads
<1>2. Both # {} \/ OnlyU # {} \/ OnlyV # {} => HasU \/ HasV
  BY DEF Both, OnlyU, OnlyV
<1>3. At \in Final => ts \in ret.acc /\ i = Len(u) + 1 /\ j = Len(v) + 1
  BY DEF Final, At
<1>4. RunStuck => Both = {} /\ OnlyU = {} /\ OnlyV = {} /\ (i <= Len(u) \/ j <= Len(v))
  BY DEF RunStuck, HasU, HasV
<1>5. Len(u) \in Nat /\ Len(v) \in Nat
  BY LettersRead
<1> QED BY <1>1, <1>2, <1>3, <1>4, <1>5

LEMMA PathsGrow ==
  ASSUME NEW q0, NEW moves, NEW l \in 0..MaxLength
  PROVE  Paths(q0, moves)[l] \subseteq Paths(q0, moves)[MaxLength]
<1> DEFINE f == Paths(q0, moves)
           T == {n \in Nat : l + n <= MaxLength => f[l] \subseteq f[l + n]}
<1>0. MaxLength \in Nat /\ l \in Nat /\ l <= MaxLength
  BY TransducersAssumption
<1>1. \A n \in 1..MaxLength : f[n - 1] \subseteq f[n]
  BY PathsStepwise
<1> HIDE DEF f
<1>2. 0 \in T
  BY <1>0
<1>3. ASSUME NEW n \in Nat, n \in T PROVE n + 1 \in T
  <2> SUFFICES ASSUME l + (n + 1) <= MaxLength PROVE f[l] \subseteq f[l + (n + 1)]
    OBVIOUS
  <2>1. l + (n + 1) \in 1..MaxLength /\ (l + (n + 1)) - 1 = l + n /\ l + n <= MaxLength
    BY <1>0
  <2> QED BY <1>1, <1>3, <2>1
<1> HIDE DEF T
<1>4. MaxLength - l \in T
  BY <1>0, <1>2, <1>3, NumberInduction
<1>5. l + (MaxLength - l) = MaxLength
  BY <1>0
<1> QED BY <1>0, <1>4, <1>5 DEF T, f

-----------------------------------------------------------------------------
(* The invariant of the run: a path was gone that reads what was read, and *)
(* if the end could be reached at the start it still can be.               *)
CanAccept == Determined /\ Lettered /\ Accepts(<<ret.q0, 1, 1>>)

Gone == \E l \in 0..MaxLength : /\ l <= (i - 1) + (j - 1)
                                /\ <<ts, Prefix(u, i), Prefix(v, j)>> \in Paths(ret.q0, ret.trans)[l]

RunInv ==
  /\ pc = "run" => IsRunning /\ Gone /\ (CanAccept => Accepts(At))
  /\ pc = "true" => <<u, v>> \in Related(ret.q0, ret.acc, ret.trans)
  /\ pc = "false" => IsRunOf /\ ~ CanAccept

LEMMA WordsTyped ==
  ASSUME NEW w \in WordsUpTo(MaxLength \div 2)
  PROVE  w \in Seq(Letters) /\ Len(w) \in Nat /\ Len(w) <= MaxLength \div 2
<1>1. PICK l \in 0..MaxLength \div 2 : w \in [1..l -> Letters]
  BY DEF WordsUpTo
<1>2. l \in Nat /\ MaxLength \div 2 \in Nat /\ l <= MaxLength \div 2
  BY TransducersAssumption
<1>3. w \in Seq(Letters)
  BY <1>1, <1>2, SeqDef
<1>4. Len(w) = l
  BY <1>1, <1>2, <1>3
<1> QED BY <1>2, <1>3, <1>4

LEMMA StartRuns == IInv /\ RunInv /\ StartRun => RunInv'
<1> SUFFICES ASSUME IInv, RunInv, StartRun PROVE RunInv'
  OBVIOUS
<1>1. /\ ret' = ret /\ ts' = ret.q0 /\ i' = 1 /\ j' = 1 /\ pc' = "run"
      /\ u' \in WordsUpTo(MaxLength \div 2) /\ v' \in WordsUpTo(MaxLength \div 2)
      /\ pc = "built"
  BY DEF StartRun, build
<1>2. IsMachine(ret) /\ IsMachine(ret)'
  BY <1>1 DEF IInv, IsMachine
<1>3. PICK w \in WordsUpTo(MaxLength \div 2), x \in WordsUpTo(MaxLength \div 2) :
             w = u' /\ x = v'
  BY <1>1
<1>4. /\ w \in Seq(Letters) /\ Len(w) \in Nat /\ Len(w) <= MaxLength \div 2
      /\ x \in Seq(Letters) /\ Len(x) \in Nat /\ Len(x) <= MaxLength \div 2
  BY WordsTyped
<1>5. Letters' = Letters
  BY <1>1 DEF Letters
<1>6. Len(w) + Len(x) <= MaxLength
  <2>1. MaxLength \in Nat /\ 2 * (MaxLength \div 2) <= MaxLength
    BY TransducersAssumption
  <2> QED BY <1>4, <2>1
<1>7. At' \in Configs'
  BY <1>1, <1>2, <1>3, <1>4 DEF At, Configs, IsMachine
<1>8. IsRunning'
  BY <1>2, <1>3, <1>4, <1>5, <1>6, <1>7 DEF IsRunning, IsRunOf
<1>9. Gone'
  <2>1. Prefix(w, 1) = <<>> /\ Prefix(x, 1) = <<>>
    BY <1>4, PrefixSteps
  <2>2. <<ret.q0, <<>>, <<>>>> \in Paths(ret.q0, ret.trans)[0]
    BY PathsStepwise
  <2>3. 0 \in 0..MaxLength
    BY TransducersAssumption
  <2>4. <<ret.q0, Prefix(w, 1), Prefix(x, 1)>> \in Paths(ret.q0, ret.trans)[0]
    BY <2>1, <2>2
  <2> QED BY <1>1, <1>3, <2>3, <2>4 DEF Gone
<1>10. (CanAccept => Accepts(At))'
  <2>1. At' = <<ret'.q0, 1, 1>>
    BY <1>1 DEF At
  <2> QED BY <2>1 DEF CanAccept
<1> QED BY <1>1, <1>8, <1>9, <1>10 DEF RunInv

LEMMA StepRuns == IInv /\ RunInv /\ RunStep => RunInv'
<1> SUFFICES ASSUME IInv, RunInv, RunStep PROVE RunInv'
  OBVIOUS
<1>1. /\ ret' = ret /\ u' = u /\ v' = v /\ pc = "run" /\ pc' = "run"
      /\ IsRunning /\ Gone /\ (CanAccept => Accepts(At))
  BY DEF RunStep, build, RunInv
<1>2. PICK e \in ret.trans : Goes(At, e, <<ts', i', j'>>) /\ IsTaken(e)
  BY <1>1, StepTaken
<1>3. PICK s, x, y : s = ts' /\ x = i' /\ y = j'
  OBVIOUS
<1>4. /\ e[1] = ts /\ s = e[4] /\ Reads(u, i, e[2], x) /\ Reads(v, j, e[3], y)
  BY <1>2, <1>3 DEF Goes, At
<1>5. /\ u \in Seq(Letters) /\ v \in Seq(Letters) /\ Epsilon \notin Letters
      /\ IsMachine(ret) /\ Len(u) + Len(v) <= MaxLength
  BY <1>1 DEF IsRunning, IsRunOf, Letters
<1>6. /\ Len(u) \in Nat /\ Len(v) \in Nat
      /\ ts \in Nat /\ i \in 1..Len(u) + 1 /\ j \in 1..Len(v) + 1
      /\ HasU => i \in 1..Len(u) /\ u[i] # Epsilon
      /\ HasV => j \in 1..Len(v) /\ v[j] # Epsilon
  BY <1>1, LettersRead
<1>7. x \in 1..Len(u) + 1 /\ Prefix(u, x) = Write(Prefix(u, i), e[2])
  BY <1>4, <1>5, <1>6, Written
<1>8. y \in 1..Len(v) + 1 /\ Prefix(v, y) = Write(Prefix(v, j), e[3])
  BY <1>4, <1>5, <1>6, Written
<1>9. s \in Nat
  BY <1>4, <1>5 DEF IsMachine
<1>10. IsRunning'
  <2>1. Configs' = Configs /\ Letters' = Letters /\ At' = <<s, x, y>>
    BY <1>1, <1>3 DEF Configs, Letters, At
  <2>2. <<s, x, y>> \in Configs
    BY <1>7, <1>8, <1>9 DEF Configs
  <2>3. IsMachine(ret)'
    BY <1>1, <1>5 DEF IsMachine
  <2> QED BY <1>1, <1>5, <2>1, <2>2, <2>3 DEF IsRunning, IsRunOf
<1>11. Gone'
  <2>1. PICK l \in 0..MaxLength :
               /\ l <= (i - 1) + (j - 1)
               /\ <<ts, Prefix(u, i), Prefix(v, j)>> \in Paths(ret.q0, ret.trans)[l]
    BY <1>1 DEF Gone
  <2>2. (i - 1) + (j - 1) + 1 <= (x - 1) + (y - 1)
    <3>1. \/ x = i + 1 /\ (y = j \/ y = j + 1)
          \/ y = j + 1 /\ (x = i \/ x = i + 1)
      BY <1>2, <1>4, <1>6 DEF IsTaken, Reads
    <3> QED BY <1>6, <3>1
  <2>3. l + 1 \in 0..MaxLength /\ l + 1 \in 1..MaxLength /\ (l + 1) - 1 = l
        /\ l + 1 <= (x - 1) + (y - 1)
    <3>1. (x - 1) + (y - 1) <= Len(u) + Len(v)
      BY <1>6, <1>7, <1>8
    <3>2. x \in Int /\ y \in Int /\ l \in Nat /\ MaxLength \in Nat
      BY <1>6, <1>7, <1>8, TransducersAssumption
    <3> QED BY <1>5, <1>6, <2>1, <2>2, <3>1, <3>2
  <2> DEFINE p == <<ts, Prefix(u, i), Prefix(v, j)>>
             f == Paths(ret.q0, ret.trans)
  <2>4. Onwards(p, e) = <<s, Prefix(u, x), Prefix(v, y)>>
    BY <1>4, <1>7, <1>8 DEF Onwards
  <2>5. Onwards(p, e) \in Extended(f[l], ret.trans)
    <3>1. p \in f[l] /\ e[1] = p[1]
      BY <1>4, <2>1
    <3> HIDE DEF p, f
    <3> QED BY <3>1 DEF Extended
  <2>6. f[l + 1] = f[l] \cup Extended(f[l], ret.trans)
    BY <2>3, PathsStepwise
  <2>7. <<s, Prefix(u, x), Prefix(v, y)>> \in f[l + 1]
    BY <2>4, <2>5, <2>6
  <2> QED BY <1>1, <1>3, <2>3, <2>7 DEF Gone
<1>12. (CanAccept => Accepts(At))'
  <2>1. \A c : Accepts(c) <=> Accepts(c)'
    BY <1>1 DEF Accepts, IsClosed, Final, Goes, Configs
  <2>2. CanAccept' <=> CanAccept
    <3>1. Accepts(<<ret.q0, 1, 1>>)' <=> Accepts(<<ret.q0, 1, 1>>)
      BY <1>1 DEF Accepts, IsClosed, Final, Goes, Configs
    <3>2. (Determined /\ Lettered)' <=> (Determined /\ Lettered)
      BY <1>1 DEF Determined, Deterministic, EpsilonLast, Lettered
    <3> QED BY <3>1, <3>2 DEF CanAccept
  <2>3. CanAccept => Accepts(<<s, x, y>>)
    BY <1>1, <1>3, ChoiceAccepts DEF CanAccept
  <2>4. At' = <<s, x, y>>
    BY <1>3 DEF At
  <2>5. Accepts(At)' <=> Accepts(<<s, x, y>>)'
    BY <2>4 DEF Accepts
  <2> QED BY <2>1, <2>2, <2>3, <2>5
<1> QED BY <1>1, <1>10, <1>11, <1>12 DEF RunInv

LEMMA RunKept ==
  ASSUME ret' = ret, u' = u, v' = v
  PROVE  /\ CanAccept' <=> CanAccept
         /\ IsRunOf' <=> IsRunOf
         /\ Related(ret.q0, ret.acc, ret.trans)' = Related(ret.q0, ret.acc, ret.trans)
<1>1. Accepts(<<ret.q0, 1, 1>>)' <=> Accepts(<<ret.q0, 1, 1>>)
  BY DEF Accepts, IsClosed, Final, Goes, Configs
<1>2. (Determined /\ Lettered)' <=> (Determined /\ Lettered)
  BY DEF Determined, Deterministic, EpsilonLast, Lettered
<1>3. IsRunOf' <=> IsRunOf
  BY DEF IsRunOf, IsMachine, Letters
<1> QED BY <1>1, <1>2, <1>3 DEF CanAccept

LEMMA StuckRuns == RunInv /\ RunStuck => RunInv'
<1> SUFFICES ASSUME RunInv, RunStuck PROVE RunInv'
  OBVIOUS
<1>1. /\ ret' = ret /\ u' = u /\ v' = v /\ pc' = "false"
      /\ IsRunning /\ (CanAccept => Accepts(At))
  BY DEF RunStuck, build, words, RunInv
<1>2. ~ CanAccept
  BY <1>1, StuckRejects DEF CanAccept
<1> QED BY <1>1, <1>2, RunKept DEF RunInv, IsRunning

LEMMA EndRuns == RunInv /\ RunEnd => RunInv'
<1> SUFFICES ASSUME RunInv, RunEnd PROVE RunInv'
  OBVIOUS
<1>1. /\ ret' = ret /\ u' = u /\ v' = v
      /\ pc' = IF ts \in ret.acc THEN "true" ELSE "false"
      /\ ~ HasU /\ ~ HasV
      /\ IsRunning /\ Gone /\ (CanAccept => Accepts(At))
  BY DEF RunEnd, build, words, RunInv
<1>2. CASE ts \notin ret.acc
  <2>1. ~ CanAccept
    BY <1>1, <1>2, StuckRejects DEF CanAccept
  <2> QED BY <1>1, <1>2, <2>1, RunKept DEF RunInv, IsRunning
<1>3. CASE ts \in ret.acc
  <2>1. /\ Len(u) \in Nat /\ Len(v) \in Nat
        /\ i \in 1..Len(u) + 1 /\ j \in 1..Len(v) + 1
        /\ u \in Seq(Letters) /\ v \in Seq(Letters)
    BY <1>1, LettersRead DEF IsRunning, IsRunOf
  <2>2. i = Len(u) + 1 /\ j = Len(v) + 1
    BY <1>1, <2>1 DEF HasU, HasV
  <2>3. Prefix(u, i) = u /\ Prefix(v, j) = v
    BY <2>1, <2>2, PrefixSteps
  <2>4. PICK l \in 0..MaxLength : <<ts, u, v>> \in Paths(ret.q0, ret.trans)[l]
    BY <1>1, <2>3 DEF Gone
  <2>5. <<ts, u, v>> \in Paths(ret.q0, ret.trans)[MaxLength]
    BY <2>4, PathsGrow
  <2> DEFINE p == <<ts, u, v>>
  <2>6. p \in {r \in Paths(ret.q0, ret.trans)[MaxLength] : r[1] \in ret.acc}
    BY <1>3, <2>5
  <2>7. <<u, v>> = <<p[2], p[3]>>
    OBVIOUS
  <2> HIDE DEF p
  <2>8. <<u, v>> \in Related(ret.q0, ret.acc, ret.trans)
    BY <2>6, <2>7, RelatedByPaths
  <2> QED BY <1>1, <1>3, <2>8, RunKept DEF RunInv
<1> QED BY <1>2, <1>3

LEMMA RunInductive == IInv /\ RunInv /\ [Next]_vars => RunInv'
<1> SUFFICES ASSUME IInv, RunInv, [Next]_vars PROVE RunInv'
  OBVIOUS
<1>1. CASE Visit \/ Built \/ Copy \/ Invert
  <2>1. pc' \in {"build", "built"}
    BY <1>1 DEF Visit, Built, Copy, Invert, DeepCopy
  <2> QED BY <2>1 DEF RunInv
<1>2. CASE StartRun
  BY <1>2, StartRuns
<1>3. CASE RunStep
  BY <1>3, StepRuns
<1>4. CASE RunStuck
  BY <1>4, StuckRuns
<1>5. CASE RunEnd
  BY <1>5, EndRuns
<1>6. CASE UNCHANGED vars
  <2>1. ret' = ret /\ u' = u /\ v' = v /\ ts' = ts /\ i' = i /\ j' = j /\ pc' = pc
    BY <1>6 DEF vars, build, words
  <2>2. Accepts(At)' <=> Accepts(At)
    BY <2>1 DEF Accepts, IsClosed, Final, Goes, Configs, At
  <2>3. Gone' <=> Gone
    BY <2>1 DEF Gone
  <2>4. IsRunning' <=> IsRunning
    BY <2>1, RunKept DEF IsRunning, Configs, At
  <2> QED BY <2>1, <2>2, <2>3, <2>4, RunKept DEF RunInv
<1> QED BY <1>1, <1>2, <1>3, <1>4, <1>5, <1>6 DEF Next

LEMMA RunInvariance == Spec => []RunInv
<1>1. Init => RunInv
  BY DEF Init, RunInv
<1> QED BY <1>1, RunInductive, Invariance, PTL DEF Spec

-----------------------------------------------------------------------------
(* No transition comes to read nothing if no letter stands for two         *)
(* epsilons.                                                               *)
ReadsLetters(x) ==
  \A t \in x.trans : \A c \in t[2]..t[3] : HasLetter(x.map[c][1], x.map[c][2])

LInv ==
  /\ Lettered
  /\ pc = "build" => \A t \in source.trans : HasLetter(Pair(t)[1], Pair(t)[2])

LEMMA LettersKept ==
  ASSUME \A x \in Inputs : ReadsLetters(x)
  PROVE  Spec => []LInv
<1>1. ASSUME Init PROVE LInv
  <2>1. \A t \in a.trans : t[2] \in t[2]..t[3]
    BY <1>1, InputsAssumption DEF Init, IsPairAutomaton
  <2>2. \A t \in a.trans : HasLetter(a.map[t[2]][1], a.map[t[2]][2])
    BY <1>1, <2>1 DEF Init, ReadsLetters
  <2> QED BY <1>1, <2>2 DEF Init, LInv, Lettered, Pair, Empty
<1>2. ASSUME IInv, LInv, [Next]_vars PROVE LInv'
  <2>1. CASE Visit
    <3> DEFINE s == Head(worklist)
               out == {t \in source.trans : t[1] = s}
               m == WithNew(({s} \cup {t[4] : t \in out}) \ DOMAIN idMap)
    <3>1. /\ pc = "build" /\ source' = source /\ a' = a /\ op' = op
          /\ ret'.trans = ret.trans \cup {<<m[s], Pair(t)[1], Pair(t)[2], m[t[4]]>> : t \in out}
      BY <2>1 DEF Visit
    <3>2. \A t \in source.trans : Pair(t)' = Pair(t)
      BY <3>1 DEF Pair
    <3> HIDE DEF m
    <3>3. Lettered'
      BY <1>2, <3>1 DEF LInv, Lettered
    <3> QED BY <1>2, <3>1, <3>2, <3>3 DEF LInv
  <2>2. ASSUME NEW flip \in BOOLEAN, DeepCopy(flip) PROVE LInv'
    <3>1. source' = ret /\ ret' = Empty /\ op' = IF flip THEN "invert" ELSE "copy"
      BY <2>2 DEF DeepCopy
    <3>2. \A t \in ret.trans : HasLetter(Pair(t)[1], Pair(t)[2])'
      BY <1>2, <3>1 DEF LInv, Lettered, Pair, HasLetter
    <3>3. Lettered'
      BY <3>1 DEF Lettered, Empty
    <3> QED BY <3>1, <3>2, <3>3 DEF LInv
  <2>3. CASE Copy
    BY <2>2, <2>3 DEF Copy
  <2>4. CASE Invert
    BY <2>2, <2>4 DEF Invert
  <2>5. CASE Built \/ StartRun \/ RunStep \/ RunStuck \/ RunEnd
    <3>1. ret' = ret /\ pc' # "build"
      BY <2>5 DEF Built, StartRun, RunStep, RunStuck, RunEnd, build
    <3> QED BY <1>2, <3>1 DEF LInv, Lettered
  <2>6. CASE UNCHANGED vars
    <3>1. a' = a /\ source' = source /\ op' = op /\ ret' = ret /\ pc' = pc
      BY <2>6 DEF vars, build
    <3> QED BY <1>2, <3>1 DEF LInv, Lettered, Pair
  <2> QED BY <1>2, <2>1, <2>3, <2>4, <2>5, <2>6 DEF Next
<1> QED BY <1>1, <1>2, Invariance, PTL DEF Spec

(* A run answers yes to none but the pairs of words that are meant, and no *)
(* to none of those when its choices are determined, although each of them *)
(* is final; for this, a letter must not stand for two epsilons, as run    *)
(* takes no transition that reads nothing.                                 *)
THEOREM RunsAreRight ==
  ASSUME \A x \in Inputs : ReadsLetters(x)
  PROVE  Spec => []RunExact
<1>1. ASSUME IInv, RunInv, LInv PROVE RunExact
  <2>1. CASE pc = "true"
    BY <1>1, <2>1 DEF IInv, RunInv, RunExact, Right
  <2>2. CASE pc = "false"
    <3>1. Deterministic \/ EpsilonLast => <<u, v>> \notin Related(ret.q0, ret.acc, ret.trans)
      BY <1>1, <2>2, RelatedAccepts DEF RunInv, LInv, CanAccept, Determined
    <3> QED BY <1>1, <2>2, <3>1 DEF IInv, RunExact, Right
  <2> QED BY <2>1, <2>2 DEF RunExact
<1> QED BY <1>1, Invariance, RunInvariance, LettersKept, PTL

=============================================================================
