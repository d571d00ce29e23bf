----------------------------- MODULE Recursion -----------------------------
(***************************************************************************)
(* Facts about induction, recursion, finite sets and words that the proofs *)
(* of the other modules share.  What is to be shown of the numbers is given as a  *)
(* set, a definition by recursion as the function that makes one value     *)
(* from the previous one.                                                  *)
(***************************************************************************)
EXTENDS Integers, Sequences, FiniteSets, SequencesExt, SequenceTheorems,
        FunctionTheorems, FiniteSetTheorems, WellFoundedInduction, TLAPS

(* A set of natural numbers that is not empty has a least element.         *)
LEMMA LeastNumber ==
  ASSUME NEW T \in SUBSET Nat, T # {}
  PROVE  \E m \in T : \A k \in T : m <= k
<1>1. IsWellFoundedOn(OpToRel(<, Nat), Nat)
  BY NatLessThanWellFounded
<1>2. PICK m \in T : \A k \in T : <<k, m>> \notin OpToRel(<, Nat)
  BY <1>1, WFMin
<1>3. \A k \in T : ~ (k < m)
  BY <1>2 DEF OpToRel
<1> QED BY <1>3

(* Induction: the numbers below some bound.                                *)
LEMMA NumberInduction ==
  ASSUME NEW T, 0 \in T, \A k \in Nat : k \in T => k + 1 \in T
  PROVE  Nat \subseteq T
<1> SUFFICES ASSUME Nat \ T # {} PROVE FALSE
  OBVIOUS
<1>1. PICK m \in Nat \ T : \A k \in Nat \ T : m <= k
  BY LeastNumber
<1>2. m # 0 /\ m - 1 \in Nat
  BY <1>1
<1>3. m - 1 \in T
  BY <1>1, <1>2
<1> QED BY <1>1, <1>2, <1>3

LEMMA IntervalInduction ==
  ASSUME NEW n \in Nat, NEW T, 0 \in T, \A k \in 0..n - 1 : k \in T => k + 1 \in T
  PROVE  0..n \subseteq T
<1> DEFINE U == {k \in Nat : k <= n => k \in T}
<1>1. 0 \in U
  OBVIOUS
<1>2. ASSUME NEW k \in Nat, k \in U PROVE k + 1 \in U
  <2> SUFFICES ASSUME k + 1 <= n PROVE k + 1 \in T
    OBVIOUS
  <2>1. k \in 0..n - 1 /\ k \in T
    BY <1>2
  <2> QED BY <2>1
<1> HIDE DEF U
<1>3. Nat \subseteq U
  BY <1>1, <1>2, NumberInduction
<1> QED BY <1>3 DEF U

(* Primitive recursion: from v on, by next.                                *)
Iterates(f, V, v, next) ==
  f \in [Nat -> V] /\ f[0] = v /\ \A k \in Nat : f[k + 1] = next[k][f[k]]

LEMMA Iteration ==
  ASSUME NEW V, NEW v \in V, NEW next \in [Nat -> [V -> V]]
  PROVE  \E f : Iterates(f, V, v, next)
<1> DEFINE Upto(n, f) == f[0] = v /\ \A k \in 0..n - 1 : f[k + 1] = next[k][f[k]]
           T == {n \in Nat : \E f \in [0..n -> V] : Upto(n, f)}
<1>1. 0 \in T
  <2>1. [k \in 0..0 |-> v] \in [0..0 -> V] /\ Upto(0, [k \in 0..0 |-> v])
    OBVIOUS
  <2> QED BY <2>1
<1>2. ASSUME NEW n \in Nat, n \in T PROVE n + 1 \in T
  <2>1. PICK f \in [0..n -> V] : Upto(n, f)
    BY <1>2
  <2> DEFINE g == [k \in 0..n + 1 |-> IF k = n + 1 THEN next[n][f[n]] ELSE f[k]]
  <2>2. next[n][f[n]] \in V
    OBVIOUS
  <2>3. g \in [0..n + 1 -> V]
    BY <2>2
  <2>4. g[0] = v
    BY <2>1
  <2>5. ASSUME NEW k \in 0..n PROVE g[k + 1] = next[k][g[k]]
    BY <2>1
  <2> HIDE DEF g
  <2>6. Upto(n + 1, g)
    BY <2>4, <2>5
  <2> QED BY <2>3, <2>6
<1> HIDE DEF T
<1>3. Nat \subseteq T
  BY <1>1, <1>2, NumberInduction
<1> DEFINE F(n) == CHOOSE f \in [0..n -> V] : Upto(n, f)
<1>4. \A n \in Nat : F(n) \in [0..n -> V] /\ Upto(n, F(n))
  BY <1>3 DEF T
<1> HIDE DEF F
<1>5. ASSUME NEW n \in Nat
      PROVE  0..n \subseteq {k \in Nat : k <= n => F(n)[k] = F(n + 1)[k]}
  <2> DEFINE U == {k \in Nat : k <= n => F(n)[k] = F(n + 1)[k]}
  <2>1. 0 \in U
    BY <1>4
  <2>2. ASSUME NEW k \in 0..n - 1, k \in U PROVE k + 1 \in U
    <3>1. F(n)[k + 1] = next[k][F(n)[k]]
      BY <1>4
    <3>2. F(n + 1)[k + 1] = next[k][F(n + 1)[k]]
      BY <1>4
    <3> QED BY <2>2, <3>1, <3>2
  <2> HIDE DEF U
  <2>3. 0..n \subseteq U
    BY <2>1, <2>2, IntervalInduction
  <2> QED BY <2>3 DEF U
<1> DEFINE r == [n \in Nat |-> F(n)[n]]
<1>6. r \in [Nat -> V]
  BY <1>4
<1>7. r[0] = v
  BY <1>4
<1>8. ASSUME NEW n \in Nat PROVE r[n + 1] = next[n][r[n]]
  <2>1. F(n + 1)[n + 1] = next[n][F(n + 1)[n]]
    BY <1>4
  <2>2. F(n)[n] = F(n + 1)[n]
    BY <1>5
  <2> QED BY <2>1, <2>2
<1> QED BY <1>6, <1>7, <1>8 DEF Iterates

(* The same up to a bound.                                                 *)
IteratesUpto(f, n, V, v, next) ==
  f \in [0..n -> V] /\ f[0] = v /\ \A k \in 1..n : f[k] = next[k][f[k - 1]]

LEMMA BoundedIteration ==
  ASSUME NEW n \in Nat, NEW V, NEW v \in V, NEW next \in [1..n -> [V -> V]]
  PROVE  \E f : IteratesUpto(f, n, V, v, next)
<1> DEFINE more == [k \in Nat |-> IF k + 1 \in 1..n THEN next[k + 1] ELSE [x \in V |-> x]]
<1>1. more \in [Nat -> [V -> V]]
  <2>1. [x \in V |-> x] \in [V -> V]
    OBVIOUS
  <2>2. \A k \in 1..n : next[k] \in [V -> V]
    OBVIOUS
  <2> QED BY <2>1, <2>2
<1> HIDE DEF more
<1>2. PICK f : Iterates(f, V, v, more)
  BY <1>1, Iteration
<1> DEFINE g == [k \in 0..n |-> f[k]]
<1>3. g \in [0..n -> V] /\ g[0] = v
  BY <1>2 DEF Iterates
<1>4. ASSUME NEW k \in 1..n PROVE g[k] = next[k][g[k - 1]]
  <2>1. k - 1 \in Nat /\ (k - 1) + 1 = k
    OBVIOUS
  <2>2. f[k] = more[k - 1][f[k - 1]]
    BY <1>2, <2>1 DEF Iterates
  <2>3. more[k - 1] = next[k]
    BY <2>1 DEF more
  <2> QED BY <2>2, <2>3
<1> QED BY <1>3, <1>4 DEF IteratesUpto

(* Induction over the words of an alphabet, the last letter apart.         *)
LEMMA WordInduction ==
  ASSUME NEW S, NEW T, <<>> \in T,
         \A w \in Seq(S), x \in S : w \in T => Append(w, x) \in T
  PROVE  Seq(S) \subseteq T
<1> DEFINE U == {k \in Nat : \A w \in Seq(S) : Len(w) = k => w \in T}
<1>1. 0 \in U
  <2>1. \A w \in Seq(S) : Len(w) = 0 => w = <<>>
    BY EmptySeq
  <2> QED BY <2>1
<1>2. ASSUME NEW k \in Nat, k \in U PROVE k + 1 \in U
  <2> SUFFICES ASSUME NEW w \in Seq(S), Len(w) = k + 1 PROVE w \in T
    OBVIOUS
  <2>1. w # <<>>
    BY EmptySeq
  <2>2. PICK v \in Seq(S), x \in S : w = Append(v, x)
    BY <2>1, SequenceEmptyOrAppend
  <2>3. Len(v) = k
    BY <2>2, AppendProperties
  <2> QED BY <1>2, <2>2, <2>3
<1> HIDE DEF U
<1>3. Nat \subseteq U
  BY <1>1, <1>2, NumberInduction
<1> QED BY <1>3, LenProperties DEF U

-----------------------------------------------------------------------------
(* Finite sets: the values of a function, and induction.                   *)
LEMMA FiniteImage ==
  ASSUME NEW S, IsFiniteSet(S), NEW T, NEW f \in [S -> T]
  PROVE  /\ IsFiniteSet({f[x] : x \in S})
         /\ Cardinality({f[x] : x \in S}) <= Cardinality(S)
<1> DEFINE R == {f[x] : x \in S}
<1>1. f \in Surjection(S, R)
  BY DEF Surjection
<1> HIDE DEF R
<1>2. IsFiniteSet(R) /\ Cardinality(R) <= Cardinality(S)
  BY <1>1, FS_Surjection
<1> QED BY <1>2 DEF R

-----------------------------------------------------------------------------
(* The elements of a finite set, one after the other                       *)
NoDuplicates(q) == \A i, j \in DOMAIN q : q[i] = q[j] => i = j

LEMMA Orders ==
  ASSUME NEW S, IsFiniteSet(S), NEW list \in SetToSeqs(S)
  PROVE  /\ list \in Seq(S) /\ Len(list) = Cardinality(S)
         /\ ToSet(list) = S /\ NoDuplicates(list)
<1>1. PICK k \in Nat : Cardinality(S) = k
  BY FS_CardinalityType
<1>2. list \in [1..k -> S] /\ \A i, j \in 1..k : list[i] = list[j] => i = j
  BY <1>1 DEF SetToSeqs
<1>3. list \in Injection(1..k, S)
  BY <1>2, Fun_IsInj
<1>4. IsFiniteSet(1..k) /\ Cardinality(1..k) = k
  <2>1. 1 \in Int /\ k \in Int
    OBVIOUS
  <2>2. IsFiniteSet(1..k) /\ Cardinality(1..k) = IF 1 > k THEN 0 ELSE k - 1 + 1
    BY <2>1, FS_Interval
  <2> QED BY <2>2
<1>5. list \in Surjection(1..k, S)
  BY <1>1, <1>3, <1>4, FS_Injection
<1>6. \A e \in S : \E i \in 1..k : list[i] = e
  BY <1>5 DEF Surjection
<1>7. DOMAIN list = 1..k /\ list \in Seq(S) /\ Len(list) = k
  BY <1>2
<1>8. ToSet(list) = S
  BY <1>2, <1>6, <1>7 DEF ToSet
<1> QED BY <1>1, <1>2, <1>7, <1>8 DEF NoDuplicates

LEMMA Enumerated ==
  ASSUME NEW S, IsFiniteSet(S)
  PROVE  /\ SetToSeq(S) \in Seq(S) /\ Len(SetToSeq(S)) = Cardinality(S)
         /\ ToSet(SetToSeq(S)) = S /\ NoDuplicates(SetToSeq(S))
<1> DEFINE Lists_(g) == g \in [1..Cardinality(S) -> S] /\ IsInjective(g)
           list == CHOOSE g \in [1..Cardinality(S) -> S] : IsInjective(g)
<1>1. PICK k \in Nat : ExistsBijection(1..k, S)
  BY FS_NatBijection
<1>2. Cardinality(S) = k
  BY <1>1, FS_CountingElements
<1>3. PICK g : g \in Bijection(1..k, S)
  BY <1>1, Fun_ExistsBij
<1>4. g \in [1..k -> S] /\ \A i, j \in 1..k : g[i] = g[j] => i = j
  BY <1>3 DEF Bijection, Injection, IsInjective
<1>5. \E h : Lists_(h)
  BY <1>2, <1>4 DEF IsInjective
<1>6. list \in [1..k -> S] /\ \A i, j \in 1..k : list[i] = list[j] => i = j
  BY <1>2, <1>5 DEF IsInjective
<1>7. SetToSeq(S) = list
  BY DEF SetToSeq
<1> HIDE DEF list
<1>8. list \in SetToSeqs(S)
  BY <1>2, <1>6 DEF SetToSeqs
<1> QED BY <1>7, <1>8, Orders

-----------------------------------------------------------------------------
(* A queue as a sequence, its elements as a set                            *)

LEMMA TakenOut ==
  ASSUME NEW T, NEW q \in Seq(T), q # <<>>
  PROVE  /\ Head(q) \in T
         /\ Tail(q) \in Seq(T)
         /\ \A e \in ToSet(q) : e = Head(q) \/ e \in ToSet(Tail(q))
<1>1. Head(q) \in T /\ Tail(q) \in Seq(T)
  OBVIOUS
<1>2. ASSUME NEW e \in ToSet(q), e # Head(q)
      PROVE  e \in ToSet(Tail(q))
  <2>1. PICK i \in DOMAIN q : e = q[i]
    BY DEF ToSet
  <2>2. i \in 2..Len(q)
    BY <1>2, <2>1
  <2>3. i - 1 \in DOMAIN Tail(q) /\ Tail(q)[i - 1] = e
    BY <2>1, <2>2
  <2> QED BY <2>3 DEF ToSet
<1> QED BY <1>1, <1>2

LEMMA PutIn ==
  ASSUME NEW T, NEW q \in Seq(T), NEW r \in Seq(T)
  PROVE  /\ q \o r \in Seq(T)
         /\ ToSet(q) \subseteq ToSet(q \o r)
         /\ ToSet(r) \subseteq ToSet(q \o r)
<1>1. q \o r \in Seq(T)
  OBVIOUS
<1>2. ASSUME NEW e \in ToSet(q) PROVE e \in ToSet(q \o r)
  <2>1. PICK i \in DOMAIN q : e = q[i]
    BY DEF ToSet
  <2>2. i \in DOMAIN (q \o r) /\ (q \o r)[i] = e
    BY <2>1
  <2> QED BY <2>2 DEF ToSet
<1>3. ASSUME NEW e \in ToSet(r) PROVE e \in ToSet(q \o r)
  <2>1. PICK i \in DOMAIN r : e = r[i]
    BY DEF ToSet
  <2>2. Len(q) + i \in DOMAIN (q \o r) /\ (q \o r)[Len(q) + i] = e
    BY <2>1
  <2> QED BY <2>2 DEF ToSet
<1> QED BY <1>1, <1>2, <1>3

-----------------------------------------------------------------------------
(* Closing a set under a monotone function, within a finite set.           *)
Monotone(U, next) ==
  /\ next \in [SUBSET U -> SUBSET U]
  /\ \A S, T \in SUBSET U : S \subseteq T => next[S] \subseteq next[T]

Closes(grow, U, next) ==
  grow = [s \in SUBSET U |-> IF s \cup next[s] = s THEN s ELSE grow[s \cup next[s]]]

(* C is the least set with the elements of s that next adds nothing to.    *)
IsLeastClosed(C, s, U, next) ==
  /\ C \in SUBSET U
  /\ s \subseteq C
  /\ next[C] \subseteq C
  /\ \A D \in SUBSET U : s \subseteq D /\ next[D] \subseteq D => C \subseteq D

LEMMA ClosesExists ==
  ASSUME NEW U, NEW next, Monotone(U, next)
  PROVE  \E grow : Closes(grow, U, next)
<1> DEFINE Fixed(D) == next[D] \subseteq D
           G(s) == {x \in U : \A D \in SUBSET U : s \subseteq D /\ Fixed(D) => x \in D}
           grow == [s \in SUBSET U |-> G(s)]
<1>1. ASSUME NEW s \in SUBSET U
      PROVE  G(s) = IF s \cup next[s] = s THEN s ELSE grow[s \cup next[s]]
  <2>1. next[s] \in SUBSET U /\ s \cup next[s] \in SUBSET U
    BY DEF Monotone
  <2>2. CASE s \cup next[s] = s
    <3>1. Fixed(s)
      BY <2>2
    <3> QED BY <2>2, <3>1
  <2>3. CASE s \cup next[s] # s
    <3>1. \A D \in SUBSET U : Fixed(D) => (s \subseteq D <=> s \cup next[s] \subseteq D)
      BY DEF Monotone
    <3>2. G(s) = G(s \cup next[s])
      BY <3>1
    <3> QED BY <2>1, <2>3, <3>2
  <2> QED BY <2>2, <2>3
<1>2. Closes(grow, U, next)
  <2> HIDE DEF G
  <2>1. grow = [s \in SUBSET U |-> IF s \cup next[s] = s THEN s ELSE grow[s \cup next[s]]]
    BY <1>1
  <2> QED BY <2>1 DEF Closes
<1> QED BY <1>2

(* It is enough that what is added to the subsets of W is in W.            *)
LEMMA ClosesLeastWithin ==
  ASSUME NEW U, NEW next, Monotone(U, next), NEW grow, Closes(grow, U, next),
         NEW W \in SUBSET U, IsFiniteSet(W), \A r \in SUBSET W : next[r] \in SUBSET W,
         NEW s \in SUBSET W
  PROVE  IsLeastClosed(grow[s], s, U, next)
<1> DEFINE OK(r) == IsLeastClosed(grow[r], r, U, next)
           T == {m \in Nat : \A r \in SUBSET W : Cardinality(W \ r) <= m => OK(r)}
<1>0. \A r \in SUBSET W : /\ IsFiniteSet(W \ r) /\ Cardinality(W \ r) \in Nat
                          /\ next[r] \in SUBSET W /\ r \cup next[r] \in SUBSET W
  BY FS_Difference, FS_CardinalityType DEF Monotone
<1>1. \A r \in SUBSET U : r \cup next[r] = r => OK(r)
  BY DEF IsLeastClosed, Closes
<1>2. ASSUME NEW r \in SUBSET U, r \cup next[r] # r, OK(r \cup next[r])
      PROVE  OK(r)
  <2>1. grow[r] = grow[r \cup next[r]]
    BY <1>2 DEF Closes
  <2>2. \A D \in SUBSET U : r \subseteq D /\ next[D] \subseteq D => r \cup next[r] \subseteq D
    BY DEF Monotone
  <2> HIDE DEF T
  <2> QED BY <1>2, <2>1, <2>2 DEF IsLeastClosed
<1> HIDE DEF OK
<1>3. 0 \in T
  <2> SUFFICES ASSUME NEW r \in SUBSET W, Cardinality(W \ r) <= 0 PROVE OK(r)
    OBVIOUS
  <2>0. Cardinality(W \ r) \in Nat /\ IsFiniteSet(W \ r)
    BY <1>0
  <2>1. Cardinality(W \ r) = 0
    BY <2>0
  <2>2. W \ r = {}
    BY <2>0, <2>1, FS_EmptySet
  <2>3. r \cup next[r] = r
    BY <1>0, <2>2
  <2> QED BY <1>1, <2>3
<1>4. ASSUME NEW m \in Nat, m \in T PROVE m + 1 \in T
  <2> SUFFICES ASSUME NEW r \in SUBSET W, Cardinality(W \ r) <= m + 1, r \cup next[r] # r
               PROVE  OK(r)
    BY <1>1
  <2> DEFINE more == r \cup next[r]
  <2>1. more \in SUBSET W /\ W \ more \subseteq W \ r /\ W \ more # W \ r
    BY <1>0
  <2>2. /\ Cardinality(W \ more) <= Cardinality(W \ r)
        /\ Cardinality(W \ more) # Cardinality(W \ r)
    BY <1>0, <2>1, FS_Subset
  <2>3. Cardinality(W \ more) <= m
    <3>1. Cardinality(W \ more) \in Nat /\ Cardinality(W \ r) \in Nat
      BY <1>0, <2>1
    <3> QED BY <2>2, <3>1
  <2>4. OK(more)
    BY <1>4, <2>1, <2>3
  <2> QED BY <1>2, <2>4
<1> HIDE DEF T, OK
<1>5. Nat \subseteq T
  BY <1>3, <1>4, NumberInduction
<1>6. Cardinality(W \ s) \in T
  BY <1>0, <1>5
<1>7. Cardinality(W \ s) <= Cardinality(W \ s)
  <2>1. Cardinality(W \ s) \in Nat
    BY <1>0
  <2> QED BY <2>1
<1>8. OK(s)
  BY <1>6, <1>7 DEF T
<1> QED BY <1>8 DEF OK

LEMMA ClosesLeast ==
  ASSUME NEW U, IsFiniteSet(U), NEW next, Monotone(U, next),
         NEW grow, Closes(grow, U, next), NEW s \in SUBSET U
  PROVE  IsLeastClosed(grow[s], s, U, next)
<1>1. \A r \in SUBSET U : next[r] \in SUBSET U
  BY DEF Monotone
<1> DEFINE W == U
<1>2. /\ W \in SUBSET U /\ IsFiniteSet(W) /\ s \in SUBSET W
      /\ \A r \in SUBSET W : next[r] \in SUBSET W
  BY <1>1
<1> HIDE DEF W
<1> QED BY <1>2, ClosesLeastWithin

-----------------------------------------------------------------------------
(* Folding a sequence, as MapThenFoldSet does: the greatest index first.   *)
LEMMA GreatestIndex ==
  ASSUME NEW n \in Nat, NEW s \in SUBSET (1..n), s # {}
  PROVE  Max(s) \in s /\ \A y \in s : y <= Max(s)
<1> DEFINE T == {j \in Nat : \A y \in s : y <= j}
<1>1. T # {} /\ T \subseteq Nat
  <2>1. n \in T
    OBVIOUS
  <2> QED BY <2>1
<1>2. PICK x \in T : \A j \in T : x <= j
  BY <1>1, LeastNumber
<1>3. x \in s
  <2> SUFFICES ASSUME x \notin s PROVE FALSE
    OBVIOUS
  <2>1. x \in Nat /\ \A y \in s : y \in Nat /\ y <= x /\ y # x
    BY <1>2
  <2>2. x - 1 \in Nat
    <3>1. PICK y \in s : TRUE
      OBVIOUS
    <3> QED BY <2>1, <3>1
  <2>3. x - 1 \in T
    BY <2>1, <2>2
  <2> QED BY <1>2, <2>1, <2>3
<1>4. \E z \in s : \A y \in s : z >= y
  <2>1. \A y \in s : x >= y
    BY <1>2
  <2> QED BY <1>3, <2>1
<1>5. Max(s) \in s /\ \A y \in s : Max(s) >= y
  BY <1>4 DEF Max
<1> QED BY <1>5

(* iter applies next from the greatest index of s down.                    *)
FoldsUp(iter, n, v, next) ==
  iter = [s \in SUBSET (1..n) |->
            IF s = {} THEN v ELSE next[Max(s)][iter[s \ {Max(s)}]]]

(* Such an iteration exists for every set of indices up to n.              *)
LEMMA FoldExists ==
  ASSUME NEW n \in Nat, NEW V, NEW v \in V, NEW next \in [1..n -> [V -> V]]
  PROVE  \E iter : iter \in [SUBSET (1..n) -> V] /\ FoldsUp(iter, n, v, next)
<1> DEFINE P == SUBSET (1..n)
           W == [P -> V]
           w == [s \in P |-> v]
           With(j, g) == [s \in P |-> IF j \in s THEN next[j][g[s \ {j}]] ELSE g[s]]
           more == [j \in 1..n |-> [g \in W |-> With(j, g)]]
<1>1. w \in W
  OBVIOUS
<1>2. more \in [1..n -> [W -> W]]
  <2>1. ASSUME NEW j \in 1..n, NEW g \in W PROVE With(j, g) \in W
    <3>1. ASSUME NEW s \in P PROVE (IF j \in s THEN next[j][g[s \ {j}]] ELSE g[s]) \in V
      <4>1. s \ {j} \in P
        OBVIOUS
      <4>2. g[s \ {j}] \in V /\ g[s] \in V
        BY <4>1
      <4>3. next[j] \in [V -> V]
        OBVIOUS
      <4> QED BY <4>2, <4>3
    <3> QED BY <3>1
  <2> HIDE DEF With, W
  <2> QED BY <2>1
<1>3. \A j \in 1..n : \A g \in W : more[j][g] = With(j, g)
  OBVIOUS
<1> HIDE DEF w, more, W
<1>4. PICK G : IteratesUpto(G, n, W, w, more)
  BY <1>1, <1>2, BoundedIteration
<1>5. /\ \A j \in 0..n : G[j] \in W
      /\ G[0] = w
      /\ \A j \in 1..n : G[j] = With(j, G[j - 1])
  <2>1. G \in [0..n -> W] /\ G[0] = w /\ \A j \in 1..n : G[j] = more[j][G[j - 1]]
    BY <1>4 DEF IteratesUpto
  <2>2. \A j \in 1..n : G[j - 1] \in W
    BY <2>1
  <2> QED BY <1>3, <2>1, <2>2
<1>6. ASSUME NEW j \in 1..n, NEW s \in P
      PROVE  G[j][s] = IF j \in s THEN next[j][G[j - 1][s \ {j}]] ELSE G[j - 1][s]
  <2>1. G[j] = With(j, G[j - 1])
    BY <1>5
  <2> QED BY <2>1 DEF With
<1> HIDE DEF With
<1>7. \A s \in P : \A h \in 0..n : s \subseteq 1..h => G[n][s] = G[h][s]
  <2> DEFINE T == {j \in Nat : j <= n => \A s \in P : \A h \in 0..j : s \subseteq 1..h => G[j][s] = G[h][s]}
  <2>1. 0 \in T
    OBVIOUS
  <2>2. ASSUME NEW j \in Nat, j \in T PROVE j + 1 \in T
    <3> SUFFICES ASSUME j + 1 <= n, NEW s \in P, NEW h \in 0..j + 1, s \subseteq 1..h
                 PROVE  G[j + 1][s] = G[h][s]
      OBVIOUS
    <3>1. CASE h = j + 1
      BY <3>1
    <3>2. CASE h # j + 1
      <4>1. h \in 0..j /\ j + 1 \notin s /\ j + 1 \in 1..n
        BY <3>2
      <4>2. G[j + 1][s] = G[(j + 1) - 1][s]
        BY <1>6, <4>1
      <4>3. (j + 1) - 1 = j
        OBVIOUS
      <4>4. G[j][s] = G[h][s]
        BY <2>2, <4>1
      <4> QED BY <4>2, <4>3, <4>4
    <3> QED BY <3>1, <3>2
  <2> HIDE DEF T
  <2>3. Nat \subseteq T
    BY <2>1, <2>2, NumberInduction
  <2>4. n \in T
    BY <2>3
  <2>5. \A s \in P : \A h \in 0..n : s \subseteq 1..h => G[n][s] = G[h][s]
    BY <2>4 DEF T
  <2> QED BY <2>5
<1>8. ASSUME NEW s \in P
      PROVE  G[n][s] = IF s = {} THEN v ELSE next[Max(s)][G[n][s \ {Max(s)}]]
  <2>1. CASE s = {}
    <3>1. 0 \in 0..n /\ s \subseteq 1..0
      BY <2>1
    <3>2. G[n][s] = G[0][s]
      BY <1>7, <3>1
    <3>3. G[0][s] = v
      BY <1>5 DEF w
    <3> QED BY <2>1, <3>2, <3>3
  <2>2. CASE s # {}
    <3> DEFINE x == Max(s)
    <3>1. x \in s /\ \A y \in s : y <= x
      BY <2>2, GreatestIndex
    <3> HIDE DEF x
    <3>2. x \in 1..n /\ x - 1 \in 0..n /\ x \in 0..n
      BY <3>1
    <3>3. s \subseteq 1..x /\ s \ {x} \subseteq 1..x - 1 /\ s \ {x} \in P
      BY <3>1, <3>2
    <3>4. G[n][s] = G[x][s]
      BY <1>7, <3>2, <3>3
    <3>5. G[n][s \ {x}] = G[x - 1][s \ {x}]
      BY <1>7, <3>2, <3>3
    <3>6. G[x][s] = next[x][G[x - 1][s \ {x}]]
      BY <1>6, <3>1, <3>2
    <3>7. G[n][s] = next[x][G[n][s \ {x}]]
      BY <3>4, <3>5, <3>6
    <3> QED BY <2>2, <3>7 DEF x
  <2> QED BY <2>1, <2>2
<1>9. G[n] \in [P -> V]
  <2>1. n \in 0..n
    OBVIOUS
  <2>2. G[n] \in W
    BY <1>5, <2>1
  <2> QED BY <2>2 DEF W
<1> DEFINE iter == G[n]
<1>10. iter = [s \in P |-> IF s = {} THEN v ELSE next[Max(s)][iter[s \ {Max(s)}]]]
  BY <1>8, <1>9
<1> QED BY <1>9, <1>10 DEF FoldsUp

(* The greatest of the numbers up to h.                                    *)
LEMMA GreatestUpto ==
  ASSUME NEW h \in Nat, h # 0
  PROVE  Max(1..h) = h /\ (1..h) \ {h} = 1..h - 1
<1> DEFINE s == 1..h
<1>1. s \in SUBSET (1..h) /\ s # {} /\ s \ {h} = 1..h - 1
  OBVIOUS
<1>2. h \in s /\ \A y \in s : y <= h
  OBVIOUS
<1> HIDE DEF s
<1>3. Max(s) \in s /\ \A y \in s : y <= Max(s)
  BY <1>1, GreatestIndex
<1>4. Max(s) \in Int /\ h \in Int
  BY <1>1, <1>3
<1>5. Max(s) <= h /\ h <= Max(s)
  BY <1>2, <1>3
<1>6. Max(s) = h
  BY <1>4, <1>5
<1> QED BY <1>1, <1>6 DEF s

(* What each step keeps in V stays in V.                                   *)
LEMMA StaysWithin ==
  ASSUME NEW n \in Nat, NEW V, NEW r, r[0] \in V,
         \A i \in 1..n : r[i - 1] \in V => r[i] \in V
  PROVE  \A i \in 0..n : r[i] \in V
<1> DEFINE T == {i \in 0..n : r[i] \in V}
<1>1. 0 \in T
  OBVIOUS
<1>2. ASSUME NEW i \in 0..n - 1, i \in T PROVE i + 1 \in T
  <2>1. i + 1 \in 1..n /\ i + 1 - 1 = i /\ i + 1 \in 0..n
    OBVIOUS
  <2>2. r[i] \in V
    BY <1>2
  <2>3. r[i + 1] \in V
    BY <2>1, <2>2
  <2> QED BY <2>1, <2>3
<1> HIDE DEF T
<1>3. 0..n \subseteq T
  BY <1>1, <1>2, IntervalInduction
<1> QED BY <1>3 DEF T

(* A set of which one element is replaced by two others.                   *)
LEMMA CardinalityGrows ==
  ASSUME NEW S, IsFiniteSet(S), NEW B \in S, NEW C, NEW D,
         C \notin S, D \notin S, C # D
  PROVE  Cardinality((S \ {B}) \cup {C, D}) = Cardinality(S) + 1
<1> DEFINE R == S \ {B}
<1>1. IsFiniteSet(R) /\ Cardinality(R) = Cardinality(S) - 1
  BY FS_RemoveElement
<1>2. C \notin R /\ D \notin R \cup {C}
  OBVIOUS
<1> HIDE DEF R
<1>3. IsFiniteSet(R \cup {C}) /\ Cardinality(R \cup {C}) = Cardinality(R) + 1
  BY <1>1, <1>2, FS_AddElement
<1>4. Cardinality((R \cup {C}) \cup {D}) = Cardinality(R \cup {C}) + 1
  BY <1>2, <1>3, FS_AddElement
<1>5. (R \cup {C}) \cup {D} = R \cup {C, D}
  OBVIOUS
<1>6. Cardinality(S) \in Nat
  BY FS_CardinalityType
<1>7. Cardinality(R) + 1 + 1 = Cardinality(S) + 1
  BY <1>1, <1>6
<1>8. (R \cup {C}) \cup {D} = (S \ {B}) \cup {C, D}
  BY <1>5 DEF R
<1> QED BY <1>3, <1>4, <1>7, <1>8

-----------------------------------------------------------------------------
(* Words over S: those of one set followed by those of another, and those  *)
(* of a set repeated as many times as are asked for.                       *)
Join(S, L, K) == {w \in Seq(S) : \E u \in L, v \in K : w = u \o v}

(* The words made of n words of L; of n words, n in T.                     *)
IsPowers(P, S, L) ==
  /\ P \in [Nat -> SUBSET Seq(S)]
  /\ P[0] = {<<>>}
  /\ \A n \in Nat : P[n + 1] = Join(S, P[n], L)

Powers(S, L) == CHOOSE P : IsPowers(P, S, L)

Repeated(S, L, T) == UNION {Powers(S, L)[n] : n \in T}

(* The empty word is neutral, and no word leaves none; Join associates.    *)
LEMMA JoinIs ==
  ASSUME NEW S, NEW L \in SUBSET Seq(S), NEW K \in SUBSET Seq(S)
  PROVE  /\ Join(S, L, K) \in SUBSET Seq(S)
         /\ Join(S, {<<>>}, K) = K
         /\ Join(S, K, {<<>>}) = K
         /\ Join(S, {}, K) = {}
         /\ Join(S, K, {}) = {}
<1>1. Join(S, L, K) \in SUBSET Seq(S) /\ Join(S, {}, K) = {} /\ Join(S, K, {}) = {}
  BY DEF Join
<1>2. \A v \in Seq(S) : <<>> \o v = v /\ v \o <<>> = v
  BY ConcatProperties
<1>3. Join(S, {<<>>}, K) = K /\ Join(S, K, {<<>>}) = K
  <2> DEFINE z == <<>>
  <2>1. \A v \in Seq(S) : z \o v = v /\ v \o z = v
    BY <1>2
  <2> HIDE DEF z
  <2>2. \A w : w \in Join(S, {z}, K) <=> w \in Seq(S) /\ \E v \in K : w = z \o v
    BY DEF Join
  <2>3. \A w : w \in Join(S, K, {z}) <=> w \in Seq(S) /\ \E v \in K : w = v \o z
    BY DEF Join
  <2>4. \A v \in K : v \in Seq(S)
    OBVIOUS
  <2>5. ASSUME NEW w PROVE w \in Join(S, {z}, K) <=> w \in K
    <3>1. ASSUME w \in K PROVE w \in Join(S, {z}, K)
      <4>1. w \in Seq(S) /\ w = z \o w
        BY <2>1, <2>4, <3>1
      <4> QED BY <2>2, <3>1, <4>1
    <3>2. ASSUME w \in Join(S, {z}, K) PROVE w \in K
      <4>1. PICK v \in K : w = z \o v
        BY <2>2, <3>2
      <4>2. z \o v = v
        BY <2>1, <2>4
      <4> QED BY <4>1, <4>2
    <3> QED BY <3>1, <3>2
  <2>6. ASSUME NEW w PROVE w \in Join(S, K, {z}) <=> w \in K
    <3>1. ASSUME w \in K PROVE w \in Join(S, K, {z})
      <4>1. w \in Seq(S) /\ w = w \o z
        BY <2>1, <2>4, <3>1
      <4> QED BY <2>3, <3>1, <4>1
    <3>2. ASSUME w \in Join(S, K, {z}) PROVE w \in K
      <4>1. PICK v \in K : w = v \o z
        BY <2>3, <3>2
      <4>2. v \o z = v
        BY <2>1, <2>4
      <4> QED BY <4>1, <4>2
    <3> QED BY <3>1, <3>2
  <2>7. Join(S, {z}, K) = K
    BY <2>5
  <2>8. Join(S, K, {z}) = K
    BY <2>6
  <2> QED BY <2>7, <2>8 DEF z
<1> QED BY <1>1, <1>3

(* Which two of three are joined first does not matter.                    *)
LEMMA JoinAssociates ==
  ASSUME NEW S, NEW L \in SUBSET Seq(S), NEW K \in SUBSET Seq(S), NEW M \in SUBSET Seq(S)
  PROVE  Join(S, Join(S, L, K), M) = Join(S, L, Join(S, K, M))
<1>1. \A x, y \in Seq(S) : x \o y \in Seq(S)
  OBVIOUS
<1>2. \A x, y, z \in Seq(S) : (x \o y) \o z = x \o (y \o z)
  BY ConcatAssociative
<1>3. ASSUME NEW w \in Join(S, Join(S, L, K), M) PROVE w \in Join(S, L, Join(S, K, M))
  <2>1. PICK x \in Join(S, L, K), z \in M : w = x \o z
    BY DEF Join
  <2>2. PICK u \in L, v \in K : x = u \o v
    BY DEF Join
  <2>3. u \in Seq(S) /\ v \in Seq(S) /\ z \in Seq(S)
    OBVIOUS
  <2>4. w = u \o (v \o z) /\ w \in Seq(S) /\ v \o z \in Seq(S)
    BY <1>1, <1>2, <2>1, <2>2, <2>3
  <2>5. v \o z \in Join(S, K, M)
    BY <2>4 DEF Join
  <2> QED BY <2>4, <2>5 DEF Join
<1>4. ASSUME NEW w \in Join(S, L, Join(S, K, M)) PROVE w \in Join(S, Join(S, L, K), M)
  <2>1. PICK u \in L, x \in Join(S, K, M) : w = u \o x
    BY DEF Join
  <2>2. PICK v \in K, z \in M : x = v \o z
    BY DEF Join
  <2>3. u \in Seq(S) /\ v \in Seq(S) /\ z \in Seq(S)
    OBVIOUS
  <2>4. w = (u \o v) \o z /\ w \in Seq(S) /\ u \o v \in Seq(S)
    BY <1>1, <1>2, <2>1, <2>2, <2>3
  <2>5. u \o v \in Join(S, L, K)
    BY <2>4 DEF Join
  <2> QED BY <2>4, <2>5 DEF Join
<1>5. Join(S, Join(S, L, K), M) = Join(S, L, Join(S, K, M))
  BY <1>3, <1>4
<1> QED BY <1>5

(* The powers exist.                                                       *)
LEMMA PowersAre ==
  ASSUME NEW S, NEW L \in SUBSET Seq(S)
  PROVE  IsPowers(Powers(S, L), S, L)
<1> DEFINE V == SUBSET Seq(S)
           z == {<<>>}
           next == [j \in Nat |-> [K \in V |-> Join(S, K, L)]]
<1>1. \A K \in V : Join(S, K, L) \in V
  BY DEF Join
<1>2. z \in V
  OBVIOUS
<1> HIDE DEF V, z
<1>3. next \in [Nat -> [V -> V]] /\ \A j \in Nat : \A K \in V : next[j][K] = Join(S, K, L)
  BY <1>1
<1> HIDE DEF next
<1>4. PICK P : Iterates(P, V, z, next)
  BY <1>2, <1>3, Iteration
<1>5. P \in [Nat -> V] /\ P[0] = z /\ \A j \in Nat : P[j + 1] = next[j][P[j]]
  BY <1>4 DEF Iterates
<1>6. \A j \in Nat : P[j + 1] = Join(S, P[j], L)
  BY <1>3, <1>5
<1>7. IsPowers(P, S, L)
  BY <1>5, <1>6 DEF IsPowers, V, z
<1> QED BY <1>7 DEF Powers

(* The first power is the language itself.                                 *)
LEMMA FirstPower ==
  ASSUME NEW S, NEW L \in SUBSET Seq(S)
  PROVE  Powers(S, L)[1] = L
<1>1. IsPowers(Powers(S, L), S, L)
  BY PowersAre
<1>2. Powers(S, L)[0 + 1] = Join(S, {<<>>}, L)
  BY <1>1 DEF IsPowers
<1>3. Join(S, {<<>>}, L) = L
  BY JoinIs
<1> QED BY <1>2, <1>3

(* So many times and so many times more.                                   *)
LEMMA PowersAdd ==
  ASSUME NEW S, NEW L \in SUBSET Seq(S), NEW m \in Nat, NEW n \in Nat
  PROVE  Powers(S, L)[m + n] = Join(S, Powers(S, L)[m], Powers(S, L)[n])
<1> DEFINE P == Powers(S, L)
           T == {h \in Nat : P[m + h] = Join(S, P[m], P[h])}
<1>1. /\ P \in [Nat -> SUBSET Seq(S)] /\ P[0] = {<<>>}
      /\ \A h \in Nat : P[h + 1] = Join(S, P[h], L)
  BY PowersAre DEF IsPowers
<1> HIDE DEF P
<1>2. P[m] \in SUBSET Seq(S)
  BY <1>1
<1>3. 0 \in T
  <2>1. Join(S, P[m], {<<>>}) = P[m]
    BY <1>2, JoinIs
  <2>2. m + 0 = m
    OBVIOUS
  <2> QED BY <1>1, <2>1, <2>2
<1>4. ASSUME NEW h \in Nat, h \in T PROVE h + 1 \in T
  <2>1. m + (h + 1) = (m + h) + 1 /\ m + h \in Nat
    OBVIOUS
  <2>2. P[m + (h + 1)] = Join(S, P[m + h], L)
    BY <1>1, <2>1
  <2>3. P[m + h] = Join(S, P[m], P[h])
    BY <1>4
  <2>4. P[h] \in SUBSET Seq(S)
    BY <1>1
  <2>5. Join(S, Join(S, P[m], P[h]), L) = Join(S, P[m], Join(S, P[h], L))
    <3> DEFINE K == P[m]
               M == P[h]
    <3>1. K \in SUBSET Seq(S) /\ M \in SUBSET Seq(S)
      BY <1>2, <2>4
    <3> HIDE DEF K, M
    <3>2. Join(S, Join(S, K, M), L) = Join(S, K, Join(S, M, L))
      BY <3>1, JoinAssociates
    <3> QED BY <3>2 DEF K, M
  <2>6. P[h + 1] = Join(S, P[h], L)
    BY <1>1
  <2> QED BY <2>2, <2>3, <2>5, <2>6
<1> HIDE DEF T
<1>5. Nat \subseteq T
  BY <1>3, <1>4, NumberInduction
<1> QED BY <1>5 DEF T, P

(* One more word, at the end or at the beginning.                          *)
LEMMA InPowers ==
  ASSUME NEW S, NEW L \in SUBSET Seq(S), NEW n \in Nat
  PROVE  /\ Powers(S, L)[n] \in SUBSET Seq(S)
         /\ Join(S, Powers(S, L)[n], L) = Powers(S, L)[n + 1]
         /\ Join(S, L, Powers(S, L)[n]) = Powers(S, L)[n + 1]
<1>1. Powers(S, L)[n] \in SUBSET Seq(S) /\ Powers(S, L)[n + 1] = Join(S, Powers(S, L)[n], L)
  BY PowersAre DEF IsPowers
<1>2. Powers(S, L)[1 + n] = Join(S, Powers(S, L)[1], Powers(S, L)[n])
  BY PowersAdd
<1>3. 1 + n = n + 1
  OBVIOUS
<1> QED BY <1>1, <1>2, <1>3, FirstPower

(* Words that are not empty are enough: no more of them than letters.      *)
LEMMA FewPieces ==
  ASSUME NEW S, NEW L \in SUBSET Seq(S), NEW n \in Nat, NEW w \in Powers(S, L)[n]
  PROVE  \E h \in 0..Len(w) : w \in Powers(S, L)[h]
<1> DEFINE P == Powers(S, L)
           T == {h \in Nat : \A v \in P[h] : \E g \in 0..Len(v) : v \in P[g]}
<1>1. /\ P \in [Nat -> SUBSET Seq(S)] /\ P[0] = {<<>>}
      /\ \A h \in Nat : P[h + 1] = Join(S, P[h], L)
  BY PowersAre DEF IsPowers
<1> HIDE DEF P
<1>2. 0 \in T
  BY <1>1
<1>3. ASSUME NEW h \in Nat, h \in T PROVE h + 1 \in T
  <2> SUFFICES ASSUME NEW v \in P[h + 1] PROVE \E g \in 0..Len(v) : v \in P[g]
    OBVIOUS
  <2>1. v \in Join(S, P[h], L)
    BY <1>1
  <2>2. PICK x \in P[h], y \in L : v = x \o y
    BY <2>1 DEF Join
  <2>3. PICK g \in 0..Len(x) : x \in P[g]
    BY <1>3
  <2>4. x \in Seq(S) /\ y \in Seq(S)
    BY <1>1
  <2>5. Len(v) = Len(x) + Len(y) /\ Len(x) \in Nat /\ Len(y) \in Nat
    BY <2>2, <2>4, ConcatProperties
  <2>6. CASE y = <<>>
    <3>1. v = x
      BY <2>2, <2>4, <2>6, ConcatProperties
    <3> QED BY <2>3, <3>1
  <2>7. CASE y # <<>>
    <3>1. Len(y) # 0
      BY <2>4, <2>7, EmptySeq
    <3>2. g \in Nat /\ g + 1 \in 0..Len(v)
      BY <2>3, <2>5, <3>1
    <3>3. v \in Seq(S)
      BY <2>1 DEF Join
    <3>4. v \in P[g + 1]
      BY <1>1, <2>2, <2>3, <3>2, <3>3 DEF Join
    <3> QED BY <3>2, <3>4
  <2> QED BY <2>6, <2>7
<1> HIDE DEF T
<1>4. Nat \subseteq T
  BY <1>2, <1>3, NumberInduction
<1> QED BY <1>4 DEF T, P

=============================================================================
