-------------------------- MODULE Automata_proofs --------------------------
(***************************************************************************)
(* Proofs about the automata library.  First what each construction of     *)
(* Automata gives; with that, the flag `deterministic' of an automaton can *)
(* be trusted after any sequence of calls, which leave no transition to a  *)
(* dead state.  Then the language that each construction of Automata       *)
(* accepts, and with that the answers of Operations.                       *)
(***************************************************************************)
EXTENDS Operations, Recursion

-----------------------------------------------------------------------------
(* The states of an automaton                                              *)

Onto(m, S) == {t[4] : t \in {u \in m.trans : u[1] \in S}}

(* What getStates collects: the least set with the initial state and the   *)
(* targets of its transitions.                                             *)
LEMMA Reachable ==
  ASSUME NEW m, IsFiniteSet(m.trans)
  PROVE  /\ IsFiniteSet(Ends(m)) /\ IsFiniteSet(GetStates(m))
         /\ GetStates(m) \subseteq Ends(m)
         /\ m.q0 \in GetStates(m)
         /\ \A t \in m.trans : t[1] \in GetStates(m) => t[4] \in GetStates(m)
         /\ \A D : /\ m.q0 \in D /\ D \subseteq Ends(m)
                   /\ \A t \in m.trans : t[1] \in D => t[4] \in D
                   => GetStates(m) \subseteq D
<1> DEFINE U == Ends(m)
           next == [S \in SUBSET U |-> Onto(m, S)]
           Grown(grow) == grow = [s \in SUBSET U |->
                            IF s \cup Onto(m, s) = s THEN s ELSE grow[s \cup Onto(m, s)]]
           r == CHOOSE grow : Grown(grow)
<1>1. GetStates(m) = r[{m.q0}]
  BY DEF GetStates, Closure, Onto
<1>2. Monotone(U, next)
  BY DEF Monotone, Onto, Ends
<1>3. \A grow : Grown(grow) <=> Closes(grow, U, next)
  BY DEF Closes
<1>4. Grown(r)
  <2>1. \E grow : Grown(grow)
    BY <1>2, <1>3, ClosesExists
  <2> QED BY <2>1
<1> HIDE DEF r, Grown
<1>5. Closes(r, U, next)
  BY <1>3, <1>4
<1>6. IsFiniteSet(U)
  <2>1. IsFiniteSet({t[1] : t \in m.trans}) /\ IsFiniteSet({t[4] : t \in m.trans})
    <3> DEFINE from == [t \in m.trans |-> t[1]]
               to == [t \in m.trans |-> t[4]]
               P == {t[1] : t \in m.trans}
               Q == {t[4] : t \in m.trans}
    <3>1. from \in [m.trans -> P] /\ to \in [m.trans -> Q]
      OBVIOUS
    <3>2. IsFiniteSet({from[t] : t \in m.trans}) /\ IsFiniteSet({to[t] : t \in m.trans})
      <4> HIDE DEF from, to, P, Q
      <4> QED BY <3>1, FiniteImage
    <3> QED BY <3>2
  <2>2. IsFiniteSet({m.q0})
    BY FS_Singleton
  <2>3. IsFiniteSet({m.q0} \cup {t[1] : t \in m.trans})
    BY <2>1, <2>2, FS_Union
  <2> QED BY <2>1, <2>3, FS_Union DEF Ends
<1>7. {m.q0} \in SUBSET U
  BY DEF Ends
<1> HIDE DEF next, U
<1>8. IsLeastClosed(r[{m.q0}], {m.q0}, U, next)
  BY <1>2, <1>5, <1>6, <1>7, ClosesLeast
<1>9. \A S \in SUBSET U : next[S] = Onto(m, S)
  BY DEF next
<1>10. /\ GetStates(m) \in SUBSET U /\ m.q0 \in GetStates(m)
       /\ Onto(m, GetStates(m)) \subseteq GetStates(m)
       /\ \A D \in SUBSET U : m.q0 \in D /\ Onto(m, D) \subseteq D => GetStates(m) \subseteq D
  <2> DEFINE G == GetStates(m)
  <2>1. G = r[{m.q0}]
    BY <1>1
  <2> HIDE DEF G
  <2>2. /\ G \in SUBSET U /\ {m.q0} \subseteq G /\ next[G] \subseteq G
        /\ \A D \in SUBSET U : {m.q0} \subseteq D /\ next[D] \subseteq D => G \subseteq D
    BY <1>8, <2>1 DEF IsLeastClosed
  <2>3. /\ G \in SUBSET U /\ m.q0 \in G /\ Onto(m, G) \subseteq G
        /\ \A D \in SUBSET U : m.q0 \in D /\ Onto(m, D) \subseteq D => G \subseteq D
    BY <1>9, <2>2
  <2> QED BY <2>3 DEF G
<1>11. \A D : Onto(m, D) \subseteq D <=> \A t \in m.trans : t[1] \in D => t[4] \in D
  BY DEF Onto
<1>12. IsFiniteSet(GetStates(m))
  BY <1>6, <1>10, FS_Subset
<1> QED BY <1>6, <1>10, <1>11, <1>12 DEF U

-----------------------------------------------------------------------------
(* The order of the states                                                 *)

Another(S, s) == CHOOSE q \in S \ ToSet(s) : TRUE

LEMMA OrderGrows ==
  ASSUME NEW S, IsFiniteSet(S), NEW q \in S, NEW n, n = Cardinality(S) - 1,
         NEW f, f[0] = <<q>>,
         \A i \in 1..n : f[i - 1] \in Seq(S) /\ S \ ToSet(f[i - 1]) # {}
                           => f[i] = Append(f[i - 1], Another(S, f[i - 1]))
  PROVE  /\ n \in Nat
         /\ \A i \in 0..n : /\ f[i] \in Seq(S) /\ Len(f[i]) = i + 1
                            /\ NoDuplicates(f[i]) /\ f[i][1] = q
         /\ \A i \in 1..n : S \ ToSet(f[i - 1]) # {}
<1> DEFINE Fine(i) == /\ f[i] \in Seq(S) /\ Len(f[i]) = i + 1
                      /\ NoDuplicates(f[i]) /\ f[i][1] = q
           T == {i \in 0..n : Fine(i)}
<1>1. Cardinality(S) \in Nat /\ Cardinality(S) # 0
  BY FS_CardinalityType, FS_EmptySet
<1>2. n \in Nat
  BY <1>1
<1>3. 0 \in T
  <2>1. <<q>> \in Seq(S) /\ Len(<<q>>) = 1 /\ <<q>>[1] = q
    OBVIOUS
  <2>2. NoDuplicates(<<q>>)
    BY DEF NoDuplicates
  <2>3. Len(<<q>>) = 0 + 1 /\ 0 \in 0..n
    BY <1>2, <2>1
  <2>4. Fine(0)
    BY <2>1, <2>2, <2>3
  <2> QED BY <2>3, <2>4
<1>4. ASSUME NEW i \in 0..n - 1, Fine(i) PROVE S \ ToSet(f[i]) # {}
  <2> DEFINE s == f[i]
  <2>1. s \in Seq(S) /\ Len(s) = i + 1 /\ s \in [1..i + 1 -> S]
    BY <1>4
  <2> HIDE DEF s
  <2>2. {s[x] : x \in 1..i + 1} = ToSet(s)
    BY <2>1 DEF ToSet
  <2>3. i + 1 \in Int /\ 1 \in Int /\ i + 1 < n + 1 /\ ~ (1 > i + 1) /\ i + 1 - 1 + 1 = i + 1
    BY <1>2
  <2>4. IsFiniteSet(1..i + 1) /\ Cardinality(1..i + 1) = i + 1
    <3>1. /\ IsFiniteSet(1..i + 1)
          /\ Cardinality(1..i + 1) = IF 1 > i + 1 THEN 0 ELSE i + 1 - 1 + 1
      BY <2>3, FS_Interval
    <3> QED BY <2>3, <3>1
  <2>6. IsFiniteSet(ToSet(s)) /\ Cardinality(ToSet(s)) <= i + 1
    <3> DEFINE J == 1..i + 1
    <3>1. s \in [J -> S] /\ IsFiniteSet(J)
      BY <2>1, <2>4
    <3> HIDE DEF J
    <3>2. IsFiniteSet({s[x] : x \in J}) /\ Cardinality({s[x] : x \in J}) <= Cardinality(J)
      BY <3>1, FiniteImage
    <3> QED BY <2>2, <2>4, <3>2 DEF J
  <2>7. Cardinality(ToSet(s)) \in Nat
    BY <2>6, FS_CardinalityType
  <2>8. Cardinality(ToSet(s)) # Cardinality(S)
    BY <1>1, <1>2, <2>3, <2>6, <2>7
  <2>9. ToSet(s) \subseteq S
    BY <2>1 DEF ToSet
  <2>10. S \ ToSet(s) # {}
    <3> SUFFICES ASSUME S \ ToSet(s) = {} PROVE FALSE
      OBVIOUS
    <3>1. ToSet(s) = S
      BY <2>9
    <3> QED BY <2>8, <3>1
  <2> QED BY <2>10 DEF s
<1>5. ASSUME NEW i \in 0..n - 1, i \in T PROVE i + 1 \in T
  <2> DEFINE s == f[i]
             e == Another(S, s)
  <2>1. s \in Seq(S) /\ Len(s) = i + 1 /\ NoDuplicates(s) /\ s[1] = q
    BY <1>5
  <2>2. i + 1 \in 1..n /\ i + 1 - 1 = i /\ i + 1 \in 0..n
    BY <1>2
  <2>3. S \ ToSet(s) # {}
    BY <1>4, <1>5
  <2>4. e \in S \ ToSet(s)
    BY <2>3 DEF Another
  <2>5. f[i + 1] = Append(s, e)
    <3>1. f[i] \in Seq(S) /\ S \ ToSet(f[i]) # {}
      BY <2>1, <2>3
    <3>2. \A j \in 1..n : j - 1 = i => f[j] = Append(f[i], Another(S, f[i]))
      BY <3>1
    <3> QED BY <2>2, <3>2
  <2> HIDE DEF s, e
  <2>6. Append(s, e) \in Seq(S) /\ Len(Append(s, e)) = i + 2 /\ Append(s, e)[1] = q
    BY <2>1, <2>4
  <2>7. NoDuplicates(Append(s, e))
    <3> SUFFICES ASSUME NEW x \in 1..i + 2, NEW y \in 1..i + 2,
                        Append(s, e)[x] = Append(s, e)[y]
                 PROVE  x = y
      BY <2>6 DEF NoDuplicates
    <3>1. \A z \in 1..i + 1 : Append(s, e)[z] = s[z] /\ s[z] \in ToSet(s) /\ z \in DOMAIN s
      BY <2>1 DEF ToSet
    <3>2. Append(s, e)[i + 2] = e
      BY <2>1
    <3>3. CASE x \in 1..i + 1 /\ y \in 1..i + 1
      BY <2>1, <3>1, <3>3 DEF NoDuplicates
    <3>4. CASE ~ (x \in 1..i + 1 /\ y \in 1..i + 1)
      <4>1. \A z \in 1..i + 2 : z \in 1..i + 1 \/ z = i + 2
        OBVIOUS
      <4>2. \A z \in 1..i + 1 : Append(s, e)[z] # e
        BY <2>4, <3>1
      <4>3. CASE x = i + 2 /\ y = i + 2
        BY <4>3
      <4>4. CASE x = i + 2 /\ y \in 1..i + 1
        BY <3>2, <4>2, <4>4
      <4>5. CASE x \in 1..i + 1 /\ y = i + 2
        BY <3>2, <4>2, <4>5
      <4> QED BY <3>4, <4>1, <4>3, <4>4, <4>5
    <3> QED BY <3>3, <3>4
  <2>8. Len(Append(s, e)) = (i + 1) + 1
    BY <2>6
  <2>9. Fine(i + 1)
    BY <2>5, <2>6, <2>7, <2>8
  <2> QED BY <2>2, <2>9
<1> HIDE DEF T
<1>6. 0..n \subseteq T
  BY <1>2, <1>3, <1>5, IntervalInduction
<1>7. \A i \in 0..n : Fine(i)
  BY <1>6 DEF T
<1>8. ASSUME NEW i \in 1..n PROVE S \ ToSet(f[i - 1]) # {}
  <2>1. i - 1 \in 0..n - 1 /\ i - 1 \in 0..n
    BY <1>2
  <2> QED BY <1>4, <1>7, <2>1
<1> QED BY <1>2, <1>7, <1>8

LEMMA Ordered ==
  ASSUME NEW S, IsFiniteSet(S), NEW q \in S
  PROVE  /\ Order(q, S) \in Seq(S) /\ Len(Order(q, S)) = Cardinality(S)
         /\ ToSet(Order(q, S)) = S /\ NoDuplicates(Order(q, S)) /\ Order(q, S)[1] = q
<1> DEFINE n == Cardinality(S) - 1
           Grown(f) == f = [i \in 0..Cardinality(S) - 1 |->
                              IF i = 0 THEN <<q>> ELSE Append(f[i - 1], Another(S, f[i - 1]))]
           r == CHOOSE f : Grown(f)
           next == [i \in 1..n |-> [s \in Seq(S) |->
                      IF S \ ToSet(s) # {} THEN Append(s, Another(S, s)) ELSE s]]
<1>1. Order(q, S) = r[n]
  BY DEF Order, Another
<1>0. n = Cardinality(S) - 1
  OBVIOUS
<1>2. n \in Nat
  <2>1. Cardinality(S) \in Nat /\ Cardinality(S) # 0
    BY FS_CardinalityType, FS_EmptySet
  <2> QED BY <2>1
<1>3. next \in [1..n -> [Seq(S) -> Seq(S)]]
  <2>1. ASSUME NEW s \in Seq(S), S \ ToSet(s) # {} PROVE Append(s, Another(S, s)) \in Seq(S)
    <3>1. Another(S, s) \in S
      BY <2>1 DEF Another
    <3> QED BY <3>1
  <2> QED BY <2>1
<1>4. \A i \in 1..n : \A s \in Seq(S) :
        next[i][s] = IF S \ ToSet(s) # {} THEN Append(s, Another(S, s)) ELSE s
  OBVIOUS
<1> HIDE DEF next
<1>5. <<q>> \in Seq(S)
  OBVIOUS
<1>6. PICK f : IteratesUpto(f, n, Seq(S), <<q>>, next)
  BY <1>2, <1>3, <1>5, BoundedIteration
<1>7. /\ f \in [0..n -> Seq(S)] /\ f[0] = <<q>>
      /\ \A i \in 1..n : f[i] = next[i][f[i - 1]]
  BY <1>6 DEF IteratesUpto
<1>8. \A i \in 1..n : f[i - 1] \in Seq(S) /\ S \ ToSet(f[i - 1]) # {}
                        => f[i] = Append(f[i - 1], Another(S, f[i - 1]))
  BY <1>4, <1>7
<1>9. \A i \in 1..n : S \ ToSet(f[i - 1]) # {}
  <2> HIDE DEF n
  <2>1. f[0] = <<q>>
    BY <1>7
  <2> QED BY <1>0, <1>8, <2>1, OrderGrows
<1>10. Grown(f)
  <2>1. \A i \in 1..n : f[i] = Append(f[i - 1], Another(S, f[i - 1]))
    <3> TAKE i \in 1..n
    <3>1. i - 1 \in 0..n
      BY <1>2
    <3> QED BY <1>7, <1>8, <1>9, <3>1
  <2>2. \A i \in 0..n : f[i] = IF i = 0 THEN <<q>> ELSE Append(f[i - 1], Another(S, f[i - 1]))
    <3> TAKE i \in 0..n
    <3>1. i # 0 => i \in 1..n
      BY <1>2
    <3> QED BY <1>7, <2>1, <3>1
  <2>3. DOMAIN f = 0..n
    BY <1>7
  <2>4. f = [i \in 0..n |-> f[i]]
    BY <1>7
  <2> QED BY <2>2, <2>4
<1>11. Grown(r)
  BY <1>10
<1> HIDE DEF r
<1>12. /\ r[0] = <<q>>
       /\ \A i \in 1..n : r[i] = Append(r[i - 1], Another(S, r[i - 1]))
  <2>1. \A i \in 0..n : r[i] = IF i = 0 THEN <<q>> ELSE Append(r[i - 1], Another(S, r[i - 1]))
    BY <1>11
  <2>2. 0 \in 0..n /\ \A i \in 1..n : i \in 0..n /\ i # 0
    BY <1>2
  <2> QED BY <2>1, <2>2
<1> HIDE DEF Grown
<1>13. /\ r[n] \in Seq(S) /\ Len(r[n]) = n + 1
       /\ NoDuplicates(r[n]) /\ r[n][1] = q
  <2>1. n \in 0..n
    BY <1>2
  <2>2. \A i \in 0..n : /\ r[i] \in Seq(S) /\ Len(r[i]) = i + 1
                        /\ NoDuplicates(r[i]) /\ r[i][1] = q
    <3> HIDE DEF n
    <3> QED BY <1>0, <1>12, OrderGrows
  <2> QED BY <2>1, <2>2
<1>14. n + 1 = Cardinality(S)
  <2>1. Cardinality(S) \in Nat
    BY FS_CardinalityType
  <2> QED BY <2>1
<1>15. r[n] \in SetToSeqs(S)
  <2> DEFINE l == r[n]
  <2>1. l \in Seq(S) /\ Len(l) = Cardinality(S) /\ NoDuplicates(l)
    BY <1>13, <1>14
  <2> HIDE DEF l
  <2>2. l \in [1..Cardinality(S) -> S]
    BY <2>1
  <2>3. \A i, j \in 1..Cardinality(S) : i # j => l[i] # l[j]
    BY <2>1, <2>2 DEF NoDuplicates
  <2>4. l \in SetToSeqs(S)
    BY <2>2, <2>3 DEF SetToSeqs
  <2> QED BY <2>4 DEF l
<1>16. ToSet(r[n]) = S
  BY <1>15, Orders
<1> QED BY <1>1, <1>13, <1>14, <1>16

(* number gives the states of m numbers from 0 on, which the initial state *)
(* has.                                                                    *)
IsNumbering(number, m) ==
  /\ number \in [GetStates(m) -> 0..Cardinality(GetStates(m)) - 1]
  /\ \A p, q \in GetStates(m) : number[p] = number[q] => p = q
  /\ number[m.q0] = 0

LEMMA NumbersStates ==
  ASSUME NEW m, IsFiniteSet(m.trans)
  PROVE  IsNumbering(Numbers(Order(m.q0, GetStates(m))), m)
<1> DEFINE S == GetStates(m)
           list == Order(m.q0, S)
           at(q) == CHOOSE i \in DOMAIN list : list[i] = q
           number == Numbers(list)
<1>1. IsFiniteSet(S) /\ m.q0 \in S
  BY Reachable
<1> HIDE DEF S
<1>2. /\ list \in Seq(S) /\ Len(list) = Cardinality(S)
      /\ ToSet(list) = S /\ NoDuplicates(list) /\ list[1] = m.q0
  BY <1>1, Ordered
<1>3. Cardinality(S) \in Nat
  BY <1>1, FS_CardinalityType
<1> HIDE DEF list
<1>4. DOMAIN list = 1..Cardinality(S)
  BY <1>2
<1>5. ASSUME NEW q \in S PROVE at(q) \in 1..Cardinality(S) /\ list[at(q)] = q
  <2>1. \E i \in DOMAIN list : list[i] = q
    BY <1>2 DEF ToSet
  <2>2. at(q) \in DOMAIN list /\ list[at(q)] = q
    BY <2>1
  <2> QED BY <1>4, <2>2
<1>6. number = [q \in S |-> at(q) - 1]
  BY <1>2 DEF Numbers
<1> HIDE DEF number, at
<1>7. \A q \in S : number[q] = at(q) - 1 /\ at(q) - 1 \in 0..Cardinality(S) - 1
  BY <1>3, <1>5, <1>6
<1>8. number \in [S -> 0..Cardinality(S) - 1]
  BY <1>6, <1>7
<1>9. \A p, q \in S : number[p] = number[q] => p = q
  <2> SUFFICES ASSUME NEW p \in S, NEW q \in S, number[p] = number[q] PROVE p = q
    OBVIOUS
  <2>1. at(p) - 1 = at(q) - 1 /\ at(p) \in Int /\ at(q) \in Int
    BY <1>5, <1>7
  <2>2. at(p) = at(q)
    BY <2>1
  <2> QED BY <1>5, <2>2
<1>10. number[m.q0] = 0
  <2>1. at(m.q0) \in DOMAIN list /\ list[at(m.q0)] = list[1] /\ 1 \in DOMAIN list
    BY <1>1, <1>2, <1>4, <1>5
  <2>2. at(m.q0) = 1
    BY <1>2, <2>1 DEF NoDuplicates
  <2> QED BY <1>1, <1>7, <2>2
<1> QED BY <1>8, <1>9, <1>10 DEF IsNumbering, S, number, list

(* What is known of the transitions of an automaton.                       *)
LEMMA Transition ==
  ASSUME NEW Q, NEW m, IsAutomaton(m, Q), NEW t \in m.trans
  PROVE  /\ t[1] \in Q /\ t[2] \in Char /\ t[3] \in Char /\ t[4] \in Q
         /\ t[2] \in Nat /\ t[3] \in Nat /\ t[2] <= t[3] /\ t[3] <= MaxChar
         /\ t = <<t[1], t[2], t[3], t[4]>>
<1>1. t \in Q \X Char \X Char \X Q /\ t[2] <= t[3]
  BY DEF IsAutomaton
<1> QED BY <1>1, CharAssumption DEF Char

LEMMA NumberedAutomaton ==
  ASSUME NEW Q, NEW m, IsAutomaton(m, Q)
  PROVE  \E number : /\ IsNumbering(number, m)
                     /\ Numbered(m) = Rename(m, number)
                     /\ IsAutomaton(Numbered(m), 0..Cardinality(GetStates(m)) - 1)
<1> DEFINE S == GetStates(m)
           N == 0..Cardinality(S) - 1
           number == Numbers(Order(m.q0, S))
           old == {u \in m.trans : u[1] \in DOMAIN number}
           to(t) == <<number[t[1]], t[2], t[3], number[t[4]]>>
           r == Rename(m, number)
<1>1. IsFiniteSet(m.trans)
  BY DEF IsAutomaton
<1>2. IsNumbering(number, m)
  BY <1>1, NumbersStates
<1>3. /\ m.q0 \in S
      /\ \A t \in m.trans : t[1] \in S => t[4] \in S
  BY <1>1, Reachable
<1>4. Numbered(m) = r
  BY DEF Numbered
<1>5. r = [word |-> {}, q0 |-> 0, acc |-> {number[q] : q \in m.acc \cap DOMAIN number},
           trans |-> {to(t) : t \in old}, det |-> m.det]
  BY DEF Rename, Explicit
<1> HIDE DEF r, number, S
<1>6. DOMAIN number = S /\ \A q \in S : number[q] \in N
  BY <1>2 DEF IsNumbering, S
<1>7. ASSUME NEW t \in old PROVE to(t) \in N \X Char \X Char \X N /\ to(t)[2] <= to(t)[3]
  <2>1. t[2] \in Char /\ t[3] \in Char /\ t[2] <= t[3]
    BY Transition
  <2>2. number[t[1]] \in N /\ number[t[4]] \in N
    BY <1>3, <1>6
  <2> QED BY <2>1, <2>2
<1>8. IsFiniteSet({to(t) : t \in old})
  <2> DEFINE f == [t \in old |-> to(t)]
             R == {to(t) : t \in old}
  <2>1. IsFiniteSet(old)
    BY <1>1, FS_Subset
  <2>2. f \in [old -> R]
    OBVIOUS
  <2>3. IsFiniteSet({f[t] : t \in old})
    <3> HIDE DEF f, R, old
    <3> QED BY <2>1, <2>2, FiniteImage
  <2> QED BY <2>3
<1>9. IsAutomaton(r, N)
  <2>1. r.trans = {to(t) : t \in old} /\ r.word = {}
    BY <1>5
  <2>2. \A t \in r.trans : t \in N \X Char \X Char \X N /\ t[2] <= t[3]
    BY <1>7, <2>1
  <2>3. 0 \in N /\ {number[q] : q \in m.acc \cap DOMAIN number} \subseteq N
    BY <1>2, <1>3, <1>6 DEF IsNumbering
  <2>4. m.det \in BOOLEAN
    BY DEF IsAutomaton
  <2>5. r \in [word : SUBSET Seq(Char), q0 : N, acc : SUBSET N,
               trans : SUBSET (N \X Char \X Char \X N), det : BOOLEAN]
    BY <1>5, <2>1, <2>2, <2>3, <2>4
  <2>6. IsFiniteSet(r.trans)
    BY <1>8, <2>1
  <2> QED BY <2>1, <2>2, <2>5, <2>6 DEF IsAutomaton
<1> QED BY <1>2, <1>4, <1>9 DEF r, number, S

-----------------------------------------------------------------------------
(* Letters and intervals                                                   *)

LEMMA CharFinite == IsFiniteSet(Char)
<1>1. 0 \in Int /\ MaxChar \in Int
  BY CharAssumption
<1> QED BY <1>1, FS_Interval DEF Char

LEMMA BoundedTransitions ==
  ASSUME NEW P, IsFiniteSet(P), NEW R, IsFiniteSet(R),
         NEW T \in SUBSET (P \X Char \X Char \X R)
  PROVE  IsFiniteSet(T)
<1> DEFINE S == (P \X Char) \X (Char \X R)
           W == P \X Char \X Char \X R
           f == [x \in S |-> <<x[1][1], x[1][2], x[2][1], x[2][2]>>]
<1>1. IsFiniteSet(P \X Char) /\ IsFiniteSet(Char \X R)
  BY CharFinite, FS_Product
<1>2. IsFiniteSet(S)
  BY <1>1, FS_Product
<1>3. f \in [S -> W]
  OBVIOUS
<1>4. \A w \in W : \E x \in S : f[x] = w
  <2> TAKE w \in W
  <2>1. PICK a1 \in P, a2 \in Char, a3 \in Char, a4 \in R : w = <<a1, a2, a3, a4>>
    OBVIOUS
  <2>2. <<<<a1, a2>>, <<a3, a4>>>> \in S
    OBVIOUS
  <2>3. f[<<<<a1, a2>>, <<a3, a4>>>>] = w
    BY <2>1, <2>2
  <2> QED BY <2>2, <2>3
<1> HIDE DEF S, W, f
<1>5. IsFiniteSet({f[x] : x \in S})
  BY <1>2, <1>3, FiniteImage
<1>6. W \subseteq {f[x] : x \in S}
  BY <1>4
<1>7. T \in SUBSET {f[x] : x \in S}
  BY <1>6 DEF W
<1> QED BY <1>5, <1>7, FS_Subset

LEMMA Interval ==
  ASSUME NEW X \in SUBSET Char, NEW i \in Intervals(X)
  PROVE  /\ i = <<i[1], i[2]>> /\ i[1] \in X /\ i[2] \in X /\ i[1] <= i[2]
         /\ \A c \in Int : i[1] <= c /\ c <= i[2] => c \in X
         /\ i[1] - 1 \notin X /\ i[2] + 1 \notin X
<1>1. i \in X \X X /\ i[1] <= i[2] /\ i[1]..i[2] \subseteq X
  BY DEF Intervals
<1>2. i[1] \in Int /\ i[2] \in Int
  <2>1. i[1] \in X /\ i[2] \in X
    BY <1>1
  <2>2. \A c \in X : c \in Int
    BY CharAssumption DEF Char
  <2> QED BY <2>1, <2>2
<1>3. \A c \in Int : i[1] <= c /\ c <= i[2] => c \in X
  BY <1>1, <1>2
<1> QED BY <1>1, <1>3 DEF Intervals

(* Each letter of a set is in one of its intervals.                        *)
LEMMA IntervalsCover ==
  ASSUME NEW X \in SUBSET Char, NEW c \in X
  PROVE  \E i \in Intervals(X) : i[1] <= c /\ c <= i[2]
<1> DEFINE Lo == {b \in Nat : b <= c /\ b..c \subseteq X}
           Hi == {high \in Nat : c <= MaxChar - high /\ c..(MaxChar - high) \subseteq X}
<1>1. c \in Nat /\ c <= MaxChar /\ MaxChar \in Nat /\ \A d \in X : d \in Nat /\ d <= MaxChar
  BY CharAssumption DEF Char
<1>2. c \in Lo
  BY <1>1
<1>3. PICK lo \in Lo : \A b \in Lo : lo <= b
  <2> HIDE DEF Lo
  <2>1. Lo \subseteq Nat
    BY DEF Lo
  <2> QED BY <1>2, <2>1, LeastNumber
<1>4. MaxChar - c \in Hi
  BY <1>1
<1>5. PICK high \in Hi : \A b \in Hi : high <= b
  <2> HIDE DEF Hi
  <2>1. Hi \subseteq Nat
    BY DEF Hi
  <2> QED BY <1>4, <2>1, LeastNumber
<1> DEFINE hi == MaxChar - high
<1>6. lo \in Nat /\ lo <= c /\ lo..c \subseteq X /\ lo \in X
  BY <1>1, <1>3
<1>7. hi \in Nat /\ c <= hi /\ c..hi \subseteq X /\ hi \in X
  BY <1>1, <1>5
<1>8. lo - 1 \notin X
  <2> SUFFICES ASSUME lo - 1 \in X PROVE FALSE
    OBVIOUS
  <2>1. lo - 1 \in Nat /\ lo - 1 <= c
    BY <1>1, <1>6
  <2>2. \A d \in (lo - 1)..c : d = lo - 1 \/ d \in lo..c
    BY <1>1, <1>6
  <2>3. (lo - 1)..c \subseteq X
    BY <1>6, <2>2
  <2>4. lo - 1 \in Lo
    BY <2>1, <2>3
  <2> QED BY <1>3, <1>6, <2>4
<1>9. hi + 1 \notin X
  <2> SUFFICES ASSUME hi + 1 \in X PROVE FALSE
    OBVIOUS
  <2>1. high - 1 \in Nat /\ MaxChar - (high - 1) = hi + 1 /\ c <= hi + 1
    BY <1>1, <1>5, <1>7
  <2>2. \A d \in c..(hi + 1) : d = hi + 1 \/ d \in c..hi
    BY <1>1, <1>7
  <2>3. c..(hi + 1) \subseteq X
    BY <1>7, <2>2
  <2>4. high - 1 \in Hi
    BY <2>1, <2>3
  <2>5. high \in Nat
    BY <1>5
  <2> QED BY <1>5, <2>4, <2>5
<1> HIDE DEF hi
<1>10. \A d \in lo..hi : d \in lo..c \/ d \in c..hi
  BY <1>1, <1>6, <1>7
<1>11. <<lo, hi>> \in Intervals(X)
  <2>1. lo..hi \subseteq X /\ lo <= hi
    BY <1>1, <1>6, <1>7, <1>10
  <2> QED BY <1>6, <1>7, <1>8, <1>9, <2>1 DEF Intervals
<1> QED BY <1>6, <1>7, <1>11

LEMMA LettersRead ==
  ASSUME NEW Q, NEW m, IsAutomaton(m, Q)
  PROVE  /\ \A p, q : LettersFrom(m, p, q) \subseteq Char
         /\ \A p, q : \A c \in Int : c \in LettersFrom(m, p, q)
              <=> \E t \in m.trans : t[1] = p /\ t[4] = q /\ t[2] <= c /\ c <= t[3]
<1>1. \A t \in m.trans : /\ t[2] \in Int /\ t[3] \in Int
                         /\ \A c \in t[2]..t[3] : c \in Char
  <2> SUFFICES ASSUME NEW t \in m.trans
               PROVE  /\ t[2] \in Int /\ t[3] \in Int
                      /\ \A c \in t[2]..t[3] : c \in Char
    OBVIOUS
  <2>1. t[2] \in Nat /\ t[3] \in Nat /\ t[3] <= MaxChar
    BY Transition
  <2> QED BY <2>1, CharAssumption DEF Char
<1> QED BY <1>1 DEF LettersFrom

-----------------------------------------------------------------------------
(* reduce: the same letters between the same states, in intervals that are *)
(* as long as possible.                                                    *)

Joining(m, p, q) == {t \in m.trans : t[1] = p /\ t[4] = q}

Merged(m) ==
  \A p, q : Joining(m, p, q) = {<<p, i[1], i[2], q>> : i \in Intervals(LettersFrom(m, p, q))}

LEMMA Reduced ==
  ASSUME NEW Q, NEW m, IsAutomaton(m, Q)
  PROVE  /\ IsAutomaton(Reduce(m), Q)
         /\ Reduce(m).q0 = m.q0 /\ Reduce(m).acc = m.acc /\ Reduce(m).det = m.det
         /\ Reduce(m).word = m.word
         /\ \A p, q : LettersFrom(Reduce(m), p, q) = LettersFrom(m, p, q)
         /\ ~ IsSingleton(m) => Merged(Reduce(m))
<1>1. CASE IsSingleton(m)
  BY <1>1 DEF Reduce
<1>2. CASE ~ IsSingleton(m)
  <2> DEFINE L(p, q) == LettersFrom(m, p, q)
             edges == {<<t[1], t[4]>> : t \in m.trans}
             on(e) == {<<e[1], i[1], i[2], e[2]>> : i \in Intervals(L(e[1], e[2]))}
             new == UNION {on(e) : e \in edges}
             r == [m EXCEPT !.trans = new]
  <2>1. Reduce(m) = r
    BY <1>2 DEF Reduce
  <2>2. \A p, q : L(p, q) \subseteq Char
    BY LettersRead
  <2>3. \A p, q : \A c \in L(p, q) : c \in Int /\ <<p, q>> \in edges
    <3> SUFFICES ASSUME NEW p, NEW q, NEW c \in L(p, q) PROVE c \in Int /\ <<p, q>> \in edges
      OBVIOUS
    <3>1. c \in Int
      BY <2>2, CharAssumption DEF Char
    <3>2. PICK t \in m.trans : t[1] = p /\ t[4] = q
      BY <3>1, LettersRead
    <3> QED BY <3>1, <3>2
  <2>4. \A e \in edges : e[1] \in Q /\ e[2] \in Q
    BY Transition
  <2> HIDE DEF L, edges
  <2>5. ASSUME NEW e, NEW t \in on(e)
        PROVE  /\ t[1] = e[1] /\ t[4] = e[2] /\ t[2] \in Char /\ t[3] \in Char /\ t[2] <= t[3]
               /\ t = <<e[1], t[2], t[3], e[2]>>
               /\ \A c \in Int : t[2] <= c /\ c <= t[3] => c \in L(e[1], e[2])
    <3>1. PICK i \in Intervals(L(e[1], e[2])) : t = <<e[1], i[1], i[2], e[2]>>
      BY <2>5
    <3>2. L(e[1], e[2]) \in SUBSET Char
      BY <2>2
    <3>3. /\ i[1] \in L(e[1], e[2]) /\ i[2] \in L(e[1], e[2]) /\ i[1] <= i[2]
          /\ \A c \in Int : i[1] <= c /\ c <= i[2] => c \in L(e[1], e[2])
      BY <3>2, Interval
    <3> QED BY <3>1, <3>2, <3>3
  <2>6. ASSUME NEW p, NEW q PROVE {t \in new : t[1] = p /\ t[4] = q} = on(<<p, q>>)
    <3>1. \A t \in new : t[1] = p /\ t[4] = q => t \in on(<<p, q>>)
      <4> SUFFICES ASSUME NEW t \in new, t[1] = p, t[4] = q PROVE t \in on(<<p, q>>)
        OBVIOUS
      <4>1. PICK e \in edges : t \in on(e)
        OBVIOUS
      <4>2. e[1] = p /\ e[2] = q
        BY <2>5, <4>1
      <4>3. on(e) = on(<<p, q>>)
        BY <4>2
      <4> QED BY <4>1, <4>3
    <3>2. ASSUME NEW t \in on(<<p, q>>) PROVE t \in new /\ t[1] = p /\ t[4] = q
      <4>1. t[1] = p /\ t[4] = q
        BY <2>5
      <4>2. PICK i \in Intervals(L(p, q)) : t = <<p, i[1], i[2], q>>
        OBVIOUS
      <4>3. i[1] \in L(p, q)
        BY <2>2, Interval
      <4>4. <<p, q>> \in edges
        BY <2>3, <4>3
      <4> QED BY <4>1, <4>4
    <3> QED BY <3>1, <3>2
  <2> HIDE DEF on
  <2>7. /\ r.trans = new /\ r.q0 = m.q0 /\ r.acc = m.acc /\ r.det = m.det /\ r.word = m.word
        /\ m \in [word : SUBSET Seq(Char), q0 : Q, acc : SUBSET Q,
                  trans : SUBSET (Q \X Char \X Char \X Q), det : BOOLEAN]
    BY DEF IsAutomaton
  <2>8. \A t \in new : t \in Q \X Char \X Char \X Q /\ t[2] <= t[3]
    <3> SUFFICES ASSUME NEW t \in new PROVE t \in Q \X Char \X Char \X Q /\ t[2] <= t[3]
      OBVIOUS
    <3>1. PICK e \in edges : t \in on(e)
      OBVIOUS
    <3> QED BY <2>4, <2>5, <3>1
  <2>9. IsFiniteSet(new)
    <3>1. IsFiniteSet(Ends(m))
      BY Reachable DEF IsAutomaton
    <3>2. \A e \in edges : e[1] \in Ends(m) /\ e[2] \in Ends(m)
      BY DEF edges, Ends
    <3>3. \A t \in new : t \in Ends(m) \X Char \X Char \X Ends(m)
      <4> SUFFICES ASSUME NEW t \in new PROVE t \in Ends(m) \X Char \X Char \X Ends(m)
        OBVIOUS
      <4>1. PICK e \in edges : t \in on(e)
        OBVIOUS
      <4> QED BY <2>5, <3>2, <4>1
    <3> HIDE DEF new
    <3>4. new \in SUBSET (Ends(m) \X Char \X Char \X Ends(m))
      BY <3>3
    <3> QED BY <3>1, <3>4, BoundedTransitions
  <2> HIDE DEF new
  <2>10. IsAutomaton(r, Q)
    <3>1. r \in [word : SUBSET Seq(Char), q0 : Q, acc : SUBSET Q,
                 trans : SUBSET (Q \X Char \X Char \X Q), det : BOOLEAN]
      BY <2>7, <2>8
    <3>2. r.word = {}
      BY <1>2, <2>7 DEF IsSingleton
    <3> HIDE DEF r
    <3> QED BY <2>7, <2>8, <2>9, <3>1, <3>2 DEF IsAutomaton
  <2> HIDE DEF r
  <2>11. \A p, q : Joining(r, p, q) = on(<<p, q>>)
    BY <2>6, <2>7 DEF Joining
  <2>12. ASSUME NEW p, NEW q PROVE LettersFrom(r, p, q) = L(p, q)
    <3>1. /\ LettersFrom(r, p, q) \subseteq Char
          /\ \A c \in Int : c \in LettersFrom(r, p, q)
               <=> \E t \in Joining(r, p, q) : t[2] <= c /\ c <= t[3]
      BY <2>10, LettersRead DEF Joining
    <3>2. ASSUME NEW c \in LettersFrom(r, p, q) PROVE c \in L(p, q)
      <4>1. c \in Int
        BY <3>1, CharAssumption DEF Char
      <4>2. PICK t \in on(<<p, q>>) : t[2] <= c /\ c <= t[3]
        BY <2>11, <3>1, <4>1
      <4> QED BY <2>5, <4>1, <4>2
    <3>3. ASSUME NEW c \in L(p, q) PROVE c \in LettersFrom(r, p, q)
      <4>1. L(p, q) \in SUBSET Char /\ c \in Int
        BY <2>2, <2>3
      <4>2. PICK i \in Intervals(L(p, q)) : i[1] <= c /\ c <= i[2]
        BY <4>1, IntervalsCover
      <4>3. <<p, i[1], i[2], q>> \in on(<<p, q>>)
        BY DEF on
      <4>4. \E t \in Joining(r, p, q) : t[2] <= c /\ c <= t[3]
        BY <2>11, <4>2, <4>3
      <4> QED BY <3>1, <4>1, <4>4
    <3> QED BY <3>2, <3>3
  <2>13. Merged(r)
    BY <2>11, <2>12 DEF Merged, on
  <2> QED BY <2>1, <2>7, <2>10, <2>12, <2>13 DEF L
<1> QED BY <1>1, <1>2

(* Merged survives a change of the names of states.                        *)
LEMMA Unnumbered ==
  ASSUME NEW Q, NEW m, IsAutomaton(m, Q), NEW number, IsNumbering(number, m)
  PROVE  /\ \A p, q \in GetStates(m) :
              Joining(Rename(m, number), number[p], number[q])
                = {<<number[p], t[2], t[3], number[q]>> : t \in Joining(m, p, q)}
         /\ \A u \in Rename(m, number).trans : \E t \in m.trans :
              /\ t[1] \in GetStates(m) /\ t[4] \in GetStates(m)
              /\ u = <<number[t[1]], t[2], t[3], number[t[4]]>>
<1> DEFINE S == GetStates(m)
           old == {u \in m.trans : u[1] \in DOMAIN number}
           to(t) == <<number[t[1]], t[2], t[3], number[t[4]]>>
           r == Rename(m, number)
<1>1. \A t \in m.trans : t[1] \in S => t[4] \in S
  BY Reachable DEF IsAutomaton
<1>2. r.trans = {to(t) : t \in old}
  BY DEF Rename, Explicit
<1>3. DOMAIN number = S /\ \A p, q \in S : number[p] = number[q] => p = q
  BY DEF IsNumbering
<1> HIDE DEF r, S
<1>4. ASSUME NEW p \in S, NEW q \in S
      PROVE  Joining(r, number[p], number[q])
               = {<<number[p], t[2], t[3], number[q]>> : t \in Joining(m, p, q)}
  <2>1. ASSUME NEW u \in Joining(r, number[p], number[q])
        PROVE  \E t \in Joining(m, p, q) : u = <<number[p], t[2], t[3], number[q]>>
    <3>1. PICK t \in old : u = to(t)
      BY <1>2 DEF Joining
    <3>2. t[1] \in S /\ t[4] \in S /\ number[t[1]] = number[p] /\ number[t[4]] = number[q]
      BY <1>1, <1>3, <3>1 DEF Joining
    <3>3. t[1] = p /\ t[4] = q
      BY <1>3, <3>2
    <3> QED BY <3>1, <3>3 DEF Joining
  <2>2. ASSUME NEW t \in Joining(m, p, q)
        PROVE  <<number[p], t[2], t[3], number[q]>> \in Joining(r, number[p], number[q])
    <3>1. t \in old /\ t[1] = p /\ t[4] = q
      BY <1>3 DEF Joining
    <3> QED BY <1>2, <3>1 DEF Joining
  <2> QED BY <2>1, <2>2
<1>5. ASSUME NEW u \in r.trans
      PROVE  \E t \in m.trans : t[1] \in S /\ t[4] \in S /\ u = to(t)
  <2>1. PICK t \in old : u = to(t)
    BY <1>2
  <2> QED BY <1>1, <1>3, <2>1
<1> QED BY <1>4, <1>5 DEF r, S

LEMMA DeadRemoved ==
  ASSUME NEW Q, NEW m, IsAutomaton(m, Q), ~ IsSingleton(m)
  PROVE  LET r == RemoveDeadTransitions(m)
         IN  /\ IsAutomaton(r, Q) /\ r.q0 = m.q0 /\ r.acc = m.acc /\ r.det = m.det
             /\ Merged(r)
             /\ \A p, q : LettersFrom(r, p, q) \subseteq LettersFrom(m, p, q)
<1> DEFINE d == [m EXCEPT !.trans = {t \in @ : t[4] \in GetLiveStates(m)}]
<1>1. RemoveDeadTransitions(m) = Reduce(d)
  BY DEF RemoveDeadTransitions
<1>2. /\ m \in [word : SUBSET Seq(Char), q0 : Q, acc : SUBSET Q,
                trans : SUBSET (Q \X Char \X Char \X Q), det : BOOLEAN]
      /\ IsFiniteSet(m.trans) /\ \A t \in m.trans : t[2] <= t[3]
      /\ m.word = {}
  BY DEF IsAutomaton, IsSingleton
<1>3. /\ d.trans \subseteq m.trans /\ d.q0 = m.q0 /\ d.acc = m.acc /\ d.det = m.det /\ d.word = {}
      /\ d \in [word : SUBSET Seq(Char), q0 : Q, acc : SUBSET Q,
                trans : SUBSET (Q \X Char \X Char \X Q), det : BOOLEAN]
  BY <1>2
<1> HIDE DEF d
<1>4. IsFiniteSet(d.trans)
  BY <1>2, <1>3, FS_Subset
<1>5. IsAutomaton(d, Q) /\ ~ IsSingleton(d)
  BY <1>2, <1>3, <1>4 DEF IsAutomaton, IsSingleton
<1>6. \A p, q : LettersFrom(d, p, q) \subseteq LettersFrom(m, p, q)
  BY <1>3 DEF LettersFrom
<1>7. /\ IsAutomaton(Reduce(d), Q)
      /\ Reduce(d).q0 = d.q0 /\ Reduce(d).acc = d.acc /\ Reduce(d).det = d.det
      /\ \A p, q : LettersFrom(Reduce(d), p, q) = LettersFrom(d, p, q)
      /\ Merged(Reduce(d))
  BY <1>5, Reduced
<1> QED BY <1>1, <1>3, <1>6, <1>7

-----------------------------------------------------------------------------
(* Live states                                                             *)

Back(m, S) == {t[1] : t \in {u \in m.trans : u[4] \in S}}

(* What getLiveStates collects: the least set with the accepting states    *)
(* and the sources of its transitions.                                     *)
LEMMA LiveStates ==
  ASSUME NEW m, IsFiniteSet(m.trans)
  PROVE  /\ GetAcceptStates(m) \subseteq GetLiveStates(m)
         /\ \A t \in m.trans : t[4] \in GetLiveStates(m) => t[1] \in GetLiveStates(m)
         /\ \A D : /\ GetAcceptStates(m) \subseteq D
                   /\ \A t \in m.trans : t[4] \in D => t[1] \in D
                   => GetLiveStates(m) \subseteq D
<1> DEFINE W == Ends(m)
           U == Ends(m) \cup m.acc
           A == GetAcceptStates(m)
           next == [S \in SUBSET U |-> Back(m, S)]
           Grown(grow) == grow = [s \in SUBSET U |->
                            IF s \cup Back(m, s) = s THEN s ELSE grow[s \cup Back(m, s)]]
           r == CHOOSE grow : Grown(grow)
<1>1. GetLiveStates(m) = r[A]
  BY DEF GetLiveStates, Closure, Back
<1>2. Monotone(U, next)
  BY DEF Monotone, Back, Ends
<1>3. \A grow : Grown(grow) <=> Closes(grow, U, next)
  BY DEF Closes
<1>4. Grown(r)
  <2>1. \E grow : Grown(grow)
    BY <1>2, <1>3, ClosesExists
  <2> QED BY <2>1
<1> HIDE DEF r, Grown
<1>5. Closes(r, U, next)
  BY <1>3, <1>4
<1>6. W \in SUBSET U /\ IsFiniteSet(W) /\ A \in SUBSET W
  BY Reachable DEF GetAcceptStates
<1>7. \A S \in SUBSET U : next[S] = Back(m, S)
  OBVIOUS
<1>8. \A S \in SUBSET W : next[S] \in SUBSET W
  <2>1. \A S : Back(m, S) \in SUBSET W
    BY DEF Back, Ends
  <2> QED BY <1>6, <1>7, <2>1
<1> HIDE DEF next, U, W, A
<1>9. IsLeastClosed(r[A], A, U, next)
  BY <1>2, <1>5, <1>6, <1>8, ClosesLeastWithin
<1> DEFINE L == GetLiveStates(m)
<1>10. L = r[A]
  BY <1>1
<1> HIDE DEF L
<1>11. /\ L \in SUBSET U /\ A \subseteq L /\ Back(m, L) \subseteq L
       /\ \A D \in SUBSET U : A \subseteq D /\ Back(m, D) \subseteq D => L \subseteq D
  <2>1. /\ L \in SUBSET U /\ A \subseteq L /\ next[L] \subseteq L
        /\ \A D \in SUBSET U : A \subseteq D /\ next[D] \subseteq D => L \subseteq D
    BY <1>9, <1>10 DEF IsLeastClosed
  <2> QED BY <1>7, <2>1
<1>12. \A D : Back(m, D) \subseteq D <=> \A t \in m.trans : t[4] \in D => t[1] \in D
  BY DEF Back
<1>13. ASSUME NEW D, A \subseteq D, \A t \in m.trans : t[4] \in D => t[1] \in D
       PROVE  L \subseteq D
  <2> DEFINE E == D \cap U
  <2>1. E \in SUBSET U /\ A \subseteq E
    BY <1>6, <1>13
  <2>2. \A t \in m.trans : t[1] \in U
    BY DEF U, Ends
  <2>3. \A t \in m.trans : t[4] \in E => t[1] \in E
    BY <1>13, <2>2
  <2> HIDE DEF E
  <2>4. L \subseteq E
    BY <1>11, <1>12, <2>1, <2>3
  <2> QED BY <2>4 DEF E
<1>14. \A t \in m.trans : t[4] \in L => t[1] \in L
  BY <1>11, <1>12
<1> QED BY <1>11, <1>13, <1>14 DEF A, L

(* Transitions to dead states.                                             *)

(* The states from which a word is accepted, wherever they are.            *)
Productive(m) ==
  {q \in Ends(m) \cup m.acc :
     \A D \in SUBSET (Ends(m) \cup m.acc) :
       m.acc \subseteq D /\ (\A t \in m.trans : t[4] \in D => t[1] \in D) => q \in D}

NoneDead(m) == \A t \in m.trans : t[4] \in Productive(m)

LEMMA ProductiveLeast ==
  ASSUME NEW m
  PROVE  /\ m.acc \subseteq Productive(m)
         /\ \A t \in m.trans : t[4] \in Productive(m) => t[1] \in Productive(m)
         /\ \A D : /\ m.acc \subseteq D
                   /\ \A t \in m.trans : t[4] \in D => t[1] \in D
                   => Productive(m) \subseteq D
<1> DEFINE U == Ends(m) \cup m.acc
<1>1. m.acc \subseteq U /\ \A t \in m.trans : t[1] \in U
  BY DEF Ends
<1>2. Productive(m) = {q \in U : \A D \in SUBSET U :
         m.acc \subseteq D /\ (\A t \in m.trans : t[4] \in D => t[1] \in D) => q \in D}
  BY DEF Productive
<1> HIDE DEF U
<1>3. ASSUME NEW D, m.acc \subseteq D, \A t \in m.trans : t[4] \in D => t[1] \in D
      PROVE  Productive(m) \subseteq D
  <2> DEFINE E == D \cap U
  <2>1. E \in SUBSET U /\ m.acc \subseteq E /\ \A t \in m.trans : t[4] \in E => t[1] \in E
    BY <1>1, <1>3
  <2> HIDE DEF E
  <2>2. Productive(m) \subseteq E
    BY <1>2, <2>1
  <2> QED BY <2>2 DEF E
<1>4. m.acc \subseteq Productive(m)
  BY <1>1, <1>2
<1>5. ASSUME NEW t \in m.trans, t[4] \in Productive(m) PROVE t[1] \in Productive(m)
  BY <1>1, <1>2, <1>5
<1> QED BY <1>3, <1>4, <1>5

(* Of the states that are reached, the productive ones are those of        *)
(* getLiveStates.                                                          *)
LEMMA ProductiveIsLive ==
  ASSUME NEW m, IsFiniteSet(m.trans)
  PROVE  /\ GetLiveStates(m) \subseteq Productive(m)
         /\ GetStates(m) \cap Productive(m) \subseteq GetLiveStates(m)
<1> DEFINE L == GetLiveStates(m)
           S == GetStates(m)
           D == {q \in Productive(m) : q \in S => q \in L}
<1>1. /\ S \cap m.acc \subseteq L
      /\ \A t \in m.trans : t[4] \in L => t[1] \in L
      /\ \A E : /\ S \cap m.acc \subseteq E
                /\ \A t \in m.trans : t[4] \in E => t[1] \in E
                => L \subseteq E
  BY LiveStates DEF GetAcceptStates
<1>2. \A t \in m.trans : t[1] \in S => t[4] \in S
  BY Reachable
<1> HIDE DEF L, S
<1>3. L \subseteq Productive(m)
  BY <1>1, ProductiveLeast
<1>4. m.acc \subseteq D
  BY <1>1, ProductiveLeast
<1>5. \A t \in m.trans : t[4] \in D => t[1] \in D
  BY <1>1, <1>2, ProductiveLeast
<1> HIDE DEF D
<1>6. Productive(m) \subseteq D
  BY <1>4, <1>5, ProductiveLeast
<1> QED BY <1>3, <1>6 DEF D, L, S

(* What every state of m that leads to acceptance is in another automaton. *)
LEMMA ProductiveKept ==
  ASSUME NEW m, NEW r,
         m.acc \subseteq Productive(r),
         \A t \in m.trans : \E u \in r.trans : u[1] = t[1] /\ u[4] = t[4]
  PROVE  Productive(m) \subseteq Productive(r)
<1>1. \A t \in m.trans : t[4] \in Productive(r) => t[1] \in Productive(r)
  BY ProductiveLeast
<1> QED BY <1>1, ProductiveLeast

-----------------------------------------------------------------------------

(* removeDeadTransitions does what it says.                                *)
LEMMA DeadAreRemoved ==
  ASSUME NEW Q, NEW m, IsAutomaton(m, Q), ~ IsSingleton(m)
  PROVE  NoneDead(RemoveDeadTransitions(m))
<1> DEFINE L == GetLiveStates(m)
           d == [m EXCEPT !.trans = {t \in m.trans : t[4] \in L}]
           r == RemoveDeadTransitions(m)
<1>1. r = Reduce(d)
  BY DEF RemoveDeadTransitions
<1> HIDE DEF r
<1>2. /\ m \in [word : SUBSET Seq(Char), q0 : Q, acc : SUBSET Q,
                trans : SUBSET (Q \X Char \X Char \X Q), det : BOOLEAN]
      /\ IsFiniteSet(m.trans) /\ \A t \in m.trans : t[2] <= t[3]
      /\ m.word = {}
  BY DEF IsAutomaton, IsSingleton
<1>3. /\ GetAcceptStates(m) \subseteq m.acc
      /\ \A t \in m.trans : t[4] \in L => t[1] \in L
      /\ GetAcceptStates(m) \subseteq L
      /\ \A D : /\ GetAcceptStates(m) \subseteq D
                /\ \A t \in m.trans : t[4] \in D => t[1] \in D
                => L \subseteq D
  BY <1>2, LiveStates DEF GetAcceptStates
<1> HIDE DEF L
<1>4. /\ d \in [word : SUBSET Seq(Char), q0 : Q, acc : SUBSET Q,
                trans : SUBSET (Q \X Char \X Char \X Q), det : BOOLEAN]
      /\ d.trans = {t \in m.trans : t[4] \in L}
      /\ d.word = {} /\ d.acc = m.acc
  BY <1>2
<1> HIDE DEF d
<1>5. IsFiniteSet(d.trans)
  BY <1>2, <1>4, FS_Subset
<1>6. IsAutomaton(d, Q)
  BY <1>2, <1>4, <1>5 DEF IsAutomaton
<1>7. /\ IsAutomaton(r, Q) /\ r.acc = m.acc
      /\ \A p, q : LettersFrom(r, p, q) = LettersFrom(d, p, q)
  BY <1>1, <1>4, <1>6, Reduced
<1>8. \A t \in d.trans : \E u \in r.trans : u[1] = t[1] /\ u[4] = t[4]
  <2> SUFFICES ASSUME NEW t \in d.trans PROVE \E u \in r.trans : u[1] = t[1] /\ u[4] = t[4]
    OBVIOUS
  <2>1. t[2] \in Int /\ t[3] \in Int /\ t[2] <= t[3]
    BY <1>6, Transition
  <2>2. t[2] \in LettersFrom(d, t[1], t[4])
    BY <1>6, <2>1, LettersRead
  <2> QED BY <1>7, <2>1, <2>2, LettersRead
<1>9. \A u \in r.trans : \E t \in d.trans : u[1] = t[1] /\ u[4] = t[4]
  <2> SUFFICES ASSUME NEW u \in r.trans PROVE \E t \in d.trans : u[1] = t[1] /\ u[4] = t[4]
    OBVIOUS
  <2>1. u[2] \in Int /\ u[3] \in Int /\ u[2] <= u[3]
    BY <1>7, Transition
  <2>2. u[2] \in LettersFrom(r, u[1], u[4])
    BY <1>7, <2>1, LettersRead
  <2> QED BY <1>6, <1>7, <2>1, <2>2, LettersRead
<1> DEFINE D == {q \in L : q \in Productive(r)}
<1>10. GetAcceptStates(m) \subseteq D
  BY <1>3, <1>7, ProductiveLeast
<1>11. \A t \in m.trans : t[4] \in D => t[1] \in D
  <2> SUFFICES ASSUME NEW t \in m.trans, t[4] \in L, t[4] \in Productive(r)
               PROVE  t[1] \in L /\ t[1] \in Productive(r)
    OBVIOUS
  <2>1. t \in d.trans
    BY <1>4
  <2>2. PICK u \in r.trans : u[1] = t[1] /\ u[4] = t[4]
    BY <1>8, <2>1
  <2> QED BY <1>3, <2>2, ProductiveLeast
<1> HIDE DEF D
<1>12. L \subseteq D
  BY <1>3, <1>10, <1>11
<1>13. \A u \in r.trans : u[4] \in Productive(r)
  BY <1>4, <1>9, <1>12 DEF D
<1> QED BY <1>13 DEF NoneDead, r

(* New numbers for the states leave none dead that was not.                *)
LEMMA NumberedNoneDead ==
  ASSUME NEW Q, NEW m, IsAutomaton(m, Q), NoneDead(m)
  PROVE  NoneDead(Numbered(m))
<1> DEFINE S == GetStates(m)
<1>1. PICK number : IsNumbering(number, m) /\ Numbered(m) = Rename(m, number)
  BY NumberedAutomaton
<1> DEFINE r == Rename(m, number)
<1>2. DOMAIN number = S /\ \A t \in m.trans : t[1] \in S => t[4] \in S
  BY <1>1, Reachable DEF IsNumbering, IsAutomaton
<1> HIDE DEF S
<1>3. /\ r.acc = {number[q] : q \in m.acc \cap S}
      /\ r.trans = {<<number[t[1]], t[2], t[3], number[t[4]]>> : t \in {u \in m.trans : u[1] \in S}}
  BY <1>2 DEF Rename, Explicit
<1> HIDE DEF r
<1> DEFINE D == {q \in Productive(m) : q \in S => number[q] \in Productive(r)}
<1>4. m.acc \subseteq D
  BY <1>3, ProductiveLeast
<1>5. \A t \in m.trans : t[4] \in D => t[1] \in D
  <2> SUFFICES ASSUME NEW t \in m.trans, t[4] \in D, t[1] \in S
               PROVE  number[t[1]] \in Productive(r)
    BY ProductiveLeast
  <2> DEFINE u == <<number[t[1]], t[2], t[3], number[t[4]]>>
  <2>1. u \in r.trans /\ u[1] = number[t[1]] /\ u[4] = number[t[4]]
    BY <1>3
  <2>2. number[t[4]] \in Productive(r)
    BY <1>2
  <2> HIDE DEF u
  <2> QED BY <2>1, <2>2, ProductiveLeast
<1> HIDE DEF D
<1>6. Productive(m) \subseteq D
  BY <1>4, <1>5, ProductiveLeast
<1>7. \A t \in m.trans : t[1] \in S => number[t[4]] \in Productive(r)
  BY <1>2, <1>6 DEF D, NoneDead
<1>8. \A u \in r.trans : u[4] \in Productive(r)
  BY <1>3, <1>7
<1> QED BY <1>1, <1>8 DEF r, NoneDead

(* Productive grows with the accepting states and the transitions.         *)
LEMMA ProductiveGrows ==
  ASSUME NEW m, NEW r, m.acc \subseteq r.acc, m.trans \subseteq r.trans
  PROVE  Productive(m) \subseteq Productive(r)
<1>1. m.acc \subseteq Productive(r)
  BY ProductiveLeast
<1> QED BY <1>1, ProductiveKept

-----------------------------------------------------------------------------
(* totalize: every state reads every letter.                               *)
LEMMA Total ==
  ASSUME NEW sink \in Nat \ {0}, NEW n, IsAutomaton(n, 0..sink - 1), ~ IsSingleton(n)
  PROVE  LET t == WithSink(n, sink)
         IN  /\ IsAutomaton(t, 0..sink) /\ ~ IsSingleton(t)
             /\ t.q0 = n.q0 /\ t.acc = n.acc /\ t.det = n.det
             /\ n.trans \subseteq t.trans
             /\ \A p \in 0..sink, c \in Char : \E e \in t.trans : e[1] = p /\ e[2] <= c /\ c <= e[3]
             /\ \A e \in t.trans \ n.trans :
                  /\ e[4] = sink
                  /\ e[1] # sink => \A c \in Int : e[2] <= c /\ c <= e[3] =>
                       \A q \in 0..sink - 1 : c \notin LettersFrom(n, e[1], q)
<1> DEFINE states == 0..sink - 1
           gaps(p) == Char \ UNION {LettersFrom(n, p, q) : q \in states}
           idle == {<<sink, 0, MaxChar, sink>>}
           fill(p) == {<<p, i[1], i[2], sink>> : i \in Intervals(gaps(p))}
           new == n.trans \cup idle \cup UNION {fill(p) : p \in states}
           t == [n EXCEPT !.trans = new]
<1>1. WithSink(n, sink) = t
  BY DEF WithSink
<1>2. /\ n \in [word : SUBSET Seq(Char), q0 : states, acc : SUBSET states,
                trans : SUBSET (states \X Char \X Char \X states), det : BOOLEAN]
      /\ IsFiniteSet(n.trans) /\ \A e \in n.trans : e[2] <= e[3]
      /\ n.word = {}
  BY DEF IsAutomaton, IsSingleton
<1>3. 0 \in Char /\ MaxChar \in Char /\ 0 <= MaxChar /\ \A c \in Char : c \in Int /\ 0 <= c /\ c <= MaxChar
  BY CharAssumption DEF Char
<1>4. \A p : gaps(p) \in SUBSET Char
  OBVIOUS
<1>5. states \subseteq 0..sink /\ sink \in 0..sink /\ sink \notin states
      /\ \A p \in 0..sink : p = sink \/ p \in states
  OBVIOUS
<1> HIDE DEF states
<1>6. ASSUME NEW p \in states, NEW e \in fill(p)
      PROVE  /\ e = <<p, e[2], e[3], sink>> /\ e[2] \in Char /\ e[3] \in Char /\ e[2] <= e[3]
             /\ \A c \in Int : e[2] <= c /\ c <= e[3] => c \in gaps(p)
  <2>1. PICK i \in Intervals(gaps(p)) : e = <<p, i[1], i[2], sink>>
    OBVIOUS
  <2> HIDE DEF gaps
  <2>2. /\ i[1] \in gaps(p) /\ i[2] \in gaps(p) /\ i[1] <= i[2]
        /\ \A c \in Int : i[1] <= c /\ c <= i[2] => c \in gaps(p)
    BY <1>4, Interval
  <2> QED BY <1>4, <2>1, <2>2
<1> HIDE DEF fill
<1>7. \A e \in new \ n.trans : e \in idle \/ \E p \in states : e \in fill(p)
  OBVIOUS
<1>8. \A e \in new : e \in (0..sink) \X Char \X Char \X (0..sink) /\ e[2] <= e[3]
  <2> SUFFICES ASSUME NEW e \in new
               PROVE  e \in (0..sink) \X Char \X Char \X (0..sink) /\ e[2] <= e[3]
    OBVIOUS
  <2>1. CASE e \in n.trans
    BY <1>2, <1>5, <2>1
  <2>2. CASE e \in idle
    BY <1>3, <1>5, <2>2
  <2>3. CASE \E p \in states : e \in fill(p)
    BY <1>5, <1>6, <2>3
  <2> QED BY <1>7, <2>1, <2>2, <2>3
<1>9. t.trans = new /\ t.q0 = n.q0 /\ t.acc = n.acc /\ t.det = n.det /\ t.word = {}
  BY <1>2
<1>10. t \in [word : SUBSET Seq(Char), q0 : 0..sink, acc : SUBSET (0..sink),
              trans : SUBSET ((0..sink) \X Char \X Char \X (0..sink)), det : BOOLEAN]
  BY <1>2, <1>5, <1>8
<1>11. n.trans \subseteq new
  OBVIOUS
<1>12. IsFiniteSet(new)
  <2>1. IsFiniteSet(0..sink)
    <3>1. 0 \in Int /\ sink \in Int
      OBVIOUS
    <3> QED BY <3>1, FS_Interval
  <2>2. new \in SUBSET ((0..sink) \X Char \X Char \X (0..sink))
    BY <1>8
  <2> HIDE DEF new
  <2> QED BY <2>1, <2>2, BoundedTransitions
<1>13. ASSUME NEW p \in 0..sink, NEW c \in Char
       PROVE  \E e \in new : e[1] = p /\ e[2] <= c /\ c <= e[3]
  <2>1. CASE p = sink
    <3>1. <<sink, 0, MaxChar, sink>> \in new
      OBVIOUS
    <3> HIDE DEF new
    <3> QED BY <1>3, <2>1, <3>1
  <2>2. CASE p \in states /\ c \in gaps(p)
    <3> HIDE DEF gaps
    <3>1. PICK i \in Intervals(gaps(p)) : i[1] <= c /\ c <= i[2]
      BY <1>4, <2>2, IntervalsCover
    <3>2. <<p, i[1], i[2], sink>> \in fill(p)
      BY DEF fill
    <3>3. <<p, i[1], i[2], sink>> \in new
      BY <2>2, <3>2
    <3> HIDE DEF new
    <3> QED BY <3>1, <3>3
  <2>3. CASE p \in states /\ c \notin gaps(p)
    <3>1. PICK q \in states : c \in LettersFrom(n, p, q)
      BY <2>3
    <3>2. IsAutomaton(n, states) /\ c \in Int
      BY <1>3 DEF states
    <3>3. \E e \in n.trans : e[1] = p /\ e[2] <= c /\ c <= e[3]
      BY <3>1, <3>2, LettersRead
    <3> QED BY <1>11, <3>3
  <2> QED BY <1>5, <2>1, <2>2, <2>3
<1>14. ASSUME NEW e \in new \ n.trans
       PROVE  /\ e[4] = sink
              /\ e[1] # sink => \A c \in Int : e[2] <= c /\ c <= e[3] =>
                   \A q \in states : c \notin LettersFrom(n, e[1], q)
  <2>1. CASE e \in idle
    BY <2>1
  <2>2. CASE \E p \in states : e \in fill(p)
    <3>1. PICK p \in states : e \in fill(p)
      BY <2>2
    <3>2. e = <<p, e[2], e[3], sink>> /\ \A c \in Int : e[2] <= c /\ c <= e[3] => c \in gaps(p)
      BY <1>6, <3>1
    <3>3. e[1] = p /\ e[4] = sink
      BY <3>2
    <3> QED BY <3>2, <3>3
  <2> QED BY <1>7, <2>1, <2>2
<1> HIDE DEF new, t
<1>15. IsAutomaton(t, 0..sink)
  BY <1>8, <1>9, <1>10, <1>12 DEF IsAutomaton
<1>16. ~ IsSingleton(t)
  BY <1>9 DEF IsSingleton
<1> QED BY <1>1, <1>9, <1>11, <1>13, <1>14, <1>15, <1>16 DEF states

-----------------------------------------------------------------------------
(* determinize                                                             *)

LEMMA StartsAreLetters ==
  ASSUME NEW Q, NEW m, IsAutomaton(m, Q)
  PROVE  StartPoints(m) \subseteq Char /\ IsFiniteSet(StartPoints(m)) /\ 0 \in StartPoints(m)
<1>1. \A t \in m.trans : /\ t[2] \in Char
                         /\ t[3] < MaxChar => t[3] + 1 \in Char
  <2> SUFFICES ASSUME NEW t \in m.trans
               PROVE  t[2] \in Char /\ (t[3] < MaxChar => t[3] + 1 \in Char)
    OBVIOUS
  <2>1. t[2] \in Char /\ t[3] \in Nat
    BY Transition
  <2> QED BY <2>1, CharAssumption DEF Char
<1>2. 0 \in Char
  BY CharAssumption DEF Char
<1>3. StartPoints(m) \subseteq Char /\ 0 \in StartPoints(m)
  BY <1>1, <1>2 DEF StartPoints
<1> QED BY <1>3, CharFinite, FS_Subset

(* A start point stands for letters up to the next start point.            *)
LEMMA StretchIsLetter ==
  ASSUME NEW points, NEW c \in Char
  PROVE  /\ Stretch(points, c) \in Char /\ c <= Stretch(points, c)
         /\ \A e \in points : e \in Int /\ c <= e /\ e <= Stretch(points, c) => e = c
<1> DEFINE Ok(d) == d = MaxChar \/ d + 1 \in points
           T == {d \in Nat : c <= d /\ d <= MaxChar /\ Ok(d)}
<1>1. c \in Nat /\ MaxChar \in Nat /\ c <= MaxChar
  BY CharAssumption DEF Char
<1>2. MaxChar \in T
  BY <1>1
<1>3. PICK d \in T : \A e \in T : d <= e
  <2> HIDE DEF T
  <2>1. T \subseteq Nat
    BY DEF T
  <2> QED BY <1>2, <2>1, LeastNumber
<1>4. d \in Nat /\ d \in c..MaxChar /\ Ok(d)
  BY <1>1, <1>3
<1>5. \A e \in c + 1..d : e \notin points
  <2> SUFFICES ASSUME NEW e \in c + 1..d, e \in points PROVE FALSE
    OBVIOUS
  <2>1. e - 1 \in Nat /\ c <= e - 1 /\ e - 1 <= MaxChar /\ (e - 1) + 1 = e /\ e - 1 < d
    BY <1>1, <1>4
  <2>2. (e - 1) + 1 \in points
    BY <2>1
  <2>3. e - 1 \in T
    BY <2>1, <2>2
  <2>4. d <= e - 1
    BY <1>3, <2>3
  <2> QED BY <1>4, <2>1, <2>4
<1> HIDE DEF T
<1>6. /\ Stretch(points, c) \in c..MaxChar
      /\ \A e \in c + 1..Stretch(points, c) : e \notin points
  BY <1>4, <1>5 DEF Stretch
<1>7. Stretch(points, c) \in Char /\ c <= Stretch(points, c)
  BY <1>1, <1>6 DEF Char
<1>8. ASSUME NEW e \in points, e \in Int, c <= e, e <= Stretch(points, c) PROVE e = c
  <2>1. e # c => e \in c + 1..Stretch(points, c)
    BY <1>1, <1>6, <1>8
  <2> QED BY <1>6, <1>8, <2>1
<1> QED BY <1>7, <1>8

LEMMA SubsetsOfEnds ==
  ASSUME NEW m, IsFiniteSet(m.trans), NEW points
  PROVE  /\ Subsets(m, points) \subseteq SUBSET Ends(m) /\ {m.q0} \in Subsets(m, points)
         /\ \A e \in Moves(m, points, Subsets(m, points)) : e[4] \in Subsets(m, points)
<1> DEFINE U == SUBSET Ends(m)
           to(S) == {e[4] : e \in Moves(m, points, S)}
           next == [S \in SUBSET U |-> to(S)]
           Grown(grow) == grow = [s \in SUBSET U |-> IF s \cup to(s) = s THEN s ELSE grow[s \cup to(s)]]
           r == CHOOSE grow : Grown(grow)
<1>1. Subsets(m, points) = r[{{m.q0}}]
  BY DEF Subsets, Closure
<1>2. \A s, c : Step(m, s, c) \in U
  BY DEF Step, Ends
<1>3. \A S : to(S) \in SUBSET U
  BY <1>2 DEF Moves
<1>4. \A S, T : S \subseteq T => to(S) \subseteq to(T)
  BY DEF Moves
<1> HIDE DEF to
<1>5. Monotone(U, next)
  BY <1>3, <1>4 DEF Monotone
<1>6. \A S \in SUBSET U : next[S] = to(S)
  OBVIOUS
<1> HIDE DEF next
<1>7. \A grow : Grown(grow) <=> Closes(grow, U, next)
  BY <1>6 DEF Closes
<1>8. Grown(r)
  <2>1. \E grow : Grown(grow)
    BY <1>5, <1>7, ClosesExists
  <2> QED BY <2>1
<1> HIDE DEF r, Grown
<1>9. IsFiniteSet(Ends(m)) /\ IsFiniteSet(U)
  BY Reachable, FS_SUBSET
<1>10. {{m.q0}} \in SUBSET U
  BY DEF Ends
<1> HIDE DEF U
<1>11. Closes(r, U, next)
  BY <1>7, <1>8
<1>12. IsLeastClosed(r[{{m.q0}}], {{m.q0}}, U, next)
  BY <1>5, <1>9, <1>10, <1>11, ClosesLeast
<1> DEFINE C == Subsets(m, points)
<1>13. C \in SUBSET U /\ {m.q0} \in C /\ next[C] \subseteq C
  <2>1. IsLeastClosed(C, {{m.q0}}, U, next)
    BY <1>1, <1>12
  <2> HIDE DEF C, next
  <2> QED BY <2>1 DEF IsLeastClosed
<1>14. \A e \in Moves(m, points, C) : e[4] \in C
  <2> HIDE DEF C
  <2>1. to(C) \subseteq C
    BY <1>6, <1>13
  <2> QED BY <2>1 DEF to
<1> QED BY <1>13, <1>14 DEF U

LEMMA PowerAutomatonIsOne ==
  ASSUME NEW Q, NEW m, IsAutomaton(m, Q)
  PROVE  LET p == PowerAutomaton(m, StartPoints(m))
         IN  IsAutomaton(p, SUBSET Ends(m)) /\ ~ IsSingleton(p) /\ p.det
<1> DEFINE points == StartPoints(m)
           S == Subsets(m, points)
           U == SUBSET Ends(m)
           T == Moves(m, points, S)
           p == PowerAutomaton(m, points)
<1>1. IsFiniteSet(m.trans)
  BY DEF IsAutomaton
<1>2. S \subseteq U /\ {m.q0} \in S
  BY <1>1, SubsetsOfEnds
<1>3. points \subseteq Char
  BY StartsAreLetters
<1>4. \A s, c : Step(m, s, c) \in U
  BY DEF Step, Ends
<1> HIDE DEF points, S, U
<1>5. \A e \in T : e \in U \X Char \X Char \X U /\ e[2] <= e[3]
  <2> SUFFICES ASSUME NEW s \in S, NEW c \in points
               PROVE  LET e == <<s, c, Stretch(points, c), Step(m, s, c)>>
                      IN  e \in U \X Char \X Char \X U /\ e[2] <= e[3]
    BY DEF Moves
  <2>1. c \in Char
    BY <1>3
  <2>2. Stretch(points, c) \in Char /\ c <= Stretch(points, c)
    BY <2>1, StretchIsLetter
  <2> QED BY <1>2, <1>4, <2>1, <2>2
<1> HIDE DEF T
<1>6. IsFiniteSet(U)
  BY <1>1, Reachable, FS_SUBSET DEF U
<1>7. IsFiniteSet(T)
  <2>1. T \in SUBSET (U \X Char \X Char \X U)
    BY <1>5
  <2> QED BY <1>6, <2>1, BoundedTransitions
<1>8. p = [word |-> {}, q0 |-> {m.q0}, acc |-> {s \in S : s \cap m.acc # {}},
           trans |-> T, det |-> TRUE]
  BY DEF PowerAutomaton, Explicit, S, T, points
<1> HIDE DEF p
<1>9. p \in [word : SUBSET Seq(Char), q0 : U, acc : SUBSET U,
             trans : SUBSET (U \X Char \X Char \X U), det : BOOLEAN]
  BY <1>2, <1>5, <1>8
<1>10. p.trans = T /\ p.word = {} /\ p.det
  BY <1>8
<1>11. IsAutomaton(p, U)
  BY <1>5, <1>7, <1>9, <1>10 DEF IsAutomaton
<1> QED BY <1>10, <1>11 DEF IsSingleton, U, p, points

LEMMA Widened ==
  ASSUME NEW Q, NEW R, Q \subseteq R, NEW m, IsAutomaton(m, Q)
  PROVE  IsAutomaton(m, R)
BY DEF IsAutomaton

LEMMA Determinized ==
  ASSUME NEW d, IsAutomaton(d, Nat), ~ IsSingleton(d)
  PROVE  /\ IsAutomaton(Determinize(d), Nat) /\ ~ IsSingleton(Determinize(d))
         /\ d.det => Determinize(d) = d
         /\ ~ d.det => \E Q, m, number :
              /\ IsAutomaton(m, Q) /\ Merged(m) /\ IsNumbering(number, m)
              /\ Determinize(d) = Rename(m, number)
<1>1. CASE d.det
  <2>1. Determinize(d) = d
    BY <1>1 DEF Determinize
  <2> QED BY <1>1, <2>1
<1>2. CASE ~ d.det
  <2> DEFINE U == SUBSET Ends(d)
             p == PowerAutomaton(d, StartPoints(d))
             m == RemoveDeadTransitions(p)
  <2>1. Determinize(d) = Numbered(m)
    BY <1>2 DEF Determinize
  <2>2. IsAutomaton(p, U) /\ ~ IsSingleton(p)
    BY PowerAutomatonIsOne
  <2> HIDE DEF p
  <2>3. IsAutomaton(m, U) /\ Merged(m)
    BY <2>2, DeadRemoved
  <2> HIDE DEF m, U
  <2>4. PICK number : /\ IsNumbering(number, m)
                      /\ Numbered(m) = Rename(m, number)
                      /\ IsAutomaton(Numbered(m), 0..Cardinality(GetStates(m)) - 1)
    BY <2>3, NumberedAutomaton
  <2>5. 0..Cardinality(GetStates(m)) - 1 \subseteq Nat
    <3>1. \A z : z \in 0..Cardinality(GetStates(m)) - 1 => z \in Nat
      <4>1. IsFiniteSet(GetStates(m))
        BY <2>3, Reachable DEF IsAutomaton
      <4>2. Cardinality(GetStates(m)) \in Nat
        BY <4>1, FS_CardinalityType
      <4> QED BY <4>2
    <3> QED BY <3>1
  <2>6. IsAutomaton(Determinize(d), Nat)
    BY <2>1, <2>4, <2>5, Widened
  <2>7. ~ IsSingleton(Determinize(d))
    BY <2>1, <2>4 DEF Rename, Explicit, IsSingleton
  <2> QED BY <1>2, <2>1, <2>3, <2>4, <2>6, <2>7
<1> QED BY <1>1, <1>2

-----------------------------------------------------------------------------
(* The flag `deterministic'                                                *)

(* No state goes to two states by the same letter, said of letters.        *)
LEMMA DeterministicLetters ==
  ASSUME NEW Q, NEW m, IsAutomaton(m, Q)
  PROVE  IsDeterministic(m)
           <=> \A p, q, r : \A c \in Int :
                 c \in LettersFrom(m, p, q) /\ c \in LettersFrom(m, p, r) => q = r
<1>1. \A p, q : \A c \in Int : c \in LettersFrom(m, p, q)
        <=> \E t \in m.trans : t[1] = p /\ t[4] = q /\ t[2] <= c /\ c <= t[3]
  BY LettersRead
<1>2. \A t \in m.trans : t[2] \in Int /\ t[3] \in Int /\ t[2] <= t[3]
  BY Transition
<1>3. ASSUME IsDeterministic(m), NEW p, NEW q, NEW r, NEW c \in Int,
             c \in LettersFrom(m, p, q), c \in LettersFrom(m, p, r)
      PROVE  q = r
  <2>1. PICK t \in m.trans : t[1] = p /\ t[4] = q /\ t[2] <= c /\ c <= t[3]
    BY <1>1, <1>3
  <2>2. PICK u \in m.trans : u[1] = p /\ u[4] = r /\ u[2] <= c /\ c <= u[3]
    BY <1>1, <1>3
  <2>3. t[2] <= u[3] /\ u[2] <= t[3]
    BY <1>2, <2>1, <2>2
  <2> QED BY <1>3, <2>1, <2>2, <2>3 DEF IsDeterministic
<1>4. ASSUME \A p, q, r : \A c \in Int :
               c \in LettersFrom(m, p, q) /\ c \in LettersFrom(m, p, r) => q = r,
             NEW t \in m.trans, NEW u \in m.trans,
             t[1] = u[1], t[2] <= u[3], u[2] <= t[3]
      PROVE  t[4] = u[4]
  <2> DEFINE c == IF t[2] <= u[2] THEN u[2] ELSE t[2]
  <2>1. c \in Int /\ t[2] <= c /\ c <= t[3] /\ u[2] <= c /\ c <= u[3]
    BY <1>2, <1>4
  <2> HIDE DEF c
  <2>2. c \in LettersFrom(m, t[1], t[4]) /\ c \in LettersFrom(m, t[1], u[4])
    BY <1>1, <1>4, <2>1
  <2> QED BY <1>4, <2>1, <2>2
<1> QED BY <1>3, <1>4 DEF IsDeterministic

(* It survives when letters are taken away,                                *)
LEMMA FewerLetters ==
  ASSUME NEW Q, NEW m, IsAutomaton(m, Q), IsDeterministic(m),
         NEW n, IsAutomaton(n, Q),
         \A p, q : LettersFrom(n, p, q) \subseteq LettersFrom(m, p, q)
  PROVE  IsDeterministic(n)
BY DeterministicLetters

(* a change of names,                                                      *)
LEMMA NamesChanged ==
  ASSUME NEW Q, NEW m, IsAutomaton(m, Q)
  PROVE  /\ IsAutomaton(Numbered(m), Nat) /\ ~ IsSingleton(Numbered(m))
         /\ Numbered(m).det = m.det
         /\ IsDeterministic(m) => IsDeterministic(Numbered(m))
<1> DEFINE n == Numbered(m)
<1>1. PICK number : /\ IsNumbering(number, m) /\ n = Rename(m, number)
                    /\ IsAutomaton(n, 0..Cardinality(GetStates(m)) - 1)
  BY NumberedAutomaton
<1>2. IsAutomaton(n, Nat)
  <2>1. IsFiniteSet(GetStates(m))
    BY Reachable DEF IsAutomaton
  <2>2. Cardinality(GetStates(m)) \in Nat
    BY <2>1, FS_CardinalityType
  <2>3. 0..Cardinality(GetStates(m)) - 1 \subseteq Nat
    BY <2>2
  <2> HIDE DEF n
  <2> QED BY <1>1, <2>3, Widened
<1>3. n.det = m.det /\ n.word = {}
  BY <1>1 DEF Rename, Explicit
<1>4. ASSUME IsDeterministic(m), NEW t \in n.trans, NEW u \in n.trans,
             t[1] = u[1], t[2] <= u[3], u[2] <= t[3]
      PROVE  t[4] = u[4]
  <2>1. \A v \in n.trans : \E w \in m.trans :
          /\ w[1] \in GetStates(m) /\ w[4] \in GetStates(m)
          /\ v = <<number[w[1]], w[2], w[3], number[w[4]]>>
    BY <1>1, Unnumbered
  <2> HIDE DEF n
  <2>2. PICK v \in m.trans : /\ v[1] \in GetStates(m) /\ v[4] \in GetStates(m)
                             /\ t = <<number[v[1]], v[2], v[3], number[v[4]]>>
    BY <1>4, <2>1
  <2>3. PICK w \in m.trans : /\ w[1] \in GetStates(m) /\ w[4] \in GetStates(m)
                             /\ u = <<number[w[1]], w[2], w[3], number[w[4]]>>
    BY <1>4, <2>1
  <2>4. number[v[1]] = number[w[1]] /\ v[2] <= w[3] /\ w[2] <= v[3]
    BY <1>4, <2>2, <2>3
  <2>5. v[1] = w[1]
    BY <1>1, <2>2, <2>3, <2>4 DEF IsNumbering
  <2>6. v[4] = w[4]
    BY <1>4, <2>4, <2>5 DEF IsDeterministic
  <2> QED BY <2>2, <2>3, <2>6
<1> QED BY <1>2, <1>3, <1>4 DEF IsDeterministic, IsSingleton

(* and the removal of dead transitions.                                    *)
LEMMA Trimmed ==
  ASSUME NEW Q, NEW m, IsAutomaton(m, Q), ~ IsSingleton(m)
  PROVE  LET n == Numbered(RemoveDeadTransitions(m))
         IN  /\ IsAutomaton(n, Nat) /\ ~ IsSingleton(n) /\ NoneDead(n)
             /\ n.det = m.det
             /\ IsDeterministic(m) => IsDeterministic(n)
<1> DEFINE r == RemoveDeadTransitions(m)
<1>1. /\ IsAutomaton(r, Q) /\ r.det = m.det /\ NoneDead(r)
      /\ \A p, q : LettersFrom(r, p, q) \subseteq LettersFrom(m, p, q)
  BY DeadRemoved, DeadAreRemoved
<1> HIDE DEF r
<1>2. IsDeterministic(m) => IsDeterministic(r)
  BY <1>1, FewerLetters
<1>3. /\ IsAutomaton(Numbered(r), Nat) /\ ~ IsSingleton(Numbered(r))
      /\ Numbered(r).det = r.det
      /\ IsDeterministic(r) => IsDeterministic(Numbered(r))
  BY <1>1, NamesChanged
<1>4. NoneDead(Numbered(r))
  BY <1>1, NumberedNoneDead
<1> QED BY <1>1, <1>2, <1>3, <1>4 DEF r

(* The transitions that determinize makes do not overlap.                  *)
LEMMA PowerIsDeterministic ==
  ASSUME NEW Q, NEW m, IsAutomaton(m, Q)
  PROVE  IsDeterministic(PowerAutomaton(m, StartPoints(m)))
<1> DEFINE points == StartPoints(m)
           S == Subsets(m, points)
           p == PowerAutomaton(m, points)
<1>1. points \subseteq Char
  BY StartsAreLetters
<1>2. \A c \in points : c \in Char /\ c \in Int
  BY <1>1, CharAssumption DEF Char
<1>3. p.trans = Moves(m, points, S)
  BY DEF PowerAutomaton, Explicit
<1> HIDE DEF points, S, p
<1>4. ASSUME NEW t \in p.trans, NEW u \in p.trans, t[1] = u[1], t[2] <= u[3], u[2] <= t[3]
      PROVE  t[4] = u[4]
  <2>1. PICK s \in S, c \in points : t = <<s, c, Stretch(points, c), Step(m, s, c)>>
    BY <1>3 DEF Moves
  <2>2. PICK r \in S, e \in points : u = <<r, e, Stretch(points, e), Step(m, r, e)>>
    BY <1>3 DEF Moves
  <2>3. s = r /\ c <= Stretch(points, e) /\ e <= Stretch(points, c)
    BY <1>4, <2>1, <2>2
  <2>4. c <= e \/ e <= c
    BY <1>2
  <2>5. c \in Char /\ e \in Char
    BY <1>2
  <2>6. /\ \A g \in points : g \in Int /\ c <= g /\ g <= Stretch(points, c) => g = c
        /\ \A g \in points : g \in Int /\ e <= g /\ g <= Stretch(points, e) => g = e
    BY <2>5, StretchIsLetter
  <2>7. c = e
    BY <1>2, <2>3, <2>4, <2>6
  <2> QED BY <2>1, <2>2, <2>3, <2>7
<1> QED BY <1>4 DEF IsDeterministic, p, points

(* An automaton of states with numbers whose flag does not lie, and one as *)
(* the operations leave it: without transitions to dead states.            *)
Sound(m) == IsAutomaton(m, Nat) /\ IsHonest(m)

Tidy(m) == Sound(m) /\ NoneDead(m)

LEMMA DeterminizeSound ==
  ASSUME NEW m, Sound(m)
  PROVE  /\ Sound(Determinize(m)) /\ Determinize(m).det
         /\ ~ IsSingleton(m) => ~ IsSingleton(Determinize(m))
         /\ Tidy(m) => Tidy(Determinize(m))
<1>1. CASE m.det \/ IsSingleton(m)
  <2>1. Determinize(m) = m
    BY <1>1 DEF Determinize
  <2>2. m.det
    BY <1>1 DEF Sound, IsAutomaton, IsSingleton
  <2> QED BY <2>1, <2>2
<1>2. CASE ~ m.det /\ ~ IsSingleton(m)
  <2> DEFINE p == PowerAutomaton(m, StartPoints(m))
             n == Numbered(RemoveDeadTransitions(p))
  <2>1. Determinize(m) = n
    BY <1>2 DEF Determinize
  <2>2. IsAutomaton(p, SUBSET Ends(m)) /\ ~ IsSingleton(p) /\ p.det
    BY PowerAutomatonIsOne DEF Sound
  <2>3. IsDeterministic(p)
    BY PowerIsDeterministic DEF Sound
  <2> HIDE DEF p
  <2>4. /\ IsAutomaton(n, Nat) /\ ~ IsSingleton(n) /\ n.det = p.det /\ IsDeterministic(n)
        /\ NoneDead(n)
    BY <2>2, <2>3, Trimmed
  <2> HIDE DEF n
  <2> QED BY <2>1, <2>2, <2>4 DEF Sound, Tidy, IsHonest
<1> QED BY <1>1, <1>2

(* totalize                                                                *)
LEMMA TotalizeSound ==
  ASSUME NEW m, Sound(m), ~ IsSingleton(m)
  PROVE  Sound(Totalize(m)) /\ ~ IsSingleton(Totalize(m)) /\ Totalize(m).det = m.det
<1> DEFINE sink == Cardinality(GetStates(m))
           n == Numbered(m)
           t == WithSink(n, sink)
<1>1. Totalize(m) = t
  BY DEF Totalize
<1>2. IsAutomaton(m, Nat) /\ IsFiniteSet(m.trans)
  BY DEF Sound, IsAutomaton
<1>3. IsFiniteSet(GetStates(m)) /\ m.q0 \in GetStates(m)
  BY <1>2, Reachable
<1>4. sink \in Nat \ {0}
  BY <1>3, FS_CardinalityType, FS_EmptySet
<1>5. IsAutomaton(n, 0..sink - 1)
  BY <1>2, NumberedAutomaton
<1>6. n.det = m.det /\ ~ IsSingleton(n) /\ (m.det => IsDeterministic(n))
  BY <1>2, NamesChanged DEF Sound, IsHonest
<1> HIDE DEF sink, n
<1>7. /\ IsAutomaton(t, 0..sink) /\ ~ IsSingleton(t)
      /\ t.det = n.det
      /\ n.trans \subseteq t.trans
      /\ \A e \in t.trans \ n.trans :
           /\ e[4] = sink
           /\ e[1] # sink => \A c \in Int : e[2] <= c /\ c <= e[3] =>
                \A q \in 0..sink - 1 : c \notin LettersFrom(n, e[1], q)
  BY <1>4, <1>5, <1>6, Total
<1> HIDE DEF t
<1>8. IsAutomaton(t, Nat)
  <2>1. 0..sink \subseteq Nat
    BY <1>4
  <2> QED BY <1>7, <2>1, Widened
<1>9. ASSUME m.det, NEW e \in n.trans, NEW u \in t.trans \ n.trans,
             e[1] = u[1], e[2] <= u[3], u[2] <= e[3]
      PROVE  FALSE
  <2>1. /\ e[1] \in 0..sink - 1 /\ e[4] \in 0..sink - 1
        /\ e[2] \in Int /\ e[3] \in Int /\ e[2] <= e[3]
    <3>1. /\ e[1] \in 0..sink - 1 /\ e[4] \in 0..sink - 1
          /\ e[2] \in Nat /\ e[3] \in Nat /\ e[2] <= e[3]
      BY <1>5, Transition
    <3> QED BY <3>1
  <2>2. u[2] \in Int /\ u[3] \in Int /\ u[2] <= u[3]
    BY <1>7, Transition
  <2> DEFINE c == IF e[2] <= u[2] THEN u[2] ELSE e[2]
  <2>3. c \in Int /\ e[2] <= c /\ c <= e[3] /\ u[2] <= c /\ c <= u[3]
    BY <1>9, <2>1, <2>2
  <2> HIDE DEF c
  <2>4. c \in LettersFrom(n, e[1], e[4])
    BY <1>5, <2>3, LettersRead
  <2>5. u[1] # sink
    BY <1>4, <1>9, <2>1
  <2>6. c \notin LettersFrom(n, u[1], e[4])
    BY <1>7, <2>1, <2>3, <2>5
  <2> QED BY <1>9, <2>4, <2>6
<1>10. ASSUME m.det, NEW e \in t.trans, NEW u \in t.trans,
              e[1] = u[1], e[2] <= u[3], u[2] <= e[3]
       PROVE  e[4] = u[4]
  <2>1. CASE e \in n.trans /\ u \in n.trans
    BY <1>6, <1>10, <2>1 DEF IsDeterministic
  <2>2. CASE e \in n.trans /\ u \notin n.trans
    BY <1>9, <1>10, <2>2
  <2>3. CASE e \notin n.trans /\ u \in n.trans
    BY <1>9, <1>10, <2>3
  <2>4. CASE e \notin n.trans /\ u \notin n.trans
    BY <1>7, <1>10, <2>4
  <2> QED BY <2>1, <2>2, <2>3, <2>4
<1>11. m.det => IsDeterministic(t)
  BY <1>10 DEF IsDeterministic
<1> QED BY <1>1, <1>6, <1>7, <1>8, <1>11 DEF Sound, IsHonest

(* The parts of an automaton.                                              *)
LEMMA Parts ==
  ASSUME NEW Q, NEW m, IsAutomaton(m, Q)
  PROVE  /\ m.q0 \in Q /\ m.acc \subseteq Q /\ m.det \in BOOLEAN
         /\ m.trans \subseteq Q \X Char \X Char \X Q /\ IsFiniteSet(m.trans)
         /\ \A t \in m.trans : t[2] <= t[3]
         /\ IsFiniteSet(GetStates(m)) /\ GetStates(m) \subseteq Q
<1>1. /\ m.q0 \in Q /\ m.acc \subseteq Q /\ m.det \in BOOLEAN
      /\ m.trans \subseteq Q \X Char \X Char \X Q /\ IsFiniteSet(m.trans)
      /\ \A t \in m.trans : t[2] <= t[3]
  BY DEF IsAutomaton
<1>2. Ends(m) \subseteq Q
  BY <1>1 DEF Ends
<1>3. IsFiniteSet(GetStates(m)) /\ GetStates(m) \subseteq Ends(m)
  BY <1>1, Reachable
<1> QED BY <1>1, <1>2, <1>3

LEMMA Made ==
  ASSUME NEW Q, NEW q0 \in Q, NEW acc \in SUBSET Q,
         NEW trans \in SUBSET (Q \X Char \X Char \X Q), IsFiniteSet(trans),
         \A t \in trans : t[2] <= t[3],
         NEW det \in BOOLEAN
  PROVE  LET m == Explicit(q0, acc, trans, det)
         IN  /\ IsAutomaton(m, Q) /\ ~ IsSingleton(m)
             /\ m.q0 = q0 /\ m.acc = acc /\ m.trans = trans /\ m.det = det
<1> DEFINE m == Explicit(q0, acc, trans, det)
<1>1. /\ m.q0 = q0 /\ m.acc = acc /\ m.trans = trans /\ m.det = det /\ m.word = {}
      /\ m \in [word : SUBSET Seq(Char), q0 : Q, acc : SUBSET Q,
                trans : SUBSET (Q \X Char \X Char \X Q), det : BOOLEAN]
  BY DEF Explicit
<1> HIDE DEF m
<1>2. IsAutomaton(m, Q) /\ ~ IsSingleton(m)
  BY <1>1 DEF IsAutomaton, IsSingleton
<1> QED BY <1>1, <1>2 DEF m

(* Setting parts of an automaton.                                          *)
LEMMA Changed ==
  ASSUME NEW Q, NEW m, IsAutomaton(m, Q), ~ IsSingleton(m)
  PROVE  /\ m = Explicit(m.q0, m.acc, m.trans, m.det)
         /\ \A x : /\ [m EXCEPT !.det = x] = Explicit(m.q0, m.acc, m.trans, x)
                   /\ [m EXCEPT !.acc = x] = Explicit(m.q0, x, m.trans, m.det)
                   /\ [m EXCEPT !.q0 = x] = Explicit(x, m.acc, m.trans, m.det)
<1>1. /\ m \in [word : SUBSET Seq(Char), q0 : Q, acc : SUBSET Q,
                trans : SUBSET (Q \X Char \X Char \X Q), det : BOOLEAN]
      /\ m.word = {}
  BY DEF IsAutomaton, IsSingleton
<1>2. m = [word |-> {}, q0 |-> m.q0, acc |-> m.acc, trans |-> m.trans, det |-> m.det]
  BY <1>1
<1>3. ASSUME NEW x
      PROVE  [m EXCEPT !.det = x]
               = [word |-> {}, q0 |-> m.q0, acc |-> m.acc, trans |-> m.trans, det |-> x]
  BY <1>2
<1>4. ASSUME NEW x
      PROVE  [m EXCEPT !.acc = x]
               = [word |-> {}, q0 |-> m.q0, acc |-> x, trans |-> m.trans, det |-> m.det]
  BY <1>2
<1>5. ASSUME NEW x
      PROVE  [m EXCEPT !.q0 = x]
               = [word |-> {}, q0 |-> x, acc |-> m.acc, trans |-> m.trans, det |-> m.det]
  BY <1>2
<1> QED BY <1>2, <1>3, <1>4, <1>5 DEF Explicit

(* expandSingleton                                                         *)
LEMMA Expanded ==
  ASSUME NEW m, Sound(m)
  PROVE  LET e == ExpandSingleton(m)
         IN  /\ Sound(e) /\ ~ IsSingleton(e)
             /\ NoneDead(m) => NoneDead(e)
             /\ IsEmpty(e) => IsEmpty(m)
             /\ ~ IsSingleton(m) => e = m
             /\ IsSingleton(m) =>
                  \E w \in Seq(Char) :
                    e = Explicit(0, {Len(w)}, {<<i - 1, w[i], w[i], i>> : i \in 1..Len(w)}, TRUE)
<1> DEFINE e == ExpandSingleton(m)
<1>1. CASE ~ IsSingleton(m)
  <2>1. e = m
    BY <1>1 DEF ExpandSingleton
  <2> HIDE DEF e
  <2>2. Sound(e) /\ ~ IsSingleton(e)
    BY <1>1, <2>1
  <2> QED BY <1>1, <2>1, <2>2 DEF e
<1>2. CASE IsSingleton(m)
  <2> DEFINE w == CHOOSE v \in m.word : TRUE
             T == {<<i - 1, w[i], w[i], i>> : i \in 1..Len(w)}
  <2>1. w \in Seq(Char)
    BY <1>2 DEF IsSingleton, Sound, IsAutomaton
  <2>2. e = Explicit(0, {Len(w)}, T, TRUE)
    BY <1>2 DEF ExpandSingleton
  <2> HIDE DEF w, e
  <2>3. Len(w) \in Nat /\ 0 \in Nat /\ {Len(w)} \in SUBSET Nat
    BY <2>1
  <2>4. \A i \in 1..Len(w) : w[i] \in Char /\ w[i] <= w[i] /\ i - 1 \in Nat /\ i \in Nat
    <3> TAKE i \in 1..Len(w)
    <3>1. w[i] \in Char
      BY <2>1
    <3>2. w[i] \in Int
      BY <3>1, CharAssumption DEF Char
    <3> QED BY <2>3, <3>1, <3>2
  <2>5. T \in SUBSET (Nat \X Char \X Char \X Nat) /\ \A t \in T : t[2] <= t[3]
    BY <2>4
  <2>6. IsFiniteSet(T)
    <3> DEFINE f == [i \in 1..Len(w) |-> <<i - 1, w[i], w[i], i>>]
    <3>1. IsFiniteSet(1..Len(w))
      <4>1. 1 \in Int /\ Len(w) \in Int
        BY <2>3
      <4> QED BY <4>1, FS_Interval
    <3>2. f \in [1..Len(w) -> T]
      OBVIOUS
    <3>3. IsFiniteSet({f[i] : i \in 1..Len(w)})
      <4> HIDE DEF f, T
      <4> QED BY <3>1, <3>2, FiniteImage
    <3> QED BY <3>3
  <2>7. \A t, u \in T : t[1] = u[1] => t[4] = u[4]
    <3> SUFFICES ASSUME NEW i \in 1..Len(w), NEW j \in 1..Len(w), i - 1 = j - 1 PROVE i = j
      OBVIOUS
    <3> QED BY <2>3
  <2> HIDE DEF T
  <2>8. /\ e \in [word : SUBSET Seq(Char), q0 : Nat, acc : SUBSET Nat,
                  trans : SUBSET (Nat \X Char \X Char \X Nat), det : BOOLEAN]
        /\ e.trans = T /\ e.word = {}
    BY <2>2, <2>3, <2>5 DEF Explicit
  <2>9. IsAutomaton(e, Nat) /\ ~ IsSingleton(e)
    BY <2>5, <2>6, <2>8 DEF IsAutomaton, IsSingleton
  <2>10. IsDeterministic(e)
    BY <2>7, <2>8 DEF IsDeterministic
  <2>11. e.q0 = 0 /\ e.acc = {Len(w)}
    BY <2>2 DEF Explicit
  <2>12. \A i \in 1..Len(w) : \E t \in e.trans : t[1] = i - 1 /\ t[4] = i
    <3> SUFFICES ASSUME NEW i \in 1..Len(w) PROVE \E t \in e.trans : t[1] = i - 1 /\ t[4] = i
      OBVIOUS
    <3> DEFINE t == <<i - 1, w[i], w[i], i>>
    <3>1. t \in e.trans
      BY <2>8 DEF T
    <3>2. t[1] = i - 1 /\ t[4] = i
      OBVIOUS
    <3> QED BY <3>1, <3>2
  <2>13. NoneDead(e)
    <3> DEFINE n == Len(w)
               D == {i \in 0..n : n - i \in Productive(e)}
    <3>1. n \in Nat /\ 0 \in D
      BY <2>3, <2>11, ProductiveLeast
    <3>2. ASSUME NEW i \in 0..n - 1, i \in D PROVE i + 1 \in D
      <4>1. n - i \in 1..n /\ (n - i) - 1 = n - (i + 1) /\ i + 1 \in 0..n
        BY <3>1
      <4>2. n - i \in Productive(e)
        BY <3>2
      <4>3. (n - i) - 1 \in Productive(e)
        BY <2>12, <4>1, <4>2, ProductiveLeast
      <4> QED BY <4>1, <4>3
    <3> HIDE DEF D, n
    <3>3. 0..n \subseteq D
      BY <3>1, <3>2, IntervalInduction
    <3>4. \A i \in 1..n : i \in Productive(e)
      <4> SUFFICES ASSUME NEW i \in 1..n PROVE i \in Productive(e)
        OBVIOUS
      <4>1. n - i \in 0..n /\ n - (n - i) = i
        BY <3>1
      <4>2. n - (n - i) \in Productive(e)
        BY <3>3, <4>1 DEF D
      <4> QED BY <4>1, <4>2
    <3>5. \A t \in e.trans : t[4] \in 1..n
      BY <2>8 DEF T, n
    <3> QED BY <3>4, <3>5 DEF NoneDead
  <2>14. ~ IsEmpty(e)
    <3>1. CASE Len(w) = 0
      BY <2>11, <3>1 DEF IsEmpty
    <3>2. CASE Len(w) # 0
      <4>1. 1 \in 1..Len(w) /\ 1 - 1 = 0
        BY <2>3, <3>2
      <4> QED BY <2>11, <2>12, <4>1 DEF IsEmpty
    <3> QED BY <3>1, <3>2
  <2> QED BY <1>2, <2>1, <2>2, <2>9, <2>10, <2>13, <2>14 DEF T, e, Sound, IsHonest
<1> QED BY <1>1, <1>2

LEMMA EmptyIsTidy ==
  /\ Tidy(MakeEmpty) /\ ~ IsSingleton(MakeEmpty)
  /\ \A w \in Seq(Char) : Tidy(Singleton(w))
  /\ Tidy(MakeEmptyString)
<1>1. Tidy(MakeEmpty) /\ ~ IsSingleton(MakeEmpty)
  <2>1. /\ MakeEmpty \in [word : SUBSET Seq(Char), q0 : Nat, acc : SUBSET Nat,
                          trans : SUBSET (Nat \X Char \X Char \X Nat), det : BOOLEAN]
        /\ MakeEmpty.trans = {} /\ MakeEmpty.word = {}
    BY DEF MakeEmpty, Explicit
  <2>2. IsAutomaton(MakeEmpty, Nat) /\ ~ IsSingleton(MakeEmpty) /\ MakeEmpty.trans = {}
    BY <2>1, FS_EmptySet DEF IsAutomaton, IsSingleton
  <2> QED BY <2>2 DEF Tidy, NoneDead, Sound, IsHonest, IsDeterministic
<1>2. ASSUME NEW w \in Seq(Char) PROVE Tidy(Singleton(w))
  <2>1. /\ Singleton(w) \in [word : SUBSET Seq(Char), q0 : Nat, acc : SUBSET Nat,
                             trans : SUBSET (Nat \X Char \X Char \X Nat), det : BOOLEAN]
        /\ Singleton(w).word = {w} /\ Singleton(w).trans = {} /\ Singleton(w).det
    BY DEF Singleton
  <2>2. IsFiniteSet(Singleton(w).trans)
    BY <2>1, FS_EmptySet
  <2>3. IsAutomaton(Singleton(w), Nat)
    BY <2>1, <2>2 DEF IsAutomaton
  <2> QED BY <2>1, <2>3 DEF Tidy, NoneDead, Sound, IsHonest, IsDeterministic
<1>3. <<>> \in Seq(Char)
  OBVIOUS
<1> QED BY <1>1, <1>2, <1>3 DEF MakeEmptyString

(* complement                                                              *)
LEMMA ComplementTidy ==
  ASSUME NEW m, Sound(m)
  PROVE  Tidy(Complement(m))
<1> DEFINE e == ExpandSingleton(m)
           d == Determinize(e)
           t == Totalize(d)
           f == Flip(t)
           n == Numbered(RemoveDeadTransitions(f))
<1>1. Complement(m) = n
  BY DEF Complement
<1>2. Sound(e) /\ ~ IsSingleton(e)
  BY Expanded
<1> HIDE DEF e
<1>3. Sound(d) /\ ~ IsSingleton(d)
  BY <1>2, DeterminizeSound
<1> HIDE DEF d
<1>4. Sound(t) /\ ~ IsSingleton(t)
  BY <1>3, TotalizeSound
<1> HIDE DEF t
<1>5. /\ f = Explicit(t.q0, GetStates(t) \ t.acc, t.trans, t.det)
      /\ IsAutomaton(t, Nat)
  <2>1. IsAutomaton(t, Nat)
    BY <1>4 DEF Sound
  <2>2. f = [t EXCEPT !.acc = GetStates(t) \ t.acc]
    BY DEF Flip
  <2> HIDE DEF f
  <2> QED BY <1>4, <2>1, <2>2, Changed
<1>6. IsAutomaton(f, Nat) /\ ~ IsSingleton(f) /\ f.trans = t.trans /\ f.det = t.det
  <2>1. /\ t.q0 \in Nat /\ t.acc \subseteq Nat /\ t.det \in BOOLEAN
        /\ t.trans \subseteq Nat \X Char \X Char \X Nat /\ IsFiniteSet(t.trans)
        /\ \A u \in t.trans : u[2] <= u[3]
        /\ GetStates(t) \subseteq Nat
    BY <1>5, Parts
  <2>2. GetStates(t) \ t.acc \in SUBSET Nat
    BY <2>1
  <2> HIDE DEF f
  <2> QED BY <1>5, <2>1, <2>2, Made
<1> HIDE DEF f
<1>7. f.det => IsDeterministic(f)
  BY <1>4, <1>6 DEF Sound, IsHonest, IsDeterministic
<1>8. /\ IsAutomaton(n, Nat) /\ n.det = f.det /\ (IsDeterministic(f) => IsDeterministic(n))
      /\ NoneDead(n)
  BY <1>6, Trimmed
<1> QED BY <1>1, <1>7, <1>8 DEF Sound, Tidy, IsHonest

(* intersection                                                            *)
LEMMA ProductIsOne ==
  ASSUME NEW m1, Sound(m1), NEW m2, Sound(m2)
  PROVE  LET p == ProductOver(m1, m2, Pairs(m1, m2))
         IN  IsAutomaton(p, Nat \X Nat) /\ ~ IsSingleton(p) /\ IsHonest(p)
<1> DEFINE S == Pairs(m1, m2)
           Q == Nat \X Nat
           T == JointMoves(m1, m2, S)
           p == ProductOver(m1, m2, S)
<1>2. /\ m1.q0 \in Nat /\ m2.q0 \in Nat /\ m1.acc \subseteq Nat /\ m2.acc \subseteq Nat
      /\ IsFiniteSet(m1.trans) /\ IsFiniteSet(m2.trans)
      /\ IsAutomaton(m1, Nat) /\ IsAutomaton(m2, Nat)
      /\ m1.det \in BOOLEAN /\ m2.det \in BOOLEAN
  BY Parts DEF Sound
<1> HIDE DEF S
<1>3. \A t \in m1.trans : /\ t[1] \in Nat /\ t[4] \in Nat /\ t[2] \in Char /\ t[3] \in Char
                          /\ t[2] \in Int /\ t[3] \in Int /\ t[2] <= t[3]
  BY <1>2, Transition
<1>4. \A t \in m2.trans : /\ t[1] \in Nat /\ t[4] \in Nat /\ t[2] \in Char /\ t[3] \in Char
                          /\ t[2] \in Int /\ t[3] \in Int /\ t[2] <= t[3]
  BY <1>2, Transition
<1>5. ASSUME NEW x \in T
      PROVE  \E t \in m1.trans, u \in m2.trans :
               /\ x[1] = <<t[1], u[1]>> /\ x[4] = <<t[4], u[4]>>
               /\ x \in Q \X Char \X Char \X Q
               /\ t[2] <= x[2] /\ u[2] <= x[2] /\ x[3] <= t[3] /\ x[3] <= u[3]
               /\ x[2] <= x[3] /\ x[2] \in Int /\ x[3] \in Int
               /\ x = Common(t, u)
  <2>1. PICK t \in m1.trans, u \in m2.trans : x = Common(t, u) /\ Meet(t, u)
    BY <1>5 DEF JointMoves
  <2> DEFINE lo == IF t[2] > u[2] THEN t[2] ELSE u[2]
             hi == IF t[3] < u[3] THEN t[3] ELSE u[3]
  <2>2. x = <<<<t[1], u[1]>>, lo, hi, <<t[4], u[4]>>>>
    BY <2>1 DEF Common
  <2>3. lo \in Char /\ hi \in Char /\ lo \in Int /\ hi \in Int
    BY <1>3, <1>4
  <2>4. t[2] <= u[3] /\ u[2] <= t[3]
    BY <2>1 DEF Meet
  <2>5. t[2] <= lo /\ u[2] <= lo /\ hi <= t[3] /\ hi <= u[3] /\ lo <= hi
    <3>1. /\ t[2] \in Int /\ t[3] \in Int /\ t[2] <= t[3]
          /\ u[2] \in Int /\ u[3] \in Int /\ u[2] <= u[3]
      BY <1>3, <1>4
    <3> QED BY <2>4, <3>1
  <2> HIDE DEF lo, hi
  <2>6. <<t[1], u[1]>> \in Q /\ <<t[4], u[4]>> \in Q
    BY <1>3, <1>4
  <2> HIDE DEF Q
  <2>7. x[1] = <<t[1], u[1]>> /\ x[2] = lo /\ x[3] = hi /\ x[4] = <<t[4], u[4]>>
    BY <2>2
  <2>8. x \in Q \X Char \X Char \X Q
    BY <2>2, <2>3, <2>6
  <2>9. /\ t[2] <= x[2] /\ u[2] <= x[2] /\ x[3] <= t[3] /\ x[3] <= u[3]
        /\ x[2] <= x[3] /\ x[2] \in Int /\ x[3] \in Int
    BY <2>3, <2>5, <2>7
  <2> QED BY <2>1, <2>7, <2>8, <2>9
<1>6. IsFiniteSet(T)
  <2> DEFINE D == m1.trans \X m2.trans
             f == [x \in D |-> Common(x[1], x[2])]
             R == {Common(x[1], x[2]) : x \in D}
  <2>1. IsFiniteSet(D)
    BY <1>2, FS_Product
  <2>2. f \in [D -> R]
    OBVIOUS
  <2>3. IsFiniteSet({f[x] : x \in D})
    <3> HIDE DEF f, R, D
    <3> QED BY <2>1, <2>2, FiniteImage
  <2>4. T \subseteq {f[x] : x \in D}
    BY DEF JointMoves
  <2> HIDE DEF f, D, T
  <2> QED BY <2>3, <2>4, FS_Subset
<1> HIDE DEF T
<1>7. T \in SUBSET (Q \X Char \X Char \X Q) /\ \A x \in T : x[2] <= x[3]
  BY <1>5
<1>8. p = Explicit(<<m1.q0, m2.q0>>, S \cap (m1.acc \X m2.acc), T, m1.det /\ m2.det)
  BY DEF ProductOver, T
<1>9. <<m1.q0, m2.q0>> \in Q /\ S \cap (m1.acc \X m2.acc) \in SUBSET Q /\ (m1.det /\ m2.det) \in BOOLEAN
  BY <1>2
<1> HIDE DEF p, Q
<1>10. IsAutomaton(p, Q) /\ ~ IsSingleton(p) /\ p.trans = T /\ (p.det => m1.det /\ m2.det)
  <2>1. /\ p \in [word : SUBSET Seq(Char), q0 : Q, acc : SUBSET Q,
                  trans : SUBSET (Q \X Char \X Char \X Q), det : BOOLEAN]
        /\ p.trans = T /\ p.word = {}
    BY <1>7, <1>8, <1>9 DEF Explicit
  <2>2. p.det = (m1.det /\ m2.det)
    BY <1>8 DEF Explicit
  <2> QED BY <1>6, <1>7, <2>1, <2>2 DEF IsAutomaton, IsSingleton
<1>11. p.det => IsDeterministic(p)
  <2> SUFFICES ASSUME m1.det, m2.det, NEW x \in T, NEW y \in T,
                      x[1] = y[1], x[2] <= y[3], y[2] <= x[3]
               PROVE  x[4] = y[4]
    BY <1>10 DEF IsDeterministic
  <2>1. PICK t \in m1.trans, u \in m2.trans :
               /\ x[1] = <<t[1], u[1]>> /\ x[4] = <<t[4], u[4]>>
               /\ t[2] <= x[2] /\ u[2] <= x[2] /\ x[3] <= t[3] /\ x[3] <= u[3]
               /\ x[2] \in Int /\ x[3] \in Int
    BY <1>5
  <2>2. PICK v \in m1.trans, w \in m2.trans :
               /\ y[1] = <<v[1], w[1]>> /\ y[4] = <<v[4], w[4]>>
               /\ v[2] <= y[2] /\ w[2] <= y[2] /\ y[3] <= v[3] /\ y[3] <= w[3]
               /\ y[2] \in Int /\ y[3] \in Int
    BY <1>5
  <2>3. t[1] = v[1] /\ u[1] = w[1]
    <3>1. x[1] = <<t[1], u[1]>> /\ y[1] = <<v[1], w[1]>> /\ x[1] = y[1]
      BY <2>1, <2>2
    <3> QED BY ONLY <3>1
  <2>4. t[2] <= v[3] /\ v[2] <= t[3]
    <3>1. t[2] \in Int /\ t[3] \in Int /\ v[2] \in Int /\ v[3] \in Int
      BY <1>3
    <3> QED BY <2>1, <2>2, <3>1
  <2>5. u[2] <= w[3] /\ w[2] <= u[3]
    <3>1. u[2] \in Int /\ u[3] \in Int /\ w[2] \in Int /\ w[3] \in Int
      BY <1>4
    <3> QED BY <2>1, <2>2, <3>1
  <2>6. IsDeterministic(m1) /\ IsDeterministic(m2)
    BY DEF Sound, IsHonest
  <2>7. t[4] = v[4]
    BY <2>3, <2>4, <2>6 DEF IsDeterministic
  <2>8. u[4] = w[4]
    BY <2>3, <2>5, <2>6 DEF IsDeterministic
  <2> QED BY <2>1, <2>2, <2>7, <2>8
<1> QED BY <1>10, <1>11 DEF IsHonest, Q, p, S

LEMMA ProductTidy ==
  ASSUME NEW m1, Sound(m1), NEW m2, Sound(m2)
  PROVE  Tidy(Product(m1, m2))
<1> DEFINE p == ProductOver(m1, m2, Pairs(m1, m2))
           n == Numbered(RemoveDeadTransitions(p))
<1>1. Product(m1, m2) = n
  BY DEF Product
<1>2. IsAutomaton(p, Nat \X Nat) /\ ~ IsSingleton(p) /\ IsHonest(p)
  BY ProductIsOne
<1> HIDE DEF p
<1>3. /\ IsAutomaton(n, Nat) /\ n.det = p.det /\ (IsDeterministic(p) => IsDeterministic(n))
      /\ NoneDead(n)
  BY <1>2, Trimmed
<1> QED BY <1>1, <1>2, <1>3 DEF Sound, Tidy, IsHonest

LEMMA IntersectionTidy ==
  ASSUME NEW m1, Tidy(m1), NEW m2, Tidy(m2)
  PROVE  Tidy(Intersection(m1, m2))
<1>1. Intersection(m1, m2) \in {m1, m2, MakeEmpty, Product(m1, m2)}
  BY DEF Intersection
<1>2. Tidy(Product(m1, m2))
  BY ProductTidy DEF Tidy
<1> QED BY <1>1, <1>2, EmptyIsTidy

LEMMA MinusTidy ==
  ASSUME NEW m1, Tidy(m1), NEW m2, Tidy(m2)
  PROVE  Tidy(Minus(m1, m2))
<1>1. Minus(m1, m2) \in {m1, MakeEmpty, Intersection(m1, Complement(m2))}
  BY DEF Minus
<1>2. Tidy(Complement(m2))
  BY ComplementTidy DEF Tidy
<1>3. Tidy(Intersection(m1, Complement(m2)))
  BY <1>2, IntersectionTidy
<1> QED BY <1>1, <1>3, EmptyIsTidy

-----------------------------------------------------------------------------
(* The constructions with epsilon moves                                    *)

LEMMA EpsilonsAdded ==
  ASSUME NEW Q, NEW m, IsAutomaton(m, Q), ~ IsSingleton(m),
         NEW pairs, IsFiniteSet(pairs), \A p \in pairs : p[1] \in Q
  PROVE  LET r == AddEpsilons(m, pairs)
         IN  /\ IsAutomaton(r, Q) /\ ~ IsSingleton(r) /\ r.q0 = m.q0 /\ r.det = m.det
             /\ r.trans = m.trans \cup UNION {{<<p[1], t[2], t[3], t[4]>> :
                                     t \in {u \in m.trans : u[1] = p[2]}} : p \in pairs}
             /\ r.acc = m.acc \cup {p[1] : p \in {x \in pairs : x[2] \in m.acc}}
             /\ NoneDead(m) => NoneDead(r)
<1> DEFINE new == UNION {{<<p[1], t[2], t[3], t[4]>> : t \in {u \in m.trans : u[1] = p[2]}} : p \in pairs}
           T == m.trans \cup new
           A == m.acc \cup {p[1] : p \in {r \in pairs : r[2] \in m.acc}}
           r == AddEpsilons(m, pairs)
<1>1. /\ m \in [word : SUBSET Seq(Char), q0 : Q, acc : SUBSET Q,
                trans : SUBSET (Q \X Char \X Char \X Q), det : BOOLEAN]
      /\ m.word = {} /\ IsFiniteSet(m.trans)
      /\ \A t \in m.trans : t \in Q \X Char \X Char \X Q /\ t[2] <= t[3]
  BY DEF IsAutomaton, IsSingleton
<1>2. r = [m EXCEPT !.trans = T, !.acc = A]
  BY DEF AddEpsilons
<1>3. A \in SUBSET Q
  BY <1>1
<1>4. \A x \in T : x \in Q \X Char \X Char \X Q /\ x[2] <= x[3]
  BY <1>1
<1>5. IsFiniteSet(T)
  <2> DEFINE P == {p[1] : p \in pairs}
             E == P \cup Ends(m)
  <2>1. IsFiniteSet(P)
    <3> DEFINE f == [p \in pairs |-> p[1]]
    <3>1. f \in [pairs -> P]
      OBVIOUS
    <3>2. IsFiniteSet({f[p] : p \in pairs})
      <4> HIDE DEF f, P
      <4> QED BY <3>1, FiniteImage
    <3> QED BY <3>2
  <2>2. IsFiniteSet(E)
    <3> HIDE DEF P
    <3> QED BY <1>1, <2>1, Reachable, FS_Union
  <2>3. \A x \in T : x \in E \X Char \X Char \X E
    BY <1>1 DEF Ends
  <2> HIDE DEF T, E
  <2>4. T \in SUBSET (E \X Char \X Char \X E)
    BY <2>3
  <2> QED BY <2>2, <2>4, BoundedTransitions
<1> HIDE DEF T, A, r
<1>6. r.word = {} /\ r.q0 = m.q0 /\ r.det = m.det /\ r.acc = A /\ r.trans = T
  BY <1>1, <1>2
<1>7. r \in [word : SUBSET Seq(Char), q0 : Q, acc : SUBSET Q,
             trans : SUBSET (Q \X Char \X Char \X Q), det : BOOLEAN]
  BY <1>1, <1>2, <1>3, <1>4
<1>8. IsAutomaton(r, Q) /\ ~ IsSingleton(r)
  BY <1>4, <1>5, <1>6, <1>7 DEF IsAutomaton, IsSingleton
<1>9. NoneDead(m) => NoneDead(r)
  <2>1. m.acc \subseteq r.acc /\ m.trans \subseteq r.trans
    BY <1>6 DEF A, T
  <2>2. \A t \in r.trans : \E u \in m.trans : t[4] = u[4]
    BY <1>6 DEF T
  <2>3. Productive(m) \subseteq Productive(r)
    BY <2>1, ProductiveGrows
  <2> QED BY <2>2, <2>3 DEF NoneDead
<1> QED BY <1>6, <1>8, <1>9 DEF r, T, A

LEMMA TaggedIsOne ==
  ASSUME NEW i \in Nat, NEW m, IsAutomaton(m, Nat)
  PROVE  LET r == Tagged(i, m)
         IN  /\ IsAutomaton(r, Nat \X Nat) /\ ~ IsSingleton(r)
             /\ r.q0 = <<i, m.q0>> /\ r.acc = {<<i, q>> : q \in m.acc}
             /\ r.trans = {<<<<i, t[1]>>, t[2], t[3], <<i, t[4]>>>> : t \in m.trans}
             /\ NoneDead(m) => NoneDead(r)
<1> DEFINE Q == Nat \X Nat
           T == {<<<<i, t[1]>>, t[2], t[3], <<i, t[4]>>>> : t \in m.trans}
           A == {<<i, q>> : q \in m.acc}
           r == Tagged(i, m)
<1>1. /\ m.q0 \in Nat /\ m.acc \subseteq Nat /\ m.det \in BOOLEAN
      /\ m.trans \subseteq Nat \X Char \X Char \X Nat /\ IsFiniteSet(m.trans)
      /\ \A t \in m.trans : t[2] <= t[3]
  BY Parts
<1>2. \A x \in T : x \in Q \X Char \X Char \X Q /\ x[2] <= x[3]
  BY <1>1
<1>3. A \in SUBSET Q /\ <<i, m.q0>> \in Q
  BY <1>1
<1>4. IsFiniteSet(T)
  <2> DEFINE f == [t \in m.trans |-> <<<<i, t[1]>>, t[2], t[3], <<i, t[4]>>>>]
  <2>1. f \in [m.trans -> T]
    OBVIOUS
  <2>2. IsFiniteSet({f[t] : t \in m.trans})
    <3> HIDE DEF f, T
    <3> QED BY <1>1, <2>1, FiniteImage
  <2> QED BY <2>2
<1>5. r = [word |-> {}, q0 |-> <<i, m.q0>>, acc |-> A, trans |-> T, det |-> m.det]
  BY DEF Tagged, Explicit
<1> HIDE DEF T, A, Q, r
<1>6. /\ r \in [word : SUBSET Seq(Char), q0 : Q, acc : SUBSET Q,
                trans : SUBSET (Q \X Char \X Char \X Q), det : BOOLEAN]
      /\ r.word = {} /\ r.q0 = <<i, m.q0>> /\ r.acc = A /\ r.trans = T
  BY <1>1, <1>2, <1>3, <1>5
<1>7. IsAutomaton(r, Q) /\ ~ IsSingleton(r)
  BY <1>2, <1>4, <1>6 DEF IsAutomaton, IsSingleton
<1>8. NoneDead(m) => NoneDead(r)
  <2> DEFINE D == {q \in Productive(m) : <<i, q>> \in Productive(r)}
  <2>1. m.acc \subseteq D
    BY <1>6, ProductiveLeast DEF A
  <2>2. \A t \in m.trans : t[4] \in D => t[1] \in D
    <3> SUFFICES ASSUME NEW t \in m.trans, t[4] \in D PROVE <<i, t[1]>> \in Productive(r)
      BY ProductiveLeast
    <3> DEFINE u == <<<<i, t[1]>>, t[2], t[3], <<i, t[4]>>>>
    <3>1. u \in r.trans /\ u[1] = <<i, t[1]>> /\ u[4] = <<i, t[4]>>
      BY <1>6 DEF T
    <3>2. <<i, t[4]>> \in Productive(r)
      OBVIOUS
    <3> HIDE DEF u, D
    <3> QED BY <3>1, <3>2, ProductiveLeast
  <2> HIDE DEF D
  <2>3. Productive(m) \subseteq D
    BY <2>1, <2>2, ProductiveLeast
  <2>4. \A t \in m.trans : t[4] \in Productive(m) => <<i, t[4]>> \in Productive(r)
    BY <2>3 DEF D
  <2>5. \A u \in r.trans : \E t \in m.trans : u[4] = <<i, t[4]>>
    BY <1>6 DEF T
  <2> QED BY <2>4, <2>5 DEF NoneDead
<1> QED BY <1>6, <1>7, <1>8 DEF r, T, A, Q

(* Two automata next to each other.                                        *)
LEMMA PutBeside ==
  ASSUME NEW m1, Sound(m1), NEW m2, Sound(m2)
  PROVE  LET b == Beside(m1, m2)
         IN  /\ b.one = Tagged(1, ExpandSingleton(m1))
             /\ b.two = Tagged(2, ExpandSingleton(m2))
             /\ IsAutomaton(b.one, Nat \X Nat) /\ IsAutomaton(b.two, Nat \X Nat)
             /\ IsAutomaton(b.both, Nat \X Nat) /\ ~ IsSingleton(b.both)
             /\ b.both.q0 = <<0, 0>> /\ b.both.det = FALSE
             /\ b.both.trans = b.one.trans \cup b.two.trans
             /\ b.both.acc = b.one.acc \cup b.two.acc
             /\ b.one.acc \cap b.two.acc = {}
             /\ NoneDead(m2) => NoneDead(b.two)
             /\ NoneDead(m1) /\ NoneDead(m2) => NoneDead(b.both)
             /\ ~ IsEmpty(m2) =>
                  b.two.q0 \in b.two.acc \/ \E t \in b.two.trans : t[1] = b.two.q0
<1> DEFINE Q == Nat \X Nat
           b1 == Tagged(1, ExpandSingleton(m1))
           b2 == Tagged(2, ExpandSingleton(m2))
           b == Beside(m1, m2)
           c == b.both
<1>1. IsAutomaton(b1, Q) /\ IsAutomaton(b2, Q)
  <2>1. IsAutomaton(ExpandSingleton(m1), Nat) /\ IsAutomaton(ExpandSingleton(m2), Nat)
    BY Expanded DEF Sound
  <2> QED BY <2>1, TaggedIsOne
<1>10. (NoneDead(m1) => NoneDead(b1)) /\ (NoneDead(m2) => NoneDead(b2))
  <2>1. /\ IsAutomaton(ExpandSingleton(m1), Nat) /\ IsAutomaton(ExpandSingleton(m2), Nat)
        /\ NoneDead(m1) => NoneDead(ExpandSingleton(m1))
        /\ NoneDead(m2) => NoneDead(ExpandSingleton(m2))
    BY Expanded DEF Sound
  <2> QED BY <2>1, TaggedIsOne
<1>11. b1.acc \cap b2.acc = {}
  BY DEF Tagged, Explicit
<1>12. ~ IsEmpty(m2) => b2.q0 \in b2.acc \/ \E t \in b2.trans : t[1] = b2.q0
  <2> DEFINE e == ExpandSingleton(m2)
  <2>1. IsAutomaton(e, Nat) /\ ~ IsSingleton(e) /\ (IsEmpty(e) => IsEmpty(m2))
    BY Expanded DEF Sound
  <2> HIDE DEF e
  <2>2. ~ IsEmpty(m2) => e.q0 \in e.acc \/ \E t \in e.trans : t[1] = e.q0
    BY <2>1 DEF IsEmpty
  <2>3. /\ Tagged(2, e).q0 = <<2, e.q0>> /\ Tagged(2, e).acc = {<<2, q>> : q \in e.acc}
        /\ Tagged(2, e).trans = {<<<<2, t[1]>>, t[2], t[3], <<2, t[4]>>>> : t \in e.trans}
    BY DEF Tagged, Explicit
  <2>4. b2 = Tagged(2, e)
    BY DEF e
  <2> HIDE DEF b2
  <2>5. e.q0 \in e.acc => b2.q0 \in b2.acc
    BY <2>3, <2>4
  <2>6. ASSUME NEW t \in e.trans, t[1] = e.q0 PROVE \E u \in b2.trans : u[1] = b2.q0
    <3> DEFINE u == <<<<2, t[1]>>, t[2], t[3], <<2, t[4]>>>>
    <3>1. u \in b2.trans /\ u[1] = <<2, t[1]>>
      BY <2>3, <2>4
    <3> HIDE DEF u
    <3> QED BY <2>3, <2>4, <2>6, <3>1
  <2> QED BY <2>2, <2>5, <2>6
<1>2. /\ b.one = b1 /\ b.two = b2
      /\ b.both = [word |-> {}, q0 |-> <<0, 0>>, acc |-> b1.acc \cup b2.acc,
                   trans |-> b1.trans \cup b2.trans, det |-> FALSE]
  BY DEF Beside, Both, Explicit
<1>3. <<0, 0>> \in Q
  OBVIOUS
<1> HIDE DEF b1, b2, Q, b
<1>4. /\ b1.acc \subseteq Q /\ b1.trans \subseteq Q \X Char \X Char \X Q /\ IsFiniteSet(b1.trans)
      /\ \A t \in b1.trans : t[2] <= t[3]
  BY <1>1, Parts
<1>5. /\ b2.acc \subseteq Q /\ b2.trans \subseteq Q \X Char \X Char \X Q /\ IsFiniteSet(b2.trans)
      /\ \A t \in b2.trans : t[2] <= t[3]
  BY <1>1, Parts
<1>6. IsFiniteSet(b1.trans \cup b2.trans)
  BY <1>4, <1>5, FS_Union
<1>7. /\ c.word = {} /\ c.q0 = <<0, 0>> /\ c.acc = b1.acc \cup b2.acc
      /\ c.trans = b1.trans \cup b2.trans /\ c.det = FALSE
      /\ c \in [word : SUBSET Seq(Char), q0 : Q, acc : SUBSET Q,
                trans : SUBSET (Q \X Char \X Char \X Q), det : BOOLEAN]
  BY <1>2, <1>3, <1>4, <1>5
<1>8. \A t \in c.trans : t[2] <= t[3]
  BY <1>4, <1>5, <1>7
<1> HIDE DEF c
<1>9. IsAutomaton(c, Q) /\ ~ IsSingleton(c)
  BY <1>6, <1>7, <1>8 DEF IsAutomaton, IsSingleton
<1>13. NoneDead(b1) /\ NoneDead(b2) => NoneDead(c)
  <2>1. Productive(b1) \subseteq Productive(c) /\ Productive(b2) \subseteq Productive(c)
    BY <1>7, ProductiveGrows
  <2> QED BY <1>7, <2>1 DEF NoneDead
<1> QED BY <1>1, <1>2, <1>7, <1>9, <1>10, <1>11, <1>12, <1>13 DEF b1, b2, Q, b, c

(* The states of b.one that accept.                                        *)
LEMMA AcceptingStates ==
  ASSUME NEW Q, NEW m, IsAutomaton(m, Q)
  PROVE  /\ IsFiniteSet(GetAcceptStates(m)) /\ GetAcceptStates(m) \subseteq Q
         /\ GetAcceptStates(m) \subseteq m.acc
<1>1. IsFiniteSet(GetStates(m)) /\ GetStates(m) \subseteq Q
  BY Parts
<1> HIDE DEF GetStates
<1>2. IsFiniteSet(GetStates(m) \cap m.acc)
  BY <1>1, FS_Subset
<1> QED BY <1>1, <1>2 DEF GetAcceptStates

(* Transitions from the states in ends that do what those from q do.       *)
WithEntries(T, ends, q) ==
  T \cup {<<p, t[2], t[3], t[4]>> : p \in ends, t \in {u \in T : u[1] = q}}

(* The two copies with what is to accept, and the moves between them.      *)
Unlinked(b, acc) == [b.both EXCEPT !.acc = acc]

Bridges(b) == GetAcceptStates(b.one) \X {b.two.q0}

LEMMA LinkMakes ==
  ASSUME NEW m1, Sound(m1), NEW m2, Sound(m2), NEW acc,
         acc \subseteq Beside(m1, m2).both.acc
  PROVE  LET b == Beside(m1, m2)
             c == Unlinked(b, acc)
             pairs == Bridges(b)
             e == AddEpsilons(c, pairs)
             j == Link(b, acc)
         IN  /\ IsAutomaton(c, Nat \X Nat) /\ ~ IsSingleton(c)
             /\ c.trans = b.both.trans /\ \A x : x \in c.acc <=> x \in acc
             /\ IsFiniteSet(pairs) /\ \A p \in pairs : p[1] \in Nat \X Nat
             /\ IsAutomaton(j, Nat \X Nat) /\ j.det = FALSE
             /\ j.q0 = b.one.q0 /\ j.trans = e.trans /\ j.acc = e.acc
<1> DEFINE Q == Nat \X Nat
           b == Beside(m1, m2)
           ends == GetAcceptStates(b.one)
           pairs == ends \X {b.two.q0}
           c == [b.both EXCEPT !.acc = acc]
           e == AddEpsilons(c, pairs)
           j == Link(b, acc)
<1>2. j = [e EXCEPT !.q0 = b.one.q0]
  BY DEF Link
<1> HIDE DEF j
<1>3. /\ IsAutomaton(b.one, Q) /\ IsAutomaton(b.both, Q) /\ ~ IsSingleton(b.both)
      /\ b.both.det = FALSE
  BY PutBeside
<1> HIDE DEF b, Q
<1>4. IsFiniteSet(ends) /\ ends \subseteq Q
  BY <1>3, AcceptingStates
<1> HIDE DEF ends
<1>5. /\ IsAutomaton(c, Q) /\ ~ IsSingleton(c)
      /\ c.trans = b.both.trans /\ c.det = FALSE /\ c.acc = acc
  <2>1. /\ b.both \in [word : SUBSET Seq(Char), q0 : Q, acc : SUBSET Q,
                       trans : SUBSET (Q \X Char \X Char \X Q), det : BOOLEAN]
        /\ IsFiniteSet(b.both.trans) /\ \A t \in b.both.trans : t[2] <= t[3]
        /\ b.both.word = {}
    BY <1>3 DEF IsAutomaton, IsSingleton
  <2>2. acc \in SUBSET Q
    BY <2>1 DEF b
  <2>3. /\ c \in [word : SUBSET Seq(Char), q0 : Q, acc : SUBSET Q,
                  trans : SUBSET (Q \X Char \X Char \X Q), det : BOOLEAN]
        /\ c.trans = b.both.trans /\ c.word = {} /\ c.det = FALSE /\ c.acc = acc
    BY <1>3, <2>1, <2>2
  <2> HIDE DEF c
  <2> QED BY <1>3, <2>1, <2>3 DEF IsAutomaton, IsSingleton
<1> HIDE DEF c
<1>6. IsFiniteSet(pairs) /\ \A p \in pairs : p[1] \in Q
  BY <1>4, FS_Singleton, FS_Product
<1> HIDE DEF pairs
<1>7. IsAutomaton(e, Q) /\ ~ IsSingleton(e) /\ e.det = c.det
  BY <1>5, <1>6, EpsilonsAdded
<1> HIDE DEF e
<1>8. b.one.q0 \in Q
  BY <1>3, Parts
<1>9. /\ IsAutomaton(j, Q) /\ j.q0 = b.one.q0 /\ j.trans = e.trans
      /\ j.det = FALSE /\ j.acc = e.acc
  <2>1. /\ e \in [word : SUBSET Seq(Char), q0 : Q, acc : SUBSET Q,
                  trans : SUBSET (Q \X Char \X Char \X Q), det : BOOLEAN]
        /\ IsFiniteSet(e.trans) /\ \A t \in e.trans : t[2] <= t[3]
        /\ e.word = {} /\ e.det = FALSE
    BY <1>5, <1>7 DEF IsAutomaton, IsSingleton
  <2>2. /\ j \in [word : SUBSET Seq(Char), q0 : Q, acc : SUBSET Q,
                  trans : SUBSET (Q \X Char \X Char \X Q), det : BOOLEAN]
        /\ j.trans = e.trans /\ j.word = {} /\ j.det = FALSE /\ j.acc = e.acc
        /\ j.q0 = b.one.q0
    BY <1>2, <1>8, <2>1
  <2> QED BY <2>1, <2>2 DEF IsAutomaton, IsSingleton
<1> QED BY <1>5, <1>6, <1>9 DEF j, e, pairs, c, b, ends, Q, Unlinked, Bridges

LEMMA Linked ==
  ASSUME NEW m1, Sound(m1), NEW m2, Sound(m2), NEW acc,
         acc \subseteq Beside(m1, m2).both.acc
  PROVE  LET b == Beside(m1, m2)
             j == Link(b, acc)
             f == Numbered(j)
         IN  /\ IsAutomaton(j, Nat \X Nat)
             /\ IsAutomaton(f, Nat) /\ ~ IsSingleton(f) /\ ~ f.det
             /\ IsDeterministic(j) => IsDeterministic(f)
             /\ j.trans = WithEntries(b.one.trans \cup b.two.trans,
                                     GetAcceptStates(b.one), b.two.q0)
             /\ acc \subseteq j.acc
             /\ b.two.q0 \in acc => GetAcceptStates(b.one) \subseteq j.acc
             /\ NoneDead(b.both) /\ b.both.acc \subseteq Productive(j) => NoneDead(f)
<1> DEFINE Q == Nat \X Nat
           b == Beside(m1, m2)
           ends == GetAcceptStates(b.one)
           c == Unlinked(b, acc)
           e == AddEpsilons(c, Bridges(b))
           j == Link(b, acc)
           f == Numbered(j)
           T == b.one.trans \cup b.two.trans
<1>5. /\ IsAutomaton(c, Q) /\ ~ IsSingleton(c) /\ c.trans = b.both.trans
      /\ \A x : x \in c.acc <=> x \in acc
      /\ IsFiniteSet(Bridges(b)) /\ \A p \in Bridges(b) : p[1] \in Q
      /\ IsAutomaton(j, Q) /\ ~ j.det /\ j.trans = e.trans /\ j.acc = e.acc
  BY LinkMakes
<1> HIDE DEF j
<1>3. b.both.trans = T
  BY PutBeside
<1> HIDE DEF b, Q, ends, c, T
<1>7. /\ e.trans = c.trans \cup UNION {{<<p[1], t[2], t[3], t[4]>> :
                      t \in {u \in c.trans : u[1] = p[2]}} : p \in ends \X {b.two.q0}}
      /\ e.acc = c.acc \cup {p[1] : p \in {x \in ends \X {b.two.q0} : x[2] \in c.acc}}
  <2> DEFINE pairs == Bridges(b)
  <2> HIDE DEF pairs
  <2>1. IsFiniteSet(pairs) /\ \A p \in pairs : p[1] \in Q
    BY <1>5 DEF pairs
  <2>2. /\ AddEpsilons(c, pairs).trans = c.trans \cup UNION {{<<p[1], t[2], t[3], t[4]>> :
                      t \in {u \in c.trans : u[1] = p[2]}} : p \in pairs}
        /\ AddEpsilons(c, pairs).acc = c.acc \cup {p[1] : p \in {x \in pairs : x[2] \in c.acc}}
    BY <1>5, <2>1, EpsilonsAdded
  <2> QED BY <2>2 DEF pairs, Bridges, ends, e
<1> HIDE DEF e
<1>9. IsAutomaton(j, Q) /\ j.trans = e.trans /\ ~ j.det /\ j.acc = e.acc
  BY <1>5
<1>10. /\ IsAutomaton(f, Nat) /\ ~ IsSingleton(f) /\ f.det = j.det
       /\ IsDeterministic(j) => IsDeterministic(f)
  BY <1>9, NamesChanged
<1>11. j.trans = T \cup {<<p, t[2], t[3], t[4]>> : p \in ends, t \in {u \in T : u[1] = b.two.q0}}
  <2> DEFINE new == UNION {{<<p[1], t[2], t[3], t[4]>> :
                      t \in {u \in T : u[1] = p[2]}} : p \in ends \X {b.two.q0}}
             want == {<<p, t[2], t[3], t[4]>> : p \in ends, t \in {u \in T : u[1] = b.two.q0}}
  <2>1. j.trans = T \cup new
    BY <1>3, <1>5, <1>7, <1>9
  <2>2. \A x \in new : x \in want
    OBVIOUS
  <2>3. \A x \in want : x \in new
    <3> SUFFICES ASSUME NEW p \in ends, NEW t \in T, t[1] = b.two.q0
                 PROVE  <<p, t[2], t[3], t[4]>> \in new
      OBVIOUS
    <3>1. <<p, b.two.q0>> \in ends \X {b.two.q0}
      OBVIOUS
    <3> QED BY <3>1
  <2> QED BY <2>1, <2>2, <2>3
<1>12. acc \subseteq j.acc
  BY <1>3, <1>5, <1>7, <1>9
<1>13. ASSUME b.two.q0 \in acc PROVE ends \subseteq j.acc
  <2> SUFFICES ASSUME NEW p \in ends PROVE p \in j.acc
    OBVIOUS
  <2>1. <<p, b.two.q0>> \in ends \X {b.two.q0}
    OBVIOUS
  <2> QED BY <1>3, <1>5, <1>7, <1>9, <1>13, <2>1
<1>14. ASSUME NoneDead(b.both), b.both.acc \subseteq Productive(j) PROVE NoneDead(f)
  <2>1. T \subseteq j.trans /\ \A x \in j.trans : \E t \in T : x[4] = t[4]
    BY <1>11
  <2>2. Productive(b.both) \subseteq Productive(j)
    BY <1>3, <1>14, <2>1, ProductiveKept
  <2>3. NoneDead(j)
    BY <1>3, <1>14, <2>1, <2>2 DEF NoneDead
  <2> QED BY <1>9, <2>3, NumberedNoneDead
<1> QED BY <1>9, <1>10, <1>11, <1>12, <1>13, <1>14 DEF j, f, b, ends, T, Q, WithEntries

LEMMA Follows ==
  ASSUME NEW m1, Sound(m1), NEW m2, Sound(m2)
  PROVE  /\ IsAutomaton(Follow(m1, m2), Nat) /\ ~ IsSingleton(Follow(m1, m2))
         /\ ~ Follow(m1, m2).det
         /\ IsAutomaton(FollowOrStop(m1, m2), Nat) /\ ~ IsSingleton(FollowOrStop(m1, m2))
         /\ ~ FollowOrStop(m1, m2).det
         /\ NoneDead(m1) /\ NoneDead(m2) => NoneDead(FollowOrStop(m1, m2))
         /\ NoneDead(m1) /\ NoneDead(m2) /\ ~ IsEmpty(m2) => NoneDead(Follow(m1, m2))
<1> DEFINE b == Beside(m1, m2)
           some == b.both.acc \ GetAcceptStates(b.one)
           all == b.both.acc
<1>1. Follow(m1, m2) = Numbered(Link(b, some)) /\ FollowOrStop(m1, m2) = Numbered(Link(b, all))
  BY DEF Follow, FollowOrStop
<1>2. some \subseteq b.both.acc /\ all \subseteq b.both.acc
  OBVIOUS
<1>5. /\ IsAutomaton(b.one, Nat \X Nat)
      /\ b.both.acc = b.one.acc \cup b.two.acc /\ b.one.acc \cap b.two.acc = {}
      /\ NoneDead(m1) /\ NoneDead(m2) => NoneDead(b.both) /\ NoneDead(b.two)
      /\ ~ IsEmpty(m2) => b.two.q0 \in b.two.acc \/ \E t \in b.two.trans : t[1] = b.two.q0
  BY PutBeside, ZenonT(60)
<1> DEFINE ends == GetAcceptStates(b.one)
<1>6. /\ some \subseteq Link(b, some).acc
      /\ b.two.q0 \in some => ends \subseteq Link(b, some).acc
      /\ Link(b, some).trans = WithEntries(b.one.trans \cup b.two.trans, ends, b.two.q0)
      /\ NoneDead(b.both) /\ b.both.acc \subseteq Productive(Link(b, some))
           => NoneDead(Numbered(Link(b, some)))
  <2> HIDE DEF some
  <2> QED BY <1>2, Linked
<1>7. /\ all \subseteq Link(b, all).acc
      /\ NoneDead(b.both) /\ b.both.acc \subseteq Productive(Link(b, all))
           => NoneDead(Numbered(Link(b, all)))
  <2> HIDE DEF all
  <2> QED BY <1>2, Linked
<1>8. ends \subseteq b.one.acc
  BY <1>5, AcceptingStates
<1>9. some = b.both.acc \ ends /\ all = b.both.acc
  OBVIOUS
<1> HIDE DEF some, all, b, ends
<1>10. NoneDead(m1) /\ NoneDead(m2) => NoneDead(Numbered(Link(b, all)))
  BY <1>5, <1>7, <1>9, ProductiveLeast
<1>11. ASSUME NoneDead(m1), NoneDead(m2), ~ IsEmpty(m2) PROVE NoneDead(Numbered(Link(b, some)))
  <2> DEFINE j == Link(b, some)
  <2> HIDE DEF j
  <2>1. /\ some \subseteq j.acc /\ (b.two.q0 \in some => ends \subseteq j.acc)
        /\ j.trans = WithEntries(b.one.trans \cup b.two.trans, ends, b.two.q0)
        /\ NoneDead(b.both) /\ b.both.acc \subseteq Productive(j) => NoneDead(Numbered(j))
    BY <1>6 DEF j
  <2>2. b.two.acc \subseteq some
    BY <1>5, <1>8, <1>9
  <2>3. b.two.trans \subseteq j.trans
    BY <2>1 DEF WithEntries
  <2>4. Productive(b.two) \subseteq Productive(j)
    BY <2>1, <2>2, <2>3, ProductiveGrows
  <2>5. ends \subseteq Productive(j)
    <3>1. CASE b.two.q0 \in b.two.acc
      BY <2>1, <2>2, <3>1, ProductiveLeast
    <3>2. ASSUME NEW t \in b.two.trans, t[1] = b.two.q0 PROVE ends \subseteq Productive(j)
      <4> SUFFICES ASSUME NEW p \in ends PROVE p \in Productive(j)
        OBVIOUS
      <4> DEFINE x == <<p, t[2], t[3], t[4]>>
      <4>1. x \in j.trans /\ x[1] = p /\ x[4] = t[4]
        BY <2>1, <3>2 DEF WithEntries
      <4>2. t[4] \in Productive(j)
        BY <1>5, <1>11, <2>4 DEF NoneDead
      <4> HIDE DEF x
      <4> QED BY <4>1, <4>2, ProductiveLeast
    <3> QED BY <1>5, <1>11, <3>1, <3>2
  <2>6. b.both.acc \subseteq Productive(j)
    BY <1>9, <2>1, <2>5, ProductiveLeast
  <2> QED BY <1>5, <1>11, <2>1, <2>6 DEF j
<1> USE DEF b
<1>3. /\ IsAutomaton(Numbered(Link(b, some)), Nat) /\ ~ IsSingleton(Numbered(Link(b, some)))
      /\ ~ Numbered(Link(b, some)).det
  BY <1>2, Linked
<1>4. /\ IsAutomaton(Numbered(Link(b, all)), Nat) /\ ~ IsSingleton(Numbered(Link(b, all)))
      /\ ~ Numbered(Link(b, all)).det
  BY <1>2, Linked
<1> QED BY <1>1, <1>3, <1>4, <1>10, <1>11

(* concatenate: the flag is kept if a word is put before a deterministic   *)
(* automaton.                                                              *)
LEMMA WordBefore ==
  ASSUME NEW m1, Sound(m1), IsSingleton(m1),
         NEW m2, Sound(m2), ~ IsSingleton(m2), m2.det
  PROVE  IsDeterministic(Follow(m1, m2))
<1> DEFINE b == Beside(m1, m2)
           j == Link(b, b.both.acc \ GetAcceptStates(b.one))
           ends == GetAcceptStates(b.one)
<1>1. PICK w \in Seq(Char) :
        ExpandSingleton(m1)
          = Explicit(0, {Len(w)}, {<<i - 1, w[i], w[i], i>> : i \in 1..Len(w)}, TRUE)
  BY Expanded
<1>2. IsAutomaton(ExpandSingleton(m1), Nat) /\ ExpandSingleton(m2) = m2 /\ IsAutomaton(m2, Nat)
  BY Expanded DEF Sound
<1> DEFINE line(i) == <<<<1, i - 1>>, w[i], w[i], <<1, i>>>>
           IsLine(x) == \E i \in 1..Len(w) : x = line(i)
           IsSecond(x) == \E t \in m2.trans : x = <<<<2, t[1]>>, t[2], t[3], <<2, t[4]>>>>
           IsEntry(x) == \E t \in m2.trans :
                           t[1] = m2.q0 /\ x = <<<<1, Len(w)>>, t[2], t[3], <<2, t[4]>>>>
<1>3. /\ b.one = Tagged(1, ExpandSingleton(m1)) /\ b.two = Tagged(2, m2)
  BY <1>2 DEF Beside, Both
<1>17. Follow(m1, m2) = Numbered(j)
  BY DEF Follow
<1>4. /\ IsDeterministic(j) => IsDeterministic(Numbered(j))
      /\ j.trans = WithEntries(b.one.trans \cup b.two.trans, ends, b.two.q0)
  <2> DEFINE some == Beside(m1, m2).both.acc \ GetAcceptStates(Beside(m1, m2).one)
  <2>1. some \subseteq Beside(m1, m2).both.acc
    OBVIOUS
  <2>2. j = Link(Beside(m1, m2), some)
    OBVIOUS
  <2> HIDE DEF j, some
  <2> QED BY <2>1, <2>2, Linked
<1> HIDE DEF b
<1>5. /\ b.one.acc = {<<1, q>> : q \in {Len(w)}}
      /\ b.one.trans = {<<<<1, t[1]>>, t[2], t[3], <<1, t[4]>>>> :
                          t \in {<<i - 1, w[i], w[i], i>> : i \in 1..Len(w)}}
      /\ IsAutomaton(b.one, Nat \X Nat)
  <2>1. /\ ExpandSingleton(m1).acc = {Len(w)}
        /\ ExpandSingleton(m1).trans = {<<i - 1, w[i], w[i], i>> : i \in 1..Len(w)}
    BY <1>1 DEF Explicit
  <2>2. /\ IsAutomaton(b.one, Nat \X Nat)
        /\ b.one.acc = {<<1, q>> : q \in ExpandSingleton(m1).acc}
        /\ b.one.trans = {<<<<1, t[1]>>, t[2], t[3], <<1, t[4]>>>> : t \in ExpandSingleton(m1).trans}
    BY <1>2, <1>3, TaggedIsOne
  <2> QED BY <2>1, <2>2
<1>6. /\ b.two.q0 = <<2, m2.q0>>
      /\ b.two.trans = {<<<<2, t[1]>>, t[2], t[3], <<2, t[4]>>>> : t \in m2.trans}
  BY <1>2, <1>3, TaggedIsOne
<1>7. ends \subseteq {<<1, Len(w)>>}
  BY <1>5, AcceptingStates
<1> HIDE DEF ends, j
<1>8. \A x \in b.one.trans : IsLine(x)
  BY <1>5
<1>9. \A x \in b.two.trans : IsSecond(x)
  BY <1>6
<1>10. ASSUME NEW x \in j.trans PROVE IsLine(x) \/ IsSecond(x) \/ IsEntry(x)
  <2>1. CASE x \in b.one.trans
    BY <1>8, <2>1
  <2>2. CASE x \in b.two.trans
    BY <1>9, <2>2
  <2>3. CASE x \in {<<p, t[2], t[3], t[4]>> : p \in ends,
                      t \in {u \in b.one.trans \cup b.two.trans : u[1] = b.two.q0}}
    <3>1. PICK p \in ends, t \in b.one.trans \cup b.two.trans :
            t[1] = b.two.q0 /\ x = <<p, t[2], t[3], t[4]>>
      BY <2>3
    <3>2. p = <<1, Len(w)>>
      BY <1>7
    <3>3. CASE t \in b.one.trans
      <4>1. PICK i \in 1..Len(w) : t = line(i)
        BY <1>8, <3>3
      <4>2. <<1, i - 1>> = <<2, m2.q0>>
        BY <1>6, <3>1, <4>1
      <4> QED BY <4>2
    <3>4. CASE t \in b.two.trans
      <4>1. PICK u \in m2.trans : t = <<<<2, u[1]>>, u[2], u[3], <<2, u[4]>>>>
        BY <1>9, <3>4
      <4>2. <<2, u[1]>> = <<2, m2.q0>>
        BY <1>6, <3>1, <4>1
      <4>3. u[1] = m2.q0
        BY <4>2
      <4>4. x = <<<<1, Len(w)>>, u[2], u[3], <<2, u[4]>>>>
        BY <3>1, <3>2, <4>1
      <4> QED BY <4>3, <4>4
    <3> QED BY <3>3, <3>4
  <2> QED BY <1>4, <2>1, <2>2, <2>3 DEF WithEntries
<1>11. IsDeterministic(m2)
  BY DEF Sound, IsHonest
<1>12. Len(w) \in Nat
  OBVIOUS
<1> HIDE DEF IsLine, IsSecond, IsEntry
<1>13. \A x : IsLine(x) => \E i \in 1..Len(w) : x[1] = <<1, i - 1>> /\ x[4] = <<1, i>>
  BY DEF IsLine
<1>14. \A x : IsSecond(x) => \E t \in m2.trans :
                x[1] = <<2, t[1]>> /\ x[2] = t[2] /\ x[3] = t[3] /\ x[4] = <<2, t[4]>>
  BY DEF IsSecond
<1>15. \A x : IsEntry(x) => \E t \in m2.trans :
                /\ t[1] = m2.q0
                /\ x[1] = <<1, Len(w)>> /\ x[2] = t[2] /\ x[3] = t[3] /\ x[4] = <<2, t[4]>>
  BY DEF IsEntry
<1>16. ASSUME NEW x \in j.trans, NEW y \in j.trans, x[1] = y[1], x[2] <= y[3], y[2] <= x[3]
       PROVE  x[4] = y[4]
  <2>1. \A p, q : <<1, p>> # <<2, q>>
    OBVIOUS
  <2>2. ASSUME (IsLine(x) /\ IsEntry(y)) \/ (IsEntry(x) /\ IsLine(y)) PROVE FALSE
    <3>1. \A i \in 1..Len(w) : <<1, i - 1>> # <<1, Len(w)>>
      <4>1. \A i \in 1..Len(w) : i - 1 # Len(w)
        BY <1>12
      <4> QED BY <4>1
    <3> QED BY <1>13, <1>15, <1>16, <2>2, <3>1
  <2>3. CASE IsLine(x) /\ IsLine(y)
    <3>1. PICK i \in 1..Len(w) : x[1] = <<1, i - 1>> /\ x[4] = <<1, i>>
      BY <1>13, <2>3
    <3>2. PICK h \in 1..Len(w) : y[1] = <<1, h - 1>> /\ y[4] = <<1, h>>
      BY <1>13, <2>3
    <3>3. <<1, i - 1>> = <<1, h - 1>>
      BY <1>16, <3>1, <3>2
    <3>4. i - 1 = h - 1
      BY <3>3
    <3>5. i = h
      BY <3>4
    <3> QED BY <3>1, <3>2, <3>5
  <2>4. CASE IsSecond(x) /\ IsSecond(y)
    <3>1. PICK t \in m2.trans :
            x[1] = <<2, t[1]>> /\ x[2] = t[2] /\ x[3] = t[3] /\ x[4] = <<2, t[4]>>
      BY <1>14, <2>4
    <3>2. PICK u \in m2.trans :
            y[1] = <<2, u[1]>> /\ y[2] = u[2] /\ y[3] = u[3] /\ y[4] = <<2, u[4]>>
      BY <1>14, <2>4
    <3>3. <<2, t[1]>> = <<2, u[1]>>
      BY <1>16, <3>1, <3>2
    <3>4. t[1] = u[1] /\ t[2] <= u[3] /\ u[2] <= t[3]
      BY <1>16, <3>1, <3>2, <3>3
    <3>5. t[4] = u[4]
      BY <1>11, <3>4 DEF IsDeterministic
    <3> QED BY <3>1, <3>2, <3>5
  <2>5. CASE IsEntry(x) /\ IsEntry(y)
    <3>1. PICK t \in m2.trans :
            t[1] = m2.q0 /\ x[2] = t[2] /\ x[3] = t[3] /\ x[4] = <<2, t[4]>>
      BY <1>15, <2>5
    <3>2. PICK u \in m2.trans :
            u[1] = m2.q0 /\ y[2] = u[2] /\ y[3] = u[3] /\ y[4] = <<2, u[4]>>
      BY <1>15, <2>5
    <3>3. t[1] = u[1] /\ t[2] <= u[3] /\ u[2] <= t[3]
      BY <1>16, <3>1, <3>2
    <3>4. t[4] = u[4]
      BY <1>11, <3>3 DEF IsDeterministic
    <3> QED BY <3>1, <3>2, <3>4
  <2>6. ASSUME IsSecond(x) /\ (IsLine(y) \/ IsEntry(y)) PROVE FALSE
    BY <1>13, <1>14, <1>15, <1>16, <2>1, <2>6
  <2>7. ASSUME IsSecond(y) /\ (IsLine(x) \/ IsEntry(x)) PROVE FALSE
    BY <1>13, <1>14, <1>15, <1>16, <2>1, <2>7
  <2> QED BY <1>10, <2>2, <2>3, <2>4, <2>5, <2>6, <2>7
<1>19. IsDeterministic(j)
  BY <1>16 DEF IsDeterministic
<1> QED BY <1>17, <1>4, <1>19

(* An automaton of which only the flag is changed.                         *)
LEMMA FlagSet ==
  ASSUME NEW m, IsAutomaton(m, Nat), ~ IsSingleton(m),
         NEW det \in BOOLEAN, det => IsDeterministic(m)
  PROVE  /\ Sound([m EXCEPT !.det = det]) /\ ~ IsSingleton([m EXCEPT !.det = det])
         /\ NoneDead(m) => Tidy([m EXCEPT !.det = det])
<1> DEFINE r == [m EXCEPT !.det = det]
<1>1. /\ m \in [word : SUBSET Seq(Char), q0 : Nat, acc : SUBSET Nat,
                trans : SUBSET (Nat \X Char \X Char \X Nat), det : BOOLEAN]
      /\ IsFiniteSet(m.trans) /\ \A t \in m.trans : t[2] <= t[3]
      /\ m.word = {}
  BY DEF IsAutomaton, IsSingleton
<1>2. /\ r \in [word : SUBSET Seq(Char), q0 : Nat, acc : SUBSET Nat,
                trans : SUBSET (Nat \X Char \X Char \X Nat), det : BOOLEAN]
      /\ r.trans = m.trans /\ r.word = {} /\ r.det = det /\ r.acc = m.acc
  BY <1>1
<1> HIDE DEF r
<1>3. IsAutomaton(r, Nat) /\ ~ IsSingleton(r)
  BY <1>1, <1>2 DEF IsAutomaton, IsSingleton
<1>4. r.det => IsDeterministic(r)
  BY <1>2 DEF IsDeterministic
<1>5. NoneDead(m) => NoneDead(r)
  <2>1. Productive(m) \subseteq Productive(r)
    BY <1>2, ProductiveGrows
  <2> QED BY <1>2, <2>1 DEF NoneDead
<1> QED BY <1>3, <1>4, <1>5 DEF r, Sound, Tidy, IsHonest

LEMMA ConcatenateTidy ==
  ASSUME NEW m1, Tidy(m1), NEW m2, Tidy(m2)
  PROVE  Tidy(Concatenate(m1, m2))
<1> DEFINE f == Follow(m1, m2)
           det == IsSingleton(m1) /\ m2.det
<1>1. /\ m1.word \subseteq Seq(Char) /\ m2.word \subseteq Seq(Char) /\ m2.det \in BOOLEAN
      /\ Sound(m1) /\ Sound(m2) /\ NoneDead(m1) /\ NoneDead(m2)
  BY DEF Tidy, Sound, IsAutomaton
<1>2. CASE IsSingleton(m1) /\ IsSingleton(m2)
  <2> DEFINE v == CHOOSE v \in m1.word : TRUE
             w == CHOOSE w \in m2.word : TRUE
  <2>1. v \in Seq(Char) /\ w \in Seq(Char)
    BY <1>1, <1>2 DEF IsSingleton
  <2>2. ~ IsEmpty(m1) /\ ~ IsEmpty(m2)
    BY <1>2 DEF IsEmpty
  <2>3. Concatenate(m1, m2) = Singleton(v \o w)
    BY <1>2, <2>2 DEF Concatenate
  <2> HIDE DEF v, w
  <2>4. v \o w \in Seq(Char)
    BY <2>1
  <2> QED BY <2>3, <2>4, EmptyIsTidy
<1>3. CASE ~ (IsSingleton(m1) /\ IsSingleton(m2)) /\ (IsEmpty(m1) \/ IsEmpty(m2))
  <2>1. Concatenate(m1, m2) = MakeEmpty
    BY <1>3 DEF Concatenate
  <2> QED BY <2>1, EmptyIsTidy
<1>4. CASE ~ (IsSingleton(m1) /\ IsSingleton(m2)) /\ ~ (IsEmpty(m1) \/ IsEmpty(m2))
  <2>1. Concatenate(m1, m2) = [f EXCEPT !.det = det]
    BY <1>4 DEF Concatenate
  <2>2. IsAutomaton(f, Nat) /\ ~ IsSingleton(f) /\ NoneDead(f)
    BY <1>1, <1>4, Follows
  <2>3. det => IsDeterministic(f)
    BY <1>1, <1>4, WordBefore
  <2>4. det \in BOOLEAN
    OBVIOUS
  <2> HIDE DEF f, det
  <2>5. Tidy([f EXCEPT !.det = det])
    BY <2>2, <2>3, <2>4, FlagSet
  <2> QED BY <2>1, <2>5
<1> QED BY <1>2, <1>3, <1>4

(* Epsilon moves added to an automaton that does not count as              *)
(* deterministic.                                                          *)
LEMMA Launched ==
  ASSUME NEW Q, NEW m, IsAutomaton(m, Q), ~ IsSingleton(m), ~ m.det,
         NEW pairs, IsFiniteSet(pairs), \A p \in pairs : p[1] \in Q
  PROVE  LET n == Numbered(AddEpsilons(m, pairs))
         IN  Sound(n) /\ ~ IsSingleton(n) /\ ~ n.det /\ (NoneDead(m) => Tidy(n))
<1> DEFINE r == AddEpsilons(m, pairs)
<1>1. IsAutomaton(r, Q) /\ ~ r.det /\ (NoneDead(m) => NoneDead(r))
  BY EpsilonsAdded
<1> HIDE DEF r
<1>2. IsAutomaton(Numbered(r), Nat) /\ ~ IsSingleton(Numbered(r)) /\ Numbered(r).det = r.det
  BY <1>1, NamesChanged
<1>3. NoneDead(m) => NoneDead(Numbered(r))
  BY <1>1, NumberedNoneDead
<1> QED BY <1>1, <1>2, <1>3 DEF r, Sound, Tidy, IsHonest

(* union                                                                   *)
LEMMA UnionTidy ==
  ASSUME NEW m1, Tidy(m1), NEW m2, Tidy(m2)
  PROVE  Tidy(Union2(m1, m2))
<1> DEFINE Q == Nat \X Nat
           b == Beside(m1, m2)
           pairs == {<<b.both.q0, b.one.q0>>, <<b.both.q0, b.two.q0>>}
           n == Numbered(AddEpsilons(b.both, pairs))
<1>1. Union2(m1, m2) \in {m1, n}
  BY DEF Union2
<1>2. /\ IsAutomaton(b.both, Q) /\ ~ IsSingleton(b.both)
      /\ b.both.q0 = <<0, 0>> /\ b.both.det = FALSE
      /\ NoneDead(b.both)
  BY PutBeside DEF Tidy
<1>3. <<0, 0>> \in Q
  OBVIOUS
<1> HIDE DEF b, Q
<1>4. /\ IsFiniteSet(pairs)
      /\ \A p \in pairs : p[1] \in Q
  <2>1. b.both.q0 \in Q
    BY <1>2, <1>3
  <2>2. \A p \in pairs : p[1] \in Q
    BY <2>1
  <2> DEFINE x == <<b.both.q0, b.one.q0>>
             y == <<b.both.q0, b.two.q0>>
  <2>3. pairs = {x} \cup {y}
    OBVIOUS
  <2> HIDE DEF x, y, pairs
  <2>4. IsFiniteSet({x}) /\ IsFiniteSet({y})
    BY FS_Singleton
  <2>5. IsFiniteSet({x} \cup {y})
    BY <2>4, FS_Union
  <2> QED BY <2>2, <2>3, <2>5
<1> HIDE DEF pairs
<1>5. Tidy(n)
  BY <1>2, <1>4, Launched
<1> QED BY <1>1, <1>5

(* The copies of those that are not empty.                                 *)
Copies(l) == {Tagged(i, ExpandSingleton(l[i])) : i \in {j \in DOMAIN l : ~ IsEmpty(l[j])}}

LEMMA Gathered ==
  ASSUME NEW l, IsFiniteSet(DOMAIN l), DOMAIN l \subseteq Nat, \A i \in DOMAIN l : Sound(l[i])
  PROVE  LET Q == Nat \X Nat
             m == Explicit(<<0, 0>>, UNION {b.acc : b \in Copies(l)},
                           UNION {b.trans : b \in Copies(l)}, FALSE)
             pairs == {<<<<0, 0>>, b.q0>> : b \in Copies(l)}
         IN  /\ UnionList(l) = Numbered(AddEpsilons(m, pairs))
             /\ IsAutomaton(m, Q) /\ ~ IsSingleton(m) /\ ~ m.det
             /\ m.q0 = <<0, 0>> /\ m.acc = UNION {b.acc : b \in Copies(l)}
             /\ m.trans = UNION {b.trans : b \in Copies(l)}
             /\ IsFiniteSet(pairs) /\ \A p \in pairs : p[1] \in Q
<1> DEFINE Q == Nat \X Nat
           D == {i \in DOMAIN l : ~ IsEmpty(l[i])}
           P == Copies(l)
           A == UNION {b.acc : b \in P}
           T == UNION {b.trans : b \in P}
           m == Explicit(<<0, 0>>, A, T, FALSE)
           pairs == {<<<<0, 0>>, b.q0>> : b \in P}
           n == Numbered(AddEpsilons(m, pairs))
<1>1. UnionList(l) = n
  BY DEF UnionList, Copies
<1>2. <<0, 0>> \in Q
  OBVIOUS
<1>3. IsFiniteSet(P)
  <2> DEFINE f == [i \in D |-> Tagged(i, ExpandSingleton(l[i]))]
  <2>1. IsFiniteSet(D)
    BY FS_Subset
  <2>2. f \in [D -> P]
    BY DEF Copies
  <2>3. IsFiniteSet({f[i] : i \in D})
    <3> HIDE DEF f, D, P
    <3> QED BY <2>1, <2>2, FiniteImage
  <2> QED BY <2>3 DEF Copies
<1>4. \A i \in D : IsAutomaton(Tagged(i, ExpandSingleton(l[i])), Q)
  <2> SUFFICES ASSUME NEW i \in D PROVE IsAutomaton(Tagged(i, ExpandSingleton(l[i])), Q)
    OBVIOUS
  <2>1. IsAutomaton(ExpandSingleton(l[i]), Nat) /\ i \in Nat
    BY Expanded DEF Sound
  <2> QED BY <2>1, TaggedIsOne
<1>5. \A b \in P : IsAutomaton(b, Q)
  BY <1>4 DEF Copies
<1> HIDE DEF P, Q
<1>6. \A b \in P : /\ b.acc \subseteq Q /\ b.trans \subseteq Q \X Char \X Char \X Q
                   /\ IsFiniteSet(b.trans) /\ \A t \in b.trans : t[2] <= t[3]
  BY <1>5, Parts
<1>7. A \in SUBSET Q /\ T \in SUBSET (Q \X Char \X Char \X Q) /\ \A t \in T : t[2] <= t[3]
  BY <1>6
<1>8. IsFiniteSet(T)
  <2> DEFINE f == [b \in P |-> b.trans]
             R == {f[b] : b \in P}
             S == {b.trans : b \in P}
  <2>1. f \in [P -> S]
    OBVIOUS
  <2>2. IsFiniteSet({f[b] : b \in P})
    <3> HIDE DEF f, S
    <3> QED BY <1>3, <2>1, FiniteImage
  <2>3. \A x \in R : IsFiniteSet(x)
    BY <1>6
  <2>4. T = UNION R
    OBVIOUS
  <2>5. IsFiniteSet(R)
    BY <2>2
  <2> HIDE DEF R, T
  <2>6. IsFiniteSet(UNION R)
    BY <2>3, <2>5, FS_UNION
  <2> QED BY <2>4, <2>6
<1> HIDE DEF A, T
<1>9. /\ IsAutomaton(m, Q) /\ ~ IsSingleton(m)
      /\ m.q0 = <<0, 0>> /\ m.acc = A /\ m.trans = T /\ ~ m.det
  <2>1. ~ m.det
    BY DEF Explicit
  <2>2. IsAutomaton(m, Q) /\ ~ IsSingleton(m) /\ m.q0 = <<0, 0>> /\ m.acc = A /\ m.trans = T
    <3> DEFINE z == <<0, 0>>
               no == FALSE
    <3>1. z \in Q /\ no \in BOOLEAN
      BY <1>2
    <3> HIDE DEF z, no
    <3>2. LET n0 == Explicit(z, A, T, no)
          IN  IsAutomaton(n0, Q) /\ ~ IsSingleton(n0) /\ n0.q0 = z /\ n0.acc = A /\ n0.trans = T
      BY <1>7, <1>8, <3>1, Made
    <3> QED BY <3>2 DEF z, no
  <2> QED BY <2>1, <2>2
<1> HIDE DEF m
<1>10. IsFiniteSet(pairs)
  <2> DEFINE f == [b \in P |-> <<<<0, 0>>, b.q0>>]
  <2>1. f \in [P -> pairs]
    OBVIOUS
  <2>2. IsFiniteSet({f[b] : b \in P})
    <3> HIDE DEF f, pairs
    <3> QED BY <1>3, <2>1, FiniteImage
  <2> QED BY <2>2
<1>11. \A p \in pairs : p[1] \in Q
  BY <1>2
<1> QED BY <1>1, <1>9, <1>10, <1>11 DEF m, A, T, P, Q

LEMMA UnionListTidy ==
  ASSUME NEW l, IsFiniteSet(DOMAIN l), DOMAIN l \subseteq Nat, \A i \in DOMAIN l : Tidy(l[i])
  PROVE  Tidy(UnionList(l))
<1> DEFINE Q == Nat \X Nat
           P == Copies(l)
           m == Explicit(<<0, 0>>, UNION {b.acc : b \in P}, UNION {b.trans : b \in P}, FALSE)
           pairs == {<<<<0, 0>>, b.q0>> : b \in P}
<1>1. /\ UnionList(l) = Numbered(AddEpsilons(m, pairs))
      /\ IsAutomaton(m, Q) /\ ~ IsSingleton(m) /\ ~ m.det
      /\ m.acc = UNION {b.acc : b \in P} /\ m.trans = UNION {b.trans : b \in P}
      /\ IsFiniteSet(pairs) /\ \A p \in pairs : p[1] \in Q
  BY Gathered DEF Tidy
<1>2. \A b \in P : NoneDead(b)
  <2> SUFFICES ASSUME NEW i \in DOMAIN l PROVE NoneDead(Tagged(i, ExpandSingleton(l[i])))
    BY DEF Copies
  <2>1. Sound(l[i]) /\ NoneDead(l[i]) /\ i \in Nat
    BY DEF Tidy
  <2>2. IsAutomaton(ExpandSingleton(l[i]), Nat) /\ NoneDead(ExpandSingleton(l[i]))
    BY <2>1, Expanded DEF Sound
  <2> QED BY <2>2, TaggedIsOne
<1> HIDE DEF P, Q, m, pairs
<1>3. NoneDead(m)
  <2>1. \A b \in P : Productive(b) \subseteq Productive(m)
    <3> SUFFICES ASSUME NEW b \in P PROVE Productive(b) \subseteq Productive(m)
      OBVIOUS
    <3>1. b.acc \subseteq m.acc /\ b.trans \subseteq m.trans
      BY <1>1
    <3> QED BY <3>1, ProductiveGrows
  <2>2. \A t \in m.trans : \E b \in P : t \in b.trans
    BY <1>1
  <2> QED BY <1>2, <2>1, <2>2 DEF NoneDead
<1> QED BY <1>1, <1>3, Launched

(* optional and repeat                                                     *)
LEMMA FirstMakes ==
  ASSUME NEW m, Sound(m)
  PROVE  LET b == Beside(m, MakeEmpty)
             c == Unlinked(b, b.both.acc \cup {b.both.q0})
             pairs == {<<b.both.q0, b.one.q0>>}
         IN  /\ AcceptFirst(b) = AddEpsilons(c, pairs)
             /\ IsAutomaton(c, Nat \X Nat) /\ ~ IsSingleton(c) /\ ~ c.det
             /\ c.q0 = <<0, 0>> /\ c.trans = b.both.trans
             /\ \A x : x \in c.acc <=> x \in b.both.acc \/ x = <<0, 0>>
             /\ b.both.q0 = <<0, 0>>
             /\ IsFiniteSet(pairs) /\ \A p \in pairs : p[1] \in Nat \X Nat
<1> DEFINE Q == Nat \X Nat
           b == Beside(m, MakeEmpty)
           acc == b.both.acc \cup {b.both.q0}
           c == Unlinked(b, acc)
           pairs == {<<b.both.q0, b.one.q0>>}
<1>1. AcceptFirst(b) = AddEpsilons(c, pairs)
  BY DEF AcceptFirst, Unlinked
<1>2. Sound(MakeEmpty)
  BY EmptyIsTidy DEF Tidy
<1>3. /\ IsAutomaton(b.both, Q) /\ ~ IsSingleton(b.both)
      /\ b.both.q0 = <<0, 0>> /\ b.both.det = FALSE
  BY <1>2, PutBeside
<1>4. <<0, 0>> \in Q
  OBVIOUS
<1> HIDE DEF b, Q
<1>5. /\ b.both \in [word : SUBSET Seq(Char), q0 : Q, acc : SUBSET Q,
                     trans : SUBSET (Q \X Char \X Char \X Q), det : BOOLEAN]
      /\ IsFiniteSet(b.both.trans) /\ \A t \in b.both.trans : t[2] <= t[3]
      /\ b.both.word = {}
  BY <1>3 DEF IsAutomaton, IsSingleton
<1>6. acc \in SUBSET Q
  BY <1>3, <1>4, <1>5
<1> HIDE DEF acc
<1>7. /\ c \in [word : SUBSET Seq(Char), q0 : Q, acc : SUBSET Q,
                trans : SUBSET (Q \X Char \X Char \X Q), det : BOOLEAN]
      /\ c.q0 = <<0, 0>> /\ c.trans = b.both.trans /\ c.word = {} /\ c.det = FALSE
      /\ c.acc = acc
  BY <1>3, <1>5, <1>6 DEF Unlinked
<1> HIDE DEF c
<1>8. IsAutomaton(c, Q) /\ ~ IsSingleton(c)
  BY <1>5, <1>7 DEF IsAutomaton, IsSingleton
<1>9. IsFiniteSet(pairs) /\ \A p \in pairs : p[1] \in Q
  <2>1. \A p \in pairs : p[1] \in Q
    BY <1>3, <1>4
  <2> DEFINE x == <<b.both.q0, b.one.q0>>
  <2>2. pairs = {x}
    OBVIOUS
  <2> HIDE DEF x, pairs
  <2> QED BY <2>1, <2>2, FS_Singleton
<1>10. \A x : x \in c.acc <=> x \in b.both.acc \/ x = <<0, 0>>
  BY <1>3, <1>7 DEF acc
<1> QED BY <1>1, <1>3, <1>7, <1>8, <1>9, <1>10 DEF c, acc, pairs, b, Q

LEMMA AcceptsFirst ==
  ASSUME NEW m, Tidy(m)
  PROVE  LET b == Beside(m, MakeEmpty)
             f == AcceptFirst(b)
         IN  /\ IsAutomaton(f, Nat \X Nat) /\ ~ IsSingleton(f) /\ ~ f.det /\ NoneDead(f)
             /\ b.both.q0 \in Nat \X Nat
             /\ IsFiniteSet(GetAcceptStates(b.one)) /\ GetAcceptStates(b.one) \subseteq Nat \X Nat
<1> DEFINE Q == Nat \X Nat
           b == Beside(m, MakeEmpty)
           c == Unlinked(b, b.both.acc \cup {b.both.q0})
           pairs == {<<b.both.q0, b.one.q0>>}
           f == AcceptFirst(b)
<1>1. /\ f = AddEpsilons(c, pairs)
      /\ IsAutomaton(c, Q) /\ ~ IsSingleton(c) /\ ~ c.det
      /\ c.q0 = <<0, 0>> /\ c.trans = b.both.trans
      /\ \A x : x \in c.acc <=> x \in b.both.acc \/ x = <<0, 0>>
      /\ b.both.q0 = <<0, 0>>
      /\ IsFiniteSet(pairs) /\ \A p \in pairs : p[1] \in Q
  BY FirstMakes DEF Tidy
<1> HIDE DEF f, c, pairs
<1>2. Sound(MakeEmpty) /\ NoneDead(MakeEmpty) /\ Sound(m) /\ NoneDead(m)
  BY EmptyIsTidy DEF Tidy
<1>3. IsAutomaton(b.one, Q) /\ NoneDead(b.both)
  BY <1>2, PutBeside
<1>4. <<0, 0>> \in Q
  OBVIOUS
<1> HIDE DEF b, Q
<1>5. NoneDead(c)
  <2>1. b.both.acc \subseteq c.acc
    BY <1>1
  <2>2. Productive(b.both) \subseteq Productive(c)
    BY <1>1, <2>1, ProductiveGrows
  <2> QED BY <1>1, <1>3, <2>2 DEF NoneDead
<1>7. IsAutomaton(f, Q) /\ ~ IsSingleton(f) /\ f.det = c.det /\ NoneDead(f)
  BY <1>1, <1>5, EpsilonsAdded
<1>8. IsFiniteSet(GetAcceptStates(b.one)) /\ GetAcceptStates(b.one) \subseteq Q
  BY <1>3, AcceptingStates
<1> QED BY <1>1, <1>4, <1>7, <1>8 DEF f, b, Q

LEMMA OptionalTidy ==
  ASSUME NEW m, Tidy(m)
  PROVE  Tidy(Optional(m))
<1> DEFINE f == AcceptFirst(Beside(m, MakeEmpty))
<1>1. IsAutomaton(f, Nat \X Nat) /\ ~ f.det /\ NoneDead(f)
  BY AcceptsFirst
<1>2. Optional(m) = Numbered(f)
  BY DEF Optional
<1> HIDE DEF f
<1>3. IsAutomaton(Numbered(f), Nat) /\ Numbered(f).det = f.det
  BY <1>1, NamesChanged
<1>4. NoneDead(Numbered(f))
  BY <1>1, NumberedNoneDead
<1> QED BY <1>1, <1>2, <1>3, <1>4 DEF Sound, Tidy, IsHonest

LEMMA RepeatTidy ==
  ASSUME NEW m, Tidy(m)
  PROVE  Tidy(Repeat(m)) /\ ~ IsSingleton(Repeat(m))
<1> DEFINE Q == Nat \X Nat
           b == Beside(m, MakeEmpty)
           f == AcceptFirst(b)
           ends == GetAcceptStates(b.one)
           pairs == ends \X {b.both.q0}
<1>1. Repeat(m) = Numbered(AddEpsilons(f, pairs))
  BY DEF Repeat
<1>2. /\ IsAutomaton(f, Q) /\ ~ IsSingleton(f) /\ ~ f.det /\ NoneDead(f)
      /\ IsFiniteSet(ends) /\ ends \subseteq Q
  BY AcceptsFirst
<1> HIDE DEF b, f, Q, ends
<1>3. IsFiniteSet(pairs) /\ \A p \in pairs : p[1] \in Q
  BY <1>2, FS_Singleton, FS_Product
<1> HIDE DEF pairs
<1>4. Tidy(Numbered(AddEpsilons(f, pairs))) /\ ~ IsSingleton(Numbered(AddEpsilons(f, pairs)))
  BY <1>2, <1>3, Launched
<1> QED BY <1>1, <1>4

TidyOnes ==
  {m \in [word : SUBSET Seq(Char), q0 : Nat, acc : SUBSET Nat,
          trans : SUBSET (Nat \X Char \X Char \X Nat), det : BOOLEAN] : Tidy(m)}

LEMMA AllTidy == \A m : m \in TidyOnes <=> Tidy(m)
BY DEF TidyOnes, Tidy, Sound, IsAutomaton

(* The words of the list appended one after the other.                     *)
Spelled(r, l) ==
  /\ r[0] = <<>>
  /\ \A i \in 0..Len(l) : r[i] \in Seq(Char)
  /\ \A i \in 1..Len(l) : r[i] = r[i - 1] \o (CHOOSE w \in l[i].word : TRUE)
  /\ ConcatenateWords(l) = Singleton(r[Len(l)])

LEMMA WordsSpelled ==
  ASSUME NEW l, Len(l) \in Nat,
         \A i \in 1..Len(l) : l[i].word # {} /\ l[i].word \subseteq Seq(Char)
  PROVE  \E r : Spelled(r, l)
<1> DEFINE n == Len(l)
           V == Seq(Char)
           pick == [i \in 1..n |-> CHOOSE w \in l[i].word : TRUE]
           Grown(f) == f = [i \in 0..Len(l) |->
                              IF i = 0 THEN <<>> ELSE f[i - 1] \o (CHOOSE w \in l[i].word : TRUE)]
           r == CHOOSE f : Grown(f)
           next == [i \in 1..n |-> [x \in V |-> x \o pick[i]]]
<1>1. ConcatenateWords(l) = Singleton(r[n])
  BY DEF ConcatenateWords
<1>2. pick \in [1..n -> V] /\ \A i \in 1..n : pick[i] = CHOOSE w \in l[i].word : TRUE
  OBVIOUS
<1> HIDE DEF pick
<1>3. next \in [1..n -> [V -> V]] /\ \A i \in 1..n : \A x \in V : next[i][x] = x \o pick[i]
  BY <1>2
<1>4. <<>> \in V
  OBVIOUS
<1> HIDE DEF next
<1>5. PICK f : IteratesUpto(f, n, V, <<>>, next)
  BY <1>3, <1>4, BoundedIteration
<1>6. f \in [0..n -> V] /\ f[0] = <<>> /\ \A i \in 1..n : f[i] = next[i][f[i - 1]]
  BY <1>5 DEF IteratesUpto
<1>7. \A i \in 1..n : f[i] = f[i - 1] \o pick[i]
  <2> TAKE i \in 1..n
  <2>1. i - 1 \in 0..n
    OBVIOUS
  <2>2. f[i - 1] \in V
    BY <1>6, <2>1
  <2> QED BY <1>3, <1>6, <2>2
<1>8. Grown(f)
  <2>1. \A i \in 0..n : i # 0 => i \in 1..n
    OBVIOUS
  <2>2. \A i \in 0..n : f[i] = IF i = 0 THEN <<>> ELSE f[i - 1] \o (CHOOSE w \in l[i].word : TRUE)
    BY <1>2, <1>6, <1>7, <2>1
  <2>3. f = [i \in 0..n |-> f[i]]
    BY <1>6
  <2> QED BY <2>2, <2>3
<1>9. Grown(r)
  BY <1>8
<1> HIDE DEF r
<1>10. r[0] = <<>> /\ \A i \in 1..n : r[i] = r[i - 1] \o pick[i]
  <2>1. 0 \in 0..n /\ \A i \in 1..n : i \in 0..n /\ i # 0
    OBVIOUS
  <2>2. \A i \in 0..n : r[i] = IF i = 0 THEN <<>> ELSE r[i - 1] \o (CHOOSE w \in l[i].word : TRUE)
    BY <1>9
  <2> QED BY <1>2, <2>1, <2>2
<1>11. ASSUME NEW i \in 1..n, r[i - 1] \in V PROVE r[i] \in V
  <2>1. \A x, y \in V : x \o y \in V
    OBVIOUS
  <2>2. pick[i] \in V /\ r[i] = r[i - 1] \o pick[i]
    BY <1>2, <1>10
  <2> HIDE DEF V
  <2> QED BY <1>11, <2>1, <2>2
<1>12. r[0] \in V
  BY <1>4, <1>10
<1>13. n \in Nat
  OBVIOUS
<1> HIDE DEF n, V
<1>14. \A i \in 0..n : r[i] \in V
  BY <1>11, <1>12, <1>13, StaysWithin
<1>15. \A i \in 1..n : r[i] = r[i - 1] \o (CHOOSE w \in l[i].word : TRUE)
  BY <1>2, <1>10 DEF n
<1>16. Spelled(r, l)
  BY <1>1, <1>10, <1>14, <1>15 DEF Spelled, V, n
<1> QED BY <1>16

LEMMA WordsTidy ==
  ASSUME NEW l, Len(l) \in Nat,
         \A i \in 1..Len(l) : l[i].word # {} /\ l[i].word \subseteq Seq(Char)
  PROVE  Tidy(ConcatenateWords(l))
<1>1. PICK r : Spelled(r, l)
  BY WordsSpelled
<1>2. r[Len(l)] \in Seq(Char) /\ ConcatenateWords(l) = Singleton(r[Len(l)])
  BY <1>1 DEF Spelled
<1> QED BY <1>2, EmptyIsTidy

(* The automata of the list linked one after the other.                    *)
Attached(r, l) ==
  /\ r[1] = ExpandSingleton(l[1])
  /\ \A i \in 1..Len(l) : Tidy(r[i]) /\ ~ IsSingleton(r[i])
  /\ \A i \in 2..Len(l) :
       r[i] = IF IsEmptyString(l[i]) THEN r[i - 1] ELSE Follow(r[i - 1], l[i])
  /\ ConcatenateParts(l) = [r[Len(l)] EXCEPT !.det = FALSE]

LEMMA PartsAttached ==
  ASSUME NEW l, Len(l) \in Nat, Len(l) # 0,
         \A i \in 1..Len(l) : Tidy(l[i]) /\ ~ IsEmpty(l[i])
  PROVE  \E r : Attached(r, l)
<1> DEFINE n == Len(l)
           V == {m \in TidyOnes : ~ IsSingleton(m)}
           first == ExpandSingleton(l[1])
           More(x, i) == IF IsEmptyString(l[i]) THEN x ELSE Follow(x, l[i])
           Grown(f) == f = [i \in 1..Len(l) |->
                              IF i = 1 THEN ExpandSingleton(l[1])
                              ELSE IF IsEmptyString(l[i]) THEN f[i - 1]
                              ELSE Follow(f[i - 1], l[i])]
           r == CHOOSE f : Grown(f)
           next == [i \in 1..n - 1 |-> [x \in V |-> More(x, i + 1)]]
<1>1. ConcatenateParts(l) = [r[n] EXCEPT !.det = FALSE]
  BY DEF ConcatenateParts
<1>2. n \in Nat /\ n - 1 \in Nat /\ 1 \in 1..n /\ n \in 1..n
  OBVIOUS
<1>3. first \in V
  <2>1. Tidy(l[1])
    BY <1>2
  <2>2. Tidy(first) /\ ~ IsSingleton(first)
    BY <2>1, Expanded DEF Tidy
  <2> HIDE DEF first
  <2> QED BY <2>2, AllTidy
<1>4. ASSUME NEW x \in V, NEW i \in 1..n PROVE More(x, i) \in V
  <2>1. Tidy(x) /\ ~ IsSingleton(x) /\ Tidy(l[i]) /\ ~ IsEmpty(l[i])
    BY AllTidy
  <2>2. /\ IsAutomaton(Follow(x, l[i]), Nat) /\ ~ IsSingleton(Follow(x, l[i]))
        /\ ~ Follow(x, l[i]).det /\ NoneDead(Follow(x, l[i]))
    BY <2>1, Follows DEF Tidy
  <2>3. Follow(x, l[i]) \in V
    BY <2>2, AllTidy DEF Sound, Tidy, IsHonest
  <2> QED BY <2>3
<1> HIDE DEF V, More
<1>5. next \in [1..n - 1 -> [V -> V]]
      /\ \A i \in 1..n - 1 : \A x \in V : next[i][x] = More(x, i + 1)
  <2>1. \A i \in 1..n - 1 : i + 1 \in 1..n
    BY <1>2
  <2> HIDE DEF n
  <2> QED BY <1>4, <2>1
<1> HIDE DEF next, first
<1>6. PICK f : IteratesUpto(f, n - 1, V, first, next)
  <2> DEFINE h == n - 1
  <2>1. h \in Nat /\ next \in [1..h -> [V -> V]]
    BY <1>2, <1>5
  <2> HIDE DEF h
  <2>2. \E f : IteratesUpto(f, h, V, first, next)
    BY <1>3, <2>1, BoundedIteration
  <2> QED BY <2>2 DEF h
<1>7. f \in [0..n - 1 -> V] /\ f[0] = first /\ \A i \in 1..n - 1 : f[i] = next[i][f[i - 1]]
  BY <1>6 DEF IteratesUpto
<1> DEFINE g == [i \in 1..n |-> f[i - 1]]
<1>8. g[1] = first /\ \A i \in 2..n : g[i] = More(g[i - 1], i)
  <2>1. g[1] = first
    BY <1>2, <1>7
  <2>2. ASSUME NEW i \in 2..n PROVE g[i] = More(g[i - 1], i)
    <3>1. /\ i \in 1..n /\ i - 1 \in 1..n /\ i - 1 \in 1..n - 1 /\ (i - 1) + 1 = i
          /\ (i - 1) - 1 \in 0..n - 1
      BY <1>2
    <3>2. g[i] = f[i - 1] /\ g[i - 1] = f[(i - 1) - 1]
      BY <3>1
    <3>3. f[i - 1] = next[i - 1][f[(i - 1) - 1]]
      BY <1>7, <3>1
    <3>4. f[(i - 1) - 1] \in V
      BY <1>7, <3>1
    <3>5. next[i - 1][f[(i - 1) - 1]] = More(f[(i - 1) - 1], (i - 1) + 1)
      BY <1>5, <3>1, <3>4
    <3> QED BY <3>1, <3>2, <3>3, <3>5
  <2> QED BY <2>1, <2>2
<1>9. \A i \in 1..n : i # 1 => i \in 2..n
  BY <1>2
<1>10. Grown(g)
  <2>1. \A i \in 1..n : g[i] = IF i = 1 THEN first ELSE More(g[i - 1], i)
    BY <1>8, <1>9
  <2>2. g = [i \in 1..n |-> g[i]]
    OBVIOUS
  <2> HIDE DEF g
  <2>3. g = [i \in 1..n |-> IF i = 1 THEN first ELSE More(g[i - 1], i)]
    BY <2>1, <2>2
  <2> QED BY <2>3 DEF More, first
<1>11. Grown(r)
  BY <1>10
<1> HIDE DEF r
<1>12. r[1] = first /\ \A i \in 2..n : r[i] = More(r[i - 1], i)
  <2>1. r = [i \in 1..n |-> IF i = 1 THEN first ELSE More(r[i - 1], i)]
    BY <1>11 DEF More, first
  <2> HIDE DEF Grown
  <2>2. \A i \in 1..n : r[i] = IF i = 1 THEN first ELSE More(r[i - 1], i)
    BY <2>1
  <2>3. \A i \in 2..n : i \in 1..n /\ i # 1
    BY <1>2
  <2> QED BY <1>2, <2>2, <2>3
<1>13. \A i \in 1..n : r[i] \in V
  <2> DEFINE s == [i \in 0..n - 1 |-> r[i + 1]]
  <2>1. s[0] \in V
    BY <1>2, <1>3, <1>12
  <2>2. ASSUME NEW i \in 1..n - 1, s[i - 1] \in V PROVE s[i] \in V
    <3>1. /\ i + 1 \in 2..n /\ i + 1 \in 1..n /\ i \in 0..n - 1 /\ i - 1 \in 0..n - 1
          /\ (i - 1) + 1 = i /\ (i + 1) - 1 = i
      BY <1>2
    <3>2. s[i] = r[i + 1] /\ s[i - 1] = r[i]
      BY <3>1
    <3>3. r[i + 1] = More(r[i], i + 1)
      BY <1>12, <3>1
    <3> QED BY <1>4, <2>2, <3>1, <3>2, <3>3
  <2> HIDE DEF s
  <2> DEFINE h == n - 1
  <2>3. h \in Nat /\ (\A i \in 1..h : s[i - 1] \in V => s[i] \in V) /\ h \in 0..h
    BY <1>2, <2>2
  <2>4. \A i \in 0..h : s[i] \in V
    <3> HIDE DEF h
    <3> QED BY <2>1, <2>3, StaysWithin
  <2>5. ASSUME NEW i \in 1..n PROVE r[i] \in V
    <3>1. i - 1 \in 0..n - 1 /\ (i - 1) + 1 = i
      BY <1>2
    <3>2. s[i - 1] = r[i]
      BY <3>1 DEF s
    <3>3. s[i - 1] \in V
      BY <2>4, <3>1
    <3> QED BY <3>2, <3>3
  <2> QED BY <2>5
<1>14. \A i \in 1..n : Tidy(r[i]) /\ ~ IsSingleton(r[i])
  BY <1>13, AllTidy DEF V
<1>15. \A i \in 2..n : r[i] = IF IsEmptyString(l[i]) THEN r[i - 1] ELSE Follow(r[i - 1], l[i])
  BY <1>12 DEF More
<1>16. r[1] = ExpandSingleton(l[1])
  BY <1>12 DEF first
<1>17. Attached(r, l)
  BY <1>1, <1>14, <1>15, <1>16 DEF Attached
<1> QED BY <1>17

(* What linking automata makes is never a singleton.                       *)
LEMMA PartsTidy ==
  ASSUME NEW l, Len(l) \in Nat, Len(l) # 0,
         \A i \in 1..Len(l) : Tidy(l[i]) /\ ~ IsEmpty(l[i])
  PROVE  Tidy(ConcatenateParts(l))
<1>1. PICK r : Attached(r, l)
  BY PartsAttached
<1> DEFINE m == r[Len(l)]
           det == FALSE
<1>2. Len(l) \in 1..Len(l)
  OBVIOUS
<1>3. Tidy(m) /\ ~ IsSingleton(m)
  BY <1>1, <1>2 DEF Attached
<1>4. IsAutomaton(m, Nat) /\ ~ IsSingleton(m) /\ det \in BOOLEAN /\ ~ det /\ NoneDead(m)
  BY <1>3 DEF Tidy, Sound
<1>5. ConcatenateParts(l) = [m EXCEPT !.det = det]
  BY <1>1 DEF Attached
<1> HIDE DEF m, det
<1>6. Tidy([m EXCEPT !.det = det])
  BY <1>4, FlagSet
<1> QED BY <1>5, <1>6

LEMMA ConcatenateListTidy ==
  ASSUME NEW l, Len(l) \in Nat, DOMAIN l = 1..Len(l), \A i \in 1..Len(l) : Tidy(l[i])
  PROVE  Tidy(ConcatenateList(l))
<1>1. CASE \A i \in DOMAIN l : IsSingleton(l[i])
  <2>1. ConcatenateList(l) \in {ConcatenateWords(l)} \/ \E i \in DOMAIN l : IsEmpty(l[i])
    BY <1>1 DEF ConcatenateList
  <2>2. \A i \in DOMAIN l : ~ IsEmpty(l[i])
    BY <1>1 DEF IsEmpty
  <2>3. \A i \in 1..Len(l) : l[i].word # {} /\ l[i].word \subseteq Seq(Char)
    BY <1>1 DEF IsSingleton, Tidy, Sound, IsAutomaton
  <2>4. Tidy(ConcatenateWords(l))
    BY <2>3, WordsTidy
  <2> QED BY <2>1, <2>2, <2>4
<1>2. CASE ~ (\A i \in DOMAIN l : IsSingleton(l[i])) /\ \E i \in DOMAIN l : IsEmpty(l[i])
  <2>1. ConcatenateList(l) = MakeEmpty
    BY <1>2 DEF ConcatenateList
  <2> QED BY <2>1, EmptyIsTidy
<1>3. CASE ~ (\A i \in DOMAIN l : IsSingleton(l[i])) /\ ~ (\E i \in DOMAIN l : IsEmpty(l[i]))
  <2>1. ConcatenateList(l) = ConcatenateParts(l)
    BY <1>3 DEF ConcatenateList
  <2>2. Len(l) # 0
    <3> SUFFICES ASSUME Len(l) = 0 PROVE FALSE
      OBVIOUS
    <3>1. DOMAIN l = 1..0
      OBVIOUS
    <3>2. DOMAIN l = {}
      BY <3>1
    <3> QED BY <1>3, <3>2
  <2>3. Tidy(ConcatenateParts(l))
    BY <1>3, <2>2, PartsTidy
  <2> QED BY <2>1, <2>3
<1> QED BY <1>1, <1>2, <1>3

(* e linked before what it makes, n times.                                 *)
Lengthened(r, e, n) ==
  /\ r[0] = e
  /\ \A i \in 0..n : Tidy(r[i])
  /\ \A i \in 1..n : r[i] = FollowOrStop(e, r[i - 1])
  /\ Optionally(e, n) = r[n]

LEMMA OptionallyLengthens ==
  ASSUME NEW e, Tidy(e), NEW n \in Nat
  PROVE  \E r : Lengthened(r, e, n)
<1> DEFINE V == TidyOnes
           Grown(f) == f = [i \in 0..n |-> IF i = 0 THEN e ELSE FollowOrStop(e, f[i - 1])]
           r == CHOOSE f : Grown(f)
           next == [i \in 1..n |-> [x \in V |-> FollowOrStop(e, x)]]
<1>1. Optionally(e, n) = r[n]
  BY DEF Optionally
<1>2. \A x \in V : FollowOrStop(e, x) \in V
  <2> SUFFICES ASSUME NEW x \in V PROVE FollowOrStop(e, x) \in V
    OBVIOUS
  <2>1. Tidy(x)
    BY AllTidy
  <2>2. /\ IsAutomaton(FollowOrStop(e, x), Nat) /\ ~ FollowOrStop(e, x).det
        /\ NoneDead(FollowOrStop(e, x))
    BY <2>1, Follows DEF Tidy
  <2> QED BY <2>2, AllTidy DEF Sound, Tidy, IsHonest
<1>3. e \in V
  BY AllTidy
<1> HIDE DEF V
<1>4. next \in [1..n -> [V -> V]] /\ \A i \in 1..n : \A x \in V : next[i][x] = FollowOrStop(e, x)
  BY <1>2
<1> HIDE DEF next
<1>5. PICK f : IteratesUpto(f, n, V, e, next)
  BY <1>3, <1>4, BoundedIteration
<1>6. f \in [0..n -> V] /\ f[0] = e /\ \A i \in 1..n : f[i] = next[i][f[i - 1]]
  BY <1>5 DEF IteratesUpto
<1>7. \A i \in 1..n : f[i] = FollowOrStop(e, f[i - 1])
  <2> TAKE i \in 1..n
  <2>1. i - 1 \in 0..n
    OBVIOUS
  <2>2. f[i - 1] \in V
    BY <1>6, <2>1
  <2> QED BY <1>4, <1>6, <2>2
<1>8. Grown(f)
  <2>1. \A i \in 0..n : i # 0 => i \in 1..n
    OBVIOUS
  <2>2. \A i \in 0..n : f[i] = IF i = 0 THEN e ELSE FollowOrStop(e, f[i - 1])
    BY <1>6, <1>7, <2>1
  <2>3. f = [i \in 0..n |-> f[i]]
    BY <1>6
  <2> QED BY <2>2, <2>3
<1>9. Grown(r)
  BY <1>8
<1> HIDE DEF r
<1>10. r[0] = e /\ \A i \in 1..n : r[i] = FollowOrStop(e, r[i - 1])
  <2>1. 0 \in 0..n /\ \A i \in 1..n : i \in 0..n /\ i # 0
    OBVIOUS
  <2>2. \A i \in 0..n : r[i] = IF i = 0 THEN e ELSE FollowOrStop(e, r[i - 1])
    BY <1>9
  <2> QED BY <2>1, <2>2
<1>11. r[0] \in V /\ \A i \in 1..n : r[i - 1] \in V => r[i] \in V
  BY <1>2, <1>3, <1>10
<1>12. \A i \in 0..n : r[i] \in V
  BY <1>11, StaysWithin
<1>13. \A i \in 0..n : Tidy(r[i])
  BY <1>12, AllTidy DEF V
<1>14. Lengthened(r, e, n)
  BY <1>1, <1>10, <1>13 DEF Lengthened
<1> QED BY <1>14

LEMMA OptionallyTidy ==
  ASSUME NEW e, Tidy(e), NEW n \in Nat
  PROVE  Tidy(Optionally(e, n))
<1>1. PICK r : Lengthened(r, e, n)
  BY OptionallyLengthens
<1>2. n \in 0..n
  OBVIOUS
<1> QED BY <1>1, <1>2 DEF Lengthened

LEMMA TimesTidy ==
  ASSUME NEW m, Tidy(m), NEW h \in Nat
  PROVE  /\ Len(Times(m, h)) = h /\ Times(m, h) \in Seq(TidyOnes)
         /\ Tidy(ConcatenateList(Times(m, h)))
<1>1. m \in TidyOnes
  BY AllTidy
<1>2. Times(m, h) = [i \in 1..h |-> m]
  BY DEF Times
<1> DEFINE l == Times(m, h)
<1> HIDE DEF l
<1>3. l \in Seq(TidyOnes) /\ Len(l) = h /\ DOMAIN l = 1..h
  BY <1>1, <1>2 DEF l
<1>4. \A i \in 1..h : Tidy(l[i])
  BY <1>2 DEF l
<1>5. Tidy(ConcatenateList(l))
  BY <1>3, <1>4, ConcatenateListTidy
<1> QED BY <1>3, <1>5 DEF l

LEMMA RepeatMinTidy ==
  ASSUME NEW m, Tidy(m), NEW min \in Nat
  PROVE  Tidy(RepeatMin(m, min))
<1>1. CASE min = 0
  BY <1>1, RepeatTidy DEF RepeatMin
<1>2. CASE min # 0
  <2> DEFINE s == Times(m, min)
             l == Append(s, Repeat(m))
  <2>1. RepeatMin(m, min) = ConcatenateList(l)
    BY <1>2 DEF RepeatMin
  <2>2. s \in Seq(TidyOnes) /\ Repeat(m) \in TidyOnes
    BY TimesTidy, RepeatTidy, AllTidy
  <2> HIDE DEF s
  <2>3. l \in Seq(TidyOnes)
    BY <2>2
  <2> HIDE DEF l
  <2>4. Len(l) \in Nat /\ DOMAIN l = 1..Len(l) /\ \A i \in 1..Len(l) : l[i] \in TidyOnes
    BY <2>3
  <2>5. Tidy(ConcatenateList(l))
    BY <2>4, AllTidy, ConcatenateListTidy
  <2> QED BY <2>1, <2>5
<1> QED BY <1>1, <1>2

LEMMA RepeatMinMaxTidy ==
  ASSUME NEW m, Tidy(m), NEW min \in Nat, NEW max \in Nat
  PROVE  Tidy(RepeatMinMax(m, min, max))
<1> DEFINE e == ExpandSingleton(m)
           first == CASE min = 0 -> MakeEmptyString
                      [] min = 1 -> e
                      [] OTHER -> ConcatenateList(Times(e, min))
           n == max - min - 1
           f == FollowOrStop(first, Optionally(e, n))
           det == FALSE
<1>1. CASE min > max
  BY <1>1, EmptyIsTidy DEF RepeatMinMax
<1>2. CASE ~ (min > max)
  <2>1. RepeatMinMax(m, min, max) = IF min = max THEN first ELSE [f EXCEPT !.det = det]
    BY <1>2 DEF RepeatMinMax
  <2>2. Tidy(e)
    BY Expanded DEF Tidy
  <2> HIDE DEF e
  <2>3. Tidy(first)
    <3>1. first \in {MakeEmptyString, e, ConcatenateList(Times(e, min))}
      OBVIOUS
    <3> HIDE DEF first
    <3> QED BY <2>2, <3>1, EmptyIsTidy, TimesTidy
  <2> HIDE DEF first
  <2>4. CASE min = max
    BY <2>1, <2>3, <2>4
  <2>5. CASE min # max
    <3>1. n \in Nat
      BY <1>2, <2>5
    <3> HIDE DEF n
    <3>2. Tidy(Optionally(e, n))
      BY <2>2, <3>1, OptionallyTidy
    <3>3. IsAutomaton(f, Nat) /\ ~ IsSingleton(f) /\ NoneDead(f)
      BY <2>3, <3>2, Follows DEF Tidy
    <3>4. det \in BOOLEAN /\ ~ det
      OBVIOUS
    <3> HIDE DEF f, det
    <3>5. Tidy([f EXCEPT !.det = det])
      BY <3>3, <3>4, FlagSet
    <3> QED BY <2>1, <2>5, <3>5
  <2> QED BY <2>4, <2>5
<1> QED BY <1>1, <1>2

(* The inductive invariant of Operations: both automata are well-formed,   *)
(* do not lie about being deterministic and have no transitions to dead    *)
(* states.                                                                 *)
RegistersTidy == reg \in [1..2 -> TidyOnes]

LEMMA TidyAtFirst == CallsInit => RegistersTidy
<1> SUFFICES ASSUME CallsInit PROVE RegistersTidy
  OBVIOUS
<1>1. PICK a1 \in Base, a2 \in Base : reg = <<a1, a2>>
  BY DEF CallsInit
<1>2. a1 \in TidyOnes /\ a2 \in TidyOnes
  <2>1. \A m \in Base : Tidy(m)
    <3> SUFFICES ASSUME NEW m \in Base PROVE Tidy(m)
      OBVIOUS
    <3>1. /\ IsAutomaton(m, Nat) /\ IsHonest(m)
          /\ \A t \in m.trans : t[4] \in GetLiveStates(m)
      BY BaseAssumption
    <3>2. GetLiveStates(m) \subseteq Productive(m)
      BY <3>1, ProductiveIsLive DEF IsAutomaton
    <3> QED BY <3>1, <3>2 DEF Tidy, Sound, NoneDead
  <2> QED BY <2>1, AllTidy
<1> QED BY <1>1, <1>2 DEF RegistersTidy

LEMMA CallKeepsTidy ==
  ASSUME RegistersTidy, NEW i \in 1..2, NEW m, Tidy(m), NEW L, Call(i, m, L)
  PROVE  RegistersTidy'
<1>1. reg' = [reg EXCEPT ![i] = m]
  BY DEF Call
<1>2. m \in TidyOnes
  BY AllTidy
<1> QED BY <1>1, <1>2 DEF RegistersTidy

LEMMA TidyKept == RegistersTidy /\ [CallsNext]_callsVars => RegistersTidy'
<1> SUFFICES ASSUME RegistersTidy, [CallsNext]_callsVars PROVE RegistersTidy'
  OBVIOUS
<1>1. \A i \in 1..2 : 3 - i \in 1..2 /\ Tidy(reg[i]) /\ Tidy(reg[3 - i])
  <2>1. \A i \in 1..2 : 3 - i \in 1..2
    OBVIOUS
  <2>2. \A i \in 1..2 : reg[i] \in TidyOnes
    BY DEF RegistersTidy
  <2> QED BY <2>1, <2>2, AllTidy
<1>2. CASE DoConcatenate
  <2>1. PICK i \in 1..2 : Call(i, Concatenate(reg[i], reg[3 - i]), Cat(lang[i], lang[3 - i]))
    BY <1>2 DEF DoConcatenate
  <2>2. Tidy(Concatenate(reg[i], reg[3 - i]))
    BY <1>1, ConcatenateTidy
  <2> QED BY <2>1, <2>2, CallKeepsTidy
<1>3. CASE DoUnion
  <2>1. PICK i \in 1..2 : Call(i, Union2(reg[i], reg[3 - i]), lang[i] \cup lang[3 - i])
    BY <1>3 DEF DoUnion
  <2>2. Tidy(Union2(reg[i], reg[3 - i]))
    BY <1>1, UnionTidy
  <2> QED BY <2>1, <2>2, CallKeepsTidy
<1>4. CASE DoUnionList
  <2>1. PICK i \in 1..2 : Call(i, UnionList(<<reg[i], reg[3 - i]>>), lang[i] \cup lang[3 - i])
    BY <1>4 DEF DoUnionList
  <2> DEFINE l == <<reg[i], reg[3 - i]>>
  <2>2. DOMAIN l = 1..2 /\ \A j \in 1..2 : Tidy(l[j])
    BY <1>1
  <2>3. IsFiniteSet(1..2)
    <3>1. 1 \in Int /\ 2 \in Int
      OBVIOUS
    <3> QED BY <3>1, FS_Interval
  <2> HIDE DEF l
  <2>4. Tidy(UnionList(l))
    BY <2>2, <2>3, UnionListTidy
  <2> QED BY <2>1, <2>4, CallKeepsTidy DEF l
<1>5. CASE DoIntersection
  <2>1. PICK i \in 1..2 : Call(i, Intersection(reg[i], reg[3 - i]), lang[i] \cap lang[3 - i])
    BY <1>5 DEF DoIntersection
  <2>2. Tidy(Intersection(reg[i], reg[3 - i]))
    BY <1>1, IntersectionTidy
  <2> QED BY <2>1, <2>2, CallKeepsTidy
<1>6. CASE DoMinus
  <2>1. PICK i \in 1..2 : Call(i, Minus(reg[i], reg[3 - i]), lang[i] \ lang[3 - i])
    BY <1>6 DEF DoMinus
  <2>2. Tidy(Minus(reg[i], reg[3 - i]))
    BY <1>1, MinusTidy
  <2> QED BY <2>1, <2>2, CallKeepsTidy
<1>7. CASE DoComplement
  <2>1. PICK i \in 1..2 : Call(i, Complement(reg[i]), Word \ lang[i])
    BY <1>7 DEF DoComplement
  <2>2. Tidy(Complement(reg[i]))
    BY <1>1, ComplementTidy DEF Tidy
  <2> QED BY <2>1, <2>2, CallKeepsTidy
<1>8. CASE DoDeterminize
  <2>1. PICK i \in 1..2 : Call(i, Determinize(reg[i]), lang[i])
    BY <1>8 DEF DoDeterminize
  <2>2. Tidy(Determinize(reg[i]))
    BY <1>1, DeterminizeSound DEF Tidy
  <2> QED BY <2>1, <2>2, CallKeepsTidy
<1>9. CASE DoOptional
  <2>1. PICK i \in 1..2 : Call(i, Optional(reg[i]), lang[i] \cup {<<>>})
    BY <1>9 DEF DoOptional
  <2>2. Tidy(Optional(reg[i]))
    BY <1>1, OptionalTidy
  <2> QED BY <2>1, <2>2, CallKeepsTidy
<1>10. CASE DoRepeatMin
  <2>1. PICK i \in 1..2, min \in 0..2 :
          Call(i, RepeatMin(reg[i], min), Between(lang[i], min, min + MaxLength))
    BY <1>10 DEF DoRepeatMin
  <2>2. min \in Nat
    OBVIOUS
  <2>3. Tidy(RepeatMin(reg[i], min))
    BY <1>1, <2>2, RepeatMinTidy
  <2> QED BY <2>1, <2>3, CallKeepsTidy
<1>11. CASE DoRepeatMinMax
  <2>1. PICK i \in 1..2, min \in 0..2, max \in 1..2 :
          Call(i, RepeatMinMax(reg[i], min, max), Between(lang[i], min, max))
    BY <1>11 DEF DoRepeatMinMax
  <2>2. min \in Nat /\ max \in Nat
    OBVIOUS
  <2>3. Tidy(RepeatMinMax(reg[i], min, max))
    BY <1>1, <2>2, RepeatMinMaxTidy
  <2> QED BY <2>1, <2>3, CallKeepsTidy
<1>12. CASE StartSearch \/ SearchAccepting \/ SearchExpand \/ Found
  <2>1. reg' = reg
    BY <1>12 DEF StartSearch, SearchAccepting, SearchExpand, Found
  <2> QED BY <2>1 DEF RegistersTidy
<1>13. CASE UNCHANGED callsVars
  BY <1>13 DEF callsVars, RegistersTidy
<1> QED BY <1>2, <1>3, <1>4, <1>5, <1>6, <1>7, <1>8, <1>9, <1>10, <1>11, <1>12, <1>13 DEF CallsNext

(* No sequence of calls of BasicOperations makes an automaton that counts  *)
(* as deterministic and is not: determinize would leave it alone, and      *)
(* complement, subsetOf and run would answer wrongly.                      *)
THEOREM FlagsAreHonest == CallsSpec => []FlagHonest
<1>1. RegistersTidy => FlagHonest
  <2> SUFFICES ASSUME RegistersTidy, NEW i \in 1..2 PROVE IsHonest(reg[i])
    BY DEF FlagHonest
  <2>1. reg[i] \in TidyOnes
    BY DEF RegistersTidy
  <2> QED BY <2>1, AllTidy DEF Sound, Tidy
<1> QED BY <1>1, TidyAtFirst, TidyKept, PTL DEF CallsSpec

(* And none leaves a transition to a state from which nothing is accepted, *)
(* though only determinize, complement, intersection and minus look for    *)
(* them: isEmpty may decide at the initial state.                          *)
THEOREM NoDeadLeft == CallsSpec => []NoDeadTransitions
<1>1. RegistersTidy => NoDeadTransitions
  <2> SUFFICES ASSUME RegistersTidy, NEW i \in 1..2,
                      NEW t \in reg[i].trans, t[1] \in GetStates(reg[i])
               PROVE  t[4] \in GetLiveStates(reg[i])
    BY DEF NoDeadTransitions
  <2> DEFINE m == reg[i]
  <2>1. Tidy(m)
    BY AllTidy DEF RegistersTidy
  <2> HIDE DEF m
  <2>2. IsFiniteSet(m.trans) /\ \A u \in m.trans : u[4] \in Productive(m)
    BY <2>1 DEF Tidy, Sound, IsAutomaton, NoneDead
  <2>3. \A u \in m.trans : u[1] \in GetStates(m) => u[4] \in GetStates(m)
    BY <2>2, Reachable
  <2>4. GetStates(m) \cap Productive(m) \subseteq GetLiveStates(m)
    BY <2>2, ProductiveIsLive
  <2>5. t \in m.trans /\ t[1] \in GetStates(m)
    BY DEF m
  <2>6. t[4] \in GetLiveStates(m)
    BY <2>2, <2>3, <2>4, <2>5
  <2> QED BY <2>6 DEF m
<1> QED BY <1>1, TidyAtFirst, TidyKept, PTL DEF CallsSpec

-----------------------------------------------------------------------------
(* The states that a word leads to, as run follows it.                     *)
After(m, w) == FoldLeft(LAMBDA s, c : Step(m, s, c), {m.q0}, w)

Accepts(m, w) == After(m, w) \cap m.acc # {}

(* What run answers: does the word lead to an accepting state?             *)
LEMMA RunIs ==
  ASSUME NEW m, NEW w
  PROVE  Run(m, w) <=> Accepts(ExpandSingleton(m), w)
BY DEF Run, Accepts, After

(* The states after a word, letter by letter.                              *)
LEMMA AfterInTurn ==
  ASSUME NEW m, NEW w \in Seq(Char)
  PROVE  \E h : /\ h[0] = {m.q0}
                /\ \A i \in 1..Len(w) : h[i] = Step(m, h[i - 1], w[i])
                /\ After(m, w) = h[Len(w)]
<1> DEFINE V == SUBSET Ends(m)
           n == Len(w)
           next == [i \in 1..n |-> [S \in V |-> Step(m, S, w[i])]]
<1>1. n \in Nat /\ DOMAIN w = 1..n
  OBVIOUS
<1>2. {m.q0} \in V /\ \A S, c : Step(m, S, c) \in V
  BY DEF Ends, Step
<1> HIDE DEF V
<1>3. next \in [1..n -> [V -> V]]
  BY <1>2
<1>4. \A i \in 1..n, S \in V : next[i][S] = Step(m, S, w[i])
  OBVIOUS
<1> HIDE DEF next
<1>5. \E iter : iter = [s \in SUBSET (DOMAIN w) |->
                      IF s = {} THEN {m.q0} ELSE Step(m, iter[s \ {Max(s)}], w[Max(s)])]
  <2>1. PICK iter \in [SUBSET (1..n) -> V] : FoldsUp(iter, n, {m.q0}, next)
    BY <1>1, <1>2, <1>3, FoldExists
  <2>2. ASSUME NEW s \in SUBSET (1..n), s # {}
        PROVE  next[Max(s)][iter[s \ {Max(s)}]] = Step(m, iter[s \ {Max(s)}], w[Max(s)])
    <3>1. Max(s) \in 1..n
      BY <1>1, <2>2, GreatestIndex
    <3>2. s \ {Max(s)} \in SUBSET (1..n)
      OBVIOUS
    <3>3. iter[s \ {Max(s)}] \in V
      BY <3>2
    <3> QED BY <1>4, <3>1, <3>3
  <2>3. iter = [s \in SUBSET (1..n) |-> IF s = {} THEN {m.q0} ELSE next[Max(s)][iter[s \ {Max(s)}]]]
    BY <2>1 DEF FoldsUp
  <2>4. iter = [s \in SUBSET (1..n) |->
                  IF s = {} THEN {m.q0} ELSE Step(m, iter[s \ {Max(s)}], w[Max(s)])]
    BY <2>2, <2>3
  <2> QED BY <1>1, <2>4
<1> DEFINE iter0 == CHOOSE iter : iter = [s \in SUBSET (DOMAIN w) |->
                      IF s = {} THEN {m.q0} ELSE Step(m, iter[s \ {Max(s)}], w[Max(s)])]
<1>6. iter0 = [s \in SUBSET (DOMAIN w) |->
                 IF s = {} THEN {m.q0} ELSE Step(m, iter0[s \ {Max(s)}], w[Max(s)])]
  BY <1>5
<1>7. After(m, w) = iter0[DOMAIN w]
  BY DEF After, FoldLeft, MapThenFoldSet
<1> HIDE DEF iter0
<1> DEFINE h == [i \in 0..n |-> iter0[1..i]]
<1>8. h[0] = {m.q0}
  <2>1. {} \in SUBSET (DOMAIN w) /\ 1..0 = {}
    OBVIOUS
  <2>2. iter0[{}] = {m.q0}
    BY <1>6, <2>1
  <2> QED BY <1>1, <2>1, <2>2
<1>9. ASSUME NEW i \in 1..n PROVE h[i] = Step(m, h[i - 1], w[i])
  <2>1. i \in Nat /\ i # 0 /\ i \in 0..n /\ i - 1 \in 0..n
    OBVIOUS
  <2>2. Max(1..i) = i /\ (1..i) \ {i} = 1..i - 1
    BY <2>1, GreatestUpto
  <2>3. 1..i \in SUBSET (DOMAIN w) /\ 1..i # {}
    <3>1. n \in Int /\ i <= n /\ i \in Nat /\ i # 0
      BY <1>1, <2>1
    <3> HIDE DEF n
    <3>2. 1..i \subseteq 1..n /\ 1 \in 1..i
      BY <3>1
    <3> QED BY <1>1, <3>2
  <2>4. iter0[1..i] = Step(m, iter0[(1..i) \ {Max(1..i)}], w[Max(1..i)])
    BY <1>6, <2>3
  <2>5. iter0[1..i] = Step(m, iter0[1..i - 1], w[i])
    BY <2>2, <2>4
  <2> QED BY <2>1, <2>5
<1>10. After(m, w) = h[n]
  BY <1>1, <1>7
<1> HIDE DEF h
<1> QED BY <1>8, <1>9, <1>10


(* A word leads where its last letter does from where the others lead.     *)
LEMMA AfterAppend ==
  ASSUME NEW m
  PROVE  /\ After(m, <<>>) = {m.q0}
         /\ \A w \in Seq(Char), c \in Char :
              After(m, Append(w, c)) = Step(m, After(m, w), c)
<1>1. After(m, <<>>) = {m.q0}
  <2>1. <<>> \in Seq(Char) /\ Len(<<>>) = 0
    OBVIOUS
  <2>2. PICK h : h[0] = {m.q0} /\ After(m, <<>>) = h[Len(<<>>)]
    BY <2>1, AfterInTurn
  <2> QED BY <2>1, <2>2
<1>2. ASSUME NEW w \in Seq(Char), NEW c \in Char
      PROVE  After(m, Append(w, c)) = Step(m, After(m, w), c)
  <2> DEFINE v == Append(w, c)
             n == Len(w)
  <2>1. /\ v \in Seq(Char) /\ Len(v) = n + 1 /\ n \in Nat
        /\ v[n + 1] = c /\ \A i \in 1..n : v[i] = w[i]
    OBVIOUS
  <2> HIDE DEF v
  <2>2. PICK h : /\ h[0] = {m.q0}
                 /\ \A i \in 1..Len(w) : h[i] = Step(m, h[i - 1], w[i])
                 /\ After(m, w) = h[Len(w)]
    BY AfterInTurn
  <2>3. PICK g : /\ g[0] = {m.q0}
                 /\ \A i \in 1..Len(v) : g[i] = Step(m, g[i - 1], v[i])
                 /\ After(m, v) = g[Len(v)]
    BY <2>1, AfterInTurn
  <2> DEFINE T == {i \in Nat : g[i] = h[i]}
  <2>4. 0 \in T
    BY <2>2, <2>3
  <2>5. ASSUME NEW i \in 0..n - 1, i \in T PROVE i + 1 \in T
    <3>1. i + 1 \in 1..Len(w) /\ i + 1 \in 1..Len(v) /\ (i + 1) - 1 = i /\ i + 1 \in 1..n
      BY <2>1
    <3>2. h[i + 1] = Step(m, h[(i + 1) - 1], w[i + 1])
      BY <2>2, <3>1
    <3>3. g[i + 1] = Step(m, g[(i + 1) - 1], v[i + 1])
      BY <2>3, <3>1
    <3>4. v[i + 1] = w[i + 1]
      BY <2>1, <3>1
    <3>5. g[i] = h[i]
      BY <2>5
    <3> QED BY <3>1, <3>2, <3>3, <3>4, <3>5
  <2> HIDE DEF T
  <2>6. 0..n \subseteq T
    BY <2>1, <2>4, <2>5, IntervalInduction
  <2>7. g[n] = h[n]
    BY <2>1, <2>6 DEF T
  <2>8. g[n + 1] = Step(m, g[n], c)
    <3>1. n + 1 \in 1..Len(v) /\ (n + 1) - 1 = n
      BY <2>1
    <3>2. g[n + 1] = Step(m, g[(n + 1) - 1], v[n + 1])
      BY <2>3, <3>1
    <3> QED BY <2>1, <3>1, <3>2
  <2> QED BY <2>1, <2>2, <2>3, <2>7, <2>8 DEF v
<1> QED BY <1>1, <1>2

(* Membership in a step.                                                   *)
LEMMA StepBy ==
  ASSUME NEW m, NEW S, NEW c, NEW q
  PROVE  q \in Step(m, S, c)
           <=> \E t \in m.trans : t[1] \in S /\ t[2] <= c /\ c <= t[3] /\ t[4] = q
BY DEF Step

(* A step follows the letters that lead from one state to another.         *)
LEMMA StepReads ==
  ASSUME NEW Q, NEW m, IsAutomaton(m, Q), NEW S, NEW c \in Char, NEW q
  PROVE  q \in Step(m, S, c) <=> \E p \in S : c \in LettersFrom(m, p, q)
<1>1. c \in Int
  BY CharAssumption DEF Char
<1>2. \A p : c \in LettersFrom(m, p, q)
        <=> \E t \in m.trans : t[1] = p /\ t[4] = q /\ t[2] <= c /\ c <= t[3]
  BY <1>1, LettersRead
<1> QED BY <1>2, StepBy

(* A word leads to states that getStates lists.                            *)
LEMMA AfterReachable ==
  ASSUME NEW m, IsFiniteSet(m.trans), NEW w \in Seq(Char)
  PROVE  After(m, w) \subseteq GetStates(m)
<1> DEFINE T == {v \in Seq(Char) : After(m, v) \subseteq GetStates(m)}
<1>1. <<>> \in T
  BY AfterAppend, Reachable
<1>2. ASSUME NEW v \in Seq(Char), NEW c \in Char, v \in T PROVE Append(v, c) \in T
  <2>1. After(m, Append(v, c)) = Step(m, After(m, v), c)
    BY AfterAppend
  <2>2. After(m, v) \subseteq GetStates(m)
    BY <1>2
  <2>3. \A t \in m.trans : t[1] \in GetStates(m) => t[4] \in GetStates(m)
    BY Reachable
  <2>4. Step(m, After(m, v), c) \subseteq GetStates(m)
    BY <2>2, <2>3, StepBy
  <2> QED BY <2>1, <2>4
<1> HIDE DEF T
<1>3. Seq(Char) \subseteq T
  BY <1>1, <1>2, WordInduction
<1> QED BY <1>3 DEF T

(* Names do not matter,                                                    *)
LEMMA NumberedAccepts ==
  ASSUME NEW Q, NEW m, IsAutomaton(m, Q), NEW w \in Seq(Char)
  PROVE  Accepts(Numbered(m), w) <=> Accepts(m, w)
<1>1. PICK number : IsNumbering(number, m) /\ Numbered(m) = Rename(m, number)
  BY NumberedAutomaton
<1>2. /\ DOMAIN number = GetStates(m)
      /\ \A p, q \in GetStates(m) : number[p] = number[q] => p = q
      /\ number[m.q0] = 0
  BY <1>1 DEF IsNumbering
<1> DEFINE n == Rename(m, number)
           Image(S) == {number[q] : q \in S}
           G == GetStates(m)
<1>3. /\ n.q0 = 0 /\ n.acc = {number[q] : q \in m.acc \cap G}
      /\ n.trans = {<<number[t[1]], t[2], t[3], number[t[4]]>> : t \in {u \in m.trans : u[1] \in G}}
  BY <1>2 DEF Rename, Explicit
<1>4. IsFiniteSet(m.trans) /\ \A t \in m.trans : t[1] \in G => t[4] \in G
  BY Reachable DEF IsAutomaton
<1> HIDE DEF n
<1>5. ASSUME NEW S \in SUBSET G, NEW c PROVE Step(n, Image(S), c) = Image(Step(m, S, c))
  <2>1. ASSUME NEW x \in Step(n, Image(S), c) PROVE x \in Image(Step(m, S, c))
    <3>1. PICK u \in n.trans : u[1] \in Image(S) /\ u[2] <= c /\ c <= u[3] /\ u[4] = x
      BY <2>1, StepBy
    <3>2. PICK t \in m.trans : t[1] \in G /\ u = <<number[t[1]], t[2], t[3], number[t[4]]>>
      BY <1>3
    <3>3. PICK p \in S : number[t[1]] = number[p]
      BY <3>1, <3>2
    <3>4. t[1] \in S
      BY <1>2, <3>2, <3>3
    <3>5. t[4] \in Step(m, S, c)
      BY <3>1, <3>2, <3>4, StepBy
    <3> QED BY <3>1, <3>2, <3>5
  <2>2. ASSUME NEW q \in Step(m, S, c) PROVE number[q] \in Step(n, Image(S), c)
    <3>1. PICK t \in m.trans : t[1] \in S /\ t[2] <= c /\ c <= t[3] /\ t[4] = q
      BY <2>2, StepBy
    <3> DEFINE u == <<number[t[1]], t[2], t[3], number[t[4]]>>
    <3>2. u \in n.trans
      BY <1>3, <3>1
    <3>3. u[1] \in Image(S) /\ u[2] <= c /\ c <= u[3] /\ u[4] = number[q]
      BY <3>1
    <3> HIDE DEF u
    <3> QED BY <3>2, <3>3, StepBy
  <2> QED BY <2>1, <2>2
<1> DEFINE T == {v \in Seq(Char) : After(n, v) = Image(After(m, v))}
<1>6. <<>> \in T
  <2>1. Image({m.q0}) = {0}
    BY <1>2
  <2> QED BY <1>3, <2>1, AfterAppend
<1>7. ASSUME NEW v \in Seq(Char), NEW c \in Char, v \in T PROVE Append(v, c) \in T
  <2>1. After(m, v) \in SUBSET G
    BY <1>4, AfterReachable
  <2>2. Step(n, Image(After(m, v)), c) = Image(Step(m, After(m, v), c))
    BY <1>5, <2>1
  <2>3. After(n, Append(v, c)) = Step(n, After(n, v), c) /\ After(n, v) = Image(After(m, v))
    <3>1. After(n, Append(v, c)) = Step(n, After(n, v), c)
      BY AfterAppend
    <3> QED BY <1>7, <3>1
  <2>4. After(m, Append(v, c)) = Step(m, After(m, v), c)
    BY AfterAppend
  <2>5. Append(v, c) \in Seq(Char)
    OBVIOUS
  <2>6. After(n, Append(v, c)) = Image(After(m, Append(v, c)))
    BY <2>2, <2>3, <2>4
  <2> QED BY <2>5, <2>6
<1> HIDE DEF T
<1>8. Seq(Char) \subseteq T
  BY <1>6, <1>7, WordInduction
<1>9. After(n, w) = Image(After(m, w))
  BY <1>8 DEF T
<1>10. After(m, w) \subseteq G
  BY <1>4, AfterReachable
<1>11. Accepts(n, w) <=> Accepts(m, w)
  <2>1. ASSUME NEW x \in After(n, w), x \in n.acc PROVE Accepts(m, w)
    <3>1. PICK q \in After(m, w) : x = number[q]
      BY <1>9, <2>1
    <3>2. PICK r \in m.acc \cap G : x = number[r]
      BY <1>3, <2>1
    <3>3. q = r
      BY <1>2, <1>10, <3>1, <3>2
    <3> QED BY <3>1, <3>2, <3>3 DEF Accepts
  <2>2. ASSUME NEW q \in After(m, w), q \in m.acc PROVE Accepts(n, w)
    <3>1. number[q] \in n.acc /\ number[q] \in After(n, w)
      BY <1>3, <1>9, <1>10, <2>2
    <3> QED BY <3>1 DEF Accepts
  <2> QED BY <2>1, <2>2 DEF Accepts
<1> QED BY <1>1, <1>11 DEF n

(* nor do the intervals that the letters are cut into,                     *)
LEMMA SameLetters ==
  ASSUME NEW Q, NEW m, IsAutomaton(m, Q), NEW n, IsAutomaton(n, Q),
         n.q0 = m.q0, n.acc = m.acc,
         \A p, q : LettersFrom(n, p, q) = LettersFrom(m, p, q),
         NEW w \in Seq(Char)
  PROVE  After(n, w) = After(m, w) /\ (Accepts(n, w) <=> Accepts(m, w))
<1> DEFINE T == {v \in Seq(Char) : After(n, v) = After(m, v)}
<1>1. <<>> \in T
  <2>1. After(n, <<>>) = After(m, <<>>)
    BY AfterAppend
  <2> QED BY <2>1
<1>2. ASSUME NEW v \in Seq(Char), NEW c \in Char, v \in T PROVE Append(v, c) \in T
  <2>1. After(n, Append(v, c)) = Step(n, After(n, v), c)
        /\ After(m, Append(v, c)) = Step(m, After(m, v), c)
    BY AfterAppend
  <2>2. After(n, v) = After(m, v)
    BY <1>2
  <2>3. \A q : q \in Step(n, After(m, v), c) <=> q \in Step(m, After(m, v), c)
    BY StepReads
  <2>4. Step(n, After(m, v), c) = Step(m, After(m, v), c)
    BY <2>3
  <2>5. Append(v, c) \in Seq(Char)
    OBVIOUS
  <2> QED BY <2>1, <2>2, <2>4, <2>5
<1> HIDE DEF T
<1>3. Seq(Char) \subseteq T
  BY <1>1, <1>2, WordInduction
<1>4. After(n, w) = After(m, w)
  BY <1>3 DEF T
<1> QED BY <1>4 DEF Accepts

(* reduce joins intervals, and no word is accepted otherwise than before.  *)
LEMMA ReduceAccepts ==
  ASSUME NEW Q, NEW m, IsAutomaton(m, Q), NEW w \in Seq(Char)
  PROVE  After(Reduce(m), w) = After(m, w) /\ (Accepts(Reduce(m), w) <=> Accepts(m, w))
BY Reduced, SameLetters

(* nor transitions to dead states.                                         *)
LEMMA DeadDoNotAccept ==
  ASSUME NEW Q, NEW m, IsAutomaton(m, Q), ~ IsSingleton(m), NEW w \in Seq(Char)
  PROVE  Accepts(RemoveDeadTransitions(m), w) <=> Accepts(m, w)
<1> DEFINE live == GetLiveStates(m)
           n == [m EXCEPT !.trans = {t \in @ : t[4] \in live}]
<1>1. IsFiniteSet(m.trans)
  BY DEF IsAutomaton
<1>2. n.q0 = m.q0 /\ n.acc = m.acc /\ n.trans = {t \in m.trans : t[4] \in live}
  BY DEF IsAutomaton
<1>3. IsAutomaton(n, Q)
  <2>1. IsFiniteSet(n.trans) /\ n.trans \subseteq m.trans
    BY <1>1, <1>2, FS_Subset
  <2>2. n.word = m.word /\ n.det = m.det
    BY DEF IsAutomaton
  <2>3. n \in [word : SUBSET Seq(Char), q0 : Q, acc : SUBSET Q,
                trans : SUBSET (Q \X Char \X Char \X Q), det : BOOLEAN]
    BY DEF IsAutomaton
  <2> HIDE DEF n
  <2> QED BY <2>1, <2>2, <2>3 DEF IsAutomaton, IsSingleton
<1>4. RemoveDeadTransitions(m) = Reduce(n)
  BY DEF RemoveDeadTransitions
<1> HIDE DEF n
<1>5. /\ GetAcceptStates(m) \subseteq live
      /\ \A t \in m.trans : t[4] \in live => t[1] \in live
  BY <1>1, LiveStates
<1> HIDE DEF live
<1> DEFINE T == {v \in Seq(Char) : /\ After(n, v) \subseteq After(m, v)
                                   /\ After(m, v) \cap live \subseteq After(n, v)}
<1>6. <<>> \in T
  <2>1. After(n, <<>>) = After(m, <<>>)
    BY <1>2, AfterAppend
  <2> QED BY <2>1
<1>7. ASSUME NEW v \in Seq(Char), NEW c \in Char, v \in T PROVE Append(v, c) \in T
  <2>1. After(n, Append(v, c)) = Step(n, After(n, v), c)
        /\ After(m, Append(v, c)) = Step(m, After(m, v), c)
    BY AfterAppend
  <2>2. After(n, v) \subseteq After(m, v) /\ After(m, v) \cap live \subseteq After(n, v)
    BY <1>7
  <2>3. Step(n, After(n, v), c) \subseteq Step(m, After(m, v), c)
    BY <1>2, <2>2 DEF Step
  <2>4. ASSUME NEW q \in Step(m, After(m, v), c), q \in live
        PROVE  q \in Step(n, After(n, v), c)
    <3>1. PICK t \in m.trans : t[1] \in After(m, v) /\ t[2] <= c /\ c <= t[3] /\ t[4] = q
      BY <2>4, StepBy
    <3>2. t \in n.trans /\ t[1] \in After(n, v)
      BY <1>2, <1>5, <2>2, <2>4, <3>1
    <3> QED BY <3>1, <3>2, StepBy
  <2>5. Append(v, c) \in Seq(Char)
    OBVIOUS
  <2> QED BY <2>1, <2>3, <2>4, <2>5
<1> HIDE DEF T
<1>8. Seq(Char) \subseteq T
  BY <1>6, <1>7, WordInduction
<1>9. After(n, w) \subseteq After(m, w) /\ After(m, w) \cap live \subseteq After(n, w)
  BY <1>8 DEF T
<1>10. After(m, w) \cap m.acc \subseteq live
  BY <1>1, <1>5, AfterReachable DEF GetAcceptStates
<1>11. Accepts(n, w) <=> Accepts(m, w)
  BY <1>2, <1>9, <1>10 DEF Accepts
<1> QED BY <1>3, <1>4, <1>11, ReduceAccepts

(* Neither does removeDeadTransitions change what is accepted.             *)
LEMMA TrimmedAccepts ==
  ASSUME NEW Q, NEW m, IsAutomaton(m, Q), ~ IsSingleton(m), NEW w \in Seq(Char)
  PROVE  Accepts(Numbered(RemoveDeadTransitions(m)), w) <=> Accepts(m, w)
<1>1. IsAutomaton(RemoveDeadTransitions(m), Q)
  BY DeadRemoved
<1> QED BY <1>1, DeadDoNotAccept, NumberedAccepts

(* Between two start points all letters act alike.                         *)
LEMMA StretchAlike ==
  ASSUME NEW Q, NEW m, IsAutomaton(m, Q), NEW S, S \subseteq GetStates(m),
         NEW e \in StartPoints(m), NEW c \in Char,
         e <= c, c <= Stretch(StartPoints(m), e)
  PROVE  Step(m, S, e) = Step(m, S, c)
<1> DEFINE points == StartPoints(m)
<1>1. points \subseteq Char
  BY StartsAreLetters
<1>2. e \in Char /\ e \in Int /\ c \in Int /\ Stretch(points, e) \in Int /\ c <= MaxChar
  <2>1. e \in Char
    BY <1>1
  <2>2. Stretch(points, e) \in Char
    BY <2>1, StretchIsLetter
  <2> QED BY <2>1, <2>2, CharAssumption DEF Char
<1>3. \A g \in points : g \in Int /\ e <= g /\ g <= Stretch(points, e) => g = e
  BY <1>2, StretchIsLetter
<1>4. \A t \in m.trans : t[1] \in S => t[2] \in points /\ (t[3] < MaxChar => t[3] + 1 \in points)
  BY DEF StartPoints
<1> HIDE DEF points
<1>5. ASSUME NEW t \in m.trans, t[1] \in S
      PROVE  t[2] <= e /\ e <= t[3] <=> t[2] <= c /\ c <= t[3]
  <2>1. t[2] \in Int /\ t[3] \in Int /\ t[3] <= MaxChar /\ MaxChar \in Int
    <3>1. t[2] \in Nat /\ t[3] \in Nat /\ t[3] <= MaxChar
      BY Transition
    <3> QED BY <3>1, CharAssumption
  <2>2. c <= Stretch(points, e) /\ e <= c
    BY DEF points
  <2>3. t[2] <= c => t[2] <= e
    <3> SUFFICES ASSUME t[2] <= c, ~ (t[2] <= e) PROVE FALSE
      OBVIOUS
    <3>1. e <= t[2] /\ t[2] <= Stretch(points, e)
      BY <1>2, <2>1, <2>2
    <3>2. t[2] = e
      BY <1>3, <1>4, <1>5, <2>1, <3>1
    <3> QED BY <1>2, <3>2
  <2>4. e <= t[3] => c <= t[3]
    <3> SUFFICES ASSUME e <= t[3], ~ (c <= t[3]) PROVE FALSE
      OBVIOUS
    <3>1. t[3] < MaxChar
      BY <1>2, <2>1
    <3>2. t[3] + 1 \in points
      BY <1>4, <1>5, <3>1
    <3>3. t[3] + 1 \in Int /\ e <= t[3] + 1 /\ t[3] + 1 <= Stretch(points, e) /\ t[3] + 1 # e
      BY <1>2, <2>1, <2>2
    <3> QED BY <1>3, <3>2, <3>3
  <2>5. t[2] <= e => t[2] <= c
    BY <1>2, <2>1, <2>2
  <2>6. c <= t[3] => e <= t[3]
    BY <1>2, <2>1, <2>2
  <2> QED BY <2>3, <2>4, <2>5, <2>6
<1>6. \A q : q \in Step(m, S, e) <=> q \in Step(m, S, c)
  BY <1>5, StepBy
<1> QED BY <1>6

(* Every letter lies in the interval of some start point.                  *)
LEMMA StretchesCover ==
  ASSUME NEW Q, NEW m, IsAutomaton(m, Q), NEW c \in Char
  PROVE  \E e \in StartPoints(m) : e <= c /\ c <= Stretch(StartPoints(m), e)
<1> DEFINE points == StartPoints(m)
           T == {d \in Nat : \E e \in points : e <= c /\ d = c - e}
<1>1. points \subseteq Char /\ 0 \in points
  BY StartsAreLetters
<1>2. c \in Nat /\ \A e \in points : e \in Nat
  BY <1>1, CharAssumption DEF Char
<1> HIDE DEF points
<1>3. T # {} /\ T \subseteq Nat
  <2>1. c \in T
    BY <1>1, <1>2
  <2> QED BY <2>1
<1>4. PICK d \in T : \A j \in T : d <= j
  BY <1>3, LeastNumber
<1>5. PICK e \in points : e <= c /\ d = c - e
  BY <1>4
<1>6. \A g \in points : g <= c => g <= e
  <2> SUFFICES ASSUME NEW g \in points, g <= c PROVE g <= e
    OBVIOUS
  <2>1. c - g \in T
    BY <1>2
  <2>2. d <= c - g
    BY <1>4, <2>1
  <2> QED BY <1>2, <1>5, <2>2
<1> HIDE DEF T
<1> DEFINE top == Stretch(points, e)
<1>7. top \in e..MaxChar /\ (top = MaxChar \/ top + 1 \in points)
  <2> DEFINE Good(g) == g = MaxChar \/ g + 1 \in points
             U == {g \in Nat : e <= g /\ g <= MaxChar /\ Good(g)}
  <2>1. e \in Nat /\ MaxChar \in Nat /\ e <= MaxChar
    BY <1>1, CharAssumption DEF Char
  <2>2. MaxChar \in U
    BY <2>1
  <2>3. PICK g \in U : \A h \in U : g <= h
    <3> HIDE DEF U
    <3>1. U \subseteq Nat
      BY DEF U
    <3> QED BY <2>2, <3>1, LeastNumber
  <2>4. g \in e..MaxChar /\ Good(g)
    BY <2>1, <2>3
  <2>5. \A h \in e + 1..g : h \notin points
    <3> SUFFICES ASSUME NEW h \in e + 1..g, h \in points PROVE FALSE
      OBVIOUS
    <3>1. h - 1 \in Nat /\ e <= h - 1 /\ h - 1 <= MaxChar /\ (h - 1) + 1 = h /\ h - 1 < g
      BY <2>1, <2>4
    <3>2. h - 1 \in U
      BY <3>1
    <3>3. g <= h - 1 /\ g \in Int
      BY <2>3, <3>2
    <3> QED BY <3>1, <3>3
  <2> HIDE DEF U
  <2>6. \E x \in e..MaxChar : (x = MaxChar \/ x + 1 \in points) /\ \A h \in e + 1..x : h \notin points
    BY <2>4, <2>5
  <2> QED BY <2>6 DEF Stretch
<1> HIDE DEF top
<1>8. c <= top
  <2> SUFFICES ASSUME ~ (c <= top) PROVE FALSE
    OBVIOUS
  <2>1. c <= MaxChar /\ MaxChar \in Nat /\ e \in Nat
    BY <1>1, CharAssumption DEF Char
  <2>2. top \in Int /\ top + 1 <= c /\ top # MaxChar /\ e <= top
    BY <1>2, <1>7, <2>1
  <2>3. top + 1 \in points
    BY <1>7, <2>2
  <2>4. top + 1 <= e
    BY <1>6, <2>2, <2>3
  <2> QED BY <2>1, <2>2, <2>4
<1> QED BY <1>5, <1>8 DEF top, points

(* The subset construction: a word leads to the one set of the states that *)
(* it leads to, if there are any.                                          *)
LEMMA PowerAfter ==
  ASSUME NEW Q, NEW m, IsAutomaton(m, Q), NEW w \in Seq(Char)
  PROVE  LET p == PowerAutomaton(m, StartPoints(m))
         IN  /\ After(p, w) = {After(m, w)} \ {{}}
             /\ Accepts(p, w) <=> Accepts(m, w)
<1> DEFINE points == StartPoints(m)
           D == Subsets(m, points)
           p == PowerAutomaton(m, points)
<1>1. p.q0 = {m.q0} /\ p.acc = {s \in D : s \cap m.acc # {}} /\ p.trans = Moves(m, points, D)
  BY DEF PowerAutomaton, Explicit
<1>2. IsFiniteSet(m.trans)
  BY DEF IsAutomaton
<1>3. {m.q0} \in D /\ \A e \in Moves(m, points, D) : e[4] \in D
  BY <1>2, SubsetsOfEnds
<1>4. points \subseteq Char
  BY StartsAreLetters
<1> HIDE DEF p, D
<1>5. ASSUME NEW S \in D, S \subseteq GetStates(m), NEW c \in Char
      PROVE  /\ Step(p, {S}, c) = {Step(m, S, c)} \ {{}}
             /\ Step(m, S, c) # {} => Step(m, S, c) \in D
  <2>1. ASSUME NEW x \in Step(p, {S}, c) PROVE x = Step(m, S, c) /\ x # {}
    <3>1. PICK t \in p.trans : t[1] = S /\ t[2] <= c /\ c <= t[3] /\ t[4] = x
      BY <2>1, StepBy
    <3>2. PICK s \in D, e \in points : t = <<s, e, Stretch(points, e), Step(m, s, e)>> /\ t[4] # {}
      BY <1>1, <3>1 DEF Moves
    <3>3. s = S /\ e <= c /\ c <= Stretch(points, e) /\ x = Step(m, S, e) /\ x # {}
      BY <3>1, <3>2
    <3>4. Step(m, S, e) = Step(m, S, c)
      BY <1>5, <3>3, StretchAlike DEF points
    <3> QED BY <3>3, <3>4
  <2>2. ASSUME Step(m, S, c) # {}
        PROVE  Step(m, S, c) \in Step(p, {S}, c) /\ Step(m, S, c) \in D
    <3>1. PICK e \in points : e <= c /\ c <= Stretch(points, e)
      BY StretchesCover DEF points
    <3>2. Step(m, S, e) = Step(m, S, c)
      BY <1>5, <3>1, StretchAlike DEF points
    <3> DEFINE t == <<S, e, Stretch(points, e), Step(m, S, e)>>
    <3>3. t \in Moves(m, points, D)
      BY <2>2, <3>2 DEF Moves
    <3>4. t[1] = S /\ t[2] = e /\ t[3] = Stretch(points, e) /\ t[4] = Step(m, S, c)
      BY <3>2
    <3> HIDE DEF t
    <3>5. Step(m, S, c) \in D
      BY <1>3, <3>3, <3>4
    <3>6. t \in p.trans /\ t[1] \in {S} /\ t[2] <= c /\ c <= t[3]
      BY <1>1, <3>1, <3>3, <3>4
    <3>7. Step(m, S, c) \in Step(p, {S}, c)
      BY <3>4, <3>6, StepBy
    <3> QED BY <3>5, <3>7
  <2> QED BY <2>1, <2>2
<1>6. \A c : Step(p, {}, c) = {} /\ Step(m, {}, c) = {}
  BY DEF Step
<1> DEFINE T == {v \in Seq(Char) : /\ After(p, v) = {After(m, v)} \ {{}}
                                   /\ After(m, v) # {} => After(m, v) \in D}
<1>7. <<>> \in T
  <2>1. After(p, <<>>) = {{m.q0}} /\ After(m, <<>>) = {m.q0}
    BY <1>1, AfterAppend
  <2>2. <<>> \in Seq(Char)
    OBVIOUS
  <2> QED BY <1>3, <2>1, <2>2
<1>8. ASSUME NEW v \in Seq(Char), NEW c \in Char, v \in T PROVE Append(v, c) \in T
  <2> DEFINE S == After(m, v)
  <2>1. After(p, Append(v, c)) = Step(p, After(p, v), c)
    BY AfterAppend
  <2>2. After(m, Append(v, c)) = Step(m, S, c)
    BY AfterAppend
  <2>3. S \subseteq GetStates(m)
    BY <1>2, AfterReachable
  <2>4. After(p, v) = {S} \ {{}} /\ (S # {} => S \in D)
    BY <1>8
  <2>5. Append(v, c) \in Seq(Char)
    OBVIOUS
  <2> HIDE DEF S
  <2>6. CASE S = {}
    <3>1. After(p, v) = {}
      BY <2>4, <2>6
    <3>2. After(p, Append(v, c)) = {} /\ After(m, Append(v, c)) = {}
      BY <1>6, <2>1, <2>2, <2>6, <3>1
    <3> QED BY <2>5, <3>2
  <2>7. CASE S # {}
    <3>1. After(p, v) = {S} /\ S \in D
      BY <2>4, <2>7
    <3>2. /\ Step(p, {S}, c) = {Step(m, S, c)} \ {{}}
          /\ Step(m, S, c) # {} => Step(m, S, c) \in D
      BY <1>5, <2>3, <3>1
    <3> QED BY <2>1, <2>2, <2>5, <3>1, <3>2
  <2> QED BY <2>6, <2>7
<1> HIDE DEF T
<1>9. Seq(Char) \subseteq T
  BY <1>7, <1>8, WordInduction
<1>10. After(p, w) = {After(m, w)} \ {{}} /\ (After(m, w) # {} => After(m, w) \in D)
  BY <1>9 DEF T
<1>11. Accepts(p, w) <=> Accepts(m, w)
  BY <1>1, <1>10 DEF Accepts
<1> QED BY <1>10, <1>11 DEF p, points

(* determinize accepts what the automaton accepted.                        *)
LEMMA DeterminizeAccepts ==
  ASSUME NEW m, IsAutomaton(m, Nat), ~ IsSingleton(m), NEW w \in Seq(Char)
  PROVE  Accepts(Determinize(m), w) <=> Accepts(m, w)
<1>1. CASE m.det
  BY <1>1 DEF Determinize
<1>2. CASE ~ m.det
  <2> DEFINE p == PowerAutomaton(m, StartPoints(m))
  <2>1. Determinize(m) = Numbered(RemoveDeadTransitions(p))
    BY <1>2 DEF Determinize
  <2>2. IsAutomaton(p, SUBSET Ends(m)) /\ ~ IsSingleton(p)
    BY PowerAutomatonIsOne
  <2>3. Accepts(p, w) <=> Accepts(m, w)
    BY PowerAfter
  <2> HIDE DEF p
  <2> QED BY <2>1, <2>2, <2>3, TrimmedAccepts
<1> QED BY <1>1, <1>2

(* Where a word leads does not depend on which states accept.              *)
LEMMA SameTransitions ==
  ASSUME NEW m, NEW n, n.q0 = m.q0, n.trans = m.trans, NEW w \in Seq(Char)
  PROVE  After(n, w) = After(m, w)
<1> DEFINE T == {v \in Seq(Char) : After(n, v) = After(m, v)}
<1>1. <<>> \in T
  <2>1. After(n, <<>>) = After(m, <<>>)
    BY AfterAppend
  <2> QED BY <2>1
<1>2. ASSUME NEW v \in Seq(Char), NEW c \in Char, v \in T PROVE Append(v, c) \in T
  <2>1. After(n, Append(v, c)) = Step(n, After(n, v), c)
        /\ After(m, Append(v, c)) = Step(m, After(m, v), c)
    BY AfterAppend
  <2>2. After(n, v) = After(m, v)
    BY <1>2
  <2>3. Step(n, After(m, v), c) = Step(m, After(m, v), c)
    BY DEF Step
  <2>4. Append(v, c) \in Seq(Char)
    OBVIOUS
  <2> QED BY <2>1, <2>2, <2>3, <2>4
<1> HIDE DEF T
<1>3. Seq(Char) \subseteq T
  BY <1>1, <1>2, WordInduction
<1> QED BY <1>3 DEF T

(* A sink changes nothing,                                                 *)
LEMMA SinkAccepts ==
  ASSUME NEW sink \in Nat \ {0}, NEW n, IsAutomaton(n, 0..sink - 1), ~ IsSingleton(n),
         NEW w \in Seq(Char)
  PROVE  Accepts(WithSink(n, sink), w) <=> Accepts(n, w)
<1> DEFINE t == WithSink(n, sink)
<1>1. /\ t.q0 = n.q0 /\ t.acc = n.acc /\ n.trans \subseteq t.trans
      /\ \A e \in t.trans \ n.trans : e[4] = sink
  BY Total
<1>2. /\ n.q0 \in 0..sink - 1 /\ n.acc \subseteq 0..sink - 1
      /\ \A e \in n.trans : e[1] \in 0..sink - 1 /\ e[4] \in 0..sink - 1
  BY Parts, Transition
<1>3. sink \notin 0..sink - 1
  OBVIOUS
<1> HIDE DEF t
<1> DEFINE T == {v \in Seq(Char) : /\ After(n, v) \subseteq After(t, v)
                                   /\ After(t, v) \subseteq After(n, v) \cup {sink}
                                   /\ sink \notin After(n, v)}
<1>4. <<>> \in T
  <2>1. After(t, <<>>) = {n.q0} /\ After(n, <<>>) = {n.q0} /\ n.q0 # sink
    BY <1>1, <1>2, <1>3, AfterAppend
  <2>2. <<>> \in Seq(Char)
    OBVIOUS
  <2> QED BY <2>1, <2>2
<1>5. ASSUME NEW v \in Seq(Char), NEW c \in Char, v \in T PROVE Append(v, c) \in T
  <2>1. After(n, Append(v, c)) = Step(n, After(n, v), c)
        /\ After(t, Append(v, c)) = Step(t, After(t, v), c)
    BY AfterAppend
  <2>2. /\ After(n, v) \subseteq After(t, v) /\ sink \notin After(n, v)
        /\ After(t, v) \subseteq After(n, v) \cup {sink}
    BY <1>5
  <2>3. Step(n, After(n, v), c) \subseteq Step(t, After(t, v), c)
    BY <1>1, <2>2 DEF Step
  <2>4. ASSUME NEW q \in Step(t, After(t, v), c) PROVE q \in Step(n, After(n, v), c) \cup {sink}
    <3>1. PICK e \in t.trans : e[1] \in After(t, v) /\ e[2] <= c /\ c <= e[3] /\ e[4] = q
      BY <2>4, StepBy
    <3>2. CASE e \in n.trans
      <4>1. e[1] \in After(n, v)
        BY <1>2, <1>3, <2>2, <3>1, <3>2
      <4> QED BY <3>1, <3>2, <4>1, StepBy
    <3>3. CASE e \notin n.trans
      BY <1>1, <3>1, <3>3
    <3> QED BY <3>2, <3>3
  <2>5. sink \notin Step(n, After(n, v), c)
    BY <1>2, <1>3, StepBy
  <2>6. Append(v, c) \in Seq(Char)
    OBVIOUS
  <2> QED BY <2>1, <2>3, <2>4, <2>5, <2>6
<1> HIDE DEF T
<1>6. Seq(Char) \subseteq T
  BY <1>4, <1>5, WordInduction
<1>7. After(n, w) \subseteq After(t, w) /\ After(t, w) \subseteq After(n, w) \cup {sink}
  BY <1>6 DEF T
<1> QED BY <1>1, <1>2, <1>3, <1>7 DEF Accepts, t

(* and in a total and deterministic automaton a word leads to one state.   *)
LEMMA OneState ==
  ASSUME NEW t, IsAutomaton(t, Nat), IsDeterministic(t),
         \A p \in GetStates(t), c \in Char : \E e \in t.trans : e[1] = p /\ e[2] <= c /\ c <= e[3],
         NEW w \in Seq(Char)
  PROVE  \E q \in GetStates(t) : After(t, w) = {q}
<1> DEFINE T == {v \in Seq(Char) : \E q \in GetStates(t) : After(t, v) = {q}}
<1>1. IsFiniteSet(t.trans)
  BY DEF IsAutomaton
<1>2. <<>> \in T
  <2>1. After(t, <<>>) = {t.q0} /\ t.q0 \in GetStates(t)
    BY <1>1, AfterAppend, Reachable
  <2>2. <<>> \in Seq(Char)
    OBVIOUS
  <2> QED BY <2>1, <2>2
<1>3. ASSUME NEW v \in Seq(Char), NEW c \in Char, v \in T PROVE Append(v, c) \in T
  <2>1. PICK p \in GetStates(t) : After(t, v) = {p}
    BY <1>3
  <2>2. After(t, Append(v, c)) = Step(t, {p}, c)
    <3>1. After(t, Append(v, c)) = Step(t, After(t, v), c)
      BY AfterAppend
    <3> QED BY <2>1, <3>1
  <2>3. PICK e \in t.trans : e[1] = p /\ e[2] <= c /\ c <= e[3]
    OBVIOUS
  <2>4. e[4] \in Step(t, {p}, c)
    BY <2>3, StepBy
  <2>5. ASSUME NEW q \in Step(t, {p}, c) PROVE q = e[4]
    <3>1. PICK u \in t.trans : u[1] = p /\ u[2] <= c /\ c <= u[3] /\ u[4] = q
      BY <2>5, StepBy
    <3>2. /\ u[2] \in Nat /\ u[3] \in Nat /\ e[2] \in Nat /\ e[3] \in Nat
      BY Transition
    <3>3. c \in Nat
      BY CharAssumption DEF Char
    <3>4. u[2] <= e[3] /\ e[2] <= u[3]
      BY <2>3, <3>1, <3>2, <3>3
    <3> QED BY <2>3, <3>1, <3>4 DEF IsDeterministic
  <2>6. Step(t, {p}, c) = {e[4]}
    BY <2>4, <2>5
  <2>7. e[4] \in GetStates(t)
    BY <1>1, <2>3, Reachable
  <2>8. Append(v, c) \in Seq(Char)
    OBVIOUS
  <2> QED BY <2>2, <2>6, <2>7, <2>8
<1> HIDE DEF T
<1>4. Seq(Char) \subseteq T
  BY <1>2, <1>3, WordInduction
<1> QED BY <1>4 DEF T

(* run of an automaton that is not a singleton.                            *)
LEMMA RunExplicit ==
  ASSUME NEW m, ~ IsSingleton(m), NEW w
  PROVE  Run(m, w) <=> Accepts(m, w)
BY RunIs DEF ExpandSingleton

(* complement accepts the words that the automaton does not accept         *)
(* (BasicOperations.complement), whatever intervals of letters it leaves   *)
(* out.                                                                    *)
THEOREM ComplementRun ==
  ASSUME NEW m, Sound(m), NEW w \in Seq(Char)
  PROVE  Run(Complement(m), w) <=> ~ Run(m, w)
<1> DEFINE e == ExpandSingleton(m)
           d == Determinize(e)
           t == Totalize(d)
           f == Flip(t)
           n == Numbered(RemoveDeadTransitions(f))
<1>1. Complement(m) = n
  BY DEF Complement
<1>2. Sound(e) /\ ~ IsSingleton(e)
  BY Expanded
<1>3. Run(m, w) <=> Accepts(e, w)
  BY RunIs
<1> HIDE DEF e
<1>4. Sound(d) /\ ~ IsSingleton(d) /\ d.det
  BY <1>2, DeterminizeSound
<1>5. Accepts(d, w) <=> Accepts(e, w)
  BY <1>2, DeterminizeAccepts DEF Sound
<1> HIDE DEF d
<1>6. Sound(t) /\ ~ IsSingleton(t) /\ t.det
  BY <1>4, TotalizeSound
<1> DEFINE sink == Cardinality(GetStates(d))
           b == Numbered(d)
<1>7. t = WithSink(b, sink)
  BY DEF Totalize
<1>8. sink \in Nat \ {0}
  <2>1. IsFiniteSet(d.trans)
    BY <1>4 DEF Sound, IsAutomaton
  <2>2. IsFiniteSet(GetStates(d)) /\ d.q0 \in GetStates(d)
    BY <2>1, Reachable
  <2> QED BY <2>2, FS_CardinalityType, FS_EmptySet
<1>9. IsAutomaton(b, 0..sink - 1) /\ ~ IsSingleton(b) /\ (Accepts(b, w) <=> Accepts(d, w))
  <2>1. IsAutomaton(d, Nat)
    BY <1>4 DEF Sound
  <2> QED BY <2>1, NumberedAutomaton, NamesChanged, NumberedAccepts
<1> HIDE DEF b, sink, t
<1>10. /\ IsAutomaton(t, 0..sink)
       /\ \A p \in 0..sink, c \in Char : \E u \in t.trans : u[1] = p /\ u[2] <= c /\ c <= u[3]
  BY <1>7, <1>8, <1>9, Total
<1>11. Accepts(t, w) <=> Accepts(d, w)
  BY <1>7, <1>8, <1>9, SinkAccepts
<1>12. GetStates(t) \subseteq 0..sink
  BY <1>10, Parts
<1>13. IsAutomaton(t, Nat) /\ IsDeterministic(t)
  BY <1>6 DEF Sound, IsHonest
<1>14. PICK q \in GetStates(t) : After(t, w) = {q}
  BY <1>10, <1>12, <1>13, OneState
<1>15. f = Explicit(t.q0, GetStates(t) \ t.acc, t.trans, t.det)
  <2>1. f = [t EXCEPT !.acc = GetStates(t) \ t.acc]
    BY DEF Flip
  <2> HIDE DEF f
  <2> QED BY <1>6, <1>13, <2>1, Changed
<1>16. IsAutomaton(f, Nat) /\ ~ IsSingleton(f) /\ f.trans = t.trans /\ f.q0 = t.q0
       /\ f.acc = GetStates(t) \ t.acc
  <2>1. /\ t.q0 \in Nat /\ t.acc \subseteq Nat /\ t.det \in BOOLEAN
        /\ t.trans \subseteq Nat \X Char \X Char \X Nat /\ IsFiniteSet(t.trans)
        /\ \A u \in t.trans : u[2] <= u[3]
        /\ GetStates(t) \subseteq Nat
    BY <1>13, Parts
  <2> DEFINE acc == GetStates(t) \ t.acc
             trans == t.trans
             q0 == t.q0
             det == t.det
  <2>2. acc \in SUBSET Nat /\ trans \in SUBSET (Nat \X Char \X Char \X Nat)
        /\ f = Explicit(q0, acc, trans, det) /\ IsFiniteSet(trans)
        /\ q0 \in Nat /\ det \in BOOLEAN
        /\ \A u \in trans : u[2] <= u[3]
    BY <1>15, <2>1
  <2> HIDE DEF f, acc, trans, q0, det
  <2>3. IsAutomaton(f, Nat) /\ ~ IsSingleton(f) /\ f.trans = trans /\ f.q0 = q0 /\ f.acc = acc
    <3> DEFINE x == Explicit(q0, acc, trans, det)
    <3>1. IsAutomaton(x, Nat) /\ ~ IsSingleton(x)
      BY <2>2, Made
    <3>2. x.trans = trans /\ x.q0 = q0 /\ x.acc = acc
      BY DEF Explicit
    <3> QED BY <2>2, <3>1, <3>2
  <2> QED BY <2>3 DEF acc, trans, q0
<1> HIDE DEF f
<1>17. Accepts(f, w) <=> ~ Accepts(t, w)
  <2>1. After(f, w) = {q}
    BY <1>14, <1>16, SameTransitions
  <2> QED BY <1>14, <1>16, <2>1 DEF Accepts
<1>18. Accepts(n, w) <=> Accepts(f, w)
  BY <1>16, TrimmedAccepts
<1>19. ~ IsSingleton(n)
  BY <1>16, Trimmed
<1>20. Run(n, w) <=> Accepts(n, w)
  BY <1>19, RunExplicit
<1> QED BY <1>1, <1>3, <1>5, <1>11, <1>17, <1>18, <1>20

(* The move e of a product is what a transition of each automaton has in   *)
(* common, and leads to a pair when it reads the letter c.                 *)
InCommon(m1, m2, S, e) ==
  \E t \in m1.trans, u \in m2.trans :
    /\ e = Common(t, u) /\ <<t[1], u[1]>> \in S
    /\ e[1] = <<t[1], u[1]>> /\ e[4] = <<t[4], u[4]>>

JointStep(m1, m2, S, c, p, q) ==
  \E e \in JointMoves(m1, m2, S) : e[1] = p /\ e[2] <= c /\ c <= e[3] /\ e[4] = q

(* Every move of a product is one.                                         *)
LEMMA JointMove ==
  ASSUME NEW m1, NEW m2, NEW S
  PROVE  \A e \in JointMoves(m1, m2, S) : InCommon(m1, m2, S, e)
<1> SUFFICES ASSUME NEW e \in JointMoves(m1, m2, S) PROVE InCommon(m1, m2, S, e)
  OBVIOUS
<1>1. PICK x \in m1.trans \X m2.trans : <<x[1][1], x[2][1]>> \in S /\ e = Common(x[1], x[2])
  BY DEF JointMoves
<1> DEFINE t == x[1]
           u == x[2]
<1>2. t \in m1.trans /\ u \in m2.trans /\ <<t[1], u[1]>> \in S /\ e = Common(t, u)
  BY <1>1
<1> HIDE DEF t, u
<1>3. e[1] = <<t[1], u[1]>> /\ e[4] = <<t[4], u[4]>>
  BY <1>2 DEF Common
<1> QED BY <1>2, <1>3 DEF InCommon

(* The pairs of states that intersection visits.                           *)
LEMMA PairsClosed ==
  ASSUME NEW m1, IsFiniteSet(m1.trans), NEW m2, IsFiniteSet(m2.trans)
  PROVE  /\ <<m1.q0, m2.q0>> \in Pairs(m1, m2)
         /\ Pairs(m1, m2) \subseteq Ends(m1) \X Ends(m2)
         /\ \A e \in JointMoves(m1, m2, Pairs(m1, m2)) : e[4] \in Pairs(m1, m2)
         /\ \A D : /\ <<m1.q0, m2.q0>> \in D /\ D \subseteq Ends(m1) \X Ends(m2)
                   /\ \A e \in JointMoves(m1, m2, D) : e[4] \in D
                   => Pairs(m1, m2) \subseteq D
<1> DEFINE U == Ends(m1) \X Ends(m2)
           q0 == <<m1.q0, m2.q0>>
           to(S) == {e[4] : e \in JointMoves(m1, m2, S)}
           next == [S \in SUBSET U |-> to(S)]
           Grown(grow) == grow = [s \in SUBSET U |-> IF s \cup to(s) = s THEN s ELSE grow[s \cup to(s)]]
           r == CHOOSE grow : Grown(grow)
           C == Pairs(m1, m2)
<1>1. C = r[{q0}]
  BY DEF Pairs, Closure
<1>2. \A S : to(S) \in SUBSET U
  <2> SUFFICES ASSUME NEW S, NEW e \in JointMoves(m1, m2, S) PROVE e[4] \in U
    OBVIOUS
  <2>1. PICK t \in m1.trans, u \in m2.trans :
           /\ e = Common(t, u) /\ <<t[1], u[1]>> \in S
           /\ e[1] = <<t[1], u[1]>> /\ e[4] = <<t[4], u[4]>>
    BY JointMove DEF InCommon
  <2>2. t[4] \in Ends(m1) /\ u[4] \in Ends(m2)
    BY DEF Ends
  <2> QED BY <2>1, <2>2
<1>3. \A S, T : S \subseteq T => to(S) \subseteq to(T)
  BY DEF JointMoves
<1> HIDE DEF to
<1>4. Monotone(U, next)
  BY <1>2, <1>3 DEF Monotone
<1>5. \A S \in SUBSET U : next[S] = to(S)
  OBVIOUS
<1> HIDE DEF next
<1>6. \A grow : Grown(grow) <=> Closes(grow, U, next)
  BY <1>5 DEF Closes
<1>7. Grown(r)
  <2>1. \E grow : Grown(grow)
    BY <1>4, <1>6, ClosesExists
  <2> QED BY <2>1
<1> HIDE DEF r, Grown
<1>8. IsFiniteSet(U)
  <2>1. IsFiniteSet(Ends(m1)) /\ IsFiniteSet(Ends(m2))
    BY Reachable
  <2> QED BY <2>1, FS_Product
<1>9. {q0} \in SUBSET U
  BY DEF Ends
<1> HIDE DEF C, q0
<1>10. IsLeastClosed(r[{q0}], {q0}, U, next)
  <2> HIDE DEF U
  <2>1. Closes(r, U, next)
    BY <1>6, <1>7
  <2> QED BY <1>4, <1>8, <1>9, <2>1, ClosesLeast
<1>11. /\ C \in SUBSET U /\ q0 \in C /\ next[C] \subseteq C
       /\ \A D \in SUBSET U : q0 \in D /\ next[D] \subseteq D => C \subseteq D
  BY <1>1, <1>10 DEF IsLeastClosed
<1>12. \A e \in JointMoves(m1, m2, C) : e[4] \in C
  <2>1. to(C) \subseteq C
    BY <1>5, <1>11
  <2> QED BY <2>1 DEF to
<1>13. ASSUME NEW D \in SUBSET U, q0 \in D, \A e \in JointMoves(m1, m2, D) : e[4] \in D
       PROVE  C \subseteq D
  <2>1. to(D) \subseteq D
    BY <1>13 DEF to
  <2> QED BY <1>5, <1>11, <1>13, <2>1
<1> QED BY <1>11, <1>12, <1>13 DEF C, q0

(* A joint move goes by the letters that both moves read.                  *)
LEMMA JointLetters ==
  ASSUME NEW m1, IsAutomaton(m1, Nat), NEW m2, IsAutomaton(m2, Nat),
         NEW S, NEW c \in Char, NEW p1, NEW p2, NEW q1, NEW q2, <<p1, p2>> \in S
  PROVE  JointStep(m1, m2, S, c, <<p1, p2>>, <<q1, q2>>)
           <=> q1 \in Step(m1, {p1}, c) /\ q2 \in Step(m2, {p2}, c)
<1>0. c \in Int
  BY CharAssumption DEF Char
<1>1. \A t \in m1.trans : t[2] \in Int /\ t[3] \in Int /\ t[2] <= t[3]
  <2>1. \A t \in m1.trans : t[2] \in Nat /\ t[3] \in Nat /\ t[2] <= t[3]
    BY Transition
  <2> QED BY <2>1
<1>2. \A t \in m2.trans : t[2] \in Int /\ t[3] \in Int /\ t[2] <= t[3]
  <2>1. \A t \in m2.trans : t[2] \in Nat /\ t[3] \in Nat /\ t[2] <= t[3]
    BY Transition
  <2> QED BY <2>1
<1> DEFINE Lo(t, u) == IF t[2] > u[2] THEN t[2] ELSE u[2]
           Hi(t, u) == IF t[3] < u[3] THEN t[3] ELSE u[3]
<1>3. ASSUME NEW t \in m1.trans, NEW u \in m2.trans
      PROVE  /\ Common(t, u)[1] = <<t[1], u[1]>> /\ Common(t, u)[4] = <<t[4], u[4]>>
             /\ Common(t, u)[2] <= c /\ c <= Common(t, u)[3]
                  <=> t[2] <= c /\ c <= t[3] /\ u[2] <= c /\ c <= u[3]
             /\ t[2] <= c /\ c <= t[3] /\ u[2] <= c /\ c <= u[3] => Meet(t, u)
  <2>1. t[2] \in Int /\ t[3] \in Int /\ u[2] \in Int /\ u[3] \in Int
    BY <1>1, <1>2
  <2>2. Common(t, u) = <<<<t[1], u[1]>>, Lo(t, u), Hi(t, u), <<t[4], u[4]>>>>
    BY DEF Common
  <2>3. /\ Lo(t, u) <= c <=> t[2] <= c /\ u[2] <= c
        /\ c <= Hi(t, u) <=> c <= t[3] /\ c <= u[3]
    BY <1>0, <2>1
  <2>4. t[2] <= c /\ c <= t[3] /\ u[2] <= c /\ c <= u[3] => Meet(t, u)
    BY <1>0, <2>1 DEF Meet
  <2> HIDE DEF Lo, Hi
  <2>5. /\ Common(t, u)[1] = <<t[1], u[1]>> /\ Common(t, u)[4] = <<t[4], u[4]>>
        /\ Common(t, u)[2] = Lo(t, u) /\ Common(t, u)[3] = Hi(t, u)
    BY <2>2
  <2> QED BY <2>3, <2>4, <2>5
<1>4. ASSUME NEW e \in JointMoves(m1, m2, S),
             e[1] = <<p1, p2>>, e[2] <= c, c <= e[3], e[4] = <<q1, q2>>
      PROVE  q1 \in Step(m1, {p1}, c) /\ q2 \in Step(m2, {p2}, c)
  <2>1. PICK t \in m1.trans, u \in m2.trans : e = Common(t, u)
    BY DEF JointMoves
  <2>2. <<t[1], u[1]>> = <<p1, p2>> /\ <<t[4], u[4]>> = <<q1, q2>>
    BY <1>3, <1>4, <2>1
  <2>3. t[1] = p1 /\ u[1] = p2 /\ t[4] = q1 /\ u[4] = q2
    BY <2>2
  <2>4. t[2] <= c /\ c <= t[3] /\ u[2] <= c /\ c <= u[3]
    BY <1>3, <1>4, <2>1
  <2> QED BY <2>3, <2>4, StepBy
<1>5. ASSUME q1 \in Step(m1, {p1}, c), q2 \in Step(m2, {p2}, c)
      PROVE  \E e \in JointMoves(m1, m2, S) :
               e[1] = <<p1, p2>> /\ e[2] <= c /\ c <= e[3] /\ e[4] = <<q1, q2>>
  <2>1. PICK t \in m1.trans : t[1] = p1 /\ t[2] <= c /\ c <= t[3] /\ t[4] = q1
    BY <1>5, StepBy
  <2>2. PICK u \in m2.trans : u[1] = p2 /\ u[2] <= c /\ c <= u[3] /\ u[4] = q2
    BY <1>5, StepBy
  <2>3. /\ Common(t, u)[1] = <<p1, p2>> /\ Common(t, u)[4] = <<q1, q2>>
        /\ Common(t, u)[2] <= c /\ c <= Common(t, u)[3] /\ Meet(t, u)
    BY <1>3, <2>1, <2>2
  <2>4. <<t, u>> \in m1.trans \X m2.trans /\ <<<<t, u>>[1][1], <<t, u>>[2][1]>> \in S
        /\ Meet(<<t, u>>[1], <<t, u>>[2])
    BY <2>1, <2>2, <2>3
  <2>5. Common(<<t, u>>[1], <<t, u>>[2]) \in JointMoves(m1, m2, S)
    BY ONLY <2>4 DEF JointMoves
  <2>6. Common(t, u) \in JointMoves(m1, m2, S)
    BY <2>5
  <2> QED BY <2>3, <2>6
<1> QED BY <1>4, <1>5 DEF JointStep

(* After a word a product is in the pairs of states that the word leads    *)
(* to.                                                                     *)
LEMMA ProductAfter ==
  ASSUME NEW m1, IsAutomaton(m1, Nat), NEW m2, IsAutomaton(m2, Nat), NEW w \in Seq(Char)
  PROVE  LET p == ProductOver(m1, m2, Pairs(m1, m2))
         IN  /\ After(p, w) = After(m1, w) \X After(m2, w)
             /\ After(p, w) \subseteq Pairs(m1, m2)
             /\ Accepts(p, w) <=> Accepts(m1, w) /\ Accepts(m2, w)
<1> DEFINE D == Pairs(m1, m2)
           p == ProductOver(m1, m2, D)
<1>1. p.q0 = <<m1.q0, m2.q0>> /\ p.acc = D \cap (m1.acc \X m2.acc) /\ p.trans = JointMoves(m1, m2, D)
  BY DEF ProductOver, Explicit
<1>2. IsFiniteSet(m1.trans) /\ IsFiniteSet(m2.trans)
  BY DEF IsAutomaton
<1>3. <<m1.q0, m2.q0>> \in D /\ \A e \in JointMoves(m1, m2, D) : e[4] \in D
  BY <1>2, PairsClosed
<1>4. \A e \in JointMoves(m1, m2, D) : \E p1, p2, q1, q2 : e[1] = <<p1, p2>> /\ e[4] = <<q1, q2>>
  <2> SUFFICES ASSUME NEW e \in JointMoves(m1, m2, D)
               PROVE  \E p1, p2, q1, q2 : e[1] = <<p1, p2>> /\ e[4] = <<q1, q2>>
    OBVIOUS
  <2>1. PICK t \in m1.trans, u \in m2.trans :
           /\ e = Common(t, u) /\ <<t[1], u[1]>> \in D
           /\ e[1] = <<t[1], u[1]>> /\ e[4] = <<t[4], u[4]>>
    <3> HIDE DEF D
    <3>1. InCommon(m1, m2, D, e)
      BY JointMove
    <3> QED BY <3>1 DEF InCommon
  <2> QED BY <2>1
<1> HIDE DEF p, D
<1>10. ASSUME NEW c \in Char, NEW p1, NEW p2, NEW q1, NEW q2, <<p1, p2>> \in D
       PROVE  JointStep(m1, m2, D, c, <<p1, p2>>, <<q1, q2>>)
              <=> q1 \in Step(m1, {p1}, c) /\ q2 \in Step(m2, {p2}, c)
  BY <1>10, JointLetters
<1> DEFINE T == {v \in Seq(Char) : /\ After(p, v) = After(m1, v) \X After(m2, v)
                                   /\ After(p, v) \subseteq D}
<1>5. <<>> \in T
  <2>1. /\ After(p, <<>>) = {<<m1.q0, m2.q0>>}
        /\ After(m1, <<>>) = {m1.q0} /\ After(m2, <<>>) = {m2.q0}
    BY <1>1, AfterAppend
  <2>2. <<>> \in Seq(Char)
    OBVIOUS
  <2>3. {<<m1.q0, m2.q0>>} = {m1.q0} \X {m2.q0}
    OBVIOUS
  <2> QED BY <1>3, <2>1, <2>2, <2>3
<1>6. ASSUME NEW v \in Seq(Char), NEW c \in Char, v \in T PROVE Append(v, c) \in T
  <2> DEFINE S1 == After(m1, v)
             S2 == After(m2, v)
  <2>1. After(p, Append(v, c)) = Step(p, After(p, v), c)
        /\ After(m1, Append(v, c)) = Step(m1, S1, c)
        /\ After(m2, Append(v, c)) = Step(m2, S2, c)
    BY AfterAppend
  <2>2. After(p, v) = S1 \X S2 /\ S1 \X S2 \subseteq D
    BY <1>6
  <2> HIDE DEF S1, S2
  <2>3. ASSUME NEW x \in Step(p, S1 \X S2, c)
        PROVE  x \in Step(m1, S1, c) \X Step(m2, S2, c) /\ x \in D
    <3>1. PICK e \in p.trans : e[1] \in S1 \X S2 /\ e[2] <= c /\ c <= e[3] /\ e[4] = x
      BY <2>3, StepBy
    <3>2. PICK p1, p2, q1, q2 : e[1] = <<p1, p2>> /\ e[4] = <<q1, q2>>
      BY <1>1, <1>4
    <3>3. p1 \in S1 /\ p2 \in S2 /\ <<p1, p2>> \in D
      BY <2>2, <3>1, <3>2
    <3>4. q1 \in Step(m1, {p1}, c) /\ q2 \in Step(m2, {p2}, c)
      <4>1. e \in JointMoves(m1, m2, D)
        BY <1>1
      <4>2. JointStep(m1, m2, D, c, <<p1, p2>>, <<q1, q2>>)
        BY <3>1, <3>2, <4>1 DEF JointStep
      <4> QED BY <1>10, <3>3, <4>2
    <3>5. q1 \in Step(m1, S1, c) /\ q2 \in Step(m2, S2, c)
      BY <3>3, <3>4 DEF Step
    <3>6. e[4] \in D
      BY <1>1, <1>3
    <3>7. x = <<q1, q2>>
      BY <3>1, <3>2
    <3> QED BY <3>1, <3>5, <3>6, <3>7
  <2>4. ASSUME NEW q1 \in Step(m1, S1, c), NEW q2 \in Step(m2, S2, c)
        PROVE  <<q1, q2>> \in Step(p, S1 \X S2, c)
    <3>1. PICK p1 \in S1 : q1 \in Step(m1, {p1}, c)
      BY DEF Step
    <3>2. PICK p2 \in S2 : q2 \in Step(m2, {p2}, c)
      BY DEF Step
    <3>3. <<p1, p2>> \in S1 \X S2 /\ <<p1, p2>> \in D
      BY <2>2
    <3>4. PICK e \in JointMoves(m1, m2, D) :
            e[1] = <<p1, p2>> /\ e[2] <= c /\ c <= e[3] /\ e[4] = <<q1, q2>>
      <4>1. JointStep(m1, m2, D, c, <<p1, p2>>, <<q1, q2>>)
        BY <1>10, <3>1, <3>2, <3>3
      <4> QED BY <4>1 DEF JointStep
    <3>5. e \in p.trans /\ e[1] \in S1 \X S2
      BY <1>1, <3>3, <3>4
    <3> QED BY <3>4, <3>5, StepBy
  <2>5. Append(v, c) \in Seq(Char)
    OBVIOUS
  <2>6. Step(p, S1 \X S2, c) = Step(m1, S1, c) \X Step(m2, S2, c)
        /\ Step(p, S1 \X S2, c) \subseteq D
    <3> DEFINE R == Step(p, S1 \X S2, c)
               R1 == Step(m1, S1, c)
               R2_ == Step(m2, S2, c)
    <3>1. R \subseteq R1 \X R2_ /\ R \subseteq D
      BY <2>3
    <3>2. \A q1 \in R1, q2 \in R2_ : <<q1, q2>> \in R
      BY <2>4
    <3> HIDE DEF R, R1, R2_
    <3>3. R = R1 \X R2_
      BY <3>1, <3>2
    <3> QED BY <3>1, <3>3 DEF R, R1, R2_
  <2> QED BY <2>1, <2>2, <2>5, <2>6
<1> HIDE DEF T
<1>7. Seq(Char) \subseteq T
  BY <1>5, <1>6, WordInduction
<1>8. After(p, w) = After(m1, w) \X After(m2, w) /\ After(p, w) \subseteq D
  BY <1>7 DEF T
<1>9. Accepts(p, w) <=> Accepts(m1, w) /\ Accepts(m2, w)
  <2>1. ASSUME NEW x \in After(p, w), x \in p.acc PROVE Accepts(m1, w) /\ Accepts(m2, w)
    <3>1. PICK q1, q2 : x = <<q1, q2>> /\ q1 \in After(m1, w) /\ q2 \in After(m2, w)
      BY <1>8
    <3>2. q1 \in m1.acc /\ q2 \in m2.acc
      BY <1>1, <2>1, <3>1
    <3> QED BY <3>1, <3>2 DEF Accepts
  <2>2. ASSUME NEW q1 \in After(m1, w), q1 \in m1.acc, NEW q2 \in After(m2, w), q2 \in m2.acc
        PROVE  Accepts(p, w)
    <3>1. <<q1, q2>> \in After(p, w) /\ <<q1, q2>> \in D
      BY <1>8
    <3>2. <<q1, q2>> \in p.acc
      BY <1>1, <2>2, <3>1
    <3> QED BY <3>1, <3>2 DEF Accepts
  <2> QED BY <2>1, <2>2 DEF Accepts
<1> QED BY <1>8, <1>9 DEF p, D

(* A singleton accepts its word,                                           *)
LEMMA OneWord ==
  ASSUME NEW m, Sound(m), IsSingleton(m)
  PROVE  \E v \in Seq(Char) : m.word = {v} /\ \A w \in Seq(Char) : Run(m, w) <=> w = v
<1> DEFINE v == CHOOSE v \in m.word : TRUE
           e == ExpandSingleton(m)
           n == Len(v)
           Begins(u) == Len(u) <= n /\ \A i \in 1..Len(u) : u[i] = v[i]
<1>1. v \in Seq(Char) /\ m.word = {v}
  <2>1. m.word # {} /\ m.word \subseteq Seq(Char) /\ \A x, y \in m.word : x = y
    BY DEF Sound, IsAutomaton, IsSingleton
  <2>2. v \in m.word
    BY <2>1
  <2> HIDE DEF v
  <2>3. m.word = {v}
    BY <2>1, <2>2
  <2> QED BY <2>1, <2>2, <2>3
<1>2. e = Explicit(0, {n}, {<<i - 1, v[i], v[i], i>> : i \in 1..n}, TRUE)
  BY DEF ExpandSingleton
<1> HIDE DEF v, e
<1>3. n \in Nat /\ \A i \in 1..n : v[i] \in Char
  BY <1>1
<1>4. e.q0 = 0 /\ e.acc = {n} /\ e.trans = {<<i - 1, v[i], v[i], i>> : i \in 1..n}
  BY <1>2 DEF Explicit
<1> DEFINE T == {u \in Seq(Char) : /\ Begins(u) => After(e, u) = {Len(u)}
                                   /\ ~ Begins(u) => After(e, u) = {}}
<1>5. <<>> \in T
  <2>1. After(e, <<>>) = {0}
    BY <1>4, AfterAppend
  <2>2. <<>> \in Seq(Char) /\ Len(<<>>) = 0
    OBVIOUS
  <2>3. Begins(<<>>)
    BY <1>3, <2>2
  <2> QED BY <2>1, <2>2, <2>3
<1>6. ASSUME NEW u \in Seq(Char), NEW c \in Char, u \in T PROVE Append(u, c) \in T
  <2> DEFINE x == Append(u, c)
             h == Len(u)
  <2>1. /\ x \in Seq(Char) /\ Len(x) = h + 1 /\ h \in Nat
        /\ x[h + 1] = c /\ \A i \in 1..h : x[i] = u[i]
    OBVIOUS
  <2>2. After(e, x) = Step(e, After(e, u), c)
    BY AfterAppend
  <2>3. (Begins(u) => After(e, u) = {h}) /\ (~ Begins(u) => After(e, u) = {})
    BY <1>6
  <2> HIDE DEF x
  <2>4. Begins(x) <=> Begins(u) /\ h + 1 <= n /\ v[h + 1] = c
    <3>1. ASSUME Begins(x) PROVE Begins(u) /\ h + 1 <= n /\ v[h + 1] = c
      <4>1. h + 1 <= n /\ \A i \in 1..h + 1 : x[i] = v[i]
        BY <2>1, <3>1
      <4>2. h + 1 \in 1..h + 1 /\ \A i \in 1..h : i \in 1..h + 1
        BY <2>1
      <4>3. Begins(u)
        BY <1>3, <2>1, <4>1, <4>2
      <4> QED BY <2>1, <4>1, <4>2, <4>3
    <3>2. ASSUME Begins(u), h + 1 <= n, v[h + 1] = c PROVE Begins(x)
      <4>1. ASSUME NEW i \in 1..h + 1 PROVE x[i] = v[i]
        <5>1. i = h + 1 \/ i \in 1..h
          BY <2>1
        <5> QED BY <2>1, <3>2, <5>1
      <4> QED BY <2>1, <3>2, <4>1
    <3> QED BY <3>1, <3>2
  <2>5. \A q : q \in Step(e, {h}, c) <=> h + 1 <= n /\ v[h + 1] = c /\ q = h + 1
    <3>0. c \in Int /\ \A i \in 1..n : v[i] \in Int
      BY <1>3, CharAssumption DEF Char
    <3>1. ASSUME NEW q \in Step(e, {h}, c) PROVE h + 1 <= n /\ v[h + 1] = c /\ q = h + 1
      <4>1. PICK t \in e.trans : t[1] = h /\ t[2] <= c /\ c <= t[3] /\ t[4] = q
        BY <3>1, StepBy
      <4>2. PICK i \in 1..n : t = <<i - 1, v[i], v[i], i>>
        BY <1>4
      <4>3. i - 1 = h /\ v[i] <= c /\ c <= v[i] /\ q = i
        BY <4>1, <4>2
      <4>4. i = h + 1 /\ v[i] = c /\ i <= n
        BY <1>3, <2>1, <3>0, <4>3
      <4> QED BY <4>3, <4>4
    <3>2. ASSUME h + 1 <= n, v[h + 1] = c PROVE h + 1 \in Step(e, {h}, c)
      <4>1. h + 1 \in 1..n /\ (h + 1) - 1 = h
        BY <1>3, <2>1, <3>2
      <4> DEFINE t == <<(h + 1) - 1, v[h + 1], v[h + 1], h + 1>>
      <4>2. t \in e.trans
        BY <1>4, <4>1
      <4>3. t[1] = h /\ t[2] <= c /\ c <= t[3] /\ t[4] = h + 1
        BY <3>0, <3>2, <4>1
      <4> HIDE DEF t
      <4> QED BY <4>2, <4>3, StepBy
    <3> QED BY <3>1, <3>2
  <2>6. CASE Begins(u)
    <3>1. After(e, x) = Step(e, {h}, c)
      BY <2>2, <2>3, <2>6
    <3>2. Begins(x) => After(e, x) = {h + 1}
      BY <2>4, <2>5, <3>1
    <3>3. ~ Begins(x) => After(e, x) = {}
      BY <2>4, <2>5, <2>6, <3>1
    <3> QED BY <2>1, <3>2, <3>3 DEF x
  <2>7. CASE ~ Begins(u)
    <3>1. After(e, x) = {} /\ ~ Begins(x)
      BY <2>2, <2>3, <2>4, <2>7 DEF Step
    <3> HIDE DEF Begins
    <3> QED BY <2>1, <3>1 DEF x
  <2> QED BY <2>6, <2>7
<1> HIDE DEF T
<1>7. Seq(Char) \subseteq T
  BY <1>5, <1>6, WordInduction
<1>8. ASSUME NEW w \in Seq(Char) PROVE Run(m, w) <=> w = v
  <2>1. (Begins(w) => After(e, w) = {Len(w)}) /\ (~ Begins(w) => After(e, w) = {})
    BY <1>7 DEF T
  <2>2. Run(m, w) <=> After(e, w) \cap {n} # {}
    BY <1>4, RunIs DEF Accepts, e
  <2>3. Run(m, w) <=> Begins(w) /\ Len(w) = n
    BY <2>1, <2>2
  <2>4. ASSUME Begins(w), Len(w) = n PROVE w = v
    <3>1. \A i \in 1..Len(w) : w[i] = v[i]
      BY <2>4
    <3> QED BY <1>1, <2>4, <3>1, SeqEqual
  <2>5. w = v => Begins(w) /\ Len(w) = n
    BY <1>3
  <2> QED BY <2>3, <2>4, <2>5
<1> QED BY <1>1, <1>8

(* A singleton accepts its own word only.                                  *)
LEMMA SingletonRun ==
  ASSUME NEW v \in Seq(Char), NEW w \in Seq(Char)
  PROVE  Run(Singleton(v), w) <=> w = v
<1> DEFINE m == Singleton(v)
<1>1. Sound(m)
  BY EmptyIsTidy DEF Tidy
<1>2. IsSingleton(m) /\ m.word = {v}
  BY DEF Singleton, IsSingleton
<1> HIDE DEF m
<1>3. PICK x \in Seq(Char) : m.word = {x} /\ (Run(m, w) <=> w = x)
  BY <1>1, <1>2, OneWord
<1> QED BY <1>2, <1>3 DEF m

(* and what counts as empty nothing.                                       *)
LEMMA NothingAhead ==
  ASSUME NEW m, \A t \in m.trans : t[1] # m.q0, NEW w \in Seq(Char)
  PROVE  /\ w = <<>> => After(m, w) = {m.q0}
         /\ w # <<>> => After(m, w) = {}
<1> DEFINE T == {v \in Seq(Char) : v # <<>> => After(m, v) = {}}
<1>1. <<>> \in T
  OBVIOUS
<1>2. ASSUME NEW v \in Seq(Char), NEW c \in Char, v \in T PROVE Append(v, c) \in T
  <2>1. After(m, Append(v, c)) = Step(m, After(m, v), c)
    BY AfterAppend
  <2>2. After(m, v) = {m.q0} \/ After(m, v) = {}
    BY <1>2, AfterAppend
  <2>3. Step(m, After(m, v), c) = {}
    BY <2>2 DEF Step
  <2>4. Append(v, c) \in Seq(Char)
    OBVIOUS
  <2> QED BY <2>1, <2>3, <2>4
<1> HIDE DEF T
<1>3. Seq(Char) \subseteq T
  BY <1>1, <1>2, WordInduction
<1>4. w # <<>> => After(m, w) = {}
  BY <1>3 DEF T
<1>5. After(m, <<>>) = {m.q0}
  BY AfterAppend
<1> QED BY <1>4, <1>5

(* An automaton that isEmpty recognises accepts nothing,                   *)
LEMMA EmptyRun ==
  ASSUME NEW m, IsEmpty(m), NEW w \in Seq(Char)
  PROVE  ~ Run(m, w)
<1>1. ~ IsSingleton(m) /\ m.q0 \notin m.acc /\ \A t \in m.trans : t[1] # m.q0
  BY DEF IsEmpty
<1>2. After(m, w) \subseteq {m.q0}
  BY <1>1, NothingAhead
<1> QED BY <1>1, <1>2, RunExplicit DEF Accepts

(* and makeEmpty makes such a one.                                         *)
LEMMA MakeEmptyRun ==
  ASSUME NEW w \in Seq(Char)
  PROVE  ~ Run(MakeEmpty, w)
<1>1. IsEmpty(MakeEmpty)
  BY DEF IsEmpty, MakeEmpty, Explicit, IsSingleton
<1> QED BY <1>1, EmptyRun

(* What isEmptyString recognises accepts the empty word only.              *)
LEMMA EmptyStringRun ==
  ASSUME NEW m, Sound(m), IsEmptyString(m), NEW w \in Seq(Char)
  PROVE  Run(m, w) <=> w = <<>>
<1>1. CASE IsSingleton(m)
  <2>1. PICK v \in Seq(Char) : m.word = {v} /\ (Run(m, w) <=> w = v)
    BY <1>1, OneWord
  <2>2. m.word = {<<>>}
    BY <1>1 DEF IsEmptyString
  <2> QED BY <2>1, <2>2
<1>2. CASE ~ IsSingleton(m)
  <2>1. m.q0 \in m.acc /\ \A t \in m.trans : t[1] # m.q0
    BY <1>2 DEF IsEmptyString
  <2>2. (w = <<>> => After(m, w) = {m.q0}) /\ (w # <<>> => After(m, w) = {})
    BY <2>1, NothingAhead
  <2> QED BY <1>2, <2>1, <2>2, RunExplicit DEF Accepts
<1> QED BY <1>1, <1>2

(* determinize keeps the language (BasicOperations.determinize): the       *)
(* subset construction over the intervals between the start points of the  *)
(* transitions accepts a word exactly when one of the runs of the          *)
(* automaton does.                                                         *)
THEOREM DeterminizeRun ==
  ASSUME NEW m, Sound(m), NEW w \in Seq(Char)
  PROVE  Run(Determinize(m), w) <=> Run(m, w)
<1>1. CASE IsSingleton(m)
  BY <1>1 DEF Determinize
<1>2. CASE ~ IsSingleton(m)
  <2>1. IsAutomaton(m, Nat)
    BY DEF Sound
  <2>2. ~ IsSingleton(Determinize(m))
    BY <1>2, DeterminizeSound
  <2>3. Accepts(Determinize(m), w) <=> Accepts(m, w)
    BY <1>2, <2>1, DeterminizeAccepts
  <2> QED BY <1>2, <2>2, <2>3, RunExplicit
<1> QED BY <1>1, <1>2

(* The product of intersection accepts what both automata accept.          *)
LEMMA ProductRun ==
  ASSUME NEW m1, Sound(m1), ~ IsSingleton(m1), NEW m2, Sound(m2), ~ IsSingleton(m2),
         NEW w \in Seq(Char)
  PROVE  Run(Product(m1, m2), w) <=> Run(m1, w) /\ Run(m2, w)
<1> DEFINE p == ProductOver(m1, m2, Pairs(m1, m2))
           n == Numbered(RemoveDeadTransitions(p))
<1>1. Product(m1, m2) = n
  BY DEF Product
<1>2. IsAutomaton(m1, Nat) /\ IsAutomaton(m2, Nat)
  BY DEF Sound
<1>3. Accepts(p, w) <=> Accepts(m1, w) /\ Accepts(m2, w)
  BY <1>2, ProductAfter
<1>4. IsAutomaton(p, Nat \X Nat) /\ ~ IsSingleton(p)
  BY ProductIsOne
<1> HIDE DEF p
<1>5. (Accepts(n, w) <=> Accepts(p, w)) /\ ~ IsSingleton(n)
  BY <1>4, TrimmedAccepts, Trimmed
<1>6. Run(n, w) <=> Accepts(n, w)
  BY <1>5, RunExplicit
<1>7. (Run(m1, w) <=> Accepts(m1, w)) /\ (Run(m2, w) <=> Accepts(m2, w))
  BY RunExplicit
<1> QED BY <1>1, <1>3, <1>5, <1>6, <1>7

(* What intersection and minus return for a singleton.                     *)
OnlyIn(s, m) == IF \A w \in s.word : Run(m, w) THEN s ELSE MakeEmpty

(* It accepts the word of the singleton when the other automaton does.     *)
LEMMA OnlyRun ==
  ASSUME NEW s, Sound(s), IsSingleton(s), NEW m, NEW w \in Seq(Char)
  PROVE  Run(OnlyIn(s, m), w) <=> Run(s, w) /\ Run(m, w)
<1>1. PICK v \in Seq(Char) : s.word = {v} /\ (Run(s, w) <=> w = v)
  BY OneWord
<1>2. OnlyIn(s, m) = IF Run(m, v) THEN s ELSE MakeEmpty
  BY <1>1 DEF OnlyIn
<1>3. ~ Run(MakeEmpty, w)
  BY MakeEmptyRun
<1> QED BY <1>1, <1>2, <1>3

(* intersection accepts the words that both automata accept                *)
(* (BasicOperations.intersection), whichever of them are singletons.       *)
THEOREM IntersectionRun ==
  ASSUME NEW m1, Sound(m1), NEW m2, Sound(m2), NEW w \in Seq(Char)
  PROVE  Run(Intersection(m1, m2), w) <=> Run(m1, w) /\ Run(m2, w)
<1>1. \/ IsSingleton(m1) /\ Intersection(m1, m2) = OnlyIn(m1, m2)
      \/ IsSingleton(m2) /\ Intersection(m1, m2) = OnlyIn(m2, m1)
      \/ ~ IsSingleton(m1) /\ ~ IsSingleton(m2) /\ Intersection(m1, m2) = Product(m1, m2)
  BY DEF Intersection, OnlyIn
<1>2. CASE IsSingleton(m1) /\ Intersection(m1, m2) = OnlyIn(m1, m2)
  BY <1>2, OnlyRun
<1>3. CASE IsSingleton(m2) /\ Intersection(m1, m2) = OnlyIn(m2, m1)
  BY <1>3, OnlyRun
<1>4. CASE ~ IsSingleton(m1) /\ ~ IsSingleton(m2) /\ Intersection(m1, m2) = Product(m1, m2)
  BY <1>4, ProductRun
<1> QED BY <1>1, <1>2, <1>3, <1>4

(* minus accepts the words that the first automaton accepts and the second *)
(* does not (BasicOperations.minus).                                       *)
THEOREM MinusRun ==
  ASSUME NEW m1, Sound(m1), NEW m2, Sound(m2), NEW w \in Seq(Char)
  PROVE  Run(Minus(m1, m2), w) <=> Run(m1, w) /\ ~ Run(m2, w)
<1> DEFINE one == IF \A v \in m1.word : Run(m2, v) THEN MakeEmpty ELSE m1
<1>1. \/ IsEmpty(m1) /\ Minus(m1, m2) = MakeEmpty
      \/ IsEmpty(m2) /\ Minus(m1, m2) = m1
      \/ IsSingleton(m1) /\ Minus(m1, m2) = one
      \/ Minus(m1, m2) = Intersection(m1, Complement(m2))
  BY DEF Minus
<1>2. CASE IsEmpty(m1) /\ Minus(m1, m2) = MakeEmpty
  BY <1>2, EmptyRun, MakeEmptyRun
<1>3. CASE IsEmpty(m2) /\ Minus(m1, m2) = m1
  BY <1>3, EmptyRun
<1>4. CASE IsSingleton(m1) /\ Minus(m1, m2) = one
  <2>1. PICK v \in Seq(Char) : m1.word = {v} /\ (Run(m1, w) <=> w = v)
    BY <1>4, OneWord
  <2>2. one = IF Run(m2, v) THEN MakeEmpty ELSE m1
    BY <2>1
  <2>3. ~ Run(MakeEmpty, w)
    BY MakeEmptyRun
  <2> HIDE DEF one
  <2> QED BY <1>4, <2>1, <2>2, <2>3
<1>5. CASE Minus(m1, m2) = Intersection(m1, Complement(m2))
  <2>1. Sound(Complement(m2)) /\ (Run(Complement(m2), w) <=> ~ Run(m2, w))
    BY ComplementTidy, ComplementRun DEF Tidy
  <2>2. Run(Intersection(m1, Complement(m2)), w) <=> Run(m1, w) /\ Run(Complement(m2), w)
    BY <2>1, IntersectionRun
  <2> QED BY <1>5, <2>1, <2>2
<1> QED BY <1>1, <1>2, <1>3, <1>4, <1>5

(* An epsilon move starts from where it leads as well.                     *)
Jump(pairs, S) == {p[2] : p \in {x \in pairs : x[1] \in S}}

(* In r a step goes where m goes after the jumps of the pairs, and r       *)
(* accepts where m does after them.                                        *)
StepsAhead(r, m, pairs) ==
  \A S, c : Step(r, S, c) = Step(m, S \cup Jump(pairs, S), c)

EpsilonMoves(r, m, pairs) ==
  /\ StepsAhead(r, m, pairs)
  /\ \A S : S \cap r.acc # {} <=> (S \cup Jump(pairs, S)) \cap m.acc # {}

(* addEpsilons makes that of an automaton and the pairs it is given.       *)
LEMMA EpsilonsMove ==
  ASSUME NEW Q, NEW m, IsAutomaton(m, Q), ~ IsSingleton(m),
         NEW pairs, IsFiniteSet(pairs), \A p \in pairs : p[1] \in Q
  PROVE  EpsilonMoves(AddEpsilons(m, pairs), m, pairs)
<1> DEFINE r == AddEpsilons(m, pairs)
<1>1. r.trans = m.trans \cup UNION {{<<p[1], t[2], t[3], t[4]>> :
                              t \in {u \in m.trans : u[1] = p[2]}} : p \in pairs}
  BY EpsilonsAdded
<1>2. r.acc = m.acc \cup {p[1] : p \in {x \in pairs : x[2] \in m.acc}}
  BY EpsilonsAdded
<1> HIDE DEF r
<1>3. \A S, c : Step(r, S, c) = Step(m, S \cup Jump(pairs, S), c)
  <2> SUFFICES ASSUME NEW S, NEW c PROVE Step(r, S, c) = Step(m, S \cup Jump(pairs, S), c)
    OBVIOUS
  <2>1. ASSUME NEW q \in Step(r, S, c) PROVE q \in Step(m, S \cup Jump(pairs, S), c)
    <3>1. PICK u \in r.trans : u[1] \in S /\ u[2] <= c /\ c <= u[3] /\ u[4] = q
      BY <2>1, StepBy
    <3>2. CASE u \in m.trans
      BY <3>1, <3>2, StepBy
    <3>3. CASE u \notin m.trans
      <4>1. PICK p \in pairs, t \in m.trans : t[1] = p[2] /\ u = <<p[1], t[2], t[3], t[4]>>
        BY <1>1, <3>3
      <4>2. p[1] \in S /\ t[2] <= c /\ c <= t[3] /\ t[4] = q
        BY <3>1, <4>1
      <4>3. t[1] \in Jump(pairs, S)
        BY <4>1, <4>2 DEF Jump
      <4> QED BY <4>2, <4>3, StepBy
    <3> QED BY <3>2, <3>3
  <2>2. ASSUME NEW q \in Step(m, S \cup Jump(pairs, S), c) PROVE q \in Step(r, S, c)
    <3>1. PICK t \in m.trans : t[1] \in S \cup Jump(pairs, S) /\ t[2] <= c /\ c <= t[3] /\ t[4] = q
      BY <2>2, StepBy
    <3>2. CASE t[1] \in S
      BY <1>1, <3>1, <3>2, StepBy
    <3>3. CASE t[1] \in Jump(pairs, S)
      <4>1. PICK p \in pairs : p[1] \in S /\ p[2] = t[1]
        BY <3>3 DEF Jump
      <4> DEFINE u == <<p[1], t[2], t[3], t[4]>>
      <4>2. u \in r.trans
        BY <1>1, <4>1
      <4>3. u[1] \in S /\ u[2] <= c /\ c <= u[3] /\ u[4] = q
        BY <3>1, <4>1
      <4> HIDE DEF u
      <4> QED BY <4>2, <4>3, StepBy
    <3> QED BY <3>1, <3>2, <3>3
  <2> QED BY <2>1, <2>2
<1>4. \A S : S \cap r.acc # {} <=> (S \cup Jump(pairs, S)) \cap m.acc # {}
  <2> SUFFICES ASSUME NEW S
               PROVE  S \cap r.acc # {} <=> (S \cup Jump(pairs, S)) \cap m.acc # {}
    OBVIOUS
  <2>1. ASSUME NEW q \in S, q \in r.acc PROVE (S \cup Jump(pairs, S)) \cap m.acc # {}
    <3>1. CASE q \in m.acc
      BY <3>1
    <3>2. CASE q \notin m.acc
      <4>1. PICK p \in pairs : p[2] \in m.acc /\ p[1] = q
        BY <1>2, <2>1, <3>2
      <4>2. p[2] \in Jump(pairs, S)
        BY <4>1 DEF Jump
      <4> QED BY <4>1, <4>2
    <3> QED BY <3>1, <3>2
  <2>2. ASSUME NEW q \in S \cup Jump(pairs, S), q \in m.acc PROVE S \cap r.acc # {}
    <3>1. CASE q \in S
      BY <1>2, <2>2, <3>1
    <3>2. CASE q \in Jump(pairs, S)
      <4>1. PICK p \in pairs : p[1] \in S /\ p[2] = q
        BY <3>2 DEF Jump
      <4>2. p[1] \in r.acc
        BY <1>2, <2>2, <4>1
      <4> QED BY <4>1, <4>2
    <3> QED BY <3>1, <3>2
  <2> QED BY <2>1, <2>2
<1> QED BY <1>3, <1>4 DEF r, EpsilonMoves, StepsAhead

(* Automata side by side: each goes its own way.                           *)
Part(S, i) == {q \in Nat : <<i, q>> \in S}

(* m holds the automata e[i] side by side: a state of e[i] is tagged with  *)
(* i.                                                                      *)
SideBySide(m, I, e) ==
  /\ \A i \in I : IsAutomaton(e[i], Nat)
  /\ \A t : t \in m.trans <=> \E i \in I : \E u \in e[i].trans :
                                t = <<<<i, u[1]>>, u[2], u[3], <<i, u[4]>>>>
  /\ \A x : x \in m.acc <=> \E i \in I : \E q \in e[i].acc : x = <<i, q>>

(* A step of m is a step of each of them,                                  *)
LEMMA SideStep ==
  ASSUME NEW m, NEW I, NEW e, SideBySide(m, I, e), NEW S, NEW c
  PROVE  \A x : x \in Step(m, S, c) <=> \E i \in I : \E q \in Step(e[i], Part(S, i), c) : x = <<i, q>>
<1>1. ASSUME NEW x \in Step(m, S, c)
      PROVE  \E i \in I : \E q \in Step(e[i], Part(S, i), c) : x = <<i, q>>
  <2>1. PICK t \in m.trans : t[1] \in S /\ t[2] <= c /\ c <= t[3] /\ t[4] = x
    BY <1>1, StepBy
  <2>2. PICK i \in I : \E u \in e[i].trans : t = <<<<i, u[1]>>, u[2], u[3], <<i, u[4]>>>>
    BY <2>1 DEF SideBySide
  <2>22. PICK u \in e[i].trans : t = <<<<i, u[1]>>, u[2], u[3], <<i, u[4]>>>>
    BY <2>2
  <2>3. <<i, u[1]>> \in S /\ u[2] <= c /\ c <= u[3] /\ x = <<i, u[4]>>
    BY <2>1, <2>22
  <2>4. IsAutomaton(e[i], Nat)
    BY DEF SideBySide
  <2>5. u[1] \in Nat
    BY <2>4, Transition
  <2>6. u[1] \in Part(S, i)
    BY <2>3, <2>5 DEF Part
  <2>7. u[4] \in Step(e[i], Part(S, i), c)
    BY <2>3, <2>6, StepBy
  <2> QED BY <2>3, <2>7
<1>2. ASSUME NEW i \in I, NEW q \in Step(e[i], Part(S, i), c)
      PROVE  <<i, q>> \in Step(m, S, c)
  <2>1. PICK u \in e[i].trans : u[1] \in Part(S, i) /\ u[2] <= c /\ c <= u[3] /\ u[4] = q
    BY <1>2, StepBy
  <2> DEFINE t == <<<<i, u[1]>>, u[2], u[3], <<i, u[4]>>>>
  <2>2. t \in m.trans
    BY DEF SideBySide
  <2>3. t[1] \in S /\ t[2] <= c /\ c <= t[3] /\ t[4] = <<i, q>>
    BY <2>1 DEF Part
  <2> HIDE DEF t
  <2> QED BY <2>2, <2>3, StepBy
<1> QED BY <1>1, <1>2

(* so that the states of one do not depend on those of another,            *)
LEMMA SideParts ==
  ASSUME NEW m, NEW I, NEW e, SideBySide(m, I, e), NEW S, NEW c
  PROVE  /\ \A i \in I : Part(Step(m, S, c), i) = Step(e[i], Part(S, i), c)
         /\ \A x \in Step(m, S, c) : \E i \in I : \E q \in Nat : x = <<i, q>>
<1>1. \A i \in I : Step(e[i], Part(S, i), c) \subseteq Nat
  <2> SUFFICES ASSUME NEW i \in I, NEW q \in Step(e[i], Part(S, i), c) PROVE q \in Nat
    OBVIOUS
  <2>1. IsAutomaton(e[i], Nat)
    BY DEF SideBySide
  <2>2. PICK u \in e[i].trans : u[4] = q
    BY StepBy
  <2> QED BY <2>1, <2>2, Transition
<1>2. \A x : x \in Step(m, S, c) <=> \E i \in I : \E q \in Step(e[i], Part(S, i), c) : x = <<i, q>>
  BY SideStep
<1>3. ASSUME NEW i \in I PROVE Part(Step(m, S, c), i) = Step(e[i], Part(S, i), c)
  <2>1. ASSUME NEW q \in Part(Step(m, S, c), i) PROVE q \in Step(e[i], Part(S, i), c)
    <3>1. <<i, q>> \in Step(m, S, c)
      BY DEF Part
    <3>2. PICK h \in I : \E r \in Step(e[h], Part(S, h), c) : <<i, q>> = <<h, r>>
      BY <1>2, <3>1
    <3>3. i = h /\ q \in Step(e[h], Part(S, h), c)
      BY <3>2
    <3> QED BY <3>3
  <2>2. ASSUME NEW q \in Step(e[i], Part(S, i), c) PROVE q \in Part(Step(m, S, c), i)
    <3>1. <<i, q>> \in Step(m, S, c) /\ q \in Nat
      BY <1>1, <1>2
    <3> QED BY <3>1 DEF Part
  <2> QED BY <2>1, <2>2
<1>4. \A x \in Step(m, S, c) : \E i \in I : \E q \in Nat : x = <<i, q>>
  BY <1>1, <1>2
<1> QED BY <1>3, <1>4

(* and m accepts in a set of states when one of them does in its part.     *)
LEMMA SideAccepts ==
  ASSUME NEW m, NEW I, NEW e, SideBySide(m, I, e), NEW S
  PROVE  S \cap m.acc # {} <=> \E i \in I : Part(S, i) \cap e[i].acc # {}
<1>0. \A i \in I : e[i].acc \subseteq Nat
  BY Parts DEF SideBySide
<1>1. ASSUME NEW x \in S, x \in m.acc PROVE \E i \in I : Part(S, i) \cap e[i].acc # {}
  <2>1. PICK i \in I : \E q \in e[i].acc : x = <<i, q>>
    BY <1>1 DEF SideBySide
  <2>2. PICK q \in e[i].acc : x = <<i, q>>
    BY <2>1
  <2>3. q \in Part(S, i)
    BY <1>0, <2>2 DEF Part
  <2> QED BY <2>2, <2>3
<1>2. ASSUME NEW i \in I, NEW q \in Part(S, i), q \in e[i].acc PROVE S \cap m.acc # {}
  <2>1. <<i, q>> \in S /\ <<i, q>> \in m.acc
    BY <1>2 DEF Part, SideBySide
  <2> QED BY <2>1
<1> QED BY <1>1, <1>2

(* A new initial state from which epsilon moves go to all of them: union.  *)
Ahead(D, S, pairs) == D = S \cup Jump(pairs, S)

(* The pairs lead from a new state to the initial state of each e[i].      *)
Starts(pairs, I, e) == \A p : p \in pairs <=> \E i \in I : p = <<<<0, 0>>, <<i, e[i].q0>>>>

(* Then a word leads to the states it leads to in each e[i],               *)
LEMMA UnionParts ==
  ASSUME NEW m, NEW I, 0 \notin I, NEW e, SideBySide(m, I, e),
         NEW pairs, Starts(pairs, I, e), NEW r, r.q0 = <<0, 0>>, StepsAhead(r, m, pairs),
         NEW w \in Seq(Char), NEW D, Ahead(D, After(r, w), pairs)
  PROVE  /\ \A i \in I : Part(D, i) = After(e[i], w)
         /\ <<0, 0>> \in D <=> w = <<>>
<1> DEFINE C(v) == After(r, v) \cup Jump(pairs, After(r, v))
           T == {v \in Seq(Char) : /\ \A i \in I : Part(C(v), i) = After(e[i], v)
                                   /\ <<0, 0>> \in C(v) <=> v = <<>>}
<1>0. \A i \in I : e[i].q0 \in Nat
  BY Parts DEF SideBySide
<1>8. \A p : p \in pairs <=> \E i \in I : p = <<<<0, 0>>, <<i, e[i].q0>>>>
  BY DEF Starts
<1>9. \A S, c : Step(r, S, c) = Step(m, S \cup Jump(pairs, S), c)
  BY DEF StepsAhead
<1>1. <<>> \in T
  <2>1. After(r, <<>>) = {<<0, 0>>} /\ \A i \in I : After(e[i], <<>>) = {e[i].q0}
    BY AfterAppend
  <2>2. \A x : x \in Jump(pairs, {<<0, 0>>}) <=> \E i \in I : x = <<i, e[i].q0>>
    <3>1. ASSUME NEW i \in I PROVE <<i, e[i].q0>> \in Jump(pairs, {<<0, 0>>})
      <4> DEFINE p == <<<<0, 0>>, <<i, e[i].q0>>>>
      <4>1. p \in pairs
        BY <1>8
      <4>2. p[1] = <<0, 0>> /\ p[2] = <<i, e[i].q0>>
        OBVIOUS
      <4> HIDE DEF p
      <4> QED BY <4>1, <4>2 DEF Jump
    <3>2. ASSUME NEW x \in Jump(pairs, {<<0, 0>>}) PROVE \E i \in I : x = <<i, e[i].q0>>
      <4>1. PICK p \in pairs : p[2] = x
        BY <3>2 DEF Jump
      <4>2. PICK i \in I : p = <<<<0, 0>>, <<i, e[i].q0>>>>
        BY <1>8, <4>1
      <4> QED BY <4>1, <4>2
    <3> QED BY <3>1, <3>2
  <2>3. ASSUME NEW i \in I PROVE Part(C(<<>>), i) = {e[i].q0}
    <3>1. C(<<>>) = {<<0, 0>>} \cup Jump(pairs, {<<0, 0>>})
      BY <2>1
    <3> HIDE DEF C
    <3>2. ASSUME NEW q \in Part(C(<<>>), i) PROVE q = e[i].q0
      <4>1. <<i, q>> \in C(<<>>)
        BY DEF Part
      <4>2. CASE <<i, q>> = <<0, 0>>
        <5>1. i = 0
          BY <4>2
        <5> QED BY <5>1
      <4>3. CASE <<i, q>> # <<0, 0>>
        <5>1. PICK h \in I : <<i, q>> = <<h, e[h].q0>>
          BY <2>2, <3>1, <4>1, <4>3
        <5> QED BY <5>1
      <4> QED BY <4>2, <4>3
    <3>3. e[i].q0 \in Part(C(<<>>), i)
      BY <1>0, <2>2, <3>1 DEF Part
    <3> QED BY <3>2, <3>3
  <2>4. <<>> \in Seq(Char)
    OBVIOUS
  <2>5. <<0, 0>> \in C(<<>>)
    BY <2>1
  <2> HIDE DEF C
  <2> QED BY <2>1, <2>3, <2>4, <2>5
<1>2. ASSUME NEW v \in Seq(Char), NEW c \in Char, v \in T PROVE Append(v, c) \in T
  <2> DEFINE S == After(r, Append(v, c))
  <2>1. S = Step(m, C(v), c)
    <3>1. S = Step(r, After(r, v), c)
      BY AfterAppend
    <3> QED BY <1>9, <3>1
  <2> HIDE DEF S
  <2>2. C(Append(v, c)) = S \cup Jump(pairs, S)
    BY DEF S
  <2>3. \A i \in I : Part(C(v), i) = After(e[i], v)
    BY <1>2
  <2> HIDE DEF C
  <2>4. /\ \A i \in I : Part(S, i) = Step(e[i], Part(C(v), i), c)
        /\ \A x \in S : \E i \in I : \E q \in Nat : x = <<i, q>>
    BY <2>1, SideParts
  <2>5. Jump(pairs, S) = {}
    <3> SUFFICES ASSUME NEW p \in pairs, p[1] \in S PROVE FALSE
      BY DEF Jump
    <3>1. PICK i \in I : p = <<<<0, 0>>, <<i, e[i].q0>>>>
      BY <1>8
    <3>2. PICK h \in I : \E q \in Nat : p[1] = <<h, q>>
      BY <2>4
    <3>3. <<0, 0>> \in S /\ p[1] = <<0, 0>>
      BY <3>1
    <3>4. h = 0
      BY <3>2, <3>3
    <3> QED BY <3>4
  <2>6. ASSUME NEW i \in I PROVE Part(C(Append(v, c)), i) = After(e[i], Append(v, c))
    <3>1. C(Append(v, c)) = S
      BY <2>2, <2>5
    <3>2. After(e[i], Append(v, c)) = Step(e[i], After(e[i], v), c)
      BY AfterAppend
    <3> QED BY <2>3, <2>4, <3>1, <3>2
  <2>7. Append(v, c) \in Seq(Char)
    OBVIOUS
  <2>8. <<0, 0>> \notin C(Append(v, c))
    <3>1. ASSUME <<0, 0>> \in S PROVE FALSE
      <4>1. PICK i \in I : \E q \in Nat : <<0, 0>> = <<i, q>>
        BY <2>4, <3>1
      <4>2. i = 0
        BY <4>1
      <4> QED BY <4>2
    <3> QED BY <2>2, <2>5, <3>1
  <2>9. Append(v, c) # <<>>
    BY AppendProperties
  <2> QED BY <2>6, <2>7, <2>8, <2>9
<1> HIDE DEF T
<1>3. Seq(Char) \subseteq T
  BY <1>1, <1>2, WordInduction
<1>4. D = C(w)
  BY DEF Ahead
<1> QED BY <1>3, <1>4 DEF T

(* and is accepted when it is accepted by one of them.                     *)
LEMMA UnionAccepts ==
  ASSUME NEW m, NEW I, 0 \notin I, NEW e, SideBySide(m, I, e),
         NEW pairs, Starts(pairs, I, e), NEW r, r.q0 = <<0, 0>>, EpsilonMoves(r, m, pairs),
         NEW w \in Seq(Char)
  PROVE  Accepts(r, w) <=> \E i \in I : Accepts(e[i], w)
<1> DEFINE D == After(r, w) \cup Jump(pairs, After(r, w))
<1>1. Accepts(r, w) <=> D \cap m.acc # {}
  BY DEF Accepts, EpsilonMoves
<1>2. Ahead(D, After(r, w), pairs) /\ StepsAhead(r, m, pairs)
  BY DEF Ahead, EpsilonMoves
<1> HIDE DEF D
<1>3. \A i \in I : Part(D, i) = After(e[i], w)
  BY <1>2, UnionParts
<1>4. D \cap m.acc # {} <=> \E i \in I : Part(D, i) \cap e[i].acc # {}
  BY SideAccepts
<1> QED BY <1>1, <1>3, <1>4 DEF Accepts

(* A word with one more letter in two parts.                               *)
Shorter(u, v, w, c) == \E x \in Seq(Char) : v = Append(x, c) /\ w = u \o x

(* A word one letter longer, cut in two: the second part is empty, or has  *)
(* that letter at its end.                                                 *)
LEMMA SplitAppend ==
  ASSUME NEW u \in Seq(Char), NEW v \in Seq(Char), NEW w \in Seq(Char), NEW c \in Char
  PROVE  Append(w, c) = u \o v
           <=> \/ v = <<>> /\ u = Append(w, c)
               \/ Shorter(u, v, w, c)
<1>1. CASE v = <<>>
  <2>1. u \o v = u
    BY <1>1, ConcatEmptySeq
  <2>2. \A x \in Seq(Char) : v # Append(x, c)
    BY <1>1, AppendProperties
  <2> QED BY <1>1, <2>1, <2>2 DEF Shorter
<1>2. CASE v # <<>>
  <2>1. PICK x \in Seq(Char), d \in Char : v = Append(x, d)
    BY <1>2, SequenceEmptyOrAppend
  <2>2. u \o v = Append(u \o x, d) /\ u \o x \in Seq(Char)
    <3>0. <<d>> \in Seq(Char)
      OBVIOUS
    <3>1. v = x \o <<d>>
      BY <2>1, AppendIsConcat
    <3>2. (u \o x) \o <<d>> = u \o (x \o <<d>>)
      <4> DEFINE o == <<d>>
      <4>1. o \in Seq(Char)
        BY <3>0
      <4> HIDE DEF o
      <4>2. (u \o x) \o o = u \o (x \o o)
        BY <4>1, ConcatAssociative, SMTT(30)
      <4> QED BY <4>2 DEF o
    <3>3. u \o x \in Seq(Char)
      BY ConcatProperties
    <3>4. Append(u \o x, d) = (u \o x) \o <<d>>
      BY <3>3, AppendIsConcat
    <3> QED BY <3>1, <3>2, <3>3, <3>4
  <2> DEFINE y == u \o x
  <2>9. y \in Seq(Char) /\ u \o v = Append(y, d)
    BY <2>2
  <2>3. Append(w, c) = u \o v <=> w = u \o x /\ c = d
    <3> HIDE DEF y
    <3>1. Append(w, c) = Append(y, d) <=> w = y /\ c = d
      BY <2>9, AppendInjective
    <3> QED BY <3>1, <2>9 DEF y
  <2>4. \A s \in Seq(Char) : v = Append(s, c) <=> s = x /\ c = d
    BY <2>1, AppendInjective
  <2> QED BY <1>2, <2>3, <2>4 DEF Shorter
<1> QED BY <1>1, <1>2

(* A new initial state that starts all the copies.                         *)
LEMMA LaunchedRun ==
  ASSUME NEW m, IsAutomaton(m, Nat \X Nat), ~ IsSingleton(m), m.q0 = <<0, 0>>,
         NEW I, 0 \notin I, NEW e, SideBySide(m, I, e),
         NEW pairs, IsFiniteSet(pairs), \A p \in pairs : p[1] \in Nat \X Nat,
         Starts(pairs, I, e), NEW w \in Seq(Char)
  PROVE  Run(Numbered(AddEpsilons(m, pairs)), w) <=> \E i \in I : Accepts(e[i], w)
<1> DEFINE Q == Nat \X Nat
           r == AddEpsilons(m, pairs)
<1> HIDE DEF Q
<1>1. IsAutomaton(r, Q) /\ r.q0 = <<0, 0>>
  BY EpsilonsAdded DEF Q
<1>2. EpsilonMoves(r, m, pairs)
  BY EpsilonsMove
<1> HIDE DEF r
<1>4. Accepts(r, w) <=> \E i \in I : Accepts(e[i], w)
  BY <1>1, <1>2, UnionAccepts
<1>5. Accepts(Numbered(r), w) <=> Accepts(r, w)
  BY <1>1, NumberedAccepts
<1>6. ~ IsSingleton(Numbered(r))
  BY <1>1, NamesChanged
<1>7. Run(Numbered(r), w) <=> Accepts(Numbered(r), w)
  BY <1>6, RunExplicit
<1> QED BY <1>4, <1>5, <1>7 DEF r

(* The copies that union and concatenate work on are side by side.         *)
LEMMA BesideIs ==
  ASSUME NEW m1, Sound(m1), NEW m2, Sound(m2)
  PROVE  LET b == Beside(m1, m2)
             e == <<ExpandSingleton(m1), ExpandSingleton(m2)>>
         IN  /\ SideBySide(b.both, {1, 2}, e)
             /\ b.one.q0 = <<1, e[1].q0>> /\ b.two.q0 = <<2, e[2].q0>>
             /\ \A x : x \in b.one.acc <=> \E q \in e[1].acc : x = <<1, q>>
             /\ \A x : x \in b.two.acc <=> \E q \in e[2].acc : x = <<2, q>>
             /\ SideBySide(b.one, {1}, e)
<1> DEFINE b == Beside(m1, m2)
           e1 == ExpandSingleton(m1)
           e2 == ExpandSingleton(m2)
           e == <<e1, e2>>
<1>1. IsAutomaton(e1, Nat) /\ IsAutomaton(e2, Nat)
  BY Expanded DEF Sound
<1>2. /\ b.one = Tagged(1, e1) /\ b.two = Tagged(2, e2)
      /\ b.both.trans = b.one.trans \cup b.two.trans
      /\ b.both.acc = b.one.acc \cup b.two.acc
  BY PutBeside, ZenonT(60)
<1> HIDE DEF e1, e2
<1>3. /\ b.one.q0 = <<1, e1.q0>> /\ b.one.acc = {<<1, q>> : q \in e1.acc}
      /\ b.one.trans = {<<<<1, t[1]>>, t[2], t[3], <<1, t[4]>>>> : t \in e1.trans}
  BY <1>1, <1>2, TaggedIsOne
<1>4. /\ b.two.q0 = <<2, e2.q0>> /\ b.two.acc = {<<2, q>> : q \in e2.acc}
      /\ b.two.trans = {<<<<2, t[1]>>, t[2], t[3], <<2, t[4]>>>> : t \in e2.trans}
  BY <1>1, <1>2, TaggedIsOne
<1>5. e[1] = e1 /\ e[2] = e2
  OBVIOUS
<1> HIDE DEF e, b
<1>6. SideBySide(b.both, {1, 2}, e)
  BY <1>1, <1>2, <1>3, <1>4, <1>5 DEF SideBySide
<1>7. SideBySide(b.one, {1}, e)
  BY <1>1, <1>3, <1>5 DEF SideBySide
<1>8. /\ b.one.q0 = <<1, e[1].q0>> /\ b.two.q0 = <<2, e[2].q0>>
      /\ \A x : x \in b.one.acc <=> \E q \in e[1].acc : x = <<1, q>>
      /\ \A x : x \in b.two.acc <=> \E q \in e[2].acc : x = <<2, q>>
  BY <1>3, <1>4, <1>5
<1> QED BY <1>6, <1>7, <1>8 DEF b, e, e1, e2

(* union of two automata accepts what one of them accepts                  *)
(* (BasicOperations.union).                                                *)
THEOREM Union2Run ==
  ASSUME NEW m1, Sound(m1), NEW m2, Sound(m2), NEW w \in Seq(Char)
  PROVE  Run(Union2(m1, m2), w) <=> Run(m1, w) \/ Run(m2, w)
<1> DEFINE b == Beside(m1, m2)
           pairs == {<<b.both.q0, b.one.q0>>, <<b.both.q0, b.two.q0>>}
           n == Numbered(AddEpsilons(b.both, pairs))
           e == <<ExpandSingleton(m1), ExpandSingleton(m2)>>
<1>1. CASE IsSingleton(m1) /\ m1.word = m2.word
  <2>1. Union2(m1, m2) = m1
    BY <1>1 DEF Union2
  <2>2. IsSingleton(m2)
    BY <1>1 DEF IsSingleton
  <2>3. PICK v \in Seq(Char) : m1.word = {v} /\ \A x \in Seq(Char) : Run(m1, x) <=> x = v
    BY <1>1, OneWord
  <2>4. PICK u \in Seq(Char) : m2.word = {u} /\ \A x \in Seq(Char) : Run(m2, x) <=> x = u
    BY <2>2, OneWord
  <2>5. u = v
    BY <1>1, <2>3, <2>4
  <2> QED BY <2>1, <2>3, <2>4, <2>5
<1>2. CASE ~ (IsSingleton(m1) /\ m1.word = m2.word)
  <2>1. Union2(m1, m2) = n
    BY <1>2 DEF Union2
  <2>2. /\ IsAutomaton(b.both, Nat \X Nat) /\ ~ IsSingleton(b.both) /\ b.both.q0 = <<0, 0>>
    BY PutBeside
  <2>3. /\ SideBySide(b.both, {1, 2}, e)
        /\ b.one.q0 = <<1, e[1].q0>> /\ b.two.q0 = <<2, e[2].q0>>
    BY BesideIs
  <2>4. e[1] = ExpandSingleton(m1) /\ e[2] = ExpandSingleton(m2)
    OBVIOUS
  <2> HIDE DEF e, b
  <2>5. \A p : p \in pairs <=> \E i \in {1, 2} : p = <<<<0, 0>>, <<i, e[i].q0>>>>
    BY <2>2, <2>3
  <2>6. \A p \in pairs : p[1] \in Nat \X Nat
    BY <2>2
  <2>7. IsFiniteSet(pairs)
    <3> DEFINE x == <<b.both.q0, b.one.q0>>
               y == <<b.both.q0, b.two.q0>>
    <3>1. pairs = {x} \cup {y}
      OBVIOUS
    <3> HIDE DEF x, y, pairs
    <3>2. IsFiniteSet({x}) /\ IsFiniteSet({y})
      BY FS_Singleton
    <3>3. IsFiniteSet({x} \cup {y})
      BY <3>2, FS_Union
    <3> QED BY <3>1, <3>3
  <2> HIDE DEF pairs
  <2> DEFINE I == {1, 2}
  <2>19. 0 \notin I /\ SideBySide(b.both, I, e)
         /\ Starts(pairs, I, e)
    BY <2>3, <2>5 DEF Starts
  <2> HIDE DEF I
  <2>8. Run(n, w) <=> \E i \in I : Accepts(e[i], w)
    BY <2>2, <2>19, <2>6, <2>7, LaunchedRun
  <2>9. Run(m1, w) <=> Accepts(e[1], w)
    BY <2>4, RunIs
  <2>10. Run(m2, w) <=> Accepts(e[2], w)
    BY <2>4, RunIs
  <2> QED BY <2>1, <2>8, <2>9, <2>10 DEF I
<1> QED BY <1>1, <1>2

(* union of a list accepts what one of its automata accepts                *)
(* (BasicOperations.union); the empty ones that it leaves out accept       *)
(* nothing.                                                                *)
THEOREM UnionListRun ==
  ASSUME NEW l, IsFiniteSet(DOMAIN l), DOMAIN l \subseteq Nat \ {0},
         \A i \in DOMAIN l : Sound(l[i]), NEW w \in Seq(Char)
  PROVE  Run(UnionList(l), w) <=> \E i \in DOMAIN l : Run(l[i], w)
<1> DEFINE Q == Nat \X Nat
           m == Explicit(<<0, 0>>, UNION {b.acc : b \in Copies(l)},
                         UNION {b.trans : b \in Copies(l)}, FALSE)
           pairs == {<<<<0, 0>>, b.q0>> : b \in Copies(l)}
           I == {j \in DOMAIN l : ~ IsEmpty(l[j])}
           e == [i \in I |-> ExpandSingleton(l[i])]
<1>1. DOMAIN l \subseteq Nat
  OBVIOUS
<1>2. /\ UnionList(l) = Numbered(AddEpsilons(m, pairs))
      /\ IsAutomaton(m, Q) /\ ~ IsSingleton(m) /\ m.q0 = <<0, 0>>
      /\ m.acc = UNION {b.acc : b \in Copies(l)}
      /\ m.trans = UNION {b.trans : b \in Copies(l)}
      /\ IsFiniteSet(pairs) /\ \A p \in pairs : p[1] \in Q
  BY <1>1, Gathered
<1> HIDE DEF m
<1>3. \A i \in I : IsAutomaton(e[i], Nat) /\ i \in Nat
  BY Expanded DEF Sound
<1>4. \A i \in I : /\ Tagged(i, e[i]).q0 = <<i, e[i].q0>>
                   /\ Tagged(i, e[i]).acc = {<<i, q>> : q \in e[i].acc}
                   /\ Tagged(i, e[i]).trans =
                        {<<<<i, t[1]>>, t[2], t[3], <<i, t[4]>>>> : t \in e[i].trans}
  <2> SUFFICES ASSUME NEW i \in I
               PROVE  /\ Tagged(i, e[i]).q0 = <<i, e[i].q0>>
                      /\ Tagged(i, e[i]).acc = {<<i, q>> : q \in e[i].acc}
                      /\ Tagged(i, e[i]).trans =
                           {<<<<i, t[1]>>, t[2], t[3], <<i, t[4]>>>> : t \in e[i].trans}
    OBVIOUS
  <2> DEFINE n == e[i]
  <2>1. IsAutomaton(n, Nat) /\ i \in Nat
    BY <1>3
  <2> HIDE DEF n
  <2>2. /\ Tagged(i, n).q0 = <<i, n.q0>>
        /\ Tagged(i, n).acc = {<<i, q>> : q \in n.acc}
        /\ Tagged(i, n).trans = {<<<<i, t[1]>>, t[2], t[3], <<i, t[4]>>>> : t \in n.trans}
    BY <2>1, TaggedIsOne
  <2> QED BY <2>2 DEF n
<1>5. \A b : b \in Copies(l) <=> \E i \in I : b = Tagged(i, e[i])
  BY DEF Copies
<1> HIDE DEF e, I
<1>6. SideBySide(m, I, e)
  <2>1. \A t : t \in m.trans <=> \E i \in I : t \in Tagged(i, e[i]).trans
    BY <1>2, <1>5
  <2>2. \A t : t \in m.trans <=> \E i \in I : \E u \in e[i].trans :
                                t = <<<<i, u[1]>>, u[2], u[3], <<i, u[4]>>>>
    BY <1>4, <2>1
  <2>3. \A x : x \in m.acc <=> \E i \in I : x \in Tagged(i, e[i]).acc
    BY <1>2, <1>5
  <2>4. \A x : x \in m.acc <=> \E i \in I : \E q \in e[i].acc : x = <<i, q>>
    BY <1>4, <2>3
  <2> QED BY <1>3, <2>2, <2>4 DEF SideBySide
<1>7. Starts(pairs, I, e)
  <2>1. \A p : p \in pairs <=> \E b \in Copies(l) : p = <<<<0, 0>>, b.q0>>
    OBVIOUS
  <2>2. \A p : p \in pairs <=> \E i \in I : p = <<<<0, 0>>, <<i, e[i].q0>>>>
    <3>1. ASSUME NEW p \in pairs PROVE \E i \in I : p = <<<<0, 0>>, <<i, e[i].q0>>>>
      <4>1. PICK b \in Copies(l) : p = <<<<0, 0>>, b.q0>>
        BY <2>1
      <4>2. PICK i \in I : b = Tagged(i, e[i])
        BY <1>5
      <4> QED BY <1>4, <4>1, <4>2
    <3>2. ASSUME NEW i \in I PROVE <<<<0, 0>>, <<i, e[i].q0>>>> \in pairs
      <4> DEFINE b == Tagged(i, e[i])
      <4>1. b \in Copies(l) /\ b.q0 = <<i, e[i].q0>>
        BY <1>4, <1>5
      <4> HIDE DEF b
      <4> QED BY <2>1, <4>1
    <3> QED BY <3>1, <3>2
  <2> QED BY <2>2 DEF Starts
<1> HIDE DEF pairs
<1>8. 0 \notin I
  BY DEF I
<1>9. Run(UnionList(l), w) <=> \E i \in I : Accepts(e[i], w)
  <2>1. Run(Numbered(AddEpsilons(m, pairs)), w) <=> \E i \in I : Accepts(e[i], w)
    BY <1>2, <1>6, <1>7, <1>8, LaunchedRun
  <2> QED BY <1>2, <2>1
<1>10. \A i \in I : Accepts(e[i], w) <=> Run(l[i], w)
  BY RunIs DEF e
<1>11. \A i \in DOMAIN l : i \in I \/ ~ Run(l[i], w)
  BY EmptyRun DEF I
<1> QED BY <1>9, <1>10, <1>11 DEF I

-----------------------------------------------------------------------------
(* The states of m2 after what is left of w, when m1 has accepted the rest.*)
Split(m1, m2, w) ==
  UNION {After(m2, p[2]) : p \in {x \in Seq(Char) \X Seq(Char) : w = x[1] \o x[2] /\ Accepts(m1, x[1])}}

(* The states of m2 after a word that m1 accepts and another one,          *)
LEMMA SplitAt ==
  ASSUME NEW m1, NEW m2, NEW w, NEW q
  PROVE  q \in Split(m1, m2, w)
           <=> \E u \in Seq(Char), v \in Seq(Char) :
                 w = u \o v /\ Accepts(m1, u) /\ q \in After(m2, v)
<1>1. ASSUME NEW u \in Seq(Char), NEW v \in Seq(Char),
             w = u \o v, Accepts(m1, u), q \in After(m2, v)
      PROVE  q \in Split(m1, m2, w)
  <2> DEFINE p == <<u, v>>
  <2>1. p \in Seq(Char) \X Seq(Char) /\ p[1] = u /\ p[2] = v
    OBVIOUS
  <2> HIDE DEF p
  <2> QED BY <1>1, <2>1 DEF Split
<1>2. ASSUME q \in Split(m1, m2, w)
      PROVE  \E u \in Seq(Char), v \in Seq(Char) :
               w = u \o v /\ Accepts(m1, u) /\ q \in After(m2, v)
  BY <1>2 DEF Split
<1> QED BY <1>1, <1>2

(* when both are empty,                                                    *)
LEMMA SplitAtFirst ==
  ASSUME NEW m1, NEW m2
  PROVE  Split(m1, m2, <<>>) = IF Accepts(m1, <<>>) THEN {m2.q0} ELSE {}
<1>1. \A u, v \in Seq(Char) : <<>> = u \o v <=> u = <<>> /\ v = <<>>
  <2>1. \A u, v \in Seq(Char) : u \o v = <<>> <=> u = <<>> /\ v = <<>>
    BY ConcatEqualIffEmpty
  <2> QED BY <2>1
<1>2. After(m2, <<>>) = {m2.q0} /\ <<>> \in Seq(Char)
  BY AfterAppend
<1>3. ASSUME NEW q \in Split(m1, m2, <<>>) PROVE Accepts(m1, <<>>) /\ q = m2.q0
  <2>1. PICK u \in Seq(Char), v \in Seq(Char) :
          <<>> = u \o v /\ Accepts(m1, u) /\ q \in After(m2, v)
    BY <1>3, SplitAt
  <2> QED BY <1>1, <1>2, <2>1
<1>4. ASSUME Accepts(m1, <<>>) PROVE m2.q0 \in Split(m1, m2, <<>>)
  BY <1>1, <1>2, <1>4, SplitAt
<1> QED BY <1>3, <1>4

(* and when the two together have one letter more.                         *)
LEMMA SplitInTurn ==
  ASSUME NEW m1, NEW m2, NEW w \in Seq(Char), NEW c \in Char
  PROVE  Split(m1, m2, Append(w, c))
           = Step(m2, Split(m1, m2, w), c)
             \cup (IF Accepts(m1, Append(w, c)) THEN {m2.q0} ELSE {})
<1> DEFINE a1 == Append(w, c)
<1>1. a1 \in Seq(Char) /\ <<>> \in Seq(Char) /\ a1 \o <<>> = a1
  BY ConcatEmptySeq
<1>2. After(m2, <<>>) = {m2.q0}
  BY AfterAppend
<1>3. ASSUME NEW q \in Split(m1, m2, a1)
      PROVE  q \in Step(m2, Split(m1, m2, w), c) \/ (Accepts(m1, a1) /\ q = m2.q0)
  <2>1. PICK u \in Seq(Char), v \in Seq(Char) :
          a1 = u \o v /\ Accepts(m1, u) /\ q \in After(m2, v)
    BY <1>3, SplitAt
  <2>2. \/ v = <<>> /\ u = a1
        \/ \E x \in Seq(Char) : v = Append(x, c) /\ w = u \o x
    <3>1. Append(w, c) = u \o v
      BY <2>1
    <3>2. \/ v = <<>> /\ u = Append(w, c)
          \/ Shorter(u, v, w, c)
      BY <3>1, SplitAppend
    <3> QED BY <3>2 DEF Shorter
  <2>3. CASE v = <<>> /\ u = a1
    BY <1>2, <2>1, <2>3
  <2>4. ASSUME NEW x \in Seq(Char), v = Append(x, c), w = u \o x
        PROVE  q \in Step(m2, Split(m1, m2, w), c)
    <3>1. q \in Step(m2, After(m2, x), c)
      BY <2>1, <2>4, AfterAppend
    <3>2. \A p \in After(m2, x) : p \in Split(m1, m2, w)
      BY <2>1, <2>4, SplitAt
    <3> QED BY <3>1, <3>2, StepBy
  <2> QED BY <2>2, <2>3, <2>4
<1>4. ASSUME NEW q \in Step(m2, Split(m1, m2, w), c) PROVE q \in Split(m1, m2, a1)
  <2>1. PICK t \in m2.trans : t[1] \in Split(m1, m2, w) /\ t[2] <= c /\ c <= t[3] /\ t[4] = q
    BY <1>4, StepBy
  <2>2. PICK u \in Seq(Char), x \in Seq(Char) :
          w = u \o x /\ Accepts(m1, u) /\ t[1] \in After(m2, x)
    BY <2>1, SplitAt
  <2> DEFINE v == Append(x, c)
  <2>3. v \in Seq(Char)
    OBVIOUS
  <2>4. After(m2, v) = Step(m2, After(m2, x), c)
    BY AfterAppend
  <2>5. a1 = u \o v
    <3> HIDE DEF a1, v
    <3>1. v = Append(x, c)
      BY DEF v
    <3>2. Shorter(u, v, w, c)
      BY <2>2, <3>1 DEF Shorter
    <3>3. Append(w, c) = u \o v
      BY <2>3, <3>2, SplitAppend
    <3> QED BY <3>3 DEF a1
  <2> HIDE DEF v, a1
  <2>6. q \in After(m2, v)
    BY <2>1, <2>2, <2>4, StepBy
  <2> QED BY <2>2, <2>3, <2>5, <2>6, SplitAt
<1>5. ASSUME Accepts(m1, a1) PROVE m2.q0 \in Split(m1, m2, a1)
  <2> HIDE DEF a1
  <2>1. a1 = a1 \o <<>> /\ m2.q0 \in After(m2, <<>>)
    BY <1>1, <1>2
  <2> QED BY <1>1, <1>5, <2>1, SplitAt
<1> QED BY <1>3, <1>4, <1>5

(* The states of the first copy where m1, reading a word, accepts it.      *)
EndsOf(ends, m1) ==
  /\ \A x \in ends : \E q \in Nat : x = <<1, q>>
  /\ \A v \in Seq(Char) : \A q \in After(m1, v) : <<1, q>> \in ends <=> q \in m1.acc

(* C is S with the jumps from the states ends of the first side to the     *)
(* initial state of the second.                                            *)
Joined(C, S, ends, q0) == C = S \cup Jump(ends \X {<<2, q0>>}, S)

(* What the jumps add: the initial state of the second side, after a word  *)
(* that the first side accepts.                                            *)
LEMMA JumpParts ==
  ASSUME NEW m1, IsAutomaton(m1, Nat), NEW ends, EndsOf(ends, m1), NEW v \in Seq(Char),
         NEW S, Part(S, 1) = After(m1, v), NEW q0 \in Nat,
         NEW C, Joined(C, S, ends, q0)
  PROVE  /\ Part(C, 1) = After(m1, v)
         /\ Part(C, 2) = Part(S, 2) \cup (IF Accepts(m1, v) THEN {q0} ELSE {})
<1> DEFINE pairs == ends \X {<<2, q0>>}
<1>0. C = S \cup Jump(pairs, S)
  BY DEF Joined
<1>1. \A x \in Jump(pairs, S) : x = <<2, q0>>
  BY DEF Jump
<1>2. S \cap ends # {} => <<2, q0>> \in Jump(pairs, S)
  <2> SUFFICES ASSUME NEW x \in S, x \in ends PROVE <<2, q0>> \in Jump(pairs, S)
    OBVIOUS
  <2> DEFINE p == <<x, <<2, q0>>>>
  <2>1. p \in pairs /\ p[1] = x /\ p[2] = <<2, q0>>
    OBVIOUS
  <2> HIDE DEF p
  <2> QED BY <2>1 DEF Jump
<1>3. Jump(pairs, S) # {} => S \cap ends # {}
  BY DEF Jump
<1> HIDE DEF pairs
<1>4. S \cap ends # {} <=> Accepts(m1, v)
  <2>1. ASSUME NEW x \in S, x \in ends PROVE Accepts(m1, v)
    <3>1. PICK q \in Nat : x = <<1, q>>
      BY <2>1 DEF EndsOf
    <3>2. q \in After(m1, v)
      BY <2>1, <3>1 DEF Part
    <3> QED BY <2>1, <3>1, <3>2 DEF EndsOf, Accepts
  <2>2. ASSUME NEW q \in After(m1, v), q \in m1.acc PROVE S \cap ends # {}
    <3>1. <<1, q>> \in S
      BY <2>2 DEF Part
    <3> QED BY <2>2, <3>1 DEF EndsOf
  <2> QED BY <2>1, <2>2 DEF Accepts
<1>5. Part(C, 1) = Part(S, 1)
  <2>1. \A q \in Nat : <<1, q>> # <<2, q0>>
    OBVIOUS
  <2>2. \A q \in Nat : <<1, q>> \in C <=> <<1, q>> \in S
    BY <1>0, <1>1, <2>1
  <2> QED BY <2>2 DEF Part
<1>6. Part(C, 2) = Part(S, 2) \cup (IF Accepts(m1, v) THEN {q0} ELSE {})
  <2>1. \A q \in Nat : <<2, q>> = <<2, q0>> <=> q = q0
    OBVIOUS
  <2>2. \A q \in Nat : <<2, q>> \in C <=> <<2, q>> \in S \/ (Accepts(m1, v) /\ q = q0)
    BY <1>0, <1>1, <1>2, <1>3, <1>4, <2>1
  <2> QED BY <2>2 DEF Part
<1> QED BY <1>5, <1>6

TwoSides(m, e1, e2) == SideBySide(m, {1, 2}, <<e1, e2>>)

(* Then a word leads to the states it leads to on the first side, and on   *)
(* the second to those after a word that the first side accepts.           *)
LEMMA FollowParts ==
  ASSUME NEW m, NEW e1, NEW e2, TwoSides(m, e1, e2), NEW ends, EndsOf(ends, e1),
         NEW r, r.q0 = <<1, e1.q0>>, StepsAhead(r, m, ends \X {<<2, e2.q0>>}),
         NEW w \in Seq(Char), NEW D, Joined(D, After(r, w), ends, e2.q0)
  PROVE  Part(D, 1) = After(e1, w) /\ Part(D, 2) = Split(e1, e2, w)
<1> DEFINE pairs == ends \X {<<2, e2.q0>>}
           C(v) == After(r, v) \cup Jump(pairs, After(r, v))
           T == {v \in Seq(Char) : /\ Part(C(v), 1) = After(e1, v)
                                   /\ Part(C(v), 2) = Split(e1, e2, v)}
           e == <<e1, e2>>
<1>0. SideBySide(m, {1, 2}, e) /\ e[1] = e1 /\ e[2] = e2
  BY DEF TwoSides
<1> HIDE DEF e
<1>1. IsAutomaton(e1, Nat) /\ e1.q0 \in Nat /\ e2.q0 \in Nat
  BY <1>0, Parts DEF SideBySide
<1>2. <<>> \in T
  <2> DEFINE S == {<<1, e1.q0>>}
  <2>1. After(r, <<>>) = S /\ After(e1, <<>>) = {e1.q0} /\ <<>> \in Seq(Char)
    <3>1. After(r, <<>>) = {r.q0} /\ After(e1, <<>>) = {e1.q0}
      BY AfterAppend
    <3> QED BY <3>1
  <2>2. Part(S, 1) = {e1.q0} /\ Part(S, 2) = {}
    BY <1>1 DEF Part
  <2>3. C(<<>>) = S \cup Jump(pairs, S)
    BY <2>1
  <2> HIDE DEF S, C
  <2>4. /\ Part(C(<<>>), 1) = After(e1, <<>>)
        /\ Part(C(<<>>), 2) = Part(S, 2) \cup (IF Accepts(e1, <<>>) THEN {e2.q0} ELSE {})
    <3> DEFINE q0 == e2.q0
               z == <<>>
    <3>1. IsAutomaton(e1, Nat) /\ EndsOf(ends, e1) /\ q0 \in Nat /\ Part(S, 1) = After(e1, z)
          /\ z \in Seq(Char)
      BY <1>1, <2>1, <2>2
    <3> HIDE DEF q0, z
    <3> DEFINE G == C(<<>>)
    <3>0. Joined(G, S, ends, q0)
      BY <2>3 DEF q0, Joined
    <3> HIDE DEF G
    <3>2. /\ Part(G, 1) = After(e1, z)
          /\ Part(G, 2) = Part(S, 2) \cup (IF Accepts(e1, z) THEN {q0} ELSE {})
      BY <3>0, <3>1, JumpParts
    <3> QED BY <3>2 DEF q0, z, G
  <2>5. Split(e1, e2, <<>>) = IF Accepts(e1, <<>>) THEN {e2.q0} ELSE {}
    BY SplitAtFirst
  <2> QED BY <2>1, <2>2, <2>4, <2>5
<1>3. ASSUME NEW v \in Seq(Char), NEW c \in Char, v \in T PROVE Append(v, c) \in T
  <2> DEFINE x == Append(v, c)
             S == After(r, x)
  <2>1. S = Step(m, C(v), c)
    <3>1. S = Step(r, After(r, v), c)
      BY AfterAppend
    <3> QED BY <3>1 DEF StepsAhead
  <2>2. x \in Seq(Char)
    OBVIOUS
  <2>3. C(x) = S \cup Jump(pairs, S)
    OBVIOUS
  <2>4. /\ Part(C(v), 1) = After(e1, v)
        /\ Part(C(v), 2) = Split(e1, e2, v)
    BY <1>3
  <2>5. After(e1, x) = Step(e1, After(e1, v), c)
    BY AfterAppend
  <2>6. Split(e1, e2, x) = Step(e2, Split(e1, e2, v), c)
                                 \cup (IF Accepts(e1, x) THEN {e2.q0} ELSE {})
    BY SplitInTurn
  <2> HIDE DEF S, C, x
  <2> DEFINE I == {1, 2}
             B == C(v)
  <2> HIDE DEF I, B
  <2>7. \A i \in I : Part(Step(m, B, c), i) = Step(e[i], Part(B, i), c)
    <3>1. SideBySide(m, I, e)
      BY <1>0 DEF I
    <3> QED BY <3>1, SideParts
  <2>8. Part(S, 1) = Step(e1, Part(C(v), 1), c) /\ Part(S, 2) = Step(e2, Part(C(v), 2), c)
    BY <1>0, <2>1, <2>7 DEF I, B
  <2>9. Part(S, 1) = After(e1, x)
    BY <2>4, <2>5, <2>8
  <2>10. /\ Part(C(x), 1) = After(e1, x)
         /\ Part(C(x), 2) = Part(S, 2) \cup (IF Accepts(e1, x) THEN {e2.q0} ELSE {})
    <3> DEFINE q0 == e2.q0
    <3>1. IsAutomaton(e1, Nat) /\ EndsOf(ends, e1) /\ q0 \in Nat /\ Part(S, 1) = After(e1, x)
      BY <1>1, <2>9
    <3> HIDE DEF q0
    <3> DEFINE G == C(x)
    <3>0. Joined(G, S, ends, q0)
      BY <2>3 DEF q0, Joined
    <3> HIDE DEF G
    <3>2. /\ Part(G, 1) = After(e1, x)
          /\ Part(G, 2) = Part(S, 2) \cup (IF Accepts(e1, x) THEN {q0} ELSE {})
      BY <2>2, <3>0, <3>1, JumpParts
    <3> QED BY <3>2 DEF q0, G
  <2>11. Part(C(x), 2) = Split(e1, e2, x)
    BY <2>4, <2>6, <2>8, <2>10
  <2> QED BY <2>2, <2>10, <2>11 DEF x
<1> HIDE DEF T
<1>4. Seq(Char) \subseteq T
  BY <1>2, <1>3, WordInduction
<1>5. D = C(w)
  BY DEF Joined
<1> QED BY <1>4, <1>5 DEF T

(* What the first copy does, it does on its own as well.                   *)
LEMMA FirstEnds ==
  ASSUME NEW m1, Sound(m1), NEW m2, Sound(m2)
  PROVE  EndsOf(GetAcceptStates(Beside(m1, m2).one), ExpandSingleton(m1))
<1> DEFINE b == Beside(m1, m2)
           m == b.one
           e == <<ExpandSingleton(m1), ExpandSingleton(m2)>>
           e1 == ExpandSingleton(m1)
           T == {v \in Seq(Char) : Part(After(m, v), 1) = After(e1, v)}
<1>1. IsAutomaton(m, Nat \X Nat)
  BY PutBeside
<1>2. /\ SideBySide(m, {1}, e) /\ m.q0 = <<1, e1.q0>>
      /\ \A x : x \in m.acc <=> \E q \in e1.acc : x = <<1, q>>
  BY BesideIs
<1>3. e[1] = e1
  OBVIOUS
<1>4. IsAutomaton(e1, Nat) /\ e1.q0 \in Nat /\ e1.acc \subseteq Nat
  BY <1>2, <1>3, Parts DEF SideBySide
<1> HIDE DEF m, e, e1
<1>5. <<>> \in T
  <2>1. After(m, <<>>) = {<<1, e1.q0>>} /\ After(e1, <<>>) = {e1.q0}
    <3>1. After(m, <<>>) = {m.q0} /\ After(e1, <<>>) = {e1.q0}
      BY AfterAppend
    <3> QED BY <1>2, <3>1
  <2>2. <<>> \in Seq(Char)
    OBVIOUS
  <2> QED BY <1>4, <2>1, <2>2 DEF Part
<1>6. ASSUME NEW v \in Seq(Char), NEW c \in Char, v \in T PROVE Append(v, c) \in T
  <2> DEFINE x == Append(v, c)
             S == After(m, v)
             I == {1}
  <2>1. After(m, x) = Step(m, S, c) /\ After(e1, x) = Step(e1, After(e1, v), c)
    BY AfterAppend
  <2>2. x \in Seq(Char)
    OBVIOUS
  <2>3. Part(S, 1) = After(e1, v)
    BY <1>6
  <2> HIDE DEF x, S, I
  <2>4. \A i \in I : Part(Step(m, S, c), i) = Step(e[i], Part(S, i), c)
    <3>1. SideBySide(m, I, e)
      BY <1>2 DEF I
    <3> QED BY <3>1, SideParts
  <2> QED BY <1>3, <2>1, <2>2, <2>3, <2>4 DEF x, I
<1> HIDE DEF T
<1>7. Seq(Char) \subseteq T
  BY <1>5, <1>6, WordInduction
<1>8. ASSUME NEW v \in Seq(Char), NEW q \in After(e1, v) PROVE <<1, q>> \in GetStates(m)
  <2>1. q \in Part(After(m, v), 1)
    BY <1>7 DEF T
  <2>2. IsFiniteSet(m.trans)
    BY <1>1, Parts
  <2>3. After(m, v) \subseteq GetStates(m)
    BY <2>2, AfterReachable
  <2> QED BY <2>1, <2>3 DEF Part
<1>9. \A x : x \in GetAcceptStates(m) <=> x \in GetStates(m) /\ x \in m.acc
  BY DEF GetAcceptStates
<1>10. \A x \in GetAcceptStates(m) : \E q \in Nat : x = <<1, q>>
  BY <1>2, <1>4, <1>9
<1>11. ASSUME NEW v \in Seq(Char), NEW q \in After(e1, v)
       PROVE  <<1, q>> \in GetAcceptStates(m) <=> q \in e1.acc
  <2>1. <<1, q>> \in m.acc <=> q \in e1.acc
    BY <1>2
  <2> QED BY <1>8, <1>9, <2>1
<1>12. EndsOf(GetAcceptStates(m), e1)
  BY <1>10, <1>11 DEF EndsOf
<1> QED BY <1>12 DEF m, e1

(* What the linked automaton accepts, whichever states are made accepting. *)
LEMMA LinkAccepts ==
  ASSUME NEW m1, Sound(m1), NEW m2, Sound(m2), NEW acc,
         acc \subseteq Beside(m1, m2).both.acc, NEW w \in Seq(Char)
  PROVE  LET b == Beside(m1, m2)
             e1 == ExpandSingleton(m1)
             e2 == ExpandSingleton(m2)
         IN  Accepts(Link(b, acc), w)
               <=> \/ \E q \in After(e1, w) : <<1, q>> \in acc
                   \/ \E q \in Split(e1, e2, w) : <<2, q>> \in acc
<1> DEFINE Q == Nat \X Nat
           b == Beside(m1, m2)
           e1 == ExpandSingleton(m1)
           e2 == ExpandSingleton(m2)
           c == Unlinked(b, acc)
           ends == GetAcceptStates(b.one)
           pairs == Bridges(b)
           a1 == AddEpsilons(c, pairs)
           j == Link(b, acc)
<1>1. /\ IsAutomaton(c, Q) /\ ~ IsSingleton(c) /\ c.trans = b.both.trans
      /\ \A x : x \in c.acc <=> x \in acc
      /\ IsFiniteSet(pairs) /\ \A p \in pairs : p[1] \in Q
      /\ j.q0 = b.one.q0 /\ j.trans = a1.trans /\ j.acc = a1.acc
  <2>1. acc \subseteq b.both.acc
    OBVIOUS
  <2>2. /\ IsAutomaton(c, Q) /\ ~ IsSingleton(c) /\ c.trans = b.both.trans
        /\ \A x : x \in c.acc <=> x \in acc
    BY <2>1, LinkMakes
  <2>3. IsFiniteSet(pairs) /\ \A p \in pairs : p[1] \in Q
    BY <2>1, LinkMakes
  <2>4. j.q0 = b.one.q0 /\ j.trans = a1.trans /\ j.acc = a1.acc
    BY <2>1, LinkMakes
  <2> QED BY <2>2, <2>3, <2>4
<1> DEFINE e == <<e1, e2>>
<1>2. /\ SideBySide(b.both, {1, 2}, e)
      /\ b.one.q0 = <<1, e1.q0>> /\ b.two.q0 = <<2, e2.q0>>
      /\ \A x : x \in b.one.acc <=> \E q \in e1.acc : x = <<1, q>>
      /\ \A x : x \in b.two.acc <=> \E q \in e2.acc : x = <<2, q>>
  BY BesideIs
<1>3. EndsOf(ends, e1)
  BY FirstEnds
<1>4. b.both.acc = b.one.acc \cup b.two.acc
  BY PutBeside
<1>5. e1.acc \subseteq Nat /\ e2.acc \subseteq Nat
  <2>1. IsAutomaton(e1, Nat) /\ IsAutomaton(e2, Nat)
    BY Expanded DEF Sound
  <2> QED BY <2>1, Parts
<1> HIDE DEF ends, j, c, e, e1, e2, pairs
<1>6. EpsilonMoves(a1, c, pairs)
  BY <1>1, EpsilonsMove
<1> HIDE DEF a1
<1> DEFINE m == b.both
           A == After(j, w)
           D == A \cup Jump(pairs, A)
<1>7. pairs = ends \X {<<2, e2.q0>>}
  BY <1>2 DEF pairs, ends, Bridges
<1>8. StepsAhead(j, m, pairs)
  <2>1. \A S, d : Step(j, S, d) = Step(a1, S, d) /\ Step(c, S, d) = Step(m, S, d)
    BY <1>1 DEF Step
  <2>2. \A S, d : Step(a1, S, d) = Step(c, S \cup Jump(pairs, S), d)
    BY <1>6 DEF EpsilonMoves, StepsAhead
  <2> QED BY <2>1, <2>2 DEF StepsAhead
<1>9. Accepts(j, w) <=> D \cap acc # {}
  <2>1. A \cap a1.acc # {} <=> D \cap acc # {}
    BY <1>1, <1>6 DEF EpsilonMoves
  <2> QED BY <1>1, <2>1 DEF Accepts
<1> HIDE DEF D, m
<1>10. Part(D, 1) = After(e1, w) /\ Part(D, 2) = Split(e1, e2, w)
  <2>1. Joined(D, After(j, w), ends, e2.q0)
    BY <1>7 DEF Joined, D
  <2>2. TwoSides(m, e1, e2) /\ EndsOf(ends, e1) /\ j.q0 = <<1, e1.q0>>
    BY <1>1, <1>2, <1>3 DEF m, TwoSides, e
  <2>3. StepsAhead(j, m, ends \X {<<2, e2.q0>>})
    BY <1>7, <1>8
  <2> QED BY <2>1, <2>2, <2>3, FollowParts
<1>11. ASSUME NEW x \in D, x \in acc
       PROVE  \/ \E q \in After(e1, w) : <<1, q>> \in acc
              \/ \E q \in Split(e1, e2, w) : <<2, q>> \in acc
  <2>1. (\E q \in Nat : x = <<1, q>>) \/ (\E q \in Nat : x = <<2, q>>)
    <3>1. x \in b.one.acc \/ x \in b.two.acc
      BY <1>4, <1>11 DEF m
    <3> QED BY <1>2, <1>5, <3>1
  <2>2. ASSUME NEW q \in Nat, x = <<1, q>> PROVE q \in After(e1, w) /\ <<1, q>> \in acc
    BY <1>10, <1>11, <2>2 DEF Part
  <2>3. ASSUME NEW q \in Nat, x = <<2, q>> PROVE q \in Split(e1, e2, w) /\ <<2, q>> \in acc
    BY <1>10, <1>11, <2>3 DEF Part
  <2> QED BY <2>1, <2>2, <2>3
<1>12. ASSUME NEW q \in After(e1, w), <<1, q>> \in acc PROVE D \cap acc # {}
  <2>1. <<1, q>> \in D
    BY <1>10 DEF Part
  <2> QED BY <1>12, <2>1
<1>13. ASSUME NEW q \in Split(e1, e2, w), <<2, q>> \in acc PROVE D \cap acc # {}
  <2>1. <<2, q>> \in D
    BY <1>10 DEF Part
  <2> QED BY <1>13, <2>1
<1>14. Accepts(j, w) <=> \/ \E q \in After(e1, w) : <<1, q>> \in acc
                         \/ \E q \in Split(e1, e2, w) : <<2, q>> \in acc
  BY <1>9, <1>11, <1>12, <1>13
<1> QED BY <1>14 DEF j, e1, e2

(* A word that m1 accepts and then one that m2 accepts.                    *)
Chained(m1, m2, w) ==
  \E u \in Seq(Char), v \in Seq(Char) : w = u \o v /\ Run(m1, u) /\ Run(m2, v)

(* Accepting after such a split is accepting the two words in turn.        *)
LEMMA SplitChained ==
  ASSUME NEW m1, NEW m2, NEW w
  PROVE  LET e1 == ExpandSingleton(m1)
             e2 == ExpandSingleton(m2)
         IN  (\E q \in Split(e1, e2, w) : q \in e2.acc) <=> Chained(m1, m2, w)
<1> DEFINE e1 == ExpandSingleton(m1)
           e2 == ExpandSingleton(m2)
<1>1. \A u : (Run(m1, u) <=> Accepts(e1, u)) /\ (Run(m2, u) <=> Accepts(e2, u))
  BY RunIs
<1> HIDE DEF e1, e2
<1>2. \A v : Accepts(e2, v) <=> \E q \in e2.acc : q \in After(e2, v)
  BY DEF Accepts
<1>3. ASSUME NEW q \in Split(e1, e2, w), q \in e2.acc PROVE Chained(m1, m2, w)
  <2>1. PICK u \in Seq(Char), v \in Seq(Char) : w = u \o v /\ Accepts(e1, u) /\ q \in After(e2, v)
    BY <1>3, SplitAt
  <2> QED BY <1>1, <1>2, <1>3, <2>1 DEF Chained
<1>4. ASSUME Chained(m1, m2, w) PROVE \E q \in Split(e1, e2, w) : q \in e2.acc
  <2>1. PICK u \in Seq(Char), v \in Seq(Char) : w = u \o v /\ Run(m1, u) /\ Run(m2, v)
    BY <1>4 DEF Chained
  <2>2. PICK q \in e2.acc : q \in After(e2, v)
    BY <1>1, <1>2, <2>1
  <2>3. Accepts(e1, u)
    BY <1>1, <2>1
  <2>4. q \in Split(e1, e2, w)
    BY <2>1, <2>2, <2>3, SplitAt
  <2> QED BY <2>2, <2>4
<1>5. (\E q \in Split(e1, e2, w) : q \in e2.acc) <=> Chained(m1, m2, w)
  BY <1>3, <1>4
<1> QED BY <1>5 DEF e1, e2

(* The second one after the first one, which accepts only if it is told to.*)
LEMMA FollowRun ==
  ASSUME NEW m1, Sound(m1), NEW m2, Sound(m2), NEW w \in Seq(Char)
  PROVE  /\ Run(Follow(m1, m2), w) <=> Chained(m1, m2, w)
         /\ Run(FollowOrStop(m1, m2), w) <=> Run(m1, w) \/ Chained(m1, m2, w)
<1> DEFINE b == Beside(m1, m2)
           e1 == ExpandSingleton(m1)
           e2 == ExpandSingleton(m2)
           ends == GetAcceptStates(b.one)
           some == b.both.acc \ ends
           all == b.both.acc
<1>1. Follow(m1, m2) = Numbered(Link(b, some)) /\ FollowOrStop(m1, m2) = Numbered(Link(b, all))
  BY DEF Follow, FollowOrStop
<1>2. ASSUME NEW acc, acc \subseteq b.both.acc
      PROVE  Run(Numbered(Link(b, acc)), w)
               <=> \/ \E q \in After(e1, w) : <<1, q>> \in acc
                   \/ \E q \in Split(e1, e2, w) : <<2, q>> \in acc
  <2> DEFINE j == Link(b, acc)
  <2>1. IsAutomaton(j, Nat \X Nat) /\ ~ IsSingleton(Numbered(j))
    BY <1>2, Linked
  <2>2. Accepts(j, w) <=> \/ \E q \in After(e1, w) : <<1, q>> \in acc
                          \/ \E q \in Split(e1, e2, w) : <<2, q>> \in acc
    BY <1>2, LinkAccepts
  <2> HIDE DEF j
  <2>3. Accepts(Numbered(j), w) <=> Accepts(j, w)
    BY <2>1, NumberedAccepts
  <2>4. Run(Numbered(j), w) <=> Accepts(Numbered(j), w)
    BY <2>1, RunExplicit
  <2> QED BY <2>2, <2>3, <2>4 DEF j
<1>3. /\ \A x : x \in b.one.acc <=> \E q \in e1.acc : x = <<1, q>>
      /\ \A x : x \in b.two.acc <=> \E q \in e2.acc : x = <<2, q>>
  <2> DEFINE e == <<e1, e2>>
  <2>1. /\ SideBySide(b.both, {1, 2}, e)
        /\ b.one.q0 = <<1, e1.q0>> /\ b.two.q0 = <<2, e2.q0>>
        /\ \A x : x \in b.one.acc <=> \E q \in e1.acc : x = <<1, q>>
        /\ \A x : x \in b.two.acc <=> \E q \in e2.acc : x = <<2, q>>
    BY BesideIs
  <2> QED BY <2>1
<1>4. b.both.acc = b.one.acc \cup b.two.acc
  BY PutBeside
<1>5. EndsOf(ends, e1)
  BY FirstEnds
<1>6. (\E q \in Split(e1, e2, w) : q \in e2.acc) <=> Chained(m1, m2, w)
  BY SplitChained
<1>7. Run(m1, w) <=> \E q \in After(e1, w) : q \in e1.acc
  BY RunIs DEF Accepts
<1>8. some \subseteq b.both.acc /\ all \subseteq b.both.acc
  OBVIOUS
<1>9. \A x : /\ x \in some <=> x \in b.both.acc /\ x \notin ends
             /\ x \in all <=> x \in b.both.acc
  OBVIOUS
<1> HIDE DEF some, all, ends, e1, e2, b
<1>10. \A q : <<1, q>> \in all <=> q \in e1.acc
  BY <1>3, <1>4, <1>9
<1>11. \A q : <<2, q>> \in all <=> q \in e2.acc
  BY <1>3, <1>4, <1>9
<1>12. \A q \in After(e1, w) : <<1, q>> \notin some
  BY <1>5, <1>9, <1>10 DEF EndsOf
<1>13. \A q : <<2, q>> \in some <=> q \in e2.acc
  <2>1. \A q : <<2, q>> \notin ends
    BY <1>5 DEF EndsOf
  <2> QED BY <1>9, <1>11, <2>1
<1>14. Run(Numbered(Link(b, some)), w) <=> Chained(m1, m2, w)
  BY <1>2, <1>6, <1>8, <1>12, <1>13
<1>15. Run(Numbered(Link(b, all)), w) <=> Run(m1, w) \/ Chained(m1, m2, w)
  BY <1>2, <1>6, <1>7, <1>8, <1>10, <1>11
<1> QED BY <1>1, <1>14, <1>15

(* The copy of m behind a new initial state that accepts.                  *)
LEMMA FirstIs ==
  ASSUME NEW m, Sound(m)
  PROVE  LET b == Beside(m, MakeEmpty)
             c == Unlinked(b, b.both.acc \cup {b.both.q0})
             e1 == ExpandSingleton(m)
         IN  /\ SideBySide(b.both, {1}, <<e1>>)
             /\ b.one.q0 = <<1, e1.q0>>
             /\ c.trans = b.both.trans
             /\ \A x : x \in c.acc <=> x \in b.both.acc \/ x = <<0, 0>>
             /\ EndsOf(GetAcceptStates(b.one), e1)
             /\ e1.q0 \in Nat
<1> DEFINE b == Beside(m, MakeEmpty)
           c == Unlinked(b, b.both.acc \cup {b.both.q0})
           e1 == ExpandSingleton(m)
           e2 == ExpandSingleton(MakeEmpty)
           e == <<e1, e2>>
           f == <<e1>>
<1>1. Sound(MakeEmpty)
  BY EmptyIsTidy DEF Tidy
<1>2. c.trans = b.both.trans /\ \A x : x \in c.acc <=> x \in b.both.acc \/ x = <<0, 0>>
  BY FirstMakes
<1>3. EndsOf(GetAcceptStates(b.one), e1)
  BY <1>1, FirstEnds
<1>4. /\ SideBySide(b.both, {1, 2}, e)
      /\ b.one.q0 = <<1, e1.q0>> /\ b.two.q0 = <<2, e2.q0>>
      /\ \A x : x \in b.one.acc <=> \E q \in e1.acc : x = <<1, q>>
      /\ \A x : x \in b.two.acc <=> \E q \in e2.acc : x = <<2, q>>
  BY <1>1, BesideIs
<1>5. e2.acc = {} /\ e2.trans = {}
  BY DEF MakeEmpty, Explicit, ExpandSingleton, IsSingleton
<1>6. e[1] = e1 /\ e[2] = e2 /\ f[1] = e1
  OBVIOUS
<1> HIDE DEF e, f, e1, e2, b, c
<1>7. IsAutomaton(e1, Nat)
  BY <1>4, <1>6 DEF SideBySide
<1>8. SideBySide(b.both, {1}, f)
  <2>1. /\ \A t : t \in b.both.trans <=> \E i \in {1, 2} : \E u \in e[i].trans :
                                t = <<<<i, u[1]>>, u[2], u[3], <<i, u[4]>>>>
        /\ \A x : x \in b.both.acc <=> \E i \in {1, 2} : \E q \in e[i].acc : x = <<i, q>>
    BY <1>4 DEF SideBySide
  <2>2. \A t : t \in b.both.trans <=> \E u \in e1.trans :
                                t = <<<<1, u[1]>>, u[2], u[3], <<1, u[4]>>>>
    BY <1>5, <1>6, <2>1
  <2>3. \A x : x \in b.both.acc <=> \E q \in e1.acc : x = <<1, q>>
    BY <1>5, <1>6, <2>1
  <2> QED BY <1>6, <1>7, <2>2, <2>3 DEF SideBySide
<1>9. e1.q0 \in Nat
  BY <1>7, Parts
<1> QED BY <1>2, <1>3, <1>4, <1>8, <1>9 DEF e1, f, b, c

(* optional and repeat add one new state before the automaton.             *)
LEMMA FirstStarts ==
  ASSUME NEW m, Sound(m)
  PROVE  LET b == Beside(m, MakeEmpty)
         IN  Starts({<<b.both.q0, b.one.q0>>}, {1}, <<ExpandSingleton(m)>>)
<1> DEFINE b == Beside(m, MakeEmpty)
           e1 == ExpandSingleton(m)
           f == <<e1>>
<1>1. b.both.q0 = <<0, 0>>
  BY FirstMakes
<1>2. b.one.q0 = <<1, e1.q0>>
  BY FirstIs
<1>3. f[1] = e1
  OBVIOUS
<1> HIDE DEF f, e1, b
<1>4. \A p : p \in {<<b.both.q0, b.one.q0>>} <=> \E i \in {1} : p = <<<<0, 0>>, <<i, f[i].q0>>>>
  BY <1>1, <1>2, <1>3
<1> QED BY <1>4 DEF Starts, b, e1, f

(* optional accepts the empty word and what the automaton accepts          *)
(* (BasicOperations.optional).                                             *)
THEOREM OptionalRun ==
  ASSUME NEW m, Sound(m), NEW w \in Seq(Char)
  PROVE  Run(Optional(m), w) <=> w = <<>> \/ Run(m, w)
<1> DEFINE Q == Nat \X Nat
           b == Beside(m, MakeEmpty)
           c == Unlinked(b, b.both.acc \cup {b.both.q0})
           pairs == {<<b.both.q0, b.one.q0>>}
           r == AcceptFirst(b)
           e1 == ExpandSingleton(m)
           e == <<e1>>
           D == After(r, w) \cup Jump(pairs, After(r, w))
<1>1. Optional(m) = Numbered(r)
  BY DEF Optional
<1>2. /\ r = AddEpsilons(c, pairs)
      /\ IsAutomaton(c, Q) /\ ~ IsSingleton(c) /\ ~ c.det
      /\ c.q0 = <<0, 0>> /\ c.trans = b.both.trans
      /\ \A x : x \in c.acc <=> x \in b.both.acc \/ x = <<0, 0>>
      /\ b.both.q0 = <<0, 0>>
      /\ IsFiniteSet(pairs) /\ \A p \in pairs : p[1] \in Q
  BY FirstMakes
<1>3. SideBySide(b.both, {1}, e) /\ Starts(pairs, {1}, e)
  BY FirstIs, FirstStarts
<1>4. e[1] = e1
  OBVIOUS
<1> HIDE DEF r, c, pairs, e, e1, Q
<1>5. EpsilonMoves(r, c, pairs)
  BY <1>2, EpsilonsMove
<1>6. IsAutomaton(r, Q) /\ r.q0 = <<0, 0>>
  BY <1>2, EpsilonsAdded
<1> DEFINE n == b.both
<1>7. StepsAhead(r, n, pairs)
  <2>1. \A S, d : Step(c, S, d) = Step(n, S, d)
    BY <1>2 DEF Step
  <2> QED BY <1>5, <2>1 DEF EpsilonMoves, StepsAhead
<1>8. Ahead(D, After(r, w), pairs)
  BY DEF Ahead
<1>9. Accepts(r, w) <=> D \cap c.acc # {}
  BY <1>5 DEF Accepts, EpsilonMoves
<1> DEFINE I == {1}
<1>10. SideBySide(n, I, e) /\ Starts(pairs, I, e) /\ 0 \notin I
  BY <1>3
<1> HIDE DEF D, n, b, I
<1>11. (\A i \in I : Part(D, i) = After(e[i], w)) /\ (<<0, 0>> \in D <=> w = <<>>)
  BY <1>6, <1>7, <1>8, <1>10, UnionParts
<1>12. D \cap n.acc # {} <=> \E i \in I : Part(D, i) \cap e[i].acc # {}
  BY <1>10, SideAccepts
<1>13. D \cap n.acc # {} <=> Run(m, w)
  <2>1. Run(m, w) <=> Accepts(e1, w)
    BY RunIs DEF e1
  <2> QED BY <1>4, <1>11, <1>12, <2>1 DEF I, Accepts
<1>14. Accepts(r, w) <=> w = <<>> \/ Run(m, w)
  BY <1>2, <1>9, <1>11, <1>13 DEF n
<1>15. Accepts(Numbered(r), w) <=> Accepts(r, w)
  BY <1>6, NumberedAccepts
<1>16. ~ IsSingleton(Numbered(r))
  BY <1>6, NamesChanged
<1>17. Run(Numbered(r), w) <=> Accepts(Numbered(r), w)
  BY <1>16, RunExplicit
<1> QED BY <1>1, <1>14, <1>15, <1>17

(* The moves back to the new initial state, and on from it.                *)
LEMMA LoopParts ==
  ASSUME NEW n, NEW e1, SideBySide(n, {1}, <<e1>>), NEW ends, EndsOf(ends, e1), NEW S,
         \A q \in Part(S, 1) : \E v \in Seq(Char) : q \in After(e1, v),
         NEW S1, Ahead(S1, S, ends \X {<<0, 0>>}),
         NEW S2, Ahead(S2, S1, {<<<<0, 0>>, <<1, e1.q0>>>>})
  PROVE  /\ <<0, 0>> \in S1 <=> <<0, 0>> \in S \/ Part(S, 1) \cap e1.acc # {}
         /\ Part(S2, 1) = Part(S, 1) \cup (IF <<0, 0>> \in S1 THEN {e1.q0} ELSE {})
         /\ S2 \cap n.acc # {} \/ <<0, 0>> \in S2 <=> <<0, 0>> \in S1
<1> DEFINE back == ends \X {<<0, 0>>}
           on == {<<<<0, 0>>, <<1, e1.q0>>>>}
           f == <<e1>>
<1>0. f[1] = e1
  OBVIOUS
<1>1. S1 = S \cup Jump(back, S) /\ S2 = S1 \cup Jump(on, S1)
  BY DEF Ahead
<1>2. /\ \A x : x \in n.acc <=> \E q \in e1.acc : x = <<1, q>>
      /\ IsAutomaton(e1, Nat)
  <2>1. /\ \A i \in {1} : IsAutomaton(f[i], Nat)
        /\ \A x : x \in n.acc <=> \E i \in {1} : \E q \in f[i].acc : x = <<i, q>>
    BY DEF SideBySide
  <2> HIDE DEF f
  <2> QED BY <1>0, <2>1
<1>3. e1.q0 \in Nat /\ e1.acc \subseteq Nat
  BY <1>2, Parts
<1>4. \A x \in Jump(back, S) : x = <<0, 0>>
  BY DEF Jump
<1>5. Jump(back, S) # {} <=> S \cap ends # {}
  <2>1. ASSUME NEW x \in S, x \in ends PROVE <<0, 0>> \in Jump(back, S)
    <3> DEFINE p == <<x, <<0, 0>>>>
    <3>1. p \in back /\ p[1] = x /\ p[2] = <<0, 0>>
      BY <2>1
    <3> HIDE DEF p, back
    <3> QED BY <3>1 DEF Jump
  <2>2. Jump(back, S) # {} => S \cap ends # {}
    BY DEF Jump
  <2> QED BY <2>1, <2>2
<1>6. S \cap ends # {} <=> Part(S, 1) \cap e1.acc # {}
  <2>1. ASSUME NEW x \in S, x \in ends PROVE Part(S, 1) \cap e1.acc # {}
    <3>1. PICK q \in Nat : x = <<1, q>>
      BY <2>1 DEF EndsOf
    <3>2. q \in Part(S, 1)
      BY <2>1, <3>1 DEF Part
    <3>3. PICK v \in Seq(Char) : q \in After(e1, v)
      BY <3>2
    <3> QED BY <2>1, <3>1, <3>2, <3>3 DEF EndsOf
  <2>2. ASSUME NEW q \in Part(S, 1), q \in e1.acc PROVE S \cap ends # {}
    <3>1. PICK v \in Seq(Char) : q \in After(e1, v)
      OBVIOUS
    <3>2. <<1, q>> \in ends
      BY <2>2, <3>1 DEF EndsOf
    <3> QED BY <2>2, <3>2 DEF Part
  <2> QED BY <2>1, <2>2
<1>7. \A x : x \in Jump(on, S1) <=> <<0, 0>> \in S1 /\ x = <<1, e1.q0>>
  <2> DEFINE p == <<<<0, 0>>, <<1, e1.q0>>>>
  <2>1. \A y : y \in on <=> y = p
    OBVIOUS
  <2>2. p[1] = <<0, 0>> /\ p[2] = <<1, e1.q0>>
    OBVIOUS
  <2> HIDE DEF p, on
  <2> QED BY <2>1, <2>2 DEF Jump
<1> HIDE DEF back, on
<1>8. <<0, 0>> \in S1 <=> <<0, 0>> \in S \/ Part(S, 1) \cap e1.acc # {}
  BY <1>1, <1>4, <1>5, <1>6
<1>9. Part(S2, 1) = Part(S, 1) \cup (IF <<0, 0>> \in S1 THEN {e1.q0} ELSE {})
  <2>1. \A q \in Nat : <<1, q>> # <<0, 0>> /\ (<<1, q>> = <<1, e1.q0>> <=> q = e1.q0)
    OBVIOUS
  <2>2. \A q \in Nat : <<1, q>> \in S1 <=> <<1, q>> \in S
    BY <1>1, <1>4, <2>1
  <2>3. \A q \in Nat : <<1, q>> \in S2 <=> <<1, q>> \in S \/ (<<0, 0>> \in S1 /\ q = e1.q0)
    BY <1>1, <1>7, <2>1, <2>2
  <2> QED BY <1>3, <2>3 DEF Part
<1>10. <<0, 0>> \in S2 <=> <<0, 0>> \in S1
  <2>1. <<0, 0>> # <<1, e1.q0>>
    OBVIOUS
  <2> QED BY <1>1, <1>7, <2>1
<1>11. ASSUME NEW x \in S2, x \in n.acc PROVE <<0, 0>> \in S1
  <2>1. PICK q \in e1.acc : x = <<1, q>>
    BY <1>2, <1>11
  <2>2. q \in Part(S2, 1)
    BY <1>3, <2>1 DEF Part
  <2>3. q \in Part(S, 1) \/ <<0, 0>> \in S1
    BY <1>9, <2>2
  <2> QED BY <1>8, <2>1, <2>3
<1> QED BY <1>8, <1>9, <1>10, <1>11

(* Where a letter leads after a split.                                     *)
Reached(m1, m2, w, c, q) ==
  \E u \in Seq(Char), x \in Seq(Char) :
    w = u \o x /\ Accepts(m1, u) /\ q \in After(m2, Append(x, c))

LEMMA SplitReached ==
  ASSUME NEW m1, NEW m2, NEW w \in Seq(Char), NEW c \in Char, NEW q
  PROVE  q \in Step(m2, Split(m1, m2, w), c) <=> Reached(m1, m2, w, c, q)
<1>1. \A x \in Seq(Char) : After(m2, Append(x, c)) = Step(m2, After(m2, x), c)
  BY AfterAppend
<1>2. ASSUME q \in Step(m2, Split(m1, m2, w), c)
      PROVE  Reached(m1, m2, w, c, q)
  <2>1. PICK t \in m2.trans : t[1] \in Split(m1, m2, w) /\ t[2] <= c /\ c <= t[3] /\ t[4] = q
    BY <1>2, StepBy
  <2>2. PICK u \in Seq(Char), x \in Seq(Char) :
          w = u \o x /\ Accepts(m1, u) /\ t[1] \in After(m2, x)
    BY <2>1, SplitAt
  <2>3. q \in Step(m2, After(m2, x), c)
    BY <2>1, <2>2, StepBy
  <2> QED BY <1>1, <2>2, <2>3 DEF Reached
<1>3. ASSUME NEW u \in Seq(Char), NEW x \in Seq(Char),
             w = u \o x, Accepts(m1, u), q \in After(m2, Append(x, c))
      PROVE  q \in Step(m2, Split(m1, m2, w), c)
  <2>1. q \in Step(m2, After(m2, x), c)
    BY <1>1, <1>3
  <2>2. \A p \in After(m2, x) : p \in Split(m1, m2, w)
    BY <1>3, SplitAt
  <2> QED BY <2>1, <2>2, StepBy
<1> QED BY <1>2, <1>3 DEF Reached

(* repeat: nothing, or what it accepts already and once more m.            *)
Again(m, w) ==
  \E u \in Seq(Char), v \in Seq(Char) :
    w = u \o v /\ v # <<>> /\ Run(Repeat(m), u) /\ Run(m, v)

(* repeat accepts the empty word and, after a word of the automaton,       *)
(* whatever it accepts itself (BasicOperations.repeat): the loop of        *)
(* epsilon moves adds no other word.                                       *)
THEOREM RepeatRun ==
  ASSUME NEW m, Sound(m), NEW w \in Seq(Char)
  PROVE  Run(Repeat(m), w) <=> w = <<>> \/ Again(m, w)
<1> DEFINE Q == Nat \X Nat
           b == Beside(m, MakeEmpty)
           c == Unlinked(b, b.both.acc \cup {b.both.q0})
           on == {<<b.both.q0, b.one.q0>>}
           r == AcceptFirst(b)
           ends == GetAcceptStates(b.one)
           back == ends \X {b.both.q0}
           g == AddEpsilons(r, back)
           e1 == ExpandSingleton(m)
           n == b.both
<1>1. Repeat(m) = Numbered(g)
  BY DEF Repeat
<1>2. /\ r = AddEpsilons(c, on)
      /\ IsAutomaton(c, Q) /\ ~ IsSingleton(c) /\ ~ c.det
      /\ c.q0 = <<0, 0>> /\ c.trans = b.both.trans
      /\ \A x : x \in c.acc <=> x \in b.both.acc \/ x = <<0, 0>>
      /\ b.both.q0 = <<0, 0>>
      /\ IsFiniteSet(on) /\ \A p \in on : p[1] \in Q
  BY FirstMakes
<1>3. /\ SideBySide(b.both, {1}, <<e1>>)
      /\ b.one.q0 = <<1, e1.q0>>
      /\ c.trans = b.both.trans
      /\ \A x : x \in c.acc <=> x \in b.both.acc \/ x = <<0, 0>>
      /\ EndsOf(ends, e1)
      /\ e1.q0 \in Nat
  BY FirstIs
<1>4. IsAutomaton(b.one, Q)
  <2>1. Sound(MakeEmpty)
    BY EmptyIsTidy DEF Tidy
  <2> QED BY <2>1, PutBeside
<1>5. \A v : Run(m, v) <=> Accepts(e1, v)
  BY RunIs
<1> HIDE DEF r, c, on, e1, Q, b
<1>6. IsFiniteSet(ends) /\ ends \subseteq Q
  BY <1>4, AcceptingStates
<1> HIDE DEF ends
<1>7. IsFiniteSet(back) /\ \A p \in back : p[1] \in Q
  BY <1>6, FS_Singleton, FS_Product
<1> HIDE DEF back
<1>8. IsAutomaton(r, Q) /\ ~ IsSingleton(r) /\ r.q0 = <<0, 0>>
  BY <1>2, EpsilonsAdded
<1>9. EpsilonMoves(r, c, on)
  BY <1>2, EpsilonsMove
<1>10. IsAutomaton(g, Q) /\ g.q0 = <<0, 0>>
  BY <1>7, <1>8, EpsilonsAdded
<1>11. EpsilonMoves(g, r, back)
  BY <1>7, <1>8, EpsilonsMove
<1> HIDE DEF g
<1> DEFINE S1(v) == After(g, v) \cup Jump(back, After(g, v))
           S2(v) == S1(v) \cup Jump(on, S1(v))
<1>12. \A v : Accepts(g, v) <=> S2(v) \cap n.acc # {} \/ <<0, 0>> \in S2(v)
  <2> SUFFICES ASSUME NEW v PROVE Accepts(g, v) <=> S2(v) \cap n.acc # {} \/ <<0, 0>> \in S2(v)
    OBVIOUS
  <2>1. Accepts(g, v) <=> S1(v) \cap r.acc # {}
    BY <1>11 DEF Accepts, EpsilonMoves
  <2> HIDE DEF S1
  <2>2. S1(v) \cap r.acc # {} <=> S2(v) \cap c.acc # {}
    BY <1>9 DEF EpsilonMoves
  <2> HIDE DEF S2
  <2> QED BY <1>2, <2>1, <2>2
<1>13. \A v \in Seq(Char), d \in Char : After(g, Append(v, d)) = Step(n, S2(v), d)
  <2> SUFFICES ASSUME NEW v \in Seq(Char), NEW d \in Char
               PROVE  After(g, Append(v, d)) = Step(n, S2(v), d)
    OBVIOUS
  <2>1. After(g, Append(v, d)) = Step(g, After(g, v), d)
    BY AfterAppend
  <2>2. Step(g, After(g, v), d) = Step(r, S1(v), d)
    BY <1>11 DEF EpsilonMoves, StepsAhead
  <2> HIDE DEF S1
  <2>3. Step(r, S1(v), d) = Step(c, S2(v), d)
    BY <1>9 DEF EpsilonMoves, StepsAhead
  <2>4. Step(c, S2(v), d) = Step(n, S2(v), d)
    BY <1>2 DEF Step
  <2> QED BY <2>1, <2>2, <2>3, <2>4
<1>14. back = ends \X {<<0, 0>>} /\ on = {<<<<0, 0>>, <<1, e1.q0>>>>}
  BY <1>2, <1>3 DEF back, on
<1> DEFINE Known(S) == \A q \in Part(S, 1) : \E v \in Seq(Char) : q \in After(e1, v)
<1>15. ASSUME NEW v, Known(After(g, v))
       PROVE  /\ Accepts(g, v) <=> <<0, 0>> \in After(g, v) \/ Part(After(g, v), 1) \cap e1.acc # {}
              /\ Part(S2(v), 1) = Part(After(g, v), 1) \cup (IF Accepts(g, v) THEN {e1.q0} ELSE {})
  <2> DEFINE S == After(g, v)
             T1 == S1(v)
             T2 == S2(v)
  <2>1. Ahead(T1, S, ends \X {<<0, 0>>}) /\ Ahead(T2, T1, {<<<<0, 0>>, <<1, e1.q0>>>>})
    BY <1>14 DEF Ahead
  <2>2. \A q \in Part(S, 1) : \E x \in Seq(Char) : q \in After(e1, x)
    BY <1>15
  <2> HIDE DEF S, T1, T2, Known
  <2>3. /\ <<0, 0>> \in T1 <=> <<0, 0>> \in S \/ Part(S, 1) \cap e1.acc # {}
        /\ Part(T2, 1) = Part(S, 1) \cup (IF <<0, 0>> \in T1 THEN {e1.q0} ELSE {})
        /\ T2 \cap n.acc # {} \/ <<0, 0>> \in T2 <=> <<0, 0>> \in T1
    BY <1>3, <2>1, <2>2, LoopParts
  <2>4. Accepts(g, v) <=> <<0, 0>> \in T1
    BY <1>12, <2>3 DEF T2
  <2> QED BY <2>3, <2>4 DEF S, T2
<1> HIDE DEF S1, S2
<1> DEFINE T == {v \in Seq(Char) : Known(After(g, v)) /\ Part(S2(v), 1) = Split(g, e1, v)}
<1>16. ASSUME NEW v \in Seq(Char), NEW d \in Char, Part(S2(v), 1) = Split(g, e1, v)
       PROVE  /\ Part(After(g, Append(v, d)), 1) = Step(e1, Split(g, e1, v), d)
              /\ <<0, 0>> \notin After(g, Append(v, d))
              /\ Known(After(g, Append(v, d)))
  <2> DEFINE S == After(g, Append(v, d))
             B == S2(v)
             I == {1}
             e == <<e1>>
  <2>1. S = Step(n, B, d)
    BY <1>13
  <2>2. SideBySide(n, I, e) /\ e[1] = e1
    BY <1>3
  <2> HIDE DEF S, B, I, e, n
  <2>3. /\ \A i \in I : Part(Step(n, B, d), i) = Step(e[i], Part(B, i), d)
        /\ \A x \in Step(n, B, d) : \E i \in I : \E q \in Nat : x = <<i, q>>
    BY <2>2, SideParts
  <2>4. Part(S, 1) = Step(e1, Split(g, e1, v), d)
    BY <1>16, <2>1, <2>2, <2>3 DEF I, B
  <2>5. <<0, 0>> \notin S
    <3>1. \A i \in I, q \in Nat : <<0, 0>> # <<i, q>>
      BY DEF I
    <3> QED BY <2>1, <2>3, <3>1
  <2>6. Known(S)
    <3> SUFFICES ASSUME NEW q \in Part(S, 1) PROVE \E x \in Seq(Char) : q \in After(e1, x)
      OBVIOUS
    <3>1. PICK u \in Seq(Char), x \in Seq(Char) :
            v = u \o x /\ Accepts(g, u) /\ q \in After(e1, Append(x, d))
      BY <2>4, SplitReached DEF Reached
    <3>2. Append(x, d) \in Seq(Char)
      OBVIOUS
    <3> QED BY <3>1, <3>2
  <2> QED BY <2>4, <2>5, <2>6 DEF S
<1>17. After(g, <<>>) = {<<0, 0>>} /\ <<>> \in Seq(Char)
  <2>1. After(g, <<>>) = {g.q0}
    BY AfterAppend
  <2> QED BY <1>10, <2>1
<1>18. Known(After(g, <<>>)) /\ Part(After(g, <<>>), 1) = {} /\ Accepts(g, <<>>)
  <2>1. \A q : <<1, q>> # <<0, 0>>
    OBVIOUS
  <2>2. Part(After(g, <<>>), 1) = {}
    BY <1>17, <2>1 DEF Part
  <2>3. Known(After(g, <<>>))
    BY <2>2
  <2> HIDE DEF Known
  <2> QED BY <1>15, <1>17, <2>2, <2>3
<1>19. <<>> \in T
  <2>1. Part(S2(<<>>), 1) = {e1.q0}
    <3> HIDE DEF Known
    <3> QED BY <1>15, <1>18
  <2>2. Split(g, e1, <<>>) = {e1.q0}
    BY <1>18, SplitAtFirst
  <2> QED BY <1>17, <1>18, <2>1, <2>2
<1>20. ASSUME NEW v \in Seq(Char), NEW d \in Char, v \in T PROVE Append(v, d) \in T
  <2> DEFINE x == Append(v, d)
  <2>1. x \in Seq(Char)
    OBVIOUS
  <2>2. Part(After(g, x), 1) = Step(e1, Split(g, e1, v), d) /\ Known(After(g, x))
    <3> HIDE DEF Known
    <3> QED BY <1>16, <1>20
  <2>3. Split(g, e1, x) = Step(e1, Split(g, e1, v), d) \cup (IF Accepts(g, x) THEN {e1.q0} ELSE {})
    BY SplitInTurn
  <2> HIDE DEF x, Known
  <2>4. Part(S2(x), 1) = Part(After(g, x), 1) \cup (IF Accepts(g, x) THEN {e1.q0} ELSE {})
    BY <1>15, <2>2
  <2>5. x \in T
    BY <2>1, <2>2, <2>3, <2>4
  <2> QED BY <2>5 DEF x
<1> HIDE DEF T
<1>21. Seq(Char) \subseteq T
  BY <1>19, <1>20, WordInduction
<1>22. \A v \in Seq(Char) : Run(Repeat(m), v) <=> Accepts(g, v)
  <2> SUFFICES ASSUME NEW v \in Seq(Char) PROVE Run(Numbered(g), v) <=> Accepts(g, v)
    BY <1>1
  <2>1. Accepts(Numbered(g), v) <=> Accepts(g, v)
    BY <1>10, NumberedAccepts
  <2>2. ~ IsSingleton(Numbered(g))
    BY <1>10, NamesChanged
  <2>3. Run(Numbered(g), v) <=> Accepts(Numbered(g), v)
    BY <2>2, RunExplicit
  <2> QED BY <2>1, <2>3
<1>23. CASE w = <<>>
  BY <1>18, <1>22, <1>23
<1>24. CASE w # <<>>
  <2>1. PICK y \in Seq(Char), d \in Char : w = Append(y, d)
    BY <1>24, SequenceEmptyOrAppend
  <2>2. Part(After(g, w), 1) = Step(e1, Split(g, e1, y), d) /\ <<0, 0>> \notin After(g, w)
        /\ Known(After(g, w))
    <3>1. Part(S2(y), 1) = Split(g, e1, y)
      BY <1>21 DEF T
    <3> HIDE DEF Known
    <3> QED BY <1>16, <2>1, <3>1
  <2>3. Accepts(g, w) <=> Step(e1, Split(g, e1, y), d) \cap e1.acc # {}
    <3> HIDE DEF Known
    <3> QED BY <1>15, <2>2
  <2>4. ASSUME Accepts(g, w) PROVE Again(m, w)
    <3>1. PICK q \in e1.acc : q \in Step(e1, Split(g, e1, y), d)
      BY <2>3, <2>4
    <3>2. PICK u \in Seq(Char), x \in Seq(Char) :
            y = u \o x /\ Accepts(g, u) /\ q \in After(e1, Append(x, d))
      <4>1. Reached(g, e1, y, d, q)
        BY <3>1, SplitReached
      <4> QED BY <4>1 DEF Reached
    <3> DEFINE v == Append(x, d)
    <3>3. v \in Seq(Char) /\ v # <<>>
      OBVIOUS
    <3>4. w = u \o v
      <4>1. Shorter(u, v, y, d)
        BY <3>2 DEF Shorter
      <4> HIDE DEF v
      <4>2. Append(y, d) = u \o v
        BY <3>3, <4>1, SplitAppend
      <4> QED BY <2>1, <4>2
    <3> HIDE DEF v
    <3>5. Accepts(e1, v)
      BY <3>1, <3>2 DEF Accepts, v
    <3> QED BY <1>5, <1>22, <3>2, <3>3, <3>4, <3>5 DEF Again
  <2>5. ASSUME Again(m, w) PROVE Accepts(g, w)
    <3>1. PICK u \in Seq(Char), v \in Seq(Char) :
            w = u \o v /\ v # <<>> /\ Run(Repeat(m), u) /\ Run(m, v)
      BY <2>5 DEF Again
    <3>2. Shorter(u, v, y, d)
      <4>1. Append(y, d) = u \o v
        BY <2>1, <3>1
      <4> QED BY <3>1, <4>1, SplitAppend
    <3>3. PICK x \in Seq(Char) : v = Append(x, d) /\ y = u \o x
      BY <3>2 DEF Shorter
    <3>4. Accepts(g, u) /\ Accepts(e1, v)
      BY <1>5, <1>22, <3>1
    <3>5. PICK q \in e1.acc : q \in After(e1, Append(x, d))
      BY <3>3, <3>4 DEF Accepts
    <3>6. q \in Step(e1, Split(g, e1, y), d)
      BY <3>3, <3>4, <3>5, SplitReached DEF Reached
    <3> QED BY <2>3, <3>5, <3>6
  <2> QED BY <1>22, <1>24, <2>4, <2>5
<1> QED BY <1>23, <1>24

(* All words that m accepts.                                               *)
Words(m) == {w \in Seq(Char) : Run(m, w)}

(* Being accepted in turn is being a word of one language and then one of  *)
(* the other.                                                              *)
LEMMA JoinWords ==
  ASSUME NEW m1, NEW m2, NEW w \in Seq(Char)
  PROVE  Chained(m1, m2, w) <=> w \in Join(Char, Words(m1), Words(m2))
BY DEF Chained, Join, Words

(* The flag has no part in what is accepted.                               *)
LEMMA FlagRun ==
  ASSUME NEW m, IsAutomaton(m, Nat), ~ IsSingleton(m), NEW det, NEW w \in Seq(Char)
  PROVE  Run([m EXCEPT !.det = det], w) <=> Run(m, w)
<1> DEFINE n == [m EXCEPT !.det = det]
<1>1. n.q0 = m.q0 /\ n.trans = m.trans /\ n.acc = m.acc /\ n.word = m.word
  BY DEF IsAutomaton
<1> HIDE DEF n
<1>2. ~ IsSingleton(n)
  BY <1>1 DEF IsSingleton
<1>3. After(n, w) = After(m, w)
  BY <1>1, SameTransitions
<1>4. Accepts(n, w) <=> Accepts(m, w)
  BY <1>1, <1>3 DEF Accepts
<1>5. Run(n, w) <=> Run(m, w)
  BY <1>2, <1>4, RunExplicit
<1> QED BY <1>5 DEF n

(* What runs of Follow and FollowOrStop accept, as sets of words.          *)
LEMMA FollowWords ==
  ASSUME NEW m1, Sound(m1), NEW m2, Sound(m2)
  PROVE  /\ Words(Follow(m1, m2)) = Join(Char, Words(m1), Words(m2))
         /\ Words(FollowOrStop(m1, m2)) = Words(m1) \cup Join(Char, Words(m1), Words(m2))
<1>1. \A w \in Seq(Char) :
        /\ Run(Follow(m1, m2), w) <=> Chained(m1, m2, w)
        /\ Run(FollowOrStop(m1, m2), w) <=> Run(m1, w) \/ Chained(m1, m2, w)
  BY FollowRun
<1>2. \A w \in Seq(Char) : Chained(m1, m2, w) <=> w \in Join(Char, Words(m1), Words(m2))
  BY JoinWords
<1>3. Join(Char, Words(m1), Words(m2)) \subseteq Seq(Char)
  BY DEF Join
<1>4. \A m : \A w \in Seq(Char) : w \in Words(m) <=> Run(m, w)
  BY DEF Words
<1>5. \A m : Words(m) \subseteq Seq(Char)
  BY DEF Words
<1>6. \A w \in Seq(Char) :
        /\ w \in Words(Follow(m1, m2)) <=> w \in Join(Char, Words(m1), Words(m2))
        /\ w \in Words(FollowOrStop(m1, m2))
             <=> w \in Words(m1) \cup Join(Char, Words(m1), Words(m2))
  BY <1>1, <1>2, <1>4
<1> DEFINE J == Join(Char, Words(m1), Words(m2))
<1> HIDE DEF J
<1>7. Words(Follow(m1, m2)) = J
  BY <1>3, <1>5, <1>6 DEF J
<1>8. Words(FollowOrStop(m1, m2)) = Words(m1) \cup J
  BY <1>3, <1>5, <1>6 DEF J
<1> QED BY <1>7, <1>8 DEF J

(* concatenate accepts a word of the first automaton followed by one of    *)
(* the second (BasicOperations.concatenate), also when it puts a single    *)
(* word before a deterministic automaton and when one of the two is empty. *)
THEOREM ConcatenateRun ==
  ASSUME NEW m1, Tidy(m1), NEW m2, Tidy(m2)
  PROVE  Words(Concatenate(m1, m2)) = Join(Char, Words(m1), Words(m2))
<1>1. Sound(m1) /\ Sound(m2)
  BY DEF Tidy
<1>2. \A w, m : w \in Words(m) <=> w \in Seq(Char) /\ Run(m, w)
  BY DEF Words
<1>3. CASE IsSingleton(m1) /\ IsSingleton(m2)
  <2>1. PICK u \in Seq(Char) : m1.word = {u} /\ \A w \in Seq(Char) : Run(m1, w) <=> w = u
    BY <1>1, <1>3, OneWord
  <2>2. PICK v \in Seq(Char) : m2.word = {v} /\ \A w \in Seq(Char) : Run(m2, w) <=> w = v
    BY <1>1, <1>3, OneWord
  <2>3. (CHOOSE x \in {u} : TRUE) = u /\ (CHOOSE x \in {v} : TRUE) = v
    OBVIOUS
  <2>4. Concatenate(m1, m2) = Singleton(u \o v)
    BY <1>3, <2>1, <2>2, <2>3 DEF Concatenate, IsEmpty
  <2>5. u \o v \in Seq(Char)
    OBVIOUS
  <2>6. \A w \in Seq(Char) : Run(Singleton(u \o v), w) <=> w = u \o v
    BY <2>5, SingletonRun
  <2>7. Words(m1) = {u} /\ Words(m2) = {v} /\ Words(Singleton(u \o v)) = {u \o v}
    BY <1>2, <2>1, <2>2, <2>5, <2>6
  <2>8. Join(Char, {u}, {v}) = {u \o v}
    BY <2>5 DEF Join
  <2> QED BY <2>4, <2>7, <2>8
<1>4. CASE IsEmpty(m1) \/ IsEmpty(m2)
  <2>1. Concatenate(m1, m2) = MakeEmpty
    BY <1>4 DEF Concatenate, IsEmpty
  <2>2. Words(MakeEmpty) = {}
    BY <1>2, MakeEmptyRun
  <2>3. Words(m1) = {} \/ Words(m2) = {}
    BY <1>2, <1>4, EmptyRun
  <2>4. Words(m1) \in SUBSET Seq(Char) /\ Words(m2) \in SUBSET Seq(Char)
    BY <1>2
  <2>5. Join(Char, Words(m1), Words(m2)) = {}
    BY <2>3 DEF Join
  <2> QED BY <2>1, <2>2, <2>5
<1>5. CASE ~ (IsSingleton(m1) /\ IsSingleton(m2)) /\ ~ IsEmpty(m1) /\ ~ IsEmpty(m2)
  <2> DEFINE m == Follow(m1, m2)
             det == IsSingleton(m1) /\ m2.det
  <2>1. Concatenate(m1, m2) = [m EXCEPT !.det = det]
    BY <1>5 DEF Concatenate
  <2>2. IsAutomaton(m, Nat) /\ ~ IsSingleton(m)
    BY <1>1, <1>5, Follows
  <2> HIDE DEF det
  <2>3. Words(m) = Join(Char, Words(m1), Words(m2))
    BY <1>1, FollowWords
  <2> HIDE DEF m
  <2>4. \A w \in Seq(Char) : Run([m EXCEPT !.det = det], w) <=> Run(m, w)
    BY <2>2, FlagRun
  <2> DEFINE n == [m EXCEPT !.det = det]
  <2>5. \A w \in Seq(Char) : Run(n, w) <=> Run(m, w)
    BY <2>4
  <2> HIDE DEF n
  <2>6. \A w : w \in Words(n) <=> w \in Words(m)
    BY <1>2, <2>5
  <2>7. Words(n) = Words(m)
    BY <2>6
  <2> QED BY <2>1, <2>3, <2>7 DEF n
<1> QED BY <1>3, <1>4, <1>5

(* expandSingleton keeps the language.                                     *)
LEMMA SpellOut ==
  ASSUME NEW m, Sound(m)
  PROVE  Words(ExpandSingleton(m)) = Words(m)
<1> DEFINE e == ExpandSingleton(m)
<1>1. ~ IsSingleton(e)
  BY Expanded
<1>2. \A w : Run(m, w) <=> Accepts(e, w)
  BY RunIs
<1> HIDE DEF e
<1>3. \A w : Run(e, w) <=> Accepts(e, w)
  BY <1>1, RunExplicit
<1>4. \A w : w \in Words(e) <=> w \in Words(m)
  BY <1>2, <1>3 DEF Words
<1> QED BY <1>4 DEF e

(* The language of a singleton.                                            *)
LEMMA OneWordOnly ==
  ASSUME NEW m, Sound(m), IsSingleton(m)
  PROVE  /\ (CHOOSE v \in m.word : TRUE) \in Seq(Char)
         /\ Words(m) = {CHOOSE v \in m.word : TRUE}
<1>1. PICK v \in Seq(Char) : m.word = {v} /\ \A w \in Seq(Char) : Run(m, w) <=> w = v
  BY OneWord
<1>2. (CHOOSE x \in m.word : TRUE) = v
  BY <1>1
<1>3. \A w : w \in Words(m) <=> w = v
  BY <1>1 DEF Words
<1>4. Words(m) = {v}
  BY <1>3
<1> QED BY <1>1, <1>2, <1>4

(* A word of each language of a list, in turn.                             *)
Chains(P, l) ==
  P[0] = {<<>>} /\ \A i \in 1..Len(l) : P[i] = Join(Char, P[i - 1], Words(l[i]))

(* The languages of the first i automata of a list, chained.               *)
LEMMA ChainsAreWords ==
  ASSUME NEW l, Len(l) \in Nat, NEW P, Chains(P, l)
  PROVE  \A i \in 0..Len(l) : P[i] \in SUBSET Seq(Char)
<1> DEFINE V == SUBSET Seq(Char)
<1>1. P[0] \in V
  BY DEF Chains
<1>2. \A i \in 1..Len(l) : P[i] \in V
  BY DEF Chains, Join
<1> HIDE DEF V
<1>3. \A i \in 0..Len(l) : P[i] \in V
  BY <1>1, <1>2, StaysWithin
<1> QED BY <1>3 DEF V

(* concatenate of singletons: the one word that they spell.                *)
LEMMA SpelledWords ==
  ASSUME NEW l, Len(l) \in Nat, \A i \in 1..Len(l) : Sound(l[i]) /\ IsSingleton(l[i]),
         NEW P, Chains(P, l)
  PROVE  Words(ConcatenateWords(l)) = P[Len(l)]
<1> DEFINE n == Len(l)
<1>1. \A i \in 1..n : l[i].word # {} /\ l[i].word \subseteq Seq(Char)
  BY DEF Sound, IsAutomaton, IsSingleton
<1>2. PICK r : Spelled(r, l)
  BY <1>1, WordsSpelled
<1> DEFINE T == {i \in 0..n : P[i] = {r[i]}}
<1>3. n \in Nat
  OBVIOUS
<1>4. 0 \in T
  BY <1>2, <1>3 DEF Spelled, Chains
<1>5. ASSUME NEW h \in 0..n - 1, h \in T PROVE h + 1 \in T
  <2> DEFINE i == h + 1
             v == CHOOSE v \in l[i].word : TRUE
  <2>1. i \in 1..n /\ i \in 0..n /\ h \in 0..n /\ i - 1 = h
    BY <1>3
  <2>2. v \in Seq(Char) /\ Words(l[i]) = {v}
    BY <2>1, OneWordOnly
  <2>3. r[i] = r[h] \o v /\ r[h] \in Seq(Char)
    BY <1>2, <2>1 DEF Spelled
  <2>4. P[i] = Join(Char, P[h], Words(l[i])) /\ P[h] = {r[h]}
    BY <1>5, <2>1 DEF Chains
  <2> HIDE DEF v
  <2>5. r[h] \o v \in Seq(Char)
    BY <2>2, <2>3
  <2>6. Join(Char, {r[h]}, {v}) = {r[h] \o v}
    BY <2>5 DEF Join
  <2> QED BY <2>1, <2>2, <2>3, <2>4, <2>6
<1>6. n \in T
  <2> HIDE DEF T, n
  <2>1. 0..n \subseteq T
    BY <1>3, <1>4, <1>5, IntervalInduction
  <2> QED BY <1>3, <2>1
<1>7. r[n] \in Seq(Char) /\ ConcatenateWords(l) = Singleton(r[n])
  BY <1>2, <1>3 DEF Spelled
<1>8. \A w : w \in Words(Singleton(r[n])) <=> w = r[n]
  BY <1>7, SingletonRun DEF Words
<1>9. Words(Singleton(r[n])) = {r[n]}
  BY <1>8
<1> QED BY <1>6, <1>7, <1>9

(* An empty automaton in the list leaves no word at all.                   *)
LEMMA NoWords ==
  ASSUME NEW l, Len(l) \in Nat, NEW h \in 1..Len(l), IsEmpty(l[h]), NEW P, Chains(P, l)
  PROVE  P[Len(l)] = {}
<1> DEFINE n == Len(l)
           T == {i \in 0..n : i >= h => P[i] = {}}
<1>1. n \in Nat /\ h \in 1..n
  OBVIOUS
<1>2. Words(l[h]) = {}
  BY EmptyRun DEF Words
<1>3. 0 \in T
  BY <1>1
<1>4. ASSUME NEW g \in 0..n - 1, g \in T PROVE g + 1 \in T
  <2> DEFINE i == g + 1
  <2>1. i \in 1..n /\ i \in 0..n /\ i - 1 = g
    BY <1>1
  <2>2. P[i] = Join(Char, P[g], Words(l[i]))
    BY <2>1 DEF Chains
  <2>3. i = h \/ i > h \/ i < h
    BY <1>1, <2>1
  <2>4. CASE i = h
    <3>1. P[i] = {}
      BY <1>2, <2>2, <2>4 DEF Join
    <3> QED BY <2>1, <3>1
  <2>5. CASE i > h
    <3>1. g >= h
      BY <1>1, <2>1, <2>5
    <3>2. P[g] = {}
      BY <1>4, <3>1
    <3>3. P[i] = {}
      BY <2>2, <3>2 DEF Join
    <3> QED BY <2>1, <3>3
  <2>6. CASE i < h
    BY <1>1, <2>1, <2>6
  <2> QED BY <2>3, <2>4, <2>5, <2>6
<1>5. n \in T
  <2> HIDE DEF T, n
  <2>1. 0..n \subseteq T
    BY <1>1, <1>3, <1>4, IntervalInduction
  <2> QED BY <1>1, <2>1
<1> QED BY <1>1, <1>5

(* concatenate of a list with an automaton that is not a singleton.        *)
LEMMA AttachedWords ==
  ASSUME NEW l, Len(l) \in Nat, Len(l) # 0,
         \A i \in 1..Len(l) : Tidy(l[i]) /\ ~ IsEmpty(l[i]), NEW P, Chains(P, l)
  PROVE  Words(ConcatenateParts(l)) = P[Len(l)]
<1> DEFINE n == Len(l)
<1>1. PICK r : Attached(r, l)
  BY PartsAttached
<1> DEFINE T == {i \in 0..n : i # 0 => P[i] = Words(r[i])}
<1>2. n \in Nat /\ n # 0
  OBVIOUS
<1>3. 0 \in T
  BY <1>2
<1>4. \A i \in 0..n : P[i] \in SUBSET Seq(Char)
  BY ChainsAreWords
<1>5. \A m : Words(m) \in SUBSET Seq(Char)
  BY DEF Words
<1>6. ASSUME NEW h \in 0..n - 1, h \in T PROVE h + 1 \in T
  <2> DEFINE i == h + 1
  <2>1. i \in 1..n /\ i \in 0..n /\ h \in 0..n /\ i - 1 = h
    BY <1>2
  <2>2. P[i] = Join(Char, P[h], Words(l[i])) /\ Sound(l[i])
    BY <2>1 DEF Chains, Tidy
  <2>3. CASE h = 0
    <3>0. i = 1 /\ P[h] = {<<>>}
      BY <2>3 DEF Chains
    <3>1. P[i] = Join(Char, {<<>>}, Words(l[1])) /\ i = 1 /\ Sound(l[1])
      <4> HIDE DEF i
      <4> QED BY <2>2, <3>0
    <3>2. Join(Char, {<<>>}, Words(l[1])) = Words(l[1])
      BY <1>5, JoinIs
    <3>3. Words(r[1]) = Words(l[1])
      BY <1>1, <3>1, SpellOut DEF Attached
    <3> QED BY <2>1, <3>1, <3>2, <3>3
  <2>4. CASE h # 0
    <3>1. h \in 1..n /\ i \in 2..n
      BY <1>2, <2>1, <2>4
    <3>2. r[i] = IF IsEmptyString(l[i]) THEN r[h] ELSE Follow(r[h], l[i])
      BY <1>1, <2>1, <3>1 DEF Attached
    <3>3. Sound(r[h])
      BY <1>1, <3>1 DEF Attached, Tidy
    <3>4. P[h] = Words(r[h])
      BY <1>6, <2>4
    <3>5. CASE IsEmptyString(l[i])
      <4> DEFINE m == l[i]
      <4>0. Sound(m) /\ IsEmptyString(m)
        BY <2>2, <3>5
      <4> HIDE DEF m
      <4>21. \A w \in Seq(Char) : Run(m, w) <=> w = <<>>
        BY <4>0, EmptyStringRun
      <4>22. <<>> \in Seq(Char)
        OBVIOUS
      <4>23. \A w : w \in Words(m) <=> w \in Seq(Char) /\ Run(m, w)
        BY DEF Words
      <4>1. \A w : w \in Words(l[i]) <=> w = <<>>
        BY <4>21, <4>22, <4>23 DEF m
      <4>2. Words(l[i]) = {<<>>}
        BY <4>1
      <4>3. Join(Char, P[h], {<<>>}) = P[h]
        <5> DEFINE K == P[h]
        <5>1. K \in SUBSET Seq(Char)
          BY <1>5, <3>4
        <5> HIDE DEF K
        <5>2. Join(Char, K, {<<>>}) = K
          BY <5>1, JoinIs
        <5> QED BY <5>2 DEF K
      <4> QED BY <2>1, <2>2, <3>2, <3>4, <3>5, <4>2, <4>3
    <3>6. CASE ~ IsEmptyString(l[i])
      <4>1. Words(Follow(r[h], l[i])) = Join(Char, Words(r[h]), Words(l[i]))
        BY <2>2, <3>3, FollowWords
      <4> QED BY <2>1, <2>2, <3>2, <3>4, <3>6, <4>1
    <3> QED BY <3>5, <3>6
  <2> QED BY <2>3, <2>4
<1>7. n \in T
  <2> HIDE DEF T, n
  <2>1. 0..n \subseteq T
    BY <1>2, <1>3, <1>6, IntervalInduction
  <2> QED BY <1>2, <2>1
<1> DEFINE m == r[n]
           det == FALSE
           f == [m EXCEPT !.det = det]
<1>8. n \in 1..n
  BY <1>2
<1>9. IsAutomaton(m, Nat) /\ ~ IsSingleton(m) /\ ConcatenateParts(l) = f
  BY <1>1, <1>8 DEF Attached, Tidy, Sound
<1> HIDE DEF det, m
<1>10. \A w \in Seq(Char) : Run(f, w) <=> Run(m, w)
  BY <1>9, FlagRun
<1> HIDE DEF f
<1>11. \A w : w \in Words(f) <=> w \in Words(m)
  BY <1>10 DEF Words
<1>12. Words(f) = Words(m)
  BY <1>11
<1> QED BY <1>2, <1>7, <1>9, <1>12 DEF m

(* concatenate of a list accepts a word of each of its automata in turn    *)
(* (BasicOperations.concatenate), P[i] being the words of the first i.     *)
THEOREM ConcatenateListRun ==
  ASSUME NEW l, Len(l) \in Nat, DOMAIN l = 1..Len(l), \A i \in 1..Len(l) : Tidy(l[i]),
         NEW P, Chains(P, l)
  PROVE  Words(ConcatenateList(l)) = P[Len(l)]
<1>1. CASE \A i \in DOMAIN l : IsSingleton(l[i])
  <2>1. \A i \in DOMAIN l : ~ IsEmpty(l[i])
    BY <1>1 DEF IsEmpty
  <2>2. ConcatenateList(l) = ConcatenateWords(l)
    BY <1>1, <2>1 DEF ConcatenateList
  <2>3. \A i \in 1..Len(l) : Sound(l[i]) /\ IsSingleton(l[i])
    BY <1>1 DEF Tidy
  <2> QED BY <2>2, <2>3, SpelledWords
<1>2. CASE \E i \in DOMAIN l : IsEmpty(l[i])
  <2>1. PICK i \in 1..Len(l) : IsEmpty(l[i])
    BY <1>2
  <2>2. ~ (\A h \in DOMAIN l : IsSingleton(l[h]))
    BY <2>1 DEF IsEmpty
  <2>3. ConcatenateList(l) = MakeEmpty
    BY <1>2, <2>2 DEF ConcatenateList
  <2>4. Words(MakeEmpty) = {}
    BY MakeEmptyRun DEF Words
  <2>5. P[Len(l)] = {}
    BY <2>1, NoWords
  <2> QED BY <2>3, <2>4, <2>5
<1>3. CASE ~ (\A i \in DOMAIN l : IsSingleton(l[i])) /\ ~ (\E i \in DOMAIN l : IsEmpty(l[i]))
  <2>1. ConcatenateList(l) = ConcatenateParts(l)
    BY <1>3 DEF ConcatenateList
  <2>2. Len(l) # 0
    <3> SUFFICES ASSUME Len(l) = 0 PROVE FALSE
      OBVIOUS
    <3>1. DOMAIN l = 1..0
      OBVIOUS
    <3>2. DOMAIN l = {}
      BY <3>1
    <3> QED BY <1>3, <3>2
  <2> QED BY <1>3, <2>1, <2>2, AttachedWords
<1> QED BY <1>1, <1>2, <1>3

(* Any number of times, at least once: each one more is at the front.      *)
THEOREM OptionallyRun ==
  ASSUME NEW e, Tidy(e), NEW n \in Nat
  PROVE  Words(Optionally(e, n)) = Repeated(Char, Words(e), 1..n + 1)
<1>1. PICK r : Lengthened(r, e, n)
  BY OptionallyLengthens
<1> DEFINE L == Words(e)
           T == {h \in 0..n : \A w : w \in Words(r[h])
                                       <=> \E j \in 1..h + 1 : w \in Powers(Char, L)[j]}
<1>2. L \in SUBSET Seq(Char)
  BY DEF Words
<1>3. Sound(e) /\ \A h \in 0..n : Sound(r[h])
  BY <1>1 DEF Lengthened, Tidy
<1>4. r[0] = e /\ \A h \in 1..n : r[h] = FollowOrStop(e, r[h - 1])
  BY <1>1 DEF Lengthened
<1>5. 0 \in T
  <2>1. \A j : j \in 1..0 + 1 <=> j = 1
    OBVIOUS
  <2>2. Powers(Char, L)[1] = L
    BY <1>2, FirstPower
  <2> QED BY <1>4, <2>1, <2>2
<1>6. ASSUME NEW h \in 0..n - 1, h \in T PROVE h + 1 \in T
  <2> DEFINE i == h + 1
  <2>1. i \in 1..n /\ i \in 0..n /\ h \in 0..n /\ i - 1 = h /\ h \in Nat
    OBVIOUS
  <2>2. Words(r[i]) = L \cup Join(Char, L, Words(r[h]))
    BY <1>3, <1>4, <2>1, FollowWords
  <2>3. \A w : w \in Words(r[h]) <=> \E j \in 1..h + 1 : w \in Powers(Char, L)[j]
    BY <1>6
  <2>4. Powers(Char, L)[1] = L
    BY <1>2, FirstPower
  <2>5. \A j \in Nat : Join(Char, L, Powers(Char, L)[j]) = Powers(Char, L)[j + 1] /\ Powers(Char, L)[j] \in SUBSET Seq(Char)
    BY <1>2, InPowers
  <2> HIDE DEF L
  <2>6. ASSUME NEW w, NEW j \in 1..i + 1, w \in Powers(Char, L)[j] PROVE w \in Words(r[i])
    <3>1. CASE j = 1
      BY <2>2, <2>4, <2>6, <3>1
    <3>2. CASE j # 1
      <4>1. j - 1 \in 1..h + 1 /\ j - 1 \in Nat /\ (j - 1) + 1 = j
        BY <2>1, <3>2
      <4>2. w \in Join(Char, L, Powers(Char, L)[j - 1])
        BY <2>5, <2>6, <4>1
      <4>3. PICK u \in L, v \in Powers(Char, L)[j - 1] : w = u \o v
        BY <4>2 DEF Join
      <4>4. v \in Words(r[h])
        BY <2>3, <4>1
      <4>5. w \in Seq(Char)
        BY <4>2 DEF Join
      <4>6. w \in Join(Char, L, Words(r[h]))
        BY <4>3, <4>4, <4>5 DEF Join
      <4> QED BY <2>2, <4>6
    <3> QED BY <3>1, <3>2
  <2>7. ASSUME NEW w \in Words(r[i]) PROVE \E j \in 1..i + 1 : w \in Powers(Char, L)[j]
    <3>1. CASE w \in L
      <4>1. 1 \in 1..i + 1
        BY <2>1
      <4> QED BY <2>4, <3>1, <4>1
    <3>2. CASE w \notin L
      <4>1. w \in Join(Char, L, Words(r[h]))
        BY <2>2, <3>2
      <4>2. PICK u \in L, v \in Words(r[h]) : w = u \o v
        BY <4>1 DEF Join
      <4>3. PICK j \in 1..h + 1 : v \in Powers(Char, L)[j]
        BY <2>3
      <4>4. w \in Seq(Char)
        BY <4>1 DEF Join
      <4>5. w \in Join(Char, L, Powers(Char, L)[j])
        BY <4>2, <4>3, <4>4 DEF Join
      <4>6. j \in Nat /\ j + 1 \in 1..i + 1
        BY <2>1
      <4>7. w \in Powers(Char, L)[j + 1]
        BY <2>5, <4>5, <4>6
      <4> QED BY <4>6, <4>7
    <3> QED BY <3>1, <3>2
  <2>8. \A w : w \in Words(r[i]) <=> \E j \in 1..i + 1 : w \in Powers(Char, L)[j]
    BY <2>6, <2>7
  <2> QED BY <2>1, <2>8
<1>7. n \in T
  <2> HIDE DEF T
  <2>1. 0..n \subseteq T
    BY <1>5, <1>6, IntervalInduction
  <2> QED BY <2>1
<1>8. Optionally(e, n) = r[n]
  BY <1>1 DEF Lengthened
<1>9. \A w : w \in Words(Optionally(e, n)) <=> w \in Repeated(Char, L, 1..n + 1)
  BY <1>7, <1>8 DEF Repeated
<1> QED BY <1>9

(* Any number of times.                                                    *)
LEMMA RepeatWords ==
  ASSUME NEW m, Sound(m)
  PROVE  Words(Repeat(m)) = Repeated(Char, Words(m), Nat)
<1> DEFINE L == Words(m)
           K == Words(Repeat(m))
<1>1. L \in SUBSET Seq(Char) /\ K \in SUBSET Seq(Char)
  BY DEF Words
<1>2. \A w \in Seq(Char) : w \in K <=> w = <<>> \/ Again(m, w)
  BY RepeatRun DEF Words
<1>3. \A w \in Seq(Char) : Again(m, w) <=> \E u \in K, v \in L : w = u \o v /\ v # <<>>
  BY DEF Again, Words
<1> HIDE DEF L, K
<1>4. \A n \in Nat : Join(Char, Powers(Char, L)[n], L) = Powers(Char, L)[n + 1] /\ Powers(Char, L)[n] \in SUBSET Seq(Char)
  BY <1>1, InPowers
<1>5. Powers(Char, L)[0] = {<<>>}
  BY <1>1, PowersAre DEF IsPowers
<1> DEFINE S == {n \in Nat : Powers(Char, L)[n] \subseteq K}
<1>6. Nat \subseteq S
  <2>1. 0 \in S
    <3>1. <<>> \in Seq(Char)
      OBVIOUS
    <3> QED BY <1>2, <1>5, <3>1
  <2>2. ASSUME NEW n \in Nat, n \in S PROVE n + 1 \in S
    <3>1. ASSUME NEW w \in Powers(Char, L)[n + 1] PROVE w \in K
      <4>1. w \in Join(Char, Powers(Char, L)[n], L)
        BY <1>4
      <4>2. PICK u \in Powers(Char, L)[n], v \in L : w = u \o v
        BY <4>1 DEF Join
      <4>3. u \in K /\ u \in Seq(Char) /\ w \in Seq(Char)
        BY <1>1, <2>2, <4>1 DEF Join
      <4>4. CASE v = <<>>
        <5>1. w = u
          BY <4>2, <4>3, <4>4, ConcatProperties
        <5> QED BY <4>3, <5>1
      <4>5. CASE v # <<>>
        BY <1>2, <1>3, <4>2, <4>3, <4>5
      <4> QED BY <4>4, <4>5
    <3> QED BY <3>1
  <2> HIDE DEF S
  <2> QED BY <2>1, <2>2, NumberInduction
<1> DEFINE T == {n \in Nat : \A w \in K : Len(w) <= n => \E j \in Nat : w \in Powers(Char, L)[j]}
<1>7. Nat \subseteq T
  <2>1. ASSUME NEW w \in K, w = <<>> PROVE \E j \in Nat : w \in Powers(Char, L)[j]
    <3>1. w \in Powers(Char, L)[0] /\ 0 \in Nat
      BY <1>5, <2>1
    <3> QED BY <3>1
  <2>2. 0 \in T
    <3>1. \A w \in K : Len(w) <= 0 => w = <<>>
      <4>1. \A w \in Seq(Char) : Len(w) \in Nat /\ (Len(w) = 0 <=> w = <<>>)
        BY EmptySeq, LenProperties
      <4> QED BY <1>1, <4>1
    <3> QED BY <2>1, <3>1
  <2>3. ASSUME NEW n \in Nat, n \in T PROVE n + 1 \in T
    <3> SUFFICES ASSUME NEW w \in K, Len(w) <= n + 1, w # <<>>
                 PROVE  \E j \in Nat : w \in Powers(Char, L)[j]
      BY <2>1
    <3>1. w \in Seq(Char)
      BY <1>1
    <3>2. PICK u \in K, v \in L : w = u \o v /\ v # <<>>
      BY <1>2, <1>3, <3>1
    <3>3. u \in Seq(Char) /\ v \in Seq(Char)
      BY <1>1
    <3>4. Len(w) = Len(u) + Len(v) /\ Len(u) \in Nat /\ Len(v) \in Nat /\ Len(v) # 0
      BY <3>2, <3>3, ConcatProperties, EmptySeq
    <3>5. Len(u) <= n
      BY <3>4
    <3>6. PICK j \in Nat : u \in Powers(Char, L)[j]
      BY <2>3, <3>5
    <3>7. w \in Join(Char, Powers(Char, L)[j], L)
      BY <3>1, <3>2, <3>6 DEF Join
    <3>8. Join(Char, Powers(Char, L)[j], L) = Powers(Char, L)[j + 1]
      BY <1>4
    <3>9. j + 1 \in Nat
      OBVIOUS
    <3> QED BY <3>7, <3>8, <3>9
  <2> HIDE DEF T
  <2> QED BY <2>2, <2>3, NumberInduction
<1>8. ASSUME NEW w \in K PROVE w \in Repeated(Char, L, Nat)
  <2>1. Len(w) \in Nat /\ Len(w) <= Len(w)
    BY <1>1, LenProperties
  <2>2. \E j \in Nat : w \in Powers(Char, L)[j]
    BY <1>7, <2>1
  <2> QED BY <2>2 DEF Repeated
<1>9. ASSUME NEW w \in Repeated(Char, L, Nat) PROVE w \in K
  BY <1>6 DEF Repeated
<1>10. K = Repeated(Char, L, Nat)
  BY <1>8, <1>9
<1> QED BY <1>10 DEF K, L

(* m as many times as is asked for.                                        *)
LEMMA TimesRun ==
  ASSUME NEW m, Tidy(m), NEW n \in Nat
  PROVE  Words(ConcatenateList(Times(m, n))) = Powers(Char, Words(m))[n]
<1> DEFINE l == Times(m, n)
           P == Powers(Char, Words(m))
<1>1. Times(m, n) = [i \in 1..n |-> m]
  BY DEF Times
<1>2. Len(l) = n /\ l \in Seq(TidyOnes)
  BY TimesTidy
<1>3. DOMAIN l = 1..n /\ \A i \in 1..n : l[i] = m
  BY <1>1
<1>4. P[0] = {<<>>} /\ \A i \in Nat : P[i + 1] = Join(Char, P[i], Words(m))
  <2>1. Words(m) \in SUBSET Seq(Char)
    BY DEF Words
  <2> QED BY <2>1, PowersAre DEF IsPowers
<1> HIDE DEF l, P
<1>5. Chains(P, l)
  <2>1. ASSUME NEW i \in 1..n PROVE P[i] = Join(Char, P[i - 1], Words(l[i]))
    <3>1. i - 1 \in Nat /\ (i - 1) + 1 = i
      OBVIOUS
    <3>2. P[(i - 1) + 1] = Join(Char, P[i - 1], Words(m))
      BY <1>4, <3>1
    <3> QED BY <1>3, <3>1, <3>2
  <2> QED BY <1>2, <1>4, <2>1 DEF Chains
<1>6. Len(l) \in Nat /\ DOMAIN l = 1..Len(l) /\ \A i \in 1..Len(l) : Tidy(l[i])
  BY <1>2, <1>3
<1>7. Words(ConcatenateList(l)) = P[Len(l)]
  BY <1>5, <1>6, ConcatenateListRun
<1> QED BY <1>2, <1>7 DEF l, P

(* repeat with a minimum accepts what is made of at least so many words of *)
(* the automaton (BasicOperations.repeat).                                 *)
THEOREM RepeatMinRun ==
  ASSUME NEW m, Tidy(m), NEW min \in Nat
  PROVE  Words(RepeatMin(m, min)) = Repeated(Char, Words(m), {n \in Nat : n >= min})
<1> DEFINE L == Words(m)
           R == Words(Repeat(m))
<1>1. L \in SUBSET Seq(Char) /\ R = Repeated(Char, L, Nat)
  BY RepeatWords DEF Words, Tidy
<1>2. CASE min = 0
  <2>1. \A n \in Nat : n >= 0
    OBVIOUS
  <2>2. {n \in Nat : n >= min} = Nat
    BY <1>2, <2>1
  <2>3. RepeatMin(m, min) = Repeat(m)
    BY <1>2 DEF RepeatMin
  <2> QED BY <1>1, <2>2, <2>3
<1>3. CASE min # 0
  <2> DEFINE s == Times(m, min)
             l == Append(s, Repeat(m))
             n == min + 1
             P == [i \in 0..n |-> IF i = n THEN Join(Char, Powers(Char, L)[min], R) ELSE Powers(Char, L)[i]]
  <2>1. RepeatMin(m, min) = ConcatenateList(l)
    BY <1>3 DEF RepeatMin
  <2>2. s \in Seq(TidyOnes) /\ Len(s) = min /\ Tidy(Repeat(m)) /\ Repeat(m) \in TidyOnes
    BY TimesTidy, RepeatTidy, AllTidy
  <2>3. \A i \in 1..min : s[i] = m
    BY DEF Times
  <2> HIDE DEF s
  <2>4. Len(l) = n /\ DOMAIN l = 1..n /\ l[n] = Repeat(m) /\ \A i \in 1..min : l[i] = m
    BY <2>2, <2>3
  <2>5. n \in Nat /\ \A i \in 1..n : i = n \/ i \in 1..min
    OBVIOUS
  <2>6. \A i \in 1..n : Tidy(l[i])
    BY <2>2, <2>4, <2>5
  <2>7. /\ Powers(Char, L)[0] = {<<>>}
        /\ \A i \in Nat : Powers(Char, L)[i + 1] = Join(Char, Powers(Char, L)[i], L)
    BY <1>1, PowersAre DEF IsPowers
  <2> HIDE DEF l
  <2>8. Chains(P, l)
    <3>1. P[0] = {<<>>}
      BY <2>7
    <3>2. ASSUME NEW i \in 1..min PROVE P[i] = Join(Char, P[i - 1], Words(l[i]))
      <4>1. /\ i - 1 \in Nat /\ (i - 1) + 1 = i /\ i \in 0..n /\ i # n
            /\ i - 1 \in 0..n /\ i - 1 # n
        OBVIOUS
      <4>2. Powers(Char, L)[(i - 1) + 1] = Join(Char, Powers(Char, L)[i - 1], L)
        BY <2>7, <4>1
      <4>3. P[i] = Powers(Char, L)[i] /\ P[i - 1] = Powers(Char, L)[i - 1]
        BY <4>1
      <4>4. Words(l[i]) = L
        BY <2>4
      <4> QED BY <4>1, <4>2, <4>3, <4>4
    <3>3. P[n] = Join(Char, P[n - 1], Words(l[n]))
      <4>1. n - 1 = min /\ n \in 0..n /\ min \in 0..n /\ min # n
        OBVIOUS
      <4>2. P[n] = Join(Char, Powers(Char, L)[min], R) /\ P[min] = Powers(Char, L)[min]
        BY <4>1
      <4> QED BY <2>4, <4>1, <4>2
    <3> HIDE DEF P
    <3> QED BY <2>4, <2>5, <3>1, <3>2, <3>3 DEF Chains
  <2>9. Words(ConcatenateList(l)) = P[n]
    <3> HIDE DEF P
    <3>1. Len(l) \in Nat /\ DOMAIN l = 1..Len(l) /\ \A i \in 1..Len(l) : Tidy(l[i])
      BY <2>4, <2>5, <2>6
    <3> QED BY <2>4, <2>8, <3>1, ConcatenateListRun
  <2>10. n \in 0..n
    OBVIOUS
  <2>11. P[n] = Join(Char, Powers(Char, L)[min], R)
    BY <2>10
  <2> HIDE DEF P, L, R
  <2>12. ASSUME NEW w PROVE w \in Join(Char, Powers(Char, L)[min], R)
                             <=> w \in Repeated(Char, L, {j \in Nat : j >= min})
    <3>1. ASSUME w \in Join(Char, Powers(Char, L)[min], R)
          PROVE  w \in Repeated(Char, L, {j \in Nat : j >= min})
      <4>1. PICK u \in Powers(Char, L)[min], v \in R : w = u \o v /\ w \in Seq(Char)
        BY <3>1 DEF Join
      <4>2. PICK h \in Nat : v \in Powers(Char, L)[h]
        BY <1>1 DEF Repeated
      <4>3. w \in Join(Char, Powers(Char, L)[min], Powers(Char, L)[h])
        BY <4>1, <4>2 DEF Join
      <4>4. Powers(Char, L)[min + h] = Join(Char, Powers(Char, L)[min], Powers(Char, L)[h])
        BY <1>1, PowersAdd
      <4>5. min + h \in Nat /\ min + h >= min
        OBVIOUS
      <4> QED BY <4>3, <4>4, <4>5 DEF Repeated
    <3>2. ASSUME w \in Repeated(Char, L, {j \in Nat : j >= min})
          PROVE  w \in Join(Char, Powers(Char, L)[min], R)
      <4>1. PICK j \in Nat : j >= min /\ w \in Powers(Char, L)[j]
        BY <3>2 DEF Repeated
      <4> DEFINE h == j - min
      <4>2. h \in Nat /\ min + h = j
        BY <4>1
      <4> HIDE DEF h
      <4>3. Powers(Char, L)[min + h] = Join(Char, Powers(Char, L)[min], Powers(Char, L)[h])
        BY <1>1, <4>2, PowersAdd
      <4>4. w \in Join(Char, Powers(Char, L)[min], Powers(Char, L)[h])
        BY <4>1, <4>2, <4>3
      <4>5. Powers(Char, L)[h] \subseteq R
        BY <1>1, <4>2 DEF Repeated
      <4> QED BY <4>4, <4>5 DEF Join
    <3> QED BY <3>1, <3>2
  <2>13. Join(Char, Powers(Char, L)[min], R) = Repeated(Char, L, {j \in Nat : j >= min})
    <3>1. \A w : w \in Join(Char, Powers(Char, L)[min], R) <=> w \in Repeated(Char, L, {j \in Nat : j >= min})
      BY <2>12
    <3> QED BY <3>1
  <2> QED BY <2>1, <2>9, <2>11, <2>13 DEF L
<1> QED BY <1>2, <1>3

(* repeat with a minimum and a maximum accepts what is made of so many     *)
(* words, and nothing if the maximum is below the minimum                  *)
(* (BasicOperations.repeat).                                               *)
THEOREM RepeatMinMaxRun ==
  ASSUME NEW m, Tidy(m), NEW min \in Nat, NEW max \in Nat
  PROVE  Words(RepeatMinMax(m, min, max)) = Repeated(Char, Words(m), min..max)
<1> DEFINE e == ExpandSingleton(m)
           first == CASE min = 0 -> MakeEmptyString
                      [] min = 1 -> e
                      [] OTHER -> ConcatenateList(Times(e, min))
           n == max - min - 1
           o == Optionally(e, n)
           f == FollowOrStop(first, o)
           det == FALSE
           L == Words(m)
<1>1. CASE min > max
  <2>1. min..max = {}
    BY <1>1
  <2>2. RepeatMinMax(m, min, max) = MakeEmpty
    BY <1>1 DEF RepeatMinMax
  <2>3. Words(MakeEmpty) = {}
    BY MakeEmptyRun DEF Words
  <2> QED BY <2>1, <2>2, <2>3 DEF Repeated
<1>2. CASE ~ (min > max)
  <2>1. RepeatMinMax(m, min, max) = IF min = max THEN first ELSE [f EXCEPT !.det = det]
    BY <1>2 DEF RepeatMinMax
  <2>2. Tidy(e) /\ Words(e) = L /\ L \in SUBSET Seq(Char)
    BY Expanded, SpellOut DEF Tidy, Words
  <2> HIDE DEF e, L
  <2>3. Tidy(first) /\ Words(first) = Powers(Char, L)[min]
    <3>1. CASE min = 0
      <4>1. first = MakeEmptyString
        BY <3>1
      <4>2. Sound(MakeEmptyString) /\ IsEmptyString(MakeEmptyString) /\ Tidy(MakeEmptyString)
        BY EmptyIsTidy DEF Tidy, MakeEmptyString, Singleton, IsEmptyString, IsSingleton
      <4>3. \A w \in Seq(Char) : Run(MakeEmptyString, w) <=> w = <<>>
        BY <4>2, EmptyStringRun
      <4>4. \A w : w \in Words(MakeEmptyString) <=> w \in Seq(Char) /\ Run(MakeEmptyString, w)
        BY DEF Words
      <4>5. <<>> \in Seq(Char)
        OBVIOUS
      <4>6. \A w : w \in Words(MakeEmptyString) <=> w = <<>>
        BY <4>3, <4>4, <4>5
      <4>7. Words(MakeEmptyString) = {<<>>}
        BY <4>6
      <4>8. Powers(Char, L)[0] = {<<>>}
        BY <2>2, PowersAre DEF IsPowers
      <4> QED BY <3>1, <4>1, <4>2, <4>7, <4>8
    <3>2. CASE min = 1
      <4>1. first = e
        BY <3>2
      <4> QED BY <2>2, <3>2, <4>1, FirstPower
    <3>3. CASE min # 0 /\ min # 1
      <4>1. first = ConcatenateList(Times(e, min))
        BY <3>3
      <4>2. Words(ConcatenateList(Times(e, min))) = Powers(Char, Words(e))[min]
        BY <2>2, TimesRun
      <4> QED BY <2>2, <4>1, <4>2, TimesTidy
    <3> QED BY <3>1, <3>2, <3>3
  <2> HIDE DEF first
  <2>4. CASE min = max
    <3>1. min..max = {min}
      BY <2>4
    <3>2. Repeated(Char, L, {min}) = Powers(Char, L)[min]
      BY DEF Repeated
    <3> QED BY <2>1, <2>3, <2>4, <3>1, <3>2 DEF L
  <2>5. CASE min # max
    <3>1. n \in Nat /\ min + (n + 1) = max
      BY <1>2, <2>5
    <3> HIDE DEF n
    <3>2. Tidy(o) /\ Words(o) = Repeated(Char, L, 1..n + 1)
      BY <2>2, <3>1, OptionallyTidy, OptionallyRun
    <3> HIDE DEF o
    <3>3. /\ Words(f) = Words(first) \cup Join(Char, Words(first), Words(o))
          /\ IsAutomaton(f, Nat) /\ ~ IsSingleton(f)
      BY <2>3, <3>2, FollowWords, Follows DEF Tidy
    <3> HIDE DEF f, det
    <3> DEFINE g == [f EXCEPT !.det = det]
    <3>4. \A w \in Seq(Char) : Run(g, w) <=> Run(f, w)
      BY <3>3, FlagRun
    <3>5. RepeatMinMax(m, min, max) = g
      BY <2>1, <2>5
    <3> HIDE DEF g
    <3>6. \A w : w \in Words(g) <=> w \in Words(f)
      BY <3>4 DEF Words
    <3>7. ASSUME NEW w \in Words(f) PROVE w \in Repeated(Char, L, min..max)
      <4>1. CASE w \in Powers(Char, L)[min]
        <5>1. min \in min..max
          BY <3>1
        <5> QED BY <4>1, <5>1 DEF Repeated
      <4>2. CASE w \notin Powers(Char, L)[min]
        <5>1. w \in Join(Char, Powers(Char, L)[min], Words(o))
          BY <2>3, <3>3, <3>7, <4>2
        <5>2. PICK u \in Powers(Char, L)[min], v \in Words(o) : w = u \o v
          BY <5>1 DEF Join
        <5>3. PICK h \in 1..n + 1 : v \in Powers(Char, L)[h]
          BY <3>2 DEF Repeated
        <5>4. w \in Join(Char, Powers(Char, L)[min], Powers(Char, L)[h])
          BY <5>1, <5>2, <5>3 DEF Join
        <5>5. h \in Nat /\ min + h \in min..max
          BY <3>1
        <5>6. Powers(Char, L)[min + h] = Join(Char, Powers(Char, L)[min], Powers(Char, L)[h])
          BY <2>2, <5>5, PowersAdd
        <5> QED BY <5>4, <5>5, <5>6 DEF Repeated
      <4> QED BY <4>1, <4>2
    <3>8. ASSUME NEW w \in Repeated(Char, L, min..max) PROVE w \in Words(f)
      <4>1. PICK j \in min..max : w \in Powers(Char, L)[j]
        BY DEF Repeated
      <4>2. CASE j = min
        BY <2>3, <3>3, <4>1, <4>2
      <4>3. CASE j # min
        <5> DEFINE h == j - min
        <5>1. h \in Nat /\ h \in 1..n + 1 /\ min + h = j
          BY <3>1, <4>3
        <5> HIDE DEF h
        <5>2. Powers(Char, L)[min + h] = Join(Char, Powers(Char, L)[min], Powers(Char, L)[h])
          BY <2>2, <5>1, PowersAdd
        <5>3. w \in Join(Char, Powers(Char, L)[min], Powers(Char, L)[h])
          BY <4>1, <5>1, <5>2
        <5>4. Powers(Char, L)[h] \subseteq Words(o)
          BY <3>2, <5>1 DEF Repeated
        <5>5. w \in Join(Char, Powers(Char, L)[min], Words(o))
          BY <5>3, <5>4 DEF Join
        <5> QED BY <2>3, <3>3, <5>5
      <4> QED BY <4>2, <4>3
    <3>9. \A w : w \in Words(g) <=> w \in Repeated(Char, L, min..max)
      BY <3>6, <3>7, <3>8
    <3>10. Words(g) = Repeated(Char, L, min..max)
      BY <3>9
    <3> QED BY <3>5, <3>10 DEF L
  <2> QED BY <2>4, <2>5
<1> QED BY <1>1, <1>2

(* The words up to MaxLength.                                              *)
LEMMA ShortWords ==
  \A w : w \in Word <=> w \in Seq(Char) /\ Len(w) <= MaxLength
<1>1. MaxLength \in Nat
  BY OperationsAssumption
<1>2. ASSUME NEW w \in Word PROVE w \in Seq(Char) /\ Len(w) <= MaxLength
  <2>1. PICK n \in 0..MaxLength : w \in [1..n -> Char]
    BY DEF Word
  <2>2. n \in Nat /\ n <= MaxLength
    BY <1>1
  <2> QED BY <2>1, <2>2
<1>3. ASSUME NEW w \in Seq(Char), Len(w) <= MaxLength PROVE w \in Word
  <2>1. Len(w) \in 0..MaxLength /\ w \in [1..Len(w) -> Char]
    BY <1>1, <1>3
  <2> QED BY <2>1 DEF Word
<1> QED BY <1>2, <1>3

(* The empty word is among the bounded words.                              *)
LEMMA NoLetters == <<>> \in Word
<1>1. 0 \in 0..MaxLength /\ <<>> \in [1..0 -> Char]
  BY OperationsAssumption
<1> QED BY <1>1 DEF Word

(* What Operations calls accepted are the words of bounded length.         *)
LEMMA AcceptedIs ==
  ASSUME NEW m
  PROVE  Accepted(m) = Words(m) \cap Word
<1>1. \A w : w \in Accepted(m) <=> w \in Words(m) /\ w \in Word
  BY ShortWords DEF Accepted, Words
<1> QED BY <1>1

(* The parts of a short word are short: Cat is Join on them.               *)
LEMMA CatIs ==
  ASSUME NEW L \in SUBSET Seq(Char), NEW K \in SUBSET Seq(Char)
  PROVE  Cat(L \cap Word, K \cap Word) = Join(Char, L, K) \cap Word
<1>1. MaxLength \in Nat
  BY OperationsAssumption
<1>2. ASSUME NEW w \in Cat(L \cap Word, K \cap Word) PROVE w \in Join(Char, L, K) \cap Word
  <2>1. w \in Word /\ w \in Seq(Char)
    BY ShortWords DEF Cat
  <2>2. PICK n \in 0..Len(w) : /\ SubSeq(w, 1, n) \in L \cap Word
                               /\ SubSeq(w, n + 1, Len(w)) \in K \cap Word
    BY DEF Cat
  <2>3. Len(w) \in Nat /\ n \in Nat /\ n <= Len(w)
    BY <2>1, LenProperties
  <2>4. SubSeq(w, 1, n) \o SubSeq(w, n + 1, Len(w)) = SubSeq(w, 1, Len(w))
    <3> DEFINE h == Len(w)
    <3>1. 1 \in 1..h + 1 /\ n \in 1 - 1..h /\ h \in n..h
      BY <2>3
    <3> QED BY <2>1, <3>1, ConcatAdjacentSubSeq
  <2>5. SubSeq(w, 1, Len(w)) = w
    BY <2>1, SubSeqFull
  <2> QED BY <2>1, <2>2, <2>4, <2>5 DEF Join
<1>3. ASSUME NEW w \in Join(Char, L, K) \cap Word PROVE w \in Cat(L \cap Word, K \cap Word)
  <2>1. PICK u \in L, v \in K : w = u \o v
    BY DEF Join
  <2>2. u \in Seq(Char) /\ v \in Seq(Char) /\ w \in Word
    OBVIOUS
  <2> DEFINE m == Len(u)
             n == Len(v)
  <2>3. m \in Nat /\ n \in Nat /\ Len(w) = m + n
    BY <2>1, <2>2, ConcatProperties
  <2>4. m + n <= MaxLength
    BY <2>2, <2>3, ShortWords
  <2>5. SubSeq(w, 1, m) = u
    <3>1. SubSeq(u \o v, 1, m) = SubSeq(u, 1, m)
      BY <2>2, <2>3, SubSeqOfConcat1
    <3>2. SubSeq(u, 1, m) = u
      BY <2>2, SubSeqFull
    <3> QED BY <2>1, <3>1, <3>2
  <2>6. SubSeq(w, m + 1, m + n) = v
    <3>1. SubSeq(u \o v, m + 1, m + n) = SubSeq(v, (m + 1) - m, (m + n) - m)
      BY <2>2, <2>3, SubSeqOfConcat2
    <3>2. (m + 1) - m = 1 /\ (m + n) - m = n
      BY <2>3
    <3>3. SubSeq(v, 1, n) = v
      BY <2>2, SubSeqFull
    <3> QED BY <2>1, <3>1, <3>2, <3>3
  <2>7. u \in Word /\ v \in Word
    <3>1. m <= MaxLength /\ n <= MaxLength
      BY <1>1, <2>3, <2>4
    <3> QED BY <2>2, <3>1, ShortWords
  <2>8. m \in 0..Len(w)
    BY <2>3
  <2> HIDE DEF m, n
  <2> QED BY <2>1, <2>2, <2>3, <2>5, <2>6, <2>7, <2>8 DEF Cat
<1> QED BY <1>2, <1>3

(* Power, one factor after the other.                                      *)
LEMMA PowerInTurn ==
  ASSUME NEW L, NEW n \in Nat
  PROVE  \E h : /\ h[0] = {<<>>}
                /\ \A i \in 1..n : h[i] = Cat(h[i - 1], L)
                /\ Power(L, n) = h[n]
<1> DEFINE V == SUBSET Word
           z == {<<>>}
           l == Times(L, n)
           next == [i \in 1..n |-> [K \in V |-> Cat(K, L)]]
<1>1. DOMAIN l = 1..n /\ \A i \in 1..n : l[i] = L
  BY DEF Times
<1>2. z \in V /\ \A K : Cat(K, L) \in V
  <2>1. <<>> \in Word
    BY NoLetters
  <2> QED BY <2>1 DEF Cat
<1> HIDE DEF V, z, l
<1>3. next \in [1..n -> [V -> V]] /\ \A i \in 1..n, K \in V : next[i][K] = Cat(K, L)
  BY <1>2
<1> HIDE DEF next
<1>4. \E iter : iter = [s \in SUBSET (DOMAIN l) |->
                      IF s = {} THEN z ELSE Cat(iter[s \ {Max(s)}], l[Max(s)])]
  <2>1. PICK iter \in [SUBSET (1..n) -> V] : FoldsUp(iter, n, z, next)
    BY <1>2, <1>3, FoldExists
  <2>2. ASSUME NEW s \in SUBSET (1..n), s # {}
        PROVE  next[Max(s)][iter[s \ {Max(s)}]] = Cat(iter[s \ {Max(s)}], l[Max(s)])
    <3>1. Max(s) \in 1..n
      BY <2>2, GreatestIndex
    <3>2. s \ {Max(s)} \in SUBSET (1..n)
      OBVIOUS
    <3>3. iter[s \ {Max(s)}] \in V
      BY <3>2
    <3>4. l[Max(s)] = L
      BY <1>1, <3>1
    <3> QED BY <1>3, <3>1, <3>3, <3>4
  <2>3. iter = [s \in SUBSET (1..n) |-> IF s = {} THEN z ELSE next[Max(s)][iter[s \ {Max(s)}]]]
    BY <2>1 DEF FoldsUp
  <2>4. iter = [s \in SUBSET (1..n) |->
                  IF s = {} THEN z ELSE Cat(iter[s \ {Max(s)}], l[Max(s)])]
    BY <2>2, <2>3
  <2> QED BY <1>1, <2>4
<1> DEFINE iter0 == CHOOSE iter : iter = [s \in SUBSET (DOMAIN l) |->
                      IF s = {} THEN z ELSE Cat(iter[s \ {Max(s)}], l[Max(s)])]
<1>5. iter0 = [s \in SUBSET (DOMAIN l) |->
                 IF s = {} THEN z ELSE Cat(iter0[s \ {Max(s)}], l[Max(s)])]
  BY <1>4
<1>6. Power(L, n) = iter0[DOMAIN l]
  BY DEF Power, FoldLeft, MapThenFoldSet, l, z
<1> HIDE DEF iter0
<1> DEFINE h == [i \in 0..n |-> iter0[1..i]]
<1>7. h[0] = z
  <2>1. {} \in SUBSET (DOMAIN l) /\ 1..0 = {}
    OBVIOUS
  <2>2. iter0[{}] = z
    BY <1>5, <2>1
  <2> QED BY <2>1, <2>2
<1>8. ASSUME NEW i \in 1..n PROVE h[i] = Cat(h[i - 1], L)
  <2>1. i \in Nat /\ i # 0 /\ i \in 0..n /\ i - 1 \in 0..n
    OBVIOUS
  <2>2. Max(1..i) = i /\ (1..i) \ {i} = 1..i - 1
    BY <2>1, GreatestUpto
  <2>3. 1..i \in SUBSET (DOMAIN l) /\ 1..i # {}
    <3>1. n \in Nat /\ i <= n
      OBVIOUS
    <3>2. 1..i \subseteq 1..n /\ 1 \in 1..i
      BY <2>1, <3>1
    <3> QED BY <1>1, <3>2
  <2>4. iter0[1..i] = Cat(iter0[(1..i) \ {Max(1..i)}], l[Max(1..i)])
    BY <1>5, <2>3
  <2>5. iter0[1..i] = Cat(iter0[1..i - 1], L)
    BY <1>1, <2>2, <2>4
  <2> QED BY <2>1, <2>5
<1>9. Power(L, n) = h[n]
  BY <1>1, <1>6
<1> HIDE DEF h
<1> QED BY <1>7, <1>8, <1>9 DEF z

(* The powers of the bounded words are the bounded words of the powers.    *)
LEMMA PowerIs ==
  ASSUME NEW L \in SUBSET Seq(Char), NEW n \in Nat
  PROVE  Power(L \cap Word, n) = Powers(Char, L)[n] \cap Word
<1> DEFINE K == L \cap Word
<1>1. PICK h : /\ h[0] = {<<>>}
               /\ \A i \in 1..n : h[i] = Cat(h[i - 1], K)
               /\ Power(K, n) = h[n]
  BY PowerInTurn
<1>2. /\ Powers(Char, L) \in [Nat -> SUBSET Seq(Char)] /\ Powers(Char, L)[0] = {<<>>}
      /\ \A i \in Nat : Powers(Char, L)[i + 1] = Join(Char, Powers(Char, L)[i], L)
  BY PowersAre DEF IsPowers
<1> DEFINE T == {i \in 0..n : h[i] = Powers(Char, L)[i] \cap Word}
<1>3. 0 \in T
  <2>1. <<>> \in Word
    BY NoLetters
  <2>2. {<<>>} = {<<>>} \cap Word
    BY <2>1
  <2> QED BY <1>1, <1>2, <2>2
<1>4. ASSUME NEW i \in 0..n - 1, i \in T PROVE i + 1 \in T
  <2>1. i + 1 \in 1..n /\ i + 1 \in 0..n /\ (i + 1) - 1 = i /\ i \in Nat
    OBVIOUS
  <2>2. h[i + 1] = Cat(h[i], K) /\ h[i] = Powers(Char, L)[i] \cap Word
    BY <1>1, <1>4, <2>1
  <2> DEFINE M == Powers(Char, L)[i]
  <2>3. M \in SUBSET Seq(Char) /\ Powers(Char, L)[i + 1] = Join(Char, M, L)
    BY <1>2, <2>1
  <2> HIDE DEF M
  <2>4. Cat(M \cap Word, L \cap Word) = Join(Char, M, L) \cap Word
    BY <2>3, CatIs
  <2> QED BY <2>1, <2>2, <2>3, <2>4 DEF M
<1>5. n \in T
  <2> HIDE DEF T
  <2>1. 0..n \subseteq T
    BY <1>3, <1>4, IntervalInduction
  <2> QED BY <2>1
<1> QED BY <1>1, <1>5

(* Between, from and up to any number of times.                            *)
LEMMA BetweenIs ==
  ASSUME NEW L \in SUBSET Seq(Char), NEW min \in Nat, NEW max \in Nat
  PROVE  Between(L \cap Word, min, max) = Repeated(Char, L, min..max) \cap Word
<1>1. \A j \in min..max : j \in Nat
  OBVIOUS
<1>2. \A j \in min..max : Power(L \cap Word, j) = Powers(Char, L)[j] \cap Word
  BY <1>1, PowerIs
<1>3. \A w : w \in Between(L \cap Word, min, max)
               <=> \E j \in min..max : w \in Power(L \cap Word, j)
  BY DEF Between
<1>4. \A w : w \in Repeated(Char, L, min..max) <=> \E j \in min..max : w \in Powers(Char, L)[j]
  BY DEF Repeated
<1>5. \A w : w \in Between(L \cap Word, min, max) <=> w \in Repeated(Char, L, min..max) /\ w \in Word
  BY <1>2, <1>3, <1>4
<1> QED BY <1>5

(* More than MaxLength words that are not empty are too many.              *)
LEMMA BetweenIsEnough ==
  ASSUME NEW L \in SUBSET Seq(Char), NEW min \in Nat
  PROVE  Between(L \cap Word, min, min + MaxLength)
           = Repeated(Char, L, {n \in Nat : n >= min}) \cap Word
<1>1. MaxLength \in Nat /\ min + MaxLength \in Nat
  BY OperationsAssumption
<1> DEFINE max == min + MaxLength
<1>2. ASSUME NEW w \in Repeated(Char, L, min..max) PROVE w \in Repeated(Char, L, {n \in Nat : n >= min})
  <2>1. PICK j \in min..max : w \in Powers(Char, L)[j]
    BY DEF Repeated
  <2>2. j \in {n \in Nat : n >= min}
    BY <1>1
  <2> HIDE DEF max
  <2> QED BY <2>1, <2>2 DEF Repeated
<1>3. ASSUME NEW w \in Repeated(Char, L, {n \in Nat : n >= min}), w \in Word
      PROVE  w \in Repeated(Char, L, min..max)
  <2>1. PICK n \in Nat : n >= min /\ w \in Powers(Char, L)[n]
    BY DEF Repeated
  <2> DEFINE h == n - min
  <2>2. h \in Nat /\ min + h = n
    BY <2>1
  <2> HIDE DEF h
  <2>3. Powers(Char, L)[min + h] = Join(Char, Powers(Char, L)[min], Powers(Char, L)[h])
    BY <2>2, PowersAdd
  <2>4. PICK u \in Powers(Char, L)[min], v \in Powers(Char, L)[h] : w = u \o v
    BY <2>1, <2>2, <2>3 DEF Join
  <2>5. PICK g \in 0..Len(v) : v \in Powers(Char, L)[g]
    BY <2>2, FewPieces
  <2>6. u \in Seq(Char) /\ v \in Seq(Char)
    BY <2>2, <2>4, InPowers
  <2>7. Len(w) = Len(u) + Len(v) /\ Len(u) \in Nat /\ Len(v) \in Nat
    BY <2>4, <2>6, ConcatProperties
  <2>8. w \in Seq(Char) /\ Len(w) <= MaxLength
    BY <1>3, ShortWords
  <2>9. g \in Nat /\ min + g \in min..max
    BY <1>1, <2>7, <2>8
  <2>10. Powers(Char, L)[min + g] = Join(Char, Powers(Char, L)[min], Powers(Char, L)[g])
    BY <2>9, PowersAdd
  <2>11. w \in Powers(Char, L)[min + g]
    BY <2>4, <2>5, <2>8, <2>10 DEF Join
  <2> HIDE DEF max
  <2> QED BY <2>9, <2>11 DEF Repeated
<1>4. Between(L \cap Word, min, max) = Repeated(Char, L, min..max) \cap Word
  <2>1. max \in Nat
    BY <1>1
  <2> HIDE DEF max
  <2> QED BY <2>1, BetweenIs
<1> DEFINE A == Repeated(Char, L, min..max)
           C == Repeated(Char, L, {n \in Nat : n >= min})
<1>5. A \cap Word = C \cap Word
  <2>1. \A w : w \in A => w \in C
    BY <1>2
  <2>2. \A w : w \in C /\ w \in Word => w \in A
    BY <1>3
  <2> HIDE DEF A, C
  <2> QED BY <2>1, <2>2
<1> HIDE DEF A, C
<1>6. Between(L \cap Word, min, max) = C \cap Word
  BY <1>4, <1>5 DEF A
<1> QED BY <1>6 DEF C

(* What the theorems above say of the words up to MaxLength.               *)
LEMMA AcceptedAfterCall ==
  ASSUME NEW m, Tidy(m), NEW o, Tidy(o)
  PROVE  /\ Accepted(Concatenate(m, o)) = Cat(Accepted(m), Accepted(o))
         /\ Accepted(Union2(m, o)) = Accepted(m) \cup Accepted(o)
         /\ Accepted(Intersection(m, o)) = Accepted(m) \cap Accepted(o)
         /\ Accepted(Minus(m, o)) = Accepted(m) \ Accepted(o)
         /\ Accepted(Complement(m)) = Word \ Accepted(m)
         /\ Accepted(Determinize(m)) = Accepted(m)
         /\ Accepted(Optional(m)) = Accepted(m) \cup {<<>>}
<1>1. Sound(m) /\ Sound(o)
  BY DEF Tidy
<1>2. \A x, w : w \in Accepted(x) <=> w \in Word /\ Run(x, w)
  BY DEF Accepted
<1>3. \A w \in Word : w \in Seq(Char)
  BY ShortWords
<1>4. Accepted(Concatenate(m, o)) = Cat(Accepted(m), Accepted(o))
  <2>1. Words(m) \in SUBSET Seq(Char) /\ Words(o) \in SUBSET Seq(Char)
    BY DEF Words
  <2>2. Words(Concatenate(m, o)) = Join(Char, Words(m), Words(o))
    BY ConcatenateRun
  <2>3. Cat(Words(m) \cap Word, Words(o) \cap Word) = Join(Char, Words(m), Words(o)) \cap Word
    BY <2>1, CatIs
  <2> QED BY <2>2, <2>3, AcceptedIs
<1>5. Accepted(Union2(m, o)) = Accepted(m) \cup Accepted(o)
  <2>1. \A w \in Seq(Char) : Run(Union2(m, o), w) <=> Run(m, w) \/ Run(o, w)
    BY <1>1, Union2Run
  <2>2. \A w : w \in Accepted(Union2(m, o)) <=> w \in Accepted(m) \/ w \in Accepted(o)
    BY <1>2, <1>3, <2>1
  <2> QED BY <2>2
<1>6. Accepted(Intersection(m, o)) = Accepted(m) \cap Accepted(o)
  <2>1. \A w \in Seq(Char) : Run(Intersection(m, o), w) <=> Run(m, w) /\ Run(o, w)
    BY <1>1, IntersectionRun
  <2>2. \A w : w \in Accepted(Intersection(m, o)) <=> w \in Accepted(m) /\ w \in Accepted(o)
    BY <1>2, <1>3, <2>1
  <2> QED BY <2>2
<1>7. Accepted(Minus(m, o)) = Accepted(m) \ Accepted(o)
  <2>1. \A w \in Seq(Char) : Run(Minus(m, o), w) <=> Run(m, w) /\ ~ Run(o, w)
    BY <1>1, MinusRun
  <2>2. \A w : w \in Accepted(Minus(m, o)) <=> w \in Accepted(m) /\ w \notin Accepted(o)
    BY <1>2, <1>3, <2>1
  <2> QED BY <2>2
<1>8. Accepted(Complement(m)) = Word \ Accepted(m)
  <2>1. \A w \in Seq(Char) : Run(Complement(m), w) <=> ~ Run(m, w)
    BY <1>1, ComplementRun
  <2>2. \A w : w \in Accepted(Complement(m)) <=> w \in Word /\ w \notin Accepted(m)
    BY <1>2, <1>3, <2>1
  <2> QED BY <2>2
<1>9. Accepted(Determinize(m)) = Accepted(m)
  <2>1. \A w \in Seq(Char) : Run(Determinize(m), w) <=> Run(m, w)
    BY <1>1, DeterminizeRun
  <2>2. \A w : w \in Accepted(Determinize(m)) <=> w \in Accepted(m)
    BY <1>2, <1>3, <2>1
  <2> QED BY <2>2
<1>10. Accepted(Optional(m)) = Accepted(m) \cup {<<>>}
  <2>1. \A w \in Seq(Char) : Run(Optional(m), w) <=> w = <<>> \/ Run(m, w)
    BY <1>1, OptionalRun
  <2>2. \A w : w \in Accepted(Optional(m)) <=> w \in Accepted(m) \/ w = <<>>
    BY <1>2, <1>3, <2>1, NoLetters
  <2> QED BY <2>2
<1> QED BY <1>4, <1>5, <1>6, <1>7, <1>8, <1>9, <1>10

(* union of two automata, and the two bounded forms of repeat, on the      *)
(* words of bounded length.                                                *)
LEMMA AcceptedAfterUnion ==
  ASSUME NEW m, Tidy(m), NEW o, Tidy(o)
  PROVE  Accepted(UnionList(<<m, o>>)) = Accepted(m) \cup Accepted(o)
<1> DEFINE l == <<m, o>>
<1>1. /\ DOMAIN l = 1..2 /\ l[1] = m /\ l[2] = o /\ 1..2 \subseteq Nat \ {0}
      /\ 1..2 = {1, 2}
  OBVIOUS
<1>2. IsFiniteSet(1..2)
  <2>1. 1 \in Int /\ 2 \in Int
    OBVIOUS
  <2> QED BY <2>1, FS_Interval
<1>3. Sound(m) /\ Sound(o)
  BY DEF Tidy
<1> HIDE DEF l
<1>4. \A i \in DOMAIN l : Sound(l[i])
  BY <1>1, <1>3
<1>5. IsFiniteSet(DOMAIN l) /\ DOMAIN l \subseteq Nat \ {0}
  BY <1>1, <1>2
<1>6. \A w \in Seq(Char) : Run(UnionList(l), w) <=> \E i \in DOMAIN l : Run(l[i], w)
  BY <1>4, <1>5, UnionListRun
<1>7. \A w \in Seq(Char) : Run(UnionList(l), w) <=> Run(m, w) \/ Run(o, w)
  BY <1>1, <1>6
<1>8. \A x, w : w \in Accepted(x) <=> w \in Word /\ Run(x, w)
  BY DEF Accepted
<1>9. \A w \in Word : w \in Seq(Char)
  BY ShortWords
<1>10. \A w : w \in Accepted(UnionList(l)) <=> w \in Accepted(m) \/ w \in Accepted(o)
  BY <1>7, <1>8, <1>9
<1>11. Accepted(UnionList(l)) = Accepted(m) \cup Accepted(o)
  BY <1>10
<1> QED BY <1>11 DEF l

LEMMA AcceptedAfterRepeat ==
  ASSUME NEW m, Tidy(m), NEW min \in Nat, NEW max \in Nat
  PROVE  /\ Accepted(RepeatMin(m, min)) = Between(Accepted(m), min, min + MaxLength)
         /\ Accepted(RepeatMinMax(m, min, max)) = Between(Accepted(m), min, max)
<1>1. Words(m) \in SUBSET Seq(Char)
  BY DEF Words
<1>2. Words(RepeatMin(m, min)) = Repeated(Char, Words(m), {n \in Nat : n >= min})
  BY RepeatMinRun
<1>3. Words(RepeatMinMax(m, min, max)) = Repeated(Char, Words(m), min..max)
  BY RepeatMinMaxRun
<1>4. Between(Words(m) \cap Word, min, min + MaxLength)
        = Repeated(Char, Words(m), {n \in Nat : n >= min}) \cap Word
  BY <1>1, BetweenIsEnough
<1>5. Between(Words(m) \cap Word, min, max) = Repeated(Char, Words(m), min..max) \cap Word
  BY <1>1, BetweenIs
<1> QED BY <1>2, <1>3, <1>4, <1>5, AcceptedIs

(* The inductive invariant: both automata are tidy, and so is the record   *)
(* of what they should accept.                                             *)
LanguagesKept ==
  RegistersTidy /\ lang \in [1..2 -> SUBSET Word] /\ LanguageExact

(* At first each register is an automaton of Base, with what it accepts.   *)
LEMMA KeptAtFirst == CallsInit => LanguagesKept
<1> SUFFICES ASSUME CallsInit PROVE LanguagesKept
  OBVIOUS
<1>1. PICK a1 \in Base, a2 \in Base :
        reg = <<a1, a2>> /\ lang = <<Accepted(a1), Accepted(a2)>>
  BY DEF CallsInit
<1>2. \A m : Accepted(m) \in SUBSET Word
  BY DEF Accepted
<1>3. /\ 1..2 = {1, 2} /\ reg[1] = a1 /\ reg[2] = a2
      /\ lang[1] = Accepted(a1) /\ lang[2] = Accepted(a2)
  BY <1>1
<1>4. lang \in [1..2 -> SUBSET Word]
  BY <1>1, <1>2
<1>5. LanguageExact
  BY <1>3 DEF LanguageExact
<1> QED BY <1>4, <1>5, TidyAtFirst DEF LanguagesKept

(* A call that returns the language it announces keeps all languages       *)
(* exact.                                                                  *)
LEMMA CallKeepsLanguages ==
  ASSUME LanguagesKept, NEW i \in 1..2, NEW m, NEW L, Accepted(m) = L, Call(i, m, L)
  PROVE  LanguageExact' /\ (lang \in [1..2 -> SUBSET Word])'
<1>1. reg' = [reg EXCEPT ![i] = m] /\ lang' = [lang EXCEPT ![i] = L]
  BY DEF Call
<1>2. DOMAIN reg = 1..2 /\ lang \in [1..2 -> SUBSET Word]
  BY DEF LanguagesKept, RegistersTidy
<1>3. L \in SUBSET Word
  BY DEF Accepted
<1>4. lang' \in [1..2 -> SUBSET Word]
  BY <1>1, <1>2, <1>3
<1>5. ASSUME NEW j \in 1..2 PROVE Accepted(reg'[j]) = lang'[j]
  <2>1. CASE j = i
    BY <1>1, <1>2, <2>1
  <2>2. CASE j # i
    <3>1. reg'[j] = reg[j] /\ lang'[j] = lang[j]
      BY <1>1, <1>2, <2>2
    <3> QED BY <3>1 DEF LanguagesKept, LanguageExact
  <2> QED BY <2>1, <2>2
<1>6. LanguageExact'
  BY <1>5 DEF LanguageExact, Accepted
<1> QED BY <1>4, <1>6

(* Every call does.                                                        *)
LEMMA LanguagesStay == LanguagesKept /\ [CallsNext]_callsVars => LanguagesKept'
<1> SUFFICES ASSUME LanguagesKept, [CallsNext]_callsVars
             PROVE  LanguageExact' /\ (lang \in [1..2 -> SUBSET Word])'
  BY TidyKept DEF LanguagesKept
<1>1. \A i \in 1..2 : /\ Tidy(reg[i]) /\ Tidy(reg[3 - i])
                      /\ lang[i] = Accepted(reg[i]) /\ lang[3 - i] = Accepted(reg[3 - i])
  <2>1. \A i \in 1..2 : 3 - i \in 1..2
    OBVIOUS
  <2>2. \A i \in 1..2 : Tidy(reg[i]) /\ lang[i] = Accepted(reg[i])
    BY AllTidy DEF LanguagesKept, RegistersTidy, LanguageExact
  <2> QED BY <2>1, <2>2
<1>2. CASE DoConcatenate
  <2>1. PICK i \in 1..2 : Call(i, Concatenate(reg[i], reg[3 - i]), Cat(lang[i], lang[3 - i]))
    BY <1>2 DEF DoConcatenate
  <2>2. Accepted(Concatenate(reg[i], reg[3 - i])) = Cat(lang[i], lang[3 - i])
    BY <1>1, AcceptedAfterCall
  <2> QED BY <2>1, <2>2, CallKeepsLanguages
<1>3. CASE DoUnion
  <2>1. PICK i \in 1..2 : Call(i, Union2(reg[i], reg[3 - i]), lang[i] \cup lang[3 - i])
    BY <1>3 DEF DoUnion
  <2>2. Accepted(Union2(reg[i], reg[3 - i])) = lang[i] \cup lang[3 - i]
    BY <1>1, AcceptedAfterCall
  <2> QED BY <2>1, <2>2, CallKeepsLanguages
<1>4. CASE DoUnionList
  <2>1. PICK i \in 1..2 : Call(i, UnionList(<<reg[i], reg[3 - i]>>), lang[i] \cup lang[3 - i])
    BY <1>4 DEF DoUnionList
  <2>2. Accepted(UnionList(<<reg[i], reg[3 - i]>>)) = lang[i] \cup lang[3 - i]
    BY <1>1, AcceptedAfterUnion
  <2> QED BY <2>1, <2>2, CallKeepsLanguages
<1>5. CASE DoIntersection
  <2>1. PICK i \in 1..2 : Call(i, Intersection(reg[i], reg[3 - i]), lang[i] \cap lang[3 - i])
    BY <1>5 DEF DoIntersection
  <2>2. Accepted(Intersection(reg[i], reg[3 - i])) = lang[i] \cap lang[3 - i]
    BY <1>1, AcceptedAfterCall
  <2> QED BY <2>1, <2>2, CallKeepsLanguages
<1>6. CASE DoMinus
  <2>1. PICK i \in 1..2 : Call(i, Minus(reg[i], reg[3 - i]), lang[i] \ lang[3 - i])
    BY <1>6 DEF DoMinus
  <2>2. Accepted(Minus(reg[i], reg[3 - i])) = lang[i] \ lang[3 - i]
    BY <1>1, AcceptedAfterCall
  <2> QED BY <2>1, <2>2, CallKeepsLanguages
<1>7. CASE DoComplement
  <2>1. PICK i \in 1..2 : Call(i, Complement(reg[i]), Word \ lang[i])
    BY <1>7 DEF DoComplement
  <2>2. Accepted(Complement(reg[i])) = Word \ lang[i]
    BY <1>1, AcceptedAfterCall
  <2> QED BY <2>1, <2>2, CallKeepsLanguages
<1>8. CASE DoDeterminize
  <2>1. PICK i \in 1..2 : Call(i, Determinize(reg[i]), lang[i])
    BY <1>8 DEF DoDeterminize
  <2>2. Accepted(Determinize(reg[i])) = lang[i]
    BY <1>1, AcceptedAfterCall
  <2> QED BY <2>1, <2>2, CallKeepsLanguages
<1>9. CASE DoOptional
  <2>1. PICK i \in 1..2 : Call(i, Optional(reg[i]), lang[i] \cup {<<>>})
    BY <1>9 DEF DoOptional
  <2>2. Accepted(Optional(reg[i])) = lang[i] \cup {<<>>}
    BY <1>1, AcceptedAfterCall
  <2> QED BY <2>1, <2>2, CallKeepsLanguages
<1>10. CASE DoRepeatMin
  <2>1. PICK i \in 1..2, min \in 0..2 :
          Call(i, RepeatMin(reg[i], min), Between(lang[i], min, min + MaxLength))
    BY <1>10 DEF DoRepeatMin
  <2>2. min \in Nat
    OBVIOUS
  <2>3. Accepted(RepeatMin(reg[i], min)) = Between(lang[i], min, min + MaxLength)
    BY <1>1, <2>2, AcceptedAfterRepeat
  <2> QED BY <2>1, <2>3, CallKeepsLanguages
<1>11. CASE DoRepeatMinMax
  <2>1. PICK i \in 1..2, min \in 0..2, max \in 1..2 :
          Call(i, RepeatMinMax(reg[i], min, max), Between(lang[i], min, max))
    BY <1>11 DEF DoRepeatMinMax
  <2>2. min \in Nat /\ max \in Nat
    OBVIOUS
  <2>3. Accepted(RepeatMinMax(reg[i], min, max)) = Between(lang[i], min, max)
    BY <1>1, <2>2, AcceptedAfterRepeat
  <2> QED BY <2>1, <2>3, CallKeepsLanguages
<1>12. CASE StartSearch \/ SearchAccepting \/ SearchExpand \/ Found \/ UNCHANGED callsVars
  <2>1. reg' = reg /\ lang' = lang
    BY <1>12 DEF StartSearch, SearchAccepting, SearchExpand, Found, callsVars
  <2>2. LanguageExact /\ lang \in [1..2 -> SUBSET Word]
    BY DEF LanguagesKept
  <2>3. LanguageExact'
    BY <2>1, <2>2 DEF LanguageExact
  <2>4. (lang \in [1..2 -> SUBSET Word])'
    BY <2>1, <2>2
  <2> QED BY <2>3, <2>4
<1> QED BY <1>2, <1>3, <1>4, <1>5, <1>6, <1>7, <1>8, <1>9, <1>10, <1>11, <1>12 DEF CallsNext

(* After any sequence of calls of BasicOperations each automaton accepts,  *)
(* of the words up to MaxLength, those that the same operations on         *)
(* languages give.                                                         *)
THEOREM LanguagesAreExact == CallsSpec => []LanguageExact
<1>1. LanguagesKept => LanguageExact
  BY DEF LanguagesKept
<1> QED BY <1>1, KeptAtFirst, LanguagesStay, PTL DEF CallsSpec

-----------------------------------------------------------------------------
(* subsetOf                                                                *)

(* The pairs of states that a word leads to in both automata.              *)
ReachedTogether(m1, m2) ==
  {p \in Ends(m1) \X Ends(m2) :
     \E w \in Seq(Char) : p[1] \in After(m1, w) /\ p[2] \in After(m2, w)}

LEMMA AfterEnds ==
  ASSUME NEW m, IsFiniteSet(m.trans), NEW w \in Seq(Char)
  PROVE  After(m, w) \subseteq Ends(m)
BY AfterReachable, Reachable

(* They are the pairs that intersection and subsetOf visit.                *)
LEMMA PairsTogether ==
  ASSUME NEW m1, IsAutomaton(m1, Nat), NEW m2, IsAutomaton(m2, Nat)
  PROVE  Pairs(m1, m2) = ReachedTogether(m1, m2)
<1>1. IsFiniteSet(m1.trans) /\ IsFiniteSet(m2.trans)
  BY DEF IsAutomaton
<1> DEFINE D == ReachedTogether(m1, m2)
<1>2. D \subseteq Ends(m1) \X Ends(m2)
  BY DEF ReachedTogether
<1>3. <<m1.q0, m2.q0>> \in D
  <2>1. After(m1, <<>>) = {m1.q0} /\ After(m2, <<>>) = {m2.q0}
    BY AfterAppend
  <2>2. <<>> \in Seq(Char)
    OBVIOUS
  <2> DEFINE nil == <<>>
  <2>3. nil \in Seq(Char) /\ m1.q0 \in After(m1, nil) /\ m2.q0 \in After(m2, nil)
    BY <2>1, <2>2
  <2> HIDE DEF nil
  <2>4. m1.q0 \in Ends(m1) /\ m2.q0 \in Ends(m2)
    BY DEF Ends
  <2> QED BY <2>3, <2>4 DEF ReachedTogether
<1>4. ASSUME NEW e \in JointMoves(m1, m2, D) PROVE e[4] \in D
  <2>1. PICK t \in m1.trans, u \in m2.trans : e = Common(t, u) /\ <<t[1], u[1]>> \in D /\ Meet(t, u)
    BY DEF JointMoves
  <2>2. e[4] = <<t[4], u[4]>>
    BY <2>1 DEF Common
  <2>3. PICK w \in Seq(Char) : t[1] \in After(m1, w) /\ u[1] \in After(m2, w)
    BY <2>1 DEF ReachedTogether
  <2>4. /\ t[2] \in Char /\ t[2] \in Nat /\ t[3] \in Nat /\ t[2] <= t[3]
        /\ u[2] \in Char /\ u[2] \in Nat /\ u[3] \in Nat /\ u[2] <= u[3]
    BY Transition
  <2>5. PICK c \in Char : t[2] <= c /\ c <= t[3] /\ u[2] <= c /\ c <= u[3]
    BY <2>1, <2>4 DEF Meet
  <2>6. t[4] \in Step(m1, After(m1, w), c) /\ u[4] \in Step(m2, After(m2, w), c)
    BY <2>3, <2>5, StepBy
  <2>7. /\ After(m1, Append(w, c)) = Step(m1, After(m1, w), c)
        /\ After(m2, Append(w, c)) = Step(m2, After(m2, w), c)
    BY AfterAppend
  <2>8. Append(w, c) \in Seq(Char)
    OBVIOUS
  <2>9. t[4] \in Ends(m1) /\ u[4] \in Ends(m2)
    BY DEF Ends
  <2>10. <<t[4], u[4]>> \in D
    BY <2>6, <2>7, <2>8, <2>9 DEF ReachedTogether
  <2> QED BY <2>2, <2>10
<1>5. Pairs(m1, m2) \subseteq D
  <2> HIDE DEF D
  <2> QED BY <1>1, <1>2, <1>3, <1>4, PairsClosed
<1>6. ASSUME NEW p \in D PROVE p \in Pairs(m1, m2)
  <2>1. PICK w \in Seq(Char) : p[1] \in After(m1, w) /\ p[2] \in After(m2, w)
    BY DEF ReachedTogether
  <2>2. p = <<p[1], p[2]>>
    BY <1>2
  <2>3. /\ After(ProductOver(m1, m2, Pairs(m1, m2)), w) = After(m1, w) \X After(m2, w)
        /\ After(ProductOver(m1, m2, Pairs(m1, m2)), w) \subseteq Pairs(m1, m2)
    BY ProductAfter
  <2>4. <<p[1], p[2]>> \in After(m1, w) \X After(m2, w)
    BY <2>1
  <2> QED BY <2>2, <2>3, <2>4
<1> QED BY <1>5, <1>6

(* What subsetOf is compared with: the pairs of a state that a word leads  *)
(* to in m1 and of all the states that it leads to in m2.                  *)
Tracked(m1, m2) ==
  {p \in Ends(m1) \X SUBSET Ends(m2) :
     \E w \in Seq(Char) : p[1] \in After(m1, w) /\ p[2] = After(m2, w)}

Onward(m1, m2, S) ==
  UNION {{<<q, Step(m2, p[2], c)>> : q \in Step(m1, {p[1]}, c)} : p \in S, c \in Char}

Tracks(m1, m2, S, e) ==
  \E p \in S, c \in Char : \E q \in Step(m1, {p[1]}, c) : e = <<q, Step(m2, p[2], c)>>

LEMMA OnwardIs ==
  ASSUME NEW m1, NEW m2, NEW S, NEW e
  PROVE  e \in Onward(m1, m2, S) <=> Tracks(m1, m2, S, e)
<1> DEFINE to(p, c) == {<<q, Step(m2, p[2], c)>> : q \in Step(m1, {p[1]}, c)}
<1>1. e \in Onward(m1, m2, S) <=> \E p \in S, c \in Char : e \in to(p, c)
  <2> HIDE DEF to
  <2>1. Onward(m1, m2, S) = UNION {to(p, c) : p \in S, c \in Char}
    BY DEF Onward, to
  <2> QED BY <2>1
<1>2. \A p, c : e \in to(p, c) <=> \E q \in Step(m1, {p[1]}, c) : e = <<q, Step(m2, p[2], c)>>
  OBVIOUS
<1> HIDE DEF to
<1> QED BY <1>1, <1>2 DEF Tracks

LEMMA IncludedIs ==
  ASSUME NEW m1, IsAutomaton(m1, Nat), NEW m2, IsAutomaton(m2, Nat)
  PROVE  Included(m1, m2) <=> \A w \in Seq(Char) : Accepts(m1, w) => Accepts(m2, w)
<1> DEFINE U == Ends(m1) \X SUBSET Ends(m2)
           p0 == <<m1.q0, {m2.q0}>>
           to(S) == Onward(m1, m2, S)
           next == [S \in SUBSET U |-> to(S)]
           Grown(grow) == grow = [s \in SUBSET U |-> IF s \cup to(s) = s THEN s ELSE grow[s \cup to(s)]]
           r == CHOOSE grow : Grown(grow)
           C == r[{p0}]
           D == Tracked(m1, m2)
<1>0. IsFiniteSet(m1.trans) /\ IsFiniteSet(m2.trans)
  BY DEF IsAutomaton
<1>1. Included(m1, m2) <=> \A p \in C : p[1] \in m1.acc => p[2] \cap m2.acc # {}
  BY DEF Included, Closure, Onward
<1>2. \A S : to(S) \in SUBSET U
  <2> SUFFICES ASSUME NEW S, NEW e \in Onward(m1, m2, S) PROVE e \in U
    OBVIOUS
  <2>0. Tracks(m1, m2, S, e)
    BY OnwardIs
  <2>1. PICK p \in S, c \in Char : \E q \in Step(m1, {p[1]}, c) : e = <<q, Step(m2, p[2], c)>>
    BY <2>0 DEF Tracks
  <2>2. Step(m1, {p[1]}, c) \subseteq Ends(m1) /\ Step(m2, p[2], c) \subseteq Ends(m2)
    BY DEF Step, Ends
  <2> QED BY <2>1, <2>2
<1>3. \A S, T : S \subseteq T => to(S) \subseteq to(T)
  <2> SUFFICES ASSUME NEW S, NEW T, S \subseteq T, NEW e \in Onward(m1, m2, S)
               PROVE  e \in Onward(m1, m2, T)
    OBVIOUS
  <2>0. Tracks(m1, m2, S, e)
    BY OnwardIs
  <2>1. PICK p \in S, c \in Char : \E q \in Step(m1, {p[1]}, c) : e = <<q, Step(m2, p[2], c)>>
    BY <2>0 DEF Tracks
  <2>2. p \in T
    OBVIOUS
  <2>3. Tracks(m1, m2, T, e)
    BY <2>1, <2>2 DEF Tracks
  <2> QED BY <2>3, OnwardIs
<1> HIDE DEF to
<1>4. Monotone(U, next)
  BY <1>2, <1>3 DEF Monotone
<1>5. \A S \in SUBSET U : next[S] = to(S)
  OBVIOUS
<1> HIDE DEF next
<1>6. \A grow : Grown(grow) <=> Closes(grow, U, next)
  BY <1>5 DEF Closes
<1>7. Grown(r)
  <2>1. \E grow : Grown(grow)
    BY <1>4, <1>6, ClosesExists
  <2> QED BY <2>1
<1> HIDE DEF r, Grown
<1>8. IsFiniteSet(U)
  <2>1. IsFiniteSet(Ends(m1)) /\ IsFiniteSet(Ends(m2))
    BY <1>0, Reachable
  <2>2. IsFiniteSet(SUBSET Ends(m2))
    BY <2>1, FS_SUBSET
  <2> QED BY <2>1, <2>2, FS_Product
<1>9. p0 \in U /\ {p0} \in SUBSET U
  BY DEF Ends
<1> HIDE DEF p0
<1>10. IsLeastClosed(C, {p0}, U, next)
  <2> HIDE DEF U
  <2>1. Closes(r, U, next)
    BY <1>6, <1>7
  <2> QED BY <1>4, <1>8, <1>9, <2>1, ClosesLeast
<1> HIDE DEF C
<1>11. /\ C \in SUBSET U /\ p0 \in C /\ to(C) \subseteq C
       /\ \A E \in SUBSET U : p0 \in E /\ to(E) \subseteq E => C \subseteq E
  BY <1>5, <1>10 DEF IsLeastClosed
<1>12. p0 \in D
  <2>1. After(m1, <<>>) = {m1.q0} /\ After(m2, <<>>) = {m2.q0}
    BY AfterAppend
  <2> DEFINE nil == <<>>
  <2>2. nil \in Seq(Char) /\ p0[1] \in After(m1, nil) /\ p0[2] = After(m2, nil)
    BY <2>1 DEF p0
  <2> HIDE DEF nil
  <2> QED BY <1>9, <2>2 DEF Tracked
<1>13. D \in SUBSET U
  BY DEF Tracked
<1>14. to(D) \subseteq D
  <2> SUFFICES ASSUME NEW e \in Onward(m1, m2, D) PROVE e \in D
    BY DEF to
  <2>0. Tracks(m1, m2, D, e)
    BY OnwardIs
  <2>1. PICK p \in D, c \in Char : \E q \in Step(m1, {p[1]}, c) : e = <<q, Step(m2, p[2], c)>>
    BY <2>0 DEF Tracks
  <2>2. PICK q \in Step(m1, {p[1]}, c) : e = <<q, Step(m2, p[2], c)>>
    BY <2>1
  <2>3. PICK w \in Seq(Char) : p[1] \in After(m1, w) /\ p[2] = After(m2, w)
    BY DEF Tracked
  <2>4. /\ After(m1, Append(w, c)) = Step(m1, After(m1, w), c)
        /\ After(m2, Append(w, c)) = Step(m2, After(m2, w), c)
    BY AfterAppend
  <2>5. q \in Step(m1, After(m1, w), c)
    BY <2>2, <2>3 DEF Step
  <2>6. Append(w, c) \in Seq(Char)
    OBVIOUS
  <2>7. e \in U
    <3>1. e \in to(D)
      BY DEF to
    <3> QED BY <1>2, <3>1
  <2>8. e[1] = q /\ e[2] = After(m2, Append(w, c))
    BY <2>2, <2>3, <2>4
  <2>9. e[1] \in After(m1, Append(w, c))
    BY <2>4, <2>5, <2>8
  <2> QED BY <2>6, <2>7, <2>8, <2>9 DEF Tracked
<1>15. C \subseteq D
  BY <1>11, <1>12, <1>13, <1>14
<1> DEFINE T == {w \in Seq(Char) : \A q \in After(m1, w) : <<q, After(m2, w)>> \in C}
<1>16. <<>> \in T
  <2>1. After(m1, <<>>) = {m1.q0} /\ After(m2, <<>>) = {m2.q0}
    BY AfterAppend
  <2>2. <<>> \in Seq(Char)
    OBVIOUS
  <2> QED BY <1>11, <2>1, <2>2 DEF p0
<1>17. ASSUME NEW w \in Seq(Char), NEW c \in Char, w \in T PROVE Append(w, c) \in T
  <2>1. /\ After(m1, Append(w, c)) = Step(m1, After(m1, w), c)
        /\ After(m2, Append(w, c)) = Step(m2, After(m2, w), c)
    BY AfterAppend
  <2>2. ASSUME NEW q \in Step(m1, After(m1, w), c) PROVE <<q, Step(m2, After(m2, w), c)>> \in C
    <3>1. PICK x \in After(m1, w) : q \in Step(m1, {x}, c)
      BY <2>2 DEF Step
    <3> DEFINE p == <<x, After(m2, w)>>
    <3>2. p \in C /\ p[1] = x /\ p[2] = After(m2, w)
      BY <1>17
    <3> HIDE DEF p
    <3>3. <<q, Step(m2, p[2], c)>> \in to(C)
      <4>1. q \in Step(m1, {p[1]}, c)
        BY <3>1, <3>2
      <4> QED BY <3>2, <4>1, OnwardIs DEF to, Tracks
    <3> QED BY <1>11, <3>2, <3>3
  <2>3. Append(w, c) \in Seq(Char)
    OBVIOUS
  <2> QED BY <2>1, <2>2, <2>3
<1> HIDE DEF T
<1>18. Seq(Char) \subseteq T
  BY <1>16, <1>17, WordInduction
<1>19. ASSUME \A p \in C : p[1] \in m1.acc => p[2] \cap m2.acc # {},
              NEW w \in Seq(Char), Accepts(m1, w)
       PROVE  Accepts(m2, w)
  <2>1. PICK q \in After(m1, w) : q \in m1.acc
    BY <1>19 DEF Accepts
  <2>2. <<q, After(m2, w)>> \in C
    BY <1>18 DEF T
  <2> QED BY <1>19, <2>1, <2>2 DEF Accepts
<1>20. ASSUME \A w \in Seq(Char) : Accepts(m1, w) => Accepts(m2, w),
              NEW p \in C, p[1] \in m1.acc
       PROVE  p[2] \cap m2.acc # {}
  <2>1. PICK w \in Seq(Char) : p[1] \in After(m1, w) /\ p[2] = After(m2, w)
    BY <1>15 DEF Tracked
  <2> QED BY <1>20, <2>1 DEF Accepts
<1> QED BY <1>1, <1>19, <1>20

(* In a deterministic automaton a word leads to one state at most.         *)
LEMMA OneAfter ==
  ASSUME NEW m, IsAutomaton(m, Nat), IsDeterministic(m), NEW w \in Seq(Char)
  PROVE  \A p, q \in After(m, w) : p = q
<1> DEFINE T == {v \in Seq(Char) : \A p, q \in After(m, v) : p = q}
<1>1. <<>> \in T
  <2>1. After(m, <<>>) = {m.q0}
    BY AfterAppend
  <2>2. <<>> \in Seq(Char)
    OBVIOUS
  <2> QED BY <2>1, <2>2
<1>2. ASSUME NEW v \in Seq(Char), NEW c \in Char, v \in T PROVE Append(v, c) \in T
  <2>1. After(m, Append(v, c)) = Step(m, After(m, v), c)
    BY AfterAppend
  <2>2. ASSUME NEW p \in Step(m, After(m, v), c), NEW q \in Step(m, After(m, v), c) PROVE p = q
    <3>1. PICK t \in m.trans : t[1] \in After(m, v) /\ t[2] <= c /\ c <= t[3] /\ t[4] = p
      BY StepBy
    <3>2. PICK u \in m.trans : u[1] \in After(m, v) /\ u[2] <= c /\ c <= u[3] /\ u[4] = q
      BY StepBy
    <3>3. t[1] = u[1]
      BY <1>2, <3>1, <3>2
    <3>4. t[2] \in Nat /\ t[3] \in Nat /\ u[2] \in Nat /\ u[3] \in Nat /\ c \in Nat
      BY Transition, CharAssumption DEF Char
    <3>5. t[2] <= u[3] /\ u[2] <= t[3]
      BY <3>1, <3>2, <3>4
    <3> QED BY <3>1, <3>2, <3>3, <3>5 DEF IsDeterministic
  <2>3. Append(v, c) \in Seq(Char)
    OBVIOUS
  <2> QED BY <2>1, <2>2, <2>3
<1> HIDE DEF T
<1>3. Seq(Char) \subseteq T
  BY <1>1, <1>2, WordInduction
<1> QED BY <1>3 DEF T

(* A word that leads nowhere cannot be continued.                          *)
LEMMA NothingAfter ==
  ASSUME NEW m, NEW u \in Seq(Char), After(m, u) = {}, NEW w \in Seq(Char)
  PROVE  After(m, u \o w) = {}
<1> DEFINE T == {v \in Seq(Char) : After(m, u \o v) = {}}
<1>1. <<>> \in T
  <2>1. u \o <<>> = u /\ <<>> \in Seq(Char)
    OBVIOUS
  <2> QED BY <2>1
<1>2. ASSUME NEW v \in Seq(Char), NEW c \in Char, v \in T PROVE Append(v, c) \in T
  <2>1. u \o v \in Seq(Char) /\ u \o Append(v, c) = Append(u \o v, c) /\ Append(v, c) \in Seq(Char)
    OBVIOUS
  <2>2. After(m, Append(u \o v, c)) = Step(m, After(m, u \o v), c)
    BY <2>1, AfterAppend
  <2>3. Step(m, {}, c) = {}
    BY DEF Step
  <2> QED BY <1>2, <2>1, <2>2, <2>3
<1> HIDE DEF T
<1>3. Seq(Char) \subseteq T
  BY <1>1, <1>2, WordInduction
<1> QED BY <1>3 DEF T

(* A word that leads to a productive state can be continued to one that is *)
(* accepted.                                                               *)
Continued(m, u) == \E v \in Seq(Char) : Accepts(m, u \o v)

LEMMA ProductiveContinues ==
  ASSUME NEW m, IsAutomaton(m, Nat), NEW u \in Seq(Char),
         NEW q \in Productive(m), q \in After(m, u)
  PROVE  Continued(m, u)
<1> DEFINE D == {x \in Nat : \A w \in Seq(Char) : x \in After(m, w) => Continued(m, w)}
<1>1. m.acc \subseteq D
  <2> SUFFICES ASSUME NEW x \in m.acc, NEW w \in Seq(Char), x \in After(m, w)
               PROVE  Continued(m, w)
    BY Parts
  <2>1. w \o <<>> = w /\ <<>> \in Seq(Char)
    OBVIOUS
  <2>2. Accepts(m, w)
    BY DEF Accepts
  <2> DEFINE nil == <<>>
  <2>3. nil \in Seq(Char) /\ Accepts(m, w \o nil)
    BY <2>1, <2>2
  <2> HIDE DEF nil
  <2> QED BY <2>3 DEF Continued
<1>2. ASSUME NEW t \in m.trans, t[4] \in D PROVE t[1] \in D
  <2>0. t[1] \in Nat /\ t[2] \in Char /\ t[2] \in Nat /\ t[3] \in Nat /\ t[2] <= t[3]
    BY Transition
  <2> SUFFICES ASSUME NEW w \in Seq(Char), t[1] \in After(m, w)
               PROVE  Continued(m, w)
    BY <2>0
  <2> DEFINE c == t[2]
  <2>1. t[4] \in Step(m, After(m, w), c)
    <3>1. c <= c
      BY <2>0
    <3> QED BY <2>0, <3>1, StepBy
  <2>2. c \in Char
    BY <2>0
  <2> HIDE DEF c
  <2>3. After(m, Append(w, c)) = Step(m, After(m, w), c) /\ Append(w, c) \in Seq(Char)
    BY <2>2, AfterAppend
  <2>4. PICK v \in Seq(Char) : Accepts(m, Append(w, c) \o v)
    BY <1>2, <2>1, <2>3 DEF Continued
  <2>5. Append(w, c) \o v = w \o (<<c>> \o v) /\ <<c>> \o v \in Seq(Char)
    BY <2>2
  <2> QED BY <2>4, <2>5 DEF Continued
<1> HIDE DEF D
<1>3. Productive(m) \subseteq D
  BY <1>1, <1>2, ProductiveLeast
<1> QED BY <1>3 DEF D

(* What subsetOf looks at, for an automaton d that is deterministic.       *)
Within(m, d) ==
  \A p \in Pairs(m, d) :
    /\ p[1] \in m.acc => p[2] \in d.acc
    /\ \A t \in {u \in m.trans : u[1] = p[1]} :
         \A c \in t[2]..t[3] : Step(d, {p[2]}, c) # {}

LEMMA WithinAccepts ==
  ASSUME NEW m, IsAutomaton(m, Nat), NEW d, IsAutomaton(d, Nat), Within(m, d),
         NEW w \in Seq(Char), Accepts(m, w)
  PROVE  Accepts(d, w)
<1>1. IsFiniteSet(m.trans) /\ IsFiniteSet(d.trans)
  BY DEF IsAutomaton
<1>2. ASSUME NEW v \in Seq(Char), NEW p \in After(m, v), NEW q \in After(d, v)
      PROVE  /\ p \in m.acc => q \in d.acc
             /\ \A t \in {u \in m.trans : u[1] = p} :
                  \A c \in t[2]..t[3] : Step(d, {q}, c) # {}
  <2>1. p \in Ends(m) /\ q \in Ends(d)
    BY <1>1, AfterEnds
  <2>2. <<p, q>> \in ReachedTogether(m, d)
    BY <2>1 DEF ReachedTogether
  <2>3. <<p, q>> \in Pairs(m, d)
    BY <2>2, PairsTogether
  <2> QED BY <2>3 DEF Within
<1> DEFINE T == {v \in Seq(Char) : After(m, v) # {} => After(d, v) # {}}
<1>3. <<>> \in T
  <2>1. After(d, <<>>) = {d.q0}
    BY AfterAppend
  <2>2. <<>> \in Seq(Char)
    OBVIOUS
  <2> QED BY <2>1, <2>2
<1>4. ASSUME NEW v \in Seq(Char), NEW c \in Char, v \in T PROVE Append(v, c) \in T
  <2>1. /\ After(m, Append(v, c)) = Step(m, After(m, v), c)
        /\ After(d, Append(v, c)) = Step(d, After(d, v), c)
    BY AfterAppend
  <2>2. ASSUME NEW x \in Step(m, After(m, v), c) PROVE Step(d, After(d, v), c) # {}
    <3>1. PICK t \in m.trans : t[1] \in After(m, v) /\ t[2] <= c /\ c <= t[3] /\ t[4] = x
      BY StepBy
    <3>2. PICK q \in After(d, v) : TRUE
      BY <1>4, <3>1
    <3>3. c \in Int /\ t[2] \in Nat /\ t[3] \in Nat
      BY Transition, CharAssumption DEF Char
    <3>4. c \in t[2]..t[3]
      BY <3>1, <3>3
    <3>5. Step(d, {q}, c) # {}
      BY <1>2, <3>1, <3>4
    <3> QED BY <3>2, <3>5 DEF Step
  <2>3. Append(v, c) \in Seq(Char)
    OBVIOUS
  <2> QED BY <2>1, <2>2, <2>3
<1> HIDE DEF T
<1>5. Seq(Char) \subseteq T
  BY <1>3, <1>4, WordInduction
<1>6. PICK p \in After(m, w) : p \in m.acc
  BY DEF Accepts
<1>7. PICK q \in After(d, w) : TRUE
  BY <1>5, <1>6 DEF T
<1>8. q \in d.acc
  BY <1>2, <1>6, <1>7
<1> QED BY <1>7, <1>8 DEF Accepts

LEMMA AcceptsWithin ==
  ASSUME NEW m, IsAutomaton(m, Nat), NoneDead(m),
         NEW d, IsAutomaton(d, Nat), IsDeterministic(d),
         \A w \in Seq(Char) : Accepts(m, w) => Accepts(d, w)
  PROVE  Within(m, d)
<1> SUFFICES ASSUME NEW p \in Pairs(m, d)
             PROVE  /\ p[1] \in m.acc => p[2] \in d.acc
                    /\ \A t \in {u \in m.trans : u[1] = p[1]} :
                         \A c \in t[2]..t[3] : Step(d, {p[2]}, c) # {}
  BY DEF Within
<1>1. PICK w \in Seq(Char) : p[1] \in After(m, w) /\ p[2] \in After(d, w)
  BY PairsTogether DEF ReachedTogether
<1>2. After(d, w) = {p[2]}
  <2>1. \A x, y \in After(d, w) : x = y
    BY OneAfter
  <2> QED BY <1>1, <2>1
<1>3. ASSUME p[1] \in m.acc PROVE p[2] \in d.acc
  <2>1. Accepts(d, w)
    BY <1>1, <1>3 DEF Accepts
  <2> QED BY <1>2, <2>1 DEF Accepts
<1>4. ASSUME NEW t \in m.trans, t[1] = p[1], NEW c \in t[2]..t[3] PROVE Step(d, {p[2]}, c) # {}
  <2>1. t[2] \in Nat /\ t[3] \in Nat /\ t[3] <= MaxChar
    BY Transition
  <2>2. c \in Char /\ t[2] <= c /\ c <= t[3]
    BY <2>1, CharAssumption DEF Char
  <2>3. t[4] \in Step(m, After(m, w), c)
    BY <1>1, <1>4, <2>2, StepBy
  <2> DEFINE u == Append(w, c)
  <2>4. /\ u \in Seq(Char) /\ After(m, u) = Step(m, After(m, w), c)
        /\ After(d, u) = Step(d, After(d, w), c)
    BY <2>2, AfterAppend
  <2> HIDE DEF u
  <2>5. t[4] \in Productive(m)
    BY DEF NoneDead
  <2>6. Continued(m, u)
    BY <2>3, <2>4, <2>5, ProductiveContinues
  <2>7. PICK v \in Seq(Char) : Accepts(m, u \o v)
    BY <2>6 DEF Continued
  <2>8. u \o v \in Seq(Char)
    BY <2>4
  <2>9. Accepts(d, u \o v)
    BY <2>7, <2>8
  <2>10. After(d, u) # {}
    <3>1. After(d, u \o v) # {}
      BY <2>9 DEF Accepts
    <3> QED BY <2>4, <3>1, NothingAfter
  <2> QED BY <1>2, <2>4, <2>10
<1> QED BY <1>3, <1>4

(* subsetOf decides inclusion of the languages (BasicOperations.subsetOf): *)
(* it looks at pairs of states only, which is enough since its second      *)
(* argument is determinized and the first one has no transition to a dead  *)
(* state.                                                                  *)
THEOREM SubsetOfRun ==
  ASSUME NEW m1, Tidy(m1), NEW m2, Sound(m2)
  PROVE  SubsetOf(m1, m2) <=> \A w \in Seq(Char) : Run(m1, w) => Run(m2, w)
<1>0. Sound(m1) /\ Sound(m2)
  BY DEF Tidy
<1>1. CASE IsSingleton(m1)
  <2>1. PICK v \in Seq(Char) : m1.word = {v} /\ \A w \in Seq(Char) : Run(m1, w) <=> w = v
    BY <1>0, <1>1, OneWord
  <2>2. SubsetOf(m1, m2) <=> IF IsSingleton(m2) THEN m2.word = {v} ELSE Run(m2, v)
    BY <1>1, <2>1 DEF SubsetOf
  <2>3. (\A w \in Seq(Char) : Run(m1, w) => Run(m2, w)) <=> Run(m2, v)
    BY <2>1
  <2>4. ASSUME IsSingleton(m2) PROVE m2.word = {v} <=> Run(m2, v)
    <3>1. PICK u \in Seq(Char) : m2.word = {u} /\ \A w \in Seq(Char) : Run(m2, w) <=> w = u
      BY <1>0, <2>4, OneWord
    <3> QED BY <3>1
  <2> QED BY <2>2, <2>3, <2>4
<1>2. CASE ~ IsSingleton(m1)
  <2> DEFINE e == ExpandSingleton(m2)
             d == Determinize(e)
  <2>1. Sound(e) /\ ~ IsSingleton(e)
    BY <1>0, Expanded
  <2>2. \A w : Run(m2, w) <=> Accepts(e, w)
    BY RunIs
  <2>3. SubsetOf(m1, m2) <=> Within(m1, d)
    BY <1>2 DEF SubsetOf, Within
  <2>4. \A w : Run(m1, w) <=> Accepts(m1, w)
    BY <1>2, RunExplicit
  <2> HIDE DEF e
  <2>5. Sound(d) /\ d.det /\ ~ IsSingleton(d)
    BY <2>1, DeterminizeSound
  <2>6. IsAutomaton(e, Nat) /\ IsAutomaton(m1, Nat) /\ NoneDead(m1)
    BY <2>1 DEF Sound, Tidy
  <2>7. \A w \in Seq(Char) : Accepts(d, w) <=> Accepts(e, w)
    BY <2>1, <2>6, DeterminizeAccepts
  <2> HIDE DEF d
  <2>8. IsAutomaton(d, Nat) /\ IsDeterministic(d)
    BY <2>5 DEF Sound, IsHonest
  <2>9. ASSUME Within(m1, d), NEW w \in Seq(Char), Run(m1, w) PROVE Run(m2, w)
    <3>1. Accepts(m1, w)
      BY <2>4, <2>9
    <3>2. Accepts(d, w)
      BY <2>6, <2>8, <2>9, <3>1, WithinAccepts
    <3> QED BY <2>2, <2>7, <3>2
  <2>10. ASSUME \A w \in Seq(Char) : Run(m1, w) => Run(m2, w) PROVE Within(m1, d)
    <3>1. \A w \in Seq(Char) : Accepts(m1, w) => Accepts(d, w)
      BY <2>2, <2>4, <2>7, <2>10
    <3> QED BY <2>6, <2>8, <3>1, AcceptsWithin
  <2> QED BY <2>3, <2>9, <2>10
<1> QED BY <1>1, <1>2

(* After any sequence of calls subsetOf answers as the pairs of a state    *)
(* and of the set of states that the same word leads to do.                *)
THEOREM SubsetsAreExact == CallsSpec => []SubsetExact
<1>1. RegistersTidy => SubsetExact
  <2> SUFFICES ASSUME RegistersTidy
               PROVE  SubsetOf(reg[1], reg[2])
                        <=> Included(ExpandSingleton(reg[1]), ExpandSingleton(reg[2]))
    BY DEF SubsetExact
  <2> DEFINE m1 == reg[1]
             m2 == reg[2]
             e1 == ExpandSingleton(m1)
             e2 == ExpandSingleton(m2)
  <2>1. Tidy(m1) /\ Tidy(m2)
    BY AllTidy DEF RegistersTidy
  <2> HIDE DEF m1, m2
  <2>2. SubsetOf(m1, m2) <=> \A w \in Seq(Char) : Run(m1, w) => Run(m2, w)
    BY <2>1, SubsetOfRun DEF Tidy
  <2>3. (\A w : Run(m1, w) <=> Accepts(e1, w)) /\ (\A w : Run(m2, w) <=> Accepts(e2, w))
    BY RunIs
  <2>4. IsAutomaton(e1, Nat) /\ IsAutomaton(e2, Nat)
    <3>1. Sound(e1) /\ Sound(e2)
      BY <2>1, Expanded DEF Tidy
    <3> QED BY <3>1 DEF Sound
  <2> HIDE DEF e1, e2
  <2>5. Included(e1, e2) <=> \A w \in Seq(Char) : Accepts(e1, w) => Accepts(e2, w)
    BY <2>4, IncludedIs
  <2>6. SubsetOf(m1, m2) <=> Included(e1, e2)
    BY <2>2, <2>3, <2>5
  <2> QED BY <2>6 DEF m1, m2, e1, e2
<1> QED BY <1>1, TidyAtFirst, TidyKept, PTL DEF CallsSpec

-----------------------------------------------------------------------------
(* getShortestExample                                                      *)

(* The order of words in which getShortestExample compares them.           *)
AtMost(u, v) == u = v \/ Before(u, v)

LEMMA WordParts ==
  ASSUME NEW w \in Seq(Char)
  PROVE  Len(w) \in Nat /\ DOMAIN w = 1..Len(w) /\ \A i \in 1..Len(w) : w[i] \in Nat
BY CharAssumption DEF Char

LEMMA Compare ==
  ASSUME NEW x \in Nat, NEW y \in Nat
  PROVE  /\ x < y \/ x = y \/ y < x
         /\ ~ (x < y /\ y < x) /\ ~ (x < y /\ x = y)
OBVIOUS

LEMMA BeforeTotal ==
  ASSUME NEW u \in Seq(Char), NEW v \in Seq(Char)
  PROVE  AtMost(u, v) \/ AtMost(v, u)
<1>0. /\ Len(u) \in Nat /\ DOMAIN u = 1..Len(u) /\ \A h \in 1..Len(u) : u[h] \in Nat
      /\ Len(v) \in Nat /\ DOMAIN v = 1..Len(v) /\ \A h \in 1..Len(v) : v[h] \in Nat
  BY WordParts
<1>1. CASE Len(u) # Len(v)
  <2>1. Len(u) < Len(v) \/ Len(v) < Len(u)
    BY <1>0, <1>1, Compare, Zenon
  <2> QED BY <2>1 DEF AtMost, Before
<1>2. CASE Len(u) = Len(v) /\ \A h \in 1..Len(u) : u[h] = v[h]
  <2>1. u = v
    BY <1>0, <1>2
  <2> QED BY <2>1 DEF AtMost
<1>3. CASE Len(u) = Len(v) /\ \E h \in 1..Len(u) : u[h] # v[h]
  <2> DEFINE T == {h \in 1..Len(u) : u[h] # v[h]}
  <2>1. T \in SUBSET Nat /\ T # {}
    BY <1>3
  <2> HIDE DEF T
  <2>2. PICK h \in T : \A j \in T : h <= j
    BY <2>1, LeastNumber
  <2>3. h \in 1..Len(u) /\ u[h] # v[h]
    BY DEF T
  <2>4. \A j \in 1..h - 1 : u[j] = v[j]
    <3> SUFFICES ASSUME NEW j \in 1..h - 1, u[j] # v[j] PROVE FALSE
      OBVIOUS
    <3>1. j \in T
      BY <1>0, <2>3 DEF T
    <3> QED BY <1>0, <2>2, <2>3, <3>1
  <2>5. u[h] \in Nat /\ v[h] \in Nat
    BY <1>0, <1>3, <2>3
  <2>6. CASE u[h] < v[h]
    BY <1>0, <1>3, <2>3, <2>4, <2>6 DEF AtMost, Before
  <2>7. CASE v[h] < u[h]
    <3>1. \A j \in 1..h - 1 : v[j] = u[j]
      BY <2>4
    <3> QED BY <1>0, <1>3, <2>3, <2>7, <3>1 DEF AtMost, Before
  <2> QED BY <2>3, <2>5, <2>6, <2>7
<1> QED BY <1>1, <1>2, <1>3

LEMMA BeforeOneWay ==
  ASSUME NEW u \in Seq(Char), NEW v \in Seq(Char), AtMost(u, v), AtMost(v, u)
  PROVE  u = v
<1> SUFFICES ASSUME Before(u, v), Before(v, u) PROVE FALSE
  BY DEF AtMost
<1>0. /\ Len(u) \in Nat /\ DOMAIN u = 1..Len(u) /\ \A h \in 1..Len(u) : u[h] \in Nat
      /\ Len(v) \in Nat /\ DOMAIN v = 1..Len(v) /\ \A h \in 1..Len(v) : v[h] \in Nat
  BY WordParts
<1>1. Len(u) = Len(v)
  <2>1. (Len(u) < Len(v) \/ Len(u) = Len(v)) /\ (Len(v) < Len(u) \/ Len(v) = Len(u))
    BY Zenon DEF Before
  <2> QED BY <1>0, <2>1, Compare, Zenon
<1>2. PICK h \in 1..Len(u) : u[h] < v[h] /\ \A j \in 1..h - 1 : u[j] = v[j]
  <2>1. ~ (Len(u) < Len(v))
    BY <1>0, <1>1
  <2>2. \E h \in DOMAIN u : u[h] < v[h] /\ \A j \in 1..h - 1 : u[j] = v[j]
    BY <2>1, Zenon DEF Before
  <2> QED BY <1>0, <2>2
<1>3. PICK g \in 1..Len(u) : v[g] < u[g] /\ \A j \in 1..g - 1 : v[j] = u[j]
  <2>1. ~ (Len(v) < Len(u))
    BY <1>0, <1>1
  <2>2. \E g \in DOMAIN v : v[g] < u[g] /\ \A j \in 1..g - 1 : v[j] = u[j]
    BY <2>1, Zenon DEF Before
  <2> QED BY <1>0, <1>1, <2>2
<1>4. u[h] \in Nat /\ v[h] \in Nat /\ u[g] \in Nat /\ v[g] \in Nat
  BY <1>0, <1>1
<1>5. CASE h < g
  <2>1. h \in 1..g - 1
    BY <1>0, <1>5
  <2> QED BY <1>2, <1>3, <1>4, <2>1
<1>6. CASE g < h
  <2>1. g \in 1..h - 1
    BY <1>0, <1>6
  <2> QED BY <1>2, <1>3, <1>4, <2>1
<1>7. CASE g = h
  BY <1>2, <1>3, <1>4, <1>7
<1> QED BY <1>0, <1>5, <1>6, <1>7

LEMMA BeforeTransitive ==
  ASSUME NEW u \in Seq(Char), NEW v \in Seq(Char), NEW w \in Seq(Char),
         AtMost(u, v), AtMost(v, w)
  PROVE  AtMost(u, w)
<1> SUFFICES ASSUME Before(u, v), Before(v, w) PROVE Before(u, w)
  BY DEF AtMost
<1>0. /\ Len(u) \in Nat /\ DOMAIN u = 1..Len(u) /\ \A h \in 1..Len(u) : u[h] \in Nat
      /\ Len(v) \in Nat /\ DOMAIN v = 1..Len(v) /\ \A h \in 1..Len(v) : v[h] \in Nat
      /\ Len(w) \in Nat /\ DOMAIN w = 1..Len(w) /\ \A h \in 1..Len(w) : w[h] \in Nat
  BY WordParts
<1>1. CASE Len(u) < Len(w)
  BY <1>1 DEF Before
<1>2. CASE ~ (Len(u) < Len(w))
  <2>1. Len(u) = Len(v) /\ Len(v) = Len(w)
    <3>1. (Len(u) < Len(v) \/ Len(u) = Len(v)) /\ (Len(v) < Len(w) \/ Len(v) = Len(w))
      BY Zenon DEF Before
    <3> DEFINE lu == Len(u)
               lv == Len(v)
               lw == Len(w)
    <3>2. lu \in Nat /\ lv \in Nat /\ lw \in Nat
      BY <1>0
    <3>3. (lu < lv \/ lu = lv) /\ (lv < lw \/ lv = lw) /\ ~ (lu < lw)
      BY <1>2, <3>1
    <3> HIDE DEF lu, lv, lw
    <3>4. lu = lv /\ lv = lw
      BY <3>2, <3>3
    <3> QED BY <3>4 DEF lu, lv, lw
  <2>2. PICK h \in 1..Len(u) : u[h] < v[h] /\ \A j \in 1..h - 1 : u[j] = v[j]
    BY <1>0, <2>1 DEF Before
  <2>3. PICK g \in 1..Len(u) : v[g] < w[g] /\ \A j \in 1..g - 1 : v[j] = w[j]
    BY <1>0, <2>1 DEF Before
  <2>4. /\ u[h] \in Nat /\ v[h] \in Nat /\ u[g] \in Nat /\ v[g] \in Nat
        /\ w[h] \in Nat /\ w[g] \in Nat
    BY <1>0, <2>1
  <2>5. PICK f \in 1..Len(u) : f <= g /\ f <= h /\ (f = g \/ f = h)
    <3>1. CASE g <= h
      BY <3>1
    <3>2. CASE h <= g
      BY <3>2
    <3> QED BY <1>0, <3>1, <3>2
  <2>6. \A j \in 1..f - 1 : u[j] = w[j]
    <3> SUFFICES ASSUME NEW j \in 1..f - 1 PROVE u[j] = w[j]
      OBVIOUS
    <3>1. j \in 1..h - 1 /\ j \in 1..g - 1
      BY <1>0, <2>5
    <3> QED BY <2>2, <2>3, <3>1
  <2>7. u[f] < w[f]
    <3>1. CASE f = g /\ f = h
      BY <2>2, <2>3, <2>4, <3>1
    <3>2. CASE f = g /\ f < h
      <4>1. f \in 1..h - 1
        BY <1>0, <3>2
      <4> QED BY <2>2, <2>3, <3>2, <4>1
    <3>3. CASE f = h /\ f < g
      <4>1. f \in 1..g - 1
        BY <1>0, <3>3
      <4> QED BY <2>2, <2>3, <3>3, <4>1
    <3> QED BY <1>0, <2>5, <3>1, <3>2, <3>3
  <2>8. Len(u) = Len(w) /\ f \in DOMAIN u
    BY <1>0, <2>1
  <2> QED BY <2>6, <2>7, <2>8 DEF Before
<1> QED BY <1>1, <1>2

(* It is kept by one letter more.                                          *)
LEMMA BeforeAppend ==
  ASSUME NEW u \in Seq(Char), NEW v \in Seq(Char), AtMost(u, v),
         NEW c \in Char, NEW d \in Char, c <= d
  PROVE  AtMost(Append(u, c), Append(v, d))
<1>0. /\ Len(u) \in Nat /\ DOMAIN u = 1..Len(u) /\ \A h \in 1..Len(u) : u[h] \in Nat
      /\ Len(v) \in Nat /\ DOMAIN v = 1..Len(v) /\ \A h \in 1..Len(v) : v[h] \in Nat
  BY WordParts
<1> DEFINE x == Append(u, c)
           y == Append(v, d)
<1>1. /\ Len(x) = Len(u) + 1 /\ DOMAIN x = 1..Len(u) + 1 /\ x[Len(u) + 1] = c
      /\ \A h \in 1..Len(u) : x[h] = u[h]
      /\ Len(y) = Len(v) + 1 /\ DOMAIN y = 1..Len(v) + 1 /\ y[Len(v) + 1] = d
      /\ \A h \in 1..Len(v) : y[h] = v[h]
  OBVIOUS
<1>2. c \in Nat /\ d \in Nat
  BY CharAssumption DEF Char
<1>3. CASE u = v /\ c = d
  BY <1>3 DEF AtMost
<1> HIDE DEF x, y
<1>4. CASE u = v /\ c < d
  <2>1. Len(u) + 1 \in DOMAIN x /\ x[Len(u) + 1] < y[Len(u) + 1] /\ Len(x) = Len(y)
    BY <1>0, <1>1, <1>4
  <2>2. \A j \in 1..(Len(u) + 1) - 1 : x[j] = y[j]
    BY <1>0, <1>1, <1>4
  <2>3. Before(x, y)
    BY <2>1, <2>2 DEF Before
  <2> QED BY <2>3 DEF AtMost, x, y
<1>5. CASE Len(u) < Len(v)
  <2>1. Before(x, y)
    BY <1>0, <1>1, <1>5 DEF Before
  <2> QED BY <2>1 DEF AtMost, x, y
<1>6. CASE Len(u) = Len(v) /\ u # v
  <2>1. PICK h \in 1..Len(u) : u[h] < v[h] /\ \A j \in 1..h - 1 : u[j] = v[j]
    BY <1>0, <1>6 DEF AtMost, Before
  <2>2. h \in DOMAIN x /\ x[h] < y[h] /\ Len(x) = Len(y)
    BY <1>0, <1>1, <1>6, <2>1
  <2>3. \A j \in 1..h - 1 : x[j] = y[j]
    BY <1>0, <1>1, <1>6, <2>1
  <2>4. Before(x, y)
    BY <2>2, <2>3 DEF Before
  <2> QED BY <2>4 DEF AtMost, x, y
<1>7. u # v => Len(u) < Len(v) \/ Len(u) = Len(v)
  BY DEF AtMost, Before
<1> QED BY <1>2, <1>3, <1>4, <1>5, <1>6, <1>7

LEMMA BeforeLonger ==
  ASSUME NEW u \in Seq(Char), NEW v \in Seq(Char), AtMost(u, v), NEW c \in Char
  PROVE  Len(u) <= Len(v) /\ AtMost(u, Append(v, c))
<1>1. Len(u) \in Nat /\ Len(v) \in Nat /\ Len(Append(v, c)) = Len(v) + 1
  BY WordParts
<1>2. Len(u) <= Len(v)
  BY <1>1 DEF AtMost, Before
<1> QED BY <1>1, <1>2 DEF AtMost, Before

(* A set of words with a first one.                                        *)
IsFirst(u, L) == u \in L /\ \A v \in L : AtMost(u, v)

HasFirst(L) == \E u : IsFirst(u, L)

LEMMA LeastIs ==
  ASSUME NEW L \in SUBSET Seq(Char), NEW u, IsFirst(u, L)
  PROVE  Least(L) = u
<1> DEFINE P(x) == \A v \in L : x = v \/ Before(x, v)
<1>1. u \in L /\ P(u)
  BY DEF IsFirst, AtMost
<1>2. \A x \in L : P(x) => x = u
  <2> SUFFICES ASSUME NEW x \in L, P(x) PROVE x = u
    OBVIOUS
  <2>1. AtMost(x, u) /\ AtMost(u, x)
    BY <1>1 DEF AtMost
  <2> QED BY <1>1, <2>1, BeforeOneWay
<1>3. Least(L) = CHOOSE x \in L : P(x)
  BY DEF Least
<1> HIDE DEF P
<1> QED BY <1>1, <1>2, <1>3

LEMMA LeastFirst ==
  ASSUME NEW L \in SUBSET Seq(Char), HasFirst(L)
  PROVE  IsFirst(Least(L), L)
BY LeastIs DEF HasFirst

LEMMA FirstOfOne ==
  ASSUME NEW u
  PROVE  HasFirst({u})
BY DEF HasFirst, IsFirst, AtMost

LEMMA FirstOfBoth ==
  ASSUME NEW L \in SUBSET Seq(Char), NEW K \in SUBSET Seq(Char), HasFirst(L), HasFirst(K)
  PROVE  HasFirst(L \cup K)
<1>1. PICK u : IsFirst(u, L)
  BY DEF HasFirst
<1>2. PICK v : IsFirst(v, K)
  BY DEF HasFirst
<1>3. u \in Seq(Char) /\ v \in Seq(Char)
  BY <1>1, <1>2 DEF IsFirst
<1>4. CASE AtMost(u, v)
  <2>1. \A w \in K : AtMost(u, w)
    BY <1>2, <1>3, <1>4, BeforeTransitive DEF IsFirst
  <2>2. IsFirst(u, L \cup K)
    BY <1>1, <2>1 DEF IsFirst
  <2> QED BY <2>2 DEF HasFirst
<1>5. CASE AtMost(v, u)
  <2>1. \A w \in L : AtMost(v, w)
    BY <1>1, <1>3, <1>5, BeforeTransitive DEF IsFirst
  <2>2. IsFirst(v, L \cup K)
    BY <1>2, <2>1 DEF IsFirst
  <2> QED BY <2>2 DEF HasFirst
<1> QED BY <1>3, <1>4, <1>5, BeforeTotal

LEMMA FirstAppended ==
  ASSUME NEW u \in Seq(Char), NEW X \in SUBSET Char, X # {}
  PROVE  HasFirst({Append(u, c) : c \in X})
<1>1. X \in SUBSET Nat
  BY CharAssumption DEF Char
<1>2. PICK c \in X : \A d \in X : c <= d
  BY <1>1, LeastNumber
<1>3. AtMost(u, u)
  BY DEF AtMost
<1>4. \A d \in X : AtMost(Append(u, c), Append(u, d))
  BY <1>2, <1>3, BeforeAppend
<1>5. IsFirst(Append(u, c), {Append(u, d) : d \in X})
  BY <1>4 DEF IsFirst
<1> QED BY <1>5 DEF HasFirst

-----------------------------------------------------------------------------
(* The queue of getShortestExample                                         *)

(* Its head is taken out and an order of new states put in.                *)
IsMoved(r, q, order) ==
  /\ r \in Seq(Nat) /\ NoDuplicates(r)
  /\ ToSet(r) = (ToSet(q) \ {q[1]}) \cup ToSet(order)
  /\ Head(q) = q[1] /\ q[1] \in ToSet(q)
  /\ Len(q) \in Nat \ {0} /\ Len(r) \in Nat
  /\ \A i \in 1..Len(r) : i < Len(q) => r[i] = q[i + 1]
  /\ \A i \in 1..Len(r) : i >= Len(q) => r[i] \in ToSet(order)

LEMMA QueueMoves ==
  ASSUME NEW q \in Seq(Nat), q # <<>>, NoDuplicates(q),
         NEW order \in Seq(Nat), NoDuplicates(order), ToSet(order) \cap ToSet(q) = {},
         NEW r, r = Tail(q) \o order
  PROVE  IsMoved(r, q, order)
<1>1. /\ Tail(q) \in Seq(Nat) /\ Len(q) \in Nat \ {0} /\ Len(order) \in Nat
      /\ Len(Tail(q)) = Len(q) - 1 /\ Head(q) = q[1]
      /\ \A i \in 1..Len(q) - 1 : Tail(q)[i] = q[i + 1]
      /\ DOMAIN q = 1..Len(q) /\ DOMAIN order = 1..Len(order)
  OBVIOUS
<1>2. /\ r \in Seq(Nat) /\ Len(r) = (Len(q) - 1) + Len(order) /\ DOMAIN r = 1..Len(r)
      /\ \A i \in 1..Len(r) : r[i] = IF i <= Len(q) - 1 THEN Tail(q)[i]
                                     ELSE order[i - (Len(q) - 1)]
  BY <1>1
<1> DEFINE n == Len(q)
           l == Len(order)
<1>3. /\ n \in Nat \ {0} /\ l \in Nat /\ Len(r) = (n - 1) + l
      /\ \A i \in 1..Len(r) : i < n => r[i] = q[i + 1]
      /\ \A i \in 1..Len(r) : i >= n => r[i] = order[i - (n - 1)] /\ i - (n - 1) \in 1..l
  BY <1>1, <1>2
<1>4. DOMAIN q = 1..n /\ DOMAIN order = 1..l /\ DOMAIN r = 1..Len(r)
  BY <1>1, <1>2
<1>5. /\ \A x : x \in ToSet(q) <=> \E i \in 1..n : x = q[i]
      /\ \A x : x \in ToSet(order) <=> \E i \in 1..l : x = order[i]
      /\ \A x : x \in ToSet(r) <=> \E i \in 1..Len(r) : x = r[i]
  BY <1>4 DEF ToSet
<1>6. /\ \A i, j \in 1..n : q[i] = q[j] => i = j
      /\ \A i, j \in 1..l : order[i] = order[j] => i = j
  BY <1>4 DEF NoDuplicates
<1> HIDE DEF n, l
<1>7. \A i \in 1..Len(r) : i >= n => r[i] \in ToSet(order)
  BY <1>3, <1>5
<1>8. ASSUME NEW i \in 1..Len(r), i < n
      PROVE  r[i] = q[i + 1] /\ i + 1 \in 1..n /\ r[i] \in ToSet(q)
  <2>1. i + 1 \in 1..n
    BY <1>3, <1>8
  <2>2. r[i] = q[i + 1]
    BY <1>3, <1>8
  <2> QED BY <1>5, <2>1, <2>2
<1>9. NoDuplicates(r)
  <2> SUFFICES ASSUME NEW i \in 1..Len(r), NEW j \in 1..Len(r), r[i] = r[j] PROVE i = j
    BY <1>4 DEF NoDuplicates
  <2>1. i \in Nat /\ j \in Nat
    OBVIOUS
  <2>2. CASE i < n /\ j < n
    <3>1. i + 1 = j + 1
      BY <1>6, <1>8, <2>2
    <3> QED BY <2>1, <3>1
  <2>3. CASE i >= n /\ j >= n
    <3> DEFINE x == i - (n - 1)
               y == j - (n - 1)
    <3>1. x \in 1..l /\ y \in 1..l /\ order[x] = order[y]
      BY <1>3, <2>3
    <3>2. x = y => i = j
      BY <1>3, <2>1
    <3> HIDE DEF x, y
    <3> QED BY <1>6, <3>1, <3>2
  <2>4. CASE i < n /\ j >= n
    BY <1>7, <1>8, <2>4
  <2>5. CASE i >= n /\ j < n
    BY <1>7, <1>8, <2>5
  <2> QED BY <1>3, <2>1, <2>2, <2>3, <2>4, <2>5
<1>10. ASSUME NEW x \in ToSet(r) PROVE x \in (ToSet(q) \ {q[1]}) \cup ToSet(order)
  <2>1. PICK i \in 1..Len(r) : x = r[i]
    BY <1>5
  <2>2. CASE i < n
    <3>0. 1 \in 1..n /\ i + 1 # 1
      BY <1>3
    <3>1. x = q[i + 1] /\ i + 1 \in 1..n /\ x \in ToSet(q) /\ 1 \in 1..n /\ i + 1 # 1
      BY <1>8, <2>1, <2>2, <3>0
    <3>2. x # q[1]
      BY <1>6, <3>1
    <3> QED BY <3>1, <3>2
  <2>3. CASE i >= n
    BY <1>7, <2>1, <2>3
  <2> QED BY <1>3, <2>2, <2>3
<1>11. ASSUME NEW x \in ToSet(q), x # q[1] PROVE x \in ToSet(r)
  <2>1. PICK i \in 1..n : x = q[i]
    BY <1>5
  <2>2. i # 1
    BY <1>11, <2>1
  <2>3. i - 1 \in 1..Len(r) /\ i - 1 < n /\ (i - 1) + 1 = i
    BY <1>3, <2>2
  <2>4. r[i - 1] = q[i]
    BY <1>3, <2>3
  <2> QED BY <1>5, <2>1, <2>3, <2>4
<1>12. ASSUME NEW x \in ToSet(order) PROVE x \in ToSet(r)
  <2>1. PICK i \in 1..l : x = order[i]
    BY <1>5
  <2>2. i + (n - 1) \in 1..Len(r) /\ i + (n - 1) >= n /\ (i + (n - 1)) - (n - 1) = i
    BY <1>3
  <2>3. r[i + (n - 1)] = order[i]
    BY <1>3, <2>2
  <2> QED BY <1>5, <2>1, <2>2, <2>3
<1>13. q[1] \in ToSet(q)
  BY <1>3, <1>5
<1>14. ToSet(r) = (ToSet(q) \ {q[1]}) \cup ToSet(order)
  BY <1>10, <1>11, <1>12
<1> QED BY <1>1, <1>2, <1>3, <1>7, <1>9, <1>13, <1>14 DEF n, IsMoved

(* The words on the queue grow from its head on, by one letter at most,    *)
(* and those of the states taken out are not longer.                       *)
IsLayered(q, p) ==
  /\ \A i, j \in DOMAIN q : i <= j => Len(p[q[i]]) <= Len(p[q[j]])
  /\ \A i \in DOMAIN q : Len(p[q[i]]) <= Len(p[q[1]]) + 1
  /\ q # <<>> => \A x \in DOMAIN p \ ToSet(q) : Len(p[x]) <= Len(p[q[1]])

LEMMA LayersKept ==
  ASSUME NEW q \in Seq(Nat), q # <<>>, NoDuplicates(q),
         NEW p, ToSet(q) \subseteq DOMAIN p, \A x \in DOMAIN p : Len(p[x]) \in Nat,
         IsLayered(q, p),
         NEW order \in Seq(Nat), NoDuplicates(order), ToSet(order) \cap DOMAIN p = {},
         NEW r, r = Tail(q) \o order,
         NEW f, DOMAIN f = DOMAIN p \cup ToSet(order),
         \A x \in DOMAIN p : Len(f[x]) = Len(p[x]),
         \A x \in ToSet(order) : Len(f[x]) = Len(p[q[1]]) + 1
  PROVE  IsLayered(r, f)
<1> DEFINE n == Len(q)
           h == Len(p[q[1]])
<1>1. ToSet(order) \cap ToSet(q) = {}
  OBVIOUS
<1>2. /\ r \in Seq(Nat) /\ ToSet(r) = (ToSet(q) \ {q[1]}) \cup ToSet(order)
      /\ q[1] \in ToSet(q)
      /\ n \in Nat \ {0} /\ Len(r) \in Nat
      /\ \A i \in 1..Len(r) : i < n => r[i] = q[i + 1]
      /\ \A i \in 1..Len(r) : i >= n => r[i] \in ToSet(order)
  <2>1. IsMoved(r, q, order)
    BY <1>1, QueueMoves
  <2> QED BY <2>1 DEF IsMoved
<1>3. DOMAIN r = 1..Len(r) /\ DOMAIN q = 1..n
  BY <1>2
<1>4. h \in Nat
  BY <1>2
<1>5. /\ \A i, j \in 1..n : i <= j => Len(p[q[i]]) <= Len(p[q[j]])
      /\ \A i \in 1..n : Len(p[q[i]]) <= h + 1
      /\ \A x \in DOMAIN p \ ToSet(q) : Len(p[x]) <= h
  BY <1>3 DEF IsLayered
<1>6. \A i \in 1..n : q[i] \in ToSet(q) /\ Len(p[q[i]]) \in Nat
  BY <1>3 DEF ToSet
<1> HIDE DEF n, h
<1>either. \A i \in 1..Len(r) : i < n \/ i >= n
  <2>1. n \in Nat
    BY <1>2
  <2>2. \A i \in 1..Len(r) : i \in Int
    OBVIOUS
  <2> QED BY <2>1, <2>2
<1>7. ASSUME NEW i \in 1..Len(r), i < n
      PROVE  /\ i + 1 \in 1..n /\ r[i] = q[i + 1] /\ Len(f[r[i]]) = Len(p[q[i + 1]])
             /\ Len(p[q[i + 1]]) \in Nat
             /\ h <= Len(p[q[i + 1]]) /\ Len(p[q[i + 1]]) <= h + 1
  <2>1. i + 1 \in 1..n /\ 1 \in 1..n /\ 1 <= i + 1 /\ r[i] = q[i + 1]
    BY <1>2, <1>7
  <2>2. h <= Len(p[q[i + 1]]) /\ Len(p[q[i + 1]]) <= h + 1
    BY <1>5, <2>1 DEF h
  <2> QED BY <1>6, <2>1, <2>2
<1>8. ASSUME NEW i \in 1..Len(r), i >= n PROVE Len(f[r[i]]) = h + 1
  BY <1>2, <1>8 DEF h
<1>9. ASSUME NEW i \in 1..Len(r)
      PROVE  Len(f[r[i]]) \in Nat /\ h <= Len(f[r[i]]) /\ Len(f[r[i]]) <= h + 1
  <2>1. CASE i < n
    BY <1>7, <2>1
  <2>2. CASE i >= n
    <3>1. Len(f[r[i]]) = h + 1
      BY <1>8, <2>2
    <3>2. h + 1 \in Nat /\ h <= h + 1 /\ h + 1 <= h + 1
      BY <1>4
    <3> QED BY <3>1, <3>2
  <2> QED BY <1>either, <2>1, <2>2
<1>10. ASSUME NEW i \in 1..Len(r), NEW j \in 1..Len(r), i <= j
       PROVE  Len(f[r[i]]) <= Len(f[r[j]])
  <2>1. CASE j >= n
    BY <1>4, <1>8, <1>9, <2>1
  <2>2. CASE j < n
    <3>1. i < n
      BY <1>2, <1>10, <2>2
    <3>2. i + 1 <= j + 1
      BY <1>10
    <3> QED BY <1>5, <1>7, <2>2, <3>1, <3>2
  <2> QED BY <1>either, <2>1, <2>2
<1>11. ASSUME NEW i \in 1..Len(r) PROVE Len(f[r[i]]) <= Len(f[r[1]]) + 1
  <2>1. 1 \in 1..Len(r)
    BY <1>2
  <2>2. /\ Len(f[r[1]]) \in Nat /\ h <= Len(f[r[1]])
        /\ Len(f[r[i]]) \in Nat /\ Len(f[r[i]]) <= h + 1
    BY <1>9, <2>1
  <2> DEFINE x == Len(f[r[i]])
             y == Len(f[r[1]])
  <2>3. x \in Nat /\ y \in Nat /\ h <= y /\ x <= h + 1
    BY <2>2
  <2> HIDE DEF x, y
  <2>4. x <= y + 1
    BY <1>4, <2>3
  <2> QED BY <2>4 DEF x, y
<1>12. ASSUME r # <<>>, NEW x \in DOMAIN f \ ToSet(r) PROVE Len(f[x]) <= Len(f[r[1]])
  <2>1. 1 \in 1..Len(r)
    BY <1>2, <1>12
  <2>2. x \in DOMAIN p /\ (x = q[1] \/ x \notin ToSet(q))
    BY <1>2
  <2>3. Len(p[x]) <= h
    BY <1>4, <1>5, <2>2 DEF h
  <2>4. Len(f[x]) = Len(p[x]) /\ Len(p[x]) \in Nat
    BY <2>2
  <2>5. Len(f[r[1]]) \in Nat /\ h <= Len(f[r[1]])
    BY <1>9, <2>1
  <2> DEFINE y == Len(f[r[1]])
             z == Len(p[x])
  <2>6. y \in Nat /\ z \in Nat /\ h <= y /\ z <= h /\ Len(f[x]) = z
    BY <2>3, <2>4, <2>5
  <2> HIDE DEF y, z
  <2>7. z <= y
    BY <1>4, <2>6
  <2> QED BY <2>6, <2>7 DEF y
<1> QED BY <1>3, <1>10, <1>11, <1>12 DEF IsLayered

-----------------------------------------------------------------------------
(* The search of getShortestExample                                        *)

(* The states met have a word that leads to them, those on the queue are   *)
(* there once.                                                             *)
SearchTyped ==
  /\ queue \in Seq(Nat) /\ NoDuplicates(queue)
  /\ ToSet(queue) \subseteq DOMAIN path /\ DOMAIN path \subseteq Nat
  /\ \A q \in DOMAIN path : path[q] \in Seq(Char) /\ q \in After(reg[1], path[q])
  /\ reg[1].q0 \in DOMAIN path /\ path[reg[1].q0] = <<>>

Popped == DOMAIN path \ ToSet(queue)

(* A state taken out has handed its word on, and the words that its        *)
(* targets got will not be later than that.                                *)
Explored ==
  \A q \in Popped \ reg[1].acc : \A t \in reg[1].trans :
    t[1] = q => t[4] \in DOMAIN path /\ AtMost(path[t[4]], Append(path[q], t[2]))

(* The best word is accepted and not later than those of the accepting     *)
(* states taken out.                                                       *)
BestSoFar ==
  /\ best \subseteq Seq(Char) /\ \A u, v \in best : u = v
  /\ \A w \in best : Accepts(reg[1], w)
  /\ \A q \in Popped \cap reg[1].acc : \E b \in best : AtMost(b, path[q])

Searched == SearchTyped /\ IsLayered(queue, path) /\ Explored /\ BestSoFar

LEMMA ExtensionsLead ==
  ASSUME IsAutomaton(reg[1], Nat), NEW q \in DOMAIN path,
         path[q] \in Seq(Char), q \in After(reg[1], path[q]), NEW r
  PROVE  /\ \A u \in Extensions(q, r) : /\ u \in Seq(Char) /\ Len(u) = Len(path[q]) + 1
                                        /\ r \in After(reg[1], u)
         /\ Extensions(q, r) # {} => HasFirst(Extensions(q, r))
<1> DEFINE m == reg[1]
           X == {t[2] : t \in {u \in m.trans : u[1] = q /\ u[4] = r}}
<1>1. Extensions(q, r) = {Append(path[q], c) : c \in X}
  BY DEF Extensions
<1>2. \A t \in m.trans : t[2] \in Char /\ t[2] \in Nat /\ t[2] <= t[3]
  BY Transition
<1>3. X \in SUBSET Char
  BY <1>2
<1>4. ASSUME NEW c \in X
      PROVE  /\ Append(path[q], c) \in Seq(Char) /\ Len(Append(path[q], c)) = Len(path[q]) + 1
             /\ r \in After(m, Append(path[q], c))
  <2>1. PICK t \in m.trans : t[1] = q /\ t[4] = r /\ t[2] = c
    OBVIOUS
  <2>2. c \in Char /\ c <= c /\ c <= t[3]
    BY <1>2, <2>1
  <2>3. After(m, Append(path[q], c)) = Step(m, After(m, path[q]), c)
    BY <2>2, AfterAppend
  <2>4. r \in Step(m, After(m, path[q]), c)
    BY <2>1, <2>2, StepBy
  <2> QED BY <2>2, <2>3, <2>4
<1> HIDE DEF X
<1>5. X # {} => HasFirst({Append(path[q], c) : c \in X})
  BY <1>3, FirstAppended
<1> QED BY <1>1, <1>4, <1>5

LEMMA ExtensionOf ==
  ASSUME NEW t \in reg[1].trans
  PROVE  Append(path[t[1]], t[2]) \in Extensions(t[1], t[4])
BY DEF Extensions

(* The word of a state when the one q is expanded.                         *)
SameLength(q, r) == {u \in Extensions(q, r) : Len(u) = Len(path[r])}

LEMMA WordRevised ==
  ASSUME IsAutomaton(reg[1], Nat), NEW q \in DOMAIN path,
         path[q] \in Seq(Char), q \in After(reg[1], path[q]),
         NEW r \in DOMAIN path, path[r] \in Seq(Char), r \in After(reg[1], path[r]),
         NEW w, w = Least({path[r]} \cup SameLength(q, r))
  PROVE  /\ w \in Seq(Char) /\ r \in After(reg[1], w)
         /\ Len(w) = Len(path[r]) /\ AtMost(w, path[r])
         /\ \A u \in SameLength(q, r) : AtMost(w, u)
         /\ Len(path[r]) # Len(path[q]) + 1 => w = path[r]
<1> DEFINE S == SameLength(q, r)
           L == {path[r]} \cup S
<1>1. /\ \A u \in Extensions(q, r) : /\ u \in Seq(Char) /\ Len(u) = Len(path[q]) + 1
                                     /\ r \in After(reg[1], u)
      /\ Extensions(q, r) # {} => HasFirst(Extensions(q, r))
  BY ExtensionsLead
<1>2. S = {} \/ (S = Extensions(q, r) /\ Len(path[r]) = Len(path[q]) + 1)
  BY <1>1 DEF SameLength
<1>3. S \in SUBSET Seq(Char) /\ {path[r]} \in SUBSET Seq(Char) /\ L \in SUBSET Seq(Char)
  BY <1>1 DEF SameLength
<1>4. HasFirst({path[r]})
  BY FirstOfOne
<1>5. HasFirst(L)
  <2>1. CASE S = {}
    <3>1. L = {path[r]}
      BY <2>1
    <3> QED BY <1>4, <3>1
  <2>2. CASE S # {}
    <3>1. HasFirst(S)
      BY <1>1, <1>2, <2>2
    <3> HIDE DEF S
    <3> QED BY <1>3, <1>4, <3>1, FirstOfBoth
  <2> QED BY <2>1, <2>2
<1>6. IsFirst(w, L)
  <2>1. w = Least(L)
    OBVIOUS
  <2> HIDE DEF L
  <2> QED BY <1>3, <1>5, <2>1, LeastFirst
<1>7. w = path[r] \/ w \in S
  BY <1>6 DEF IsFirst
<1>8. AtMost(w, path[r]) /\ \A u \in S : AtMost(w, u)
  BY <1>6 DEF IsFirst
<1>9. \A u \in S : u \in Seq(Char) /\ r \in After(reg[1], u) /\ Len(u) = Len(path[r])
  BY <1>1 DEF SameLength
<1> HIDE DEF S
<1>10. Len(path[r]) # Len(path[q]) + 1 => w = path[r]
  BY <1>2, <1>7
<1> QED BY <1>7, <1>8, <1>9, <1>10 DEF S

(* The states taken out when the head of the queue is.                     *)
LEMMA PoppedHead ==
  ASSUME SearchTyped, queue # <<>>,
         NEW order \in Seq(Nat), NoDuplicates(order), ToSet(order) \cap DOMAIN path = {},
         queue' = Tail(queue) \o order, DOMAIN path' = DOMAIN path \cup ToSet(order)
  PROVE  /\ queue' \in Seq(Nat) /\ NoDuplicates(queue') /\ ToSet(queue') \subseteq DOMAIN path'
         /\ DOMAIN path' \subseteq Nat
         /\ Head(queue) = queue[1] /\ queue[1] \in DOMAIN path
         /\ Popped' = Popped \cup {queue[1]} /\ Popped \subseteq DOMAIN path
<1>1. /\ queue \in Seq(Nat) /\ NoDuplicates(queue)
      /\ ToSet(queue) \subseteq DOMAIN path /\ DOMAIN path \subseteq Nat
  BY DEF SearchTyped
<1>2. IsMoved(queue', queue, order)
  BY <1>1, QueueMoves
<1>3. /\ queue' \in Seq(Nat) /\ NoDuplicates(queue')
      /\ ToSet(queue') = (ToSet(queue) \ {queue[1]}) \cup ToSet(order)
      /\ Head(queue) = queue[1] /\ queue[1] \in ToSet(queue)
  BY <1>2 DEF IsMoved
<1>4. ToSet(order) \subseteq Nat
  BY DEF ToSet
<1>5. Popped' = DOMAIN path' \ ToSet(queue')
  BY DEF Popped
<1>6. Popped' = Popped \cup {queue[1]}
  BY <1>1, <1>3, <1>5 DEF Popped
<1> QED BY <1>1, <1>3, <1>4, <1>6 DEF Popped

(* An accepting state only gives the best word.                            *)
LEMMA AcceptingKeeps ==
  ASSUME IsAutomaton(reg[1], Nat), Searched, SearchAccepting
  PROVE  Searched'
<1> DEFINE h == queue[1]
           nil == <<>>
           L == best \cup {path[h]}
<1>1. /\ reg' = reg /\ path' = path /\ queue' = Tail(queue) /\ queue # <<>>
      /\ Head(queue) \in reg[1].acc /\ best' = {Least(best \cup {path[Head(queue)]})}
  BY DEF SearchAccepting
<1>2. SearchTyped /\ IsLayered(queue, path) /\ Explored /\ BestSoFar
  BY DEF Searched
<1>3. queue \in Seq(Nat) /\ Tail(queue) \in Seq(Nat)
  BY <1>1, <1>2 DEF SearchTyped
<1>4. queue' = Tail(queue) \o nil /\ nil \in Seq(Nat) /\ ToSet(nil) = {} /\ NoDuplicates(nil)
  BY <1>1, <1>3 DEF ToSet, NoDuplicates
<1> HIDE DEF nil
<1>5. DOMAIN path' = DOMAIN path \cup ToSet(nil) /\ ToSet(nil) \cap DOMAIN path = {}
  BY <1>1, <1>4
<1>6. /\ queue' \in Seq(Nat) /\ NoDuplicates(queue') /\ ToSet(queue') \subseteq DOMAIN path'
      /\ DOMAIN path' \subseteq Nat
      /\ Head(queue) = h /\ h \in DOMAIN path
      /\ Popped' = Popped \cup {h} /\ Popped \subseteq DOMAIN path
  BY <1>1, <1>2, <1>4, <1>5, PoppedHead
<1>7. \A q \in DOMAIN path : path[q] \in Seq(Char) /\ q \in After(reg[1], path[q])
  BY <1>2 DEF SearchTyped
<1>8. SearchTyped'
  BY <1>1, <1>2, <1>6 DEF SearchTyped
<1>9. IsLayered(queue', path')
  <2>1. \A x \in DOMAIN path : Len(path[x]) \in Nat
    BY <1>7, WordParts
  <2>2. NoDuplicates(queue) /\ ToSet(queue) \subseteq DOMAIN path
    BY <1>2 DEF SearchTyped
  <2>3. /\ \A x \in DOMAIN path : Len(path'[x]) = Len(path[x])
        /\ \A x \in ToSet(nil) : Len(path'[x]) = Len(path[queue[1]]) + 1
    BY <1>1, <1>4
  <2> QED BY <1>1, <1>2, <1>3, <1>4, <1>5, <2>1, <2>2, <2>3, LayersKept
<1>10. Explored'
  <2>1. Popped' \ reg'[1].acc \subseteq Popped \ reg[1].acc
    BY <1>1, <1>6
  <2> QED BY <1>1, <1>2, <2>1 DEF Explored
<1>11. BestSoFar'
  <2>1. /\ best \subseteq Seq(Char) /\ \A u, v \in best : u = v
        /\ \A w \in best : Accepts(reg[1], w)
        /\ \A q \in Popped \cap reg[1].acc : \E b \in best : AtMost(b, path[q])
    BY <1>2 DEF BestSoFar
  <2>2. path[h] \in Seq(Char) /\ Accepts(reg[1], path[h])
    BY <1>1, <1>6, <1>7 DEF Accepts
  <2>3. HasFirst(L)
    <3>1. HasFirst({path[h]})
      BY FirstOfOne
    <3>2. CASE best = {}
      <4>1. L = {path[h]}
        BY <3>2
      <4> QED BY <3>1, <4>1
    <3>3. CASE best # {}
      <4>1. PICK b \in best : TRUE
        BY <3>3
      <4>2. best = {b}
        BY <2>1, <4>1
      <4>3. HasFirst(best)
        BY <4>2, FirstOfOne
      <4> QED BY <2>1, <2>2, <3>1, <4>3, FirstOfBoth
    <3> QED BY <3>2, <3>3
  <2>4. L \in SUBSET Seq(Char)
    BY <2>1, <2>2
  <2> DEFINE y == Least(L)
  <2>5. IsFirst(y, L)
    <3> HIDE DEF L
    <3> QED BY <2>3, <2>4, LeastFirst
  <2>6. best' = {y}
    BY <1>1, <1>6
  <2>7. y \in L /\ \A v \in L : AtMost(y, v)
    BY <2>5 DEF IsFirst
  <2> HIDE DEF y
  <2>8. y \in Seq(Char) /\ Accepts(reg[1], y)
    BY <2>1, <2>2, <2>7
  <2>9. ASSUME NEW q \in Popped', q \in reg[1].acc PROVE AtMost(y, path[q])
    <3>1. CASE q = h
      BY <2>7, <3>1
    <3>2. CASE q # h
      <4>1. PICK b \in best : AtMost(b, path[q])
        BY <1>6, <2>1, <2>9, <3>2
      <4>2. AtMost(y, b) /\ b \in Seq(Char) /\ path[q] \in Seq(Char)
        BY <1>6, <1>7, <2>1, <2>7, <2>9, <3>2
      <4> QED BY <2>8, <4>1, <4>2, BeforeTransitive
    <3> QED BY <3>1, <3>2
  <2> QED BY <1>1, <2>6, <2>8, <2>9 DEF BestSoFar
<1> QED BY <1>8, <1>9, <1>10, <1>11 DEF Searched

(* What an expanded state does to the words.                               *)
Targets(q) == {t[4] : t \in {u \in reg[1].trans : u[1] = q}}

LEMMA ExpandRevises ==
  ASSUME IsAutomaton(reg[1], Nat), SearchTyped, SearchExpand
  PROVE  /\ queue # <<>> /\ Head(queue) = queue[1] /\ queue[1] \in DOMAIN path
         /\ queue[1] \notin reg[1].acc
         /\ reg' = reg /\ best' = best
         /\ DOMAIN path' = DOMAIN path \cup Targets(queue[1])
         /\ \A r \in DOMAIN path :
              /\ path'[r] \in Seq(Char) /\ r \in After(reg[1], path'[r])
              /\ Len(path'[r]) = Len(path[r]) /\ AtMost(path'[r], path[r])
              /\ \A u \in SameLength(queue[1], r) : AtMost(path'[r], u)
              /\ Len(path[r]) # Len(path[queue[1]]) + 1 => path'[r] = path[r]
         /\ \A r \in Targets(queue[1]) \ DOMAIN path :
              /\ path'[r] \in Seq(Char) /\ r \in After(reg[1], path'[r])
              /\ Len(path'[r]) = Len(path[queue[1]]) + 1
              /\ \A u \in Extensions(queue[1], r) : AtMost(path'[r], u)
<1> DEFINE h == queue[1]
           new == Targets(h) \ DOMAIN path
<1>1. queue \in Seq(Nat) /\ queue # <<>> /\ ToSet(queue) \subseteq DOMAIN path
  BY DEF SearchTyped, SearchExpand
<1>2. Head(queue) = h /\ h \in DOMAIN path
  <2>1. Head(queue) = h /\ 1 \in DOMAIN queue
    BY <1>1
  <2> QED BY <1>1, <2>1 DEF ToSet
<1>3. /\ reg' = reg /\ best' = best /\ h \notin reg[1].acc
      /\ path' = [r \in DOMAIN path \cup new |->
                    IF r \in new THEN Least(Extensions(h, r))
                                 ELSE Least({path[r]} \cup SameLength(h, r))]
  BY <1>2 DEF SearchExpand, SameLength, Targets
<1>4. \A q \in DOMAIN path : path[q] \in Seq(Char) /\ q \in After(reg[1], path[q])
  BY DEF SearchTyped
<1> HIDE DEF h
<1>5. DOMAIN path' = DOMAIN path \cup Targets(h)
  BY <1>3
<1>6. ASSUME NEW r \in DOMAIN path
      PROVE  /\ path'[r] \in Seq(Char) /\ r \in After(reg[1], path'[r])
             /\ Len(path'[r]) = Len(path[r]) /\ AtMost(path'[r], path[r])
             /\ \A u \in SameLength(h, r) : AtMost(path'[r], u)
             /\ Len(path[r]) # Len(path[h]) + 1 => path'[r] = path[r]
  <2>1. path'[r] = Least({path[r]} \cup SameLength(h, r))
    BY <1>3
  <2>2. /\ path[h] \in Seq(Char) /\ h \in After(reg[1], path[h])
        /\ path[r] \in Seq(Char) /\ r \in After(reg[1], path[r])
    BY <1>2, <1>4
  <2> QED BY <1>2, <2>1, <2>2, WordRevised
<1>7. ASSUME NEW r \in Targets(h), r \notin DOMAIN path
      PROVE  /\ path'[r] \in Seq(Char) /\ r \in After(reg[1], path'[r])
             /\ Len(path'[r]) = Len(path[h]) + 1
             /\ \A u \in Extensions(h, r) : AtMost(path'[r], u)
  <2>1. path'[r] = Least(Extensions(h, r))
    BY <1>3, <1>7
  <2>2. path[h] \in Seq(Char) /\ h \in After(reg[1], path[h])
    BY <1>2, <1>4
  <2>3. Extensions(h, r) # {}
    <3>1. PICK t \in reg[1].trans : t[1] = h /\ t[4] = r
      BY DEF Targets
    <3> QED BY <3>1, ExtensionOf
  <2>4. /\ \A u \in Extensions(h, r) : /\ u \in Seq(Char) /\ Len(u) = Len(path[h]) + 1
                                       /\ r \in After(reg[1], u)
        /\ HasFirst(Extensions(h, r))
    BY <1>2, <2>2, <2>3, ExtensionsLead
  <2>5. IsFirst(path'[r], Extensions(h, r))
    BY <2>1, <2>4, LeastFirst
  <2> QED BY <2>4, <2>5 DEF IsFirst
<1> QED BY <1>1, <1>2, <1>3, <1>5, <1>6, <1>7 DEF h

(* A state that does not accept hands its word on.                         *)
LEMMA ExpandKeeps ==
  ASSUME IsAutomaton(reg[1], Nat), Searched, SearchExpand
  PROVE  Searched'
<1> DEFINE h == queue[1]
           new == Targets(h) \ DOMAIN path
<1>1. SearchTyped /\ IsLayered(queue, path) /\ Explored /\ BestSoFar
  BY DEF Searched
<1>2. /\ queue # <<>> /\ Head(queue) = h /\ h \in DOMAIN path /\ h \notin reg[1].acc
      /\ reg' = reg /\ best' = best /\ DOMAIN path' = DOMAIN path \cup Targets(h)
  BY <1>1, ExpandRevises
<1>3. \A r \in DOMAIN path :
        /\ path'[r] \in Seq(Char) /\ r \in After(reg[1], path'[r])
        /\ Len(path'[r]) = Len(path[r]) /\ AtMost(path'[r], path[r])
        /\ \A u \in SameLength(h, r) : AtMost(path'[r], u)
        /\ Len(path[r]) # Len(path[h]) + 1 => path'[r] = path[r]
  BY <1>1, ExpandRevises
<1>4. \A r \in Targets(h) \ DOMAIN path :
        /\ path'[r] \in Seq(Char) /\ r \in After(reg[1], path'[r])
        /\ Len(path'[r]) = Len(path[h]) + 1
        /\ \A u \in Extensions(h, r) : AtMost(path'[r], u)
  BY <1>1, ExpandRevises
<1>5. /\ queue \in Seq(Nat) /\ NoDuplicates(queue) /\ ToSet(queue) \subseteq DOMAIN path
      /\ DOMAIN path \subseteq Nat
      /\ \A q \in DOMAIN path : path[q] \in Seq(Char) /\ q \in After(reg[1], path[q])
      /\ reg[1].q0 \in DOMAIN path /\ path[reg[1].q0] = <<>>
  BY <1>1 DEF SearchTyped
<1>6. \A t \in reg[1].trans : t[2] \in Char /\ t[4] \in Nat
  BY Transition
<1>7. PICK order \in SetToSeqs(new) : queue' = Tail(queue) \o order
  BY <1>2 DEF SearchExpand, Targets
<1>8. order \in Seq(Nat) /\ NoDuplicates(order) /\ ToSet(order) = new
  <2>1. IsFiniteSet(reg[1].trans)
    BY DEF IsAutomaton
  <2>2. IsFiniteSet(Targets(h))
    <3> DEFINE from == {u \in reg[1].trans : u[1] = h}
               target == [t \in from |-> t[4]]
    <3>1. IsFiniteSet(from)
      BY <2>1, FS_Subset
    <3>2. Targets(h) = {target[t] : t \in from}
      BY DEF Targets
    <3>3. target \in [from -> Nat]
      BY <1>6
    <3> HIDE DEF from, target
    <3>4. IsFiniteSet({target[t] : t \in from})
      BY <3>1, <3>3, FiniteImage
    <3> QED BY <3>2, <3>4
  <2>3. IsFiniteSet(new)
    BY <2>2, FS_Subset
  <2>4. new \subseteq Nat
    BY <1>6 DEF Targets
  <2> HIDE DEF new
  <2>5. order \in Seq(new) /\ ToSet(order) = new /\ NoDuplicates(order)
    BY <1>7, <2>3, Orders
  <2>6. order \in Seq(Nat)
    <3>1. order \in [1..Len(order) -> new] /\ Len(order) \in Nat
      BY <2>5
    <3>2. order \in [1..Len(order) -> Nat]
      BY <2>4, <3>1
    <3> QED BY <3>1, <3>2
  <2> QED BY <2>5, <2>6
<1>9. ToSet(order) \cap DOMAIN path = {} /\ DOMAIN path' = DOMAIN path \cup ToSet(order)
  BY <1>2, <1>8
<1>10. /\ queue' \in Seq(Nat) /\ NoDuplicates(queue') /\ ToSet(queue') \subseteq DOMAIN path'
       /\ DOMAIN path' \subseteq Nat
       /\ Popped' = Popped \cup {h} /\ Popped \subseteq DOMAIN path
  BY <1>1, <1>2, <1>7, <1>8, <1>9, PoppedHead
<1>11. ASSUME NEW r \in DOMAIN path' PROVE path'[r] \in Seq(Char) /\ r \in After(reg[1], path'[r])
  BY <1>2, <1>3, <1>4
<1>12. \A x \in DOMAIN path : Len(path[x]) \in Nat
  BY <1>5, WordParts
<1>13. SearchTyped'
  <2>1. reg[1].q0 \in DOMAIN path' /\ path'[reg[1].q0] = <<>>
    <3> DEFINE x == path'[reg[1].q0]
    <3>1. x \in Seq(Char) /\ Len(x) = Len(<<>>)
      BY <1>3, <1>5
    <3> HIDE DEF x
    <3>2. x = <<>>
      BY <3>1
    <3> QED BY <1>2, <1>5, <3>2 DEF x
  <2> QED BY <1>2, <1>10, <1>11, <2>1 DEF SearchTyped
<1>14. IsLayered(queue', path')
  <2>1. /\ \A x \in DOMAIN path : Len(path'[x]) = Len(path[x])
        /\ \A x \in ToSet(order) : Len(path'[x]) = Len(path[queue[1]]) + 1
    BY <1>3, <1>4, <1>8
  <2> QED BY <1>1, <1>2, <1>5, <1>7, <1>8, <1>9, <1>12, <2>1, LayersKept
(* The words of the states met are at most one letter longer than that of  *)
(* the head, those of the states taken out are not longer.                 *)
<1>15. /\ \A x \in Popped : Len(path[x]) <= Len(path[h])
       /\ \A x \in DOMAIN path : Len(path[x]) <= Len(path[h]) + 1
  <2>1. /\ \A i \in DOMAIN queue : Len(path[queue[i]]) <= Len(path[h]) + 1
        /\ \A x \in DOMAIN path \ ToSet(queue) : Len(path[x]) <= Len(path[h])
    BY <1>1, <1>2 DEF IsLayered
  <2>2. Len(path[h]) \in Nat
    BY <1>2, <1>12
  <2>3. ASSUME NEW x \in DOMAIN path PROVE Len(path[x]) <= Len(path[h]) + 1
    <3>1. CASE x \in ToSet(queue)
      BY <2>1, <3>1 DEF ToSet
    <3>2. CASE x \notin ToSet(queue)
      BY <1>12, <2>1, <2>2, <3>2
    <3> QED BY <3>1, <3>2
  <2> QED BY <2>1, <2>3 DEF Popped
<1>16. \A x \in Popped' : path'[x] = path[x] /\ x \in DOMAIN path
  <2> SUFFICES ASSUME NEW x \in Popped' PROVE path'[x] = path[x] /\ x \in DOMAIN path
    OBVIOUS
  <2>1. x \in DOMAIN path
    BY <1>2, <1>10
  <2>2. Len(path[x]) <= Len(path[h]) /\ Len(path[x]) \in Nat /\ Len(path[h]) \in Nat
    BY <1>2, <1>10, <1>12, <1>15, <2>1
  <2>3. Len(path[x]) # Len(path[h]) + 1
    BY <2>2
  <2> QED BY <1>3, <2>1, <2>3
<1>17. Explored'
  <2> SUFFICES ASSUME NEW q \in Popped', q \notin reg[1].acc, NEW t \in reg[1].trans, t[1] = q
               PROVE  t[4] \in DOMAIN path' /\ AtMost(path'[t[4]], Append(path'[q], t[2]))
    BY <1>2 DEF Explored
  <2>1. path'[q] = path[q] /\ q \in DOMAIN path
    BY <1>16
  <2> DEFINE r == t[4]
             w == Append(path[q], t[2])
  <2>2. w \in Seq(Char)
    BY <1>5, <1>6, <2>1
  <2>3. CASE q \in Popped
    <3>1. r \in DOMAIN path /\ AtMost(path[r], w)
      BY <1>1, <2>3 DEF Explored
    <3>2. AtMost(path'[r], path[r]) /\ path'[r] \in Seq(Char) /\ path[r] \in Seq(Char)
      BY <1>3, <1>5, <3>1
    <3> HIDE DEF w
    <3>3. AtMost(path'[r], w)
      BY <2>2, <3>1, <3>2, BeforeTransitive
    <3> QED BY <1>2, <2>1, <3>1, <3>3 DEF w
  <2>4. CASE q = h
    <3>1. w \in Extensions(h, r)
      BY <2>4, ExtensionOf
    <3>2. r \in Targets(h)
      BY <2>4 DEF Targets
    <3>3. Len(w) = Len(path[h]) + 1
      BY <1>5, <1>6, <2>1, <2>4
    <3> HIDE DEF w, r
    <3>4. AtMost(path'[r], w)
      <4>1. CASE r \notin DOMAIN path
        BY <1>4, <3>1, <3>2, <4>1
      <4>2. CASE r \in DOMAIN path /\ Len(path[r]) = Len(path[h]) + 1
        <5>1. w \in SameLength(h, r)
          BY <3>1, <3>3, <4>2 DEF SameLength
        <5> QED BY <1>3, <4>2, <5>1
      <4>3. CASE r \in DOMAIN path /\ Len(path[r]) # Len(path[h]) + 1
        <5>1. path'[r] = path[r] /\ Len(path[r]) \in Nat /\ Len(path[h]) \in Nat
              /\ Len(path[r]) <= Len(path[h]) + 1
          BY <1>2, <1>3, <1>12, <1>15, <4>3
        <5>2. Len(path'[r]) < Len(w)
          BY <3>3, <4>3, <5>1
        <5> QED BY <5>2 DEF AtMost, Before
      <4> QED BY <4>1, <4>2, <4>3
    <3> QED BY <1>2, <2>1, <3>2, <3>4 DEF w, r
  <2> QED BY <1>10, <2>3, <2>4
<1>18. BestSoFar'
  <2>1. Popped' \cap reg[1].acc \subseteq Popped \cap reg[1].acc
    BY <1>2, <1>10
  <2>2. \A q \in Popped' \cap reg[1].acc : \E b \in best : AtMost(b, path'[q])
    BY <1>1, <1>16, <2>1 DEF BestSoFar
  <2> QED BY <1>1, <1>2, <2>2 DEF BestSoFar
<1> QED BY <1>13, <1>14, <1>17, <1>18 DEF Searched

(* Where the search of getShortestExample is; the word of a singleton is   *)
(* found at once.                                                          *)
SearchKept ==
  /\ phase \in {"idle", "search", "found"}
  /\ phase = "idle" => best = {}
  /\ phase = "search" => ~ IsSingleton(reg[1]) /\ Searched
  /\ phase = "found" => IF IsSingleton(reg[1]) THEN best = reg[1].word
                                               ELSE Searched /\ queue = <<>>

LEMMA FirstRegister ==
  ASSUME RegistersTidy
  PROVE  Tidy(reg[1]) /\ Sound(reg[1]) /\ NoneDead(reg[1]) /\ IsAutomaton(reg[1], Nat)
BY DEF RegistersTidy, TidyOnes, Tidy, Sound

LEMMA SearchStarts ==
  ASSUME IsAutomaton(reg[1], Nat), best = {}, StartSearch, ~ IsSingleton(reg[1])
  PROVE  Searched'
<1> DEFINE m == reg[1]
           q0 == m.q0
           nil == <<>>
<1>1. /\ reg' = reg /\ best' = {} /\ queue' = <<q0>> /\ path' = [q \in {q0} |-> nil]
  BY DEF StartSearch
<1>2. q0 \in Nat
  BY DEF IsAutomaton
<1>3. nil \in Seq(Char) /\ After(m, nil) = {q0}
  BY AfterAppend
<1> HIDE DEF q0, nil
<1>4. queue' \in Seq(Nat) /\ ToSet(queue') = {q0} /\ NoDuplicates(queue')
      /\ queue' # <<>> /\ DOMAIN queue' = {1} /\ queue'[1] = q0
  BY <1>1, <1>2 DEF ToSet, NoDuplicates
<1>5. DOMAIN path' = {q0} /\ path'[q0] = nil
  BY <1>1
<1>6. SearchTyped'
  BY <1>1, <1>2, <1>3, <1>4, <1>5 DEF SearchTyped, q0, nil
<1>7. IsLayered(queue', path')
  <2>1. Len(nil) \in Nat /\ Len(nil) <= Len(nil) /\ Len(nil) <= Len(nil) + 1
    BY <1>3
  <2> QED BY <1>4, <1>5, <2>1 DEF IsLayered
<1>8. Popped' = {}
  BY <1>4, <1>5 DEF Popped
<1> QED BY <1>1, <1>6, <1>7, <1>8 DEF Searched, Explored, BestSoFar

LEMMA SearchAtFirst == CallsInit => SearchKept
BY DEF CallsInit, SearchKept

(* A call is made while there is no search.                                *)
LEMMA CallKeepsSearch ==
  ASSUME SearchKept, NEW i \in 1..2, NEW m, NEW L, Call(i, m, L)
  PROVE  SearchKept'
<1>1. phase = "idle" /\ phase' = phase /\ best' = best
  BY DEF Call, search
<1> QED BY <1>1 DEF SearchKept

LEMMA SearchStays ==
  RegistersTidy /\ SearchKept /\ [CallsNext]_callsVars => SearchKept'
<1> SUFFICES ASSUME RegistersTidy, SearchKept, [CallsNext]_callsVars PROVE SearchKept'
  OBVIOUS
<1>1. IsAutomaton(reg[1], Nat) /\ Sound(reg[1])
  BY FirstRegister
<1>2. CASE StartSearch
  <2>1. phase = "idle" /\ best = {} /\ reg' = reg
    BY <1>2 DEF StartSearch, SearchKept
  <2>2. CASE IsSingleton(reg[1])
    <3>1. phase' = "found" /\ best' = reg'[1].word /\ IsSingleton(reg'[1])
      BY <1>2, <2>1, <2>2 DEF StartSearch
    <3> QED BY <3>1 DEF SearchKept
  <2>3. CASE ~ IsSingleton(reg[1])
    <3>1. Searched'
      BY <1>1, <1>2, <2>1, <2>3, SearchStarts
    <3>2. phase' = "search" /\ ~ IsSingleton(reg'[1])
      BY <1>2, <2>1, <2>3 DEF StartSearch
    <3> QED BY <3>1, <3>2 DEF SearchKept
  <2> QED BY <2>2, <2>3
<1>3. CASE SearchAccepting
  <2>1. phase = "search" /\ phase' = phase /\ reg' = reg
    BY <1>3 DEF SearchAccepting
  <2>2. ~ IsSingleton(reg[1]) /\ Searched
    BY <2>1 DEF SearchKept
  <2>3. Searched'
    BY <1>1, <1>3, <2>2, AcceptingKeeps
  <2> QED BY <2>1, <2>2, <2>3 DEF SearchKept
<1>4. CASE SearchExpand
  <2>1. phase = "search" /\ phase' = phase /\ reg' = reg
    BY <1>4 DEF SearchExpand
  <2>2. ~ IsSingleton(reg[1]) /\ Searched
    BY <2>1 DEF SearchKept
  <2>3. Searched'
    BY <1>1, <1>4, <2>2, ExpandKeeps
  <2> QED BY <2>1, <2>2, <2>3 DEF SearchKept
<1>5. CASE Found
  <2>1. /\ phase = "search" /\ queue = <<>> /\ phase' = "found"
        /\ reg' = reg /\ queue' = queue /\ path' = path /\ best' = best
    BY <1>5 DEF Found, search
  <2>2. ~ IsSingleton(reg[1]) /\ Searched
    BY <2>1 DEF SearchKept
  <2>3. Searched'
    BY <2>1, <2>2 DEF Searched, SearchTyped, IsLayered, Explored, BestSoFar, Popped
  <2> QED BY <2>1, <2>2, <2>3 DEF SearchKept
<1>6. CASE UNCHANGED callsVars
  <2>1. phase' = phase /\ reg' = reg /\ queue' = queue /\ path' = path /\ best' = best
    BY <1>6 DEF callsVars, search
  <2>2. Searched => Searched'
    BY <2>1 DEF Searched, SearchTyped, IsLayered, Explored, BestSoFar, Popped
  <2> QED BY <2>1, <2>2 DEF SearchKept
<1>7. CASE \/ DoConcatenate \/ DoUnion \/ DoUnionList \/ DoIntersection \/ DoMinus
           \/ DoComplement \/ DoDeterminize \/ DoOptional \/ DoRepeatMin \/ DoRepeatMinMax
  <2>1. \E i \in 1..2 : \E m, L : Call(i, m, L)
    BY <1>7 DEF DoConcatenate, DoUnion, DoUnionList, DoIntersection, DoMinus, DoComplement,
                DoDeterminize, DoOptional, DoRepeatMin, DoRepeatMinMax
  <2> QED BY <2>1, CallKeepsSearch
<1> QED BY <1>2, <1>3, <1>4, <1>5, <1>6, <1>7 DEF CallsNext

(* When the queue is empty, the best word or the word of a state the word  *)
(* leads to is not later than any word.                                    *)
Covered(w) ==
  \A q \in After(reg[1], w) :
    \/ \E b \in best : AtMost(b, w)
    \/ q \in DOMAIN path /\ AtMost(path[q], w)

LEMMA AllCovered ==
  ASSUME IsAutomaton(reg[1], Nat), Searched, queue = <<>>
  PROVE  \A w \in Seq(Char) : Covered(w)
<1> DEFINE m == reg[1]
           T == {w \in Seq(Char) : Covered(w)}
           nil == <<>>
<1>1. SearchTyped /\ Explored /\ BestSoFar
  BY DEF Searched
<1>2. /\ Popped = DOMAIN path
      /\ \A q \in DOMAIN path : path[q] \in Seq(Char)
      /\ m.q0 \in DOMAIN path /\ path[m.q0] = <<>>
  <2>1. ToSet(queue) = {}
    BY DEF ToSet
  <2> QED BY <1>1, <2>1 DEF SearchTyped, Popped
<1>3. /\ \A q \in DOMAIN path : q \notin m.acc => \A t \in m.trans :
           t[1] = q => t[4] \in DOMAIN path /\ AtMost(path[t[4]], Append(path[q], t[2]))
      /\ best \in SUBSET Seq(Char)
      /\ \A q \in DOMAIN path : q \in m.acc => \E b \in best : AtMost(b, path[q])
  BY <1>1, <1>2 DEF Explored, BestSoFar
<1>4. \A t \in m.trans : t[2] \in Char /\ t[4] \in Nat
  BY Transition
<1>5. nil \in T
  <2>1. After(m, nil) = {m.q0} /\ nil \in Seq(Char)
    BY AfterAppend
  <2> HIDE DEF nil
  <2>2. path[m.q0] = nil
    BY <1>2 DEF nil
  <2> QED BY <1>2, <2>1, <2>2 DEF Covered, AtMost
<1>6. ASSUME NEW w \in Seq(Char), NEW c \in Char, w \in T PROVE Append(w, c) \in T
  <2> DEFINE wc == Append(w, c)
  <2>1. wc \in Seq(Char) /\ After(m, wc) = Step(m, After(m, w), c)
    BY AfterAppend
  <2> HIDE DEF wc
  <2>2. ASSUME NEW r \in After(m, wc)
        PROVE  (\E b \in best : AtMost(b, wc)) \/ (r \in DOMAIN path /\ AtMost(path[r], wc))
    <3>1. PICK t \in m.trans : t[1] \in After(m, w) /\ t[2] <= c /\ c <= t[3] /\ t[4] = r
      BY <2>1, <2>2, StepBy
    <3> DEFINE q == t[1]
    <3>2. CASE \E b \in best : AtMost(b, w)
      <4>1. PICK b \in best : AtMost(b, w)
        BY <3>2
      <4>2. AtMost(b, wc)
        BY <1>3, <4>1, BeforeLonger DEF wc
      <4> QED BY <4>2
    <3>3. CASE q \in DOMAIN path /\ AtMost(path[q], w)
      <4>1. path[q] \in Seq(Char)
        BY <1>2, <3>3
      <4>2. CASE q \in m.acc
        <5>1. PICK b \in best : AtMost(b, path[q])
          BY <1>3, <3>3, <4>2
        <5>2. b \in Seq(Char)
          BY <1>3
        <5>3. AtMost(b, w)
          BY <3>3, <4>1, <5>1, <5>2, BeforeTransitive
        <5>4. AtMost(b, wc)
          BY <5>2, <5>3, BeforeLonger DEF wc
        <5> QED BY <5>4
      <4>3. CASE q \notin m.acc

        <5>1. r \in DOMAIN path /\ AtMost(path[r], Append(path[q], t[2]))
          BY <1>3, <3>1, <3>3, <4>3
        <5>2. AtMost(Append(path[q], t[2]), wc)
          BY <1>4, <3>1, <3>3, <4>1, BeforeAppend DEF wc
        <5>3. Append(path[q], t[2]) \in Seq(Char) /\ path[r] \in Seq(Char)
          BY <1>2, <1>4, <4>1, <5>1
        <5>4. AtMost(path[r], wc)
          BY <2>1, <5>1, <5>2, <5>3, BeforeTransitive
        <5> QED BY <5>1, <5>4
      <4> QED BY <4>2, <4>3
    <3> QED BY <1>6, <3>1, <3>2, <3>3 DEF Covered
  <2> QED BY <2>1, <2>2 DEF Covered, wc
<1>7. Seq(Char) \subseteq T
  <2>1. <<>> \in T
    BY <1>5
  <2> HIDE DEF T
  <2> QED BY <1>6, <2>1, WordInduction
<1> QED BY <1>7

(* getShortestExample answers with an accepted word that no accepted word  *)
(* comes before, and with no word only if none is accepted.                *)
ShortestOf(m, B) ==
  /\ B \subseteq Seq(Char) /\ \A u, v \in B : u = v
  /\ \A w \in B : Run(m, w)
  /\ \A w \in Seq(Char) : Run(m, w) => \E b \in B : AtMost(b, w)

LEMMA ShortestFound ==
  ASSUME RegistersTidy, SearchKept, phase = "found"
  PROVE  ShortestOf(reg[1], best)
<1> DEFINE m == reg[1]
<1>1. IsAutomaton(m, Nat) /\ Sound(m)
  BY FirstRegister
<1>2. CASE IsSingleton(m)
  <2>1. best = m.word
    BY <1>2 DEF SearchKept
  <2>2. PICK v \in Seq(Char) : m.word = {v} /\ \A w \in Seq(Char) : Run(m, w) <=> w = v
    BY <1>1, <1>2, OneWord
  <2> QED BY <2>1, <2>2 DEF ShortestOf, AtMost
<1>3. CASE ~ IsSingleton(m)
  <2>1. Searched /\ queue = <<>>
    BY <1>3 DEF SearchKept
  <2>2. /\ best \subseteq Seq(Char) /\ \A u, v \in best : u = v
        /\ \A w \in best : Accepts(m, w)
        /\ \A q \in Popped \cap m.acc : \E b \in best : AtMost(b, path[q])
    BY <2>1 DEF Searched, BestSoFar
  <2>3. Popped = DOMAIN path /\ \A q \in DOMAIN path : path[q] \in Seq(Char)
    <3>1. ToSet(queue) = {}
      BY <2>1 DEF ToSet
    <3> QED BY <2>1, <3>1 DEF Searched, SearchTyped, Popped
  <2>4. ASSUME NEW w \in Seq(Char), Accepts(m, w) PROVE \E b \in best : AtMost(b, w)
    <3>1. PICK q \in After(m, w) : q \in m.acc
      BY <2>4 DEF Accepts
    <3>2. Covered(w)
      BY <1>1, <2>1, AllCovered
    <3>3. CASE q \in DOMAIN path /\ AtMost(path[q], w)
      <4>1. PICK b \in best : AtMost(b, path[q])
        BY <2>2, <2>3, <3>1, <3>3
      <4>2. b \in Seq(Char) /\ path[q] \in Seq(Char)
        BY <2>2, <2>3, <3>3
      <4>3. AtMost(b, w)
        BY <3>3, <4>1, <4>2, BeforeTransitive
      <4> QED BY <4>3
    <3> QED BY <3>1, <3>2, <3>3 DEF Covered
  <2>5. \A w : Run(m, w) <=> Accepts(m, w)
    BY <1>3, RunExplicit
  <2> HIDE DEF m
  <2>6. ShortestOf(m, best)
    BY <2>2, <2>4, <2>5 DEF ShortestOf
  <2> QED BY <2>6 DEF m
<1> QED BY <1>2, <1>3

(* An automaton without dead transitions that accepts nothing counts as    *)
(* empty.                                                                  *)
LEMMA NothingAccepted ==
  ASSUME NEW m, Tidy(m), \A w \in Seq(Char) : ~ Run(m, w)
  PROVE  IsEmpty(m)
<1>1. Sound(m) /\ IsAutomaton(m, Nat) /\ NoneDead(m)
  BY DEF Tidy, Sound
<1>2. ~ IsSingleton(m)
  BY <1>1, OneWord
<1>3. \A w \in Seq(Char) : ~ Accepts(m, w)
  BY <1>2, RunExplicit
<1> DEFINE nil == <<>>
<1>4. nil \in Seq(Char) /\ After(m, nil) = {m.q0}
  BY AfterAppend
<1> HIDE DEF nil
<1>5. m.q0 \notin m.acc
  BY <1>3, <1>4 DEF Accepts
<1>6. ASSUME NEW t \in m.trans, t[1] = m.q0 PROVE FALSE
  <2> DEFINE u == Append(nil, t[2])
  <2>1. t[2] \in Char /\ t[2] <= t[2] /\ t[2] <= t[3]
    <3>1. t[2] \in Char /\ t[2] <= t[3]
      BY <1>1, Transition
    <3>2. t[2] \in Nat
      BY <3>1, CharAssumption DEF Char
    <3> QED BY <3>1, <3>2
  <2>2. u \in Seq(Char) /\ After(m, u) = Step(m, {m.q0}, t[2])
    <3>1. After(m, Append(nil, t[2])) = Step(m, After(m, nil), t[2])
      BY <1>4, <2>1, AfterAppend
    <3> QED BY <1>4, <2>1, <3>1
  <2> HIDE DEF u
  <2>3. t[4] \in After(m, u)
    BY <1>6, <2>1, <2>2, StepBy
  <2>4. t[4] \in Productive(m)
    BY <1>1 DEF NoneDead
  <2>5. Continued(m, u)
    BY <1>1, <2>2, <2>3, <2>4, ProductiveContinues
  <2>6. PICK v \in Seq(Char) : Accepts(m, u \o v)
    BY <2>5 DEF Continued
  <2>7. u \o v \in Seq(Char)
    BY <2>2
  <2> QED BY <1>3, <2>6, <2>7
<1> QED BY <1>2, <1>5, <1>6 DEF IsEmpty

(* After any sequence of calls getShortestExample returns the first of the *)
(* accepted words, the shorter ones coming first, and no word only if      *)
(* isEmpty holds (BasicOperations.getShortestExample).                     *)
THEOREM ShortestsAreExact == CallsSpec => []ShortestExact
<1> DEFINE Inv == LanguagesKept /\ SearchKept
<1>1. CallsInit => Inv
  BY KeptAtFirst, SearchAtFirst
<1>2. Inv /\ [CallsNext]_callsVars => Inv'
  BY LanguagesStay, SearchStays DEF LanguagesKept
<1>3. Inv => ShortestExact
  <2> SUFFICES ASSUME LanguagesKept, SearchKept, phase = "found"
               PROVE  /\ \A w \in best : Run(reg[1], w)
                      /\ best = {} => IsEmpty(reg[1])
                      /\ lang[1] # {} => best = {Least(lang[1])}
    BY DEF ShortestExact
  <2>1. RegistersTidy /\ LanguageExact
    BY DEF LanguagesKept
  <2>2. ShortestOf(reg[1], best)
    BY <2>1, ShortestFound
  <2>3. /\ best \subseteq Seq(Char) /\ \A u, v \in best : u = v
        /\ \A w \in best : Run(reg[1], w)
        /\ \A w \in Seq(Char) : Run(reg[1], w) => \E b \in best : AtMost(b, w)
    BY <2>2 DEF ShortestOf
  <2>4. best = {} => IsEmpty(reg[1])
    <3>1. Tidy(reg[1])
      BY <2>1, FirstRegister
    <3>2. best = {} => \A w \in Seq(Char) : ~ Run(reg[1], w)
      BY <2>3
    <3> QED BY <3>1, <3>2, NothingAccepted
  <2>5. ASSUME lang[1] # {} PROVE best = {Least(lang[1])}
    <3>1. \A w : w \in lang[1] <=> w \in Seq(Char) /\ Len(w) <= MaxLength /\ Run(reg[1], w)
      BY <2>1, ShortWords DEF LanguageExact, Accepted
    <3>2. PICK w \in lang[1] : TRUE
      BY <2>5
    <3>3. w \in Seq(Char) /\ Len(w) <= MaxLength /\ Run(reg[1], w)
      BY <3>1
    <3>4. PICK b \in best : AtMost(b, w)
      BY <2>3, <3>3
    <3>5. b \in Seq(Char) /\ Run(reg[1], b) /\ best = {b}
      BY <2>3, <3>4
    <3>6. b \in lang[1]
      <4>1. Len(b) <= Len(w) \/ b = w
        BY <3>4 DEF AtMost, Before
      <4>2. Len(b) \in Nat /\ Len(w) \in Nat /\ MaxLength \in Nat
        BY <3>3, <3>5, WordParts, OperationsAssumption
      <4>3. Len(b) <= MaxLength
        BY <3>3, <4>1, <4>2
      <4> QED BY <3>1, <3>5, <4>3
    <3>7. \A v \in lang[1] : AtMost(b, v)
      BY <2>3, <3>1, <3>5
    <3>8. IsFirst(b, lang[1]) /\ lang[1] \in SUBSET Seq(Char)
      BY <3>1, <3>6, <3>7 DEF IsFirst
    <3>9. Least(lang[1]) = b
      BY <3>8, LeastIs
    <3> QED BY <3>5, <3>9
  <2> QED BY <2>3, <2>4, <2>5
<1> QED BY <1>1, <1>2, <1>3, PTL DEF CallsSpec

=============================================================================
