------------------------- MODULE PrefixTree_proofs -------------------------
(***************************************************************************)
(* Theorems about the prefix tree that constructSAT builds, for every      *)
(* sample and every order in which its words are added.                    *)
(***************************************************************************)
EXTENDS WordConstraints, Recursion, FunctionTheorems

(* The node of u and those of its prefixes are there.                      *)
Held(u) == \A l \in 0..Len(u) : SubSeq(u, 1, l) \in DOMAIN tree

Node == [id : 0..size - 1, accept : {-1, 0, 1}]

(* The tree holds the prefixes of what it holds, its nodes have ids of     *)
(* their own below its size.                                               *)
Tree ==
  /\ IsFiniteSet(DOMAIN tree)
  /\ tree \in [DOMAIN tree -> Node]
  /\ \A v \in DOMAIN tree : v \in Seq(Letters) /\ Held(v)
  /\ \A v, w \in DOMAIN tree : tree[v].id = tree[w].id => v = w

(* The loops add words of the sample; the antecedents they are done with   *)
(* are held.                                                               *)
Loops ==
  /\ pos \subseteq Words /\ neg \subseteq Words /\ uni \subseteq Words /\ ex \subseteq Words
  /\ todo \subseteq Words
  /\ phase = "uni" => \A u \in uni \ todo : Held(u)
  /\ phase = "ex" => \A u \in uni \cup (ex \ todo) : Held(u)
  /\ phase = "lookup" => todo \subseteq uni \cup ex /\ \A u \in uni \cup ex : Held(u)
  /\ phase \in {"pos", "neg", "uni", "ex"} => found = {}

IInv == Tree /\ Loops /\ LookupInRange

-----------------------------------------------------------------------------
(* Prefixes                                                                *)

(* What SubSeq gives of a word, and of one of its prefixes.                *)
LEMMA PrefixFacts ==
  ASSUME NEW S, NEW u \in Seq(S), NEW l \in 0..Len(u)
  PROVE  /\ SubSeq(u, 1, l) \in Seq(S)
         /\ Len(SubSeq(u, 1, l)) = l
         /\ \A k \in 0..l : SubSeq(SubSeq(u, 1, l), 1, k) = SubSeq(u, 1, k)
<1>1. SubSeq(u, 1, l) \in Seq(S) /\ Len(SubSeq(u, 1, l)) = l
  OBVIOUS
<1>2. ASSUME NEW k \in 0..l
      PROVE  SubSeq(SubSeq(u, 1, l), 1, k) = SubSeq(u, 1, k)
  OBVIOUS
<1> QED BY <1>1, <1>2

LEMMA Whole ==
  ASSUME NEW S, NEW u \in Seq(S)
  PROVE  SubSeq(u, 1, Len(u)) = u
OBVIOUS

-----------------------------------------------------------------------------
(* PrefixTree.addWord                                                      *)

(* How many of the numbers in M are below l numbers the elements of M.     *)
LEMMA Ranks ==
  ASSUME NEW M \in SUBSET Nat, IsFiniteSet(M)
  PROVE  /\ \A l \in M : Cardinality({k \in M : k < l}) \in 0..Cardinality(M) - 1
         /\ \A l, m \in M : Cardinality({k \in M : k < l}) = Cardinality({k \in M : k < m})
                              => l = m
<1> DEFINE below(l) == {k \in M : k < l}
<1>1. ASSUME NEW l \in M
      PROVE  /\ IsFiniteSet(below(l))
             /\ Cardinality(below(l)) \in Nat
             /\ Cardinality(below(l)) < Cardinality(M)
  <2>1. below(l) \in SUBSET M /\ below(l) # M
    OBVIOUS
  <2> HIDE DEF below
  <2>2. /\ IsFiniteSet(below(l))
        /\ Cardinality(below(l)) <= Cardinality(M)
        /\ Cardinality(below(l)) # Cardinality(M)
    BY <2>1, FS_Subset
  <2>3. Cardinality(below(l)) \in Nat /\ Cardinality(M) \in Nat
    BY <2>2, FS_CardinalityType
  <2> QED BY <2>2, <2>3
<1>2. ASSUME NEW l \in M, NEW m \in M, l < m
      PROVE  Cardinality(below(l)) # Cardinality(below(m))
  <2>1. below(l) \in SUBSET below(m) /\ below(l) # below(m)
    <3>1. \A k \in M : k < l => k < m
      BY <1>2
    <3>2. l \in below(m) /\ l \notin below(l)
      BY <1>2
    <3> QED BY <3>1, <3>2
  <2>2. IsFiniteSet(below(m))
    BY <1>1
  <2> HIDE DEF below
  <2> QED BY <2>1, <2>2, FS_Subset
<1>3. Cardinality(M) \in Nat
  BY FS_CardinalityType
<1>4. \A l \in M : Cardinality(below(l)) \in 0..Cardinality(M) - 1
  BY <1>1, <1>3
<1>5. \A l, m \in M : Cardinality(below(l)) = Cardinality(below(m)) => l = m
  BY <1>2
<1> QED BY <1>4, <1>5

(* The nodes that addWord makes, one for each prefix that is missing.      *)
LEMMA NewNodes ==
  ASSUME Tree, NEW u \in Seq(Letters)
  PROVE  LET new == {SubSeq(u, 1, l) : l \in Missing(u)}
         IN  /\ Missing(u) \subseteq 0..Len(u)
             /\ IsFiniteSet(Missing(u))
             /\ IsFiniteSet(new)
             /\ Cardinality(new) = Cardinality(Missing(u))
             /\ new \cap DOMAIN tree = {}
<1> DEFINE new == {SubSeq(u, 1, l) : l \in Missing(u)}
           prefix == [l \in Missing(u) |-> SubSeq(u, 1, l)]
<1>1. Missing(u) \subseteq 0..Len(u) /\ new \cap DOMAIN tree = {}
  BY DEF Missing
<1>2. IsFiniteSet(Missing(u))
  <2>1. IsFiniteSet(0..Len(u))
    BY FS_Interval
  <2> QED BY <1>1, <2>1, FS_Subset
<1>3. prefix \in Bijection(Missing(u), new)
  <2>1. prefix \in [Missing(u) -> new]
    OBVIOUS
  <2>2. \A l, m \in Missing(u) : prefix[l] = prefix[m] => l = m
    BY <1>1, PrefixFacts
  <2>3. \A v \in new : \E l \in Missing(u) : prefix[l] = v
    OBVIOUS
  <2> HIDE DEF prefix, new
  <2> QED BY <2>1, <2>2, <2>3, Fun_IsBij
<1>4. ExistsBijection(Missing(u), new)
  BY <1>3, Fun_ExistsBij
<1> HIDE DEF new
<1>5. IsFiniteSet(new) /\ Cardinality(new) = Cardinality(Missing(u))
  BY <1>2, <1>4, FS_Bijection
<1> QED BY <1>1, <1>2, <1>5 DEF new

(* addWord keeps the tree one, adds the prefixes of the word and nothing   *)
(* if they are there.                                                      *)
LEMMA AddWordKeeps ==
  ASSUME Tree, NEW u \in Words, NEW accept \in {-1, 0, 1}, AddWord(u, accept)
  PROVE  /\ Tree'
         /\ DOMAIN tree \subseteq DOMAIN tree'
         /\ u \in DOMAIN tree'
         /\ Held(u)'
         /\ Held(u) => DOMAIN tree' = DOMAIN tree
<1> DEFINE new == {SubSeq(u, 1, l) : l \in Missing(u)}
           nodes == [v \in DOMAIN tree \cup new |->
                       IF v \in DOMAIN tree THEN tree[v]
                       ELSE [id |-> NewId(u, Len(v)), accept |-> 0]]
<1>1. u \in Seq(Letters)
  BY WordsAssumption
<1>2. tree' = [nodes EXCEPT ![u] = SetAccept(@, accept)]
  BY DEF AddWord
<1>3. DOMAIN tree' = DOMAIN tree \cup new
  BY <1>2
<1>4. /\ Missing(u) \subseteq 0..Len(u)
      /\ IsFiniteSet(Missing(u))
      /\ IsFiniteSet(new)
      /\ Cardinality(new) = Cardinality(Missing(u))
      /\ new \cap DOMAIN tree = {}
  BY <1>1, NewNodes
<1>5. \A l \in 0..Len(u) : SubSeq(u, 1, l) \in DOMAIN tree \cup new
  BY DEF Missing
<1>6. u \in DOMAIN tree \cup new
  <2>1. Len(u) \in 0..Len(u)
    BY <1>1
  <2>2. SubSeq(u, 1, Len(u)) \in DOMAIN tree \cup new
    BY <1>5, <2>1
  <2>3. SubSeq(u, 1, Len(u)) = u
    BY <1>1, Whole
  <2> QED BY <2>2, <2>3
<1>7. Held(u) => new = {}
  BY DEF Held, Missing
<1>8. \A v \in new : Len(v) \in Missing(u) /\ v = SubSeq(u, 1, Len(v))
  BY <1>1, <1>4, PrefixFacts
<1>9. /\ size \in Nat
      /\ Cardinality(Missing(u)) \in Nat
      /\ size' = size + Cardinality(Missing(u))
  <2>1. size \in Nat /\ IsFiniteSet(DOMAIN tree)
    BY FS_CardinalityType DEF size, Tree
  <2>2. Cardinality(Missing(u)) \in Nat
    BY <1>4, FS_CardinalityType
  <2>3. Cardinality(DOMAIN tree \cap new) = 0
    <3>1. DOMAIN tree \cap new = {}
      BY <1>4
    <3> QED BY <3>1, FS_EmptySet
  <2> HIDE DEF new
  <2>4. Cardinality(DOMAIN tree \cup new)
          = Cardinality(DOMAIN tree) + Cardinality(new) - Cardinality(DOMAIN tree \cap new)
    BY <1>4, <2>1, FS_Union
  <2>5. size' = Cardinality(DOMAIN tree \cup new)
    BY <1>3 DEF size
  <2>6. size = Cardinality(DOMAIN tree)
    BY DEF size
  <2> QED BY <1>4, <2>1, <2>2, <2>3, <2>4, <2>5, <2>6
<1>10. Missing(u) \in SUBSET Nat
  BY <1>1, <1>4
<1>11. \A v \in new : NewId(u, Len(v)) \in size..size' - 1
  <2>1. \A l \in Missing(u) : Cardinality({k \in Missing(u) : k < l})
                                \in 0..Cardinality(Missing(u)) - 1
    BY <1>4, <1>10, Ranks
  <2> QED BY <1>8, <1>9, <2>1 DEF NewId
<1>12. \A v, w \in new : NewId(u, Len(v)) = NewId(u, Len(w)) => v = w
  <2> SUFFICES ASSUME NEW v \in new, NEW w \in new, NewId(u, Len(v)) = NewId(u, Len(w))
               PROVE  v = w
    OBVIOUS
  <2> DEFINE rank(l) == Cardinality({k \in Missing(u) : k < l})
  <2>1. \A l \in Missing(u) : rank(l) \in 0..Cardinality(Missing(u)) - 1
    BY <1>4, <1>10, Ranks
  <2>2. \A l, m \in Missing(u) : rank(l) = rank(m) => l = m
    BY <1>4, <1>10, Ranks
  <2>3. Len(v) \in Missing(u) /\ Len(w) \in Missing(u)
    BY <1>8
  <2>4. size + rank(Len(v)) = size + rank(Len(w))
    BY DEF NewId
  <2> HIDE DEF rank
  <2>5. rank(Len(v)) = rank(Len(w))
    BY <1>9, <2>1, <2>3, <2>4
  <2>6. Len(v) = Len(w)
    BY <2>2, <2>3, <2>5
  <2> QED BY <1>8, <2>6
<1>13. \A v \in DOMAIN tree' :
         /\ tree'[v] \in [id : 0..size' - 1, accept : {-1, 0, 1}]
         /\ tree'[v].id = IF v \in DOMAIN tree THEN tree[v].id ELSE NewId(u, Len(v))
  <2> TAKE v \in DOMAIN tree'
  <2>1. /\ nodes[v] \in [id : 0..size' - 1, accept : {-1, 0, 1}]
        /\ nodes[v].id = IF v \in DOMAIN tree THEN tree[v].id ELSE NewId(u, Len(v))
    <3>1. CASE v \in DOMAIN tree
      <4>1. tree[v] \in [id : 0..size - 1, accept : {-1, 0, 1}]
        BY <3>1 DEF Tree, Node
      <4>2. 0..size - 1 \subseteq 0..size' - 1
        BY <1>9
      <4> QED BY <3>1, <4>1, <4>2
    <3>2. CASE v \in new \ DOMAIN tree
      <4>1. NewId(u, Len(v)) \in 0..size' - 1
        BY <1>9, <1>11, <3>2
      <4> QED BY <3>2, <4>1
    <3> QED BY <1>3, <3>1, <3>2
  <2>2. tree'[v] = IF v = u THEN SetAccept(nodes[v], accept) ELSE nodes[v]
    BY <1>2, <1>3
  <2> HIDE DEF nodes
  <2> QED BY <2>1, <2>2 DEF SetAccept
<1>14. ASSUME NEW v \in DOMAIN tree'
       PROVE  v \in Seq(Letters) /\ \A l \in 0..Len(v) : SubSeq(v, 1, l) \in DOMAIN tree'
  <2>1. CASE v \in DOMAIN tree
    BY <1>3, <2>1 DEF Tree, Held
  <2>2. CASE v \in new
    <3>1. PICK m \in Missing(u) : v = SubSeq(u, 1, m)
      BY <2>2
    <3>2. /\ v \in Seq(Letters) /\ Len(v) = m
          /\ \A l \in 0..m : SubSeq(v, 1, l) = SubSeq(u, 1, l)
      BY <1>1, <1>4, <3>1, PrefixFacts
    <3>3. 0..m \subseteq 0..Len(u)
      BY <1>1, <1>4, <3>1
    <3> QED BY <1>3, <1>5, <3>2, <3>3
  <2> QED BY <1>3, <2>1, <2>2
<1>15. ASSUME NEW v \in DOMAIN tree', NEW w \in DOMAIN tree', tree'[v].id = tree'[w].id
       PROVE  v = w
  <2>1. \A y \in DOMAIN tree : tree[y].id \in 0..size - 1
    BY DEF Tree, Node
  <2>2. CASE v \in DOMAIN tree /\ w \in DOMAIN tree
    BY <1>13, <1>15, <2>2 DEF Tree
  <2>3. CASE v \in new /\ w \in new
    BY <1>4, <1>12, <1>13, <1>15, <2>3
  <2>4. CASE v \in DOMAIN tree /\ w \in new
    <3>1. tree[v].id = NewId(u, Len(w))
      BY <1>4, <1>13, <1>15, <2>4
    <3>2. tree[v].id \in 0..size - 1 /\ tree[v].id \in size..size' - 1
      BY <1>11, <2>1, <2>4, <3>1
    <3> QED BY <1>9, <3>2
  <2>5. CASE v \in new /\ w \in DOMAIN tree
    <3>1. tree[w].id = NewId(u, Len(v))
      BY <1>4, <1>13, <1>15, <2>5
    <3>2. tree[w].id \in 0..size - 1 /\ tree[w].id \in size..size' - 1
      BY <1>11, <2>1, <2>5, <3>1
    <3> QED BY <1>9, <3>2
  <2> QED BY <1>3, <2>2, <2>3, <2>4, <2>5
<1>16. IsFiniteSet(DOMAIN tree')
  <2>1. IsFiniteSet(DOMAIN tree)
    BY DEF Tree
  <2> HIDE DEF new
  <2> QED BY <1>3, <1>4, <2>1, FS_Union
<1>17. tree' \in [DOMAIN tree' -> [id : 0..size' - 1, accept : {-1, 0, 1}]]
  <2>1. tree' = [v \in DOMAIN tree' |-> tree'[v]]
    BY <1>2
  <2> QED BY <1>13, <2>1
<1>18. Tree'
  BY <1>14, <1>15, <1>16, <1>17 DEF Tree, Node, Held
<1>19. Held(u)'
  BY <1>3, <1>5 DEF Held
<1> QED BY <1>3, <1>6, <1>7, <1>18, <1>19

-----------------------------------------------------------------------------
(* The loops of constructSAT                                               *)

LEMMA Initially == FormulaInit => IInv
<1> SUFFICES ASSUME FormulaInit PROVE IInv
  OBVIOUS
<1>1. /\ tree = [v \in {<<>>} |-> [id |-> 0, accept |-> 0]]
      /\ DOMAIN tree = {<<>>}
      /\ phase = "pos" /\ todo = pos /\ found = {}
  BY DEF FormulaInit, Init
<1>2. IsFiniteSet(DOMAIN tree) /\ size = 1
  BY <1>1, FS_Singleton DEF size
<1>3. Tree
  <2>1. tree \in [DOMAIN tree -> Node]
    BY <1>1, <1>2 DEF Node
  <2>2. \A v \in DOMAIN tree : v \in Seq(Letters) /\ Held(v)
    <3>1. <<>> \in Seq(Letters) /\ Len(<<>>) = 0
      OBVIOUS
    <3>2. SubSeq(<<>>, 1, 0) = <<>>
      BY SubSeqEmpty
    <3> QED BY <1>1, <3>1, <3>2 DEF Held
  <2> QED BY <1>1, <1>2, <2>1, <2>2 DEF Tree
<1>4. Loops
  BY <1>1 DEF FormulaInit, Init, Lists, Loops
<1>5. LookupInRange
  BY <1>1 DEF LookupInRange
<1> QED BY <1>3, <1>4, <1>5 DEF IInv

(* What a larger tree holds still.                                         *)
LEMMA StillHeld ==
  ASSUME DOMAIN tree \subseteq DOMAIN tree'
  PROVE  \A u : Held(u) => Held(u)'
BY DEF Held

LEMMA AddKeeps == IInv /\ Add => IInv'
<1> SUFFICES ASSUME IInv, Add PROVE IInv'
  OBVIOUS
<1>1. PICK u \in todo : AddWord(u, Label(phase)) /\ todo' = todo \ {u}
  BY DEF Add
<1>2. /\ phase' = phase /\ phase \in {"pos", "neg", "uni", "ex"}
      /\ pos' = pos /\ neg' = neg /\ uni' = uni /\ ex' = ex
      /\ rows' = rows /\ found' = found
  BY DEF Add, sample
<1>3. u \in Words /\ Label(phase) \in {-1, 0, 1}
  BY <1>1 DEF IInv, Loops, Label
<1>4. Tree' /\ DOMAIN tree \subseteq DOMAIN tree' /\ Held(u)'
  BY <1>1, <1>3, AddWordKeeps DEF IInv
<1>5. Loops'
  <2>1. \A v : Held(v) => Held(v)'
    BY <1>4, StillHeld
  <2>2. /\ phase' = "uni" => \A v \in uni' \ todo' : Held(v)'
        /\ phase' = "ex" => \A v \in uni' \cup (ex' \ todo') : Held(v)'
    BY <1>1, <1>2, <1>4, <2>1 DEF IInv, Loops
  <2> QED BY <1>1, <1>2, <2>2 DEF IInv, Loops
<1>6. LookupInRange'
  BY <1>2 DEF LookupInRange
<1> QED BY <1>4, <1>5, <1>6 DEF IInv

(* An antecedent that is looked up is in the tree, with all its prefixes.  *)
LEMMA GetNodeKeeps == IInv /\ GetNode => IInv'
<1> SUFFICES ASSUME IInv, GetNode PROVE IInv'
  OBVIOUS
<1>1. PICK u \in todo : /\ AddWord(u, 0)
                        /\ found' = found \cup {tree'[u].id}
                        /\ todo' = todo \ {u}
  BY DEF GetNode
<1>2. /\ phase = "lookup" /\ phase' = "lookup"
      /\ pos' = pos /\ neg' = neg /\ uni' = uni /\ ex' = ex
      /\ rows' = rows
  BY DEF GetNode, sample
<1>3. u \in Words /\ Held(u)
  BY <1>1, <1>2 DEF IInv, Loops
<1>4. Tree' /\ DOMAIN tree' = DOMAIN tree /\ u \in DOMAIN tree'
  BY <1>1, <1>3, AddWordKeeps DEF IInv
<1>5. Loops'
  <2>1. \A v : Held(v) => Held(v)'
    BY <1>4, StillHeld
  <2> QED BY <1>1, <1>2, <2>1 DEF IInv, Loops
<1>6. LookupInRange'
  <2>1. size' = size /\ size = rows
    BY <1>2, <1>4 DEF size, IInv, LookupInRange
  <2>2. size \in Nat
    BY FS_CardinalityType DEF size, IInv, Tree
  <2>3. tree'[u].id \in 0..size' - 1
    BY <1>4 DEF Tree, Node
  <2>4. tree'[u].id < rows
    BY <2>1, <2>2, <2>3
  <2> QED BY <1>1, <1>2, <2>1, <2>4 DEF IInv, LookupInRange
<1> QED BY <1>4, <1>5, <1>6 DEF IInv

(* The steps that leave the tree as it is.                                 *)
LEMMA OthersKeep ==
  ASSUME IInv, tree' = tree, UNCHANGED sample, Loops', LookupInRange'
  PROVE  IInv'
<1>1. Tree'
  BY DEF IInv, Tree, Node, Held, size
<1> QED BY <1>1 DEF IInv

LEMMA EndLoopKeeps == IInv /\ EndLoop => IInv'
<1> SUFFICES ASSUME IInv, EndLoop PROVE IInv'
  OBVIOUS
<1>1. /\ tree' = tree /\ UNCHANGED sample /\ found' = found
      /\ phase \in {"pos", "neg", "uni"} /\ todo = {}
      /\ pos' = pos /\ neg' = neg /\ uni' = uni /\ ex' = ex
  BY DEF EndLoop, sample
<1>2. \/ phase = "pos" /\ phase' = "neg" /\ todo' = neg
      \/ phase = "neg" /\ phase' = "uni" /\ todo' = uni
      \/ phase = "uni" /\ phase' = "ex" /\ todo' = ex
  BY <1>1 DEF EndLoop, NextLoop
<1>3. \A u : Held(u)' = Held(u)
  BY <1>1 DEF Held
<1>4. Loops'
  BY <1>1, <1>2, <1>3 DEF IInv, Loops
<1>5. LookupInRange'
  BY <1>2 DEF LookupInRange
<1> QED BY <1>1, <1>4, <1>5, OthersKeep

LEMMA DeclareKeeps == IInv /\ Declare => IInv'
<1> SUFFICES ASSUME IInv, Declare PROVE IInv'
  OBVIOUS
<1>1. /\ tree' = tree /\ UNCHANGED sample /\ found' = found
      /\ phase = "ex" /\ phase' = "lookup" /\ todo = {} /\ todo' = uni \cup ex
      /\ pos' = pos /\ neg' = neg /\ uni' = uni /\ ex' = ex
      /\ rows' = size
  BY DEF Declare, sample
<1>2. \A u : Held(u)' = Held(u)
  BY <1>1 DEF Held
<1>3. Loops'
  BY <1>1, <1>2 DEF IInv, Loops
<1>4. LookupInRange'
  <2>1. size' = rows' /\ found' = {}
    BY <1>1 DEF size, IInv, Loops
  <2> QED BY <2>1 DEF LookupInRange
<1> QED BY <1>1, <1>3, <1>4, OthersKeep

(* The clauses of the formula are made from the tree that is there.        *)
LEMMA FormulaKeeps ==
  IInv /\ (Choose \/ Constrain \/ GiveUp \/ TranslateModel) => IInv'
<1> SUFFICES ASSUME IInv, Choose \/ Constrain \/ GiveUp \/ TranslateModel
             PROVE  IInv'
  OBVIOUS
<1>1. /\ tree' = tree /\ UNCHANGED sample /\ todo' = todo
      /\ pos' = pos /\ neg' = neg /\ uni' = uni /\ ex' = ex
      /\ phase' \in {"solve", "model", "no model"}
  BY DEF Choose, Constrain, GiveUp, TranslateModel, sample
<1>2. Loops'
  BY <1>1 DEF IInv, Loops
<1>3. LookupInRange'
  BY <1>1 DEF LookupInRange
<1> QED BY <1>1, <1>2, <1>3, OthersKeep

(* The invariant of the loops.                                             *)
LEMMA Invariant == FormulaSpec => []IInv
<1>1. IInv /\ [FormulaNext]_<<vars, model>> => IInv'
  <2> SUFFICES ASSUME IInv, [FormulaNext]_<<vars, model>> PROVE IInv'
    OBVIOUS
  <2>1. CASE Build
    BY <2>1, AddKeeps, EndLoopKeeps, DeclareKeeps, GetNodeKeeps DEF Build
  <2>2. CASE Choose \/ Constrain \/ GiveUp \/ TranslateModel
    BY <2>2, FormulaKeeps
  <2>3. CASE Ended \/ UNCHANGED <<vars, model>>
    <3>1. /\ tree' = tree /\ UNCHANGED sample /\ todo' = todo /\ phase' = phase
          /\ pos' = pos /\ neg' = neg /\ uni' = uni /\ ex' = ex
          /\ rows' = rows /\ found' = found
      BY <2>3 DEF Ended, vars, sample
    <3>2. Loops'
      BY <3>1 DEF IInv, Loops, Held
    <3>3. LookupInRange'
      BY <3>1 DEF IInv, LookupInRange, size
    <3> QED BY <3>1, <3>2, <3>3, OthersKeep
  <2> QED BY <2>1, <2>2, <2>3 DEF FormulaNext
<1> QED BY Initially, <1>1, PTL DEF FormulaSpec

-----------------------------------------------------------------------------
(* The ids of the nodes are the numbers from 0 to the size of the tree,    *)
(* which holds the prefixes of what it holds (PrefixTree.addWord).         *)
THEOREM IdsNumberNodes == FormulaSpec => []TypeOK
<1>1. IInv => TypeOK
  <2> SUFFICES ASSUME Tree PROVE TypeOK
    BY DEF IInv
  <2> DEFINE id == [v \in DOMAIN tree |-> tree[v].id]
  <2>1. size \in Nat /\ IsFiniteSet(DOMAIN tree)
    BY FS_CardinalityType DEF size, Tree
  <2>2. IsFiniteSet(0..size - 1) /\ Cardinality(0..size - 1) = size
    <3>1. 0 \in Int /\ size - 1 \in Int
      BY <2>1
    <3>2. /\ IsFiniteSet(0..size - 1)
          /\ Cardinality(0..size - 1) = IF 0 > size - 1 THEN 0 ELSE size - 1 - 0 + 1
      BY <3>1, FS_Interval
    <3> QED BY <2>1, <3>2
  <2>3. id \in [DOMAIN tree -> 0..size - 1]
    BY DEF Tree, Node
  <2>4. \A v, w \in DOMAIN tree : id[v] = id[w] => v = w
    BY DEF Tree
  <2> HIDE DEF id
  <2>5. id \in Injection(DOMAIN tree, 0..size - 1)
    BY <2>3, <2>4, Fun_IsInj
  <2>6. Cardinality(DOMAIN tree) = size
    BY DEF size
  <2>7. id \in Surjection(DOMAIN tree, 0..size - 1)
    BY <2>2, <2>5, <2>6, FS_Injection
  <2>8. \A k \in 0..size - 1 : \E v \in DOMAIN tree : id[v] = k
    BY <2>7 DEF Surjection
  <2>9. {tree[v].id : v \in DOMAIN tree} = 0..size - 1
    BY <2>3, <2>8 DEF id
  <2> QED BY <2>9 DEF TypeOK, Tree, Node, Held
<1> QED BY <1>1, Invariant, PTL

(* Looking an antecedent up after x was declared makes no node, and gives  *)
(* a row of x (Learner.constructSAT, getNode).                             *)
THEOREM LookupsFind == FormulaSpec => []LookupInRange
<1>1. IInv => LookupInRange
  BY DEF IInv
<1> QED BY <1>1, Invariant, PTL

-----------------------------------------------------------------------------
(* The labels of the nodes                                                 *)

(* What addWord makes of the labels: it sets that of u, if there was none. *)
LEMMA AddWordLabels ==
  ASSUME Tree, NEW u \in Words, NEW accept \in {-1, 0, 1}, AddWord(u, accept)
  PROVE  \A v \in DOMAIN tree' :
           LET old == IF v \in DOMAIN tree THEN tree[v].accept ELSE 0
           IN  tree'[v].accept = IF v = u /\ old = 0 THEN accept ELSE old
<1> DEFINE nodes == [v \in DOMAIN tree \cup {SubSeq(u, 1, l) : l \in Missing(u)} |->
                       IF v \in DOMAIN tree THEN tree[v]
                       ELSE [id |-> NewId(u, Len(v)), accept |-> 0]]
<1>1. tree' = [nodes EXCEPT ![u] = SetAccept(@, accept)]
  BY DEF AddWord
<1>2. DOMAIN tree' = DOMAIN nodes
  BY <1>1
<1>3. ASSUME NEW v \in DOMAIN tree'
      PROVE  LET old == IF v \in DOMAIN tree THEN tree[v].accept ELSE 0
             IN  tree'[v].accept = IF v = u /\ old = 0 THEN accept ELSE old
  <2>1. /\ nodes[v].accept = IF v \in DOMAIN tree THEN tree[v].accept ELSE 0
        /\ nodes[v] = IF v \in DOMAIN tree THEN tree[v]
                      ELSE [id |-> NewId(u, Len(v)), accept |-> 0]
    BY <1>2
  <2>2. tree'[v] = IF v = u THEN SetAccept(nodes[v], accept) ELSE nodes[v]
    BY <1>1, <1>2
  <2>3. v \in DOMAIN tree => nodes[v] \in Node
    BY <2>1 DEF Tree
  <2> HIDE DEF nodes
  <2>4. nodes[v] = [id |-> nodes[v].id, accept |-> nodes[v].accept]
    BY <2>1, <2>3 DEF Node
  <2>5. SetAccept(nodes[v], accept).accept
          = IF nodes[v].accept = 0 THEN accept ELSE nodes[v].accept
    BY <2>4 DEF SetAccept
  <2> QED BY <2>1, <2>2, <2>5
<1> QED BY <1>3

(* The words that have been added as positive, and as negative.            *)
Positive == IF phase = "pos" THEN pos \ todo ELSE pos

Negative == IF phase = "pos" THEN {} ELSE IF phase = "neg" THEN neg \ todo ELSE neg

(* A word has the label of the list it was first added from.               *)
Labels ==
  /\ phase = "pos" => todo \subseteq pos
  /\ phase = "neg" => todo \subseteq neg
  /\ <<>> \in DOMAIN tree
  /\ Positive \cup Negative \subseteq DOMAIN tree
  /\ \A v \in DOMAIN tree : tree[v].accept = 1 <=> v \in Positive
  /\ \A v \in DOMAIN tree : tree[v].accept = -1 <=> v \in Negative \ Positive

LEMMA AddLabels == IInv /\ Labels /\ Add => Labels'
<1> SUFFICES ASSUME IInv, Labels, Add PROVE Labels'
  OBVIOUS
<1>1. PICK u \in todo : AddWord(u, Label(phase)) /\ todo' = todo \ {u}
  BY DEF Add
<1>2. /\ phase' = phase /\ phase \in {"pos", "neg", "uni", "ex"}
      /\ pos' = pos /\ neg' = neg
  BY DEF Add, sample
<1>3. u \in Words /\ Label(phase) \in {-1, 0, 1}
  BY <1>1 DEF IInv, Loops, Label
<1>4. DOMAIN tree \subseteq DOMAIN tree' /\ u \in DOMAIN tree'
  BY <1>1, <1>3, AddWordKeeps DEF IInv
<1>5. \A v \in DOMAIN tree' :
        LET old == IF v \in DOMAIN tree THEN tree[v].accept ELSE 0
        IN  tree'[v].accept = IF v = u /\ old = 0 THEN Label(phase) ELSE old
  BY <1>1, <1>3, AddWordLabels DEF IInv
<1>. /\ \A v \in DOMAIN tree : tree[v].accept \in {-1, 0, 1}
     /\ u \in DOMAIN tree => tree[u].accept \in {-1, 0, 1}
  BY DEF IInv, Tree, Node
<1>6. CASE phase = "pos"
  <2>1. Positive' = Positive \cup {u} /\ Negative' = {} /\ Negative = {} /\ Label(phase) = 1
    BY <1>1, <1>2, <1>6 DEF Labels, Positive, Negative, Label
  <2>2. todo' \subseteq pos'
    BY <1>1, <1>2, <1>6 DEF Labels
  <2>3. ASSUME NEW v \in DOMAIN tree'
        PROVE  /\ tree'[v].accept = 1 <=> v \in Positive'
               /\ tree'[v].accept = -1 <=> v \in Negative' \ Positive'
    <3>1. CASE v = u
      BY <1>5, <2>1, <3>1 DEF Labels
    <3>2. CASE v # u
      BY <1>5, <2>1, <3>2 DEF Labels
    <3> QED BY <3>1, <3>2
  <2> QED BY <1>2, <1>4, <1>6, <2>1, <2>2, <2>3 DEF Labels
<1>7. CASE phase = "neg"
  <2>1. Positive' = Positive /\ Negative' = Negative \cup {u} /\ Label(phase) = -1
    BY <1>1, <1>2, <1>7 DEF Labels, Positive, Negative, Label
  <2>2. todo' \subseteq neg'
    BY <1>1, <1>2, <1>7 DEF Labels
  <2>3. ASSUME NEW v \in DOMAIN tree'
        PROVE  /\ tree'[v].accept = 1 <=> v \in Positive'
               /\ tree'[v].accept = -1 <=> v \in Negative' \ Positive'
    <3>1. CASE v = u
      BY <1>5, <2>1, <3>1 DEF Labels
    <3>2. CASE v # u
      BY <1>5, <2>1, <3>2 DEF Labels
    <3> QED BY <3>1, <3>2
  <2> QED BY <1>2, <1>4, <1>7, <2>1, <2>2, <2>3 DEF Labels
<1>8. CASE phase \in {"uni", "ex"}
  <2>1. Positive' = Positive /\ Negative' = Negative /\ Label(phase) = 0
    BY <1>2, <1>8 DEF Positive, Negative, Label
  <2> QED BY <1>2, <1>4, <1>5, <1>8, <2>1 DEF Labels
<1> QED BY <1>2, <1>6, <1>7, <1>8

LEMMA GetNodeLabels == IInv /\ Labels /\ GetNode => Labels'
<1> SUFFICES ASSUME IInv, Labels, GetNode PROVE Labels'
  OBVIOUS
<1>1. PICK u \in todo : AddWord(u, 0)
  BY DEF GetNode
<1>2. phase = "lookup" /\ phase' = "lookup" /\ pos' = pos /\ neg' = neg
  BY DEF GetNode, sample
<1>3. u \in Words
  BY <1>1 DEF IInv, Loops
<1>4. DOMAIN tree \subseteq DOMAIN tree'
  BY <1>1, <1>3, AddWordKeeps DEF IInv
<1>5. \A v \in DOMAIN tree' :
        LET old == IF v \in DOMAIN tree THEN tree[v].accept ELSE 0
        IN  tree'[v].accept = old
  BY <1>1, <1>3, AddWordLabels DEF IInv
<1>6. Positive' = Positive /\ Negative' = Negative
  BY <1>2 DEF Positive, Negative
<1> QED BY <1>2, <1>4, <1>5, <1>6 DEF Labels

LEMMA StepLabels == IInv /\ Labels /\ [FormulaNext]_<<vars, model>> => Labels'
<1> SUFFICES ASSUME IInv, Labels, [FormulaNext]_<<vars, model>> PROVE Labels'
  OBVIOUS
<1>1. CASE Add
  BY <1>1, AddLabels
<1>2. CASE GetNode
  BY <1>2, GetNodeLabels
<1>3. CASE EndLoop
  <2>1. /\ tree' = tree /\ pos' = pos /\ neg' = neg /\ todo = {}
        /\ \/ phase = "pos" /\ phase' = "neg" /\ todo' = neg
           \/ phase = "neg" /\ phase' = "uni"
           \/ phase = "uni" /\ phase' = "ex"
    BY <1>3 DEF EndLoop, NextLoop, sample
  <2>2. Positive' = Positive /\ Negative' = Negative
    BY <2>1 DEF Positive, Negative
  <2> QED BY <2>1, <2>2 DEF Labels
<1>4. CASE Declare \/ Choose \/ Constrain \/ GiveUp \/ TranslateModel
  <2>1. /\ tree' = tree /\ pos' = pos /\ neg' = neg
        /\ phase \notin {"pos", "neg"} /\ phase' \notin {"pos", "neg"}
    BY <1>4 DEF Declare, Choose, Constrain, GiveUp, TranslateModel, sample
  <2>2. Positive' = Positive /\ Negative' = Negative
    BY <2>1 DEF Positive, Negative
  <2> QED BY <2>1, <2>2 DEF Labels
<1>5. CASE Ended \/ UNCHANGED <<vars, model>>
  <2>1. tree' = tree /\ pos' = pos /\ neg' = neg /\ phase' = phase /\ todo' = todo
    BY <1>5 DEF Ended, vars, sample
  <2>2. Positive' = Positive /\ Negative' = Negative
    BY <2>1 DEF Positive, Negative
  <2> QED BY <2>1, <2>2 DEF Labels
<1> QED BY <1>1, <1>2, <1>3, <1>4, <1>5 DEF FormulaNext, Build

LEMMA InitLabels == FormulaInit => Labels
<1> SUFFICES ASSUME FormulaInit PROVE Labels
  OBVIOUS
<1>1. /\ tree = [v \in {<<>>} |-> [id |-> 0, accept |-> 0]]
      /\ phase = "pos" /\ todo = pos
  BY DEF FormulaInit, Init
<1>2. Positive = {} /\ Negative = {}
  BY <1>1 DEF Positive, Negative
<1> QED BY <1>1, <1>2 DEF Labels

-----------------------------------------------------------------------------
(* Runs of an automaton, one letter at a time                              *)

After(a, s, c) == {t[3] : t \in {e \in a.trans : e[1] \in s /\ e[2] = c}}

IsRun(s, a, u) ==
  s = [i \in 0..Len(u) |-> IF i = 0 THEN {0} ELSE After(a, s[i - 1], u[i])]

LEMMA RunExists ==
  ASSUME NEW Q, 0 \in Q, NEW a, a.trans \subseteq Q \X Letters \X Q, NEW u \in Seq(Letters)
  PROVE  \E s : IsRun(s, a, u)
<1> DEFINE next == [i \in 1..Len(u) |-> [r \in SUBSET Q |-> After(a, r, u[i])]]
<1>1. Len(u) \in Nat /\ {0} \in SUBSET Q
  OBVIOUS
<1>2. next \in [1..Len(u) -> [SUBSET Q -> SUBSET Q]]
  <2>1. \A r, c : After(a, r, c) \in SUBSET Q
    BY DEF After
  <2> QED BY <2>1
<1>3. \A i \in 1..Len(u), r \in SUBSET Q : next[i][r] = After(a, r, u[i])
  OBVIOUS
<1> HIDE DEF next
<1>4. PICK s : IteratesUpto(s, Len(u), SUBSET Q, {0}, next)
  BY <1>1, <1>2, BoundedIteration
<1>5. /\ s \in [0..Len(u) -> SUBSET Q]
      /\ s[0] = {0}
      /\ \A i \in 1..Len(u) : s[i] = next[i][s[i - 1]]
  BY <1>4 DEF IteratesUpto
<1>6. \A i \in 1..Len(u) : s[i] = After(a, s[i - 1], u[i])
  <2> TAKE i \in 1..Len(u)
  <2>1. s[i - 1] \in SUBSET Q
    BY <1>1, <1>5
  <2> QED BY <1>3, <1>5, <2>1
<1>7. IsRun(s, a, u)
  BY <1>1, <1>5, <1>6 DEF IsRun
<1> QED BY <1>7

LEMMA ReachedIsRun ==
  ASSUME NEW Q, 0 \in Q, NEW a, a.trans \subseteq Q \X Letters \X Q, NEW u \in Seq(Letters)
  PROVE  \E s : IsRun(s, a, u) /\ Reached(a, u) = s[Len(u)]
<1> DEFINE r == CHOOSE s : IsRun(s, a, u)
<1>1. IsRun(r, a, u)
  <2>1. \E s : IsRun(s, a, u)
    BY RunExists
  <2> QED BY <2>1
<1>2. Reached(a, u) = r[Len(u)]
  BY DEF Reached, IsRun, After
<1> QED BY <1>1, <1>2

LEMMA RunStep ==
  ASSUME NEW a, NEW u \in Seq(Letters), NEW s, IsRun(s, a, u), NEW i \in 1..Len(u)
  PROVE  s[i] = After(a, s[i - 1], u[i])
<1>1. i \in 0..Len(u) /\ i # 0
  OBVIOUS
<1>2. s[i] = IF i = 0 THEN {0} ELSE After(a, s[i - 1], u[i])
  BY <1>1 DEF IsRun
<1> QED BY <1>1, <1>2

(* Words that begin alike are read alike.                                  *)
LEMMA RunUnique ==
  ASSUME NEW a, NEW v \in Seq(Letters), NEW w \in Seq(Letters),
         Len(v) <= Len(w), \A i \in 1..Len(v) : v[i] = w[i],
         NEW s, IsRun(s, a, v), NEW t, IsRun(t, a, w)
  PROVE  s[Len(v)] = t[Len(v)]
<1> DEFINE T == {i \in 0..Len(v) : s[i] = t[i]}
<1>1. Len(v) \in Nat /\ Len(w) \in Nat
  OBVIOUS
<1>2. 0 \in T
  BY <1>1 DEF IsRun
<1>3. ASSUME NEW i \in 0..Len(v) - 1, i \in T PROVE i + 1 \in T
  <2>1. i + 1 \in 1..Len(v) /\ i + 1 \in 1..Len(w) /\ (i + 1) - 1 = i
    BY <1>1
  <2>2. s[i + 1] = After(a, s[(i + 1) - 1], v[i + 1])
    BY <2>1, RunStep
  <2>3. t[i + 1] = After(a, t[(i + 1) - 1], w[i + 1])
    BY <2>1, RunStep
  <2>4. s[i] = t[i]
    BY <1>3
  <2>5. s[i + 1] = t[i + 1]
    BY <2>1, <2>2, <2>3, <2>4
  <2> QED BY <1>1, <2>1, <2>5
<1> HIDE DEF T
<1>4. 0..Len(v) \subseteq T
  BY <1>1, <1>2, <1>3, IntervalInduction
<1> QED BY <1>1, <1>4 DEF T

LEMMA ReachedAppend ==
  ASSUME NEW Q, 0 \in Q, NEW a, a.trans \subseteq Q \X Letters \X Q
  PROVE  /\ Reached(a, <<>>) = {0}
         /\ \A v \in Seq(Letters), c \in Letters :
              Reached(a, Append(v, c)) = After(a, Reached(a, v), c)
<1>1. Reached(a, <<>>) = {0}
  <2>1. <<>> \in Seq(Letters) /\ Len(<<>>) = 0
    OBVIOUS
  <2>2. PICK s : IsRun(s, a, <<>>) /\ Reached(a, <<>>) = s[Len(<<>>)]
    BY <2>1, ReachedIsRun
  <2> QED BY <2>1, <2>2 DEF IsRun
<1>2. ASSUME NEW v \in Seq(Letters), NEW c \in Letters
      PROVE  Reached(a, Append(v, c)) = After(a, Reached(a, v), c)
  <2> DEFINE w == Append(v, c)
  <2>1. /\ w \in Seq(Letters)
        /\ Len(v) \in Nat
        /\ Len(w) = Len(v) + 1
        /\ w[Len(w)] = c
        /\ \A i \in 1..Len(v) : v[i] = w[i]
    OBVIOUS
  <2> HIDE DEF w
  <2>2. PICK s : IsRun(s, a, v) /\ Reached(a, v) = s[Len(v)]
    BY ReachedIsRun
  <2>3. PICK t : IsRun(t, a, w) /\ Reached(a, w) = t[Len(w)]
    BY <2>1, ReachedIsRun
  <2>4. s[Len(v)] = t[Len(v)]
    BY <2>1, <2>2, <2>3, RunUnique
  <2>5. t[Len(w)] = After(a, t[Len(w) - 1], w[Len(w)])
    <3>1. Len(w) \in 1..Len(w)
      BY <2>1
    <3> QED BY <2>1, <2>3, <3>1, RunStep
  <2>6. Len(w) - 1 = Len(v)
    BY <2>1
  <2>7. Reached(a, w) = After(a, Reached(a, v), c)
    BY <2>1, <2>2, <2>3, <2>4, <2>5, <2>6
  <2> QED BY <2>7 DEF w
<1> QED BY <1>1, <1>2

-----------------------------------------------------------------------------
(* The DFA of a model                                                      *)

Candidate ==
  /\ n \in Nat \ {0}
  /\ d \in Total(n)
  /\ f \in SUBSET States(n)

DFA == [acc |-> f, trans |-> Moves]

(* d leads from a state to one state by each letter.                       *)
LEMMA MoveTo ==
  ASSUME Candidate, NEW p \in States(n), NEW c \in Letters
  PROVE  \E q \in States(n) : d[p][c] = {q} /\ After(DFA, {p}, c) = {q}
<1>1. d[p][c] \in SUBSET States(n) /\ d[p][c] # {} /\ \A q, r \in d[p][c] : q = r
  BY DEF Candidate, Total
<1>2. PICK q \in States(n) : d[p][c] = {q}
  BY <1>1
<1>3. \A t : t \in Moves /\ t[1] \in {p} /\ t[2] = c <=> t = <<p, c, q>>
  BY <1>2 DEF Moves
<1>4. After(DFA, {p}, c) = {q}
  <2>1. <<p, c, q>>[3] = q /\ DFA.trans = Moves
    BY DEF DFA
  <2> DEFINE taken == {e \in DFA.trans : e[1] \in {p} /\ e[2] = c}
  <2>2. taken = {<<p, c, q>>}
    BY <1>3, <2>1
  <2> HIDE DEF taken
  <2>3. {t[3] : t \in taken} = {q}
    BY <2>1, <2>2
  <2> QED BY <2>3 DEF After, taken
<1> QED BY <1>2, <1>4

LEMMA DFAMoves ==
  ASSUME Candidate
  PROVE  0 \in States(n) /\ DFA.trans \subseteq States(n) \X Letters \X States(n)
BY DEF Candidate, States, DFA, Moves

LEMMA OneReached ==
  ASSUME Candidate
  PROVE  \A v \in Seq(Letters) : \E q \in States(n) : Reached(DFA, v) = {q}
<1> DEFINE T == {v \in Seq(Letters) : \E q \in States(n) : Reached(DFA, v) = {q}}
<1>1. <<>> \in T
  <2>1. Reached(DFA, <<>>) = {0} /\ 0 \in States(n)
    BY DFAMoves, ReachedAppend
  <2>2. <<>> \in Seq(Letters)
    OBVIOUS
  <2> QED BY <2>1, <2>2
<1>2. ASSUME NEW v \in Seq(Letters), NEW c \in Letters, v \in T PROVE Append(v, c) \in T
  <2>1. PICK p \in States(n) : Reached(DFA, v) = {p}
    BY <1>2
  <2>2. Reached(DFA, Append(v, c)) = After(DFA, {p}, c)
    <3>1. Reached(DFA, Append(v, c)) = After(DFA, Reached(DFA, v), c)
      BY DFAMoves, ReachedAppend
    <3> QED BY <2>1, <3>1
  <2>3. \E q \in States(n) : Reached(DFA, Append(v, c)) = {q}
    BY <2>2, MoveTo
  <2> QED BY <2>3
<1> HIDE DEF T
<1>3. Seq(Letters) \subseteq T
  BY <1>1, <1>2, WordInduction
<1> QED BY <1>3 DEF T

-----------------------------------------------------------------------------
(* The queue of the nodes whose clauses are still to be added              *)

LEMMA Requeued ==
  ASSUME NEW T, NEW q \in Seq(T), q # <<>>, NEW r \in Seq(T),
         NoDuplicates(q), NoDuplicates(r), ToSet(q) \cap ToSet(r) = {}
  PROVE  /\ Head(q) \in ToSet(q)
         /\ Tail(q) \o r \in Seq(T)
         /\ NoDuplicates(Tail(q) \o r)
         /\ ToSet(Tail(q) \o r) = (ToSet(q) \ {Head(q)}) \cup ToSet(r)
<1> DEFINE m == Len(q) - 1
           s == Tail(q) \o r
<1>1. /\ m \in Nat
      /\ Head(q) = q[1] /\ 1 \in DOMAIN q
      /\ s \in Seq(T)
      /\ DOMAIN q = 1..m + 1 /\ DOMAIN r = 1..Len(r) /\ DOMAIN s = 1..m + Len(r)
      /\ Len(r) \in Nat
  OBVIOUS
<1>2. /\ \A i \in 1..m : s[i] = q[i + 1]
      /\ \A i \in m + 1..m + Len(r) : s[i] = r[i - m]
      /\ \A i \in 1..Len(r) : s[m + i] = r[i]
  OBVIOUS
<1> HIDE DEF m, s
<1>3. \A i \in DOMAIN q, j \in DOMAIN r : q[i] # r[j]
  BY DEF ToSet
<1>4. NoDuplicates(s)
  <2> SUFFICES ASSUME NEW i \in DOMAIN s, NEW j \in DOMAIN s, s[i] = s[j]
               PROVE  i = j
    BY DEF NoDuplicates
  <2>1. CASE i <= m /\ j <= m
    <3>1. i + 1 \in DOMAIN q /\ j + 1 \in DOMAIN q /\ q[i + 1] = q[j + 1]
      BY <1>1, <1>2, <2>1
    <3>2. i + 1 = j + 1
      BY <3>1 DEF NoDuplicates
    <3> QED BY <1>1, <3>2
  <2>2. CASE i > m /\ j > m
    <3>1. i - m \in DOMAIN r /\ j - m \in DOMAIN r /\ r[i - m] = r[j - m]
      BY <1>1, <1>2, <2>2
    <3>2. i - m = j - m
      BY <3>1 DEF NoDuplicates
    <3> QED BY <1>1, <3>2
  <2>3. CASE i <= m /\ j > m
    <3>1. i + 1 \in DOMAIN q /\ j - m \in DOMAIN r /\ q[i + 1] = r[j - m]
      BY <1>1, <1>2, <2>3
    <3> QED BY <1>3, <3>1
  <2>4. CASE i > m /\ j <= m
    <3>1. j + 1 \in DOMAIN q /\ i - m \in DOMAIN r /\ q[j + 1] = r[i - m]
      BY <1>1, <1>2, <2>4
    <3> QED BY <1>3, <3>1
  <2> QED BY <1>1, <2>1, <2>2, <2>3, <2>4
<1>5. ASSUME NEW i \in DOMAIN s PROVE s[i] \in (ToSet(q) \ {Head(q)}) \cup ToSet(r)
  <2>1. CASE i <= m
    <3>1. i + 1 \in DOMAIN q /\ s[i] = q[i + 1] /\ i + 1 # 1
      BY <1>1, <1>2, <2>1
    <3>2. q[i + 1] # q[1]
      BY <1>1, <3>1 DEF NoDuplicates
    <3> QED BY <1>1, <3>1, <3>2 DEF ToSet
  <2>2. CASE i > m
    <3>1. i - m \in DOMAIN r /\ s[i] = r[i - m]
      BY <1>1, <1>2, <2>2
    <3> QED BY <3>1 DEF ToSet
  <2> QED BY <1>1, <2>1, <2>2
<1>6. ASSUME NEW i \in DOMAIN q, q[i] # Head(q) PROVE q[i] \in ToSet(s)
  <2>1. i - 1 \in 1..m /\ i - 1 + 1 = i
    BY <1>1, <1>6
  <2>2. i - 1 \in DOMAIN s /\ s[i - 1] = q[i]
    BY <1>1, <1>2, <2>1
  <2> QED BY <2>2 DEF ToSet
<1>7. ASSUME NEW i \in DOMAIN r PROVE r[i] \in ToSet(s)
  <2>1. m + i \in DOMAIN s
    BY <1>1
  <2>2. s[m + i] = r[i]
    BY <1>1, <1>2
  <2> QED BY <2>1, <2>2 DEF ToSet
<1>8. ToSet(s) = (ToSet(q) \ {Head(q)}) \cup ToSet(r)
  BY <1>5, <1>6, <1>7 DEF ToSet
<1>9. Head(q) \in ToSet(q)
  BY <1>1 DEF ToSet
<1> QED BY <1>1, <1>4, <1>8, <1>9 DEF s

-----------------------------------------------------------------------------
(* The rows of x                                                           *)

(* A child is its parent and a letter.                                     *)
LEMMA ChildFacts ==
  ASSUME Tree, NEW v \in DOMAIN tree, NEW u \in Children(v)
  PROVE  /\ u \in DOMAIN tree /\ Last(u) \in Letters /\ u = Append(v, Last(u))
         /\ u # v
         /\ \A w \in DOMAIN tree : u \in Children(w) => w = v
<1>1. /\ u \in DOMAIN tree /\ u \in Seq(Letters) /\ v \in Seq(Letters)
      /\ Len(u) = Len(v) + 1 /\ SubSeq(u, 1, Len(v)) = v
  BY DEF Children, Tree
<1>2. Last(u) = u[Len(v) + 1] /\ Last(u) \in Letters
  BY <1>1 DEF Last
<1>3. u = Append(v, Last(u))
  <2>1. \A i \in 1..Len(v) : v[i] = u[i]
    BY <1>1
  <2> QED BY <1>1, <1>2, <2>1
<1>4. ASSUME NEW w \in DOMAIN tree, u \in Children(w) PROVE w = v
  <2>1. w \in Seq(Letters) /\ Len(u) = Len(w) + 1 /\ SubSeq(u, 1, Len(w)) = w
    BY <1>4 DEF Children, Tree
  <2>2. Len(w) \in Nat /\ Len(v) \in Nat
    BY <1>1, <2>1
  <2>3. Len(w) = Len(v)
    <3>1. Len(v) + 1 = Len(w) + 1
      BY <1>1, <2>1
    <3> QED BY <2>2, <3>1
  <2> QED BY <1>1, <2>1, <2>3
<1>5. u # v
  BY <1>1
<1> QED BY <1>1, <1>2, <1>3, <1>4, <1>5

LEMMA ParentOf ==
  ASSUME Tree, NEW v \in Seq(Letters), NEW c \in Letters, Append(v, c) \in DOMAIN tree
  PROVE  v \in DOMAIN tree /\ Append(v, c) \in Children(v) /\ Last(Append(v, c)) = c
<1> DEFINE u == Append(v, c)
<1>1. /\ u \in Seq(Letters) /\ Len(u) = Len(v) + 1 /\ SubSeq(u, 1, Len(v)) = v
      /\ u[Len(u)] = c /\ Len(v) \in 0..Len(u)
  OBVIOUS
<1> HIDE DEF u
<1>2. u \in DOMAIN tree
  BY DEF u
<1>3. v \in DOMAIN tree
  BY <1>1, <1>2 DEF Tree, Held
<1>4. u \in Children(v) /\ Last(u) = c
  BY <1>1, <1>2 DEF Children, Last
<1> QED BY <1>3, <1>4 DEF u

(* The node has its row, and the clauses of the node have been added.      *)
Seen(v) == tree[v].id \in DOMAIN x

Expanded(v) == Seen(v) /\ v \notin ToSet(prefixes)

Rows ==
  /\ Candidate
  /\ x \in [DOMAIN x -> SUBSET States(n)]
  /\ Seen(<<>>) /\ x[tree[<<>>].id] = {0}
  /\ prefixes \in Seq(DOMAIN tree) /\ NoDuplicates(prefixes)
  /\ \A v \in ToSet(prefixes) : Seen(v)
  /\ \A v \in DOMAIN tree : \A u \in Children(v) : Seen(u) <=> Expanded(v)
  /\ \A v \in DOMAIN tree : Expanded(v) => Satisfied(v) /\ Transitions(v, x)

Solved ==
  /\ phase \in {"solve", "model", "no model"} => Rows
  /\ phase = "no model" => prefixes # <<>> /\ ~ Satisfied(Head(prefixes))
  /\ phase = "model" => prefixes = <<>> /\ conjectured = DFA

LEMMA ChooseRows == IInv /\ Labels /\ Choose => Rows'
<1> SUFFICES ASSUME IInv, Labels, Choose PROVE Rows'
  OBVIOUS
<1>1. /\ n' \in 1..MaxN /\ d' \in Total(n') /\ f' \in SUBSET States(n')
      /\ x' = [i \in {tree[<<>>].id} |-> {0}]
      /\ prefixes' = << <<>> >> /\ tree' = tree
  BY DEF Choose
<1>2. <<>> \in DOMAIN tree /\ Tree
  BY DEF Labels, IInv
<1>3. n' \in Nat \ {0} /\ 0 \in States(n')
  <2>1. \A m \in 1..MaxN : m \in Nat \ {0} /\ 0 \in 0..m - 1
    BY BoundAssumption
  <2> QED BY <1>1, <2>1 DEF States
<1>4. DOMAIN x' = {tree[<<>>].id} /\ x'[tree[<<>>].id] = {0}
  BY <1>1
<1>5. \A v \in DOMAIN tree : Seen(v)' <=> v = <<>>
  BY <1>1, <1>2, <1>4 DEF Seen, Tree
<1>6. ToSet(prefixes') = {<<>>}
  BY <1>1 DEF ToSet
<1>7. \A v \in DOMAIN tree : ~ Expanded(v)'
  BY <1>5, <1>6 DEF Expanded
<1>8. \A v \in DOMAIN tree : \A u \in Children(v) : u # <<>> /\ u \in DOMAIN tree
  BY <1>2 DEF Children, Tree
<1>9. \A v : Children(v)' = Children(v)
  BY <1>1 DEF Children
<1>10. prefixes' \in Seq(DOMAIN tree') /\ NoDuplicates(prefixes')
  BY <1>1, <1>2 DEF NoDuplicates
<1>11. x' \in [DOMAIN x' -> SUBSET States(n')]
  BY <1>1, <1>3
<1>12. Candidate'
  BY <1>1, <1>3 DEF Candidate
<1> QED BY <1>1, <1>2, <1>4, <1>5, <1>6, <1>7, <1>8, <1>9, <1>10, <1>11, <1>12 DEF Rows

(* The node that is taken out becomes expanded, its children are seen.     *)
LEMMA ConstrainRows == IInv /\ Rows /\ Constrain => Rows'
<1> SUFFICES ASSUME IInv, Rows, Constrain PROVE Rows'
  OBVIOUS
<1> DEFINE v == Head(prefixes)
           ids == {tree[u].id : u \in Children(v)}
<1>1. PICK y \in [ids -> SUBSET States(n)] :
        /\ Transitions(v, y)
        /\ x' = [i \in DOMAIN x \cup ids |-> IF i \in DOMAIN x THEN x[i] ELSE y[i]]
  BY DEF Constrain
<1>2. /\ prefixes # <<>> /\ Satisfied(v)
      /\ prefixes' = Tail(prefixes) \o SetToSeq(Children(v))
      /\ tree' = tree /\ n' = n /\ d' = d /\ f' = f
  BY DEF Constrain
<1>3. Tree
  BY DEF IInv
<1>4. prefixes \in Seq(DOMAIN tree) /\ v \in ToSet(prefixes) /\ v \in DOMAIN tree
  <2>1. prefixes \in Seq(DOMAIN tree)
    BY DEF Rows
  <2>2. v = prefixes[1] /\ 1 \in DOMAIN prefixes /\ prefixes[1] \in DOMAIN tree
    BY <1>2, <2>1
  <2> QED BY <2>1, <2>2 DEF ToSet
<1>5. Seen(v) /\ ~ Expanded(v) /\ \A u \in Children(v) : ~ Seen(u)
  BY <1>4 DEF Rows, Expanded
<1>6. Children(v) \subseteq DOMAIN tree /\ IsFiniteSet(Children(v))
  <2>1. Children(v) \subseteq DOMAIN tree
    BY DEF Children
  <2> QED BY <1>3, <2>1, FS_Subset DEF Tree
<1> HIDE DEF v
<1>7. /\ SetToSeq(Children(v)) \in Seq(DOMAIN tree)
      /\ ToSet(SetToSeq(Children(v))) = Children(v)
      /\ NoDuplicates(SetToSeq(Children(v)))
  <2>1. /\ SetToSeq(Children(v)) \in Seq(Children(v))
        /\ ToSet(SetToSeq(Children(v))) = Children(v)
        /\ NoDuplicates(SetToSeq(Children(v)))
    BY <1>6, Enumerated
  <2> QED BY <1>6, <2>1
<1>8. /\ prefixes' \in Seq(DOMAIN tree)
      /\ NoDuplicates(prefixes')
      /\ ToSet(prefixes') = (ToSet(prefixes) \ {v}) \cup Children(v)
  <2>1. ToSet(prefixes) \cap Children(v) = {}
    BY <1>5 DEF Rows
  <2> QED BY <1>2, <1>4, <1>7, <2>1, Requeued DEF Rows, v
<1>9. \A u \in DOMAIN tree : Seen(u)' <=> Seen(u) \/ u \in Children(v)
  <2>1. DOMAIN x' = DOMAIN x \cup ids
    BY <1>1
  <2>2. \A u \in DOMAIN tree : tree[u].id \in ids <=> u \in Children(v)
    BY <1>3, <1>6 DEF Tree
  <2> HIDE DEF ids
  <2> QED BY <1>2, <2>1, <2>2 DEF Seen
<1>10. /\ \A u \in DOMAIN tree : Seen(u) => x'[tree[u].id] = x[tree[u].id]
       /\ \A u \in Children(v) : x'[tree[u].id] = y[tree[u].id]
       /\ x' \in [DOMAIN x' -> SUBSET States(n)]
  <2>1. \A u \in Children(v) : tree[u].id \in ids /\ tree[u].id \notin DOMAIN x
    BY <1>5 DEF Seen
  <2> HIDE DEF ids
  <2>2. x \in [DOMAIN x -> SUBSET States(n)]
    BY DEF Rows
  <2> QED BY <1>1, <2>1, <2>2 DEF Seen
<1>11. ASSUME NEW u \in DOMAIN tree
       PROVE  Expanded(u)' <=> Expanded(u) \/ u = v
  <2>1. v \notin Children(v)
    BY <1>3, <1>4, ChildFacts
  <2> QED BY <1>5, <1>8, <1>9, <2>1 DEF Expanded
<1>12. \A w : Children(w)' = Children(w)
  BY <1>2 DEF Children
<1>13. ASSUME NEW w \in DOMAIN tree, NEW u \in Children(w)
       PROVE  Seen(u)' <=> Expanded(w)'
  <2>1. u \in DOMAIN tree /\ (u \in Children(v) <=> w = v)
    BY <1>3, <1>4, ChildFacts
  <2>2. Seen(u) <=> Expanded(w)
    BY DEF Rows
  <2> QED BY <1>9, <1>11, <2>1, <2>2
<1>14. ASSUME NEW w \in DOMAIN tree, Expanded(w)'
       PROVE  Satisfied(w)' /\ Transitions(w, x)'
  <2>1. Expanded(w) \/ w = v
    BY <1>11, <1>14
  <2>2. Seen(w) /\ Satisfied(w)
    BY <1>2, <1>5, <2>1 DEF Expanded, Rows
  <2>3. x'[tree[w].id] = x[tree[w].id]
    BY <1>10, <2>2
  <2>4. Satisfied(w)'
    BY <1>2, <2>2, <2>3 DEF Satisfied
  <2>5. Transitions(w, x')
    <3>1. CASE w = v
      <4>1. \A u \in Children(v) : x'[tree[u].id] = y[tree[u].id]
        BY <1>10
      <4> QED BY <1>1, <3>1, <4>1 DEF Transitions
    <3>2. CASE Expanded(w)
      <4>1. Transitions(w, x)
        BY <3>2 DEF Rows
      <4>2. \A u \in Children(w) : u \in DOMAIN tree /\ Seen(u)
        BY <3>2, <1>3, ChildFacts DEF Rows
      <4>3. \A u \in Children(w) : x'[tree[u].id] = x[tree[u].id]
        BY <1>10, <4>2
      <4> QED BY <4>1, <4>3 DEF Transitions
    <3> QED BY <2>1, <3>1, <3>2
  <2>6. Transitions(w, x)'
    BY <1>2, <1>12, <2>3, <2>5 DEF Transitions
  <2> QED BY <2>4, <2>6
<1>15. \A w \in ToSet(prefixes') : Seen(w)'
  <2>1. ToSet(prefixes) \subseteq DOMAIN tree
    BY <1>4 DEF ToSet
  <2> QED BY <1>6, <1>8, <1>9, <2>1 DEF Rows
<1>16. Seen(<<>>)' /\ x'[tree[<<>>].id] = {0}
  BY <1>1, <1>2 DEF Rows, Seen
<1>17. Candidate'
  BY <1>2 DEF Rows, Candidate
<1> QED BY <1>2, <1>8, <1>10, <1>12, <1>13, <1>14, <1>15, <1>16, <1>17 DEF Rows

(* Steps that leave the rows, the queue and the tree as they are.          *)
LEMMA RowsKept ==
  ASSUME Rows, n' = n, d' = d, f' = f, x' = x, prefixes' = prefixes, tree' = tree
  PROVE  Rows' /\ (\A v : Satisfied(v)' = Satisfied(v)) /\ DFA' = DFA
<1>1. /\ \A v : Seen(v)' = Seen(v) /\ Expanded(v)' = Expanded(v)
      /\ \A v : Satisfied(v)' = Satisfied(v) /\ Children(v)' = Children(v)
  BY DEF Seen, Expanded, Satisfied, Children
<1>2. \A v : Transitions(v, x)' = Transitions(v, x)
  BY <1>1 DEF Transitions
<1>3. Candidate'
  BY DEF Rows, Candidate
<1>4. DFA' = DFA
  BY DEF DFA, Moves
<1> QED BY <1>1, <1>2, <1>3, <1>4 DEF Rows

LEMMA StepSolved ==
  IInv /\ Labels /\ Solved /\ [FormulaNext]_<<vars, model>> => Solved'
<1> SUFFICES ASSUME IInv, Labels, Solved, [FormulaNext]_<<vars, model>> PROVE Solved'
  OBVIOUS
<1>1. CASE Build
  <2>1. phase' \in {"pos", "neg", "uni", "ex", "lookup"}
    BY <1>1 DEF Build, Add, EndLoop, NextLoop, Declare, GetNode
  <2> QED BY <2>1 DEF Solved
<1>2. CASE Choose
  <2>1. Rows' /\ phase' = "solve"
    BY <1>2, ChooseRows DEF Choose
  <2> QED BY <2>1 DEF Solved
<1>3. CASE Constrain
  <2>1. Rows' /\ phase' = "solve"
    BY <1>3, ConstrainRows DEF Constrain, Solved
  <2> QED BY <2>1 DEF Solved
<1>4. CASE GiveUp
  <2>1. /\ Rows /\ prefixes # <<>> /\ ~ Satisfied(Head(prefixes)) /\ phase' = "no model"
        /\ n' = n /\ d' = d /\ f' = f /\ x' = x /\ prefixes' = prefixes /\ tree' = tree
    BY <1>4 DEF GiveUp, Solved, model
  <2>2. Rows' /\ \A v : Satisfied(v)' = Satisfied(v)
    BY <2>1, RowsKept
  <2>3. ~ Satisfied(Head(prefixes))'
    BY <2>1 DEF Satisfied
  <2> QED BY <2>1, <2>2, <2>3 DEF Solved
<1>5. CASE TranslateModel
  <2>1. /\ Rows /\ prefixes = <<>> /\ phase' = "model" /\ conjectured' = DFA
        /\ n' = n /\ d' = d /\ f' = f /\ x' = x /\ prefixes' = prefixes /\ tree' = tree
    BY <1>5 DEF TranslateModel, Solved, DFA
  <2>2. Rows' /\ DFA' = DFA
    BY <2>1, RowsKept
  <2> QED BY <2>1, <2>2 DEF Solved
<1>6. CASE Ended \/ UNCHANGED <<vars, model>>
  <2>1. /\ n' = n /\ d' = d /\ f' = f /\ x' = x /\ prefixes' = prefixes /\ tree' = tree
        /\ phase' = phase /\ conjectured' = conjectured
    BY <1>6 DEF Ended, vars, model
  <2>2. Rows => Rows' /\ DFA' = DFA
    BY <2>1, RowsKept
  <2>3. Satisfied(Head(prefixes))' = Satisfied(Head(prefixes))
    BY <2>1 DEF Satisfied
  <2>4. prefixes' = prefixes
    BY <2>1
  <2> QED BY <2>1, <2>2, <2>3 DEF Solved
<1> QED BY <1>1, <1>2, <1>3, <1>4, <1>5, <1>6 DEF FormulaNext

(* When the queue is empty each node has its row, which holds the state    *)
(* the DFA reaches by its word.                                            *)
LEMMA RowsAreRuns ==
  ASSUME Tree, Rows, prefixes = <<>>
  PROVE  \A v \in DOMAIN tree : Satisfied(v) /\ x[tree[v].id] = Reached(DFA, v)
<1> DEFINE T == {v \in Seq(Letters) : v \in DOMAIN tree =>
                   Seen(v) /\ x[tree[v].id] = Reached(DFA, v)}
<1>0. ToSet(prefixes) = {} /\ Candidate
  BY DEF ToSet, Rows
<1>1. <<>> \in T
  <2>1. Reached(DFA, <<>>) = {0}
    BY <1>0, DFAMoves, ReachedAppend
  <2>2. <<>> \in Seq(Letters)
    OBVIOUS
  <2> QED BY <2>1, <2>2 DEF Rows
<1>2. ASSUME NEW v \in Seq(Letters), NEW c \in Letters, v \in T PROVE Append(v, c) \in T
  <2> DEFINE u == Append(v, c)
  <2>1. u \in Seq(Letters)
    OBVIOUS
  <2> SUFFICES ASSUME u \in DOMAIN tree PROVE Seen(u) /\ x[tree[u].id] = Reached(DFA, u)
    BY <2>1
  <2>2. v \in DOMAIN tree /\ u \in Children(v) /\ Last(u) = c
    BY ParentOf
  <2>3. Reached(DFA, u) = After(DFA, Reached(DFA, v), c)
    BY <1>0, DFAMoves, ReachedAppend
  <2> HIDE DEF u
  <2>4. Seen(v) /\ x[tree[v].id] = Reached(DFA, v)
    BY <1>2, <2>2
  <2>5. Expanded(v)
    BY <1>0, <2>4 DEF Expanded
  <2>6. Seen(u) /\ Transitions(v, x)
    BY <2>2, <2>5 DEF Rows
  <2>7. PICK p \in States(n) : Reached(DFA, v) = {p}
    BY <1>0, OneReached
  <2>8. PICK q \in States(n) : d[p][c] = {q} /\ Reached(DFA, u) = {q}
    <3>1. \E q \in States(n) : d[p][c] = {q} /\ After(DFA, {p}, c) = {q}
      BY <1>0, MoveTo
    <3>2. Reached(DFA, u) = After(DFA, {p}, c)
      BY <2>3, <2>7
    <3> QED BY <3>1, <3>2
  <2>9. q \in x[tree[u].id]
    <3>1. p \in x[tree[v].id]
      BY <2>4, <2>7
    <3>2. d[p][Last(u)] \subseteq x[tree[u].id]
      BY <2>2, <2>6, <3>1 DEF Transitions
    <3> QED BY <2>2, <2>8, <3>2
  <2>10. Satisfied(u)
    BY <1>0, <2>6 DEF Rows, Expanded
  <2>11. \A r \in x[tree[u].id] : r = q
    BY <2>9, <2>10 DEF Satisfied
  <2> QED BY <2>6, <2>8, <2>9, <2>11
<1> HIDE DEF T
<1>3. Seq(Letters) \subseteq T
  BY <1>1, <1>2, WordInduction
<1>4. ASSUME NEW v \in DOMAIN tree PROVE Satisfied(v) /\ x[tree[v].id] = Reached(DFA, v)
  <2>1. v \in Seq(Letters)
    BY DEF Tree
  <2>2. Seen(v) /\ x[tree[v].id] = Reached(DFA, v)
    BY <1>3, <2>1 DEF T
  <2>3. Satisfied(v)
    BY <1>0, <2>2 DEF Rows, Expanded
  <2> QED BY <2>2, <2>3
<1> QED BY <1>4

(* The DFA that translateModel reads off a model agrees with the words of  *)
(* the sample, and one that does is given up only for rows of x that do    *)
(* not describe its runs (Learner.constructSAT).                           *)
THEOREM FormulaExact == FormulaSpec => []WordsExact
<1> DEFINE Agrees(a) == /\ \A u \in pos : Accepts(a, u)
                        /\ \A u \in neg \ pos : ~ Accepts(a, u)
<1>1. IInv /\ Labels /\ Solved => WordsExact
  <2> SUFFICES ASSUME IInv, Labels, Solved PROVE WordsExact
    OBVIOUS
  <2>1. \A v : Accepts(DFA, v) <=> Reached(DFA, v) \cap f # {}
    BY DEF Accepts, DFA
  <2>2. ASSUME phase \in {"model", "no model"}
        PROVE  /\ Rows /\ Tree /\ Candidate
               /\ pos \subseteq DOMAIN tree /\ neg \subseteq DOMAIN tree
               /\ \A v \in DOMAIN tree : /\ tree[v].accept = 1 <=> v \in pos
                                         /\ tree[v].accept = -1 <=> v \in neg \ pos
                                         /\ tree[v].accept \in {-1, 0, 1}
    <3>1. Rows /\ Tree /\ Candidate
      BY <2>2 DEF Solved, IInv, Rows
    <3>2. Positive = pos /\ Negative = neg
      BY <2>2 DEF Positive, Negative
    <3> QED BY <3>1, <3>2 DEF Labels, Tree, Node
  <2>3. ASSUME phase = "model" PROVE Agrees(conjectured)
    <3>1. conjectured = DFA /\ prefixes = <<>>
      BY <2>3 DEF Solved
    <3>2. \A v \in DOMAIN tree : Satisfied(v) /\ x[tree[v].id] = Reached(DFA, v)
      BY <2>2, <2>3, <3>1, RowsAreRuns
    <3>3. ASSUME NEW u \in pos PROVE Accepts(DFA, u)
      <4>1. u \in DOMAIN tree /\ tree[u].accept = 1
        BY <2>2, <2>3
      <4>2. Reached(DFA, u) \subseteq f
        BY <3>2, <4>1 DEF Satisfied
      <4>3. Reached(DFA, u) # {}
        BY <2>2, <2>3, <4>1, OneReached DEF Tree
      <4> QED BY <2>1, <4>2, <4>3
    <3>4. ASSUME NEW u \in neg \ pos PROVE ~ Accepts(DFA, u)
      <4>1. u \in DOMAIN tree /\ tree[u].accept = -1
        BY <2>2, <2>3
      <4>2. Reached(DFA, u) \cap f = {}
        BY <3>2, <4>1 DEF Satisfied
      <4> QED BY <2>1, <4>2
    <3> QED BY <3>1, <3>3, <3>4
  <2>4. ASSUME phase = "no model", RunsOfDFA PROVE ~ Agrees(DFA)
    <3> DEFINE v == Head(prefixes)
    <3>1. prefixes # <<>> /\ ~ Satisfied(v) /\ prefixes \in Seq(DOMAIN tree)
      BY <2>2, <2>4 DEF Solved, Rows
    <3>2. v \in DOMAIN tree /\ Seen(v)
      <4>1. v = prefixes[1] /\ 1 \in DOMAIN prefixes /\ prefixes[1] \in DOMAIN tree
        BY <3>1
      <4>2. v \in ToSet(prefixes)
        BY <4>1 DEF ToSet
      <4> QED BY <2>2, <2>4, <4>1, <4>2 DEF Rows
    <3> HIDE DEF v
    <3>3. x[tree[v].id] = Reached(DFA, v)
      BY <2>4, <3>2 DEF RunsOfDFA, DFA, Seen
    <3>4. PICK q \in States(n) : Reached(DFA, v) = {q}
      BY <2>2, <2>4, <3>2, OneReached DEF Tree
    <3>5. \/ tree[v].accept = 1 /\ q \notin f
          \/ tree[v].accept = -1 /\ q \in f
      <4>1. tree[v].accept \in {-1, 0, 1}
        BY <2>2, <2>4, <3>2
      <4>2. \/ tree[v].accept > 0 /\ ~ ({q} \subseteq f)
            \/ tree[v].accept < 0 /\ {q} \cap f # {}
        BY <3>1, <3>3, <3>4 DEF Satisfied
      <4> QED BY <4>1, <4>2
    <3>6. Accepts(DFA, v) <=> q \in f
      BY <2>1, <3>4
    <3> QED BY <2>2, <2>4, <3>2, <3>5, <3>6
  <2> HIDE DEF Agrees
  <2>5. /\ phase = "model" => Agrees(conjectured)
        /\ phase = "no model" /\ RunsOfDFA => ~ Agrees(DFA)
    BY <2>3, <2>4
  <2> QED BY <2>5 DEF WordsExact, Agrees, DFA
<1>2. FormulaInit => Solved
  BY DEF FormulaInit, Init, Solved
<1> QED BY <1>1, <1>2, InitLabels, StepLabels, StepSolved, Invariant, PTL DEF FormulaSpec

=============================================================================
