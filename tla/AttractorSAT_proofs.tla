------------------------ MODULE AttractorSAT_proofs ------------------------
(***************************************************************************)
(* Proofs about two components that no other one is built on.  First about *)
(* attractor, for every arena, target and limit.  Then about the formula   *)
(* of constructSAT: a run of an automaton is unfolded one letter at a      *)
(* time, so that what holds of every word follows by induction on it.      *)
(***************************************************************************)
EXTENDS Attractor, ConstructSAT, Recursion, FiniteSetTheorems

-----------------------------------------------------------------------------
(* attractor                                                               *)


(* What the list attractor_new holds is marked.                            *)
ListMarked == \A v \in Vertex : attractor_new[v] > 0 => v \in attractor

(* The successors of p whose predecessors attractor has yet to visit.      *)
Pending(p) == {v \in Succ(p) : v \notin attractor \/ attractor_new[v] > 0}

(* The last round's part of them.                                          *)
Listed(p) == {v \in Succ(p) : attractor_new[v] > 0}

(* A vertex of the player that is not marked has no marked successor but   *)
(* those in the list.                                                      *)
PlayerPending ==
  \A p \in mine \ attractor : \A v \in Succ(p) \cap attractor : attractor_new[v] > 0

(* The counter of an opponent vertex that is not marked is positive and    *)
(* never above the number of successors to come: it may be too small.      *)
CounterBound ==
  \A p \in Vertex \ (attractor \cup mine) :
    Succ(p) # {} => out_degrees[p] > 0 /\ out_degrees[p] <= Cardinality(Pending(p))

Types ==
  /\ edges \subseteq Vertex \X Vertex
  /\ mine \subseteq Vertex
  /\ out_degrees \in [Vertex -> Int]
  /\ attractor \subseteq Vertex
  /\ Target \subseteq attractor
  /\ attractor_new \in [Vertex -> Nat]
  /\ i \in Int /\ rounds \in Nat
  /\ i + rounds >= 0 => i >= 0
  /\ pc \in {"loop", "done"}

(* Each round but the last one marks a vertex.                             *)
RoundsBound ==
  rounds <= Cardinality(attractor \ Target)
              + (IF \E v \in Vertex : attractor_new[v] > 0 THEN 0 ELSE 1)

DoneEmpty == pc = "done" /\ i # 0 => \A v \in Vertex : attractor_new[v] = 0

LevelMarked == Level(rounds) \subseteq attractor

IInv ==
  /\ Types
  /\ ListMarked
  /\ PlayerPending
  /\ CounterBound
  /\ RoundsBound
  /\ PlayerCanStay
  /\ LevelMarked
  /\ DoneEmpty

-----------------------------------------------------------------------------
(* How often a vertex is met.                                              *)

LEMMA SuccFinite ==
  ASSUME NEW p
  PROVE  IsFiniteSet(Succ(p)) /\ Succ(p) \subseteq Vertex
BY AttractorAssumption, FS_Subset DEF Succ

LEMMA ListedPending ==
  ASSUME NEW p
  PROVE  /\ Listed(p) \subseteq Pending(p)
         /\ IsFiniteSet(Pending(p)) /\ IsFiniteSet(Listed(p))
         /\ Cardinality(Pending(p)) \in Nat /\ Cardinality(Listed(p)) \in Nat
         /\ Cardinality(Pending(p) \ Listed(p)) =
              Cardinality(Pending(p)) - Cardinality(Listed(p))
<1>1. Listed(p) \subseteq Pending(p)
  BY DEF Listed, Pending
<1>2. IsFiniteSet(Pending(p)) /\ IsFiniteSet(Listed(p))
  BY SuccFinite, FS_Subset DEF Listed, Pending
<1>3. Cardinality(Pending(p) \ Listed(p)) =
        Cardinality(Pending(p)) - Cardinality(Pending(p) \cap Listed(p))
  BY <1>2, FS_Difference
<1>4. Pending(p) \cap Listed(p) = Listed(p)
  BY <1>1
<1> QED BY <1>1, <1>2, <1>3, <1>4, FS_CardinalityType

Meetings(p) == UNION {{v} \X (1..attractor_new[v]) : v \in Succ(p)}

LEMMA MetType ==
  ASSUME Types, NEW p
  PROVE  IsFiniteSet(Meetings(p)) /\ Met(p) = Cardinality(Meetings(p)) /\ Met(p) \in Nat
<1> DEFINE g == [v \in Succ(p) |-> {v} \X (1..attractor_new[v])]
           R == {g[v] : v \in Succ(p)}
<1>1. IsFiniteSet(R)
  <2>1. g \in [Succ(p) -> R]
    OBVIOUS
  <2> HIDE DEF g
  <2> QED BY <2>1, SuccFinite, FiniteImage
<1>2. ASSUME NEW T \in R PROVE IsFiniteSet(T)
  <2>1. PICK v \in Succ(p) : T = {v} \X (1..attractor_new[v])
    OBVIOUS
  <2>2. attractor_new[v] \in Int /\ 1 \in Int
    BY SuccFinite DEF Types
  <2>3. IsFiniteSet(1..attractor_new[v])
    BY <2>2, FS_Interval
  <2> QED BY <2>1, <2>3, FS_Singleton, FS_Product
<1>3. Meetings(p) = UNION R
  BY DEF Meetings
<1> HIDE DEF R
<1>4. IsFiniteSet(Meetings(p))
  BY <1>1, <1>2, <1>3, FS_UNION
<1> QED BY <1>4, FS_CardinalityType DEF Met, Meetings

(* A vertex is met at least once per successor in the list,                *)
LEMMA MetAtLeast ==
  ASSUME Types, NEW p
  PROVE  Cardinality(Listed(p)) <= Met(p)
<1> DEFINE g == [v \in Listed(p) |-> <<v, 1>>]
<1>1. g \in Injection(Listed(p), Meetings(p))
  <2>1. ASSUME NEW v \in Listed(p) PROVE <<v, 1>> \in Meetings(p)
    <3>1. v \in Succ(p) /\ attractor_new[v] > 0 /\ attractor_new[v] \in Nat
      BY SuccFinite DEF Listed, Types
    <3>2. 1 \in 1..attractor_new[v]
      BY <3>1
    <3> QED BY <3>1, <3>2 DEF Meetings
  <2> QED BY <2>1 DEF Injection, IsInjective
<1> HIDE DEF g
<1> QED BY <1>1, MetType, FS_Injection

(* exactly once when none is listed twice,                                 *)
LEMMA MetOnceEach ==
  ASSUME Types, DuplicateFree, NEW p
  PROVE  Met(p) = Cardinality(Listed(p))
<1> DEFINE g == [s \in Meetings(p) |-> s[1]]
<1>1. g \in Injection(Meetings(p), Listed(p))
  <2>1. ASSUME NEW s \in Meetings(p) PROVE s[1] \in Listed(p) /\ s = <<s[1], 1>>
    <3>1. PICK v \in Succ(p) : s \in {v} \X (1..attractor_new[v])
      BY DEF Meetings
    <3>2. attractor_new[v] \in Nat /\ attractor_new[v] <= 1
      BY SuccFinite DEF Types, DuplicateFree
    <3>3. s[1] = v /\ s[2] \in 1..attractor_new[v] /\ s = <<s[1], s[2]>>
      BY <3>1
    <3>4. s[2] = 1 /\ attractor_new[v] > 0
      BY <3>2, <3>3
    <3> QED BY <3>3, <3>4 DEF Listed
  <2>2. g \in [Meetings(p) -> Listed(p)]
    BY <2>1
  <2>3. \A s, t \in Meetings(p) : g[s] = g[t] => s = t
    BY <2>1
  <2> QED BY <2>2, <2>3 DEF Injection, IsInjective
<1> HIDE DEF g
<1>2. Cardinality(Meetings(p)) <= Cardinality(Listed(p))
  BY <1>1, ListedPending, FS_Injection
<1>3. Cardinality(Listed(p)) <= Met(p) /\ Met(p) = Cardinality(Meetings(p))
  BY MetAtLeast, MetType
<1>4. Met(p) \in Nat /\ Cardinality(Listed(p)) \in Nat
  BY MetType, ListedPending
<1> QED BY <1>2, <1>3, <1>4

(* and not at all when none is listed.                                     *)
LEMMA MetVisited ==
  ASSUME Types, NEW p
  PROVE  /\ Visited(p) <=> Met(p) > 0
         /\ Visited(p) <=> Listed(p) # {}
<1>1. Visited(p) <=> Listed(p) # {}
  BY DEF Visited, Listed
<1>2. ASSUME Visited(p) PROVE Met(p) > 0
  <2>1. Cardinality(Listed(p)) # 0
    BY <1>1, <1>2, ListedPending, FS_EmptySet
  <2>2. Cardinality(Listed(p)) <= Met(p)
    BY MetAtLeast
  <2>3. Met(p) \in Nat /\ Cardinality(Listed(p)) \in Nat
    BY MetType, ListedPending
  <2> QED BY <2>1, <2>2, <2>3
<1>3. ASSUME ~ Visited(p) PROVE Met(p) = 0
  <2>1. ASSUME NEW s \in Meetings(p) PROVE FALSE
    <3>1. PICK v \in Succ(p) : s \in {v} \X (1..attractor_new[v])
      BY DEF Meetings
    <3>2. attractor_new[v] \in Nat /\ ~ (attractor_new[v] > 0)
      BY <1>3, SuccFinite DEF Types, Visited
    <3> QED BY <3>1, <3>2
  <2>2. Meetings(p) = {}
    BY <2>1
  <2> QED BY <2>2, MetType, FS_EmptySet
<1> QED BY <1>1, <1>2, <1>3, MetType

-----------------------------------------------------------------------------
(* The attractors of the definition.                                       *)
IsLevel(level) ==
  level = [j \in Nat |-> IF j = 0 THEN Target ELSE level[j - 1] \cup Forced(level[j - 1])]

LEMMA LevelExists == \E level : IsLevel(level)
<1> DEFINE next == [k \in Nat |-> [S \in SUBSET Vertex |-> S \cup Forced(S)]]
<1>1. next \in [Nat -> [SUBSET Vertex -> SUBSET Vertex]]
  BY DEF Forced
<1>2. Target \in SUBSET Vertex
  BY AttractorAssumption
<1>3. \A k \in Nat, S \in SUBSET Vertex : next[k][S] = S \cup Forced(S)
  OBVIOUS
<1> HIDE DEF next
<1>4. PICK level : Iterates(level, SUBSET Vertex, Target, next)
  BY <1>1, <1>2, Iteration
<1>5. level \in [Nat -> SUBSET Vertex] /\ level[0] = Target
  BY <1>4 DEF Iterates
<1>6. ASSUME NEW j \in Nat, j # 0
      PROVE  level[j] = level[j - 1] \cup Forced(level[j - 1])
  <2>1. j - 1 \in Nat /\ (j - 1) + 1 = j
    BY <1>6
  <2>2. level[(j - 1) + 1] = next[j - 1][level[j - 1]]
    BY <1>4, <2>1 DEF Iterates
  <2> QED BY <1>3, <1>5, <2>1, <2>2
<1>7. IsLevel(level)
  BY <1>5, <1>6 DEF IsLevel
<1> QED BY <1>7

LEMMA LevelUnfold ==
  /\ Level(0) = Target
  /\ \A k \in Nat : Level(k + 1) = Level(k) \cup Forced(Level(k))
<1> DEFINE r == CHOOSE level : IsLevel(level)
<1>1. IsLevel(r)
  BY LevelExists
<1>2. \A k : Level(k) = r[k]
  BY DEF Level, IsLevel
<1> HIDE DEF r
<1>3. r[0] = Target
  BY <1>1 DEF IsLevel
<1>4. ASSUME NEW k \in Nat PROVE r[k + 1] = r[k] \cup Forced(r[k])
  <2>1. k + 1 \in Nat /\ k + 1 # 0 /\ (k + 1) - 1 = k
    OBVIOUS
  <2> QED BY <1>1, <2>1 DEF IsLevel
<1> QED BY <1>2, <1>3, <1>4

LEMMA ForcedMonotone ==
  ASSUME NEW S, NEW T, S \subseteq T
  PROVE  Forced(S) \subseteq Forced(T)
BY DEF Forced

(* Marks closed under the definition hold every attractor.                 *)
LEMMA ClosedIsAll ==
  ASSUME Target \subseteq attractor, Forced(attractor) \subseteq attractor
  PROVE  \A k \in Nat : Level(k) \subseteq attractor
<1> DEFINE T == {k \in Nat : Level(k) \subseteq attractor}
<1>1. 0 \in T
  BY LevelUnfold
<1>2. ASSUME NEW k \in Nat, k \in T PROVE k + 1 \in T
  BY <1>2, LevelUnfold, ForcedMonotone
<1> HIDE DEF T
<1>3. Nat \subseteq T
  BY <1>1, <1>2, NumberInduction
<1> QED BY <1>3 DEF T

LEMMA DefinitionKept ==
  ASSUME UNCHANGED arena
  PROVE  /\ \A p : Succ(p)' = Succ(p)
         /\ \A k : Level(k)' = Level(k)
BY DEF arena, Succ, Level, Forced

-----------------------------------------------------------------------------
(* A round marks every vertex forced into the marked ones.                 *)
LEMMA ForcedAppended ==
  ASSUME Types, ListMarked, PlayerPending, CounterBound,
         NEW p \in Forced(attractor), p \notin attractor
  PROVE  Appended(p) > 0
<1>1. p \in Vertex
  BY DEF Forced
<1>2. CASE p \in mine
  <2>1. PICK v \in Succ(p) \cap attractor : TRUE
    BY <1>2 DEF Forced
  <2>2. attractor_new[v] > 0
    BY <1>2, <2>1 DEF PlayerPending
  <2>3. Visited(p)
    BY <2>1, <2>2 DEF Visited
  <2> QED BY <1>2, <2>3, MetVisited DEF Appended
<1>3. CASE p \notin mine
  <2>1. Succ(p) # {} /\ Succ(p) \subseteq attractor
    BY <1>3 DEF Forced
  <2>2. out_degrees[p] > 0 /\ out_degrees[p] <= Cardinality(Pending(p))
    BY <1>1, <1>3, <2>1 DEF CounterBound
  <2>3. Pending(p) = Listed(p)
    BY <2>1 DEF Pending, Listed
  <2>4. out_degrees[p] <= Met(p)
    <3>1. Cardinality(Listed(p)) <= Met(p) /\ Met(p) \in Nat
      BY MetAtLeast, MetType
    <3>2. Cardinality(Listed(p)) \in Nat /\ out_degrees[p] \in Int
      BY <1>1, ListedPending DEF Types
    <3> QED BY <2>2, <2>3, <3>1, <3>2
  <2>5. Visited(p)
    <3>1. Met(p) > 0
      BY <1>1, <2>2, <2>4, MetType DEF Types
    <3> QED BY <3>1, MetVisited
  <2> QED BY <1>3, <2>2, <2>4, <2>5 DEF Appended
<1> QED BY <1>2, <1>3

LEMMA AppendedType ==
  ASSUME Types, NEW p
  PROVE  Appended(p) \in Nat
BY MetType DEF Appended

-----------------------------------------------------------------------------
LEMMA Initially == AttractorInit => IInv
<1> SUFFICES ASSUME AttractorInit PROVE IInv
  OBVIOUS
<1>0. \A v \in Vertex : attractor_new[v] = IF v \in Target THEN 1 ELSE 0
  BY DEF AttractorInit
<1>1. Types
  <2>1. attractor_new \in [Vertex -> Nat]
    BY DEF AttractorInit
  <2>2. \A v \in Vertex : Cardinality(Succ(v)) \in Int
    BY SuccFinite, FS_CardinalityType
  <2> QED BY <2>1, <2>2, AttractorAssumption DEF AttractorInit, Types
<1>2. ListMarked
  BY <1>0 DEF AttractorInit, ListMarked
<1>3. PlayerPending
  BY <1>0, SuccFinite DEF AttractorInit, PlayerPending
<1>4. CounterBound
  <2> SUFFICES ASSUME NEW p \in Vertex \ (attractor \cup mine), Succ(p) # {}
               PROVE  out_degrees[p] > 0 /\ out_degrees[p] <= Cardinality(Pending(p))
    BY DEF CounterBound
  <2>1. Pending(p) = Succ(p)
    BY <1>0, SuccFinite DEF Pending, AttractorInit
  <2>2. out_degrees[p] = Cardinality(Succ(p))
    BY DEF AttractorInit
  <2>3. Cardinality(Succ(p)) \in Nat /\ Cardinality(Succ(p)) # 0
    BY SuccFinite, FS_CardinalityType, FS_EmptySet
  <2> QED BY <2>1, <2>2, <2>3
<1>5. RoundsBound
  <2>1. attractor \ Target = {} /\ rounds = 0
    BY DEF AttractorInit
  <2> QED BY <2>1, FS_EmptySet DEF RoundsBound
<1>6. PlayerCanStay
  BY DEF AttractorInit, PlayerCanStay
<1>7. LevelMarked
  BY LevelUnfold DEF AttractorInit, LevelMarked
<1>8. DoneEmpty
  BY DEF AttractorInit, DoneEmpty
<1> QED BY <1>1, <1>2, <1>3, <1>4, <1>5, <1>6, <1>7, <1>8 DEF IInv

(* A vertex that a round marks is one that the list has a successor of.    *)
LEMMA MarkedIsMet ==
  ASSUME NEW p, Appended(p) > 0
  PROVE  p \notin attractor /\ \E v \in Succ(p) : attractor_new[v] > 0
BY DEF Appended, Visited

(* The new marks and the new list, and what the round leaves to come.      *)
LEMMA RoundMarks ==
  ASSUME Types, ListMarked, Round
  PROVE  /\ attractor' = attractor \cup {p \in Vertex : Appended(p) > 0}
         /\ \A v \in Vertex : attractor_new'[v] = Appended(v)
         /\ \A v \in attractor : Appended(v) = 0
         /\ \A p : Succ(p)' = Succ(p)
         /\ \A p : Pending(p)' = Succ(p) \ attractor
         /\ \A p : Pending(p) \ Listed(p) = Succ(p) \ attractor
<1>1. attractor' = attractor \cup {p \in Vertex : Appended(p) > 0}
  BY DEF Round
<1>2. \A v \in Vertex : attractor_new'[v] = Appended(v)
  BY DEF Round
<1>3. \A v \in attractor : Appended(v) = 0
  BY DEF Appended
<1>4. \A p : Succ(p)' = Succ(p)
  BY DefinitionKept DEF Round
<1>5. \A p : Pending(p)' = Succ(p) \ attractor
  <2> SUFFICES ASSUME NEW p, NEW v \in Succ(p)
               PROVE  v \notin attractor' \/ attractor_new'[v] > 0 <=> v \notin attractor
    BY <1>4 DEF Pending
  <2>1. v \in Vertex
    BY DEF Succ
  <2>2. attractor_new'[v] = Appended(v)
    BY <1>2, <2>1
  <2> QED BY <1>1, <1>3, <2>1, <2>2
<1>6. \A p : Pending(p) \ Listed(p) = Succ(p) \ attractor
  BY DEF Pending, Listed, ListMarked, Succ
<1> QED BY <1>1, <1>2, <1>3, <1>4, <1>5, <1>6

LEMMA RoundTypes == Types /\ Round => Types'
<1> SUFFICES ASSUME Types, Round PROVE Types'
  OBVIOUS
<1>1. \A p \in Vertex : Appended(p) \in Nat /\ Met(p) \in Nat
  BY AppendedType, MetType
<1>2. attractor_new' \in [Vertex -> Nat]
  BY <1>1 DEF Round
<1>3. out_degrees' \in [Vertex -> Int]
  <2>1. \A p \in Vertex : out_degrees[p] \in Int /\ out_degrees[p] - Met(p) \in Int
    BY <1>1 DEF Types
  <2> QED BY <2>1 DEF Round
<1>4. i' \in Int /\ rounds' \in Nat /\ (i' + rounds' >= 0 => i' >= 0)
  BY DEF Round, Types
<1>5. edges' = edges /\ mine' = mine /\ pc' = pc
  BY DEF Round, arena
<1>6. attractor' \subseteq Vertex /\ Target \subseteq attractor'
  BY DEF Round, Types
<1> QED BY <1>2, <1>3, <1>4, <1>5, <1>6 DEF Types

LEMMA RoundPlayer == IInv /\ Round => PlayerPending' /\ PlayerCanStay'
<1> SUFFICES ASSUME IInv, Round PROVE PlayerPending' /\ PlayerCanStay'
  OBVIOUS
<1>1. mine' = mine
  BY DEF Round, arena
<1>2. /\ attractor' = attractor \cup {p \in Vertex : Appended(p) > 0}
      /\ \A v \in Vertex : attractor_new'[v] = Appended(v)
      /\ \A p : Succ(p)' = Succ(p)
  BY RoundMarks DEF IInv
<1>3. PlayerPending'
  <2> SUFFICES ASSUME NEW p \in mine \ attractor', NEW v \in Succ(p) \cap attractor'
               PROVE  attractor_new'[v] > 0
    BY <1>1, <1>2 DEF PlayerPending
  <2>1. p \in Vertex /\ p \notin attractor /\ v \in Vertex
    BY <1>2 DEF IInv, Types, Succ
  <2>2. Appended(p) = 0
    BY <1>2, <2>1, AppendedType DEF IInv
  <2>3. ~ Visited(p)
    BY <2>1, <2>2, MetVisited DEF Appended, IInv
  <2>4. v \notin attractor
    BY <2>1, <2>3 DEF Visited, IInv, PlayerPending
  <2> QED BY <1>2, <2>1, <2>4
<1>4. PlayerCanStay'
  <2> SUFFICES ASSUME NEW p \in (attractor' \ Target) \cap mine
               PROVE  Succ(p) \cap attractor' # {}
    BY <1>1, <1>2 DEF PlayerCanStay
  <2>1. CASE p \in attractor
    BY <1>2, <2>1 DEF IInv, PlayerCanStay
  <2>2. CASE p \notin attractor
    <3>1. PICK v \in Succ(p) : attractor_new[v] > 0
      BY <1>2, <2>2, MarkedIsMet
    <3>2. v \in attractor
      BY <3>1 DEF IInv, ListMarked, Succ
    <3> QED BY <1>2, <3>2
  <2> QED BY <2>1, <2>2
<1> QED BY <1>3, <1>4

LEMMA RoundCounters == IInv /\ Round => CounterBound'
<1> SUFFICES ASSUME IInv, Round,
                    NEW p \in Vertex \ (attractor' \cup mine'), Succ(p)' # {}
             PROVE  out_degrees'[p] > 0 /\ out_degrees'[p] <= Cardinality(Pending(p)')
  BY DEF CounterBound
<1>1. /\ attractor' = attractor \cup {q \in Vertex : Appended(q) > 0}
      /\ Succ(p)' = Succ(p)
      /\ Pending(p)' = Pending(p) \ Listed(p)
  BY RoundMarks DEF IInv
<1>2. p \notin attractor /\ p \notin mine /\ Succ(p) # {}
  BY <1>1 DEF Round, arena
<1>3. out_degrees'[p] = out_degrees[p] - Met(p)
  BY <1>2 DEF Round
<1>4. out_degrees[p] > 0 /\ out_degrees[p] <= Cardinality(Pending(p)) /\ out_degrees[p] \in Int
  BY <1>2 DEF IInv, CounterBound, Types
<1>5. /\ Cardinality(Listed(p)) <= Met(p) /\ Met(p) \in Nat
      /\ Cardinality(Listed(p)) \in Nat /\ Cardinality(Pending(p)) \in Nat
      /\ Cardinality(Pending(p) \ Listed(p)) = Cardinality(Pending(p)) - Cardinality(Listed(p))
  BY MetAtLeast, MetType, ListedPending DEF IInv
<1>6. Appended(p) = 0
  BY <1>1, AppendedType DEF IInv
<1>7. out_degrees[p] > Met(p)
  <2>1. CASE Visited(p)
    BY <1>2, <1>4, <1>5, <1>6, <2>1 DEF Appended
  <2>2. CASE ~ Visited(p)
    <3>1. Met(p) = 0
      BY <1>5, <2>2, MetVisited DEF IInv
    <3> QED BY <1>4, <3>1
  <2> QED BY <2>1, <2>2
<1> QED BY <1>1, <1>3, <1>4, <1>5, <1>7

LEMMA RoundCount == IInv /\ Round => RoundsBound'
<1> SUFFICES ASSUME IInv, Round PROVE RoundsBound'
  OBVIOUS
<1>1. /\ attractor' = attractor \cup {p \in Vertex : Appended(p) > 0}
      /\ \A v \in Vertex : attractor_new'[v] = Appended(v)
  BY RoundMarks DEF IInv
<1> DEFINE old == attractor \ Target
           new == attractor' \ Target
<1>2. IsFiniteSet(new) /\ old \subseteq new
  <2>1. new \subseteq Vertex
    BY <1>1 DEF IInv, Types
  <2> QED BY <1>1, <2>1, AttractorAssumption, FS_Subset
<1> HIDE DEF old, new
<1>3. IsFiniteSet(old) /\ Cardinality(old) <= Cardinality(new)
  BY <1>2, FS_Subset
<1>4. Cardinality(old) \in Nat /\ Cardinality(new) \in Nat
  BY <1>2, <1>3, FS_CardinalityType
<1>5. rounds' = rounds + 1 /\ rounds <= Cardinality(old) /\ rounds \in Nat
  <2>1. rounds <= Cardinality(old) + 0
    BY DEF Round, IInv, RoundsBound, old
  <2> QED BY <1>4, <2>1 DEF Round, IInv, Types
<1>6. CASE \E v \in Vertex : attractor_new'[v] > 0
  <2>1. PICK v \in Vertex : Appended(v) > 0
    BY <1>1, <1>6
  <2>2. v \in new /\ v \notin old
    BY <1>1, <2>1, MarkedIsMet DEF old, new, IInv, Types
  <2>3. Cardinality(old) # Cardinality(new)
    BY <1>2, <2>2, FS_Subset
  <2>4. rounds + 1 <= Cardinality(new)
    BY <1>3, <1>4, <1>5, <2>3
  <2> QED BY <1>4, <1>5, <1>6, <2>4 DEF RoundsBound, new
<1>7. CASE ~ \E v \in Vertex : attractor_new'[v] > 0
  <2>1. rounds + 1 <= Cardinality(new) + 1
    BY <1>3, <1>4, <1>5
  <2> QED BY <1>5, <1>7, <2>1 DEF RoundsBound, new
<1> QED BY <1>6, <1>7

LEMMA RoundLevel == IInv /\ Round => LevelMarked'
<1> SUFFICES ASSUME IInv, Round PROVE LevelMarked'
  OBVIOUS
<1>1. attractor' = attractor \cup {p \in Vertex : Appended(p) > 0}
  BY RoundMarks DEF IInv
<1>2. \A k : Level(k)' = Level(k)
  BY DefinitionKept DEF Round
<1>3. rounds \in Nat /\ rounds' = rounds + 1
  BY DEF Round, IInv, Types
<1>4. Level(rounds + 1) = Level(rounds) \cup Forced(Level(rounds))
  BY <1>3, LevelUnfold
<1>5. Forced(Level(rounds)) \subseteq Forced(attractor)
  BY ForcedMonotone DEF IInv, LevelMarked
<1>6. Forced(attractor) \subseteq attractor'
  BY <1>1, ForcedAppended DEF IInv, Forced
<1>7. Level(rounds + 1) \subseteq attractor'
  BY <1>1, <1>4, <1>5, <1>6 DEF IInv, LevelMarked
<1>8. LevelMarked' <=> Level(rounds + 1) \subseteq attractor'
  BY <1>2, <1>3 DEF LevelMarked
<1> QED BY <1>7, <1>8

LEMMA RoundKeeps == IInv /\ Round => IInv'
<1> SUFFICES ASSUME IInv, Round PROVE IInv'
  OBVIOUS
<1>1. ListMarked'
  <2> SUFFICES ASSUME NEW v \in Vertex, attractor_new'[v] > 0 PROVE v \in attractor'
    BY DEF ListMarked
  <2>1. attractor_new'[v] = Appended(v)
    BY DEF Round
  <2> QED BY <2>1 DEF Round
<1>2. DoneEmpty'
  BY DEF Round, DoneEmpty
<1> QED BY <1>1, <1>2, RoundTypes, RoundPlayer, RoundCounters, RoundCount, RoundLevel DEF IInv

LEMMA ReturnKeeps == IInv /\ (Return \/ Returned \/ UNCHANGED attractorVars) => IInv'
<1> SUFFICES ASSUME IInv, Return \/ Returned \/ UNCHANGED attractorVars PROVE IInv'
  OBVIOUS
<1>1. /\ UNCHANGED arena
      /\ edges' = edges /\ mine' = mine /\ out_degrees' = out_degrees
      /\ attractor' = attractor /\ attractor_new' = attractor_new
      /\ i' = i /\ rounds' = rounds
  BY DEF Return, Returned, attractorVars, arena
<1>2. (\A p : Succ(p)' = Succ(p)) /\ (\A k : Level(k)' = Level(k))
  BY <1>1, DefinitionKept
<1>3. Types' /\ ListMarked' /\ PlayerPending' /\ RoundsBound' /\ PlayerCanStay'
  <2>1. pc' \in {"loop", "done"}
    BY DEF Return, Returned, attractorVars, IInv, Types
  <2> QED BY <1>1, <1>2, <2>1
         DEF IInv, Types, ListMarked, PlayerPending, RoundsBound, PlayerCanStay
<1>4. CounterBound'
  <2>1. \A p : Pending(p)' = Pending(p)
    BY <1>1, <1>2 DEF Pending
  <2> QED BY <1>1, <1>2, <2>1 DEF IInv, CounterBound
<1>5. LevelMarked'
  BY <1>1, <1>2 DEF IInv, LevelMarked
<1>6. DoneEmpty'
  <2>1. CASE Return
    <3>1. i # 0 => \A v \in Vertex : attractor_new[v] = 0
      BY <2>1 DEF Return
    <3> QED BY <1>1, <3>1 DEF DoneEmpty
  <2>2. CASE Returned \/ UNCHANGED attractorVars
    BY <1>1, <2>2 DEF Returned, attractorVars, IInv, DoneEmpty
  <2> QED BY <2>1, <2>2
<1> QED BY <1>3, <1>4, <1>5, <1>6 DEF IInv

LEMMA StepKeeps == IInv /\ [AttractorNext]_attractorVars => IInv'
BY RoundKeeps, ReturnKeeps DEF AttractorNext

-----------------------------------------------------------------------------
(* The loop of attractor ends after as many rounds as there are vertices   *)
(* to mark, and one more; the counters and the list stay what they are     *)
(* declared to be.                                                         *)
THEOREM AttractorTypes == AttractorSpec => []AttractorTypeOK
<1>1. IInv => AttractorTypeOK
  <2> SUFFICES ASSUME IInv PROVE AttractorTypeOK
    OBVIOUS
  <2> DEFINE old == attractor \ Target
             all == Vertex \ Target
  <2>1. IsFiniteSet(all) /\ old \subseteq all
    BY AttractorAssumption, FS_Difference DEF IInv, Types
  <2>2. rounds <= Cardinality(old) + (IF \E v \in Vertex : attractor_new[v] > 0 THEN 0 ELSE 1)
    BY DEF IInv, RoundsBound
  <2> HIDE DEF old, all
  <2>3. /\ Cardinality(old) <= Cardinality(all)
        /\ Cardinality(old) \in Nat /\ Cardinality(all) \in Nat
    BY <2>1, FS_Subset, FS_CardinalityType
  <2>4. rounds <= Cardinality(all) + 1
    BY <2>2, <2>3 DEF IInv, Types
  <2> QED BY <2>4 DEF IInv, Types, AttractorTypeOK, all
<1> QED BY Initially, StepKeeps, <1>1, PTL DEF AttractorSpec

(* However often vertices are listed and counted, attractor misses none:   *)
(* after k rounds the k-th attractor is marked, and all of them are when   *)
(* the loop ends because the list is empty.                                *)
THEOREM NothingMissed == AttractorSpec => []Complete
<1>1. IInv => Complete
  <2> SUFFICES ASSUME IInv PROVE Complete
    OBVIOUS
  <2>1. Level(rounds) \subseteq attractor
    BY DEF IInv, LevelMarked
  <2>2. ASSUME pc = "done", i # 0
        PROVE  Level(Cardinality(Vertex)) \subseteq attractor
    <3>1. \A v \in Vertex : attractor_new[v] = 0
      BY <2>2 DEF IInv, DoneEmpty
    <3>2. ASSUME NEW p \in Forced(attractor), p \notin attractor PROVE FALSE
      <4>1. Appended(p) > 0
        BY <3>2, ForcedAppended DEF IInv
      <4>2. PICK v \in Succ(p) : attractor_new[v] > 0
        BY <4>1, MarkedIsMet
      <4> QED BY <3>1, <4>2, SuccFinite
    <3>3. Forced(attractor) \subseteq attractor
      BY <3>2
    <3> QED BY <3>3, ClosedIsAll, AttractorAssumption, FS_CardinalityType DEF IInv, Types
  <2> QED BY <2>1, <2>2 DEF Complete
<1> QED BY Initially, StepKeeps, <1>1, PTL DEF AttractorSpec

(* Whatever the limit, and however often vertices are listed: from a       *)
(* marked vertex of his the player can move to a marked one.               *)
THEOREM PlayerStays == AttractorSpec => []PlayerCanStay
<1>1. IInv => PlayerCanStay
  BY DEF IInv
<1> QED BY Initially, StepKeeps, <1>1, PTL DEF AttractorSpec

-----------------------------------------------------------------------------
(* The converse of ForcedAppended, when the counters are exact and no      *)
(* vertex is listed twice: only forced vertices are marked.                *)
LEMMA AppendedForced ==
  ASSUME IInv, Exact, DuplicateFree, NEW p \in Vertex, Appended(p) > 0
  PROVE  p \in Forced(attractor)
<1>1. p \notin attractor /\ \E v \in Succ(p) : attractor_new[v] > 0
  BY MarkedIsMet
<1>2. CASE p \in mine
  BY <1>1, <1>2, SuccFinite DEF IInv, ListMarked, Forced
<1>3. CASE p \notin mine
  <2>1. out_degrees[p] <= Met(p)
    BY <1>1, <1>3 DEF Appended
  <2>2. Met(p) = Cardinality(Listed(p))
    BY MetOnceEach DEF IInv
  <2>3. out_degrees[p] = Cardinality(Pending(p))
    BY <1>1, <1>3 DEF Exact, Pending
  <2>4. Cardinality(Pending(p) \ Listed(p)) = 0
    <3>1. /\ Cardinality(Pending(p) \ Listed(p)) = Cardinality(Pending(p)) - Cardinality(Listed(p))
          /\ Cardinality(Pending(p)) \in Nat /\ Cardinality(Listed(p)) \in Nat
          /\ IsFiniteSet(Pending(p))
      BY ListedPending
    <3>2. Cardinality(Pending(p) \ Listed(p)) \in Nat
      BY <3>1, FS_Difference, FS_CardinalityType
    <3> QED BY <2>1, <2>2, <2>3, <3>1, <3>2
  <2>5. Pending(p) \ Listed(p) = {}
    <3>1. IsFiniteSet(Pending(p) \ Listed(p))
      BY ListedPending, FS_Difference
    <3> QED BY <2>4, <3>1, FS_EmptySet
  <2>6. Succ(p) \subseteq attractor
    BY <2>5, SuccFinite DEF Pending, Listed, IInv, ListMarked
  <2> QED BY <1>1, <1>3, <2>6 DEF Forced
<1> QED BY <1>2, <1>3

LEMMA RoundStaysExact == IInv /\ Exact /\ DuplicateFree /\ Round => Exact'
<1> SUFFICES ASSUME IInv, Exact, DuplicateFree, Round PROVE Exact'
  OBVIOUS
<1>1. /\ attractor' = attractor \cup {p \in Vertex : Appended(p) > 0}
      /\ \A p : Pending(p)' = Succ(p) \ attractor
      /\ \A p : Pending(p) \ Listed(p) = Succ(p) \ attractor
  BY RoundMarks DEF IInv
<1>2. (\A p : Succ(p)' = Succ(p)) /\ (\A k : Level(k)' = Level(k))
  BY DefinitionKept DEF Round
<1>3. attractor' = attractor \cup Forced(attractor)
  <2>1. \A p \in Forced(attractor) : p \in Vertex /\ (p \in attractor \/ Appended(p) > 0)
    BY ForcedAppended DEF IInv, Forced
  <2>2. \A p \in Vertex : Appended(p) > 0 => p \in Forced(attractor)
    BY AppendedForced
  <2> QED BY <1>1, <2>1, <2>2
<1>4. attractor' = Level(rounds)'
  <2>1. rounds \in Nat /\ rounds' = rounds + 1
    BY DEF Round, IInv, Types
  <2>2. Level(rounds + 1) = attractor \cup Forced(attractor)
    BY <2>1, LevelUnfold DEF Exact
  <2>3. Level(rounds)' = Level(rounds + 1)
    BY <2>1 DEF Level, Forced, Succ, Round, arena
  <2> QED BY <1>3, <2>2, <2>3
<1>5. ASSUME NEW p \in Vertex \ (attractor' \cup mine')
      PROVE  out_degrees'[p] = Cardinality(Pending(p)')
  <2>1. p \notin attractor /\ p \notin mine
    BY <1>1 DEF Round, arena
  <2>2. out_degrees'[p] = out_degrees[p] - Met(p)
    BY <2>1 DEF Round
  <2>3. out_degrees[p] = Cardinality(Pending(p))
    BY <2>1 DEF Exact, Pending
  <2>4. Met(p) = Cardinality(Listed(p))
    BY MetOnceEach DEF IInv
  <2>5. Cardinality(Pending(p) \ Listed(p)) = Cardinality(Pending(p)) - Cardinality(Listed(p))
    BY ListedPending
  <2> QED BY <1>1, <2>2, <2>3, <2>4, <2>5
<1>6. Exact' <=> /\ attractor' = Level(rounds)'
                 /\ \A p \in Vertex \ (attractor' \cup mine') :
                      out_degrees'[p] = Cardinality(Pending(p)')
  BY DEF Exact, Pending
<1> QED BY <1>4, <1>5, <1>6

LEMMA ExactKept == Exact /\ (Return \/ Returned \/ UNCHANGED attractorVars) => Exact'
<1> SUFFICES ASSUME Exact, Return \/ Returned \/ UNCHANGED attractorVars PROVE Exact'
  OBVIOUS
<1>1. /\ UNCHANGED arena
      /\ mine' = mine /\ out_degrees' = out_degrees
      /\ attractor' = attractor /\ attractor_new' = attractor_new /\ rounds' = rounds
  BY DEF Return, Returned, attractorVars, arena
<1>2. (\A p : Succ(p)' = Succ(p)) /\ Level(rounds)' = Level(rounds)
  BY <1>1, DefinitionKept DEF Level, Forced, Succ, arena
<1> QED BY <1>1, <1>2 DEF Exact

(* As long as no vertex is listed twice, a round computes the next         *)
(* attractor of the definition and leaves the counters exact: listing a    *)
(* vertex twice is the only way attractor can go wrong.                    *)
THEOREM RoundsAreExact == AttractorSpec => RoundExact
<1>1. IInv /\ [AttractorNext]_attractorVars => (Exact /\ DuplicateFree => Exact')
  BY RoundStaysExact, ExactKept DEF AttractorNext
<1>2. IInv /\ [AttractorNext]_attractorVars => [Exact /\ DuplicateFree => Exact']_attractorVars
  BY <1>1
<1>3. AttractorSpec => []IInv
  BY Initially, StepKeeps, PTL DEF AttractorSpec
<1> QED BY <1>2, <1>3, PTL DEF AttractorSpec, RoundExact

-----------------------------------------------------------------------------
(* constructSAT                                                            *)


(* Where a run can be: at a state, or nowhere any more.                    *)
Places(B) == States(B.na) \cup {None}

IsAutomaton(B) ==
  /\ B.na \in Nat \ {0}
  /\ B.delta \in [States(B.na) -> [Letter -> Places(B)]]
  /\ B.acc \subseteq States(B.na)

IsRun(s, B, q, v) ==
  s = [h \in 0..Len(v) |-> IF h = 0 THEN q ELSE Step(B, s[h - 1], v[h])]

LEMMA StepType ==
  ASSUME NEW B, IsAutomaton(B), NEW q \in Places(B), NEW a \in Letter
  PROVE  Step(B, q, a) \in Places(B)
BY DEF IsAutomaton, Step, Places, States, None

LEMMA RunExists ==
  ASSUME NEW B, IsAutomaton(B), NEW q \in Places(B), NEW v \in Seq(Letter)
  PROVE  \E s : IsRun(s, B, q, v)
<1> DEFINE next == [h \in 1..Len(v) |-> [p \in Places(B) |-> Step(B, p, v[h])]]
<1>1. next \in [1..Len(v) -> [Places(B) -> Places(B)]]
  <2>1. \A h \in 1..Len(v) : v[h] \in Letter
    OBVIOUS
  <2> QED BY <2>1, StepType
<1>2. \A h \in 1..Len(v), p \in Places(B) : next[h][p] = Step(B, p, v[h])
  OBVIOUS
<1> HIDE DEF next
<1>3. Len(v) \in Nat
  OBVIOUS
<1>4. PICK s : IteratesUpto(s, Len(v), Places(B), q, next)
  BY <1>1, <1>3, BoundedIteration
<1>5. /\ s \in [0..Len(v) -> Places(B)]
      /\ s[0] = q
      /\ \A h \in 1..Len(v) : s[h] = next[h][s[h - 1]]
  BY <1>4 DEF IteratesUpto
<1>6. \A h \in 1..Len(v) : s[h] = Step(B, s[h - 1], v[h])
  <2> TAKE h \in 1..Len(v)
  <2>1. s[h - 1] \in Places(B)
    BY <1>3, <1>5
  <2> QED BY <1>2, <1>5, <2>1
<1>7. IsRun(s, B, q, v)
  BY <1>3, <1>5, <1>6 DEF IsRun
<1> QED BY <1>7

LEMMA RunIsRun ==
  ASSUME NEW B, IsAutomaton(B), NEW q \in Places(B), NEW v \in Seq(Letter)
  PROVE  \E s : IsRun(s, B, q, v) /\ Run(B, q, v) = s[Len(v)]
<1> DEFINE r == CHOOSE s : IsRun(s, B, q, v)
<1>1. IsRun(r, B, q, v)
  BY RunExists
<1>2. Run(B, q, v) = r[Len(v)]
  BY DEF Run, IsRun
<1> QED BY <1>1, <1>2

(* The letters a run reads first decide where it is after them.            *)
LEMMA RunUnique ==
  ASSUME NEW B, NEW q, NEW v \in Seq(Letter), NEW w \in Seq(Letter),
         Len(v) <= Len(w), \A h \in 1..Len(v) : v[h] = w[h],
         NEW s, IsRun(s, B, q, v), NEW t, IsRun(t, B, q, w)
  PROVE  s[Len(v)] = t[Len(v)]
<1> DEFINE T == {h \in 0..Len(v) : s[h] = t[h]}
<1>1. Len(v) \in Nat /\ Len(w) \in Nat
  OBVIOUS
<1>2. 0 \in T
  BY <1>1 DEF IsRun
<1>3. ASSUME NEW h \in 0..Len(v) - 1, h \in T PROVE h + 1 \in T
  <2>1. h + 1 \in 1..Len(v) /\ h + 1 \in 1..Len(w) /\ (h + 1) - 1 = h
    BY <1>1
  <2>2. s[h + 1] = Step(B, s[(h + 1) - 1], v[h + 1])
    BY <1>1, <2>1 DEF IsRun
  <2>3. t[h + 1] = Step(B, t[(h + 1) - 1], w[h + 1])
    BY <1>1, <2>1 DEF IsRun
  <2>4. s[h] = t[h]
    BY <1>3
  <2>5. s[h + 1] = t[h + 1]
    BY <2>1, <2>2, <2>3, <2>4
  <2> QED BY <1>1, <2>1, <2>5
<1> HIDE DEF T
<1>4. 0..Len(v) \subseteq T
  BY <1>1, <1>2, <1>3, IntervalInduction
<1> QED BY <1>1, <1>4 DEF T

LEMMA RunEmpty ==
  ASSUME NEW B, IsAutomaton(B), NEW q \in Places(B)
  PROVE  Run(B, q, <<>>) = q
<1>1. <<>> \in Seq(Letter) /\ Len(<<>>) = 0
  OBVIOUS
<1>2. PICK s : IsRun(s, B, q, <<>>) /\ Run(B, q, <<>>) = s[Len(<<>>)]
  BY <1>1, RunIsRun
<1> QED BY <1>1, <1>2 DEF IsRun

LEMMA RunAppend ==
  ASSUME NEW B, IsAutomaton(B), NEW q \in Places(B),
         NEW v \in Seq(Letter), NEW a \in Letter
  PROVE  Run(B, q, Append(v, a)) = Step(B, Run(B, q, v), a)
<1> DEFINE w == Append(v, a)
<1>1. /\ w \in Seq(Letter)
      /\ Len(v) \in Nat
      /\ Len(w) = Len(v) + 1
      /\ w[Len(w)] = a
      /\ \A h \in 1..Len(v) : v[h] = w[h]
  OBVIOUS
<1> HIDE DEF w
<1>2. PICK s : IsRun(s, B, q, v) /\ Run(B, q, v) = s[Len(v)]
  BY RunIsRun
<1>3. PICK t : IsRun(t, B, q, w) /\ Run(B, q, w) = t[Len(w)]
  BY <1>1, RunIsRun
<1>4. s[Len(v)] = t[Len(v)]
  BY <1>1, <1>2, <1>3, RunUnique
<1>5. t[Len(w)] = Step(B, t[Len(w) - 1], w[Len(w)])
  BY <1>1, <1>3 DEF IsRun
<1>6. Len(w) - 1 = Len(v)
  BY <1>1
<1>7. Run(B, q, w) = Step(B, Run(B, q, v), a)
  BY <1>1, <1>2, <1>3, <1>4, <1>5, <1>6
<1> QED BY <1>7 DEF w

LEMMA RunType ==
  ASSUME NEW B, IsAutomaton(B), NEW q \in Places(B)
  PROVE  \A v \in Seq(Letter) : Run(B, q, v) \in Places(B)
<1> DEFINE T == {v \in Seq(Letter) : Run(B, q, v) \in Places(B)}
<1>1. <<>> \in T
  BY RunEmpty
<1>2. \A v \in Seq(Letter), a \in Letter : v \in T => Append(v, a) \in T
  BY RunAppend, StepType
<1> HIDE DEF T
<1>3. Seq(Letter) \subseteq T
  BY <1>1, <1>2, WordInduction
<1> QED BY <1>3 DEF T

LEMMA RunConcat ==
  ASSUME NEW B, IsAutomaton(B), NEW q \in Places(B), NEW v \in Seq(Letter)
  PROVE  \A w \in Seq(Letter) : Run(B, q, v \o w) = Run(B, Run(B, q, v), w)
<1> DEFINE T == {w \in Seq(Letter) : Run(B, q, v \o w) = Run(B, Run(B, q, v), w)}
<1>0. Run(B, q, v) \in Places(B)
  BY RunType
<1>1. <<>> \in T
  BY <1>0, RunEmpty
<1>2. ASSUME NEW w \in Seq(Letter), NEW a \in Letter, w \in T
      PROVE  Append(w, a) \in T
  <2>1. v \o Append(w, a) = Append(v \o w, a) /\ v \o w \in Seq(Letter)
    OBVIOUS
  <2>2. Run(B, q, Append(v \o w, a)) = Step(B, Run(B, q, v \o w), a)
    BY <2>1, RunAppend
  <2>3. Run(B, Run(B, q, v), Append(w, a)) = Step(B, Run(B, Run(B, q, v), w), a)
    BY <1>0, RunAppend
  <2>4. Append(w, a) \in Seq(Letter) /\ Run(B, q, v \o w) = Run(B, Run(B, q, v), w)
    BY <1>2
  <2> HIDE DEF T
  <2>5. Run(B, q, v \o Append(w, a)) = Run(B, Run(B, q, v), Append(w, a))
    BY <2>1, <2>2, <2>3, <2>4
  <2> QED BY <2>4, <2>5 DEF T
<1> HIDE DEF T
<1>3. Seq(Letter) \subseteq T
  BY <1>1, <1>2, WordInduction
<1> QED BY <1>3 DEF T

(* Where there is no transition the run does not come back.                *)
LEMMA RunStuck ==
  ASSUME NEW B, IsAutomaton(B)
  PROVE  \A w \in Seq(Letter) : Run(B, None, w) = None
<1> DEFINE T == {w \in Seq(Letter) : Run(B, None, w) = None}
<1>0. None \in Places(B)
  BY DEF Places
<1>1. <<>> \in T
  BY <1>0, RunEmpty
<1>2. \A w \in Seq(Letter), a \in Letter : w \in T => Append(w, a) \in T
  BY <1>0, RunAppend DEF Step
<1> HIDE DEF T
<1>3. Seq(Letter) \subseteq T
  BY <1>1, <1>2, WordInduction
<1> QED BY <1>3 DEF T

-----------------------------------------------------------------------------
(* The candidate model and the counterexample automaton, read together.    *)
TypeOK ==
  /\ n \in Nat \ {0}
  /\ d \in [States(n) -> [Letter -> States(n)]]
  /\ f \in SUBSET States(n)
  /\ kind \in {"ex", "uni"}
  /\ u \in Antecedent
  /\ IsAutomaton(A)
  /\ verdict \in {"none", "sat", "unsat", "exception"}

Pairs == States(n) \X States(A.na)

PairOf(v) == <<Run(DFA, 0, v), Run(A, 0, v)>>

LEMMA DFAIsAutomaton ==
  ASSUME TypeOK
  PROVE  IsAutomaton(DFA) /\ DFA.na = n /\ DFA.delta = d /\ DFA.acc = f
BY DEF TypeOK, IsAutomaton, DFA, Places

LEMMA InitialPlaces ==
  ASSUME TypeOK
  PROVE  /\ 0 \in States(n) /\ 0 \in Places(DFA)
         /\ 0 \in States(A.na) /\ 0 \in Places(A)
BY DFAIsAutomaton DEF TypeOK, IsAutomaton, Places, States

(* The DFA is total.                                                       *)
LEMMA DFARunType ==
  ASSUME TypeOK
  PROVE  \A v \in Seq(Letter) : Run(DFA, 0, v) \in States(n)
<1> DEFINE T == {v \in Seq(Letter) : Run(DFA, 0, v) \in States(n)}
<1>1. <<>> \in T
  BY InitialPlaces, DFAIsAutomaton, RunEmpty
<1>2. ASSUME NEW v \in Seq(Letter), NEW a \in Letter, v \in T
      PROVE  Append(v, a) \in T
  <2>1. Run(DFA, 0, Append(v, a)) = Step(DFA, Run(DFA, 0, v), a)
    BY InitialPlaces, DFAIsAutomaton, RunAppend
  <2>2. Run(DFA, 0, v) \in States(n) /\ Append(v, a) \in Seq(Letter)
    BY <1>2
  <2>3. Run(DFA, 0, v) # None
    BY <2>2 DEF States, None, TypeOK
  <2>4. Step(DFA, Run(DFA, 0, v), a) = d[Run(DFA, 0, v)][a]
    BY <2>3, DFAIsAutomaton DEF Step
  <2>5. Run(DFA, 0, Append(v, a)) \in States(n)
    BY <2>1, <2>2, <2>4 DEF TypeOK
  <2> QED BY <2>2, <2>5
<1> HIDE DEF T
<1>3. Seq(Letter) \subseteq T
  BY <1>1, <1>2, WordInduction
<1> QED BY <1>3 DEF T

LEMMA PairOfType ==
  ASSUME TypeOK, NEW v \in Seq(Letter), Run(A, 0, v) # None
  PROVE  PairOf(v) \in Pairs
BY DFARunType, RunType, InitialPlaces DEF TypeOK, PairOf, Pairs, Places

LEMMA PairOfEmpty ==
  ASSUME TypeOK
  PROVE  PairOf(<<>>) = <<0, 0>>
BY InitialPlaces, DFAIsAutomaton, RunEmpty DEF PairOf, TypeOK

LEMMA PairOfAppend ==
  ASSUME TypeOK, NEW v \in Seq(Letter), NEW a \in Letter
  PROVE  /\ Run(A, 0, v) # None =>
              PairOf(Append(v, a)) = <<d[PairOf(v)[1]][a], A.delta[PairOf(v)[2]][a]>>
         /\ Run(A, 0, v) = None => Run(A, 0, Append(v, a)) = None
<1>1. Run(DFA, 0, Append(v, a)) = d[Run(DFA, 0, v)][a]
  <2>1. Run(DFA, 0, Append(v, a)) = Step(DFA, Run(DFA, 0, v), a)
    BY InitialPlaces, DFAIsAutomaton, RunAppend
  <2>2. Run(DFA, 0, v) \in States(n)
    BY DFARunType
  <2>3. Run(DFA, 0, v) # None
    BY <2>2 DEF States, None, TypeOK
  <2> QED BY <2>1, <2>3, DFAIsAutomaton DEF Step
<1>2. Run(A, 0, Append(v, a)) = Step(A, Run(A, 0, v), a)
  BY InitialPlaces, RunAppend DEF TypeOK
<1> QED BY <1>1, <1>2 DEF Step, PairOf

-----------------------------------------------------------------------------
(* Universal counterexamples.                                              *)

LEMMA FirstLettersAll ==
  ASSUME Adjacent = {}
  PROVE  \A q : FirstLetters(q) = {a \in Letter : A.delta[q][a] # None}
BY DEF FirstLetters

(* What the constraint makes y hold of: the pairs a common word reaches.   *)
LEMMA YHoldsOfPairs ==
  ASSUME TypeOK, Adjacent = {}, NEW Y, YConstraint(Y)
  PROVE  \A v \in Seq(Letter) : Run(A, 0, v) # None => PairOf(v) \in Y
<1> DEFINE T == {v \in Seq(Letter) : Run(A, 0, v) # None => PairOf(v) \in Y}
<1>1. <<>> \in T
  BY PairOfEmpty DEF YConstraint
<1>2. ASSUME NEW v \in Seq(Letter), NEW a \in Letter, v \in T
      PROVE  Append(v, a) \in T
  <2> SUFFICES ASSUME Run(A, 0, Append(v, a)) # None
               PROVE  PairOf(Append(v, a)) \in Y
    OBVIOUS
  <2>1. Run(A, 0, v) # None
    BY PairOfAppend
  <2>2. PairOf(v) \in Y /\ PairOf(v) \in Pairs
    BY <1>2, <2>1, PairOfType
  <2>3. PICK p \in States(n), pA \in States(A.na) : PairOf(v) = <<p, pA>>
    BY <2>2 DEF Pairs
  <2>4. PairOf(Append(v, a)) = <<d[p][a], A.delta[pA][a]>>
    BY <2>1, <2>3, PairOfAppend
  <2>5. A.delta[pA][a] # None
    BY <2>4 DEF PairOf
  <2>6. a \in FirstLetters(pA)
    BY <2>5, FirstLettersAll
  <2> QED BY <2>2, <2>3, <2>4, <2>6 DEF YConstraint
<1> HIDE DEF T
<1>3. Seq(Letter) \subseteq T
  BY <1>1, <1>2, WordInduction
<1> QED BY <1>3 DEF T

LEMMA UniSound ==
  ASSUME TypeOK, Adjacent = {}, UniFormula, Accepts(DFA, u)
  PROVE  \A v \in Seq(Letter) : Accepts(A, v) => Accepts(DFA, v)
<1>1. PICK Y \in SUBSET Pairs :
         /\ YConstraint(Y)
         /\ \A q \in States(n), qA \in A.acc : <<q, qA>> \in Y => q \in f
  BY DEF UniFormula, Antecedes, Pairs
<1> TAKE v \in Seq(Letter)
<1> HAVE Accepts(A, v)
<1>2. Run(A, 0, v) \in A.acc /\ Run(A, 0, v) # None
  BY DEF Accepts, TypeOK, IsAutomaton, States, None
<1>3. PairOf(v) \in Y
  BY <1>1, <1>2, YHoldsOfPairs
<1>4. Run(DFA, 0, v) \in f
  BY <1>1, <1>2, <1>3, DFARunType DEF PairOf
<1> QED BY <1>4, DFAIsAutomaton DEF Accepts

(* The least value of y.                                                   *)
Reached == {s \in Pairs : \E v \in Seq(Letter) : Run(A, 0, v) # None /\ s = PairOf(v)}

LEMMA ReachedSatisfiesY ==
  ASSUME TypeOK
  PROVE  YConstraint(Reached)
<1>1. <<0, 0>> \in Reached
  <2>1. <<>> \in Seq(Letter) /\ PairOf(<<>>) = <<0, 0>> /\ <<0, 0>> \in Pairs
    BY PairOfEmpty, InitialPlaces DEF Pairs
  <2>2. Run(A, 0, <<>>) # None
    BY <2>1 DEF PairOf, None
  <2> QED BY <2>1, <2>2 DEF Reached
<1>2. ASSUME NEW p \in States(n), NEW pA \in States(A.na),
             NEW a \in FirstLetters(pA), <<p, pA>> \in Reached
      PROVE  <<d[p][a], A.delta[pA][a]>> \in Reached
  <2>1. PICK v \in Seq(Letter) : Run(A, 0, v) # None /\ <<p, pA>> = PairOf(v)
    BY <1>2 DEF Reached
  <2>2. a \in Letter /\ A.delta[pA][a] # None
    BY DEF FirstLetters
  <2>3. PairOf(Append(v, a)) = <<d[p][a], A.delta[pA][a]>>
    BY <2>1, <2>2, PairOfAppend
  <2>4. Run(A, 0, Append(v, a)) # None /\ Append(v, a) \in Seq(Letter)
    BY <2>2, <2>3 DEF PairOf
  <2>5. PairOf(Append(v, a)) \in Pairs
    BY <2>4, PairOfType
  <2> QED BY <2>3, <2>4, <2>5 DEF Reached
<1> QED BY <1>1, <1>2 DEF YConstraint

LEMMA SplitWord ==
  ASSUME NEW w \in Seq(Letter), NEW h \in 0..Len(w)
  PROVE  /\ SubSeq(w, 1, h) \in Seq(Letter) /\ Len(SubSeq(w, 1, h)) = h
         /\ SubSeq(w, h + 1, Len(w)) \in Seq(Letter)
         /\ Len(SubSeq(w, h + 1, Len(w))) = Len(w) - h
         /\ w = SubSeq(w, 1, h) \o SubSeq(w, h + 1, Len(w))
<1>1. Len(w) \in Nat /\ h \in Int /\ \A j \in 1..Len(w) : w[j] \in Letter
  OBVIOUS
<1>2. SubSeq(w, 1, h) \in Seq(Letter) /\ Len(SubSeq(w, 1, h)) = h
  <2>1. \A j \in 1..h : w[j] \in Letter
    BY <1>1
  <2>2. /\ SubSeq(w, 1, h) \in Seq(Letter)
        /\ Len(SubSeq(w, 1, h)) = IF 1 <= h THEN h - 1 + 1 ELSE 0
    BY <1>1, <2>1, SubSeqProperties
  <2> QED BY <1>1, <2>2
<1>3. SubSeq(w, h + 1, Len(w)) \in Seq(Letter) /\ Len(SubSeq(w, h + 1, Len(w))) = Len(w) - h
  <2>1. \A j \in h + 1..Len(w) : w[j] \in Letter
    BY <1>1
  <2>2. /\ SubSeq(w, h + 1, Len(w)) \in Seq(Letter)
        /\ Len(SubSeq(w, h + 1, Len(w))) =
             IF h + 1 <= Len(w) THEN Len(w) - (h + 1) + 1 ELSE 0
    BY <1>1, <2>1, SubSeqProperties
  <2> QED BY <1>1, <2>2
<1>4. w = SubSeq(w, 1, h) \o SubSeq(w, h + 1, Len(w))
  <2>1. 1 \in 1..Len(w) + 1 /\ h \in 1 - 1..Len(w) /\ Len(w) \in h..Len(w)
    BY <1>1
  <2>2. SubSeq(w, 1, h) \o SubSeq(w, h + 1, Len(w)) = SubSeq(w, 1, Len(w))
    BY <2>1, ConcatAdjacentSubSeq
  <2> QED BY <2>2, SubSeqFull
<1> QED BY <1>2, <1>3, <1>4

LEMMA PairOfConcat ==
  ASSUME TypeOK, NEW v \in Seq(Letter), NEW w \in Seq(Letter), NEW t \in Seq(Letter),
         PairOf(v) = PairOf(w)
  PROVE  PairOf(v \o t) = PairOf(w \o t)
<1>1. /\ Run(DFA, 0, v \o t) = Run(DFA, Run(DFA, 0, v), t)
      /\ Run(DFA, 0, w \o t) = Run(DFA, Run(DFA, 0, w), t)
  BY InitialPlaces, DFAIsAutomaton, RunConcat
<1>2. /\ Run(A, 0, v \o t) = Run(A, Run(A, 0, v), t)
      /\ Run(A, 0, w \o t) = Run(A, Run(A, 0, w), t)
  BY InitialPlaces, RunConcat DEF TypeOK
<1>3. Run(DFA, 0, v) = Run(DFA, 0, w) /\ Run(A, 0, v) = Run(A, 0, w)
  BY DEF PairOf
<1> QED BY <1>1, <1>2, <1>3 DEF PairOf

LEMMA PairsFinite ==
  ASSUME TypeOK
  PROVE  IsFiniteSet(Pairs) /\ Cardinality(Pairs) = n * A.na
<1>1. IsFiniteSet(States(n)) /\ Cardinality(States(n)) = n
  <2>1. n \in Nat \ {0} /\ n - 1 \in Int
    BY DEF TypeOK
  <2> QED BY <2>1, FS_Interval DEF States
<1>2. IsFiniteSet(States(A.na)) /\ Cardinality(States(A.na)) = A.na
  <2>1. A.na \in Nat \ {0} /\ A.na - 1 \in Int
    BY DEF TypeOK, IsAutomaton
  <2> DEFINE last == A.na - 1
  <2>2. last \in Int /\ last + 1 = A.na /\ 0 <= last
    BY <2>1
  <2> HIDE DEF last
  <2>3. IsFiniteSet(0..last) /\ Cardinality(0..last) = last + 1
    BY <2>2, FS_Interval
  <2> QED BY <2>2, <2>3 DEF States, last
<1> QED BY <1>1, <1>2, FS_Product DEF Pairs

(* A pair that a word reaches is reached by a word shorter than the number *)
(* of pairs: a longer one passes twice through one of them.                *)
LEMMA ShortWord ==
  ASSUME TypeOK, NEW v \in Seq(Letter), Run(A, 0, v) # None
  PROVE  \E w \in Seq(Letter) : Len(w) < n * A.na /\ PairOf(w) = PairOf(v)
<1> DEFINE T == {k \in Nat : \E w \in Seq(Letter) : Len(w) = k /\ PairOf(w) = PairOf(v)}
<1>1. Len(v) \in T
  OBVIOUS
<1>2. PICK m \in T : \A k \in T : m <= k
  BY <1>1, LeastNumber
<1>3. PICK w \in Seq(Letter) : Len(w) = m /\ PairOf(w) = PairOf(v)
  OBVIOUS
<1>4. m \in Nat /\ n * A.na \in Nat
  BY DEF TypeOK, IsAutomaton
<1> SUFFICES ASSUME n * A.na <= m PROVE FALSE
  BY <1>3, <1>4
<1> DEFINE Prefix(h) == SubSeq(w, 1, h)
           Suffix(h) == SubSeq(w, h + 1, Len(w))
           g == [h \in 0..m |-> PairOf(Prefix(h))]
<1>5. \A h \in 0..m : /\ Prefix(h) \in Seq(Letter) /\ Len(Prefix(h)) = h
                      /\ Suffix(h) \in Seq(Letter) /\ Len(Suffix(h)) = m - h
                      /\ w = Prefix(h) \o Suffix(h)
  BY <1>3, SplitWord
<1> HIDE DEF T, Prefix, Suffix
<1>6. ASSUME NEW h \in 0..m PROVE PairOf(Prefix(h)) \in Pairs
  <2>1. Run(A, 0, w) # None
    BY <1>3 DEF PairOf
  <2>2. Run(A, 0, w) = Run(A, Run(A, 0, Prefix(h)), Suffix(h))
    <3>1. /\ IsAutomaton(A) /\ 0 \in Places(A)
          /\ Prefix(h) \in Seq(Letter) /\ Suffix(h) \in Seq(Letter)
      BY <1>5, InitialPlaces DEF TypeOK
    <3>2. Run(A, 0, Prefix(h) \o Suffix(h)) = Run(A, Run(A, 0, Prefix(h)), Suffix(h))
      BY <3>1, RunConcat
    <3> QED BY <1>5, <3>2
  <2>3. Run(A, None, Suffix(h)) = None
    BY <1>5, RunStuck DEF TypeOK
  <2>4. Run(A, 0, Prefix(h)) # None
    BY <2>1, <2>2, <2>3
  <2> QED BY <1>5, <2>4, PairOfType
<1>7. g \in [0..m -> Pairs]
  BY <1>6
<1>8. IsFiniteSet(0..m) /\ Cardinality(Pairs) < Cardinality(0..m)
  <2>1. IsFiniteSet(0..m) /\ Cardinality(0..m) = m + 1
    BY <1>4, FS_Interval
  <2> QED BY <1>4, <2>1, PairsFinite
<1>9. \E h, j \in 0..m : h # j /\ g[h] = g[j]
  <2> HIDE DEF g
  <2> QED BY <1>7, <1>8, PairsFinite, FS_PigeonHole
<1>10. PICK h, j \in 0..m : h < j /\ PairOf(Prefix(h)) = PairOf(Prefix(j))
  BY <1>4, <1>9
<1> DEFINE x == Prefix(h) \o Suffix(j)
<1>11. x \in Seq(Letter) /\ Len(x) = h + (m - j)
  <2>1. /\ Prefix(h) \in Seq(Letter) /\ Len(Prefix(h)) = h
        /\ Suffix(j) \in Seq(Letter) /\ Len(Suffix(j)) = m - j
    BY <1>5
  <2> QED BY <2>1, ConcatProperties
<1>12. PairOf(x) = PairOf(w)
  <2>1. /\ Prefix(h) \in Seq(Letter) /\ Prefix(j) \in Seq(Letter)
        /\ Suffix(j) \in Seq(Letter) /\ w = Prefix(j) \o Suffix(j)
    BY <1>5
  <2>2. PairOf(Prefix(h) \o Suffix(j)) = PairOf(Prefix(j) \o Suffix(j))
    BY <1>10, <2>1, PairOfConcat
  <2> QED BY <2>1, <2>2
<1>13. Len(x) \in Nat /\ Len(x) < m
  BY <1>4, <1>10, <1>11
<1> HIDE DEF x
<1>14. Len(x) \in T
  BY <1>3, <1>11, <1>12, <1>13 DEF T
<1> QED BY <1>2, <1>4, <1>13, <1>14

(* A word of the consequent that the formula looks at stands for all.      *)
LEMMA UniConverse ==
  ASSUME TypeOK, ~ UniFormula
  PROVE  /\ Accepts(DFA, u)
         /\ \E v \in Consequent : ~ Accepts(DFA, v)
<1>1. Antecedes /\ Reached \in SUBSET Pairs /\ YConstraint(Reached)
  BY ReachedSatisfiesY DEF UniFormula, Reached
<1>2. PICK q \in States(n), qA \in A.acc : <<q, qA>> \in Reached /\ q \notin f
  BY <1>1 DEF UniFormula, Pairs
<1>3. PICK v \in Seq(Letter) : Run(A, 0, v) # None /\ <<q, qA>> = PairOf(v)
  BY <1>2 DEF Reached
<1>4. PICK w \in Seq(Letter) : Len(w) < n * A.na /\ PairOf(w) = PairOf(v)
  BY <1>3, ShortWord
<1>5. Run(DFA, 0, w) = q /\ Run(A, 0, w) = qA
  BY <1>3, <1>4 DEF PairOf
<1>6. w \in WordsUpTo(n * A.na)
  <2>1. n * A.na \in Nat /\ Len(w) \in 0..n * A.na /\ w \in [1..Len(w) -> Letter]
    BY <1>4 DEF TypeOK, IsAutomaton
  <2> QED BY <2>1 DEF WordsUpTo
<1>7. w \in Consequent /\ ~ Accepts(DFA, w)
  BY <1>2, <1>5, <1>6, DFAIsAutomaton DEF Consequent, Accepts
<1> QED BY <1>1, <1>7 DEF Antecedes

LEMMA ConsequentWords ==
  ASSUME NEW v \in Consequent
  PROVE  v \in Seq(Letter) /\ Accepts(A, v)
BY DEF Consequent, WordsUpTo

-----------------------------------------------------------------------------
(* Existential counterexamples.                                            *)
Row(row) ==
  row = [k \in Nat |->
           IF k = 0 THEN {<<0, 0>>}
           ELSE UNION {{<<d[s[1]][a], A.delta[s[2]][a]>> : a \in FirstLetters(s[2])} :
                         s \in row[k - 1]}]

LEMMA RowExists ==
  ASSUME TypeOK
  PROVE  \E row : Row(row) /\ row \in [Nat -> SUBSET Pairs]
<1> DEFINE After(R) ==
             UNION {{<<d[s[1]][a], A.delta[s[2]][a]>> : a \in FirstLetters(s[2])} : s \in R}
           next == [k \in Nat |-> [R \in SUBSET Pairs |-> After(R)]]
<1>1. ASSUME NEW R \in SUBSET Pairs PROVE After(R) \in SUBSET Pairs
  <2> SUFFICES ASSUME NEW s \in R, NEW a \in FirstLetters(s[2])
               PROVE  <<d[s[1]][a], A.delta[s[2]][a]>> \in Pairs
    OBVIOUS
  <2>1. s[1] \in States(n) /\ s[2] \in States(A.na) /\ a \in Letter /\ A.delta[s[2]][a] # None
    BY DEF Pairs, FirstLetters
  <2> QED BY <2>1 DEF Pairs, TypeOK, IsAutomaton, Places
<1>2. {<<0, 0>>} \in SUBSET Pairs
  BY InitialPlaces DEF Pairs
<1> HIDE DEF After
<1>3. next \in [Nat -> [SUBSET Pairs -> SUBSET Pairs]]
  BY <1>1
<1>4. \A k \in Nat, R \in SUBSET Pairs : next[k][R] = After(R)
  OBVIOUS
<1> HIDE DEF next
<1>5. PICK row : Iterates(row, SUBSET Pairs, {<<0, 0>>}, next)
  BY <1>2, <1>3, Iteration
<1>6. row \in [Nat -> SUBSET Pairs]
  BY <1>5 DEF Iterates
<1>7. ASSUME NEW k \in Nat
      PROVE  row[k] = IF k = 0 THEN {<<0, 0>>} ELSE After(row[k - 1])
  <2>1. CASE k = 0
    BY <1>5, <2>1 DEF Iterates
  <2>2. CASE k # 0
    <3>1. k - 1 \in Nat /\ (k - 1) + 1 = k
      BY <2>2
    <3>2. row[(k - 1) + 1] = next[k - 1][row[k - 1]]
      BY <1>5, <3>1 DEF Iterates
    <3>3. row[k - 1] \in SUBSET Pairs
      BY <1>6, <3>1
    <3> QED BY <1>4, <2>2, <3>1, <3>2, <3>3
  <2> QED BY <2>1, <2>2
<1>8. row = [k \in Nat |-> IF k = 0 THEN {<<0, 0>>} ELSE After(row[k - 1])]
  BY <1>6, <1>7
<1> QED BY <1>6, <1>8 DEF Row, After

LEMMA ZRowUnfold ==
  ASSUME TypeOK
  PROVE  /\ ZRow(0) = {<<0, 0>>}
         /\ \A k \in Nat :
              ZRow(k + 1) =
                UNION {{<<d[s[1]][a], A.delta[s[2]][a]>> : a \in FirstLetters(s[2])} :
                         s \in ZRow(k)}
<1> DEFINE r == CHOOSE row : Row(row)
<1>1. Row(r)
  BY RowExists
<1>2. \A k : ZRow(k) = r[k]
  BY DEF ZRow, Row
<1> HIDE DEF r
<1>3. r[0] = {<<0, 0>>}
  BY <1>1 DEF Row
<1>4. ASSUME NEW k \in Nat
      PROVE  r[k + 1] = UNION {{<<d[s[1]][a], A.delta[s[2]][a]>> : a \in FirstLetters(s[2])} :
                                  s \in r[k]}
  <2>1. k + 1 \in Nat /\ k + 1 # 0 /\ (k + 1) - 1 = k
    OBVIOUS
  <2> QED BY <1>1, <2>1 DEF Row
<1> QED BY <1>2, <1>3, <1>4

(* z holds only of pairs that a common word of that length reaches.        *)
LEMMA ZSound ==
  ASSUME TypeOK, NEW l \in Nat, NEW s \in ZRow(l)
  PROVE  \E v \in Seq(Letter) : Len(v) = l /\ Run(A, 0, v) # None /\ s = PairOf(v)
<1> DEFINE OK(k) == \A r \in ZRow(k) :
              \E v \in Seq(Letter) : Len(v) = k /\ Run(A, 0, v) # None /\ r = PairOf(v)
           T == {k \in Nat : OK(k)}
<1>1. 0 \in T
  <2>1. <<>> \in Seq(Letter) /\ Len(<<>>) = 0 /\ PairOf(<<>>) = <<0, 0>>
    BY PairOfEmpty
  <2>2. Run(A, 0, <<>>) # None
    BY <2>1 DEF PairOf, None
  <2> QED BY <2>1, <2>2, ZRowUnfold
<1>2. ASSUME NEW k \in Nat, k \in T PROVE k + 1 \in T
  <2> SUFFICES ASSUME NEW r \in ZRow(k + 1)
               PROVE  \E v \in Seq(Letter) : Len(v) = k + 1 /\ Run(A, 0, v) # None /\ r = PairOf(v)
    OBVIOUS
  <2>0. PICK t \in ZRow(k) :
               \E a \in FirstLetters(t[2]) : r = <<d[t[1]][a], A.delta[t[2]][a]>>
    <3>1. ZRow(k + 1) =
            UNION {{<<d[s1[1]][a], A.delta[s1[2]][a]>> : a \in FirstLetters(s1[2])} :
                     s1 \in ZRow(k)}
      BY ZRowUnfold
    <3> QED BY <3>1
  <2>1. PICK a \in FirstLetters(t[2]) : r = <<d[t[1]][a], A.delta[t[2]][a]>>
    BY <2>0
  <2>2. PICK v \in Seq(Letter) : Len(v) = k /\ Run(A, 0, v) # None /\ t = PairOf(v)
    BY <1>2, <2>1
  <2>3. a \in Letter /\ A.delta[t[2]][a] # None
    BY <2>1 DEF FirstLetters
  <2>4. PairOf(Append(v, a)) = r
    BY <2>1, <2>2, <2>3, PairOfAppend
  <2>5. Run(A, 0, Append(v, a)) # None
    BY <2>1, <2>3, <2>4 DEF PairOf
  <2>6. Append(v, a) \in Seq(Letter) /\ Len(Append(v, a)) = k + 1
    BY <2>2, <2>3
  <2> QED BY <2>4, <2>5, <2>6
<1> HIDE DEF T
<1>3. Nat \subseteq T
  BY <1>1, <1>2, NumberInduction
<1> QED BY <1>3 DEF T

(* Without intervals, it holds of all of them.                             *)
LEMMA ZComplete ==
  ASSUME TypeOK, Adjacent = {}
  PROVE  \A v \in Seq(Letter) : Run(A, 0, v) # None => PairOf(v) \in ZRow(Len(v))
<1> DEFINE T == {v \in Seq(Letter) : Run(A, 0, v) # None => PairOf(v) \in ZRow(Len(v))}
<1>1. <<>> \in T
  BY PairOfEmpty, ZRowUnfold
<1>2. ASSUME NEW v \in Seq(Letter), NEW a \in Letter, v \in T
      PROVE  Append(v, a) \in T
  <2> SUFFICES ASSUME Run(A, 0, Append(v, a)) # None
               PROVE  PairOf(Append(v, a)) \in ZRow(Len(Append(v, a)))
    OBVIOUS
  <2>1. Run(A, 0, v) # None
    BY PairOfAppend
  <2>2. PairOf(v) \in ZRow(Len(v))
    BY <1>2, <2>1
  <2>3. PairOf(Append(v, a)) = <<d[PairOf(v)[1]][a], A.delta[PairOf(v)[2]][a]>>
    BY <2>1, PairOfAppend
  <2>4. a \in FirstLetters(PairOf(v)[2])
    BY <2>3, FirstLettersAll DEF PairOf
  <2>5. PairOf(Append(v, a)) \in ZRow(Len(v) + 1)
    <3>1. Len(v) \in Nat
      OBVIOUS
    <3> QED BY <2>2, <2>3, <2>4, <3>1, ZRowUnfold
  <2>6. Len(Append(v, a)) = Len(v) + 1
    OBVIOUS
  <2> QED BY <2>5, <2>6
<1> HIDE DEF T
<1>3. Seq(Letter) \subseteq T
  BY <1>1, <1>2, WordInduction
<1> QED BY <1>3 DEF T

LEMMA ExSound ==
  ASSUME TypeOK, ExFormula, Accepts(DFA, u)
  PROVE  \E v \in Consequent : Accepts(DFA, v)
<1>1. n * A.na \in Nat
  BY DEF TypeOK, IsAutomaton
<1>2. PICK l \in 0..LMax - 1 : \E s \in ZRow(l) : s[1] \in f /\ s[2] \in A.acc
  BY DEF ExFormula, Antecedes
<1>3. l \in Nat /\ l \in 0..n * A.na
  BY <1>1 DEF LMax
<1>4. PICK v \in Seq(Letter) : Len(v) = l /\ PairOf(v)[1] \in f /\ PairOf(v)[2] \in A.acc
  BY <1>2, <1>3, ZSound
<1>5. v \in WordsUpTo(n * A.na)
  BY <1>3, <1>4 DEF WordsUpTo
<1>6. Accepts(DFA, v) /\ Accepts(A, v)
  BY <1>4, DFAIsAutomaton DEF Accepts, PairOf
<1> QED BY <1>5, <1>6 DEF Consequent

LEMMA ExConverse ==
  ASSUME TypeOK, Adjacent = {}, ~ ExFormula,
         NEW v \in Seq(Letter), Accepts(A, v), Accepts(DFA, v)
  PROVE  Len(v) >= n * A.na - 1
<1>1. n * A.na \in Nat /\ Len(v) \in Nat
  BY DEF TypeOK, IsAutomaton
<1>2. Run(A, 0, v) \in A.acc /\ Run(A, 0, v) # None
  BY DEF Accepts, TypeOK, IsAutomaton, States, None
<1>3. PairOf(v) \in ZRow(Len(v)) /\ PairOf(v)[1] \in f /\ PairOf(v)[2] \in A.acc
  BY <1>2, ZComplete, DFAIsAutomaton DEF Accepts, PairOf
<1>4. Len(v) \notin 0..LMax - 1
  BY <1>3 DEF ExFormula
<1> QED BY <1>1, <1>4 DEF LMax

-----------------------------------------------------------------------------
(***************************************************************************)
(* The invariant: the verdict is the one of the formula of the candidate   *)
(* and the counterexample, which no step changes.                          *)
(***************************************************************************)
VerdictIsFormula ==
  /\ verdict = "sat" => (kind = "uni" /\ UniFormula) \/ (kind = "ex" /\ ExFormula)
  /\ verdict = "unsat" => (kind = "uni" /\ ~ UniFormula) \/ (kind = "ex" /\ ~ ExFormula)

Inv == TypeOK /\ VerdictIsFormula

LEMMA FormulaKept ==
  ASSUME UNCHANGED problem
  PROVE  UniFormula' = UniFormula /\ ExFormula' = ExFormula
<1>1. n' = n /\ d' = d /\ f' = f /\ u' = u /\ A' = A
  BY DEF problem
<1>2. Antecedes' = Antecedes
  BY <1>1 DEF Antecedes, Accepts, Run, Step, DFA
<1>3. \A Y : YConstraint(Y)' = YConstraint(Y)
  BY <1>1 DEF YConstraint, FirstLetters
<1>4. \A l : ZRow(l)' = ZRow(l)
  BY <1>1 DEF ZRow, FirstLetters
<1>5. UniFormula' = UniFormula
  BY <1>1, <1>2, <1>3 DEF UniFormula
<1>6. ExFormula' = ExFormula
  BY <1>1, <1>2, <1>4 DEF ExFormula, LMax
<1> QED BY <1>5, <1>6

LEMMA InitInv ==
  ASSUME Init
  PROVE  Inv
<1>1. PICK k \in 1..MaxNA : A \in Automata(k)
  BY DEF Init
<1>2. n \in Nat \ {0} /\ k \in Nat \ {0}
  BY BoundsAssumption DEF Init
<1>3. IsAutomaton(A)
  BY <1>1, <1>2 DEF Automata, IsAutomaton, Places
<1> QED BY <1>2, <1>3 DEF Init, Inv, TypeOK, VerdictIsFormula

LEMMA StepInv ==
  ASSUME Inv, [Next]_vars
  PROVE  Inv'
<1>1. UNCHANGED problem
  BY DEF Next, EncodeUni, EncodeEx, EncodeExFails, vars, problem
<1>2. UniFormula' = UniFormula /\ ExFormula' = ExFormula
  BY <1>1, FormulaKept
<1>3. TypeOK'
  <2>1. /\ n \in Nat \ {0}
        /\ d \in [States(n) -> [Letter -> States(n)]]
        /\ f \in SUBSET States(n)
        /\ kind \in {"ex", "uni"}
        /\ u \in Antecedent
        /\ IsAutomaton(A)
    BY DEF Inv, TypeOK
  <2>2. n' = n /\ d' = d /\ f' = f /\ kind' = kind /\ u' = u /\ A' = A
    BY <1>1 DEF problem
  <2>3. verdict' \in {"none", "sat", "unsat", "exception"}
    BY DEF Inv, TypeOK, Next, EncodeUni, EncodeEx, EncodeExFails, vars
  <2> QED BY <2>1, <2>2, <2>3 DEF TypeOK
<1>4. VerdictIsFormula'
  <2>1. CASE EncodeUni
    BY <1>2, <2>1 DEF EncodeUni, VerdictIsFormula, problem
  <2>2. CASE EncodeEx
    BY <1>2, <2>2 DEF EncodeEx, VerdictIsFormula, problem
  <2>3. CASE EncodeExFails
    BY <2>3 DEF EncodeExFails, VerdictIsFormula
  <2>4. CASE UNCHANGED vars
    BY <1>2, <2>4 DEF Inv, VerdictIsFormula, vars
  <2> QED BY <2>1, <2>2, <2>3, <2>4 DEF Next
<1> QED BY <1>3, <1>4 DEF Inv

(* What constructSAT builds stays within its arrays: the DFA is total on   *)
(* its n states and the counterexample automaton on its own.               *)
THEOREM TypesCorrect == Spec => []TypeOK
<1>1. Init => Inv
  BY InitInv
<1>2. Inv /\ [Next]_vars => Inv'
  BY StepInv
<1>3. Inv => TypeOK
  BY DEF Inv
<1> QED BY <1>1, <1>2, <1>3, PTL DEF Spec

(* A model of the formula is a DFA coherent with the counterexample, when  *)
(* no two letters of the alphabet have consecutive codes: the learner may  *)
(* propose any DFA the solver finds.                                       *)
THEOREM ModelsAreCoherent == Adjacent = {} => (Spec => []SatIsCoherent)
<1> SUFFICES ASSUME Adjacent = {} PROVE Spec => []SatIsCoherent
  OBVIOUS
<1>1. Init => Inv
  BY InitInv
<1>2. Inv /\ [Next]_vars => Inv'
  BY StepInv
<1>3. Inv => SatIsCoherent
  <2> SUFFICES ASSUME Inv, verdict = "sat", Accepts(DFA, u)
               PROVE  IF kind = "uni" THEN \A v \in Consequent : Accepts(DFA, v)
                      ELSE \E v \in Consequent : Accepts(DFA, v)
    BY DEF SatIsCoherent, Coherent
  <2>1. CASE kind = "uni"
    <3>1. UniFormula
      BY <2>1 DEF Inv, VerdictIsFormula
    <3> QED BY <2>1, <3>1, UniSound, ConsequentWords DEF Inv
  <2>2. CASE kind # "uni"
    <3>1. ExFormula
      BY <2>2 DEF Inv, VerdictIsFormula
    <3> QED BY <2>2, <3>1, ExSound DEF Inv
  <2> QED BY <2>1, <2>2
<1> QED BY <1>1, <1>2, <1>3, PTL DEF Spec

(* constructSAT rejects no DFA that is coherent with a universal           *)
(* counterexample, whatever the letters: one that leaves a common pair out *)
(* has a word short enough to show it.                                     *)
THEOREM UniversalFormulaComplete == Spec => []UniComplete
<1>1. Init => Inv
  BY InitInv
<1>2. Inv /\ [Next]_vars => Inv'
  BY StepInv
<1>3. Inv => UniComplete
  <2> SUFFICES ASSUME Inv, kind = "uni", verdict = "unsat" PROVE ~ Coherent
    BY DEF UniComplete
  <2>1. ~ UniFormula
    BY DEF Inv, VerdictIsFormula
  <2> QED BY <2>1, UniConverse DEF Inv, Coherent
<1> QED BY <1>1, <1>2, <1>3, PTL DEF Spec

(* An existential counterexample rules out a coherent DFA only when all    *)
(* its witnesses have the length the last row of z leaves out.             *)
THEOREM ExistentialFormulaComplete ==
  Adjacent = {} => (Spec => []ExCompleteBelowBound)
<1> SUFFICES ASSUME Adjacent = {} PROVE Spec => []ExCompleteBelowBound
  OBVIOUS
<1>1. Init => Inv
  BY InitInv
<1>2. Inv /\ [Next]_vars => Inv'
  BY StepInv
<1>3. Inv => ExCompleteBelowBound
  <2> SUFFICES ASSUME Inv, kind = "ex", verdict = "unsat",
                      NEW v \in Consequent, Accepts(DFA, v)
               PROVE  Len(v) >= n * A.na - 1
    BY DEF ExCompleteBelowBound
  <2>1. ~ ExFormula
    BY DEF Inv, VerdictIsFormula
  <2> QED BY <2>1, ExConverse, ConsequentWords DEF Inv
<1> QED BY <1>1, <1>2, <1>3, PTL DEF Spec

(* What SatIsCoherent says of the words up to n * na holds of all words:   *)
(* the DFA the learner gets respects the counterexample itself, not only   *)
(* the part of it a run can look at.                                       *)
CoherentOnAllWords ==
  verdict = "sat" /\ Accepts(DFA, u) =>
    IF kind = "uni" THEN \A v \in Seq(Letter) : Accepts(A, v) => Accepts(DFA, v)
    ELSE \E v \in Seq(Letter) : Accepts(A, v) /\ Accepts(DFA, v)

THEOREM ModelsAreCoherentOnAllWords ==
  Adjacent = {} => (Spec => []CoherentOnAllWords)
<1> SUFFICES ASSUME Adjacent = {} PROVE Spec => []CoherentOnAllWords
  OBVIOUS
<1>1. Init => Inv
  BY InitInv
<1>2. Inv /\ [Next]_vars => Inv'
  BY StepInv
<1>3. Inv => CoherentOnAllWords
  <2> SUFFICES ASSUME Inv, verdict = "sat", Accepts(DFA, u)
               PROVE  IF kind = "uni"
                      THEN \A v \in Seq(Letter) : Accepts(A, v) => Accepts(DFA, v)
                      ELSE \E v \in Seq(Letter) : Accepts(A, v) /\ Accepts(DFA, v)
    BY DEF CoherentOnAllWords
  <2>1. CASE kind = "uni"
    <3>1. UniFormula
      BY <2>1 DEF Inv, VerdictIsFormula
    <3> QED BY <2>1, <3>1, UniSound DEF Inv
  <2>2. CASE kind # "uni"
    <3>1. ExFormula
      BY <2>2 DEF Inv, VerdictIsFormula
    <3> QED BY <2>2, <3>1, ExSound, ConsequentWords DEF Inv
  <2> QED BY <2>1, <2>2
<1> QED BY <1>1, <1>2, <1>3, PTL DEF Spec

=============================================================================
