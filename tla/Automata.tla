------------------------------ MODULE Automata ------------------------------
(***************************************************************************)
(* The automata of dk.brics.automaton that the solver is built on: classes *)
(* Automaton and State, and the constructions of BasicOperations.          *)
(*                                                                         *)
(* An automaton is explicit or, when word is not empty, a singleton. Its   *)
(* transitions <<p, min, max, q>> carry the letters min..max; letters are  *)
(* numbers, as the chars of Java are.  det is the flag `deterministic'.    *)
(* Only the identity of states matters: constructions name theirs by what  *)
(* they stand for and Numbered gives all of them numbers again.            *)
(***************************************************************************)
EXTENDS Integers, FiniteSets, FiniteSetsExt, Sequences, SequencesExt

CONSTANT MaxChar   \* Character.MAX_VALUE

ASSUME CharAssumption == MaxChar \in Nat

Char == 0..MaxChar

Explicit(q0, acc, trans, det) ==
  [word |-> {}, q0 |-> q0, acc |-> acc, trans |-> trans, det |-> det]

(* An automaton with states in Q, as the code makes them: finitely many    *)
(* transitions, each of which has a letter; none if it is a singleton.     *)
IsAutomaton(a, Q) ==
  /\ a \in [word : SUBSET Seq(Char), q0 : Q, acc : SUBSET Q,
            trans : SUBSET (Q \X Char \X Char \X Q), det : BOOLEAN]
  /\ IsFiniteSet(a.trans)
  /\ \A t \in a.trans : t[2] <= t[3]
  /\ \A v, w \in a.word : v = w
  /\ a.word # {} => a.trans = {} /\ a.det

(* What the flag `deterministic' stands for: no state goes to two states   *)
(* by the same letter.                                                     *)
IsDeterministic(a) ==
  \A t, u \in a.trans : t[1] = u[1] /\ t[2] <= u[3] /\ u[2] <= t[3] => t[4] = u[4]

IsHonest(a) == a.det => IsDeterministic(a)

Singleton(w) == [word |-> {w}, q0 |-> 0, acc |-> {}, trans |-> {}, det |-> TRUE]

IsSingleton(a) == a.word # {}

(* The least set that holds `from' and what Next adds, all within U.       *)
Closure(from, U, Next(_)) ==
  LET grow[s \in SUBSET U] ==
        LET on(t) == IF t = s THEN s ELSE grow[t] IN on(s \cup Next(s))
  IN  grow[from]

(* The maximal intervals of a set of letters.                              *)
Intervals(letters) ==
  {i \in letters \X letters :
     /\ i[1] <= i[2] /\ i[1]..i[2] \subseteq letters
     /\ i[1] - 1 \notin letters /\ i[2] + 1 \notin letters}

-----------------------------------------------------------------------------
(* Automaton                                                               *)

(* Automaton.expandSingleton: a line of states.                            *)
ExpandSingleton(a) ==
  IF ~ IsSingleton(a) THEN a
  ELSE LET w == CHOOSE w \in a.word : TRUE
       IN  Explicit(0, {Len(w)}, {<<i - 1, w[i], w[i], i>> : i \in 1..Len(w)}, TRUE)

Ends(a) == {a.q0} \cup {t[1] : t \in a.trans} \cup {t[4] : t \in a.trans}

GetStates(a) ==
  Closure({a.q0}, Ends(a), LAMBDA s : {t[4] : t \in {u \in a.trans : u[1] \in s}})

GetAcceptStates(a) == GetStates(a) \cap a.acc

GetLiveStates(a) ==
  Closure(GetAcceptStates(a), Ends(a) \cup a.acc,
          LAMBDA s : {t[1] : t \in {u \in a.trans : u[4] \in s}})

(* Automaton.setStateNumbers; what is not reachable is garbage.            *)
Numbers(order) == [q \in ToSet(order) |-> (CHOOSE i \in DOMAIN order : order[i] = q) - 1]

Rename(a, number) ==
  Explicit(0, {number[q] : q \in a.acc \cap DOMAIN number},
    {<<number[t[1]], t[2], t[3], number[t[4]]>> : t \in {u \in a.trans : u[1] \in DOMAIN number}},
    a.det)

(* The states in some order, the initial one first.                        *)
Order(first, states) ==
  LET order[i \in 0..Cardinality(states) - 1] ==
        IF i = 0 THEN <<first>>
        ELSE Append(order[i - 1], CHOOSE q \in states \ ToSet(order[i - 1]) : TRUE)
  IN  order[Cardinality(states) - 1]

Numbered(a) == Rename(a, Numbers(Order(a.q0, GetStates(a))))

LettersFrom(a, p, q) ==
  UNION {t[2]..t[3] : t \in {u \in a.trans : u[1] = p /\ u[4] = q}}

(* Automaton.reduce: overlapping and adjacent intervals are merged.        *)
Reduce(a) ==
  IF IsSingleton(a) THEN a
  ELSE [a EXCEPT !.trans =
          UNION {{<<e[1], i[1], i[2], e[2]>> : i \in Intervals(LettersFrom(a, e[1], e[2]))} :
                   e \in {<<t[1], t[4]>> : t \in a.trans}}]

(* Automaton.removeDeadTransitions                                         *)
RemoveDeadTransitions(a) ==
  IF IsSingleton(a) THEN a
  ELSE LET live == GetLiveStates(a)
       IN  Reduce([a EXCEPT !.trans = {t \in @ : t[4] \in live}])

(* Automaton.totalize: a sink takes the letters that a state does not.     *)
WithSink(n, sink) ==
  LET states == 0..sink - 1
      gaps(p) == Char \ UNION {LettersFrom(n, p, q) : q \in states}
  IN  [n EXCEPT !.trans = @ \cup {<<sink, 0, MaxChar, sink>>}
         \cup UNION {{<<p, i[1], i[2], sink>> : i \in Intervals(gaps(p))} : p \in states}]

Totalize(a) == WithSink(Numbered(a), Cardinality(GetStates(a)))

(* Automaton.getStartPoints                                                *)
StartPoints(a) ==
  LET trans == {t \in a.trans : t[1] \in GetStates(a)}
  IN  {0} \cup {t[2] : t \in trans} \cup {t[3] + 1 : t \in {u \in trans : u[3] < MaxChar}}

-----------------------------------------------------------------------------
(* BasicOperations                                                         *)

MakeEmpty == Explicit(0, {}, {}, TRUE)

MakeEmptyString == Singleton(<<>>)

(* State.step, from a set of states.                                       *)
Step(a, s, c) ==
  {t[4] : t \in {u \in a.trans : u[1] \in s /\ u[2] <= c /\ c <= u[3]}}

Run(a, w) ==
  LET e == ExpandSingleton(a)
  IN  FoldLeft(LAMBDA s, c : Step(e, s, c), {e.q0}, w) \cap e.acc # {}

IsEmpty(a) ==
  ~ IsSingleton(a) /\ a.q0 \notin a.acc /\ \A t \in a.trans : t[1] # a.q0

IsEmptyString(a) ==
  IF IsSingleton(a) THEN a.word = {<<>>}
  ELSE a.q0 \in a.acc /\ \A t \in a.trans : t[1] # a.q0

(* Faulty: only the flag is set.                                           *)
DeterminizeFlag(a) == [a EXCEPT !.det = TRUE]

(* BasicOperations.determinize: a start point stands for the letters up to *)
(* the next one.                                                           *)
Stretch(points, c) ==
  CHOOSE d \in c..MaxChar :
    /\ d = MaxChar \/ d + 1 \in points
    /\ \A e \in c + 1..d : e \notin points

Moves(a, points, S) ==
  {m \in {<<s, c, Stretch(points, c), Step(a, s, c)>> : s \in S, c \in points} : m[4] # {}}

Subsets(a, points) ==
  Closure({{a.q0}}, SUBSET Ends(a), LAMBDA S : {m[4] : m \in Moves(a, points, S)})

PowerAutomaton(a, points) ==
  LET over(S) == Explicit({a.q0}, {s \in S : s \cap a.acc # {}}, Moves(a, points, S), TRUE)
  IN  over(Subsets(a, points))

Determinize(a) ==
  IF a.det \/ IsSingleton(a) THEN a
  ELSE Numbered(RemoveDeadTransitions(PowerAutomaton(a, StartPoints(a))))

Flip(t) == [t EXCEPT !.acc = GetStates(t) \ @]

(* Faulty: the missing transitions are forgotten,                          *)
ComplementPartial(a) ==
  Numbered(RemoveDeadTransitions(Flip(Determinize(ExpandSingleton(a)))))

(* or the states that became dead are kept.                                *)
ComplementDead(a) ==
  Numbered(Reduce(Flip(Totalize(Determinize(ExpandSingleton(a))))))

Complement(a) ==
  Numbered(RemoveDeadTransitions(Flip(Totalize(Determinize(ExpandSingleton(a))))))

(* The moves that two automata have in common from the pairs in S.         *)
Meet(t, u) == t[2] <= u[3] /\ u[2] <= t[3]

Common(t, u) ==
  <<<<t[1], u[1]>>, IF t[2] > u[2] THEN t[2] ELSE u[2],
    IF t[3] < u[3] THEN t[3] ELSE u[3], <<t[4], u[4]>>>>

JointMoves(a1, a2, S) ==
  {Common(m[1], m[2]) :
     m \in {p \in a1.trans \X a2.trans : <<p[1][1], p[2][1]>> \in S /\ Meet(p[1], p[2])}}

(* BasicOperations.intersection: the pairs of states reached together.     *)
Pairs(a1, a2) ==
  Closure({<<a1.q0, a2.q0>>}, Ends(a1) \X Ends(a2),
          LAMBDA S : {m[4] : m \in JointMoves(a1, a2, S)})

ProductOver(a1, a2, pairs) ==
  Explicit(<<a1.q0, a2.q0>>, pairs \cap (a1.acc \X a2.acc), JointMoves(a1, a2, pairs),
           a1.det /\ a2.det)

Product(a1, a2) == Numbered(RemoveDeadTransitions(ProductOver(a1, a2, Pairs(a1, a2))))

Intersection(a1, a2) ==
  LET only(s, a) == IF \A w \in s.word : Run(a, w) THEN s ELSE MakeEmpty
  IN  CASE IsSingleton(a1) -> only(a1, a2)
        [] IsSingleton(a2) -> only(a2, a1)
        [] OTHER -> Product(a1, a2)

Minus(a1, a2) ==
  CASE IsEmpty(a1) -> MakeEmpty
    [] IsEmpty(a2) -> a1
    [] IsSingleton(a1) -> IF \A w \in a1.word : Run(a2, w) THEN MakeEmpty ELSE a1
    [] OTHER -> Intersection(a1, Complement(a2))

-----------------------------------------------------------------------------
(* Constructions with epsilon moves.  State.addEpsilon copies transitions  *)
(* and acceptance at once, so every move is added to the same automaton.   *)

AddEpsilons(a, pairs) ==
  [a EXCEPT !.trans = @ \cup UNION {{<<p[1], t[2], t[3], t[4]>> :
                                       t \in {u \in a.trans : u[1] = p[2]}} : p \in pairs},
            !.acc = @ \cup {p[1] : p \in {r \in pairs : r[2] \in a.acc}}]

(* Copies of two automata side by side, next to a new initial state.       *)
Tagged(i, a) ==
  Explicit(<<i, a.q0>>, {<<i, q>> : q \in a.acc},
           {<<<<i, t[1]>>, t[2], t[3], <<i, t[4]>>>> : t \in a.trans}, a.det)

Both(b1, b2) ==
  [one |-> b1, two |-> b2,
   both |-> Explicit(<<0, 0>>, b1.acc \cup b2.acc, b1.trans \cup b2.trans, FALSE)]

Beside(a1, a2) == Both(Tagged(1, ExpandSingleton(a1)), Tagged(2, ExpandSingleton(a2)))

(* The second one after the accepting states of the first one,             *)
Link(b, acc) ==
  [AddEpsilons([b.both EXCEPT !.acc = acc], GetAcceptStates(b.one) \X {b.two.q0})
     EXCEPT !.q0 = b.one.q0]

(* which do not accept any more,                                           *)
Follow(a1, a2) ==
  LET joined(b) == Link(b, b.both.acc \ GetAcceptStates(b.one))
  IN  Numbered(joined(Beside(a1, a2)))

(* or still do.                                                            *)
FollowOrStop(a1, a2) ==
  LET joined(b) == Link(b, b.both.acc)
  IN  Numbered(joined(Beside(a1, a2)))

(* Faulty: deterministic if both are.                                      *)
ConcatenateFlag(a1, a2) ==
  IF IsEmpty(a1) \/ IsEmpty(a2) THEN MakeEmpty
  ELSE [Follow(a1, a2) EXCEPT !.det = a1.det /\ a2.det]

Concatenate(a1, a2) ==
  CASE IsSingleton(a1) /\ IsSingleton(a2) ->
         Singleton((CHOOSE v \in a1.word : TRUE) \o (CHOOSE w \in a2.word : TRUE))
    [] IsEmpty(a1) \/ IsEmpty(a2) -> MakeEmpty
    [] OTHER -> [Follow(a1, a2) EXCEPT !.det = IsSingleton(a1) /\ a2.det]

(* BasicOperations.concatenate of a list that is not empty.                *)
ConcatenateWords(l) ==
  LET upto[i \in 0..Len(l)] ==
        IF i = 0 THEN <<>> ELSE upto[i - 1] \o (CHOOSE w \in l[i].word : TRUE)
  IN  Singleton(upto[Len(l)])

ConcatenateParts(l) ==
  LET upto[i \in 1..Len(l)] ==
        IF i = 1 THEN ExpandSingleton(l[1])
        ELSE IF IsEmptyString(l[i]) THEN upto[i - 1]
        ELSE Follow(upto[i - 1], l[i])
  IN  [upto[Len(l)] EXCEPT !.det = FALSE]

ConcatenateList(l) ==
  CASE \A i \in DOMAIN l : IsSingleton(l[i]) -> ConcatenateWords(l)
    [] \E i \in DOMAIN l : IsEmpty(l[i]) -> MakeEmpty
    [] OTHER -> ConcatenateParts(l)

Union2(a1, a2) ==
  IF IsSingleton(a1) /\ a1.word = a2.word THEN a1
  ELSE LET start(b) == AddEpsilons(b.both, {<<b.both.q0, b.one.q0>>, <<b.both.q0, b.two.q0>>})
       IN  Numbered(start(Beside(a1, a2)))

(* BasicOperations.union of a list: empty automata are left out.           *)
UnionList(l) ==
  LET start(parts) ==
        AddEpsilons(Explicit(<<0, 0>>, UNION {b.acc : b \in parts},
                             UNION {b.trans : b \in parts}, FALSE),
                    {<<<<0, 0>>, b.q0>> : b \in parts})
  IN  Numbered(start({Tagged(i, ExpandSingleton(l[i])) : i \in {j \in DOMAIN l : ~ IsEmpty(l[j])}}))

(* A new initial state, which accepts, before the copy b.one.              *)
AcceptFirst(b) ==
  AddEpsilons([b.both EXCEPT !.acc = @ \cup {b.both.q0}], {<<b.both.q0, b.one.q0>>})

Optional(a) == Numbered(AcceptFirst(Beside(a, MakeEmpty)))

Repeat(a) ==
  LET loop(b) == AddEpsilons(AcceptFirst(b), GetAcceptStates(b.one) \X {b.both.q0})
  IN  Numbered(loop(Beside(a, MakeEmpty)))

Times(a, k) == [i \in 1..k |-> a]

RepeatMin(a, min) ==
  IF min = 0 THEN Repeat(a) ELSE ConcatenateList(Append(Times(a, min), Repeat(a)))

(* e up to n times more, the last one always.                              *)
Optionally(e, n) ==
  LET chain[i \in 0..n] == IF i = 0 THEN e ELSE FollowOrStop(e, chain[i - 1])
  IN  chain[n]

RepeatMinMax(a, min, max) ==
  LET first(e) == CASE min = 0 -> MakeEmptyString
                    [] min = 1 -> e
                    [] OTHER -> ConcatenateList(Times(e, min))
      from(e, f) == IF min = max THEN f
                    ELSE [FollowOrStop(f, Optionally(e, max - min - 1)) EXCEPT !.det = FALSE]
      both(e) == from(e, first(e))
  IN  IF min > max THEN MakeEmpty ELSE both(ExpandSingleton(a))

-----------------------------------------------------------------------------
(* BasicOperations.subsetOf, which determinizes its second argument.       *)
SubsetOf(a1, a2) ==
  LET within(d) ==
        \A p \in Pairs(a1, d) :
          /\ p[1] \in a1.acc => p[2] \in d.acc
          /\ \A t \in {u \in a1.trans : u[1] = p[1]} :
               \A c \in t[2]..t[3] : Step(d, {p[2]}, c) # {}
  IN  IF IsSingleton(a1)
      THEN \A w \in a1.word : IF IsSingleton(a2) THEN a2.word = {w} ELSE Run(a2, w)
      ELSE within(Determinize(ExpandSingleton(a2)))

=============================================================================
