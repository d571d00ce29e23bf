----------------------------- MODULE Operations -----------------------------
(***************************************************************************)
(* Two automata and any sequence of calls of BasicOperations on them: what *)
(* the teacher does to answer, and what RegExp does to build its automata. *)
(* Each automaton comes with the words, up to MaxLength, that it should    *)
(* accept.  At any time getShortestExample may be called on the first one; *)
(* its breadth-first search is modelled step by step.                      *)
(***************************************************************************)
EXTENDS Automata

CONSTANTS
  Base,       \* the automata to begin with
  MaxLength,  \* bound on the words the languages are compared on
  MaxCalls,   \* bound on the number of calls
  MaxStates   \* bound on the states of the automata

ASSUME OperationsAssumption ==
  MaxLength \in Nat /\ MaxCalls \in Nat /\ MaxStates \in Nat

(* BasicAutomata makes automata, deterministic ones of those it counts as  *)
(* such, and all that its states lead to accepts something.                *)
ASSUME BaseAssumption ==
  \A m \in Base : /\ IsAutomaton(m, Nat) /\ IsHonest(m)
                  /\ \A t \in m.trans : t[4] \in GetLiveStates(m)

VARIABLES
  reg,     \* the two automata
  lang,    \* the words up to MaxLength of what they stand for
  calls,   \* how many operations were applied
  queue, path, best,   \* the search of getShortestExample
  phase    \* of that search

search == <<queue, path, best>>

callsVars == <<reg, lang, calls, search, phase>>

Word == UNION {[1..k -> Char] : k \in 0..MaxLength}

Accepted(a) == {w \in Word : Run(a, w)}

-----------------------------------------------------------------------------
(* The operations on languages, restricted to Word.                        *)

Cat(L, K) == {w \in Word : \E k \in 0..Len(w) :
                SubSeq(w, 1, k) \in L /\ SubSeq(w, k + 1, Len(w)) \in K}

Power(L, k) == FoldLeft(LAMBDA K, l : Cat(K, l), {<<>>}, Times(L, k))

Between(L, min, max) == UNION {Power(L, k) : k \in min..max}

-----------------------------------------------------------------------------
(* A call replaces an automaton, the other one being the second argument.  *)
Call(i, a, L) ==
  /\ phase = "idle" /\ calls < MaxCalls
  /\ Cardinality(Ends(a)) <= MaxStates
  /\ reg' = [reg EXCEPT ![i] = a]
  /\ lang' = [lang EXCEPT ![i] = L]
  /\ calls' = calls + 1
  /\ UNCHANGED <<search, phase>>

DoConcatenate ==
  \E i \in 1..2 : Call(i, Concatenate(reg[i], reg[3 - i]), Cat(lang[i], lang[3 - i]))

DoUnion ==
  \E i \in 1..2 : Call(i, Union2(reg[i], reg[3 - i]), lang[i] \cup lang[3 - i])

DoUnionList ==
  \E i \in 1..2 : Call(i, UnionList(<<reg[i], reg[3 - i]>>), lang[i] \cup lang[3 - i])

DoIntersection ==
  \E i \in 1..2 : Call(i, Intersection(reg[i], reg[3 - i]), lang[i] \cap lang[3 - i])

DoMinus ==
  \E i \in 1..2 : Call(i, Minus(reg[i], reg[3 - i]), lang[i] \ lang[3 - i])

DoComplement ==
  \E i \in 1..2 : Call(i, Complement(reg[i]), Word \ lang[i])

DoDeterminize ==
  \E i \in 1..2 : Call(i, Determinize(reg[i]), lang[i])

DoOptional ==
  \E i \in 1..2 : Call(i, Optional(reg[i]), lang[i] \cup {<<>>})

DoRepeatMin ==
  \E i \in 1..2, min \in 0..2 :
    Call(i, RepeatMin(reg[i], min), Between(lang[i], min, min + MaxLength))

DoRepeatMinMax ==
  \E i \in 1..2, min \in 0..2, max \in 1..2 :
    Call(i, RepeatMinMax(reg[i], min, max), Between(lang[i], min, max))

-----------------------------------------------------------------------------
(* getShortestExample(reg[1], true)                                        *)
StartSearch ==
  /\ phase = "idle"
  /\ IF IsSingleton(reg[1])
     THEN /\ best' = reg[1].word
          /\ phase' = "found"
          /\ UNCHANGED <<queue, path>>
     ELSE /\ queue' = <<reg[1].q0>>
          /\ path' = [q \in {reg[1].q0} |-> <<>>]
          /\ phase' = "search"
          /\ UNCHANGED best
  /\ UNCHANGED <<reg, lang, calls>>

(* Order of words: the shorter first, then the lexicographic one.          *)
Before(u, v) ==
  \/ Len(u) < Len(v)
  \/ /\ Len(u) = Len(v)
     /\ \E k \in DOMAIN u : u[k] < v[k] /\ \A j \in 1..k - 1 : u[j] = v[j]

Least(L) == CHOOSE u \in L : \A v \in L : u = v \/ Before(u, v)

(* The words by which the state q at the head of the queue leads to r.     *)
Extensions(q, r) ==
  {Append(path[q], t[2]) : t \in {u \in reg[1].trans : u[1] = q /\ u[4] = r}}

SearchAccepting ==
  /\ phase = "search" /\ queue # <<>>
  /\ Head(queue) \in reg[1].acc
  /\ best' = {Least(best \cup {path[Head(queue)]})}
  /\ queue' = Tail(queue)
  /\ UNCHANGED <<reg, lang, calls, path, phase>>

(* Faulty: a path, once found, is not revised.                             *)
SearchExpandFirst ==
  /\ phase = "search" /\ queue # <<>>
  /\ Head(queue) \notin reg[1].acc
  /\ LET q == Head(queue)
         new == {t[4] : t \in {u \in reg[1].trans : u[1] = q}} \ DOMAIN path
     IN  /\ \E order \in SetToSeqs(new) : queue' = Tail(queue) \o order
         /\ path' = [r \in DOMAIN path \cup new |->
                       IF r \in new THEN Least(Extensions(q, r)) ELSE path[r]]
  /\ UNCHANGED <<reg, lang, calls, best, phase>>

(* The states met for the first time are queued in the order of a hash     *)
(* set; one met before by a word of the same length may get a smaller one. *)
SearchExpand ==
  /\ phase = "search" /\ queue # <<>>
  /\ Head(queue) \notin reg[1].acc
  /\ LET q == Head(queue)
         new == {t[4] : t \in {u \in reg[1].trans : u[1] = q}} \ DOMAIN path
         same(r) == {u \in Extensions(q, r) : Len(u) = Len(path[r])}
     IN  /\ \E order \in SetToSeqs(new) : queue' = Tail(queue) \o order
         /\ path' = [r \in DOMAIN path \cup new |->
                       IF r \in new THEN Least(Extensions(q, r))
                                    ELSE Least({path[r]} \cup same(r))]
  /\ UNCHANGED <<reg, lang, calls, best, phase>>

Found ==
  /\ phase = "search" /\ queue = <<>>
  /\ phase' = "found"
  /\ UNCHANGED <<reg, lang, calls, search>>

-----------------------------------------------------------------------------
CallsInit ==
  /\ \E a1, a2 \in Base : reg = <<a1, a2>> /\ lang = <<Accepted(a1), Accepted(a2)>>
  /\ calls = 0
  /\ queue = <<>> /\ path = <<>> /\ best = {}
  /\ phase = "idle"

CallsNext ==
  \/ DoConcatenate \/ DoUnion \/ DoUnionList \/ DoIntersection \/ DoMinus \/ DoComplement
  \/ DoDeterminize \/ DoOptional \/ DoRepeatMin \/ DoRepeatMinMax
  \/ StartSearch \/ SearchAccepting \/ SearchExpand \/ Found

CallsSpec == CallsInit /\ [][CallsNext]_callsVars

-----------------------------------------------------------------------------
(* Properties                                                              *)

(* After any sequence of calls each automaton accepts what the operations  *)
(* on languages say (BasicOperations).                                     *)
LanguageExact == \A i \in 1..2 : Accepted(reg[i]) = lang[i]

(* An automaton that counts as deterministic is: determinize leaves it     *)
(* alone, and complement, subsetOf and run rely on it (class Automaton).   *)
FlagHonest == \A i \in 1..2 : IsHonest(reg[i])

(* No transition leads to a state from which nothing is accepted: isEmpty  *)
(* looks at the initial state only (class Automaton).                      *)
NoDeadTransitions ==
  \A i \in 1..2 : ~ IsSingleton(reg[i]) =>
    \A t \in reg[i].trans : t[1] \in GetStates(reg[i]) => t[4] \in GetLiveStates(reg[i])

(* subsetOf decides inclusion: as the pairs of a state and of the set of   *)
(* states that the same word leads to do.                                  *)
Included(a1, a2) ==
  LET after(S) == UNION {{<<q, Step(a2, p[2], c)>> : q \in Step(a1, {p[1]}, c)} :
                           p \in S, c \in Char}
  IN  \A p \in Closure({<<a1.q0, {a2.q0}>>}, Ends(a1) \X SUBSET Ends(a2), after) :
        p[1] \in a1.acc => p[2] \cap a2.acc # {}

SubsetExact ==
  phase = "idle" => (SubsetOf(reg[1], reg[2])
                    <=> Included(ExpandSingleton(reg[1]), ExpandSingleton(reg[2])))

(* getShortestExample returns the first of the accepted words, the shorter *)
(* ones coming first, and none only if there is none.                      *)
ShortestExact ==
  phase = "found" =>
    /\ \A w \in best : Run(reg[1], w)
    /\ best = {} => IsEmpty(reg[1])
    /\ lang[1] # {} => best = {Least(lang[1])}

=============================================================================
