------------------------------- MODULE Teacher -------------------------------
(***************************************************************************)
(* Teacher.checkIfWinningSet on automata: the four checks in their order,  *)
(* composed of the operations of module Automata and of calls of           *)
(* TransducerOperations.image, each of which runs as module Image does.    *)
(*                                                                         *)
(* image ends with minimize, which keeps the language of a deterministic   *)
(* automaton (module Minimize): here its result is only rid of what is     *)
(* dead.  The parameters A and T of a call, its result and its pc are      *)
(* those of Image.                                                         *)
(***************************************************************************)
EXTENDS Image, FiniteSets, TLC

CONSTANTS
  Code,            \* the char that each letter is
  MaxChar,         \* Character.MAX_VALUE
  AV0, AV1,        \* the vertices of the two players,
  AI, AF,          \* the initial and the safe ones: automata
  TE,              \* the moves: a transducer
  Conjectures      \* the automata to check

ASSUME CodeAssumption == Code \in [Letter -> 0..MaxChar]

B == INSTANCE Automata

VARIABLES
  cdfa,     \* the automaton to check
  phase,    \* the check, or the call of image that it waits for
  example,  \* the word that was found
  answer    \* the counterexample: kind, word, and an automaton for ex and uni

call == <<A, T, trans, acc, size, stack, pc>>

teacher == <<cdfa, phase, example, answer>>

None == [kind |-> "none"]

-----------------------------------------------------------------------------
(* Calls of image                                                          *)

LetterOf(c) == CHOOSE l \in Letter : Code[l] = c

(* An automaton as Image has it: each interval by its first letter.        *)
Explored(a) ==
  LET read(e) == [na |-> Cardinality(B!Ends(e)), acc |-> e.acc,
                  trans |-> {<<t[1], LetterOf(t[2]), t[4]>> : t \in e.trans}]
  IN  read(B!Numbered(B!ExpandSingleton(a)))

(* imageRec(ret.getInitialState(), as, tas)                                *)
CallImage(t, a) ==
  /\ A' \in {Explored(a)} /\ T' = t
  /\ trans' = {} /\ size' = 1
  /\ acc' = IF 0 \in A'.acc /\ 0 \in t.acc THEN {0} ELSE {}
  /\ stack' = <<[current |-> 0, as |-> 0, tas |-> 0, ast |-> <<>>,
                 alpha |-> {<<d, f>> \in A'.trans \X t.trans :
                              d[1] = 0 /\ f[1] = 0 /\ f[2] = d[2]},
                 epsilon |-> {f \in t.trans : f[1] = 0 /\ f[2] = Epsilon}]>>
  /\ pc' = "rec"

Running == {"predecessors", "ex", "leaving", "uni"}

RunImage ==
  /\ phase \in Running
  /\ Erase \/ Loop \/ Emit \/ Insert \/ Leave \/ Return
  /\ UNCHANGED teacher

(* The automaton that a call has returned.                                 *)
Returns(p) == phase = p /\ pc = "done"

Image ==
  B!RemoveDeadTransitions(
    B!Explicit(0, acc, {<<e[1], Code[e[2]], Code[e[2]], e[3]>> : e \in trans}, TRUE))

-----------------------------------------------------------------------------
(* getShortestExample(a, true): the shortest word, the first one in order  *)
(* (module Operations).                                                    *)
Shortest(a) ==
  LET before(u, v) == \E i \in DOMAIN u : u[i] < v[i] /\ \A j \in 1..i - 1 : u[j] = v[j]
      least(L) == CHOOSE u \in L : \A v \in L : u = v \/ before(u, v)
      found(e, front) == {m[2] : m \in {p \in front : p[1] \in e.acc}}
      onwards(e, front) ==
        {<<t[4], Append(m[2], t[2])>> :
           <<m, t>> \in {<<p, u>> \in front \X e.trans : u[1] = p[1]}}
      from(e) ==
        LET search[front \in SUBSET (B!Ends(e) \X Seq(B!Char))] ==
              IF found(e, front) # {} THEN least(found(e, front)) ELSE search[onwards(e, front)]
        IN  search[{<<e.q0, <<>>>>}]
  IN  from(B!ExpandSingleton(a))

(* new RegExp(u).toAutomaton(): none of the letters has a meaning in a     *)
(* regular expression.                                                     *)
RegExp(u) ==
  IF u = <<>> THEN B!MakeEmptyString
  ELSE B!ConcatenateList([i \in DOMAIN u |-> B!Singleton(<<u[i]>>)])

Answer(kind, u) ==
  /\ answer' = [kind |-> kind, u |-> u]
  /\ phase' = "answered"
  /\ UNCHANGED <<cdfa, example, call>>

CheckInitial ==
  /\ phase = "initial"
  /\ \E a1 \in {B!Minus(AI, cdfa)} :
         IF B!IsEmpty(a1)
         THEN phase' = "safe" /\ UNCHANGED <<cdfa, example, answer, call>>
         ELSE Answer("pos", Shortest(a1))

CheckSafe ==
  /\ phase = "safe"
  /\ \E a2 \in {B!Minus(cdfa, AF)} :
         IF B!IsEmpty(a2)
         THEN /\ CallImage(Invert(TE), cdfa)
              /\ phase' = "predecessors"
              /\ UNCHANGED <<cdfa, example, answer>>
         ELSE Answer("neg", Shortest(a2))

(* The counterexample is a word of a and the image of that word.           *)
CallSuccessors(a, p) ==
  /\ example' = Shortest(a)
  /\ CallImage(TE, RegExp(example'))
  /\ phase' = p
  /\ UNCHANGED <<cdfa, answer>>

CheckExistential ==
  /\ Returns("predecessors")
  /\ \E a3c \in {B!Intersection(cdfa, B!Minus(AV0, Image))} :
         IF B!IsEmpty(a3c)
         THEN /\ CallImage(Invert(TE), B!Minus(B!Union2(AV0, AV1), cdfa))
              /\ phase' = "leaving"
              /\ UNCHANGED <<cdfa, example, answer>>
         ELSE CallSuccessors(a3c, "ex")

(* Faulty: the turn is forgotten.                                          *)
CheckUniversalOfBoth ==
  /\ Returns("leaving")
  /\ \E a4c \in {B!Intersection(cdfa, Image)} :
         IF B!IsEmpty(a4c)
         THEN Answer("winning set", <<>>)
         ELSE CallSuccessors(a4c, "uni")

CheckUniversal ==
  /\ Returns("leaving")
  /\ \E a4c \in {B!Intersection(B!Intersection(AV1, cdfa), Image)} :
         IF B!IsEmpty(a4c)
         THEN Answer("winning set", <<>>)
         ELSE CallSuccessors(a4c, "uni")

(* Faulty: the counterexample is the word itself.                          *)
AddImplicationOfItself ==
  /\ phase \in {"ex", "uni"} /\ pc = "done"
  /\ answer' = [kind |-> phase, u |-> example, a |-> RegExp(example)]
  /\ phase' = "answered"
  /\ UNCHANGED <<cdfa, example, call>>

AddImplication ==
  /\ phase \in {"ex", "uni"} /\ pc = "done"
  /\ answer' = [kind |-> phase, u |-> example, a |-> Image]
  /\ phase' = "answered"
  /\ UNCHANGED <<cdfa, example, call>>

Ended == (phase = "answered" \/ pc = "overflow") /\ UNCHANGED <<teacher, call>>

-----------------------------------------------------------------------------
TeacherInit ==
  /\ cdfa \in Conjectures
  /\ phase = "initial" /\ example = <<>> /\ answer = None
  /\ A = [na |-> 1, acc |-> {}, trans |-> {}] /\ T = TE
  /\ trans = {} /\ acc = {} /\ size = 1 /\ stack = <<>> /\ pc = "idle"

TeacherNext ==
  \/ CheckInitial \/ CheckSafe \/ RunImage \/ CheckExistential \/ CheckUniversal
  \/ AddImplication \/ Ended

TeacherSpec == TeacherInit /\ [][TeacherNext]_<<teacher, call>>

-----------------------------------------------------------------------------
(***************************************************************************)
(* Properties.  The game itself: its vertices of up to MaxLength letters,  *)
(* and the words that TE relates.                                          *)
(***************************************************************************)
WordsOf(a) ==
  LET on(s) == s \cup UNION {{<<t[4], Append(m[2], Code[l])>> :
                               l \in {x \in Letter : Code[x] \in t[2]..t[3]}} :
                              <<m, t>> \in {<<p, u>> \in s \X a.trans : u[1] = p[1]}}
      upTo[k \in 0..MaxLength] == IF k = 0 THEN {<<a.q0, <<>>>>} ELSE on(upTo[k - 1])
  IN  {m[2] : m \in {p \in upTo[MaxLength] : p[1] \in a.acc}}

(* TE relates u and v: <<i, j, t>> is met when the first i letters of u    *)
(* and the first j of v lead to its state t.                               *)
Related(u, v) ==
  LET all == (0..Len(u)) \X (0..Len(v)) \X (0..TE.na - 1)
      reads(w, i, x) ==
        IF x = Epsilon THEN {i} ELSE {k \in {i + 1} \cap DOMAIN w : w[k] = Code[x]}
      next(S) == UNION {reads(u, s[1], f[2]) \X reads(v, s[2], f[3]) \X {f[4]} :
                          <<s, f>> \in {<<r, g>> \in S \X TE.trans : g[1] = r[3]}}
  IN  \E t \in TE.acc : <<Len(u), Len(v), t>> \in B!Closure({<<0, 0, 0>>}, all, next)

V0 == WordsOf(AV0)
V1 == WordsOf(AV1)
I == WordsOf(AI)
F == WordsOf(AF)

Vertices == V0 \cup V1

Moves == {<<u, v>> \in Vertices \X Vertices : Related(u, v)}

(* The vertices shorter than MaxLength: all their moves are known.         *)
Inner == {u \in Vertices : Len(u) < MaxLength}

Post == [u \in Vertices |-> {m[2] : m \in {e \in Moves : e[1] = u}}]

(* The words that the checks look for, in their order.                     *)
Violations(W) ==
  <<I \ W, W \ F,
    {u \in W \cap Inner \cap V0 : Post[u] \cap W = {}},
    {u \in W \cap Inner \cap V1 : ~ (Post[u] \subseteq W)}>>

Before(u, v) ==
  \/ Len(u) < Len(v)
  \/ /\ Len(u) = Len(v)
     /\ \E i \in DOMAIN u : u[i] < v[i] /\ \A j \in 1..i - 1 : u[j] = v[j]

IsLeast(u, L) == u \in L /\ \A v \in L : u = v \/ Before(u, v)

(* The answer names the first of the conditions on a winning set that the  *)
(* conjecture fails and the least word that fails it, or none if it fails  *)
(* none: the check of a later condition is right because the earlier ones  *)
(* hold (Teacher.checkIfWinningSet).                                       *)
AnswerExact ==
  phase = "answered" =>
    LET bad == Violations(WordsOf(cdfa))
        check == CASE answer.kind = "pos" -> 1 [] answer.kind = "neg" -> 2
                   [] answer.kind = "ex" -> 3 [] answer.kind = "uni" -> 4
                   [] answer.kind = "winning set" -> 5
    IN  /\ \A i \in 1..check - 1 : bad[i] = {}
        /\ check < 5 => IsLeast(answer.u, bad[check])

(* The automaton of an implication accepts the successors of its word, and *)
(* nothing else (Teacher.checkIfWinningSet, image).                        *)
SuccessorsExact ==
  phase = "answered" /\ answer.kind \in {"ex", "uni"} =>
    WordsOf(answer.a) = Post[answer.u]

(* The stack overflows only for sets whose automaton has a cycle of        *)
(* several states: all others are answered (imageRec, of the teacher's     *)
(* calls).                                                                 *)
HasCycle(a) ==
  \E q \in B!Ends(a) :
    LET after == {t[4] : t \in {u \in a.trans : u[1] = q /\ u[4] # q}}
    IN  q \in B!Closure(after, B!Ends(a), LAMBDA S : {t[4] : t \in {u \in a.trans : u[1] \in S}})

OverflowOnlyOnCycle == pc = "overflow" => HasCycle(cdfa)

=============================================================================
