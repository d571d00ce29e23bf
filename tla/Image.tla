------------------------------- MODULE Image -------------------------------
(***************************************************************************)
(* TransducerOperations.image: an automaton for the words that a           *)
(* transducer T relates to those of an automaton A.  imageRec walks A and  *)
(* T together and builds the states of the result as it goes.  The         *)
(* recursion is modelled by its stack; the orders in which the hash sets   *)
(* of transitions are iterated over, by a choice.                          *)
(*                                                                         *)
(* An automaton has states, the initial one being 0, accepting states and  *)
(* transitions <<p, a, q>>.  Those of T carry a pair: <<t, a, b, t2>>.     *)
(*                                                                         *)
(* The properties are about the automaton that image hands to minimize,    *)
(* which keeps the language of a deterministic automaton (FlagHonest tells *)
(* when it is one).                                                        *)
(***************************************************************************)
EXTENDS Integers, Sequences, SequencesExt

CONSTANTS
  Letter,     \* the alphabet of the game
  Adjacent,   \* the pairs of letters with consecutive codes
  Inputs,     \* the pairs <<A, T>> to compute the image for
  MaxDepth,   \* bound on the recursion: the size of the call stack
  MaxLength   \* bound on the length of the words the result is tested on

Epsilon == "-"   \* the letter that stands for the empty word in a pair

ASSUME ImageAssumption == Epsilon \notin Letter /\ MaxDepth \in Nat /\ MaxLength \in Nat

(* A is an automaton, T a transducer no transition of which does nothing.  *)
IsAutomaton(a) ==
  /\ a.na \in Nat \ {0}
  /\ a.trans \subseteq (0..a.na - 1) \X Letter \X (0..a.na - 1)

IsTransducer(t) ==
  /\ t.na \in Nat \ {0}
  /\ t.trans \subseteq
       (0..t.na - 1) \X (Letter \cup {Epsilon}) \X (Letter \cup {Epsilon}) \X (0..t.na - 1)
  /\ \A f \in t.trans : f[2] # Epsilon \/ f[3] # Epsilon

ASSUME InputsAssumption == \A x \in Inputs : IsAutomaton(x[1]) /\ IsTransducer(x[2])

VARIABLES A, T,
  trans,   \* the transitions of the result; its states are 0..size-1
  acc,     \* its accepting states
  size,
  stack,   \* the calls of imageRec that have not returned
  pc

input == <<A, T>>

vars == <<input, trans, acc, size, stack, pc>>

-----------------------------------------------------------------------------
(* TransducerOperations.invert: a copy of a transducer, its pairs swapped. *)
Invert(t) == [t EXCEPT !.trans = {<<f[1], f[3], f[2], f[4]>> : f \in @}]

(* Transition.getMin: the first letter of each interval of A.              *)
IsMin(e) ==
  \A b \in Letter : <<b, e[2]>> \in Adjacent => <<e[1], b, e[3]>> \notin A.trans

(* A call of imageRec, with the transitions it has left to look at: the    *)
(* pairs it finds a common letter in, then the epsilon transitions of T.   *)
(* ast is the transition of A the outer loop is at.                        *)
(* Faulty: getEpsilonTransitions forgotten.                                *)
FrameNoEpsilon(current, as, tas) ==
  [current |-> current, as |-> as, tas |-> tas,
   alpha |-> {p \in A.trans \X T.trans :
                p[1][1] = as /\ IsMin(p[1]) /\ p[2][1] = tas /\ p[2][2] = p[1][2]},
   epsilon |-> {},
   ast |-> <<>>]

Frame(current, as, tas) ==
  [current |-> current, as |-> as, tas |-> tas,
   alpha |-> {p \in A.trans \X T.trans :
                p[1][1] = as /\ IsMin(p[1]) /\ p[2][1] = tas /\ p[2][2] = p[1][2]},
   epsilon |-> {f \in T.trans : f[1] = tas /\ f[2] = Epsilon},
   ast |-> <<>>]

(* The test with which imageRec begins.                                    *)
(* Faulty: one of the two is enough.                                       *)
AcceptingEither(current, as, tas) ==
  IF as \in A.acc \/ tas \in T.acc THEN acc \cup {current} ELSE acc

Accepting(current, as, tas) ==
  IF as \in A.acc /\ tas \in T.acc THEN acc \cup {current} ELSE acc

top == Last(stack)

Calls(current, as, tas, rest) ==
  IF Len(stack) < MaxDepth
  THEN /\ stack' = Front(stack) \o <<rest, Frame(current, as, tas)>>
       /\ acc' = Accepting(current, as, tas)
       /\ UNCHANGED pc
  ELSE /\ pc' = "overflow"
       /\ UNCHANGED <<acc, stack>>

-----------------------------------------------------------------------------
(* One turn of the nested loops over the transitions of A and of T.        *)
Pick(e, f) ==
  /\ pc = "rec" /\ stack # <<>>
  /\ <<e, f>> \in top.alpha
  /\ (\E g \in T.trans : <<top.ast, g>> \in top.alpha) => e = top.ast

Rest(e, f) == [top EXCEPT !.alpha = @ \ {<<e, f>>}, !.ast = e]

(* T erases the letter.                                                    *)
(* Faulty: A stays where it is.                                            *)
EraseForever ==
  \E e \in A.trans, f \in T.trans :
    /\ Pick(e, f) /\ f[3] = Epsilon
    /\ Calls(top.current, top.as, f[4], Rest(e, f))
    /\ UNCHANGED <<input, trans, size>>

Erase ==
  \E e \in A.trans, f \in T.trans :
    /\ Pick(e, f) /\ f[3] = Epsilon
    /\ Calls(top.current, e[3], f[4], Rest(e, f))
    /\ UNCHANGED <<input, trans, size>>

(* Faulty: the loop is not looked for.                                     *)
LoopAgain ==
  \E e \in A.trans, f \in T.trans :
    /\ Pick(e, f) /\ f[3] # Epsilon /\ e[3] = top.as
    /\ trans' = trans \cup {<<top.current, f[3], top.current>>}
    /\ Calls(top.current, top.as, f[4], Rest(e, f))
    /\ UNCHANGED <<input, size>>

(* A loops: so does the result, unless it already does.                    *)
Loop ==
  \E e \in A.trans, f \in T.trans :
    /\ Pick(e, f) /\ f[3] # Epsilon /\ e[3] = top.as
    /\ LET loop == <<top.current, f[3], top.current>>
       IN  /\ trans' = trans \cup {loop}
           /\ IF loop \in trans
              THEN stack' = Front(stack) \o <<Rest(e, f)>> /\ UNCHANGED <<acc, pc>>
              ELSE Calls(top.current, top.as, f[4], Rest(e, f))
    /\ UNCHANGED <<input, size>>

(* Faulty: the new state is not counted.                                   *)
EmitUncounted ==
  \E e \in A.trans, f \in T.trans :
    /\ Pick(e, f) /\ f[3] # Epsilon /\ e[3] # top.as
    /\ trans' = trans \cup {<<top.current, f[3], size>>}
    /\ Calls(size, e[3], f[4], Rest(e, f))
    /\ UNCHANGED <<input, size>>

(* A moves: the result gets a new state.                                   *)
Emit ==
  \E e \in A.trans, f \in T.trans :
    /\ Pick(e, f) /\ f[3] # Epsilon /\ e[3] # top.as
    /\ trans' = trans \cup {<<top.current, f[3], size>>}
    /\ size' = size + 1
    /\ Calls(size, e[3], f[4], Rest(e, f))
    /\ UNCHANGED input

(* Faulty: always to a new state.                                          *)
InsertNew ==
  /\ pc = "rec" /\ stack # <<>>
  /\ top.alpha = {}
  /\ \E f \in top.epsilon :
       /\ trans' = trans \cup {<<top.current, f[3], size>>}
       /\ size' = size + 1
       /\ Calls(size, top.as, f[4], [top EXCEPT !.epsilon = @ \ {f}])
  /\ UNCHANGED input

(* T reads nothing: the result moves with one of its transitions on that   *)
(* letter, or to a new state.                                              *)
Insert ==
  /\ pc = "rec" /\ stack # <<>>
  /\ top.alpha = {}
  /\ \E f \in top.epsilon :
       LET known == {e \in trans : e[1] = top.current /\ e[2] = f[3]}
       IN  \E next \in IF known = {} THEN {size} ELSE {e[3] : e \in known} :
             /\ trans' = trans \cup {<<top.current, f[3], next>>}
             /\ size' = IF next = size THEN size + 1 ELSE size
             /\ Calls(next, top.as, f[4], [top EXCEPT !.epsilon = @ \ {f}])
  /\ UNCHANGED input

Leave ==
  /\ pc = "rec" /\ stack # <<>>
  /\ top.alpha = {} /\ top.epsilon = {}
  /\ stack' = Front(stack)
  /\ UNCHANGED <<input, trans, acc, size, pc>>

(* The first call returns: ret.minimize() is next.                         *)
Return ==
  /\ pc = "rec" /\ stack = <<>>
  /\ pc' = "done"
  /\ UNCHANGED <<input, trans, acc, size, stack>>

Stopped == pc \in {"done", "overflow"} /\ UNCHANGED vars

-----------------------------------------------------------------------------
Init ==
  /\ \E x \in Inputs : A = x[1] /\ T = x[2]
  /\ trans = {}
  /\ size = 1
  /\ acc = IF 0 \in A.acc /\ 0 \in T.acc THEN {0} ELSE {}
  /\ stack = <<Frame(0, 0, 0)>>
  /\ pc = "rec"

Next == Erase \/ Loop \/ Emit \/ Insert \/ Leave \/ Return \/ Stopped

Spec == Init /\ [][Next]_vars /\ WF_vars(Next)

-----------------------------------------------------------------------------
(* The words of the result and those of the image.                         *)

WordsUpTo(k) == UNION {[1..l -> Letter] : l \in 0..k}

After(s, b) == {e[3] : e \in {d \in trans : d[1] \in s /\ d[2] = b}}

Reach(v) ==
  LET r[i \in 0..Len(v)] == IF i = 0 THEN {0} ELSE After(r[i - 1], v[i])
  IN  r[Len(v)]

(* The pairs of states of A and T after steps that write nothing.          *)
Erases(s) ==
  {<<m[1][3], m[2][4]>> : m \in
     {p \in A.trans \X T.trans :
        <<p[1][1], p[2][1]>> \in s /\ p[2][2] = p[1][2] /\ p[2][3] = Epsilon}}

Silent(s) ==
  LET close[r \in SUBSET ((0..A.na - 1) \X (0..T.na - 1))] ==
        IF r \cup Erases(r) = r THEN r ELSE close[r \cup Erases(r)]
  IN  close[s]

Writes(s, b) ==
  {<<m[1][3], m[2][4]>> : m \in
     {p \in A.trans \X T.trans :
        <<p[1][1], p[2][1]>> \in s /\ p[2][2] = p[1][2] /\ p[2][3] = b}}
  \cup {<<m[1][1], m[2][4]>> : m \in
     {p \in s \X T.trans : p[2][1] = p[1][2] /\ p[2][2] = Epsilon /\ p[2][3] = b}}

ImageReach(v) ==
  LET r[i \in 0..Len(v)] ==
        IF i = 0 THEN Silent({<<0, 0>>}) ELSE Silent(Writes(r[i - 1], v[i]))
  IN  r[Len(v)]

InImage(v) == ImageReach(v) \cap (A.acc \X T.acc) # {}

InResult(v) == Reach(v) \cap acc # {}

-----------------------------------------------------------------------------
(* Properties                                                              *)

(* The result has states 0..size-1, all reached, and the calls are on      *)
(* states of the three automata.                                           *)
TypeOK ==
  /\ trans \subseteq (0..size - 1) \X Letter \X (0..size - 1)
  /\ acc \subseteq 0..size - 1
  /\ \A q \in 1..size - 1 : \E e \in trans : e[3] = q
  /\ \A i \in DOMAIN stack : /\ stack[i].current \in 0..size - 1
                             /\ stack[i].as \in 0..A.na - 1
                             /\ stack[i].tas \in 0..T.na - 1
  /\ pc \in {"rec", "done", "overflow"}

(* The result accepts no word outside the image: what image says it        *)
(* returns.                                                                *)
ImageSound ==
  pc = "done" => \A v \in WordsUpTo(MaxLength) : InResult(v) => InImage(v)

(* The result accepts every word of the image.                             *)
ImageComplete ==
  pc = "done" => \A v \in WordsUpTo(MaxLength) : InImage(v) => InResult(v)

(* The result is handed over as a new Automaton, that is, as a             *)
(* deterministic one, to minimize and complement.                          *)
FlagHonest ==
  pc = "done" => \A e, f \in trans : e[1] = f[1] /\ e[2] = f[2] => e[3] = f[3]

(* In the linear game it is one: two transitions of a state of A read      *)
(* different letters and loop together or not at all; two transitions of a *)
(* state of T that read a letter write different ones; T does not move     *)
(* when A loops; and nothing follows an epsilon in T.                      *)
LoopsTogether(a, t) ==
  \A e \in a.trans, f \in t.trans :
    e[1] = e[3] /\ f[2] = e[2] /\ f[3] # Epsilon => f[1] = f[4]

Plain(a, t) ==
  /\ \A d, e \in a.trans : d[1] = e[1] /\ d[2] = e[2] => d = e
  /\ \A d, e \in a.trans : d[1] = e[1] /\ d[1] = d[3] => e[1] = e[3]
  /\ \A f, g \in t.trans :
       f[1] = g[1] /\ f[3] = g[3] /\ Epsilon \notin {f[2], g[2], f[3]} => f = g
  /\ \A f, g \in t.trans : Epsilon \in {f[2], f[3]} => g[1] # f[4]
  /\ LoopsTogether(a, t)

(* A state that loops accepts, and so does T once it could have ended by   *)
(* writing the same without reading.                                       *)
EndsTogether(a, t) ==
  /\ \A e \in a.trans : e[1] = e[3] => e[1] \in a.acc
  /\ \A f, g \in t.trans :
       f[1] = g[1] /\ f[3] = g[3] /\ f[2] = Epsilon /\ g[2] # Epsilon /\ f[4] \in t.acc
         => g[4] \in t.acc

FlagHonestIfPlain == Plain(A, T) => FlagHonest

(* imageRec returns.                                                       *)
Terminates == <>(pc = "done")

=============================================================================
