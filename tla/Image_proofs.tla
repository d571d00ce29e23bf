---------------------------- MODULE Image_proofs ----------------------------
(***************************************************************************)
(* Theorems about TransducerOperations.image, for every automaton, every   *)
(* transducer and every order in which transitions are looked at.          *)
(***************************************************************************)
EXTENDS Image, Recursion

State(k) == 0..k - 1

(* The calls of imageRec, when the result has k states.                    *)
Call(k) ==
  [current : State(k), as : State(A.na), tas : State(T.na),
   alpha : SUBSET (A.trans \X T.trans),
   epsilon : SUBSET {f \in T.trans : f[2] = Epsilon},
   ast : A.trans \cup {<<>>}]

(* The result: its states are numbered in the order they are made, and     *)
(* each has a transition to it.                                            *)
Result ==
  /\ size \in Nat \ {0}
  /\ trans \subseteq State(size) \X Letter \X State(size)
  /\ acc \subseteq State(size)
  /\ \A q \in 1..size - 1 : \E e \in trans : e[3] = q

IInv ==
  /\ IsAutomaton(A) /\ IsTransducer(T)
  /\ Result
  /\ stack \in Seq(Call(size))
  /\ pc \in {"rec", "done", "overflow"}

-----------------------------------------------------------------------------
(* The call that imageRec makes                                            *)

LEMMA FrameType ==
  ASSUME NEW k, NEW q \in State(k), NEW as \in State(A.na), NEW tas \in State(T.na)
  PROVE  Frame(q, as, tas) \in Call(k)
BY DEF Frame, Call

(* More states, more calls.                                                *)
LEMMA MoreCalls ==
  ASSUME NEW k \in Nat, NEW m \in Nat, k <= m
  PROVE  Call(k) \subseteq Call(m)
<1>1. State(k) \subseteq State(m)
  BY DEF State
<1> QED BY <1>1 DEF Call

LEMMA Initially == Init => IInv
<1> SUFFICES ASSUME Init PROVE IInv
  OBVIOUS
<1>1. IsAutomaton(A) /\ IsTransducer(T)
  BY InputsAssumption DEF Init
<1>2. Result
  BY DEF Init, Result, State
<1>3. stack \in Seq(Call(size))
  <2>1. 0 \in State(size) /\ 0 \in State(A.na) /\ 0 \in State(T.na)
    BY <1>1 DEF Init, State, IsAutomaton, IsTransducer
  <2>2. Frame(0, 0, 0) \in Call(size)
    BY <2>1, FrameType
  <2> QED BY <2>2 DEF Init
<1> QED BY <1>1, <1>2, <1>3 DEF Init, IInv

(* What is on top of the stack, and below.                                 *)
LEMMA Top ==
  ASSUME NEW S, NEW s \in Seq(S), s # <<>>
  PROVE  Last(s) \in S /\ Front(s) \in Seq(S)
BY DEF Last, Front

LEMMA Pushed ==
  ASSUME NEW S, NEW s \in Seq(S), NEW c \in S, NEW d \in S
  PROVE  s \o <<c>> \in Seq(S) /\ s \o <<c, d>> \in Seq(S)
<1>1. <<c>> \in Seq(S) /\ <<c, d>> \in Seq(S)
  OBVIOUS
<1> QED BY <1>1

(* A step that adds a transition from the current state to state q, an old *)
(* one or the next, and may call imageRec for it.                          *)
LEMMA CallKeeps ==
  ASSUME IInv, stack # <<>>, pc = "rec", UNCHANGED input,
         NEW q \in 0..size, size' = IF q = size THEN size + 1 ELSE size,
         trans' = trans \/ \E b \in Letter : trans' = trans \cup {<<top.current, b, q>>},
         q = size => trans' # trans,
         NEW as \in State(A.na), NEW tas \in State(T.na),
         NEW rest \in Call(size),
         \/ Calls(q, as, tas, rest)
         \/ stack' = Front(stack) \o <<rest>> /\ UNCHANGED <<acc, pc>>
  PROVE  IInv'
<1>1. /\ A' = A /\ T' = T
      /\ size \in Nat \ {0} /\ size' \in Nat \ {0} /\ size <= size'
      /\ q \in State(size') /\ State(size) \subseteq State(size')
      /\ size' - 1 = IF q = size THEN q ELSE size - 1
  BY DEF input, IInv, Result, State
<1>2. \A k : Call(k)' = Call(k)
  BY <1>1 DEF Call, State
<1>3. /\ top \in Call(size) /\ Front(stack) \in Seq(Call(size))
      /\ top.current \in State(size)
  <2>1. top \in Call(size) /\ Front(stack) \in Seq(Call(size))
    BY Top DEF IInv, top
  <2> QED BY <2>1 DEF Call
<1>4. trans' \subseteq State(size') \X Letter \X State(size')
  <2>1. trans \subseteq State(size') \X Letter \X State(size')
    BY <1>1 DEF IInv, Result
  <2>2. \A b \in Letter : <<top.current, b, q>> \in State(size') \X Letter \X State(size')
    BY <1>1, <1>3
  <2> QED BY <2>1, <2>2
<1>5. \A p \in 1..size' - 1 : \E e \in trans' : e[3] = p
  <2>1. trans \subseteq trans'
    OBVIOUS
  <2> SUFFICES ASSUME NEW p \in 1..size' - 1 PROVE \E e \in trans' : e[3] = p
    OBVIOUS
  <2>2. CASE p \in 1..size - 1
    BY <2>1, <2>2 DEF IInv, Result
  <2>3. CASE p \notin 1..size - 1
    <3>1. p = q /\ q = size
      BY <1>1, <2>3
    <3>2. PICK b \in Letter : trans' = trans \cup {<<top.current, b, q>>}
      BY <3>1
    <3>3. <<top.current, b, q>> \in trans' /\ <<top.current, b, q>>[3] = p
      BY <3>1, <3>2
    <3> QED BY <3>3
  <2> QED BY <2>2, <2>3
<1>6. acc' \subseteq State(size')
  <2>1. acc \subseteq State(size')
    BY <1>1 DEF IInv, Result
  <2>2. CASE Calls(q, as, tas, rest)
    <3>1. acc' = acc \/ acc' = Accepting(q, as, tas)
      BY <2>2 DEF Calls
    <3>2. Accepting(q, as, tas) = acc \/ Accepting(q, as, tas) = acc \cup {q}
      BY DEF Accepting
    <3> QED BY <1>1, <2>1, <3>1, <3>2
  <2>3. CASE acc' = acc
    BY <2>1, <2>3
  <2> QED BY <2>2, <2>3
<1>7. stack' \in Seq(Call(size'))
  <2>1. Call(size) \subseteq Call(size')
    BY <1>1, MoreCalls
  <2>2. Frame(q, as, tas) \in Call(size')
    BY <1>1, FrameType
  <2>3. \/ stack' = stack
        \/ stack' = Front(stack) \o <<rest>>
        \/ stack' = Front(stack) \o <<rest, Frame(q, as, tas)>>
    BY DEF Calls
  <2>4. Front(stack) \in Seq(Call(size')) /\ stack \in Seq(Call(size'))
    BY <1>3, <2>1 DEF IInv
  <2>5. rest \in Call(size')
    BY <2>1
  <2>6. /\ Front(stack) \o <<rest>> \in Seq(Call(size'))
        /\ Front(stack) \o <<rest, Frame(q, as, tas)>> \in Seq(Call(size'))
    BY <2>2, <2>4, <2>5, Pushed
  <2> QED BY <2>3, <2>4, <2>6
<1>8. pc' \in {"rec", "done", "overflow"}
  BY DEF Calls
<1>9. IsAutomaton(A)' /\ IsTransducer(T)'
  BY <1>1 DEF IInv
<1>10. Result'
  BY <1>1, <1>4, <1>5, <1>6 DEF Result, State
<1>11. stack' \in Seq(Call(size)')
  BY <1>1, <1>7 DEF Call, State
<1> QED BY <1>8, <1>9, <1>10, <1>11 DEF IInv

-----------------------------------------------------------------------------
(* The turn of the loop over a pair of transitions that is still to do.    *)
LEMMA Picked ==
  ASSUME IInv, NEW e \in A.trans, NEW f \in T.trans, Pick(e, f)
  PROVE  /\ stack # <<>> /\ pc = "rec"
         /\ top.current \in 0..size /\ top.current # size
         /\ e[3] \in State(A.na) /\ f[4] \in State(T.na) /\ top.as \in State(A.na)
         /\ f[3] # Epsilon => f[3] \in Letter
         /\ Rest(e, f) \in Call(size)
<1>1. stack # <<>> /\ pc = "rec"
  BY DEF Pick
<1>2. top \in Call(size)
  BY <1>1, Top DEF IInv, top
<1>3. top.current \in 0..size /\ top.current # size /\ top.as \in State(A.na)
  BY <1>2 DEF Call, State, IInv, Result
<1>4. e[3] \in State(A.na) /\ f[4] \in State(T.na) /\ (f[3] # Epsilon => f[3] \in Letter)
  BY DEF IInv, IsAutomaton, IsTransducer, State
<1>5. Rest(e, f) \in Call(size)
  BY <1>2 DEF Rest, Call
<1> QED BY <1>1, <1>3, <1>4, <1>5

LEMMA EraseKeeps == IInv /\ Erase => IInv'
<1> SUFFICES ASSUME IInv, NEW e \in A.trans, NEW f \in T.trans,
                    Pick(e, f), Calls(top.current, e[3], f[4], Rest(e, f)),
                    UNCHANGED <<input, trans, size>>
             PROVE  IInv'
  BY DEF Erase
<1> QED BY Picked, CallKeeps

LEMMA LoopKeeps == IInv /\ Loop => IInv'
<1> SUFFICES ASSUME IInv, NEW e \in A.trans, NEW f \in T.trans,
                    Pick(e, f), f[3] # Epsilon,
                    trans' = trans \cup {<<top.current, f[3], top.current>>},
                    \/ stack' = Front(stack) \o <<Rest(e, f)>> /\ UNCHANGED <<acc, pc>>
                    \/ Calls(top.current, top.as, f[4], Rest(e, f)),
                    UNCHANGED <<input, size>>
             PROVE  IInv'
  BY DEF Loop
<1> QED BY Picked, CallKeeps

LEMMA EmitKeeps == IInv /\ Emit => IInv'
<1> SUFFICES ASSUME IInv, NEW e \in A.trans, NEW f \in T.trans,
                    Pick(e, f), f[3] # Epsilon,
                    trans' = trans \cup {<<top.current, f[3], size>>},
                    size' = size + 1,
                    Calls(size, e[3], f[4], Rest(e, f)),
                    UNCHANGED input
             PROVE  IInv'
  BY DEF Emit
<1>1. size \in 0..size
  BY DEF IInv, Result
<1>2. trans' # trans
  <2>1. <<top.current, f[3], size>> \notin trans
    BY DEF IInv, Result, State
  <2> QED BY <2>1
<1> QED BY <1>1, <1>2, Picked, CallKeeps

LEMMA InsertKeeps == IInv /\ Insert => IInv'
<1> SUFFICES ASSUME IInv, Insert PROVE IInv'
  OBVIOUS
<1>1. stack # <<>> /\ pc = "rec" /\ UNCHANGED input
  BY DEF Insert
<1> DEFINE known(f) == {e \in trans : e[1] = top.current /\ e[2] = f[3]}
<1>2. PICK f \in top.epsilon :
        \E next \in IF known(f) = {} THEN {size} ELSE {e[3] : e \in known(f)} :
          /\ trans' = trans \cup {<<top.current, f[3], next>>}
          /\ size' = IF next = size THEN size + 1 ELSE size
          /\ Calls(next, top.as, f[4], [top EXCEPT !.epsilon = @ \ {f}])
  BY DEF Insert
<1>3. PICK next \in IF known(f) = {} THEN {size} ELSE {e[3] : e \in known(f)} :
        /\ trans' = trans \cup {<<top.current, f[3], next>>}
        /\ size' = IF next = size THEN size + 1 ELSE size
        /\ Calls(next, top.as, f[4], [top EXCEPT !.epsilon = @ \ {f}])
  BY <1>2
<1>4. top \in Call(size)
  BY <1>1, Top DEF IInv, top
<1>5. /\ f \in T.trans /\ f[2] = Epsilon
      /\ top.as \in State(A.na)
      /\ [top EXCEPT !.epsilon = @ \ {f}] \in Call(size)
  BY <1>4 DEF Call
<1>6. f[4] \in State(T.na) /\ f[3] \in Letter
  BY <1>5 DEF IInv, IsTransducer, State
<1>7. next \in 0..size
  <2>1. CASE next = size
    BY <2>1 DEF IInv, Result
  <2>2. CASE next # size
    <3>1. PICK e \in trans : next = e[3]
      BY <1>3, <2>2
    <3> QED BY <3>1 DEF IInv, Result, State
  <2> QED BY <2>1, <2>2
<1>8. next = size => trans' # trans
  <2>1. <<top.current, f[3], size>> \notin trans
    BY DEF IInv, Result, State
  <2> QED BY <1>3, <2>1
<1> HIDE DEF known
<1> QED BY <1>1, <1>3, <1>5, <1>6, <1>7, <1>8, CallKeeps

LEMMA LeaveKeeps == IInv /\ (Leave \/ Return) => IInv'
<1> SUFFICES ASSUME IInv, Leave \/ Return PROVE IInv'
  OBVIOUS
<1>1. /\ A' = A /\ T' = T /\ trans' = trans /\ acc' = acc /\ size' = size
      /\ pc' \in {"rec", "done"}
  BY DEF Leave, Return, input
<1>2. stack' \in Seq(Call(size))
  <2>1. CASE Leave
    BY <2>1, Top DEF Leave, IInv
  <2>2. CASE Return
    BY <2>2 DEF Return, IInv
  <2> QED BY <2>1, <2>2
<1> QED BY <1>1, <1>2 DEF IInv, Result, Call, State

LEMMA StepKeeps == IInv /\ [Next]_vars => IInv'
<1> SUFFICES ASSUME IInv, [Next]_vars PROVE IInv'
  OBVIOUS
<1>1. CASE Stopped \/ UNCHANGED vars
  BY <1>1 DEF Stopped, vars, input, IInv, Result, Call, State
<1> QED BY <1>1, EraseKeeps, LoopKeeps, EmitKeeps, InsertKeeps, LeaveKeeps DEF Next

-----------------------------------------------------------------------------
(* The automaton that imageRec builds is one, with no state that nothing   *)
(* leads to, and every call is on states that exist.                       *)
THEOREM ImageTyped == Spec => []TypeOK
<1>1. IInv => TypeOK
  <2> SUFFICES ASSUME IInv PROVE TypeOK
    OBVIOUS
  <2>1. \A i \in DOMAIN stack : stack[i] \in Call(size)
    BY DEF IInv
  <2> QED BY <2>1 DEF IInv, Result, Call, State, TypeOK
<1> QED BY Initially, StepKeeps, <1>1, PTL DEF Spec

-----------------------------------------------------------------------------
(* The turns of the loops, in one form                                     *)

Pairs == State(A.na) \X State(T.na)

(* What is left to do in a call: the letter to write, the states of A and  *)
(* of T to go on from.                                                     *)
Todo(c) ==
  {<<p[2][3], p[1][3], p[2][4]>> : p \in c.alpha}
    \cup {<<f[3], c.as, f[4]>> : f \in c.epsilon}

Moves(as, tas) == Todo(Frame(0, as, tas))

Place(c) == <<c.current, c.as, c.tas>>

Frames == Range(stack)

(* No state of A has a transition to itself.                               *)
Loopless(a) == \A e \in a.trans : e[1] # e[3]

(* A call looks at the transitions of its own states only.                 *)
Own(c) ==
  LET all == Frame(c.current, c.as, c.tas)
  IN  c.alpha \subseteq all.alpha /\ c.epsilon \subseteq all.epsilon

OwnTurns == \A c \in Frames : Own(c)

(* imageRec answers move m of the call on top by going to q, from where it *)
(* calls itself, unless it meets a loop again.                             *)
Turn(m, q, rest) ==
  /\ pc = "rec" /\ stack # <<>> /\ UNCHANGED input
  /\ m \in Todo(top)
  /\ m \in (Letter \cup {Epsilon}) \X State(A.na) \X State(T.na)
  /\ Place(rest) = Place(top) /\ Own(rest) /\ Todo(rest) \cup {m} = Todo(top)
  /\ \/ m[1] = Epsilon /\ q = top.current /\ UNCHANGED <<trans, size>>
     \/ /\ m[1] # Epsilon
        /\ trans' = trans \cup {<<top.current, m[1], q>>}
        /\ \/ q = size /\ size' = size + 1
           \/ <<top.current, m[1], q>> \in trans /\ size' = size
           \/ q = top.current /\ size' = size /\ ~Loopless(A)
  /\ \/ Calls(q, m[2], m[3], rest)
     \/ /\ stack' = Front(stack) \o <<rest>> /\ UNCHANGED <<acc, pc>>
        /\ q = top.current /\ <<q, m[1], q>> \in trans /\ ~Loopless(A)
        /\ LoopsTogether(A, T) => <<q, m[2], m[3]>> = Place(top)

LEMMA LastFrame ==
  ASSUME IInv, stack # <<>>
  PROVE  top \in Frames /\ top \in Call(size) /\ Front(stack) \in Seq(Call(size))
<1>1. top \in Call(size) /\ Front(stack) \in Seq(Call(size))
  BY Top DEF IInv, top
<1>2. Len(stack) \in DOMAIN stack
  BY DEF IInv
<1> QED BY <1>1, <1>2 DEF top, Frames, Last, Range

LEMMA AlphaTurn ==
  ASSUME IInv, OwnTurns, NEW e \in A.trans, NEW f \in T.trans, Pick(e, f)
  PROVE  LET m == <<f[3], e[3], f[4]>>
         IN  /\ m \in Todo(top)
             /\ m \in (Letter \cup {Epsilon}) \X State(A.na) \X State(T.na)
             /\ Place(Rest(e, f)) = Place(top) /\ Own(Rest(e, f))
             /\ Todo(Rest(e, f)) \cup {m} = Todo(top)
<1> DEFINE m == <<f[3], e[3], f[4]>>
<1>1. top \in Call(size)
  BY LastFrame DEF Pick
<1>2. m \in (Letter \cup {Epsilon}) \X State(A.na) \X State(T.na)
  BY DEF IInv, IsAutomaton, IsTransducer, State
<1>3. /\ Rest(e, f).current = top.current /\ Rest(e, f).as = top.as
      /\ Rest(e, f).tas = top.tas /\ Rest(e, f).epsilon = top.epsilon
      /\ Rest(e, f).alpha = top.alpha \ {<<e, f>>}
  BY <1>1 DEF Rest, Call
<1>4. <<e, f>> \in top.alpha
  BY DEF Pick
<1>5. m \in Todo(top)
  BY <1>4 DEF Todo
<1>6. Todo(Rest(e, f)) \cup {m} = Todo(top)
  <2>1. \A p \in top.alpha : p = <<e, f>> => <<p[2][3], p[1][3], p[2][4]>> = m
    OBVIOUS
  <2> QED BY <1>3, <1>5, <2>1 DEF Todo
<1>7. Own(Rest(e, f))
  BY <1>3, LastFrame DEF Own, OwnTurns, Pick
<1> QED BY <1>2, <1>3, <1>5, <1>6, <1>7 DEF Place

LEMMA EveryTurn ==
  ASSUME IInv, OwnTurns, Erase \/ Loop \/ Emit \/ Insert
  PROVE  \E m, q, rest : Turn(m, q, rest)
<1>1. CASE Erase
  <2>1. PICK e \in A.trans, f \in T.trans :
          /\ Pick(e, f) /\ f[3] = Epsilon
          /\ Calls(top.current, e[3], f[4], Rest(e, f))
          /\ UNCHANGED <<input, trans, size>>
    BY <1>1 DEF Erase
  <2>2. Turn(<<f[3], e[3], f[4]>>, top.current, Rest(e, f))
    BY <2>1, AlphaTurn DEF Turn, Pick
  <2> QED BY <2>2
<1>2. CASE Loop
  <2>1. PICK e \in A.trans, f \in T.trans :
          /\ Pick(e, f) /\ f[3] # Epsilon /\ e[3] = top.as
          /\ trans' = trans \cup {<<top.current, f[3], top.current>>}
          /\ \/ /\ <<top.current, f[3], top.current>> \in trans
                /\ stack' = Front(stack) \o <<Rest(e, f)>> /\ UNCHANGED <<acc, pc>>
             \/ Calls(top.current, top.as, f[4], Rest(e, f))
          /\ UNCHANGED <<input, size>>
    BY <1>2 DEF Loop
  <2>2. <<e, f>> \in top.alpha /\ Own(top)
    BY <2>1, LastFrame DEF Pick, OwnTurns
  <2>3. e[1] = top.as /\ f[1] = top.tas /\ f[2] = e[2]
    BY <2>2 DEF Own, Frame
  <2>4. ~Loopless(A) /\ (LoopsTogether(A, T) => f[4] = top.tas)
    BY <2>1, <2>3 DEF Loopless, LoopsTogether
  <2>5. Turn(<<f[3], e[3], f[4]>>, top.current, Rest(e, f))
    BY <2>1, <2>4, AlphaTurn DEF Turn, Pick, Place
  <2> QED BY <2>5
<1>3. CASE Emit
  <2>1. PICK e \in A.trans, f \in T.trans :
          /\ Pick(e, f) /\ f[3] # Epsilon
          /\ trans' = trans \cup {<<top.current, f[3], size>>}
          /\ size' = size + 1
          /\ Calls(size, e[3], f[4], Rest(e, f))
          /\ UNCHANGED input
    BY <1>3 DEF Emit
  <2>2. Turn(<<f[3], e[3], f[4]>>, size, Rest(e, f))
    BY <2>1, AlphaTurn DEF Turn, Pick
  <2> QED BY <2>2
<1>4. CASE Insert
  <2> DEFINE known(f) == {e \in trans : e[1] = top.current /\ e[2] = f[3]}
             rest(f) == [top EXCEPT !.epsilon = @ \ {f}]
  <2>1. PICK f \in top.epsilon :
          \E q \in IF known(f) = {} THEN {size} ELSE {e[3] : e \in known(f)} :
            /\ trans' = trans \cup {<<top.current, f[3], q>>}
            /\ size' = IF q = size THEN size + 1 ELSE size
            /\ Calls(q, top.as, f[4], rest(f))
    BY <1>4 DEF Insert
  <2>2. PICK q \in IF known(f) = {} THEN {size} ELSE {e[3] : e \in known(f)} :
          /\ trans' = trans \cup {<<top.current, f[3], q>>}
          /\ size' = IF q = size THEN size + 1 ELSE size
          /\ Calls(q, top.as, f[4], rest(f))
    BY <2>1
  <2>3. pc = "rec" /\ stack # <<>> /\ UNCHANGED input
    BY <1>4 DEF Insert
  <2>4. top \in Call(size) /\ Own(top)
    BY <2>3, LastFrame DEF OwnTurns
  <2>5. f \in T.trans /\ f[2] = Epsilon /\ top.as \in State(A.na)
    BY <2>4 DEF Call
  <2>6. f[3] \in Letter /\ f[4] \in State(T.na) /\ f[3] # Epsilon
    BY <2>5, ImageAssumption DEF IInv, IsTransducer, State
  <2>7. /\ rest(f).current = top.current /\ rest(f).as = top.as /\ rest(f).tas = top.tas
        /\ rest(f).alpha = top.alpha /\ rest(f).epsilon = top.epsilon \ {f}
    BY <2>4 DEF Call
  <2> DEFINE m == <<f[3], top.as, f[4]>>
  <2>8. m \in Todo(top) /\ Todo(rest(f)) \cup {m} = Todo(top)
    <3>1. m \in Todo(top)
      BY DEF Todo
    <3>2. \A g \in top.epsilon : g = f => <<g[3], top.as, g[4]>> = m
      OBVIOUS
    <3> QED BY <2>7, <3>1, <3>2 DEF Todo
  <2>9. Place(rest(f)) = Place(top) /\ Own(rest(f))
    BY <2>4, <2>7 DEF Place, Own
  <2>10. q = size \/ <<top.current, f[3], q>> \in trans
    <3> SUFFICES ASSUME q # size PROVE <<top.current, f[3], q>> \in trans
      OBVIOUS
    <3>1. PICK e \in known(f) : q = e[3]
      BY <2>2
    <3>2. e \in State(size) \X Letter \X State(size)
      BY <3>1 DEF IInv, Result
    <3>3. e = <<e[1], e[2], e[3]>>
      BY <3>2
    <3> QED BY <3>1, <3>3
  <2>11. \/ q = size /\ size' = size + 1
         \/ <<top.current, f[3], q>> \in trans /\ size' = size
    BY <2>2, <2>10
  <2> HIDE DEF known, rest
  <2>12. Turn(m, q, rest(f))
    BY <2>2, <2>3, <2>5, <2>6, <2>8, <2>9, <2>11 DEF Turn
  <2> QED BY <2>12
<1> QED BY <1>1, <1>2, <1>3, <1>4

-----------------------------------------------------------------------------
(* The reference: what T reads and writes on the way through A             *)

LEMMA StepsType ==
  ASSUME IInv
  PROVE  /\ IsFiniteSet(Pairs)
         /\ \A s \in SUBSET Pairs : Erases(s) \in SUBSET Pairs
         /\ \A s \in SUBSET Pairs, b \in Letter : Writes(s, b) \in SUBSET Pairs
<1>1. IsAutomaton(A) /\ IsTransducer(T)
  BY DEF IInv
<1>2. IsFiniteSet(Pairs)
  <2>1. A.na - 1 \in Int /\ T.na - 1 \in Int /\ 0 \in Int
    BY <1>1 DEF IsAutomaton, IsTransducer
  <2>2. IsFiniteSet(State(A.na)) /\ IsFiniteSet(State(T.na))
    BY <2>1, FS_Interval DEF State
  <2> QED BY <2>2, FS_Product DEF Pairs
<1>3. \A e \in A.trans : e[3] \in State(A.na)
  BY <1>1 DEF IsAutomaton, State
<1>4. \A f \in T.trans : f[4] \in State(T.na)
  BY <1>1 DEF IsTransducer, State
<1>5. \A s \in SUBSET Pairs : Erases(s) \in SUBSET Pairs
  <2> TAKE s \in SUBSET Pairs
  <2>1. \A x \in Erases(s) : \E e \in A.trans, f \in T.trans : x = <<e[3], f[4]>>
    BY DEF Erases
  <2> QED BY <1>3, <1>4, <2>1 DEF Pairs
<1>6. \A s \in SUBSET Pairs, b \in Letter : Writes(s, b) \in SUBSET Pairs
  <2> TAKE s \in SUBSET Pairs, b \in Letter
  <2>1. \A x \in Writes(s, b) :
          \/ \E e \in A.trans, f \in T.trans : x = <<e[3], f[4]>>
          \/ \E c \in s, f \in T.trans : x = <<c[1], f[4]>>
    BY DEF Writes
  <2>2. \A c \in s : c[1] \in State(A.na)
    BY DEF Pairs
  <2> QED BY <1>3, <1>4, <2>1, <2>2 DEF Pairs
<1> QED BY <1>2, <1>5, <1>6

LEMMA SilentLeast ==
  ASSUME IInv, NEW s \in SUBSET Pairs
  PROVE  /\ Silent(s) \in SUBSET Pairs
         /\ s \subseteq Silent(s)
         /\ Erases(Silent(s)) \subseteq Silent(s)
         /\ \A C \in SUBSET Pairs : s \subseteq C /\ Erases(C) \subseteq C => Silent(s) \subseteq C
<1> DEFINE next == [r \in SUBSET Pairs |-> Erases(r)]
           Grown(grow) == grow = [r \in SUBSET Pairs |->
                                    IF r \cup Erases(r) = r THEN r ELSE grow[r \cup Erases(r)]]
           close == CHOOSE grow : Grown(grow)
<1>1. Silent(s) = close[s]
  BY DEF Silent, Pairs, State
<1>2. Monotone(Pairs, next)
  BY StepsType DEF Monotone, Erases
<1>3. \A grow : Grown(grow) <=> Closes(grow, Pairs, next)
  BY DEF Closes
<1>4. Grown(close)
  <2>1. \E grow : Grown(grow)
    BY <1>2, <1>3, ClosesExists
  <2> QED BY <2>1
<1> HIDE DEF close, Grown
<1>5. Closes(close, Pairs, next)
  BY <1>3, <1>4
<1> HIDE DEF next
<1>6. IsLeastClosed(close[s], s, Pairs, next)
  BY <1>2, <1>5, StepsType, ClosesLeast
<1>7. \A r \in SUBSET Pairs : next[r] = Erases(r)
  BY DEF next
<1> QED BY <1>1, <1>6, <1>7 DEF IsLeastClosed

(* They do not change while image runs.                                    *)
LEMMA ReferenceKept ==
  ASSUME UNCHANGED input
  PROVE  /\ A' = A /\ T' = T
         /\ \A s : Erases(s)' = Erases(s)
         /\ \A s : Silent(s)' = Silent(s)
         /\ \A s, b : Writes(s, b)' = Writes(s, b)
<1>1. A' = A /\ T' = T
  BY DEF input
<1>2. \A s : Erases(s)' = Erases(s)
  BY <1>1 DEF Erases
<1>3. \A s, b : Writes(s, b)' = Writes(s, b)
  BY <1>1 DEF Writes
<1>4. ASSUME NEW s PROVE Silent(s)' = Silent(s)
  <2> DEFINE E(a, t, x) ==
               {<<m[1][3], m[2][4]>> : m \in
                  {p \in a.trans \X t.trans :
                     <<p[1][1], p[2][1]>> \in x /\ p[2][2] = p[1][2] /\ p[2][3] = Epsilon}}
             S(a, t) ==
               LET close[x \in SUBSET ((0..a.na - 1) \X (0..t.na - 1))] ==
                     IF x \cup E(a, t, x) = x THEN x ELSE close[x \cup E(a, t, x)]
               IN  close[s]
  <2>1. Silent(s) = S(A, T)
    BY DEF Silent, Erases
  <2>2. Silent(s)' = S(A', T')
    BY DEF Silent, Erases
  <2> HIDE DEF S
  <2> QED BY <1>1, <2>1, <2>2
<1> QED BY <1>1, <1>2, <1>3, <1>4

(* A move of a call is a step of the reference, and the other way round if *)
(* no two letters form an interval.                                        *)
LEMMA MovesAreSteps ==
  ASSUME IInv, NEW s \in SUBSET Pairs, NEW c \in s, NEW m \in Moves(c[1], c[2])
  PROVE  /\ m[1] = Epsilon => <<m[2], m[3]>> \in Erases(s)
         /\ m[1] # Epsilon => m[1] \in Letter /\ <<m[2], m[3]>> \in Writes(s, m[1])
<1> DEFINE all == Frame(0, c[1], c[2])
<1>1. c = <<c[1], c[2]>>
  BY DEF Pairs
<1>2. CASE \E p \in all.alpha : m = <<p[2][3], p[1][3], p[2][4]>>
  <2>1. PICK e \in A.trans, f \in T.trans :
          /\ e[1] = c[1] /\ f[1] = c[2] /\ f[2] = e[2]
          /\ m = <<f[3], e[3], f[4]>>
    BY <1>2 DEF Frame
  <2>2. f[3] # Epsilon => f[3] \in Letter
    BY DEF IInv, IsTransducer
  <2>3. <<e, f>> \in A.trans \X T.trans /\ <<e[1], f[1]>> \in s
    BY <1>1, <2>1
  <2>4. f[3] = Epsilon => <<e[3], f[4]>> \in Erases(s)
    <3>1. <<e, f>>[1] = e /\ <<e, f>>[2] = f
      OBVIOUS
    <3> QED BY <2>1, <2>3, <3>1 DEF Erases
  <2>5. <<e[3], f[4]>> \in Writes(s, f[3])
    <3>1. <<e, f>>[1] = e /\ <<e, f>>[2] = f
      OBVIOUS
    <3> QED BY <2>1, <2>3, <3>1 DEF Writes
  <2> QED BY <2>1, <2>2, <2>4, <2>5
<1>3. CASE \E f \in all.epsilon : m = <<f[3], c[1], f[4]>>
  <2>1. PICK f \in T.trans : f[1] = c[2] /\ f[2] = Epsilon /\ m = <<f[3], c[1], f[4]>>
    BY <1>3 DEF Frame
  <2>2. f[3] \in Letter /\ f[3] # Epsilon
    BY <2>1, ImageAssumption DEF IInv, IsTransducer
  <2>3. <<c[1], f[4]>> \in Writes(s, f[3])
    <3>1. <<c, f>> \in s \X T.trans /\ <<c, f>>[1] = c /\ <<c, f>>[2] = f
      OBVIOUS
    <3> QED BY <2>1, <3>1 DEF Writes
  <2> QED BY <2>1, <2>2, <2>3
<1> QED BY <1>2, <1>3 DEF Moves, Todo, Frame

LEMMA StepsAreMoves ==
  ASSUME IInv, Adjacent = {}, NEW s \in SUBSET Pairs
  PROVE  /\ \A x \in Erases(s) :
              \E c \in s : \E m \in Moves(c[1], c[2]) : m[1] = Epsilon /\ x = <<m[2], m[3]>>
         /\ \A b \in Letter : \A x \in Writes(s, b) :
              \E c \in s : \E m \in Moves(c[1], c[2]) : m[1] = b /\ x = <<m[2], m[3]>>
<1>1. \A e : IsMin(e)
  BY DEF IsMin
<1>2. \A e \in A.trans, f \in T.trans :
        f[2] = e[2] => <<f[3], e[3], f[4]>> \in Moves(e[1], f[1])
  <2> TAKE e \in A.trans, f \in T.trans
  <2> HAVE f[2] = e[2]
  <2>1. <<e, f>> \in Frame(0, e[1], f[1]).alpha
    BY <1>1 DEF Frame
  <2> QED BY <2>1 DEF Moves, Todo
<1>3. \A c \in s, f \in T.trans :
        f[1] = c[2] /\ f[2] = Epsilon => <<f[3], c[1], f[4]>> \in Moves(c[1], c[2])
  BY DEF Moves, Todo, Frame
<1>4. ASSUME NEW e \in A.trans, NEW f \in T.trans, <<e[1], f[1]>> \in s, f[2] = e[2]
      PROVE  \E c \in s : \E m \in Moves(c[1], c[2]) : m[1] = f[3] /\ <<m[2], m[3]>> = <<e[3], f[4]>>
  BY <1>2, <1>4
<1>5. ASSUME NEW c \in s, NEW f \in T.trans, f[1] = c[2], f[2] = Epsilon
      PROVE  \E m \in Moves(c[1], c[2]) : m[1] = f[3] /\ <<m[2], m[3]>> = <<c[1], f[4]>>
  BY <1>3, <1>5
<1>6. \A x \in Erases(s) :
        \E c \in s : \E m \in Moves(c[1], c[2]) : m[1] = Epsilon /\ x = <<m[2], m[3]>>
  <2> TAKE x \in Erases(s)
  <2>1. PICK e \in A.trans, f \in T.trans :
          <<e[1], f[1]>> \in s /\ f[2] = e[2] /\ f[3] = Epsilon /\ x = <<e[3], f[4]>>
    BY DEF Erases
  <2> QED BY <2>1, <1>4
<1>7. ASSUME NEW b \in Letter, NEW x \in Writes(s, b)
      PROVE  \E c \in s : \E m \in Moves(c[1], c[2]) : m[1] = b /\ x = <<m[2], m[3]>>
  <2>1. \/ \E e \in A.trans, f \in T.trans :
             <<e[1], f[1]>> \in s /\ f[2] = e[2] /\ f[3] = b /\ x = <<e[3], f[4]>>
        \/ \E c \in s, f \in T.trans :
             f[1] = c[2] /\ f[2] = Epsilon /\ f[3] = b /\ x = <<c[1], f[4]>>
    BY DEF Writes
  <2>2. CASE \E c \in s, f \in T.trans :
               f[1] = c[2] /\ f[2] = Epsilon /\ f[3] = b /\ x = <<c[1], f[4]>>
    <3>1. PICK c \in s, f \in T.trans :
            f[1] = c[2] /\ f[2] = Epsilon /\ f[3] = b /\ x = <<c[1], f[4]>>
      BY <2>2
    <3> QED BY <3>1, <1>5
  <2>3. CASE \E e \in A.trans, f \in T.trans :
               <<e[1], f[1]>> \in s /\ f[2] = e[2] /\ f[3] = b /\ x = <<e[3], f[4]>>
    <3>1. PICK e \in A.trans, f \in T.trans :
            <<e[1], f[1]>> \in s /\ f[2] = e[2] /\ f[3] = b /\ x = <<e[3], f[4]>>
      BY <2>3
    <3> QED BY <3>1, <1>4
  <2> QED BY <2>1, <2>2, <2>3
<1> QED BY <1>6, <1>7

-----------------------------------------------------------------------------
(* The stack after a turn                                                  *)

LEMMA RangeOfJoin ==
  ASSUME NEW S, NEW s \in Seq(S), NEW t \in Seq(S)
  PROVE  Range(s \o t) = Range(s) \cup Range(t)
<1>1. /\ Len(s) \in Nat /\ Len(t) \in Nat
      /\ DOMAIN (s \o t) = 1..Len(s) + Len(t)
      /\ DOMAIN s = 1..Len(s) /\ DOMAIN t = 1..Len(t)
  OBVIOUS
<1>2. \A i \in DOMAIN s : i \in DOMAIN (s \o t) /\ (s \o t)[i] = s[i]
  BY <1>1
<1>3. \A i \in DOMAIN t : Len(s) + i \in DOMAIN (s \o t) /\ (s \o t)[Len(s) + i] = t[i]
  BY <1>1
<1>4. \A i \in DOMAIN (s \o t) :
        \/ i \in DOMAIN s
        \/ i - Len(s) \in DOMAIN t /\ i = Len(s) + (i - Len(s))
  BY <1>1
<1> DEFINE u == s \o t
<1> HIDE DEF u
<1>5. \A x \in Range(u) : x \in Range(s) \cup Range(t)
  <2> TAKE x \in Range(u)
  <2>1. PICK i \in DOMAIN u : x = u[i]
    BY DEF Range
  <2>2. CASE i \in DOMAIN s
    <3>1. u[i] = s[i]
      BY <1>2, <2>2 DEF u
    <3> QED BY <2>1, <2>2, <3>1 DEF Range
  <2>3. CASE i - Len(s) \in DOMAIN t /\ i = Len(s) + (i - Len(s))
    <3>1. u[i] = t[i - Len(s)]
      BY <1>3, <2>3 DEF u
    <3> QED BY <2>1, <2>3, <3>1 DEF Range
  <2> QED BY <1>4, <2>1, <2>2, <2>3 DEF u
<1>6. Range(s) \cup Range(t) \subseteq Range(u)
  BY <1>2, <1>3 DEF Range, u
<1> QED BY <1>5, <1>6 DEF u

LEMMA RangeOfFront ==
  ASSUME NEW S, NEW s \in Seq(S), s # <<>>
  PROVE  Front(s) \in Seq(S) /\ Range(s) = Range(Front(s)) \cup {Last(s)}
<1>1. Front(s) \in Seq(S) /\ <<Last(s)>> \in Seq(S)
  BY DEF Front, Last
<1>2. s = Front(s) \o <<Last(s)>>
  BY DEF Front, Last
<1>3. Range(s) = Range(Front(s)) \cup Range(<<Last(s)>>)
  BY <1>1, <1>2, RangeOfJoin
<1>4. Range(<<Last(s)>>) = {Last(s)}
  BY DEF Range
<1> QED BY <1>1, <1>3, <1>4

LEMMA FramesAfter ==
  ASSUME IInv, NEW m, NEW q, NEW rest, Turn(m, q, rest), pc' # "overflow"
  PROVE  /\ \A c \in Frames : c \in Frames' \/ c = top
         /\ rest \in Frames' /\ top \in Frames
         /\ \/ /\ Frames' \subseteq Frames \cup {rest, Frame(q, m[2], m[3])}
               /\ Frame(q, m[2], m[3]) \in Frames'
               /\ acc' = Accepting(q, m[2], m[3])
            \/ /\ Frames' \subseteq Frames \cup {rest}
               /\ acc' = acc
               /\ q = top.current /\ <<q, m[1], q>> \in trans /\ ~Loopless(A)
               /\ LoopsTogether(A, T) => <<q, m[2], m[3]>> = Place(top)
<1> DEFINE frame == Frame(q, m[2], m[3])
           S == {stack[i] : i \in DOMAIN stack} \cup {rest, frame}
<1>1. stack # <<>> /\ stack \in Seq(S)
  BY DEF Turn, IInv
<1>2. /\ Front(stack) \in Seq(S)
      /\ Frames = Range(Front(stack)) \cup {top}
  BY <1>1, RangeOfFront DEF Frames, top
<1>3. Range(<<rest>>) = {rest} /\ Range(<<rest, frame>>) = {rest, frame}
  BY DEF Range
<1>4. /\ Range(Front(stack) \o <<rest>>) = Range(Front(stack)) \cup {rest}
      /\ Range(Front(stack) \o <<rest, frame>>) = Range(Front(stack)) \cup {rest, frame}
  <2>1. rest \in S /\ frame \in S
    OBVIOUS
  <2> HIDE DEF S, frame
  <2>2. <<rest>> \in Seq(S) /\ <<rest, frame>> \in Seq(S)
    BY <2>1
  <2>3. Range(Front(stack) \o <<rest>>) = Range(Front(stack)) \cup Range(<<rest>>)
    BY <1>2, <2>2, RangeOfJoin
  <2>4. Range(Front(stack) \o <<rest, frame>>) = Range(Front(stack)) \cup Range(<<rest, frame>>)
    BY <1>2, <2>2, RangeOfJoin
  <2> QED BY <1>3, <2>3, <2>4
<1> HIDE DEF S
<1>5. CASE Calls(q, m[2], m[3], rest)
  <2>1. stack' = Front(stack) \o <<rest, frame>> /\ acc' = Accepting(q, m[2], m[3])
    BY <1>5 DEF Calls
  <2>2. Frames' = Range(Front(stack)) \cup {rest, frame}
    BY <1>4, <2>1 DEF Frames
  <2> QED BY <1>2, <2>1, <2>2
<1>6. CASE /\ stack' = Front(stack) \o <<rest>> /\ UNCHANGED <<acc, pc>>
           /\ q = top.current /\ <<q, m[1], q>> \in trans /\ ~Loopless(A)
           /\ LoopsTogether(A, T) => <<q, m[2], m[3]>> = Place(top)
  <2>1. Frames' = Range(Front(stack)) \cup {rest}
    BY <1>4, <1>6 DEF Frames
  <2> QED BY <1>2, <1>6, <2>1
<1> QED BY <1>5, <1>6 DEF Turn

(* The other steps.                                                        *)
LEMMA InputKept == [Next]_vars => UNCHANGED input
BY DEF Next, Erase, Loop, Emit, Insert, Leave, Return, Stopped, vars

LEMMA QuietFrames ==
  ASSUME IInv, Leave \/ Return \/ Stopped \/ UNCHANGED vars
  PROVE  /\ UNCHANGED input /\ Frames' \subseteq Frames
         /\ \A c \in Frames : c \in Frames' \/ Todo(c) = {}
<1>1. CASE Leave
  <2>1. stack # <<>> /\ top.alpha = {} /\ top.epsilon = {} /\ stack' = Front(stack)
    BY <1>1 DEF Leave
  <2>2. Range(stack) = Range(Front(stack)) \cup {top}
    BY <2>1, RangeOfFront DEF IInv, top
  <2>3. Todo(top) = {}
    BY <2>1 DEF Todo
  <2> QED BY <1>1, <2>1, <2>2, <2>3 DEF Leave, Frames
<1>2. CASE Return \/ Stopped \/ UNCHANGED vars
  BY <1>2 DEF Return, Stopped, vars, Frames
<1> QED BY <1>1, <1>2

(* Every call in the stack stays at its transitions.                       *)
LEMMA OwnTurnsKept ==
  ASSUME IInv, OwnTurns, NEW m, NEW q, NEW rest, Turn(m, q, rest)
  PROVE  OwnTurns'
<1>1. A' = A /\ T' = T
  BY DEF Turn, input
<1>2. \A c : Own(c)' <=> Own(c)
  BY <1>1 DEF Own, Frame, IsMin
<1>3. Own(rest) /\ Own(Frame(q, m[2], m[3]))
  BY DEF Turn, Own, Frame
<1>4. Frames' \subseteq Frames \cup {rest, Frame(q, m[2], m[3])}
  <2>1. CASE pc' # "overflow"
    BY <2>1, FramesAfter
  <2>2. CASE pc' = "overflow"
    BY <2>2 DEF Turn, Calls, Frames
  <2> QED BY <2>1, <2>2
<1>5. \A c \in Frames' : Own(c)
  BY <1>3, <1>4 DEF OwnTurns
<1> QED BY <1>2, <1>5 DEF OwnTurns

-----------------------------------------------------------------------------
(* Soundness.  If A has no loop, the result is a tree, and a label can be  *)
(* put on each of its states: the pairs of states A and T are in after the *)
(* word that leads to it.                                                  *)

Labelling(img) ==
  /\ img \in [State(size) -> SUBSET Pairs]
  /\ img[0] = Silent({<<0, 0>>})
  /\ \A e \in trans : img[e[3]] = Silent(Writes(img[e[1]], e[2]))
  /\ \A c \in Frames : <<c.as, c.tas>> \in img[c.current]
  /\ \A q \in acc : img[q] \cap (A.acc \X T.acc) # {}

Labelled == pc # "overflow" => \E img : Labelling(img)

LEMMA LabelsAtFirst == Init => OwnTurns /\ Labelled
<1> SUFFICES ASSUME Init PROVE OwnTurns /\ Labelled
  OBVIOUS
<1>1. IInv
  BY Initially
<1>2. Frames = {Frame(0, 0, 0)}
  BY DEF Init, Frames, Range
<1>3. OwnTurns
  BY <1>2 DEF OwnTurns, Own, Frame
<1>4. <<0, 0>> \in Pairs
  BY <1>1 DEF IInv, IsAutomaton, IsTransducer, Pairs, State
<1> DEFINE start == Silent({<<0, 0>>})
           img == [q \in State(size) |-> start]
<1>5. start \in SUBSET Pairs /\ <<0, 0>> \in start
  BY <1>1, <1>4, SilentLeast
<1> HIDE DEF start
<1>6. img \in [State(size) -> SUBSET Pairs] /\ 0 \in State(size) /\ img[0] = start
  BY <1>5 DEF Init, State
<1>7. \A c \in Frames : <<c.as, c.tas>> \in img[c.current]
  BY <1>2, <1>5, <1>6 DEF Frame
<1>8. \A q \in acc : img[q] \cap (A.acc \X T.acc) # {}
  <2> TAKE q \in acc
  <2>1. q = 0 /\ <<0, 0>> \in A.acc \X T.acc
    BY DEF Init
  <2> QED BY <2>1, <1>5, <1>6
<1>9. trans = {}
  BY DEF Init
<1> HIDE DEF img
<1>10. Labelling(img)
  BY <1>6, <1>7, <1>8, <1>9 DEF Labelling, start
<1> QED BY <1>3, <1>10 DEF Labelled

(* A turn keeps the labels, and gives a new state its own.                 *)
LEMMA TurnLabels ==
  ASSUME IInv, OwnTurns, Loopless(A), NEW m, NEW q, NEW rest, Turn(m, q, rest),
         pc' # "overflow", NEW img, Labelling(img)
  PROVE  \E new : Labelling(new)'
<1>1. /\ top \in Frames /\ top \in Call(size) /\ Own(top)
      /\ top.current \in State(size) /\ top.as \in State(A.na) /\ top.tas \in State(T.na)
  <2>1. top \in Frames /\ top \in Call(size)
    BY LastFrame DEF Turn
  <2> QED BY <2>1 DEF OwnTurns, Call
<1> DEFINE pair == <<top.as, top.tas>>
           next == <<m[2], m[3]>>
           label == img[top.current]
<1>2. label \in SUBSET Pairs /\ pair \in label /\ next \in Pairs
  BY <1>1 DEF Labelling, Turn, Pairs
<1>3. m \in Moves(pair[1], pair[2])
  BY <1>1 DEF Own, Turn, Moves, Todo, Frame
<1>4. /\ m[1] = Epsilon => next \in Erases(label)
      /\ m[1] # Epsilon => m[1] \in Letter /\ next \in Writes(label, m[1])
  BY <1>2, <1>3, MovesAreSteps
<1> DEFINE target == Silent(Writes(label, m[1]))
<1>5. /\ size \in Nat /\ 0 \in State(size) /\ size' \in Nat
      /\ trans \subseteq State(size) \X Letter \X State(size) /\ acc \subseteq State(size)
      /\ \/ size' = size /\ State(size') = State(size) /\ q \in State(size)
         \/ size' = size + 1 /\ q = size /\ State(size') = State(size) \cup {q} /\ q \notin State(size)
            /\ m[1] # Epsilon
  <2>1. size \in Nat \ {0} /\ trans \subseteq State(size) \X Letter \X State(size) /\ acc \subseteq State(size)
    BY DEF IInv, Result
  <2>2. size' = size => q \in State(size)
    <3>1. q = top.current \/ q = size \/ <<top.current, m[1], q>> \in trans
      BY DEF Turn
    <3>2. q = size => size' = size + 1
      <4>1. top.current # size
        BY <1>1, <2>1 DEF State
      <4>2. <<top.current, m[1], size>> \notin trans
        BY <2>1 DEF State
      <4> QED BY <4>1, <4>2 DEF Turn
    <3> QED BY <1>1, <2>1, <3>1, <3>2
  <2>3. \/ size' = size
        \/ size' = size + 1 /\ q = size /\ m[1] # Epsilon
    BY DEF Turn
  <2>4. State(size + 1) = State(size) \cup {size} /\ size \notin State(size) /\ 0 \in State(size)
    BY <2>1 DEF State
  <2> QED BY <2>1, <2>2, <2>3, <2>4
<1>6. m[1] # Epsilon => target \in SUBSET Pairs /\ next \in target
  <2> SUFFICES ASSUME m[1] # Epsilon PROVE target \in SUBSET Pairs /\ next \in target
    OBVIOUS
  <2>1. Writes(label, m[1]) \in SUBSET Pairs
    BY <1>2, <1>4, StepsType
  <2> QED BY <1>4, <2>1, SilentLeast
<1>7. PICK new : new = [r \in State(size') |-> IF r \in State(size) THEN img[r] ELSE target]
  OBVIOUS
<1> HIDE DEF target
<1>8. /\ new \in [State(size') -> SUBSET Pairs]
      /\ \A r \in State(size) : r \in State(size') /\ new[r] = img[r]
      /\ q \in State(size')
      /\ q \notin State(size) => new[q] = target
  BY <1>5, <1>6, <1>7 DEF Labelling
<1>9. m[1] # Epsilon => new[q] = target
  <2> SUFFICES ASSUME m[1] # Epsilon, q \in State(size) PROVE new[q] = target
    BY <1>8
  <2>1. <<top.current, m[1], q>> \in trans
    BY <1>5 DEF Turn
  <2>2. <<top.current, m[1], q>>[1] = top.current /\ <<top.current, m[1], q>>[2] = m[1]
        /\ <<top.current, m[1], q>>[3] = q
    OBVIOUS
  <2> QED BY <1>8, <2>1, <2>2 DEF Labelling, target
<1>10. next \in new[q]
  <2>1. CASE m[1] = Epsilon
    <3>1. q = top.current
      BY <2>1 DEF Turn
    <3>2. \E s \in SUBSET Pairs : label = Silent(s)
      <4>1. CASE top.current = 0
        <5>1. {<<0, 0>>} \in SUBSET Pairs
          BY DEF IInv, IsAutomaton, IsTransducer, Pairs, State
        <5> QED BY <4>1, <5>1 DEF Labelling
      <4>2. CASE top.current # 0
        <5>1. PICK e \in trans : e[3] = top.current
          <6>1. top.current \in 1..size - 1
            BY <1>1, <1>5, <4>2 DEF State
          <6> QED BY <6>1 DEF IInv, Result
        <5>2. e[1] \in State(size) /\ e[2] \in Letter
          BY <1>5
        <5>3. Writes(img[e[1]], e[2]) \in SUBSET Pairs
          <6>1. img[e[1]] \in SUBSET Pairs
            BY <5>2 DEF Labelling
          <6> QED BY <5>2, <6>1, StepsType
        <5>4. label = Silent(Writes(img[e[1]], e[2]))
          BY <5>1 DEF Labelling
        <5> QED BY <5>3, <5>4
      <4> QED BY <4>1, <4>2
    <3>3. Erases(label) \subseteq label
      BY <3>2, SilentLeast
    <3> QED BY <1>1, <1>4, <1>8, <2>1, <3>1, <3>3
  <2>2. CASE m[1] # Epsilon
    BY <1>6, <1>9, <2>2
  <2> QED BY <2>1, <2>2
<1>11. /\ new[0] = Silent({<<0, 0>>})
       /\ \A e \in trans' : new[e[3]] = Silent(Writes(new[e[1]], e[2]))
  <2>1. new[0] = Silent({<<0, 0>>})
    BY <1>5, <1>8 DEF Labelling
  <2>2. ASSUME NEW e \in trans PROVE new[e[3]] = Silent(Writes(new[e[1]], e[2]))
    <3>1. e[1] \in State(size) /\ e[3] \in State(size)
      BY <1>5
    <3>2. img[e[3]] = Silent(Writes(img[e[1]], e[2]))
      BY DEF Labelling
    <3> QED BY <1>8, <3>1, <3>2
  <2>3. ASSUME m[1] # Epsilon, NEW e, e = <<top.current, m[1], q>>
        PROVE  new[e[3]] = Silent(Writes(new[e[1]], e[2]))
    <3>1. e[1] = top.current /\ e[2] = m[1] /\ e[3] = q
      BY <2>3
    <3> QED BY <1>1, <1>8, <1>9, <2>3, <3>1 DEF target
  <2>4. \/ trans' = trans
        \/ m[1] # Epsilon /\ trans' = trans \cup {<<top.current, m[1], q>>}
    BY DEF Turn
  <2> QED BY <2>1, <2>2, <2>3, <2>4
<1>12. \A c \in Frames' : <<c.as, c.tas>> \in new[c.current]
  <2>1. ASSUME NEW c \in Frames PROVE <<c.as, c.tas>> \in new[c.current]
    <3>1. c \in Call(size)
      BY DEF Frames, Range, IInv
    <3>2. c.current \in State(size)
      BY <3>1 DEF Call
    <3> QED BY <1>8, <3>2 DEF Labelling
  <2>2. rest.current = top.current /\ rest.as = top.as /\ rest.tas = top.tas
    BY DEF Turn, Place
  <2>3. /\ Frame(q, m[2], m[3]).current = q
        /\ Frame(q, m[2], m[3]).as = m[2] /\ Frame(q, m[2], m[3]).tas = m[3]
    BY DEF Frame
  <2>4. Frames' \subseteq Frames \cup {rest, Frame(q, m[2], m[3])}
    BY FramesAfter
  <2> HIDE DEF next
  <2>5. \A c \in Frames' :
          \/ c \in Frames
          \/ c.current = top.current /\ c.as = top.as /\ c.tas = top.tas
          \/ c.current = q /\ c.as = m[2] /\ c.tas = m[3]
    BY <2>2, <2>3, <2>4
  <2> QED BY <1>1, <1>10, <2>1, <2>5 DEF next
<1>13. \A r \in acc' : new[r] \cap (A.acc \X T.acc) # {}
  <2>1. \A r \in acc : new[r] \cap (A.acc \X T.acc) # {}
    <3> TAKE r \in acc
    <3>1. r \in State(size)
      BY <1>5
    <3>2. img[r] \cap (A.acc \X T.acc) # {}
      BY DEF Labelling
    <3> QED BY <1>8, <3>1, <3>2
  <2>2. \A r \in acc' : r \in acc \/ (r = q /\ next \in A.acc \X T.acc)
    <3>1. acc' = acc \/ acc' = Accepting(q, m[2], m[3])
      BY FramesAfter
    <3> QED BY <3>1 DEF Accepting
  <2> QED BY <1>10, <2>1, <2>2
<1>14. UNCHANGED input
  BY DEF Turn
<1>15. Pairs' = Pairs /\ State(size)' = State(size') /\ (A.acc \X T.acc)' = A.acc \X T.acc
  BY <1>14 DEF input, Pairs, State
<1>16. Labelling(new)'
  <2>1. new[0] = Silent({<<0, 0>>})'
    BY <1>11, <1>14, ReferenceKept
  <2>2. \A e \in trans' : new[e[3]] = Silent(Writes(new[e[1]], e[2]))'
    <3> TAKE e \in trans'
    <3>1. Writes(new[e[1]], e[2])' = Writes(new[e[1]], e[2])
      BY <1>14, ReferenceKept
    <3>2. Silent(Writes(new[e[1]], e[2]))' = Silent(Writes(new[e[1]], e[2]))
      BY <1>14, <3>1, ReferenceKept
    <3> QED BY <1>11, <3>2
  <2> QED BY <1>8, <1>12, <1>13, <1>15, <2>1, <2>2 DEF Labelling
<1> QED BY <1>16

-----------------------------------------------------------------------------
(* The states after each letter of a word                                  *)

LEMMA ReachStates ==
  ASSUME IInv, NEW v \in Seq(Letter)
  PROVE  \E r : /\ \A i \in 0..Len(v) : r[i] \in SUBSET State(size)
                /\ r[0] = {0}
                /\ \A i \in 1..Len(v) : r[i] = After(r[i - 1], v[i])
                /\ Reach(v) = r[Len(v)]
<1> DEFINE V == SUBSET State(size)
           next == [i \in 1..Len(v) |-> [s \in V |-> After(s, v[i])]]
           IsRun(r) == r = [i \in 0..Len(v) |-> IF i = 0 THEN {0} ELSE After(r[i - 1], v[i])]
           run == CHOOSE r : IsRun(r)
<1>1. Len(v) \in Nat /\ {0} \in V
  BY DEF IInv, Result, State
<1>2. \A s, b : After(s, b) \in V
  BY DEF After, IInv, Result
<1>3. next \in [1..Len(v) -> [V -> V]]
  BY <1>2
<1> HIDE DEF V, next
<1>4. PICK r : IteratesUpto(r, Len(v), V, {0}, next)
  BY <1>1, <1>3, BoundedIteration
<1>5. \A i \in 1..Len(v) : r[i] = After(r[i - 1], v[i])
  <2> TAKE i \in 1..Len(v)
  <2>1. i - 1 \in 0..Len(v)
    BY <1>1
  <2>2. r[i - 1] \in V /\ r[i] = next[i][r[i - 1]]
    BY <1>4, <2>1 DEF IteratesUpto
  <2> QED BY <2>2 DEF next
<1>6. IsRun(r)
  BY <1>1, <1>4, <1>5 DEF IteratesUpto
<1>7. IsRun(run)
  BY <1>6
<1>8. Reach(v) = run[Len(v)]
  BY DEF Reach
<1> HIDE DEF run
<1>9. \A i \in 0..Len(v) : run[i] = IF i = 0 THEN {0} ELSE After(run[i - 1], v[i])
  BY <1>7
<1>10. run[0] = {0}
  BY <1>1, <1>9
<1>11. \A i \in 1..Len(v) : run[i] = After(run[i - 1], v[i])
  BY <1>1, <1>9
<1>12. \A i \in 0..Len(v) : run[i] \in V
  <2>1. run[0] \in V /\ \A i \in 1..Len(v) : run[i] \in V
    BY <1>1, <1>2, <1>10, <1>11
  <2> QED BY <1>1, <2>1, StaysWithin
<1> QED BY <1>8, <1>10, <1>11, <1>12 DEF V

LEMMA ImageReachStates ==
  ASSUME IInv, NEW v \in Seq(Letter)
  PROVE  \E r : /\ \A i \in 0..Len(v) : r[i] \in SUBSET Pairs
                /\ r[0] = Silent({<<0, 0>>})
                /\ \A i \in 1..Len(v) : r[i] = Silent(Writes(r[i - 1], v[i]))
                /\ ImageReach(v) = r[Len(v)]
<1> DEFINE V == SUBSET Pairs
           first == Silent({<<0, 0>>})
           Step(s, b) == Silent(Writes(s, b))
           next == [i \in 1..Len(v) |-> [s \in V |-> Step(s, v[i])]]
           IsRun(r) == r = [i \in 0..Len(v) |-> IF i = 0 THEN first ELSE Step(r[i - 1], v[i])]
           run == CHOOSE r : IsRun(r)
<1>1. Len(v) \in Nat /\ first \in V
  <2>1. <<0, 0>> \in Pairs
    BY DEF IInv, IsAutomaton, IsTransducer, Pairs, State
  <2> QED BY <2>1, SilentLeast
<1>2. \A s \in V, b \in Letter : Step(s, b) \in V
  <2> TAKE s \in V, b \in Letter
  <2>1. Writes(s, b) \in V
    BY StepsType
  <2> QED BY <2>1, SilentLeast
<1>3. ImageReach(v) = run[Len(v)]
  BY DEF ImageReach
<1> HIDE DEF V, Step, first
<1>4. next \in [1..Len(v) -> [V -> V]]
  BY <1>2
<1> HIDE DEF next
<1>5. PICK r : IteratesUpto(r, Len(v), V, first, next)
  BY <1>1, <1>4, BoundedIteration
<1>6. \A i \in 1..Len(v) : r[i] = Step(r[i - 1], v[i])
  <2> TAKE i \in 1..Len(v)
  <2>1. i - 1 \in 0..Len(v)
    BY <1>1
  <2>2. r[i - 1] \in V /\ r[i] = next[i][r[i - 1]]
    BY <1>5, <2>1 DEF IteratesUpto
  <2> QED BY <2>2 DEF next
<1>7. IsRun(r)
  BY <1>1, <1>5, <1>6 DEF IteratesUpto
<1>8. IsRun(run)
  BY <1>7
<1> HIDE DEF run
<1>9. \A i \in 0..Len(v) : run[i] = IF i = 0 THEN first ELSE Step(run[i - 1], v[i])
  BY <1>8
<1>10. run[0] = first
  BY <1>1, <1>9
<1>11. \A i \in 1..Len(v) : run[i] = Step(run[i - 1], v[i])
  BY <1>1, <1>9
<1>12. \A i \in 0..Len(v) : run[i] \in V
  <2>1. \A i \in 1..Len(v) : run[i - 1] \in V => run[i] \in V
    <3> TAKE i \in 1..Len(v)
    <3>1. v[i] \in Letter
      OBVIOUS
    <3> QED BY <1>2, <1>11, <3>1
  <2> QED BY <1>1, <1>10, <2>1, StaysWithin
<1> QED BY <1>3, <1>10, <1>11, <1>12 DEF V, first, Step

-----------------------------------------------------------------------------
(* The words of the result are in the image                                *)

LEMMA LabelsRead ==
  ASSUME IInv, NEW img, Labelling(img), NEW v \in Seq(Letter)
  PROVE  \A q \in Reach(v) : q \in State(size) /\ img[q] = ImageReach(v)
<1>1. PICK r : /\ \A i \in 0..Len(v) : r[i] \in SUBSET State(size)
               /\ r[0] = {0}
               /\ \A i \in 1..Len(v) : r[i] = After(r[i - 1], v[i])
               /\ Reach(v) = r[Len(v)]
  BY ReachStates
<1>2. PICK s : /\ \A i \in 0..Len(v) : s[i] \in SUBSET Pairs
               /\ s[0] = Silent({<<0, 0>>})
               /\ \A i \in 1..Len(v) : s[i] = Silent(Writes(s[i - 1], v[i]))
               /\ ImageReach(v) = s[Len(v)]
  BY ImageReachStates
<1>3. Len(v) \in Nat
  OBVIOUS
<1> DEFINE K == {i \in 0..Len(v) : \A q \in r[i] : img[q] = s[i]}
<1>4. 0 \in K
  BY <1>1, <1>2, <1>3 DEF Labelling
<1>5. ASSUME NEW i \in 0..Len(v) - 1, i \in K PROVE i + 1 \in K
  <2>1. i + 1 \in 1..Len(v) /\ i + 1 \in 0..Len(v) /\ (i + 1) - 1 = i
    BY <1>3
  <2>2. r[i + 1] = After(r[i], v[i + 1]) /\ s[i + 1] = Silent(Writes(s[i], v[i + 1]))
    BY <1>1, <1>2, <2>1
  <2>3. \A q \in r[i] : img[q] = s[i]
    BY <1>5
  <2>4. ASSUME NEW q \in r[i + 1] PROVE img[q] = s[i + 1]
    <3>1. PICK e \in trans : e[1] \in r[i] /\ e[2] = v[i + 1] /\ e[3] = q
      BY <2>2 DEF After
    <3>2. img[q] = Silent(Writes(img[e[1]], v[i + 1])) /\ img[e[1]] = s[i]
      BY <2>3, <3>1 DEF Labelling
    <3> QED BY <2>2, <3>2
  <2> QED BY <2>1, <2>4
<1> HIDE DEF K
<1>6. 0..Len(v) \subseteq K
  BY <1>3, <1>4, <1>5, IntervalInduction
<1>7. Len(v) \in K /\ Len(v) \in 0..Len(v)
  BY <1>3, <1>6
<1> QED BY <1>1, <1>2, <1>7 DEF K

LEMMA WordsAreSequences ==
  \A v \in WordsUpTo(MaxLength) : v \in Seq(Letter)
BY ImageAssumption DEF WordsUpTo

(* If no automaton has a transition from a state to itself, which is so of *)
(* those of finite languages, image returns no word outside the image,     *)
(* whatever the transducer and the order of the transitions.  image_loop   *)
(* shows that a loop may be merged wrongly.                                *)
THEOREM FiniteImageSound ==
  ASSUME \A x \in Inputs : Loopless(x[1])
  PROVE  Spec => []ImageSound
<1> DEFINE Inv == IInv /\ OwnTurns /\ Labelled /\ Loopless(A)
<1>1. Init => Inv
  BY Initially, LabelsAtFirst DEF Init
<1>2. Inv /\ [Next]_vars => Inv'
  <2> SUFFICES ASSUME Inv, [Next]_vars PROVE Inv'
    OBVIOUS
  <2>1. IInv'
    BY StepKeeps
  <2>2. Loopless(A)'
    BY InputKept DEF input, Loopless
  <2>3. CASE Erase \/ Loop \/ Emit \/ Insert
    <3>1. PICK m, q, rest : Turn(m, q, rest)
      BY <2>3, EveryTurn
    <3>2. OwnTurns'
      BY <3>1, OwnTurnsKept
    <3>3. ASSUME pc' # "overflow" PROVE \E img : Labelling(img)'
      <4>1. pc # "overflow"
        BY <3>1 DEF Turn
      <4>2. PICK img : Labelling(img)
        BY <4>1 DEF Labelled
      <4> QED BY <3>1, <3>3, <4>2, TurnLabels
    <3>4. Labelled'
      BY <3>3 DEF Labelled
    <3> QED BY <2>1, <2>2, <3>2, <3>4
  <2>4. CASE Leave \/ Return \/ Stopped \/ UNCHANGED vars
    <3>1. UNCHANGED input /\ Frames' \subseteq Frames
      BY <2>4, QuietFrames
    <3>2. OwnTurns'
      <4>1. \A c : Own(c)' <=> Own(c)
        BY <3>1 DEF input, Own, Frame, IsMin
      <4> QED BY <3>1, <4>1 DEF OwnTurns
    <3>3. UNCHANGED <<trans, acc, size>> /\ (pc' # "overflow" => pc # "overflow")
      BY <2>4 DEF Leave, Return, Stopped, vars
    <3>4. ASSUME NEW img, Labelling(img) PROVE Labelling(img)'
      <4>1. Pairs' = Pairs /\ State(size)' = State(size)
        BY <3>1, <3>3 DEF input, Pairs, State
      <4>2. img[0] = Silent({<<0, 0>>})'
        BY <3>1, <3>4, ReferenceKept DEF Labelling
      <4>3. \A e \in trans : img[e[3]] = Silent(Writes(img[e[1]], e[2]))'
        <5> TAKE e \in trans
        <5>1. Writes(img[e[1]], e[2])' = Writes(img[e[1]], e[2])
          BY <3>1, ReferenceKept
        <5>2. Silent(Writes(img[e[1]], e[2]))' = Silent(Writes(img[e[1]], e[2]))
          BY <3>1, <5>1, ReferenceKept
        <5> QED BY <3>4, <5>2 DEF Labelling
      <4> QED BY <3>1, <3>3, <3>4, <4>1, <4>2, <4>3 DEF Labelling, input
    <3>5. Labelled'
      BY <3>3, <3>4 DEF Labelled
    <3> QED BY <2>1, <2>2, <3>2, <3>5
  <2> QED BY <2>3, <2>4 DEF Next
<1>3. Inv => ImageSound
  <2> SUFFICES ASSUME Inv, pc = "done", NEW v \in WordsUpTo(MaxLength), InResult(v)
               PROVE  InImage(v)
    BY DEF ImageSound
  <2>1. PICK img : Labelling(img)
    BY DEF Labelled
  <2>2. PICK q \in acc : q \in Reach(v)
    BY DEF InResult
  <2>3. img[q] = ImageReach(v)
    BY <2>1, <2>2, LabelsRead, WordsAreSequences
  <2> QED BY <2>1, <2>2, <2>3 DEF Labelling, InImage
<1> QED BY <1>1, <1>2, <1>3, PTL DEF Spec

-----------------------------------------------------------------------------
(* Completeness.  R collects the calls made so far.  Each move possible at *)
(* one of them has been answered or waits in a call of the same place.     *)

Accepts(as, tas) == as \in A.acc /\ tas \in T.acc

Answered(R, c, m) ==
  IF m[1] = Epsilon THEN <<c[1], m[2], m[3]>> \in R
  ELSE \E q \in State(size) : <<c[1], m[1], q>> \in trans /\ <<q, m[2], m[3]>> \in R

Waits(c, m) == \E d \in Frames : Place(d) = c /\ m \in Todo(d)

Calling(R) ==
  /\ R \subseteq State(size) \X State(A.na) \X State(T.na)
  /\ <<0, 0, 0>> \in R
  /\ \A d \in Frames : Place(d) \in R
  /\ \A c \in R : \A m \in Moves(c[2], c[3]) : Answered(R, c, m) \/ Waits(c, m)
  /\ \A c \in R : Accepts(c[2], c[3]) => c[1] \in acc

Followed == pc # "overflow" => \E R : Calling(R)

LEMMA FollowedAtFirst == Init => Followed
<1> SUFFICES ASSUME Init PROVE Calling({<<0, 0, 0>>})
  BY DEF Followed
<1>1. IInv
  BY Initially
<1>2. Frames = {Frame(0, 0, 0)}
  BY DEF Init, Frames, Range
<1>3. <<0, 0, 0>> \in State(size) \X State(A.na) \X State(T.na)
  BY <1>1 DEF Init, IInv, IsAutomaton, IsTransducer, State
<1>4. Place(Frame(0, 0, 0)) = <<0, 0, 0>>
  BY DEF Place, Frame
<1>5. \A m \in Moves(0, 0) : Waits(<<0, 0, 0>>, m)
  BY <1>2, <1>4 DEF Waits, Moves
<1>6. Accepts(0, 0) => 0 \in acc
  BY DEF Accepts, Init
<1> QED BY <1>2, <1>3, <1>4, <1>5, <1>6 DEF Calling

LEMMA TurnFollows ==
  ASSUME IInv, OwnTurns, LoopsTogether(A, T), NEW m, NEW q, NEW rest, Turn(m, q, rest),
         pc' # "overflow", NEW R, Calling(R)
  PROVE  \E S : Calling(S)'
<1>1. PICK call : call = <<q, m[2], m[3]>>
  OBVIOUS
<1>2. PICK S : S = R \cup {call}
  OBVIOUS
<1>3. /\ size \in Nat /\ size' \in Nat /\ State(size) \subseteq State(size')
      /\ q \in State(size') /\ trans \subseteq trans'
      /\ m[1] # Epsilon => <<top.current, m[1], q>> \in trans'
  <2>1. size \in Nat \ {0} /\ trans \subseteq State(size) \X Letter \X State(size)
    BY DEF IInv, Result
  <2>2. top.current \in State(size)
    BY LastFrame DEF Turn, Call
  <2>3. q \in State(size) \/ (q = size /\ size' = size + 1)
    BY <2>1, <2>2 DEF Turn
  <2>4. size' = size \/ size' = size + 1
    BY DEF Turn
  <2>5. State(size) \subseteq State(size + 1) /\ size \in State(size + 1)
    BY <2>1 DEF State
  <2>6. trans \subseteq trans' /\ (m[1] # Epsilon => <<top.current, m[1], q>> \in trans')
    BY DEF Turn
  <2>7. q \in State(size')
    <3>1. CASE size' = size + 1
      BY <2>3, <2>5, <3>1
    <3>2. CASE size' = size
      <4>1. size + 1 # size
        BY <2>1
      <4> QED BY <2>3, <3>2, <4>1
    <3> QED BY <2>4, <3>1, <3>2
  <2> QED BY <2>1, <2>4, <2>5, <2>6, <2>7
<1>4. call \in State(size') \X State(A.na) \X State(T.na)
  BY <1>1, <1>3 DEF Turn
<1>5. S \subseteq State(size') \X State(A.na) \X State(T.na) /\ <<0, 0, 0>> \in S
  BY <1>2, <1>3, <1>4 DEF Calling
<1>6. /\ rest \in Frames' /\ top \in Frames
      /\ \A d \in Frames : d \in Frames' \/ d = top
      /\ Place(rest) = Place(top) /\ Todo(rest) \cup {m} = Todo(top)
  BY FramesAfter DEF Turn
<1>7. Place(Frame(q, m[2], m[3])) = call
  BY <1>1 DEF Place, Frame
<1>8. \/ /\ Frames' \subseteq Frames \cup {rest, Frame(q, m[2], m[3])}
         /\ Frame(q, m[2], m[3]) \in Frames'
         /\ acc' = Accepting(q, m[2], m[3])
      \/ /\ Frames' \subseteq Frames \cup {rest}
         /\ acc' = acc
         /\ call \in R
  <2>1. Place(top) \in R
    BY <1>6 DEF Calling
  <2> QED BY <1>1, <2>1, FramesAfter
<1>9. \A d \in Frames' : Place(d) \in S
  <2>1. \A d \in Frames \cup {rest, Frame(q, m[2], m[3])} : Place(d) \in S
    BY <1>2, <1>6, <1>7 DEF Calling
  <2> QED BY <1>8, <2>1
(* The move of the call on top is answered, and those of the others wait   *)
(* as before.                                                              *)
<1> DEFINE Said(c, n) ==
             IF n[1] = Epsilon THEN <<c[1], n[2], n[3]>> \in S
             ELSE \E r \in State(size') : <<c[1], n[1], r>> \in trans' /\ <<r, n[2], n[3]>> \in S
           Awaits(c, n) == \E d \in Frames' : Place(d) = c /\ n \in Todo(d)
<1>10. Said(Place(top), m)
  <2>1. Place(top)[1] = top.current
    BY DEF Place
  <2>2. CASE m[1] = Epsilon
    BY <1>1, <1>2, <2>1, <2>2 DEF Turn
  <2>3. CASE m[1] # Epsilon
    <3>1. q \in State(size') /\ <<Place(top)[1], m[1], q>> \in trans' /\ <<q, m[2], m[3]>> \in S
      BY <1>1, <1>2, <1>3, <2>1, <2>3
    <3> QED BY <2>3, <3>1
  <2> QED BY <2>2, <2>3
<1>11. \A c \in R : \A n \in Moves(c[2], c[3]) : Said(c, n) \/ Awaits(c, n)
  <2> SUFFICES ASSUME NEW c \in R, NEW n \in Moves(c[2], c[3]) PROVE Said(c, n) \/ Awaits(c, n)
    OBVIOUS
  <2>1. CASE Answered(R, c, n)
    <3>1. CASE n[1] = Epsilon
      BY <1>2, <2>1, <3>1 DEF Answered
    <3>2. CASE n[1] # Epsilon
      BY <1>2, <1>3, <2>1, <3>2 DEF Answered
    <3> QED BY <3>1, <3>2
  <2>2. CASE Waits(c, n)
    <3>1. PICK d \in Frames : Place(d) = c /\ n \in Todo(d)
      BY <2>2 DEF Waits
    <3>2. CASE d \in Frames'
      BY <3>1, <3>2
    <3>3. CASE d = top /\ n = m
      BY <1>10, <3>1, <3>3
    <3>4. CASE d = top /\ n # m
      <4>1. Place(rest) = c /\ n \in Todo(rest)
        BY <1>6, <3>1, <3>4
      <4> QED BY <1>6, <4>1
    <3> QED BY <1>6, <3>2, <3>3, <3>4
  <2>3. Answered(R, c, n) \/ Waits(c, n)
    BY DEF Calling
  <2> QED BY <2>1, <2>2, <2>3
<1>12. \A c \in S : \A n \in Moves(c[2], c[3]) : Said(c, n) \/ Awaits(c, n)
  <2>1. CASE call \in R
    BY <1>2, <1>11, <2>1
  <2>2. CASE Frame(q, m[2], m[3]) \in Frames'
    <3>1. call[2] = m[2] /\ call[3] = m[3]
      BY <1>1
    <3>2. Todo(Frame(q, m[2], m[3])) = Moves(m[2], m[3])
      BY DEF Moves, Todo, Frame
    <3>3. \A n \in Moves(call[2], call[3]) : Awaits(call, n)
      BY <1>7, <2>2, <3>1, <3>2
    <3> QED BY <1>2, <1>11, <3>3
  <2> QED BY <1>8, <2>1, <2>2
<1>13. \A c \in S : Accepts(c[2], c[3]) => c[1] \in acc'
  <2>1. acc \subseteq acc'
    BY <1>8 DEF Accepting
  <2>2. CASE call \in R
    BY <1>2, <2>1, <2>2 DEF Calling
  <2>3. CASE acc' = Accepting(q, m[2], m[3])
    <3>1. call[1] = q /\ call[2] = m[2] /\ call[3] = m[3]
      BY <1>1
    <3>2. Accepts(call[2], call[3]) => call[1] \in acc'
      BY <2>3, <3>1 DEF Accepts, Accepting
    <3> QED BY <1>2, <2>1, <3>2 DEF Calling
  <2> QED BY <1>8, <2>2, <2>3
<1>14. A' = A /\ T' = T
  BY DEF Turn, input
<1>15. Calling(S)'
  <2>1. \A as, tas : Moves(as, tas)' = Moves(as, tas) /\ (Accepts(as, tas)' <=> Accepts(as, tas))
    BY <1>14 DEF Moves, Todo, Frame, IsMin, Accepts
  <2>2. \A c, n : (Answered(S, c, n)' <=> Said(c, n)) /\ (Waits(c, n)' <=> Awaits(c, n))
    BY DEF Answered, Waits, State, Place, Todo
  <2>3. State(size)' = State(size') /\ State(A.na)' = State(A.na) /\ State(T.na)' = State(T.na)
    BY <1>14 DEF State
  <2> HIDE DEF Said, Awaits
  <2>4. \A c \in S : \A n \in Moves(c[2], c[3])' : Answered(S, c, n)' \/ Waits(c, n)'
    BY <1>12, <2>1, <2>2
  <2>5. \A c \in S : Accepts(c[2], c[3])' => c[1] \in acc'
    BY <1>13, <2>1
  <2> QED BY <1>5, <1>9, <2>3, <2>4, <2>5 DEF Calling, Place
<1> QED BY <1>15

-----------------------------------------------------------------------------
(* The words of the image are in the result                                *)

Ended == pc = "done" => stack = <<>>

LEMMA CallsRead ==
  ASSUME IInv, Adjacent = {}, stack = <<>>, NEW R, Calling(R), NEW v \in Seq(Letter)
  PROVE  \A x \in ImageReach(v) : \E q \in Reach(v) : <<q, x[1], x[2]>> \in R
<1>1. PICK r : /\ \A i \in 0..Len(v) : r[i] \in SUBSET State(size)
               /\ r[0] = {0}
               /\ \A i \in 1..Len(v) : r[i] = After(r[i - 1], v[i])
               /\ Reach(v) = r[Len(v)]
  BY ReachStates
<1>2. PICK s : /\ \A i \in 0..Len(v) : s[i] \in SUBSET Pairs
               /\ s[0] = Silent({<<0, 0>>})
               /\ \A i \in 1..Len(v) : s[i] = Silent(Writes(s[i - 1], v[i]))
               /\ ImageReach(v) = s[Len(v)]
  BY ImageReachStates
<1>3. Len(v) \in Nat
  OBVIOUS
<1>4. \A c \in R : \A m \in Moves(c[2], c[3]) : Answered(R, c, m)
  <2>1. Frames = {}
    BY DEF Frames, Range
  <2> QED BY <2>1 DEF Calling, Waits
<1>5. R \subseteq State(size) \X State(A.na) \X State(T.na)
  BY DEF Calling
<1> DEFINE With(Q) == {x \in Pairs : \E q \in Q : <<q, x[1], x[2]>> \in R}
(* What is called at the states of the result is closed under the steps    *)
(* that write nothing.                                                     *)
<1>6. ASSUME NEW Q \in SUBSET State(size), NEW x \in SUBSET Pairs, x \subseteq With(Q)
      PROVE  Silent(x) \subseteq With(Q)
  <2>1. With(Q) \in SUBSET Pairs
    OBVIOUS
  <2>2. ASSUME NEW y \in Erases(With(Q)) PROVE y \in With(Q)
    <3>1. PICK c \in With(Q) : \E m \in Moves(c[1], c[2]) : m[1] = Epsilon /\ y = <<m[2], m[3]>>
      BY <2>1, StepsAreMoves
    <3>2. PICK m \in Moves(c[1], c[2]) : m[1] = Epsilon /\ y = <<m[2], m[3]>>
      BY <3>1
    <3>3. PICK q \in Q : <<q, c[1], c[2]>> \in R
      OBVIOUS
    <3>4. <<q, m[2], m[3]>> \in R
      BY <1>4, <3>2, <3>3 DEF Answered
    <3>5. y \in Pairs
      BY <2>1, StepsType
    <3>6. y[1] = m[2] /\ y[2] = m[3]
      BY <3>2
    <3> QED BY <3>4, <3>5, <3>6
  <2> HIDE DEF With
  <2> QED BY <1>6, <2>1, <2>2, SilentLeast
<1>7. ASSUME NEW Q \in SUBSET State(size), NEW x \in SUBSET Pairs, x \subseteq With(Q),
             NEW b \in Letter
      PROVE  Writes(x, b) \subseteq With(After(Q, b))
  <2> SUFFICES ASSUME NEW y \in Writes(x, b) PROVE y \in With(After(Q, b))
    OBVIOUS
  <2>1. PICK c \in x : \E m \in Moves(c[1], c[2]) : m[1] = b /\ y = <<m[2], m[3]>>
    BY StepsAreMoves
  <2>2. PICK m \in Moves(c[1], c[2]) : m[1] = b /\ y = <<m[2], m[3]>>
    BY <2>1
  <2>3. PICK q \in Q : <<q, c[1], c[2]>> \in R
    BY <1>7
  <2>4. m[1] # Epsilon
    BY <2>2, ImageAssumption
  <2>5. PICK p \in State(size) : <<q, m[1], p>> \in trans /\ <<p, m[2], m[3]>> \in R
    BY <1>4, <2>3, <2>4 DEF Answered
  <2>6. p \in After(Q, b)
    BY <2>2, <2>3, <2>5 DEF After
  <2>7. y \in Pairs /\ y[1] = m[2] /\ y[2] = m[3]
    BY <2>2, StepsType
  <2> QED BY <2>5, <2>6, <2>7
<1> DEFINE K == {i \in 0..Len(v) : s[i] \subseteq With(r[i])}
<1>8. 0 \in K
  <2>1. <<0, 0>> \in Pairs /\ 0 \in State(size)
    BY DEF IInv, Result, IsAutomaton, IsTransducer, Pairs, State
  <2>2. <<0, 0>> \in With({0})
    <3>1. <<0, 0>>[1] = 0 /\ <<0, 0>>[2] = 0 /\ <<0, 0, 0>> \in R
      BY DEF Calling
    <3> QED BY <2>1, <3>1
  <2> HIDE DEF With
  <2>3. Silent({<<0, 0>>}) \subseteq With({0})
    <3>1. {0} \in SUBSET State(size) /\ {<<0, 0>>} \in SUBSET Pairs /\ {<<0, 0>>} \subseteq With({0})
      BY <2>1, <2>2
    <3> QED BY <1>6, <3>1
  <2>4. s[0] \subseteq With(r[0]) /\ 0 \in 0..Len(v)
    BY <1>1, <1>2, <1>3, <2>3
  <2> QED BY <2>4
<1> HIDE DEF With
<1>9. ASSUME NEW i \in 0..Len(v) - 1, i \in K PROVE i + 1 \in K
  <2>1. i + 1 \in 1..Len(v) /\ i + 1 \in 0..Len(v) /\ (i + 1) - 1 = i /\ i \in 0..Len(v)
    BY <1>3
  <2>2. v[i + 1] \in Letter
    BY <2>1
  <2>3. r[i + 1] = After(r[i], v[i + 1]) /\ s[i + 1] = Silent(Writes(s[i], v[i + 1]))
    BY <1>1, <1>2, <2>1
  <2>4. /\ r[i] \in SUBSET State(size) /\ s[i] \in SUBSET Pairs /\ s[i] \subseteq With(r[i])
        /\ r[i + 1] \in SUBSET State(size)
    BY <1>1, <1>2, <1>9, <2>1
  <2>5. Writes(s[i], v[i + 1]) \subseteq With(r[i + 1])
    BY <1>7, <2>2, <2>3, <2>4
  <2>6. Writes(s[i], v[i + 1]) \in SUBSET Pairs
    BY <2>2, <2>4, StepsType
  <2>7. s[i + 1] \subseteq With(r[i + 1])
    BY <1>6, <2>3, <2>4, <2>5, <2>6
  <2> QED BY <2>1, <2>7
<1> HIDE DEF K
<1>10. 0..Len(v) \subseteq K
  BY <1>3, <1>8, <1>9, IntervalInduction
<1>11. Len(v) \in K
  BY <1>3, <1>10
<1> QED BY <1>1, <1>2, <1>11 DEF K, With

(* If T moves with the loops of A, as the transducer of the linear game    *)
(* does, and the code of no letter follows another's, image returns every  *)
(* word of the image.                                                      *)
THEOREM LoopingImageComplete ==
  ASSUME Adjacent = {}, \A x \in Inputs : LoopsTogether(x[1], x[2])
  PROVE  Spec => []ImageComplete
<1> DEFINE Inv == IInv /\ OwnTurns /\ Followed /\ Ended /\ LoopsTogether(A, T)
<1>1. Init => Inv
  BY Initially, LabelsAtFirst, FollowedAtFirst DEF Init, Ended
<1>2. Inv /\ [Next]_vars => Inv'
  <2> SUFFICES ASSUME Inv, [Next]_vars PROVE Inv'
    OBVIOUS
  <2>1. IInv' /\ LoopsTogether(A, T)'
    BY StepKeeps, InputKept DEF input, LoopsTogether
  <2>2. CASE Erase \/ Loop \/ Emit \/ Insert
    <3>1. PICK m, q, rest : Turn(m, q, rest)
      BY <2>2, EveryTurn
    <3>2. OwnTurns'
      BY <3>1, OwnTurnsKept
    <3>3. ASSUME pc' # "overflow" PROVE \E S : Calling(S)'
      <4>1. pc # "overflow"
        BY <3>1 DEF Turn
      <4>2. PICK R : Calling(R)
        BY <4>1 DEF Followed
      <4> QED BY <3>1, <3>3, <4>2, TurnFollows
    <3>4. Followed'
      BY <3>3 DEF Followed
    <3>5. Ended'
      BY <3>1 DEF Turn, Calls, Ended
    <3> QED BY <2>1, <3>2, <3>4, <3>5
  <2>3. CASE Leave \/ Return \/ Stopped \/ UNCHANGED vars
    <3>1. /\ UNCHANGED input /\ Frames' \subseteq Frames
          /\ \A c \in Frames : c \in Frames' \/ Todo(c) = {}
      BY <2>3, QuietFrames
    <3>2. OwnTurns'
      <4>1. \A c : Own(c)' <=> Own(c)
        BY <3>1 DEF input, Own, Frame, IsMin
      <4> QED BY <3>1, <4>1 DEF OwnTurns
    <3>3. UNCHANGED <<trans, acc, size>> /\ (pc' # "overflow" => pc # "overflow") /\ Ended'
      BY <2>3 DEF Leave, Return, Stopped, vars, Ended
    <3>4. ASSUME NEW R, Calling(R) PROVE Calling(R)'
      <4>1. \A as, tas : Moves(as, tas)' = Moves(as, tas) /\ (Accepts(as, tas)' <=> Accepts(as, tas))
        BY <3>1 DEF input, Moves, Todo, Frame, IsMin, Accepts
      <4>2. \A c, m : Answered(R, c, m)' <=> Answered(R, c, m)
        BY <3>3 DEF Answered, State
      <4>3. \A c, m : Waits(c, m) => Waits(c, m)'
        BY <3>1 DEF Waits, Place, Todo
      <4>4. \A c \in R : \A m \in Moves(c[2], c[3])' : Answered(R, c, m)' \/ Waits(c, m)'
        BY <3>4, <4>1, <4>2, <4>3 DEF Calling
      <4>5. State(size)' = State(size) /\ State(A.na)' = State(A.na) /\ State(T.na)' = State(T.na)
        BY <3>1, <3>3 DEF State, input
      <4>6. \A d \in Frames' : Place(d) \in R
        BY <3>1, <3>4 DEF Calling
      <4> QED BY <3>3, <3>4, <4>1, <4>4, <4>5, <4>6 DEF Calling, Place
    <3>5. Followed'
      BY <3>3, <3>4 DEF Followed
    <3> QED BY <2>1, <3>2, <3>3, <3>5
  <2> QED BY <2>2, <2>3 DEF Next
<1>3. Inv => ImageComplete
  <2> SUFFICES ASSUME Inv, pc = "done", NEW v \in WordsUpTo(MaxLength), InImage(v)
               PROVE  InResult(v)
    BY DEF ImageComplete
  <2>1. PICK R : Calling(R)
    BY DEF Followed
  <2>2. v \in Seq(Letter)
    BY WordsAreSequences
  <2>3. PICK x \in ImageReach(v) : x \in A.acc \X T.acc
    BY DEF InImage
  <2>4. PICK q \in Reach(v) : <<q, x[1], x[2]>> \in R
    BY <2>1, <2>2, CallsRead DEF Ended
  <2>5. Accepts(x[1], x[2])
    BY <2>3 DEF Accepts
  <2>6. q \in acc
    <3>1. LET c == <<q, x[1], x[2]>> IN c[1] = q /\ c[2] = x[1] /\ c[3] = x[2]
      OBVIOUS
    <3> QED BY <2>1, <2>4, <2>5, <3>1 DEF Calling
  <2> QED BY <2>4, <2>6 DEF InResult
<1> QED BY <1>1, <1>2, <1>3, PTL DEF Spec

-----------------------------------------------------------------------------
(* Plain automata and transducers.  A label on each state of the result    *)
(* says which states of A and T the calls for it are on, unless T can do   *)
(* nothing more.                                                           *)

HasLoop(s) == \E e \in A.trans : e[1] = s /\ e[3] = s

Live(t) == \E f \in T.trans : f[1] = t

Alpha(as, tas) == Frame(0, as, tas).alpha

(* The pair <<e, f>> of a call goes to a new state, or loops, on letter b. *)
Leaves(p, b) == p[1][1] # p[1][3] /\ p[2][3] = b

Stays(p, b) == p[1][1] = p[1][3] /\ p[2][3] = b

(* The result: a transition is a move from the label of its state to that  *)
(* of the next one; but for loops, which are where A loops, it is a tree;  *)
(* it is deterministic, and a letter on which a state will loop leads      *)
(* nowhere else.                                                           *)
Labelled1(lab) ==
  /\ lab \in [State(size) -> Pairs] /\ lab[0] = <<0, 0>>
  /\ \A d \in trans : \E m \in Moves(lab[d[1]][1], lab[d[1]][2]) :
       d[2] = m[1] /\ lab[d[3]] = <<m[2], m[3]>>

TreeWithLoops(lab) ==
  /\ \A d \in trans : d[1] = d[3] => HasLoop(lab[d[1]][1]) /\ Live(lab[d[1]][2])
  /\ \A d, g \in trans : d[1] # d[3] /\ g[1] # g[3] /\ d[3] = g[3] => d = g
  /\ \A d \in trans : d[1] # d[3] => d[3] # 0

OneEach(lab) ==
  /\ \A d, g \in trans : d[1] = g[1] /\ d[2] = g[2] => d = g
  /\ \A d \in trans : d[1] # d[3] =>
       \A p \in Alpha(lab[d[1]][1], lab[d[1]][2]) : ~ Stays(p, d[2])

Shape(lab) == Labelled1(lab) /\ TreeWithLoops(lab) /\ OneEach(lab)

(* A new state.                                                            *)
LEMMA ShapeWithNew ==
  ASSUME IInv, UNCHANGED input, NEW lab, Shape(lab),
         NEW q \in State(size), NEW b,
         NEW m \in Moves(lab[q][1], lab[q][2]), m[1] = b, <<m[2], m[3]>> \in Pairs,
         \A d \in trans : d[1] = q => d[2] # b,
         \A p \in Alpha(lab[q][1], lab[q][2]) : ~ Stays(p, b),
         trans' = trans \cup {<<q, b, size>>}, size' = size + 1,
         NEW new, new = [x \in State(size') |-> IF x = size THEN <<m[2], m[3]>> ELSE lab[x]]
  PROVE  Shape(new)'
<1>1. A' = A /\ T' = T
  BY DEF input
<1>2. /\ \A s, t : Moves(s, t)' = Moves(s, t)
      /\ \A s, t : Alpha(s, t)' = Alpha(s, t)
      /\ \A s : HasLoop(s)' <=> HasLoop(s)
      /\ \A s : Live(s)' <=> Live(s)
      /\ Pairs' = Pairs
  BY <1>1 DEF Moves, Alpha, Todo, Frame, IsMin, HasLoop, Live, Pairs, State
<1>3. /\ size \in Nat \ {0} /\ State(size') = State(size) \cup {size} /\ size \notin State(size)
      /\ 0 \in State(size)
  BY DEF IInv, Result, State
<1>4. \A d \in trans : d[1] \in State(size) /\ d[3] \in State(size)
  BY DEF IInv, Result
<1>5. lab \in [State(size) -> Pairs] /\ lab[0] = <<0, 0>>
  BY DEF Shape, Labelled1
<1>6. /\ \A x \in State(size) : new[x] = lab[x]
      /\ new[size] = <<m[2], m[3]>>
      /\ new \in [State(size') -> Pairs] /\ new[0] = <<0, 0>>
  BY <1>3, <1>5
<1> DEFINE added == <<q, b, size>>
<1>7. added[1] = q /\ added[2] = b /\ added[3] = size
  OBVIOUS
<1> HIDE DEF added
<1>8. trans' = trans \cup {added}
  BY DEF added
<1>9. Labelled1(new)'
  <2>1. ASSUME NEW d \in trans'
        PROVE  \E x \in Moves(new[d[1]][1], new[d[1]][2]) : d[2] = x[1] /\ new[d[3]] = <<x[2], x[3]>>
    <3>1. CASE d \in trans
      <4>1. \E x \in Moves(lab[d[1]][1], lab[d[1]][2]) : d[2] = x[1] /\ lab[d[3]] = <<x[2], x[3]>>
        BY <3>1 DEF Shape, Labelled1
      <4>2. new[d[1]] = lab[d[1]] /\ new[d[3]] = lab[d[3]]
        BY <1>4, <1>6, <3>1
      <4> QED BY <4>1, <4>2
    <3>2. CASE d = added
      BY <1>6, <1>7, <3>2
    <3> QED BY <1>8, <3>1, <3>2
  <2>2. State(size)' = State(size')
    BY DEF State
  <2> QED BY <1>2, <1>6, <2>1, <2>2 DEF Labelled1
<1>10. TreeWithLoops(new)'
  <2>1. \A d \in trans' : d[1] = d[3] => d \in trans
    BY <1>3, <1>7, <1>8
  <2>2. \A d \in trans' : d[3] = size => d = added
    BY <1>3, <1>4, <1>8
  <2>3. \A d \in trans : d[1] = d[3] => HasLoop(new[d[1]][1]) /\ Live(new[d[1]][2])
    BY <1>4, <1>6 DEF Shape, TreeWithLoops
  <2>4. \A d, g \in trans' : d[1] # d[3] /\ g[1] # g[3] /\ d[3] = g[3] => d = g
    BY <1>7, <1>8, <2>2 DEF Shape, TreeWithLoops
  <2>5. \A d \in trans' : d[1] # d[3] => d[3] # 0
    BY <1>3, <1>7, <1>8 DEF Shape, TreeWithLoops
  <2> QED BY <1>2, <2>1, <2>3, <2>4, <2>5 DEF TreeWithLoops
<1>11. OneEach(new)'
  <2>1. \A d, g \in trans' : d[1] = g[1] /\ d[2] = g[2] => d = g
    BY <1>7, <1>8 DEF Shape, OneEach
  <2>2. ASSUME NEW d \in trans', d[1] # d[3],
               NEW p \in Alpha(new[d[1]][1], new[d[1]][2])
        PROVE  ~ Stays(p, d[2])
    <3>1. CASE d \in trans
      BY <1>4, <1>6, <2>2, <3>1 DEF Shape, OneEach
    <3>2. CASE d = added
      BY <1>6, <1>7, <2>2, <3>2
    <3> QED BY <1>8, <3>1, <3>2
  <2> QED BY <1>2, <2>1, <2>2 DEF OneEach, Stays
<1> QED BY <1>9, <1>10, <1>11 DEF Shape

(* A loop.                                                                 *)
LEMMA ShapeWithLoop ==
  ASSUME IInv, UNCHANGED input, NEW lab, Shape(lab),
         NEW q \in State(size), NEW b,
         NEW p \in Alpha(lab[q][1], lab[q][2]), Stays(p, b), p[2][4] = lab[q][2],
         trans' = trans \cup {<<q, b, q>>}, size' = size
  PROVE  Shape(lab)'
<1>1. A' = A /\ T' = T
  BY DEF input
<1>2. /\ \A s, t : Moves(s, t)' = Moves(s, t)
      /\ \A s, t : Alpha(s, t)' = Alpha(s, t)
      /\ \A s : HasLoop(s)' <=> HasLoop(s)
      /\ \A s : Live(s)' <=> Live(s)
      /\ Pairs' = Pairs /\ State(size)' = State(size)
  BY <1>1 DEF Moves, Alpha, Todo, Frame, IsMin, HasLoop, Live, Pairs, State
<1>3. lab[q] \in Pairs
  BY DEF Shape, Labelled1
<1>4. /\ p[1] \in A.trans /\ p[2] \in T.trans
      /\ p[1][1] = lab[q][1] /\ p[1][3] = lab[q][1] /\ p[2][1] = lab[q][2] /\ p[2][3] = b
  BY DEF Alpha, Frame, Stays
<1> DEFINE m == <<b, lab[q][1], lab[q][2]>>
           added == <<q, b, q>>
<1>5. m \in Moves(lab[q][1], lab[q][2])
  <2>1. <<p[2][3], p[1][3], p[2][4]>> = m
    BY <1>4
  <2>2. <<p[2][3], p[1][3], p[2][4]>> \in Moves(lab[q][1], lab[q][2])
    BY DEF Moves, Todo, Alpha
  <2> QED BY <2>1, <2>2
<1>6. lab[q] = <<m[2], m[3]>> /\ m[1] = b
  BY <1>3 DEF Pairs
<1>7. added[1] = q /\ added[2] = b /\ added[3] = q
  OBVIOUS
<1> HIDE DEF added, m
<1>8. trans' = trans \cup {added}
  BY DEF added
<1>9. Labelled1(lab)'
  <2>1. ASSUME NEW d \in trans'
        PROVE  \E x \in Moves(lab[d[1]][1], lab[d[1]][2]) : d[2] = x[1] /\ lab[d[3]] = <<x[2], x[3]>>
    BY <1>5, <1>6, <1>7, <1>8 DEF Shape, Labelled1
  <2> QED BY <1>2, <2>1 DEF Shape, Labelled1
<1>10. HasLoop(lab[q][1]) /\ Live(lab[q][2])
  BY <1>4 DEF HasLoop, Live
<1>11. TreeWithLoops(lab)'
  <2>1. \A d \in trans' : d[1] = d[3] => HasLoop(lab[d[1]][1]) /\ Live(lab[d[1]][2])
    BY <1>7, <1>8, <1>10 DEF Shape, TreeWithLoops
  <2>2. \A d \in trans' : d[1] # d[3] => d \in trans
    BY <1>7, <1>8
  <2> QED BY <1>2, <2>1, <2>2 DEF Shape, TreeWithLoops
<1>12. OneEach(lab)'
  <2>1. ASSUME NEW d \in trans, d[1] = q, d[2] = b PROVE d = added
    <3>1. d[1] = d[3]
      BY <2>1 DEF Shape, OneEach
    <3>2. d = <<d[1], d[2], d[3]>>
      BY DEF IInv, Result
    <3> QED BY <2>1, <3>1, <3>2 DEF added
  <2>2. \A d, g \in trans' : d[1] = g[1] /\ d[2] = g[2] => d = g
    BY <1>7, <1>8, <2>1 DEF Shape, OneEach
  <2>3. \A d \in trans' : d[1] # d[3] => d \in trans
    BY <1>7, <1>8
  <2> QED BY <1>2, <2>2, <2>3 DEF Shape, OneEach, Stays
<1> QED BY <1>9, <1>11, <1>12 DEF Shape

(* A call that is not over: what it has left to go to a new state for is   *)
(* on letters its state does not move with yet, and its state moves with   *)
(* every other one that it can write.                                      *)
Waiting(lab, c) ==
  Live(c.tas) =>
    /\ lab[c.current] = <<c.as, c.tas>>
    /\ \A d \in trans : d[1] = c.current => \A p \in c.alpha : ~ Leaves(p, d[2])
    /\ \A p \in Alpha(c.as, c.tas) \ c.alpha :
         p[2][3] # Epsilon => \E d \in trans : d[1] = c.current /\ d[2] = p[2][3]

AllWaiting(lab) == \A i \in DOMAIN stack : Waiting(lab, stack[i])

(* Two of them are for one state only if A loops there.                    *)
Apart(c, d) ==
  Live(c.tas) /\ Live(d.tas) /\ c.current = d.current => HasLoop(c.as) /\ HasLoop(d.as)

AllApart == \A i, j \in DOMAIN stack : i # j => Apart(stack[i], stack[j])

LEMMA InputFixed ==
  ASSUME UNCHANGED input
  PROVE  /\ A' = A /\ T' = T
         /\ \A s, t : Moves(s, t)' = Moves(s, t) /\ Alpha(s, t)' = Alpha(s, t)
         /\ \A s : (HasLoop(s)' <=> HasLoop(s)) /\ (Live(s)' <=> Live(s))
         /\ \A c : Own(c)' <=> Own(c)
         /\ \A c, d : Apart(c, d)' <=> Apart(c, d)
<1>1. A' = A /\ T' = T
  BY DEF input
<1>2. \A s : (HasLoop(s)' <=> HasLoop(s)) /\ (Live(s)' <=> Live(s))
  BY <1>1 DEF HasLoop, Live
<1>3. \A s, t : Moves(s, t)' = Moves(s, t) /\ Alpha(s, t)' = Alpha(s, t)
  BY <1>1 DEF Moves, Alpha, Todo, Frame, IsMin
<1>4. \A c : Own(c)' <=> Own(c)
  BY <1>1 DEF Own, Frame, IsMin
<1>5. \A c, d : Apart(c, d)' <=> Apart(c, d)
  BY <1>2 DEF Apart
<1> QED BY <1>1, <1>2, <1>3, <1>4, <1>5

(* Where A loops, a call has nothing to go to a new state for.             *)
LEMMA LoopsOnly ==
  ASSUME Plain(A, T), NEW as, NEW tas, HasLoop(as),
         NEW p \in Alpha(as, tas)
  PROVE  p[1][1] = p[1][3]
<1>1. p[1] \in A.trans /\ p[1][1] = as
  BY DEF Alpha, Frame
<1>2. PICK e \in A.trans : e[1] = as /\ e[3] = as
  BY DEF HasLoop
<1> QED BY <1>1, <1>2 DEF Plain

LEMMA OwnAlpha ==
  ASSUME NEW c, Own(c)
  PROVE  c.alpha \subseteq Alpha(c.as, c.tas)
BY DEF Own, Alpha, Frame

(* The calls below the one that takes its turn.                            *)
LEMMA StillWaiting ==
  ASSUME UNCHANGED input, Plain(A, T), NEW c, Own(c), NEW lab, Waiting(lab, c),
         NEW new, new[c.current] = lab[c.current], trans \subseteq trans',
         \/ \A d \in trans' : d[1] = c.current => d \in trans
         \/ Live(c.tas) => HasLoop(c.as)
  PROVE  Waiting(new, c)'
<1> SUFFICES ASSUME Live(c.tas)
             PROVE  /\ new[c.current] = <<c.as, c.tas>>
                    /\ \A d \in trans' : d[1] = c.current => \A p \in c.alpha : ~ Leaves(p, d[2])
                    /\ \A p \in Alpha(c.as, c.tas) \ c.alpha :
                         p[2][3] # Epsilon => \E d \in trans' : d[1] = c.current /\ d[2] = p[2][3]
  BY InputFixed DEF Waiting, Leaves
<1>1. new[c.current] = <<c.as, c.tas>>
  BY DEF Waiting
<1>2. ASSUME NEW d \in trans', d[1] = c.current, NEW p \in c.alpha
      PROVE  ~ Leaves(p, d[2])
  <2>1. CASE d \in trans
    BY <1>2, <2>1 DEF Waiting
  <2>2. CASE HasLoop(c.as)
    <3>1. p \in Alpha(c.as, c.tas)
      BY <1>2, OwnAlpha
    <3>2. p[1][1] = p[1][3]
      BY <2>2, <3>1, LoopsOnly
    <3> QED BY <3>2 DEF Leaves
  <2> QED BY <1>2, <2>1, <2>2
<1>3. ASSUME NEW p \in Alpha(c.as, c.tas) \ c.alpha, p[2][3] # Epsilon
      PROVE  \E d \in trans' : d[1] = c.current /\ d[2] = p[2][3]
  BY <1>3 DEF Waiting
<1> QED BY <1>1, <1>2, <1>3

(* The stack, entry by entry.                                              *)
LEMMA Joined ==
  ASSUME NEW S, NEW s \in Seq(S), NEW c \in S, NEW d \in S
  PROVE  /\ DOMAIN (s \o <<c>>) = 1..Len(s) + 1 /\ DOMAIN (s \o <<c, d>>) = 1..Len(s) + 2
         /\ \A i \in 1..Len(s) : (s \o <<c>>)[i] = s[i] /\ (s \o <<c, d>>)[i] = s[i]
         /\ (s \o <<c>>)[Len(s) + 1] = c
         /\ (s \o <<c, d>>)[Len(s) + 1] = c /\ (s \o <<c, d>>)[Len(s) + 2] = d
<1>1. <<c>> \in Seq(S) /\ <<c, d>> \in Seq(S) /\ Len(<<c>>) = 1 /\ Len(<<c, d>>) = 2
  OBVIOUS
<1>2. Len(s) \in Nat
  OBVIOUS
<1>3. DOMAIN (s \o <<c>>) = 1..Len(s) + 1
  BY <1>1, <1>2
<1>4. DOMAIN (s \o <<c, d>>) = 1..Len(s) + 2
  BY <1>1, <1>2
<1>5. \A i \in 1..Len(s) : (s \o <<c>>)[i] = s[i]
  BY <1>1, <1>2
<1>6. \A i \in 1..Len(s) : (s \o <<c, d>>)[i] = s[i]
  BY <1>1, <1>2
<1>7. (s \o <<c>>)[Len(s) + 1] = c
  BY <1>1, <1>2
<1>8. (s \o <<c, d>>)[Len(s) + 1] = c
  BY <1>1, <1>2
<1>9. (s \o <<c, d>>)[Len(s) + 2] = d
  BY <1>1, <1>2
<1> QED BY <1>3, <1>4, <1>5, <1>6, <1>7, <1>8, <1>9

LEMMA StackAfter ==
  ASSUME IInv, stack # <<>>, NEW rest, NEW frame,
         \/ stack' = Front(stack) \o <<rest>>
         \/ stack' = Front(stack) \o <<rest, frame>>
  PROVE  /\ top = stack[Len(stack)] /\ Len(stack) \in DOMAIN stack
         /\ \A i \in DOMAIN stack' :
              \/ i \in DOMAIN stack /\ i # Len(stack) /\ stack'[i] = stack[i]
              \/ i = Len(stack) /\ stack'[i] = rest
              \/ i = Len(stack) + 1 /\ stack'[i] = frame
<1> DEFINE n == Len(stack)
           S == {stack[i] : i \in DOMAIN stack} \cup {rest, frame}
<1>1. /\ n \in Nat \ {0} /\ DOMAIN stack = 1..n
      /\ Len(Front(stack)) = n - 1
      /\ \A i \in 1..n - 1 : Front(stack)[i] = stack[i]
  BY DEF IInv, Front
<1>2. top = stack[n]
  BY DEF top, Last
<1>3. stack \in Seq(S)
  BY DEF IInv
<1>4. Front(stack) \in Seq(S) /\ rest \in S /\ frame \in S
  BY <1>3, RangeOfFront
<1> HIDE DEF n, S
<1> DEFINE s == Front(stack)
<1> HIDE DEF s
<1>5. /\ DOMAIN (s \o <<rest>>) = 1..n /\ DOMAIN (s \o <<rest, frame>>) = 1..n + 1
      /\ \A i \in 1..n - 1 : (s \o <<rest>>)[i] = stack[i] /\ (s \o <<rest, frame>>)[i] = stack[i]
      /\ (s \o <<rest>>)[n] = rest
      /\ (s \o <<rest, frame>>)[n] = rest /\ (s \o <<rest, frame>>)[n + 1] = frame
  <2>1. s \in Seq(S) /\ Len(s) = n - 1 /\ \A i \in 1..n - 1 : s[i] = stack[i]
    BY <1>1, <1>4 DEF s
  <2>2. /\ DOMAIN (s \o <<rest>>) = 1..Len(s) + 1 /\ DOMAIN (s \o <<rest, frame>>) = 1..Len(s) + 2
        /\ \A i \in 1..Len(s) : (s \o <<rest>>)[i] = s[i] /\ (s \o <<rest, frame>>)[i] = s[i]
        /\ (s \o <<rest>>)[Len(s) + 1] = rest
        /\ (s \o <<rest, frame>>)[Len(s) + 1] = rest /\ (s \o <<rest, frame>>)[Len(s) + 2] = frame
    BY <1>4, <2>1, Joined
  <2>3. Len(s) + 1 = n /\ Len(s) + 2 = n + 1
    BY <1>1, <2>1
  <2> QED BY <2>1, <2>2, <2>3
<1>6. \A i \in 1..n : i # n => i \in 1..n - 1
  BY <1>1
<1>7. \A i \in 1..n + 1 : i # n /\ i # n + 1 => i \in 1..n - 1 /\ i \in 1..n
  BY <1>1
<1>8. n \in DOMAIN stack
  BY <1>1
<1>9. ASSUME NEW i \in DOMAIN stack'
      PROVE  \/ i \in DOMAIN stack /\ i # n /\ stack'[i] = stack[i]
             \/ i = n /\ stack'[i] = rest
             \/ i = n + 1 /\ stack'[i] = frame
  <2>1. CASE stack' = s \o <<rest>>
    BY <1>1, <1>5, <1>6, <1>9, <2>1
  <2>2. CASE stack' = s \o <<rest, frame>>
    BY <1>1, <1>5, <1>7, <1>9, <2>2
  <2> QED BY <2>1, <2>2 DEF s
<1> QED BY <1>2, <1>8, <1>9 DEF n, s

LEMMA StackKept ==
  ASSUME IInv, OwnTurns, Plain(A, T), UNCHANGED input, stack # <<>>, Live(top.tas),
         NEW lab, AllWaiting(lab), AllApart, NEW new, \A x \in State(size) : new[x] = lab[x],
         trans \subseteq trans', \A d \in trans' : d \in trans \/ d[1] = top.current,
         NEW rest, Place(rest) = Place(top), Waiting(new, rest)',
         NEW frame, Waiting(new, frame)',
         \/ ~ Live(frame.tas)
         \/ frame.current = size
         \/ Place(frame) = Place(top) /\ HasLoop(top.as),
         \/ stack' = Front(stack) \o <<rest>>
         \/ stack' = Front(stack) \o <<rest, frame>>
  PROVE  AllWaiting(new)' /\ AllApart'
<1>1. /\ top = stack[Len(stack)] /\ Len(stack) \in DOMAIN stack
      /\ \A i \in DOMAIN stack' :
           \/ i \in DOMAIN stack /\ i # Len(stack) /\ stack'[i] = stack[i]
           \/ i = Len(stack) /\ stack'[i] = rest
           \/ i = Len(stack) + 1 /\ stack'[i] = frame
  BY StackAfter
<1> DEFINE n == Len(stack)
<1>2. n \in Nat /\ n # n + 1
  BY DEF IInv
<1>3. ASSUME NEW i \in DOMAIN stack
      PROVE  stack[i].current \in State(size) /\ Own(stack[i])
  <2>1. stack[i] \in Frames
    BY DEF Frames, Range
  <2>2. stack[i] \in Call(size)
    BY DEF IInv
  <2> QED BY <2>1, <2>2 DEF OwnTurns, Call
<1> HIDE DEF n
<1>4. rest.current = top.current /\ rest.as = top.as /\ rest.tas = top.tas
  BY DEF Place
<1>5. size \notin State(size)
  BY DEF State, IInv, Result
<1>6. ASSUME NEW i \in DOMAIN stack, i # n, NEW c, c = stack[i] PROVE Waiting(new, c)'
  <2>1. Waiting(lab, c) /\ Own(c) /\ new[c.current] = lab[c.current]
    BY <1>3, <1>6 DEF AllWaiting
  <2>2. CASE Live(c.tas) /\ c.current = top.current
    <3>1. Apart(c, top)
      BY <1>1, <1>6 DEF AllApart, n
    <3>2. HasLoop(c.as)
      BY <2>2, <3>1 DEF Apart
    <3> QED BY <2>1, <3>2, StillWaiting
  <2>3. CASE ~ Live(c.tas)
    BY <2>3, InputFixed DEF Waiting
  <2>4. CASE c.current # top.current
    BY <2>1, <2>4, StillWaiting
  <2> QED BY <2>2, <2>3, <2>4
<1>7. AllWaiting(new)'
  <2>1. ASSUME NEW i \in DOMAIN stack', NEW c, c = stack'[i] PROVE Waiting(new, c)'
    <3>1. CASE i \in DOMAIN stack /\ i # n /\ c = stack[i]
      BY <1>6, <3>1
    <3>2. CASE c = rest
      BY <3>2
    <3>3. CASE c = frame
      BY <3>3
    <3> QED BY <1>1, <2>1, <3>1, <3>2, <3>3 DEF n
  <2> QED BY <2>1 DEF AllWaiting, Waiting
<1>8. AllApart'
  <2>1. ASSUME NEW i \in DOMAIN stack', NEW j \in DOMAIN stack', i # j,
               NEW c, c = stack'[i], NEW d, d = stack'[j]
        PROVE  Apart(c, d)
    <3> SUFFICES ASSUME Live(c.tas), Live(d.tas), c.current = d.current
                 PROVE  HasLoop(c.as) /\ HasLoop(d.as)
      BY DEF Apart
    <3>1. \/ i \in DOMAIN stack /\ i # n /\ c = stack[i]
          \/ i = n /\ c = rest
          \/ i = n + 1 /\ c = frame
      BY <1>1, <2>1 DEF n
    <3>2. \/ j \in DOMAIN stack /\ j # n /\ d = stack[j]
          \/ j = n /\ d = rest
          \/ j = n + 1 /\ d = frame
      BY <1>1, <2>1 DEF n
    <3>3. n \in DOMAIN stack /\ top = stack[n] /\ top.current \in State(size)
      BY <1>1, <1>3 DEF n
    <3>4. \A k \in DOMAIN stack :
            k # n /\ Live(stack[k].tas) /\ stack[k].current = top.current
              => HasLoop(stack[k].as) /\ HasLoop(top.as)
      BY <3>3 DEF AllApart, Apart
    <3>5. CASE (i \in DOMAIN stack /\ i # n /\ c = stack[i]) /\ (j \in DOMAIN stack /\ j # n /\ d = stack[j])
      BY <2>1, <3>5 DEF AllApart, Apart
    <3>6. CASE (i \in DOMAIN stack /\ i # n /\ c = stack[i]) /\ d = rest
      BY <1>4, <3>4, <3>6
    <3>7. CASE c = rest /\ (j \in DOMAIN stack /\ j # n /\ d = stack[j])
      BY <1>4, <3>4, <3>7
    <3>8. CASE c = frame
      <4>1. c.current # size
        BY <1>3, <1>4, <1>5, <2>1, <3>1, <3>2, <3>3, <3>8, <1>2
      <4>2. Place(frame) = Place(top) /\ HasLoop(top.as)
        BY <3>8, <4>1
      <4> QED BY <1>4, <2>1, <3>2, <3>4, <3>8, <4>2 DEF Place
    <3>9. CASE d = frame
      <4>1. d.current # size
        BY <1>3, <1>4, <1>5, <2>1, <3>1, <3>2, <3>3, <3>9, <1>2
      <4>2. Place(frame) = Place(top) /\ HasLoop(top.as)
        BY <3>9, <4>1
      <4> QED BY <1>4, <2>1, <3>1, <3>4, <3>9, <4>2 DEF Place
    <3> QED BY <1>2, <2>1, <3>1, <3>2, <3>5, <3>6, <3>7, <3>8, <3>9
  <2> QED BY <2>1, InputFixed DEF AllApart, Apart
<1> QED BY <1>7, <1>8

-----------------------------------------------------------------------------
(* The turns of the loops, in the plain case                               *)

LEMMA OnTop ==
  ASSUME IInv, OwnTurns, NEW lab, AllWaiting(lab),
         NEW e \in A.trans, NEW f \in T.trans, Pick(e, f)
  PROVE  /\ pc = "rec" /\ stack # <<>>
         /\ top \in Call(size) /\ Own(top) /\ top.current \in State(size)
         /\ e[1] = top.as /\ f[1] = top.tas /\ f[2] = e[2] /\ f[2] # Epsilon
         /\ <<e, f>> \in top.alpha /\ <<e, f>> \in Alpha(top.as, top.tas)
         /\ Live(top.tas) /\ Waiting(lab, top) /\ lab[top.current] = <<top.as, top.tas>>
         /\ <<f[3], e[3], f[4]>> \in Moves(top.as, top.tas)
         /\ Place(Rest(e, f)) = Place(top) /\ Rest(e, f).alpha = top.alpha \ {<<e, f>>}
         /\ <<e[3], f[4]>> \in Pairs
<1>1. pc = "rec" /\ stack # <<>> /\ <<e, f>> \in top.alpha
  BY DEF Pick
<1>2. top \in Call(size) /\ top \in Frames
  BY <1>1, LastFrame
<1>3. Own(top) /\ top.current \in State(size)
  BY <1>2 DEF OwnTurns, Call
<1>4. <<e, f>> \in Alpha(top.as, top.tas)
  BY <1>1, <1>3, OwnAlpha
<1>5. e[1] = top.as /\ f[1] = top.tas /\ f[2] = e[2]
  BY <1>4 DEF Alpha, Frame
<1>6. f[2] # Epsilon
  <2>1. e[2] \in Letter
    BY DEF IInv, IsAutomaton
  <2> QED BY <1>5, <2>1, ImageAssumption
<1>7. Live(top.tas)
  BY <1>5 DEF Live
<1>8. Waiting(lab, top)
  <2>1. Len(stack) \in DOMAIN stack /\ top = stack[Len(stack)]
    BY <1>1 DEF IInv, top, Last
  <2> QED BY <2>1 DEF AllWaiting
<1>9. lab[top.current] = <<top.as, top.tas>>
  BY <1>7, <1>8 DEF Waiting
<1>10. <<f[3], e[3], f[4]>> \in Moves(top.as, top.tas)
  BY <1>4 DEF Moves, Todo, Alpha
<1>11. Place(Rest(e, f)) = Place(top) /\ Rest(e, f).alpha = top.alpha \ {<<e, f>>}
  BY <1>2 DEF Rest, Call, Place
<1>12. <<e[3], f[4]>> \in Pairs
  BY DEF IInv, IsAutomaton, IsTransducer, Pairs, State
<1> QED BY <1>1, <1>2, <1>3, <1>4, <1>5, <1>6, <1>7, <1>8, <1>9, <1>10, <1>11, <1>12

(* T writes a letter in one way only when it reads one.                    *)
LEMMA OneWay ==
  ASSUME IInv, Plain(A, T), NEW as, NEW tas, NEW p \in Alpha(as, tas), NEW r \in Alpha(as, tas),
         p[2][3] = r[2][3], p[2][3] # Epsilon
  PROVE  p = r
<1>1. /\ p[1] \in A.trans /\ r[1] \in A.trans /\ p[2] \in T.trans /\ r[2] \in T.trans
      /\ p[1][1] = as /\ r[1][1] = as /\ p[2][1] = tas /\ r[2][1] = tas
      /\ p[2][2] = p[1][2] /\ r[2][2] = r[1][2]
  BY DEF Alpha, Frame
<1>2. p \in A.trans \X T.trans /\ r \in A.trans \X T.trans
  BY DEF Alpha, Frame
<1>3. p = <<p[1], p[2]>> /\ r = <<r[1], r[2]>>
  BY <1>2
<1>4. p[1][2] # Epsilon /\ r[1][2] # Epsilon
  BY <1>1, ImageAssumption DEF IInv, IsAutomaton
<1>5. p[2] = r[2]
  BY <1>1, <1>4 DEF Plain
<1>6. p[1] = r[1]
  <2>1. \A d, e \in A.trans : d[1] = e[1] /\ d[2] = e[2] => d = e
    BY DEF Plain
  <2>2. p[1][2] = r[1][2]
    BY <1>1, <1>5
  <2> QED BY <1>1, <2>1, <2>2
<1> QED BY <1>3, <1>5, <1>6

(* What is left of the call on top waits.                                  *)
LEMMA RestWaiting ==
  ASSUME IInv, UNCHANGED input, NEW lab, Waiting(lab, top), Live(top.tas), top \in Call(size),
         NEW new, new[top.current] = lab[top.current], trans \subseteq trans',
         NEW rest, Place(rest) = Place(top),
         NEW p, rest.alpha = top.alpha \ {p},
         p[2][3] # Epsilon => \E d \in trans' : d[1] = top.current /\ d[2] = p[2][3],
         \A d \in trans' : d[1] = top.current /\ d \notin trans =>
           \A r \in rest.alpha : ~ Leaves(r, d[2])
  PROVE  Waiting(new, rest)'
<1>1. rest.current = top.current /\ rest.as = top.as /\ rest.tas = top.tas
  BY DEF Place
<1>2. new[rest.current] = <<rest.as, rest.tas>>
  BY <1>1 DEF Waiting
<1>3. ASSUME NEW d \in trans', d[1] = rest.current, NEW r \in rest.alpha
      PROVE  ~ Leaves(r, d[2])
  BY <1>1, <1>3 DEF Waiting
<1>4. ASSUME NEW r \in Alpha(rest.as, rest.tas) \ rest.alpha, r[2][3] # Epsilon
      PROVE  \E d \in trans' : d[1] = rest.current /\ d[2] = r[2][3]
  BY <1>1, <1>4 DEF Waiting
<1> QED BY <1>2, <1>3, <1>4, InputFixed DEF Waiting, Leaves

(* So does a call that begins, if its state does not move yet or A loops.  *)
LEMMA FreshWaiting ==
  ASSUME UNCHANGED input, Plain(A, T), NEW q, NEW as, NEW tas, NEW new,
         Live(tas) => /\ new[q] = <<as, tas>>
                      /\ HasLoop(as) \/ \A d \in trans' : d[1] # q,
         NEW frame, frame = Frame(q, as, tas)
  PROVE  Waiting(new, frame)'
<1> SUFFICES ASSUME Live(tas) PROVE Waiting(new, frame)'
  BY InputFixed DEF Waiting, Frame
<1>1. /\ frame.current = q /\ frame.as = as /\ frame.tas = tas
      /\ frame.alpha = Alpha(as, tas)
  BY DEF Frame, Alpha
<1>2. ASSUME NEW d \in trans', d[1] = q, NEW p \in Alpha(as, tas) PROVE ~ Leaves(p, d[2])
  <2>1. p[1][1] = p[1][3]
    BY <1>2, LoopsOnly
  <2> QED BY <2>1 DEF Leaves
<1> QED BY <1>1, <1>2, InputFixed DEF Waiting, Leaves

(* An accepting state: A and T may end there; or T ended there without     *)
(* reading, after a letter with which the one transition to it is.         *)
Looping(x) == HasLoop(x[1]) /\ Live(x[2])

Final == A.acc \X T.acc

EndsAt(x) == Silent({x}) \cap Final # {}

EndsAfter(x, b) == Silent(Writes({x}, b)) \cap Final # {}

EndsWith(lab, q) ==
  \/ EndsAt(lab[q])
  \/ /\ q # 0 /\ ~ Looping(lab[q])
     /\ \A d \in trans : d[3] = q => EndsAfter(lab[d[1]], d[2])

AllEnd(lab) == \A q \in acc : EndsWith(lab, q)

LEMMA EndsFixed ==
  ASSUME UNCHANGED input
  PROVE  /\ \A x : (Looping(x)' <=> Looping(x)) /\ (EndsAt(x)' <=> EndsAt(x))
         /\ \A x, b : EndsAfter(x, b)' <=> EndsAfter(x, b)
<1>1. Final' = Final
  BY DEF Final, input
<1>2. ASSUME NEW x PROVE EndsAt(x)' <=> EndsAt(x)
  BY <1>1, ReferenceKept DEF EndsAt
<1>3. ASSUME NEW x, NEW b PROVE EndsAfter(x, b)' <=> EndsAfter(x, b)
  <2>1. Writes({x}, b)' = Writes({x}, b)
    BY ReferenceKept
  <2>2. Silent(Writes({x}, b))' = Silent(Writes({x}, b))
    BY <2>1, ReferenceKept
  <2> QED BY <1>1, <2>2 DEF EndsAfter
<1> QED BY <1>2, <1>3, InputFixed DEF Looping

LEMMA EndsHere ==
  ASSUME IInv, NEW x \in Pairs, x \in Final
  PROVE  EndsAt(x)
BY SilentLeast DEF EndsAt

LEMMA EndsErased ==
  ASSUME IInv, NEW x \in Pairs, NEW m \in Moves(x[1], x[2]), m[1] = Epsilon,
         <<m[2], m[3]>> \in Final
  PROVE  EndsAt(x)
<1>1. x \in Silent({x}) /\ Silent({x}) \in SUBSET Pairs /\ Erases(Silent({x})) \subseteq Silent({x})
  BY SilentLeast
<1>2. <<m[2], m[3]>> \in Erases(Silent({x}))
  BY <1>1, MovesAreSteps
<1> QED BY <1>1, <1>2 DEF EndsAt

LEMMA EndsWritten ==
  ASSUME IInv, NEW x \in Pairs, NEW m \in Moves(x[1], x[2]), m[1] # Epsilon,
         <<m[2], m[3]>> \in Final
  PROVE  EndsAfter(x, m[1])
<1>1. x \in {x} /\ {x} \in SUBSET Pairs
  OBVIOUS
<1>2. m[1] \in Letter /\ <<m[2], m[3]>> \in Writes({x}, m[1])
  BY <1>1, MovesAreSteps
<1>3. Writes({x}, m[1]) \in SUBSET Pairs
  BY <1>1, <1>2, StepsType
<1>4. Writes({x}, m[1]) \subseteq Silent(Writes({x}, m[1]))
  BY <1>3, SilentLeast
<1> QED BY <1>2, <1>4 DEF EndsAfter

(* The states that accept keep doing so.                                   *)
LEMMA EndsKept ==
  ASSUME IInv, UNCHANGED input, NEW lab, AllEnd(lab),
         NEW new, \A x \in State(size) : new[x] = lab[x],
         \A d \in trans' : \/ d \in trans
                           \/ d[3] = size
                           \/ d[3] \in State(size) /\ Looping(lab[d[3]]),
         acc' = acc \/ \E q : acc' = acc \cup {q} /\ EndsWith(new, q)'
  PROVE  AllEnd(new)'
<1>1. acc \subseteq State(size) /\ size \notin State(size)
      /\ \A d \in trans : d[1] \in State(size)
  BY DEF IInv, Result, State
<1>2. ASSUME NEW q \in acc PROVE EndsWith(new, q)'
  <2>1. EndsWith(lab, q) /\ new[q] = lab[q]
    BY <1>1 DEF AllEnd
  <2>2. CASE EndsAt(lab[q])
    <3>1. EndsAt(new[q])'
      BY <2>1, <2>2, EndsFixed
    <3> QED BY <3>1 DEF EndsWith
  <2>3. CASE /\ q # 0 /\ ~ Looping(lab[q])
             /\ \A d \in trans : d[3] = q => EndsAfter(lab[d[1]], d[2])
    <3>1. \A d \in trans' : d[3] = q => d \in trans
      BY <1>1, <2>3
    <3>2. \A d \in trans' : d[3] = q => EndsAfter(new[d[1]], d[2])
      BY <1>1, <2>3, <3>1
    <3>3. ~ Looping(new[q])'
      BY <2>1, <2>3, EndsFixed
    <3> QED BY <2>3, <3>2, <3>3, EndsFixed DEF EndsWith
  <2> QED BY <2>1, <2>2, <2>3 DEF EndsWith
<1> QED BY <1>2 DEF AllEnd

Told(lab) ==
  Shape(lab) /\ AllWaiting(lab) /\ (EndsTogether(A, T) => AllEnd(lab))

AllTold == AllApart /\ \E lab : Told(lab)

(* A moves.                                                                *)
LEMMA EmitTold ==
  ASSUME IInv, OwnTurns, Plain(A, T), AllApart, NEW lab, Told(lab), Emit, pc' # "overflow"
  PROVE  AllTold'
<1>1. PICK e \in A.trans, f \in T.trans :
        /\ Pick(e, f) /\ f[3] # Epsilon /\ e[3] # top.as
        /\ trans' = trans \cup {<<top.current, f[3], size>>}
        /\ size' = size + 1
        /\ Calls(size, e[3], f[4], Rest(e, f))
        /\ UNCHANGED input
  BY DEF Emit
<1>2. AllWaiting(lab) /\ Shape(lab)
  BY DEF Told
<1>3. /\ top \in Call(size) /\ Own(top) /\ top.current \in State(size) /\ stack # <<>>
      /\ e[1] = top.as /\ <<e, f>> \in top.alpha /\ <<e, f>> \in Alpha(top.as, top.tas)
      /\ Live(top.tas) /\ Waiting(lab, top) /\ lab[top.current] = <<top.as, top.tas>>
      /\ <<f[3], e[3], f[4]>> \in Moves(top.as, top.tas)
      /\ Place(Rest(e, f)) = Place(top) /\ Rest(e, f).alpha = top.alpha \ {<<e, f>>}
      /\ <<e[3], f[4]>> \in Pairs
  BY <1>1, <1>2, OnTop
<1> DEFINE q == top.current
           b == f[3]
           x == <<e[3], f[4]>>
           added == <<q, b, size>>
<1>4. PICK rest : rest = Rest(e, f)
  OBVIOUS
<1>5. PICK frame : frame = Frame(size, e[3], f[4])
  OBVIOUS
<1>6. PICK new : new = [y \in State(size') |-> IF y = size THEN x ELSE lab[y]]
  OBVIOUS
<1>7. size \in Nat /\ size \notin State(size) /\ State(size') = State(size) \cup {size}
      /\ \A d \in trans : d[1] \in State(size)
  BY <1>1 DEF IInv, Result, State
<1>8. new[size] = x /\ \A y \in State(size) : new[y] = lab[y]
  BY <1>6, <1>7
<1>9. added[1] = q /\ added[2] = b /\ added[3] = size /\ trans' = trans \cup {added}
  BY <1>1
<1>10. ~ HasLoop(top.as)
  <2>1. <<e, f>>[1] = e
    OBVIOUS
  <2>2. HasLoop(top.as) => e[1] = e[3]
    BY <1>3, <2>1, LoopsOnly
  <2> QED BY <1>1, <1>3, <2>2
<1>11. \A d \in trans : d[1] = q => d[2] # b
  <2>1. Leaves(<<e, f>>, b)
    BY <1>1, <1>3 DEF Leaves
  <2>2. \A d \in trans : d[1] = q => ~ Leaves(<<e, f>>, d[2])
    BY <1>3 DEF Waiting
  <2> QED BY <2>1, <2>2
<1>12. \A p \in Alpha(top.as, top.tas) : ~ Stays(p, b)
  <2>1. \A p \in Alpha(top.as, top.tas) : p[1] \in A.trans /\ p[1][1] = top.as
    BY DEF Alpha, Frame
  <2> QED BY <1>10, <2>1 DEF Stays, HasLoop
<1>13. Shape(new)'
  <2> DEFINE m == <<b, e[3], f[4]>>
  <2>1. m[1] = b /\ <<m[2], m[3]>> = x
    OBVIOUS
  <2>2. m \in Moves(lab[q][1], lab[q][2])
    BY <1>3
  <2>3. \A p \in Alpha(lab[q][1], lab[q][2]) : ~ Stays(p, b)
    BY <1>3, <1>12
  <2>4. new = [y \in State(size') |-> IF y = size THEN <<m[2], m[3]>> ELSE lab[y]]
    BY <1>6, <2>1
  <2> HIDE DEF m, b
  <2> QED BY <1>1, <1>2, <1>3, <1>9, <1>11, <2>1, <2>2, <2>3, <2>4, ShapeWithNew
<1> HIDE DEF added, x
<1>14. Waiting(new, rest)'
  <2> DEFINE p == <<e, f>>
  <2>1. p[1] = e /\ p[2] = f
    OBVIOUS
  <2>2. ASSUME NEW d \in trans', d[1] = top.current, d \notin trans,
               NEW r \in rest.alpha
        PROVE  ~ Leaves(r, d[2])
    <3>1. d[2] = b
      BY <1>9, <2>2
    <3>2. r \in Alpha(top.as, top.tas) /\ r # p
      BY <1>3, <1>4, OwnAlpha
    <3>3. r[2][3] # b
      <4> HIDE DEF p
      <4> QED BY <1>1, <1>3, <2>1, <3>2, OneWay DEF p
    <3> QED BY <3>1, <3>3 DEF Leaves
  <2>3. \E d \in trans' : d[1] = top.current /\ d[2] = p[2][3]
    BY <1>9, <2>1
  <2>4. rest.alpha = top.alpha \ {p} /\ Place(rest) = Place(top)
    BY <1>3, <1>4
  <2>5. trans \subseteq trans' /\ new[top.current] = lab[top.current] /\ UNCHANGED input
    BY <1>1, <1>3, <1>8
  <2> HIDE DEF p
  <2> QED BY <1>3, <2>2, <2>3, <2>4, <2>5, RestWaiting
<1>15. Waiting(new, frame)'
  <2>1. \A d \in trans' : d[1] # size
    BY <1>3, <1>7, <1>9
  <2>2. new[size] = <<e[3], f[4]>>
    BY <1>8 DEF x
  <2> QED BY <1>1, <1>5, <2>1, <2>2, FreshWaiting
<1>16. stack' = Front(stack) \o <<rest, frame>> /\ acc' = Accepting(size, e[3], f[4])
  BY <1>1, <1>4, <1>5 DEF Calls
<1>17. AllWaiting(new)' /\ AllApart'
  <2>1. frame.current = size
    BY <1>5 DEF Frame
  <2>2. Place(rest) = Place(top)
    BY <1>3, <1>4
  <2>3. \A d \in trans' : d \in trans \/ d[1] = top.current
    BY <1>9
  <2>4. trans \subseteq trans' /\ UNCHANGED input
    BY <1>1
  <2> QED BY <1>2, <1>3, <1>8, <1>14, <1>15, <1>16, <2>1, <2>2, <2>3, <2>4, StackKept
<1>18. AllEnd(lab) => AllEnd(new)'
  <2> SUFFICES ASSUME AllEnd(lab) PROVE AllEnd(new)'
    OBVIOUS
  <2>1. \A d \in trans' : d \in trans \/ d[3] = size
    BY <1>9
  <2>2. acc' = acc \/ \E y : acc' = acc \cup {y} /\ EndsWith(new, y)'
    <3>1. PICK z : z = size
      OBVIOUS
    <3>2. CASE x \in Final
      <4>1. EndsAt(new[z])
        BY <1>3, <1>8, <3>1, <3>2, EndsHere DEF x
      <4>2. EndsAt(new[z])'
        BY <1>1, <4>1, EndsFixed
      <4>3. acc' = acc \cup {z}
        BY <1>16, <3>1, <3>2 DEF Accepting, Final, x
      <4> QED BY <4>2, <4>3 DEF EndsWith
    <3>3. CASE x \notin Final
      BY <1>16, <3>3 DEF Accepting, Final, x
    <3> QED BY <3>2, <3>3
  <2> QED BY <1>1, <1>8, <2>1, <2>2, EndsKept
<1>19. EndsTogether(A, T)' <=> EndsTogether(A, T)
  BY <1>1 DEF input
<1> QED BY <1>13, <1>17, <1>18, <1>19 DEF Told, AllTold

LEMMA ShapeFixed ==
  ASSUME UNCHANGED <<input, trans, size>>, NEW lab, Shape(lab)
  PROVE  Shape(lab)'
<1>1. Pairs' = Pairs /\ State(size)' = State(size)
  BY DEF input, Pairs, State
<1>2. Labelled1(lab)'
  BY <1>1, InputFixed DEF Shape, Labelled1
<1>3. TreeWithLoops(lab)'
  BY InputFixed DEF Shape, TreeWithLoops
<1>4. OneEach(lab)'
  BY InputFixed DEF Shape, OneEach, Stays
<1> QED BY <1>2, <1>3, <1>4 DEF Shape

(* A loops.                                                                *)
LEMMA LoopTold ==
  ASSUME IInv, OwnTurns, Plain(A, T), AllApart, NEW lab, Told(lab), Loop, pc' # "overflow"
  PROVE  AllTold'
<1>1. PICK e \in A.trans, f \in T.trans :
        /\ Pick(e, f) /\ f[3] # Epsilon /\ e[3] = top.as
        /\ trans' = trans \cup {<<top.current, f[3], top.current>>}
        /\ \/ stack' = Front(stack) \o <<Rest(e, f)>> /\ UNCHANGED <<acc, pc>>
           \/ Calls(top.current, top.as, f[4], Rest(e, f))
        /\ UNCHANGED <<input, size>>
  BY DEF Loop
<1>2. AllWaiting(lab) /\ Shape(lab)
  BY DEF Told
<1>3. /\ top \in Call(size) /\ Own(top) /\ top.current \in State(size) /\ stack # <<>>
      /\ e[1] = top.as /\ f[1] = top.tas /\ f[2] = e[2]
      /\ <<e, f>> \in top.alpha /\ <<e, f>> \in Alpha(top.as, top.tas)
      /\ Live(top.tas) /\ Waiting(lab, top) /\ lab[top.current] = <<top.as, top.tas>>
      /\ Place(Rest(e, f)) = Place(top) /\ Rest(e, f).alpha = top.alpha \ {<<e, f>>}
      /\ <<e[3], f[4]>> \in Pairs
  BY <1>1, <1>2, OnTop
<1>4. f[4] = top.tas /\ HasLoop(top.as)
  BY <1>1, <1>3 DEF Plain, LoopsTogether, HasLoop
<1>5. PICK rest : rest = Rest(e, f)
  OBVIOUS
<1>6. PICK frame :
        \/ /\ stack' = Front(stack) \o <<rest, frame>> /\ frame = Frame(top.current, top.as, top.tas)
           /\ acc' = Accepting(top.current, top.as, top.tas)
        \/ stack' = Front(stack) \o <<rest>> /\ frame = rest /\ acc' = acc
  <2>1. CASE Calls(top.current, top.as, f[4], Rest(e, f))
    BY <1>1, <1>4, <1>5, <2>1 DEF Calls
  <2>2. CASE stack' = Front(stack) \o <<Rest(e, f)>> /\ UNCHANGED <<acc, pc>>
    BY <1>5, <2>2
  <2> QED BY <1>1, <2>1, <2>2
<1> DEFINE q == top.current
           b == f[3]
           p == <<e, f>>
           added == <<q, b, q>>
<1>7. added[1] = q /\ added[2] = b /\ added[3] = q /\ trans' = trans \cup {added}
  BY <1>1
<1>8. p[1] = e /\ p[2] = f
  OBVIOUS
<1>9. Shape(lab)'
  <2>1. Stays(p, b) /\ p[2][4] = lab[q][2] /\ p \in Alpha(lab[q][1], lab[q][2])
    BY <1>1, <1>3, <1>4, <1>8 DEF Stays
  <2> HIDE DEF p, b
  <2> QED BY <1>1, <1>2, <1>3, <1>7, <2>1, ShapeWithLoop
<1> HIDE DEF added, p
<1>10. rest.alpha = top.alpha \ {p} /\ Place(rest) = Place(top)
  BY <1>3, <1>5 DEF p
<1>11. trans \subseteq trans' /\ UNCHANGED input
  BY <1>1
<1>12. Waiting(lab, rest)'
  <2>1. \A r \in rest.alpha : r[1][1] = r[1][3]
    BY <1>3, <1>4, <1>10, OwnAlpha, LoopsOnly
  <2>2. \A d \in trans', r \in rest.alpha : ~ Leaves(r, d[2])
    BY <2>1 DEF Leaves
  <2>3. \E d \in trans' : d[1] = top.current /\ d[2] = p[2][3]
    BY <1>7, <1>8
  <2> QED BY <1>3, <1>10, <1>11, <2>2, <2>3, RestWaiting
<1>13. Waiting(lab, frame)'
  <2>1. CASE frame = Frame(top.current, top.as, top.tas)
    BY <1>3, <1>4, <1>11, <2>1, FreshWaiting
  <2>2. CASE frame = rest
    BY <1>12, <2>2
  <2> QED BY <1>6, <2>1, <2>2
<1>14. AllWaiting(lab)' /\ AllApart'
  <2>1. Place(frame) = Place(top)
    BY <1>6, <1>10 DEF Frame, Place
  <2>2. \A d \in trans' : d \in trans \/ d[1] = top.current
    BY <1>7
  <2>3. stack' = Front(stack) \o <<rest>> \/ stack' = Front(stack) \o <<rest, frame>>
    BY <1>6
  <2> QED BY <1>2, <1>3, <1>4, <1>10, <1>11, <1>12, <1>13, <2>1, <2>2, <2>3, StackKept
<1>15. AllEnd(lab) => AllEnd(lab)'
  <2> SUFFICES ASSUME AllEnd(lab) PROVE AllEnd(lab)'
    OBVIOUS
  <2>1. Looping(lab[q])
    BY <1>3, <1>4 DEF Looping
  <2>2. \A d \in trans' : d \in trans \/ (d[3] \in State(size) /\ Looping(lab[d[3]]))
    BY <1>3, <1>7, <2>1
  <2>3. acc' = acc \/ \E y : acc' = acc \cup {y} /\ EndsWith(lab, y)'
    <3>1. PICK z : z = q
      OBVIOUS
    <3>2. CASE <<top.as, top.tas>> \in Final
      <4>1. lab[z] = <<top.as, top.tas>> /\ lab[z] \in Pairs
        BY <1>1, <1>3, <1>4, <3>1
      <4>2. EndsAt(lab[z])
        BY <3>2, <4>1, EndsHere
      <4>3. EndsAt(lab[z])'
        BY <1>11, <4>2, EndsFixed
      <4>4. acc' = acc \cup {z} \/ acc' = acc
        BY <1>6, <3>1 DEF Accepting
      <4> QED BY <4>3, <4>4 DEF EndsWith
    <3>3. CASE <<top.as, top.tas>> \notin Final
      BY <1>6, <3>3 DEF Accepting, Final
    <3> QED BY <3>2, <3>3
  <2> QED BY <1>11, <2>2, <2>3, EndsKept
<1>16. EndsTogether(A, T)' <=> EndsTogether(A, T)
  BY <1>1 DEF input
<1> QED BY <1>9, <1>14, <1>15, <1>16 DEF Told, AllTold

(* T erases a letter, after which it does nothing.                         *)
LEMMA EraseTold ==
  ASSUME IInv, OwnTurns, Plain(A, T), AllApart, NEW lab, Told(lab), Erase, pc' # "overflow"
  PROVE  AllTold'
<1>1. PICK e \in A.trans, f \in T.trans :
        /\ Pick(e, f) /\ f[3] = Epsilon
        /\ Calls(top.current, e[3], f[4], Rest(e, f))
        /\ UNCHANGED <<input, trans, size>>
  BY DEF Erase
<1>2. AllWaiting(lab) /\ Shape(lab)
  BY DEF Told
<1>3. /\ top \in Call(size) /\ Own(top) /\ top.current \in State(size) /\ stack # <<>>
      /\ Live(top.tas) /\ Waiting(lab, top) /\ lab[top.current] = <<top.as, top.tas>>
      /\ <<f[3], e[3], f[4]>> \in Moves(top.as, top.tas)
      /\ Place(Rest(e, f)) = Place(top) /\ Rest(e, f).alpha = top.alpha \ {<<e, f>>}
  BY <1>1, <1>2, OnTop
<1>4. ~ Live(f[4])
  BY <1>1 DEF Plain, Live
<1>5. PICK rest : rest = Rest(e, f)
  OBVIOUS
<1>6. PICK frame : frame = Frame(top.current, e[3], f[4])
  OBVIOUS
<1>7. /\ stack' = Front(stack) \o <<rest, frame>>
      /\ acc' = Accepting(top.current, e[3], f[4])
  BY <1>1, <1>5, <1>6 DEF Calls
<1>8. UNCHANGED input /\ trans' = trans /\ size' = size
  BY <1>1
<1>9. Shape(lab)'
  BY <1>2, <1>8, ShapeFixed
<1> DEFINE p == <<e, f>>
<1>10. p[2] = f /\ rest.alpha = top.alpha \ {p} /\ Place(rest) = Place(top)
  BY <1>3, <1>5
<1> HIDE DEF p
<1>11. Waiting(lab, rest)'
  BY <1>1, <1>3, <1>8, <1>10, RestWaiting
<1>12. Waiting(lab, frame)' /\ ~ Live(frame.tas)
  <2>1. ~ Live(frame.tas)
    BY <1>4, <1>6 DEF Frame
  <2>2. Waiting(lab, frame)'
    BY <1>8, <2>1, InputFixed DEF Waiting
  <2> QED BY <2>1, <2>2
<1>13. AllWaiting(lab)' /\ AllApart'
  BY <1>2, <1>3, <1>7, <1>8, <1>10, <1>11, <1>12, StackKept
<1>14. AllEnd(lab) => AllEnd(lab)'
  <2> SUFFICES ASSUME AllEnd(lab) PROVE AllEnd(lab)'
    OBVIOUS
  <2>1. acc' = acc \/ \E y : acc' = acc \cup {y} /\ EndsWith(lab, y)'
    <3>1. PICK z : z = top.current
      OBVIOUS
    <3>2. CASE <<e[3], f[4]>> \in Final
      <4> DEFINE m == <<f[3], e[3], f[4]>>
      <4>1. m[1] = Epsilon /\ <<m[2], m[3]>> \in Final
        BY <1>1, <3>2
      <4>2. lab[z] \in Pairs /\ m \in Moves(lab[z][1], lab[z][2])
        BY <1>2, <1>3, <3>1 DEF Shape, Labelled1
      <4> HIDE DEF m
      <4>3. EndsAt(lab[z])
        BY <4>1, <4>2, EndsErased
      <4>4. EndsAt(lab[z])'
        BY <1>8, <4>3, EndsFixed
      <4>5. acc' = acc \cup {z} \/ acc' = acc
        BY <1>7, <3>1 DEF Accepting
      <4> QED BY <4>4, <4>5 DEF EndsWith
    <3>3. CASE <<e[3], f[4]>> \notin Final
      BY <1>7, <3>3 DEF Accepting, Final
    <3> QED BY <3>2, <3>3
  <2> QED BY <1>8, <2>1, EndsKept
<1>15. EndsTogether(A, T)' <=> EndsTogether(A, T)
  BY <1>8 DEF input
<1> QED BY <1>9, <1>13, <1>14, <1>15 DEF Told, AllTold

(* T writes a letter without reading, after which it does nothing.         *)
LEMMA InsertFacts ==
  ASSUME IInv, OwnTurns, Plain(A, T), NEW lab, AllWaiting(lab), stack # <<>>, pc = "rec",
         top.alpha = {}, NEW f \in top.epsilon,
         NEW rest, rest = [top EXCEPT !.epsilon = @ \ {f}]
  PROVE  /\ top \in Call(size) /\ top.current \in State(size)
         /\ f \in T.trans /\ f[1] = top.tas /\ f[2] = Epsilon /\ f[3] \in Letter /\ f[3] # Epsilon
         /\ Live(top.tas) /\ ~ Live(f[4])
         /\ Waiting(lab, top) /\ lab[top.current] = <<top.as, top.tas>>
         /\ <<f[3], top.as, f[4]>> \in Moves(top.as, top.tas) /\ <<top.as, f[4]>> \in Pairs
         /\ Place(rest) = Place(top) /\ rest.alpha = {}
<1>1. top \in Call(size) /\ Own(top)
  BY LastFrame DEF OwnTurns
<1>2. f \in Frame(top.current, top.as, top.tas).epsilon
  BY <1>1 DEF Own
<1>3. f \in T.trans /\ f[1] = top.tas /\ f[2] = Epsilon
  BY <1>2 DEF Frame
<1>4. f[3] \in Letter /\ f[3] # Epsilon /\ f[4] \in State(T.na)
  BY <1>3, ImageAssumption DEF IInv, IsTransducer, State
<1>5. Live(top.tas) /\ ~ Live(f[4])
  BY <1>3 DEF Live, Plain
<1>6. Waiting(lab, top)
  <2>1. Len(stack) \in DOMAIN stack /\ top = stack[Len(stack)]
    BY DEF IInv, top, Last
  <2> QED BY <2>1 DEF AllWaiting
<1>7. lab[top.current] = <<top.as, top.tas>>
  BY <1>5, <1>6 DEF Waiting
<1>8. <<f[3], top.as, f[4]>> \in Moves(top.as, top.tas)
  BY <1>3 DEF Moves, Todo, Frame
<1>9. top.current \in State(size) /\ <<top.as, f[4]>> \in Pairs
  BY <1>1, <1>4 DEF Call, Pairs
<1>10. Place(rest) = Place(top) /\ rest.alpha = {}
  BY <1>1 DEF Call, Place
<1> QED BY <1>1, <1>3, <1>4, <1>5, <1>6, <1>7, <1>8, <1>9, <1>10

(* To a new state.                                                         *)
LEMMA InsertNewTold ==
  ASSUME IInv, OwnTurns, Plain(A, T), AllApart, NEW lab, Told(lab), pc' # "overflow",
         pc = "rec", stack # <<>>, top.alpha = {}, UNCHANGED input, NEW f \in top.epsilon,
         \A d \in trans : d[1] = top.current => d[2] # f[3],
         trans' = trans \cup {<<top.current, f[3], size>>}, size' = size + 1,
         NEW rest, rest = [top EXCEPT !.epsilon = @ \ {f}],
         Calls(size, top.as, f[4], rest)
  PROVE  AllTold'
<1>1. AllWaiting(lab) /\ Shape(lab)
  BY DEF Told
<1>2. /\ top.current \in State(size) /\ top \in Call(size)
      /\ f[3] # Epsilon /\ Live(top.tas) /\ ~ Live(f[4])
      /\ Waiting(lab, top) /\ lab[top.current] = <<top.as, top.tas>>
      /\ <<f[3], top.as, f[4]>> \in Moves(top.as, top.tas) /\ <<top.as, f[4]>> \in Pairs
      /\ Place(rest) = Place(top) /\ rest.alpha = {}
  BY <1>1, InsertFacts
<1> DEFINE q == top.current
           b == f[3]
           x == <<top.as, f[4]>>
           added == <<q, b, size>>
<1>3. PICK frame : frame = Frame(size, top.as, f[4])
  OBVIOUS
<1>4. PICK new : new = [y \in State(size') |-> IF y = size THEN x ELSE lab[y]]
  OBVIOUS
<1>5. size \in Nat /\ size \notin State(size) /\ State(size') = State(size) \cup {size}
  BY DEF IInv, Result, State
<1>6. new[size] = x /\ \A y \in State(size) : new[y] = lab[y]
  BY <1>4, <1>5
<1>7. added[1] = q /\ added[2] = b /\ added[3] = size /\ trans' = trans \cup {added}
  OBVIOUS
<1>8. \A p \in Alpha(top.as, top.tas) : ~ Stays(p, b)
  <2>1. \A p \in Alpha(top.as, top.tas) :
          p[2][3] # Epsilon => \E d \in trans : d[1] = top.current /\ d[2] = p[2][3]
    BY <1>2 DEF Waiting
  <2> QED BY <1>2, <2>1 DEF Stays
<1>9. Shape(new)'
  <2> DEFINE m == <<b, top.as, f[4]>>
  <2>1. m[1] = b /\ <<m[2], m[3]>> = x
    OBVIOUS
  <2>2. m \in Moves(lab[q][1], lab[q][2])
    BY <1>2
  <2>3. \A p \in Alpha(lab[q][1], lab[q][2]) : ~ Stays(p, b)
    BY <1>2, <1>8
  <2>4. new = [y \in State(size') |-> IF y = size THEN <<m[2], m[3]>> ELSE lab[y]]
    BY <1>4, <2>1
  <2>5. \A d \in trans : d[1] = q => d[2] # b
    OBVIOUS
  <2> HIDE DEF m, b
  <2> QED BY <1>1, <1>2, <1>7, <2>1, <2>2, <2>3, <2>4, <2>5, ShapeWithNew
<1> HIDE DEF added, x
<1>10. stack' = Front(stack) \o <<rest, frame>> /\ acc' = Accepting(size, top.as, f[4])
  BY <1>3 DEF Calls
<1>11. Waiting(new, rest)'
  <2>1. \E d \in trans' : d[1] = top.current /\ d[2] = f[3]
    BY <1>7
  <2>2. PICK p : p = <<0, f>>
    OBVIOUS
  <2>3. p[2][3] = f[3] /\ rest.alpha = top.alpha \ {p}
    BY <1>2, <2>2
  <2>4. new[top.current] = lab[top.current]
    BY <1>2, <1>6
  <2> QED BY <1>2, <2>1, <2>3, <2>4, RestWaiting
<1>12. ~ Live(frame.tas)
  BY <1>2, <1>3 DEF Frame
<1>13. Waiting(new, frame)'
  BY <1>12, InputFixed DEF Waiting
<1>14. AllWaiting(new)' /\ AllApart'
  <2>1. \A d \in trans' : d \in trans \/ d[1] = top.current
    BY <1>7
  <2> QED BY <1>1, <1>2, <1>6, <1>10, <1>11, <1>12, <1>13, <2>1, StackKept
<1>15. AllEnd(lab) => AllEnd(new)'
  <2> SUFFICES ASSUME AllEnd(lab) PROVE AllEnd(new)'
    OBVIOUS
  <2>1. \A d \in trans' : d \in trans \/ d[3] = size
    BY <1>7
  <2>2. acc' = acc \/ \E y : acc' = acc \cup {y} /\ EndsWith(new, y)'
    <3>1. PICK z : z = size
      OBVIOUS
    <3>2. CASE x \in Final
      <4>1. EndsAt(new[z])
        BY <1>2, <1>6, <3>1, <3>2, EndsHere DEF x
      <4>2. EndsAt(new[z])'
        BY <4>1, EndsFixed
      <4>3. acc' = acc \cup {z}
        BY <1>10, <3>1, <3>2 DEF Accepting, Final, x
      <4> QED BY <4>2, <4>3 DEF EndsWith
    <3>3. CASE x \notin Final
      BY <1>10, <3>3 DEF Accepting, Final, x
    <3> QED BY <3>2, <3>3
  <2> QED BY <1>6, <2>1, <2>2, EndsKept
<1>16. EndsTogether(A, T)' <=> EndsTogether(A, T)
  BY DEF input
<1> QED BY <1>9, <1>14, <1>15, <1>16 DEF Told, AllTold

(* To a state it knows.  If A loops there, and T can go on, it ends there. *)
LEMMA LoopingEnds ==
  ASSUME IInv, Plain(A, T), EndsTogether(A, T), NEW x \in Pairs, Looping(x),
         NEW as, NEW tas, NEW m \in Moves(as, tas), x = <<m[2], m[3]>>,
         NEW f \in T.trans, f[1] = tas, f[2] = Epsilon, f[3] = m[1], f[4] \in T.acc
  PROVE  x \in Final
<1>1. x[1] \in A.acc
  BY DEF Looping, HasLoop, EndsTogether
<1>2. x[2] = m[3] /\ x = <<x[1], x[2]>>
  BY DEF Pairs
<1>3. Live(m[3])
  BY <1>2 DEF Looping
<1>4. ASSUME NEW g \in Frame(0, as, tas).epsilon, m = <<g[3], as, g[4]>> PROVE FALSE
  <2>1. \A h \in Frame(0, as, tas).epsilon : h \in T.trans /\ h[2] = Epsilon
    BY DEF Frame
  <2>2. \A h \in T.trans : h[2] = Epsilon => ~ Live(h[4])
    BY DEF Plain, Live
  <2>3. m[3] = g[4]
    BY <1>4
  <2> QED BY <1>3, <2>1, <2>2, <2>3
<1>5. PICK p \in Alpha(as, tas) : m = <<p[2][3], p[1][3], p[2][4]>>
  <2>1. Frame(0, as, tas).as = as
    BY DEF Frame
  <2> QED BY <1>4, <2>1 DEF Moves, Todo, Alpha
<1>6. /\ p[1] \in A.trans /\ p[2] \in T.trans /\ p[2][1] = tas /\ p[2][2] = p[1][2]
      /\ p[2][3] = f[3] /\ p[2][4] = x[2]
  BY <1>2, <1>5 DEF Alpha, Frame
<1>7. p[2][2] # Epsilon
  BY <1>6, ImageAssumption DEF IInv, IsAutomaton
<1>8. p[2][4] \in T.acc
  BY <1>6, <1>7 DEF EndsTogether
<1> QED BY <1>1, <1>2, <1>6, <1>8 DEF Final

LEMMA InsertKnownTold ==
  ASSUME IInv, OwnTurns, Plain(A, T), AllApart, NEW lab, Told(lab), pc' # "overflow",
         pc = "rec", stack # <<>>, top.alpha = {}, UNCHANGED <<input, trans, size>>,
         NEW f \in top.epsilon,
         NEW d \in trans, d[1] = top.current, d[2] = f[3],
         NEW rest, rest = [top EXCEPT !.epsilon = @ \ {f}],
         Calls(d[3], top.as, f[4], rest)
  PROVE  AllTold'
<1>1. AllWaiting(lab) /\ Shape(lab)
  BY DEF Told
<1>2. /\ top.current \in State(size) /\ top \in Call(size)
      /\ f \in T.trans /\ f[1] = top.tas /\ f[2] = Epsilon
      /\ f[3] # Epsilon /\ Live(top.tas) /\ ~ Live(f[4])
      /\ Waiting(lab, top) /\ lab[top.current] = <<top.as, top.tas>>
      /\ <<f[3], top.as, f[4]>> \in Moves(top.as, top.tas)
      /\ Place(rest) = Place(top) /\ rest.alpha = {}
  BY <1>1, InsertFacts
<1>3. Shape(lab)'
  BY <1>1, ShapeFixed
<1>4. PICK frame : frame = Frame(d[3], top.as, f[4])
  OBVIOUS
<1>5. stack' = Front(stack) \o <<rest, frame>> /\ acc' = Accepting(d[3], top.as, f[4])
  BY <1>4 DEF Calls
<1>6. Waiting(lab, rest)'
  <2>1. PICK p : p = <<0, f>>
    OBVIOUS
  <2>2. p[2][3] = f[3] /\ rest.alpha = top.alpha \ {p}
    BY <1>2, <2>1
  <2> QED BY <1>2, <2>2, RestWaiting
<1>7. ~ Live(frame.tas)
  BY <1>2, <1>4 DEF Frame
<1>8. Waiting(lab, frame)'
  BY <1>7, InputFixed DEF Waiting
<1>9. AllWaiting(lab)' /\ AllApart'
  BY <1>1, <1>2, <1>5, <1>6, <1>7, <1>8, StackKept
<1>10. ASSUME EndsTogether(A, T), <<top.as, f[4]>> \in Final PROVE EndsWith(lab, d[3])
  <2>1. PICK m \in Moves(top.as, top.tas) : d[2] = m[1] /\ lab[d[3]] = <<m[2], m[3]>>
    <3>1. lab[d[1]][1] = top.as /\ lab[d[1]][2] = top.tas
      BY <1>2
    <3> QED BY <1>1, <3>1 DEF Shape, Labelled1
  <2>2. d[3] \in State(size) /\ lab[d[3]] \in Pairs
    BY <1>1 DEF Shape, Labelled1, IInv, Result
  <2>3. CASE Looping(lab[d[3]])
    <3>1. f[3] = m[1] /\ f[4] \in T.acc
      BY <1>10, <2>1 DEF Final
    <3>2. lab[d[3]] \in Final
      BY <1>2, <1>10, <2>1, <2>2, <2>3, <3>1, LoopingEnds
    <3> QED BY <2>2, <3>2, EndsHere DEF EndsWith
  <2>4. CASE ~ Looping(lab[d[3]])
    <3>1. ASSUME NEW g \in trans, g[3] = d[3] PROVE g = d
      <4>1. \A h \in trans : h[3] = d[3] => h[1] # h[3]
        BY <1>1, <2>4 DEF Shape, TreeWithLoops, Looping
      <4> QED BY <1>1, <3>1, <4>1 DEF Shape, TreeWithLoops
    <3>2. d[3] # 0
      BY <1>1, <2>4 DEF Shape, TreeWithLoops, Looping
    <3>3. EndsAfter(lab[d[1]], d[2])
      <4> DEFINE n == <<f[3], top.as, f[4]>>
      <4>1. n[1] = f[3] /\ <<n[2], n[3]>> = <<top.as, f[4]>>
        OBVIOUS
      <4>2. lab[d[1]] \in Pairs /\ n \in Moves(lab[d[1]][1], lab[d[1]][2])
        BY <1>1, <1>2 DEF Shape, Labelled1
      <4> HIDE DEF n
      <4> QED BY <1>2, <1>10, <4>1, <4>2, EndsWritten
    <3> QED BY <2>4, <3>1, <3>2, <3>3 DEF EndsWith
  <2> QED BY <2>3, <2>4
<1>11. EndsTogether(A, T) /\ AllEnd(lab) => AllEnd(lab)'
  <2> SUFFICES ASSUME EndsTogether(A, T), AllEnd(lab) PROVE AllEnd(lab)'
    OBVIOUS
  <2>1. acc' = acc \/ \E y : acc' = acc \cup {y} /\ EndsWith(lab, y)'
    <3>1. PICK z : z = d[3]
      OBVIOUS
    <3>2. CASE <<top.as, f[4]>> \in Final
      <4>1. EndsWith(lab, z)'
        BY <1>10, <3>1, <3>2, EndsFixed DEF EndsWith
      <4>2. acc' = acc \cup {z} \/ acc' = acc
        BY <1>5, <3>1 DEF Accepting
      <4> QED BY <4>1, <4>2
    <3>3. CASE <<top.as, f[4]>> \notin Final
      BY <1>5, <3>3 DEF Accepting, Final
    <3> QED BY <3>2, <3>3
  <2> QED BY <2>1, EndsKept
<1>12. EndsTogether(A, T)' <=> EndsTogether(A, T)
  BY DEF input
<1> QED BY <1>3, <1>9, <1>11, <1>12 DEF Told, AllTold

LEMMA InsertTold ==
  ASSUME IInv, OwnTurns, Plain(A, T), AllApart, NEW lab, Told(lab), Insert, pc' # "overflow"
  PROVE  AllTold'
<1> DEFINE known(f) == {e \in trans : e[1] = top.current /\ e[2] = f[3]}
           left(f) == [top EXCEPT !.epsilon = @ \ {f}]
<1>1. PICK f \in top.epsilon :
        \E q \in IF known(f) = {} THEN {size} ELSE {e[3] : e \in known(f)} :
          /\ trans' = trans \cup {<<top.current, f[3], q>>}
          /\ size' = IF q = size THEN size + 1 ELSE size
          /\ Calls(q, top.as, f[4], left(f))
  BY DEF Insert
<1>2. PICK q \in IF known(f) = {} THEN {size} ELSE {e[3] : e \in known(f)} :
        /\ trans' = trans \cup {<<top.current, f[3], q>>}
        /\ size' = IF q = size THEN size + 1 ELSE size
        /\ Calls(q, top.as, f[4], left(f))
  BY <1>1
<1>3. pc = "rec" /\ stack # <<>> /\ top.alpha = {} /\ UNCHANGED input
  BY DEF Insert
<1>4. PICK rest : rest = left(f)
  OBVIOUS
<1>5. CASE known(f) = {}
  <2>1. q = size /\ \A d \in trans : d[1] = top.current => d[2] # f[3]
    BY <1>2, <1>5
  <2>2. trans' = trans \cup {<<top.current, f[3], size>>} /\ size' = size + 1
    BY <1>2, <2>1
  <2>3. Calls(size, top.as, f[4], rest)
    BY <1>2, <1>4, <2>1
  <2> QED BY <1>3, <1>4, <2>1, <2>2, <2>3, InsertNewTold
<1>6. CASE known(f) # {}
  <2>1. PICK d \in trans : d[1] = top.current /\ d[2] = f[3] /\ d[3] = q
    BY <1>2, <1>6
  <2>2. d = <<d[1], d[2], d[3]>> /\ d[3] # size
    BY DEF IInv, Result, State
  <2>3. UNCHANGED <<input, trans, size>>
    BY <1>2, <1>3, <2>1, <2>2
  <2>4. Calls(d[3], top.as, f[4], rest)
    BY <1>2, <1>4, <2>1
  <2> QED BY <1>3, <1>4, <2>1, <2>3, <2>4, InsertKnownTold
<1> QED BY <1>5, <1>6

(* The other steps.                                                        *)
LEMMA QuietTold ==
  ASSUME IInv, AllTold, Leave \/ Return \/ Stopped \/ UNCHANGED vars
  PROVE  AllTold'
<1>1. UNCHANGED <<input, trans, acc, size>>
  BY DEF Leave, Return, Stopped, vars
<1>2. PICK lab : Told(lab)
  BY DEF AllTold
<1>3. \A i \in DOMAIN stack' : i \in DOMAIN stack /\ stack'[i] = stack[i]
  <2>1. CASE Leave
    BY <2>1 DEF Leave, Front, IInv
  <2>2. CASE Return \/ Stopped \/ UNCHANGED vars
    BY <2>2 DEF Return, Stopped, vars
  <2> QED BY <2>1, <2>2
<1>4. Shape(lab)'
  BY <1>1, <1>2, ShapeFixed DEF Told
<1>5. ASSUME NEW c, Waiting(lab, c) PROVE Waiting(lab, c)'
  BY <1>1, <1>5, InputFixed DEF Waiting, Leaves
<1>6. AllWaiting(lab)'
  <2>1. ASSUME NEW i \in DOMAIN stack', NEW c, c = stack'[i] PROVE Waiting(lab, c)'
    <3>1. Waiting(lab, c)
      BY <1>2, <1>3, <2>1 DEF Told, AllWaiting
    <3> QED BY <1>5, <3>1
  <2> QED BY <2>1 DEF AllWaiting, Waiting
<1>7. AllApart'
  <2>1. ASSUME NEW i \in DOMAIN stack', NEW j \in DOMAIN stack', i # j,
               NEW c, c = stack'[i], NEW d, d = stack'[j]
        PROVE  Apart(c, d)'
    <3>1. Apart(c, d)
      BY <1>3, <2>1 DEF AllTold, AllApart
    <3> QED BY <1>1, <3>1, InputFixed
  <2> QED BY <2>1 DEF AllApart, Apart
<1>8. AllEnd(lab) => AllEnd(lab)'
  BY <1>1, EndsKept
<1>9. EndsTogether(A, T)' <=> EndsTogether(A, T)
  BY <1>1 DEF input
<1> QED BY <1>2, <1>4, <1>6, <1>7, <1>8, <1>9 DEF Told, AllTold

LEMMA ToldAtFirst == Init => AllTold
<1> SUFFICES ASSUME Init PROVE AllTold
  OBVIOUS
<1>1. IInv
  BY Initially
<1>2. /\ trans = {} /\ size = 1 /\ State(size) = {0} /\ <<0, 0>> \in Pairs
      /\ DOMAIN stack = {1} /\ stack[1] = Frame(0, 0, 0)
  BY <1>1 DEF Init, IInv, State, Pairs, IsAutomaton, IsTransducer
<1> DEFINE lab == [x \in State(size) |-> <<0, 0>>]
<1>3. lab \in [State(size) -> Pairs] /\ lab[0] = <<0, 0>>
  BY <1>2
<1> HIDE DEF lab
<1>4. Shape(lab)
  BY <1>2, <1>3 DEF Shape, Labelled1, TreeWithLoops, OneEach
<1>5. AllWaiting(lab)
  <2>1. Waiting(lab, Frame(0, 0, 0))
    BY <1>2, <1>3 DEF Waiting, Alpha, Frame
  <2> QED BY <1>2, <2>1 DEF AllWaiting
<1>6. AllApart
  BY <1>2 DEF AllApart
<1>7. AllEnd(lab)
  <2>1. \A q \in acc : q = 0 /\ <<0, 0>> \in Final
    BY DEF Init, Final
  <2> QED BY <1>1, <1>2, <1>3, <2>1, EndsHere DEF AllEnd, EndsWith
<1> QED BY <1>4, <1>5, <1>6, <1>7 DEF Told, AllTold

PlainInv == IInv /\ OwnTurns /\ (Plain(A, T) /\ pc # "overflow" => AllTold)

LEMMA PlainAtFirst == Init => PlainInv
BY Initially, LabelsAtFirst, ToldAtFirst DEF PlainInv

LEMMA PlainKept == PlainInv /\ [Next]_vars => PlainInv'
<1> SUFFICES ASSUME PlainInv, [Next]_vars PROVE PlainInv'
  OBVIOUS
<1>1. IInv /\ OwnTurns /\ IInv'
  BY StepKeeps DEF PlainInv
<1>2. UNCHANGED input
  BY InputKept
<1>3. OwnTurns'
  <2>1. CASE Erase \/ Loop \/ Emit \/ Insert
    <3>1. PICK m, q, rest : Turn(m, q, rest)
      BY <1>1, <2>1, EveryTurn
    <3> QED BY <1>1, <3>1, OwnTurnsKept
  <2>2. CASE Leave \/ Return \/ Stopped \/ UNCHANGED vars
    <3>1. Frames' \subseteq Frames
      BY <1>1, <2>2, QuietFrames
    <3> QED BY <1>1, <1>2, <3>1, InputFixed DEF OwnTurns, Own
  <2> QED BY <2>1, <2>2 DEF Next
<1>4. ASSUME Plain(A, T)', pc' # "overflow" PROVE AllTold'
  <2>1. Plain(A, T)
    BY <1>2, <1>4 DEF input
  <2>2. pc # "overflow"
    BY <1>4 DEF Next, Erase, Loop, Emit, Insert, Pick, Leave, Return, Stopped, vars
  <2>3. AllApart
    BY <2>1, <2>2 DEF PlainInv, AllTold
  <2>4. PICK lab : Told(lab)
    BY <2>1, <2>2 DEF PlainInv, AllTold
  <2>5. CASE Erase
    BY <1>1, <1>4, <2>1, <2>3, <2>4, <2>5, EraseTold
  <2>6. CASE Loop
    BY <1>1, <1>4, <2>1, <2>3, <2>4, <2>6, LoopTold
  <2>7. CASE Emit
    BY <1>1, <1>4, <2>1, <2>3, <2>4, <2>7, EmitTold
  <2>8. CASE Insert
    BY <1>1, <1>4, <2>1, <2>3, <2>4, <2>8, InsertTold
  <2>9. CASE Leave \/ Return \/ Stopped \/ UNCHANGED vars
    BY <1>1, <2>1, <2>2, <2>9, QuietTold DEF PlainInv
  <2> QED BY <2>5, <2>6, <2>7, <2>8, <2>9 DEF Next
<1> QED BY <1>1, <1>3, <1>4 DEF PlainInv

(* Image hands over a deterministic automaton if A and T are plain, loops  *)
(* or not, in whatever order it looks at their transitions.                *)
THEOREM FlagsHonestIfPlain == Spec => []FlagHonestIfPlain
<1>1. PlainInv => FlagHonestIfPlain
  <2> SUFFICES ASSUME PlainInv, Plain(A, T), pc = "done" PROVE FlagHonest
    BY DEF FlagHonestIfPlain, FlagHonest
  <2>1. PICK lab : Told(lab)
    BY DEF PlainInv, AllTold
  <2> QED BY <2>1 DEF Told, Shape, OneEach, FlagHonest
<1> QED BY <1>1, PlainAtFirst, PlainKept, PTL DEF Spec

-----------------------------------------------------------------------------
(* The labels read                                                         *)

LEMMA WritesMore ==
  ASSUME NEW r, NEW s, r \subseteq s, NEW b
  PROVE  Writes(r, b) \subseteq Writes(s, b)
<1> DEFINE Both(x) == {p \in A.trans \X T.trans :
                         <<p[1][1], p[2][1]>> \in x /\ p[2][2] = p[1][2] /\ p[2][3] = b}
           Alone(x) == {p \in x \X T.trans :
                          p[2][1] = p[1][2] /\ p[2][2] = Epsilon /\ p[2][3] = b}
<1>1. Both(r) \subseteq Both(s)
  OBVIOUS
<1>2. Alone(r) \subseteq Alone(s)
  OBVIOUS
<1>3. \A x : Writes(x, b) = {<<m[1][3], m[2][4]>> : m \in Both(x)}
                              \cup {<<m[1][1], m[2][4]>> : m \in Alone(x)}
  BY DEF Writes
<1> HIDE DEF Both, Alone
<1> QED BY <1>1, <1>2, <1>3

LEMMA LabelsReached ==
  ASSUME IInv, NEW lab, Labelled1(lab), NEW v \in Seq(Letter),
         NEW q \in Reach(v)
  PROVE  /\ q \in State(size) /\ lab[q] \in ImageReach(v)
         /\ ImageReach(v) \in SUBSET Pairs /\ Erases(ImageReach(v)) \subseteq ImageReach(v)
         /\ \/ q = 0
            \/ \E d \in trans : d[3] = q /\ Silent(Writes({lab[d[1]]}, d[2])) \subseteq ImageReach(v)
<1>1. PICK r : /\ \A i \in 0..Len(v) : r[i] \in SUBSET State(size)
               /\ r[0] = {0}
               /\ \A i \in 1..Len(v) : r[i] = After(r[i - 1], v[i])
               /\ Reach(v) = r[Len(v)]
  BY ReachStates
<1>2. PICK s : /\ \A i \in 0..Len(v) : s[i] \in SUBSET Pairs
               /\ s[0] = Silent({<<0, 0>>})
               /\ \A i \in 1..Len(v) : s[i] = Silent(Writes(s[i - 1], v[i]))
               /\ ImageReach(v) = s[Len(v)]
  BY ImageReachStates
<1>3. Len(v) \in Nat
  OBVIOUS
<1>4. <<0, 0>> \in Pairs /\ lab[0] = <<0, 0>> /\ \A x \in State(size) : lab[x] \in Pairs
  <2>1. <<0, 0>> \in Pairs
    BY DEF IInv, IsAutomaton, IsTransducer, Pairs, State
  <2> QED BY <2>1 DEF Labelled1
<1>5. ASSUME NEW i \in 0..Len(v) - 1, NEW d \in trans, lab[d[1]] \in s[i], d[2] = v[i + 1]
      PROVE  /\ lab[d[3]] \in s[i + 1]
             /\ Silent(Writes({lab[d[1]]}, d[2])) \subseteq s[i + 1]
  <2>1. i + 1 \in 1..Len(v) /\ i \in 0..Len(v) /\ (i + 1) - 1 = i
    BY <1>3
  <2>2. s[i + 1] = Silent(Writes(s[i], v[i + 1])) /\ s[i] \in SUBSET Pairs /\ v[i + 1] \in Letter
    BY <1>2, <2>1
  <2> DEFINE c == lab[d[1]]
             S == s[i]
             N == s[i + 1]
             b == v[i + 1]
  <2>3. c \in S /\ S \in SUBSET Pairs /\ N = Silent(Writes(S, b)) /\ b \in Letter /\ d[2] = b
    BY <1>5, <2>2
  <2>4. PICK m \in Moves(c[1], c[2]) : d[2] = m[1] /\ lab[d[3]] = <<m[2], m[3]>>
    BY DEF Labelled1
  <2> HIDE DEF c, S, N, b
  <2>5. lab[d[3]] \in Writes(S, b)
    <3>1. m[1] # Epsilon
      BY <2>3, <2>4, ImageAssumption
    <3> QED BY <2>3, <2>4, <3>1, MovesAreSteps
  <2>6. Writes(S, b) \in SUBSET Pairs /\ Writes({c}, b) \in SUBSET Pairs
    BY <2>3, StepsType
  <2>7. Writes(S, b) \subseteq N /\ N \in SUBSET Pairs /\ Erases(N) \subseteq N
    BY <2>3, <2>6, SilentLeast
  <2>8. Writes({c}, b) \subseteq Writes(S, b)
    BY <2>3, WritesMore
  <2>9. Silent(Writes({c}, b)) \subseteq N
    <3>1. Writes({c}, b) \subseteq N
      BY <2>7, <2>8
    <3> QED BY <2>6, <2>7, <3>1, SilentLeast
  <2> QED BY <2>3, <2>5, <2>7, <2>9 DEF c, N
<1> DEFINE Known(x) == {d \in trans : d[3] = x}
           K == {i \in 0..Len(v) : \A x \in r[i] :
                   /\ lab[x] \in s[i]
                   /\ \/ x = 0
                      \/ \E d \in Known(x) : Silent(Writes({lab[d[1]]}, d[2])) \subseteq s[i]}
<1>6. 0 \in K
  <2>1. <<0, 0>> \in s[0]
    BY <1>2, <1>4, SilentLeast
  <2> QED BY <1>1, <1>3, <1>4, <2>1
<1>7. ASSUME NEW i \in 0..Len(v) - 1, i \in K PROVE i + 1 \in K
  <2>1. i + 1 \in 1..Len(v) /\ i + 1 \in 0..Len(v) /\ (i + 1) - 1 = i
    BY <1>3
  <2>2. r[i + 1] = After(r[i], v[i + 1])
    BY <1>1, <2>1
  <2>3. \A x \in r[i] : lab[x] \in s[i]
    BY <1>7
  <2>4. ASSUME NEW x \in r[i + 1]
        PROVE  /\ lab[x] \in s[i + 1]
               /\ \E d \in Known(x) : Silent(Writes({lab[d[1]]}, d[2])) \subseteq s[i + 1]
    <3>1. PICK d \in trans : d[1] \in r[i] /\ d[2] = v[i + 1] /\ d[3] = x
      BY <2>2, <2>4 DEF After
    <3>2. lab[d[3]] \in s[i + 1] /\ Silent(Writes({lab[d[1]]}, d[2])) \subseteq s[i + 1]
      BY <1>5, <2>3, <3>1
    <3> QED BY <3>1, <3>2
  <2> HIDE DEF Known
  <2> QED BY <2>1, <2>4
<1> HIDE DEF K
<1>8. 0..Len(v) \subseteq K
  BY <1>3, <1>6, <1>7, IntervalInduction
<1>9. Len(v) \in K /\ Len(v) \in 0..Len(v)
  BY <1>3, <1>8
<1>10. q \in r[Len(v)]
  BY <1>1
<1>11. lab[q] \in ImageReach(v)
       /\ (q = 0 \/ \E d \in trans : d[3] = q /\ Silent(Writes({lab[d[1]]}, d[2])) \subseteq ImageReach(v))
  <2> HIDE DEF Known
  <2>1. \A x \in r[Len(v)] :
          /\ lab[x] \in s[Len(v)]
          /\ \/ x = 0
             \/ \E d \in Known(x) : Silent(Writes({lab[d[1]]}, d[2])) \subseteq s[Len(v)]
    BY <1>9 DEF K
  <2>2. lab[q] \in s[Len(v)]
        /\ (q = 0 \/ \E d \in Known(q) : Silent(Writes({lab[d[1]]}, d[2])) \subseteq s[Len(v)])
    BY <1>10, <2>1
  <2> QED BY <1>2, <2>2 DEF Known
<1>12. ImageReach(v) \in SUBSET Pairs /\ Erases(ImageReach(v)) \subseteq ImageReach(v)
  <2>1. \A i \in 0..Len(v) : Erases(s[i]) \subseteq s[i]
    <3> TAKE i \in 0..Len(v)
    <3>1. CASE i = 0
      <4>1. {<<0, 0>>} \in SUBSET Pairs
        BY <1>4
      <4> QED BY <1>2, <3>1, <4>1, SilentLeast
    <3>2. CASE i # 0
      <4>1. i \in 1..Len(v) /\ i - 1 \in 0..Len(v)
        BY <1>3, <3>2
      <4>2. s[i] = Silent(Writes(s[i - 1], v[i])) /\ s[i - 1] \in SUBSET Pairs /\ v[i] \in Letter
        BY <1>2, <4>1
      <4>3. Writes(s[i - 1], v[i]) \in SUBSET Pairs
        BY <4>2, StepsType
      <4> QED BY <4>2, <4>3, SilentLeast
    <3> QED BY <3>1, <3>2
  <2> QED BY <1>2, <1>9, <2>1
<1> QED BY <1>1, <1>9, <1>10, <1>11, <1>12

(* Whatever loops: plain A and T that end together have a sound image.     *)
THEOREM PlainImageSound ==
  ASSUME \A x \in Inputs : Plain(x[1], x[2]) /\ EndsTogether(x[1], x[2])
  PROVE  Spec => []ImageSound
<1> DEFINE Both == Plain(A, T) /\ EndsTogether(A, T)
<1>1. Init => Both
  BY DEF Init
<1>2. Both /\ [Next]_vars => Both'
  BY InputKept DEF input
<1>3. PlainInv /\ Both => ImageSound
  <2> SUFFICES ASSUME PlainInv, Plain(A, T), EndsTogether(A, T), pc = "done",
                      NEW v \in WordsUpTo(MaxLength), InResult(v)
               PROVE  InImage(v)
    BY DEF ImageSound
  <2>1. IInv /\ v \in Seq(Letter)
    BY WordsAreSequences DEF PlainInv
  <2>2. PICK lab : Told(lab)
    BY DEF PlainInv, AllTold
  <2>3. Labelled1(lab) /\ AllEnd(lab)
    BY <2>2 DEF Told, Shape
  <2>4. PICK q \in acc : q \in Reach(v)
    BY DEF InResult
  <2>5. /\ q \in State(size) /\ lab[q] \in ImageReach(v)
        /\ ImageReach(v) \in SUBSET Pairs /\ Erases(ImageReach(v)) \subseteq ImageReach(v)
        /\ \/ q = 0
           \/ \E d \in trans : d[3] = q /\ Silent(Writes({lab[d[1]]}, d[2])) \subseteq ImageReach(v)
    BY <2>1, <2>3, <2>4, LabelsReached
  <2>6. CASE EndsAt(lab[q])
    <3>1. Silent({lab[q]}) \subseteq ImageReach(v)
      <4>1. {lab[q]} \in SUBSET Pairs /\ {lab[q]} \subseteq ImageReach(v)
        BY <2>5
      <4> QED BY <2>1, <2>5, <4>1, SilentLeast
    <3> QED BY <2>6, <3>1 DEF EndsAt, Final, InImage
  <2>7. CASE q # 0 /\ \A d \in trans : d[3] = q => EndsAfter(lab[d[1]], d[2])
    <3>1. PICK d \in trans : d[3] = q /\ Silent(Writes({lab[d[1]]}, d[2])) \subseteq ImageReach(v)
      BY <2>5, <2>7
    <3> QED BY <2>7, <3>1 DEF EndsAfter, Final, InImage
  <2> QED BY <2>3, <2>6, <2>7 DEF AllEnd, EndsWith
<1> QED BY <1>1, <1>2, <1>3, PlainAtFirst, PlainKept, PTL DEF Spec

=============================================================================
