------------------------------ MODULE Minimize ------------------------------
(***************************************************************************)
(* MinimizationOperations.minimizeHopcroft, which every automaton of the   *)
(* games and every image goes through.                                     *)
(*                                                                         *)
(* The array `active' is Active: the states of a block that some state     *)
(* reaches by a letter.  `pending2' tells whether a pair is in `pending'.  *)
(***************************************************************************)
EXTENDS Automata

CONSTANT Inputs   \* the automata to minimize

VARIABLES
  a,         \* the automaton: the argument, then made total, then the result
  input,     \* the argument, as it was
  delta,     \* qq.step(sigma[x]) for each state and letter
  block,     \* the block of each state
  k,         \* the number of the next block
  pending,   \* the queue of pairs <<block, letter>> to split by
  split,     \* the states that the current pair splits off
  refine,    \* the blocks of theirs that are still to be refined
  pc

loop == <<delta, block, k, pending, split, refine>>

vars == <<a, input, loop, pc>>

State == DOMAIN block

(* The letters of a.getStartPoints, in order.                              *)
Sigma(d) ==
  LET points == StartPoints(d)
      below(c) == {b \in points : b < c}
  IN  [i \in 1..Cardinality(points) |-> CHOOSE c \in points : Cardinality(below(c)) = i - 1]

IsLoop(d) == {t \in d.trans : t[1] = d.q0} = {<<d.q0, 0, MaxChar, d.q0>>}

(* Each automaton is one, deterministic if it counts as such; if its       *)
(* initial state reads all letters and stays, then by one transition, as   *)
(* the early return looks for one.                                         *)
ASSUME InputsAssumption ==
  \A d \in Inputs :
    /\ IsAutomaton(d, Nat)
    /\ IsHonest(d)
    /\ d.det /\ LettersFrom(d, d.q0, d.q0) = Char => IsLoop(d)

Letter == UNION {DOMAIN delta[q] : q \in State}

Members(b, j) == {q \in DOMAIN b : b[q] = j}

(* The part of block j of b that is reached by x along d.                  *)
Active(d, b, j, x) == {q \in Members(b, j) : \E s \in DOMAIN b : d[s][x] = q}

Size(d, b, j, x) == Cardinality(Active(d, b, j, x))

-----------------------------------------------------------------------------
(* A singleton is left as it is, and so is an automaton with one state     *)
(* that reads everything.                                                  *)
StartMinimal ==
  /\ pc = "start"
  /\ IsSingleton(a) \/ IsLoop(Determinize(a))
  /\ a' = Determinize(a)
  /\ pc' = "done"
  /\ UNCHANGED <<input, loop>>

StartBlock(t) == [q \in GetStates(t) |-> IF q \in t.acc THEN 0 ELSE 1]

Start ==
  /\ pc = "start"
  /\ ~ IsSingleton(a) /\ ~ IsLoop(Determinize(a))
  /\ LET t == Totalize(Determinize(a))
         sigma == Sigma(t)
         d == [q \in GetStates(t) |->
                 [c \in ToSet(sigma) |-> CHOOSE r \in GetStates(t) : r \in Step(t, {q}, c)]]
         b == StartBlock(t)
     IN  /\ a' = t
         /\ delta' = d
         /\ block' = b
         /\ pending' = [x \in DOMAIN sigma |->
                          <<IF Size(d, b, 0, sigma[x]) <= Size(d, b, 1, sigma[x]) THEN 0 ELSE 1,
                            sigma[x]>>]
  /\ k' = 2
  /\ pc' = "loop"
  /\ UNCHANGED <<input, split, refine>>

(* Faulty: only one state of block p is looked at,                         *)
TakeFirst ==
  /\ pc = "loop" /\ refine = {} /\ pending # <<>>
  /\ \E first \in State :
       /\ Members(block, Head(pending)[1]) = {} \/ block[first] = Head(pending)[1]
       /\ split' = {s \in State : delta[s][Head(pending)[2]] = first}
  /\ refine' = {block[s] : s \in split'}
  /\ pending' = Tail(pending)
  /\ UNCHANGED <<a, input, delta, block, k, pc>>

(* or the pair stays in the queue.                                         *)
TakeAgain ==
  /\ pc = "loop" /\ refine = {} /\ pending # <<>>
  /\ LET p == Head(pending)[1]
         x == Head(pending)[2]
     IN  /\ split' = {s \in State : block[delta[s][x]] = p}
         /\ refine' = {block[s] : s \in split'}
  /\ UNCHANGED <<a, input, delta, block, k, pending, pc>>

(* The states that reach block p by x are to be split off their blocks.    *)
Take ==
  /\ pc = "loop" /\ refine = {} /\ pending # <<>>
  /\ LET p == Head(pending)[1]
         x == Head(pending)[2]
     IN  /\ split' = {s \in State : block[delta[s][x]] = p}
         /\ refine' = {block[s] : s \in split'}
  /\ pending' = Tail(pending)
  /\ UNCHANGED <<a, input, delta, block, k, pc>>

(* Faulty: only one part of a block, whether or not it was in the queue.   *)
SmallerOnly(b, j, c) ==
  IF Size(delta, b, j, c) <= Size(delta, b, k, c) THEN <<j, c>> ELSE <<k, c>>

(* What a split of j into j and k adds to the queue, for each letter.      *)
Smaller(b, j, c) ==
  IF /\ <<j, c>> \notin ToSet(pending)
     /\ 0 < Size(delta, b, j, c)
     /\ Size(delta, b, j, c) <= Size(delta, b, k, c)
  THEN <<j, c>> ELSE <<k, c>>

(* Faulty: a block whose states are all split off is split too.            *)
RefineAlways ==
  /\ pc = "loop"
  /\ \E j \in refine :
       /\ block' = [q \in State |-> IF q \in split /\ block[q] = j THEN k ELSE block[q]]
       /\ k' = k + 1
       /\ refine' = refine \ {j}
  /\ UNCHANGED <<a, input, delta, split, pending, pc>>

Refine ==
  /\ pc = "loop"
  /\ \E j \in refine :
       /\ LET b == [q \in State |-> IF q \in split /\ block[q] = j THEN k ELSE block[q]]
              sigma == Sigma(a)
          IN  IF Members(b, j) # {}
              THEN /\ block' = b
                   /\ k' = k + 1
                   /\ pending' = pending \o [x \in DOMAIN sigma |-> Smaller(b, j, sigma[x])]
              ELSE UNCHANGED <<block, k, pending>>
       /\ refine' = refine \ {j}
  /\ UNCHANGED <<a, input, delta, split, pc>>

(* Faulty: the sink of totalize is kept.                                   *)
BuildTotal ==
  /\ pc = "loop" /\ refine = {} /\ pending = <<>>
  /\ a' = Numbered(Explicit(block[a.q0], {block[q] : q \in a.acc},
            {<<block[t[1]], t[2], t[3], block[t[4]]>> : t \in a.trans}, TRUE))
  /\ pc' = "done"
  /\ UNCHANGED <<input, loop>>

(* A state for each block; one of the states of the block stands for it.   *)
Build ==
  /\ pc = "loop" /\ refine = {} /\ pending = <<>>
  /\ \E rep \in SUBSET State :
       /\ \A q \in State : Cardinality(Members(block, block[q]) \cap rep) = 1
       /\ a' = Numbered(RemoveDeadTransitions(
                 Explicit(block[a.q0], {block[q] : q \in rep \cap a.acc},
                   {<<block[t[1]], t[2], t[3], block[t[4]]>> : t \in {u \in a.trans : u[1] \in rep}},
                   TRUE)))
  /\ pc' = "done"
  /\ UNCHANGED <<input, loop>>

Returned == pc = "done" /\ UNCHANGED vars

-----------------------------------------------------------------------------
Init ==
  /\ a \in Inputs
  /\ input = a
  /\ delta = <<>> /\ block = <<>> /\ k = 0
  /\ pending = <<>> /\ split = {} /\ refine = {}
  /\ pc = "start"

Next == StartMinimal \/ Start \/ Take \/ Refine \/ Build \/ Returned

Spec == Init /\ [][Next]_vars

-----------------------------------------------------------------------------
(* Properties                                                              *)

(* The pairs of states that some word tells apart, and the classes of the  *)
(* others (Myhill and Nerode).                                             *)
Apart ==
  LET pairs == State \X State
      letters == Letter
      now == {p \in pairs : p[1] \in a.acc <=> p[2] \notin a.acc}
  IN  Closure(now, pairs,
        LAMBDA S : {p \in pairs : \E c \in letters : <<delta[p[1]][c], delta[p[2]][c]>> \in S})

Classes ==
  UNION {{{r \in State : <<q, r>> \notin apart} : q \in State} : apart \in {Apart}}

Blocks == {Members(block, block[q]) : q \in State}

(* The numbers of blocks are indexes of arrays with a cell for each state, *)
(* and the queue has no pair twice.                                        *)
TypeOK ==
  /\ pc \in {"start", "loop", "done"}
  /\ pc = "loop" =>
       /\ delta \in [State -> [Letter -> State]]
       /\ block \in [State -> 0..k - 1]
       /\ k <= Cardinality(State)
       /\ refine \subseteq 0..k - 1 /\ split \subseteq State
       /\ \A i \in DOMAIN pending : pending[i] \in (0..k - 1) \X Letter
       /\ \A i, j \in DOMAIN pending : pending[i] = pending[j] => i = j

(* What makes it enough to queue one part of a block that is not in the    *)
(* queue (the update of pending): two states of a block that no pair of    *)
(* the queue tells apart go to the same block by every letter.             *)
PendingSuffices ==
  pc = "loop" /\ refine = {} =>
    \A s, t \in State : block[s] = block[t] =>
      \A x \in Letter :
        (\A j \in 0..k - 1 : <<j, x>> \in ToSet(pending)
                               => (block[delta[s][x]] = j <=> block[delta[t][x]] = j))
          => block[delta[s][x]] = block[delta[t][x]]

(* Blocks are split one at a time, no split separates equivalent states,   *)
(* and when the queue is empty the blocks are the classes (the main loop   *)
(* of minimizeHopcroft).                                                   *)
Abstract == INSTANCE MyhillNerode
              WITH classes <- CASE pc = "start" -> {}
                                [] pc = "loop" -> Classes
                                [] pc = "done" -> Blocks,
                   blocks <- Blocks

FindsClasses == Abstract!Spec

(* The result accepts the same words; every state of it but perhaps the    *)
(* initial one accepts some, and no two accept the same.                   *)
ResultMinimal ==
  pc = "done" =>
    LET e == ExpandSingleton(a)
    IN  /\ SubsetOf(a, input) /\ SubsetOf(input, a)
        /\ GetStates(e) \subseteq GetLiveStates(e) \cup {e.q0}
        /\ \A p, q \in GetStates(e) : p # q =>
             ~ (/\ SubsetOf([e EXCEPT !.q0 = p], [e EXCEPT !.q0 = q])
                /\ SubsetOf([e EXCEPT !.q0 = q], [e EXCEPT !.q0 = p]))

(* The main loop ends: each step splits a block, of which there are no     *)
(* more than states, or it leaves less to do.                              *)
LoopAdvances ==
  [][pc = "loop" /\ pc' = "loop" =>
       \/ Cardinality(Blocks') > Cardinality(Blocks)
       \/ /\ UNCHANGED block
          /\ \/ Len(pending') < Len(pending)
             \/ pending' = pending /\ Cardinality(refine') < Cardinality(refine)]_vars

=============================================================================
