----------------------------- MODULE Transducers -----------------------------
(***************************************************************************)
(* Transducers: the constructor of TransducerAutomaton, which reads the    *)
(* letters of an automaton as pairs, and TransducerOperations.copy, invert *)
(* and run.  The first three are the same traversal, one state at a time;  *)
(* its result may be copied or inverted in turn, and then be run.          *)
(*                                                                         *)
(* The automaton has transitions <<p, min, max, q>> over letters that are  *)
(* numbers and map[c] is the pair that c stands for; a transducer has      *)
(* transitions <<p, x, y, q>>.                                             *)
(***************************************************************************)
EXTENDS Integers, Sequences, FiniteSets, SequencesExt

CONSTANTS
  Inputs,     \* the automata of pairs: records q0, acc, trans and map
  MaxCopies,  \* bound on the copies made of a transducer
  MaxLength   \* bound on the paths looked at, and on the words of a run

Epsilon == "-"   \* the letter that stands for the empty word in a pair

ASSUME TransducersAssumption == MaxCopies \in Nat /\ MaxLength \in Nat

(* States are numbers and each interval has a letter.                      *)
IsPairAutomaton(x) ==
  /\ x.q0 \in Nat /\ x.acc \subseteq Nat
  /\ IsFiniteSet(x.trans) /\ x.trans \subseteq Nat \X Int \X Int \X Nat
  /\ \A t \in x.trans : t[2] <= t[3]

ASSUME InputsAssumption == \A x \in Inputs : IsPairAutomaton(x)

VARIABLES
  a,         \* the automaton that was read
  source,    \* the automaton or transducer that is traversed
  op,        \* "toTransducer", "copy" or "invert"
  ret,       \* the transducer built, on states that are numbers
  idMap,     \* its state for each state of the source that was met
  worklist,
  copies,    \* how many copies were made,
  swapped,   \* and whether an odd number of them were inverted
  u, v, i, j, ts,   \* TransducerOperations.run(ret, u, v)
  pc

build == <<a, source, op, ret, idMap, worklist, copies, swapped>>

words == <<u, v, i, j, ts>>

vars == <<build, words, pc>>

-----------------------------------------------------------------------------
(* The traversal                                                           *)

(* The pair of the new transition that stands for t.                       *)
(* Faulty: the pair is copied as it is.                                    *)
PairNotInverted(t) ==
  IF op = "toTransducer" THEN a.map[t[2]] ELSE <<t[2], t[3]>>

Pair(t) ==
  CASE op = "toTransducer" -> a.map[t[2]]
    [] op = "invert" -> <<t[3], t[2]>>
    [] op = "copy" -> <<t[2], t[3]>>

(* New states for the states in `new', and whether they accept.            *)
WithNew(new) ==
  LET order == SetToSeq(new)
      id(q) == Cardinality(DOMAIN idMap) + (CHOOSE k \in DOMAIN order : order[k] = q) - 1
  IN  [q \in DOMAIN idMap \cup new |-> IF q \in new THEN id(q) ELSE idMap[q]]

(* The new states accept when those that they stand for do.                *)
Accepting(m, new) == ret.acc \cup {m[q] : q \in new \cap source.acc}

Visit ==
  /\ pc = "build" /\ worklist # <<>>
  /\ LET s == Head(worklist)
         out == {t \in source.trans : t[1] = s}
         met == {s} \cup {t[4] : t \in out}
         m == WithNew(met \ DOMAIN idMap)
     IN  /\ idMap' = m
         /\ ret' = [q0 |-> IF s = source.q0 THEN m[s] ELSE ret.q0,
                    acc |-> Accepting(m, met \ DOMAIN idMap),
                    trans |-> ret.trans
                      \cup {<<m[s], Pair(t)[1], Pair(t)[2], m[t[4]]>> : t \in out}]
         /\ \E order \in SetToSeqs(met \ (DOMAIN idMap \cup {s})) :
              worklist' = Tail(worklist) \o order
  /\ UNCHANGED <<a, source, op, copies, swapped, words, pc>>

Built ==
  /\ pc = "build" /\ worklist = <<>>
  /\ pc' = "built"
  /\ UNCHANGED <<build, words>>

Empty == [q0 |-> 0, acc |-> {}, trans |-> {}]

DeepCopy(invert) ==
  /\ pc = "built" /\ copies < MaxCopies
  /\ source' = ret
  /\ op' = IF invert THEN "invert" ELSE "copy"
  /\ ret' = Empty
  /\ idMap' = <<>>
  /\ worklist' = <<ret.q0>>
  /\ copies' = copies + 1
  /\ swapped' = IF invert THEN ~ swapped ELSE swapped
  /\ pc' = "build"
  /\ UNCHANGED <<a, words>>

Copy == DeepCopy(FALSE)

Invert == DeepCopy(TRUE)

-----------------------------------------------------------------------------
(* TransducerOperations.run                                                *)

Letters == (UNION {{t[2], t[3]} : t \in ret.trans}) \ {Epsilon}

WordsUpTo(k) == UNION {[1..l -> Letters] : l \in 0..k}

StartRun ==
  /\ pc = "built"
  /\ u' \in WordsUpTo(MaxLength \div 2)
  /\ v' \in WordsUpTo(MaxLength \div 2)
  /\ i' = 1 /\ j' = 1 /\ ts' = ret.q0
  /\ pc' = "run"
  /\ UNCHANGED build

(* TransducerState.step                                                    *)
Dests(x, y) == {t[4] : t \in {e \in ret.trans : e[1] = ts /\ e[2] = x /\ e[3] = y}}

HasU == i <= Len(u)
HasV == j <= Len(v)

(* The three ways to go on: the letters of both words, or one of them.     *)
Both == IF HasU /\ HasV THEN Dests(u[i], v[j]) ELSE {}
OnlyU == IF HasU THEN Dests(u[i], Epsilon) ELSE {}

(* Faulty: a letter of v is read alone only once u is read.                *)
OnlyVAtEnd == IF HasV /\ ~ HasU THEN Dests(Epsilon, v[j]) ELSE {}

OnlyV == IF HasV THEN Dests(Epsilon, v[j]) ELSE {}

(* The first of them that is possible is taken, for good.                  *)
(* Faulty: the letter of v counts as read too.                             *)
RunStepBoth ==
  /\ pc = "run" /\ (HasU \/ HasV)
  /\ \/ ts' \in Both /\ i' = i + 1 /\ j' = j + 1
     \/ Both = {} /\ ts' \in OnlyU /\ i' = i + 1 /\ j' = IF HasV THEN j + 1 ELSE j
     \/ Both = {} /\ OnlyU = {} /\ ts' \in OnlyV /\ j' = j + 1 /\ i' = i
  /\ UNCHANGED <<build, u, v, pc>>

RunStep ==
  /\ pc = "run" /\ (HasU \/ HasV)
  /\ \/ ts' \in Both /\ i' = i + 1 /\ j' = j + 1
     \/ Both = {} /\ ts' \in OnlyU /\ i' = i + 1 /\ j' = j
     \/ Both = {} /\ OnlyU = {} /\ ts' \in OnlyV /\ j' = j + 1 /\ i' = i
  /\ UNCHANGED <<build, u, v, pc>>

RunStuck ==
  /\ pc = "run" /\ (HasU \/ HasV)
  /\ Both = {} /\ OnlyU = {} /\ OnlyV = {}
  /\ pc' = "false"
  /\ UNCHANGED <<build, words>>

RunEnd ==
  /\ pc = "run" /\ ~ HasU /\ ~ HasV
  /\ pc' = IF ts \in ret.acc THEN "true" ELSE "false"
  /\ UNCHANGED <<build, words>>

-----------------------------------------------------------------------------
Init ==
  /\ a \in Inputs
  /\ source = [q0 |-> a.q0, acc |-> a.acc, trans |-> a.trans]
  /\ op = "toTransducer"
  /\ ret = Empty /\ idMap = <<>> /\ worklist = <<a.q0>>
  /\ copies = 0 /\ swapped = FALSE
  /\ u = <<>> /\ v = <<>> /\ i = 1 /\ j = 1 /\ ts = 0
  /\ pc = "build"

Next ==
  \/ Visit \/ Built \/ Copy \/ Invert
  \/ StartRun \/ RunStep \/ RunStuck \/ RunEnd

Spec == Init /\ [][Next]_vars

-----------------------------------------------------------------------------
(* The pairs of words read along paths of up to MaxLength transitions,     *)
(* where moves is a set of <<p, x, y, q>>.                                 *)
Write(w, x) == IF x = Epsilon THEN w ELSE Append(w, x)

Onwards(p, m) == <<m[4], Write(p[2], m[2]), Write(p[3], m[3])>>

Extended(paths, moves) == UNION {{Onwards(p, m) : m \in {e \in moves : e[1] = p[1]}} : p \in paths}

Related(q0, acc, moves) ==
  LET paths[l \in 0..MaxLength] ==
        IF l = 0 THEN {<<q0, <<>>, <<>>>>}
        ELSE paths[l - 1] \cup Extended(paths[l - 1], moves)
  IN  {<<p[2], p[3]>> : p \in {r \in paths[MaxLength] : r[1] \in acc}}

(* What the automaton of pairs says, each letter being read as a pair.     *)
MeantMoves ==
  UNION {{<<t[1], a.map[c][1], a.map[c][2], t[4]>> : c \in t[2]..t[3]} : t \in a.trans}

Turned(pairs) == {<<p[2], p[1]>> : p \in pairs}

Meant ==
  LET pairs == Related(a.q0, a.acc, MeantMoves)
  IN  IF swapped THEN Turned(pairs) ELSE pairs

IsSingleLetters == \A t \in a.trans : t[2] = t[3]

(* Two transitions of a state differ on a word that both of them read.     *)
Deterministic ==
  \A s, t \in ret.trans : s[1] = t[1] /\ s # t =>
    \E k \in 2..3 : s[k] # t[k] /\ Epsilon \notin {s[k], t[k]}

(* The pairs of a state differ, and those with epsilon end the path.       *)
EpsilonLast ==
  /\ \A s, t \in ret.trans :
       s[1] = t[1] /\ s # t => <<s[2], s[3]>> # <<t[2], t[3]>>
  /\ \A s \in ret.trans :
       Epsilon \in {s[2], s[3]} => \A t \in ret.trans : t[1] # s[4]

-----------------------------------------------------------------------------
(* Properties                                                              *)

(* Whatever was built, copied and inverted relates only words that the     *)
(* automaton of pairs says, and all of them as long as no transition of it *)
(* stands for more than one pair (TransducerAutomaton, deepcopy).          *)
RelationExact ==
  pc = "built" =>
    LET built == Related(ret.q0, ret.acc, ret.trans)
    IN  /\ built \subseteq Meant
        /\ IsSingleLetters => Meant \subseteq built

(* run accepts only pairs that are related; each of its choices is final,  *)
(* and yet it misses none when no two transitions of a state can be taken  *)
(* for the same words, or when epsilon is read last, as in the games       *)
(* (TransducerOperations.run).                                             *)
RunExact ==
  /\ pc = "true" => <<u, v>> \in Meant
  /\ pc = "false" /\ IsSingleLetters /\ (Deterministic \/ EpsilonLast)
       => <<u, v>> \notin Meant

=============================================================================
