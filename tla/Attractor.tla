----------------------------- MODULE Attractor -----------------------------
(***************************************************************************)
(* finite_arena.attractor: the vertices from which player 0 can force a    *)
(* visit to Target, computed backwards, one round of predecessors at a     *)
(* time, with a counter of the successors an opponent vertex has left.     *)
(*                                                                         *)
(* Within a round the order in which the lists are read is irrelevant, the *)
(* array attractor being updated at its end.  What counts is how often a   *)
(* vertex is in the list attractor_new: a list is a function to Nat.       *)
(***************************************************************************)
EXTENDS Integers, FiniteSets

CONSTANTS
  Vertex,   \* the vertices of the arena
  Target,   \* the list F
  Limits    \* the values of the argument i: negative for the whole attractor

ASSUME AttractorAssumption ==
  /\ IsFiniteSet(Vertex)
  /\ Target \subseteq Vertex
  /\ Limits \subseteq Int

VARIABLES
  edges,          \* the arena: preds[v] lists the p with <<p, v>> \in edges
  mine,           \* the vertices of the player of the attractor
  out_degrees,    \* per vertex, the counter of its successors
  attractor,      \* the vertices marked 1
  attractor_new,  \* how often the last round appended each vertex
  i,              \* the rounds left to do, when not negative
  rounds,         \* the rounds done
  pc

attractorVars == <<edges, mine, out_degrees, attractor, attractor_new, i, rounds, pc>>

arena == <<edges, mine>>

Succ(p) == {v \in Vertex : <<p, v>> \in edges}

-----------------------------------------------------------------------------
(* An edge that leaves the target is never looked at: none is enumerated.  *)
AttractorInit ==
  /\ edges \in SUBSET ((Vertex \ Target) \X Vertex)
  /\ mine \in SUBSET (Vertex \ Target)
  /\ out_degrees = [v \in Vertex |-> Cardinality(Succ(v))]
  /\ attractor = Target
  /\ attractor_new = [v \in Vertex |-> IF v \in Target THEN 1 ELSE 0]
  /\ i \in Limits
  /\ rounds = 0
  /\ pc = "loop"

(* How often the loops over to_check and preds meet p in this round: once  *)
(* for each place of a successor in the list.                              *)
(* Faulty: once per round.                                                 *)
MetOnce(p) == IF \E v \in Succ(p) : attractor_new[v] > 0 THEN 1 ELSE 0

Met(p) == Cardinality(UNION {{v} \X (1..attractor_new[v]) : v \in Succ(p)})

Visited(p) == \E v \in Succ(p) : attractor_new[v] > 0

(* Faulty: the counter is tested one too late,                             *)
AppendedLate(p) ==
  IF p \in attractor \/ ~ Visited(p) THEN 0
  ELSE IF p \in mine THEN Met(p)
  ELSE IF out_degrees[p] > 0 /\ out_degrees[p] < Met(p) THEN 1 ELSE 0

(* or tested for the vertices of both players and those without a move.    *)
AppendedAnyPlayer(p) ==
  IF p \notin attractor /\ out_degrees[p] <= Met(p) THEN 1 ELSE 0

(* A vertex is looked at as a predecessor of one in the list.  Player 0's  *)
(* is appended each time, an opponent's when its counter reaches zero.     *)
Appended(p) ==
  IF p \in attractor \/ ~ Visited(p) THEN 0
  ELSE IF p \in mine THEN Met(p)
  ELSE IF out_degrees[p] > 0 /\ out_degrees[p] <= Met(p) THEN 1 ELSE 0

(* Faulty: the limit is not looked at.                                     *)
RoundUnlimited ==
  /\ pc = "loop"
  /\ \E v \in Vertex : attractor_new[v] > 0
  /\ attractor_new' = [p \in Vertex |-> Appended(p)]
  /\ out_degrees' = [p \in Vertex |-> IF p \in attractor \cup mine THEN out_degrees[p]
                                      ELSE out_degrees[p] - Met(p)]
  /\ attractor' = attractor \cup {p \in Vertex : Appended(p) > 0}
  /\ i' = i - 1
  /\ rounds' = rounds + 1
  /\ UNCHANGED <<arena, pc>>

Round ==
  /\ pc = "loop"
  /\ i # 0
  /\ \E v \in Vertex : attractor_new[v] > 0
  /\ attractor_new' = [p \in Vertex |-> Appended(p)]
  /\ out_degrees' = [p \in Vertex |-> IF p \in attractor \cup mine THEN out_degrees[p]
                                      ELSE out_degrees[p] - Met(p)]
  /\ attractor' = attractor \cup {p \in Vertex : Appended(p) > 0}
  /\ i' = i - 1
  /\ rounds' = rounds + 1
  /\ UNCHANGED <<arena, pc>>

Return ==
  /\ pc = "loop"
  /\ i = 0 \/ \A v \in Vertex : attractor_new[v] = 0
  /\ pc' = "done"
  /\ UNCHANGED <<arena, out_degrees, attractor, attractor_new, i, rounds>>

Returned == pc = "done" /\ UNCHANGED attractorVars

AttractorNext == Round \/ Return \/ Returned

AttractorSpec == AttractorInit /\ [][AttractorNext]_attractorVars /\ WF_attractorVars(AttractorNext)

-----------------------------------------------------------------------------
(***************************************************************************)
(* Properties.  Level(k) is the k-th attractor of the inductive definition *)
(* the function implements: one move of the player into it, or every move  *)
(* of the opponent.  A vertex with no move is in it only as a target.      *)
(***************************************************************************)
Forced(S) ==
  {p \in Vertex : IF p \in mine THEN Succ(p) \cap S # {}
                  ELSE Succ(p) # {} /\ Succ(p) \subseteq S}

Level(k) ==
  LET level[j \in Nat] ==
        IF j = 0 THEN Target ELSE level[j - 1] \cup Forced(level[j - 1])
  IN  level[k]

(* The arrays and lists of attractor.  The loop does at most as many       *)
(* rounds as there are vertices left to mark plus one, and no more than    *)
(* asked for: it ends.                                                     *)
AttractorTypeOK ==
  /\ edges \subseteq Vertex \X Vertex
  /\ mine \subseteq Vertex
  /\ out_degrees \in [Vertex -> Int]
  /\ attractor \subseteq Vertex
  /\ attractor_new \in [Vertex -> Nat]
  /\ i \in Int /\ rounds \in Nat
  /\ rounds <= Cardinality(Vertex \ Target) + 1
  /\ i + rounds >= 0 => i >= 0
  /\ pc \in {"loop", "done"}

(* After k rounds nothing of the k-th attractor is missing, whatever was   *)
(* counted twice; when the list runs empty nothing at all is (the stop     *)
(* condition of the while loop).                                           *)
Complete ==
  /\ Level(rounds) \subseteq attractor
  /\ pc = "done" /\ i # 0 => Level(Cardinality(Vertex)) \subseteq attractor

(* A vertex of the player is marked only when a move of his stays in the   *)
(* attractor, even after wrong marks of the opponent's.                    *)
PlayerCanStay ==
  \A p \in (attractor \ Target) \cap mine : Succ(p) \cap attractor # {}

(* A vertex of the opponent is marked only when all its successors are.    *)
OpponentForced ==
  \A p \in (attractor \ Target) \ mine : Succ(p) \subseteq attractor

(* The marks are those of the definition and the counters count the        *)
(* successors whose predecessors were not visited yet.                     *)
Exact ==
  /\ attractor = Level(rounds)
  /\ \A p \in Vertex \ (attractor \cup mine) :
       out_degrees[p] = Cardinality({v \in Succ(p) : v \notin attractor
                                                     \/ attractor_new[v] > 0})

DuplicateFree == \A v \in Vertex : attractor_new[v] <= 1

(* As long as no vertex is in the list twice, a round computes the next    *)
(* attractor and leaves the counters exact.                                *)
RoundExact == [][Exact /\ DuplicateFree => Exact']_attractorVars

=============================================================================
