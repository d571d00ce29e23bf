# Solving safety games: a TLA+ verification of the solvers

The repository holds two solvers for safety games. For finite graphs,
`finite_arena.attractor` (Python) computes an attractor. For infinite ones,
`Main.solve` (Java) learns an automaton that accepts a winning set: a learner
conjectures a DFA found by a SAT solver, a teacher checks it against the game
and answers with a counterexample. Games are *rational*: vertices are words, sets
of vertices are regular languages, the moves are a transducer.

Paths below are relative to `src/code/infinite_case/src` unless they say otherwise.

## 1. Inventory

| component | state | operations | interacts with |
|---|---|---|---|
| `Main.solve` | the conjecture `w` | conjecture, check, return | calls the learner, then the teacher |
| `learner/Learner` | `n`, sample `s`, arrays of variables | `conjecture`, `constructSAT`, `translateModel` | Z3; reads the sample |
| `learner/Sample`, `teacher/CounterExample` | four lists, `size` | `addPos`, `addNeg`, `addEx`, `addUni` | written by the teacher, read by the learner |
| `learner/PrefixTree`, `learner/Node` | nodes with an id and a label | `addWord`, `getNode`, `getWord` | rebuilt by each `constructSAT` |
| `teacher/Teacher` | the game | `checkIfWinningSet` | automata library, transducers, sample |
| `safetyproblem/SafetyProblem` | four automata, a transducer | `linearGame`, `boxGame` | read by the teacher |
| `transducer/TransducerOperations` | none | `image`, `invert`, `copy`, `run` | called by the teacher |
| `transducer/Automaton`, `BasicOperations`, `MinimizationOperations`, `RegExp` | states, intervals, the flag `deterministic` | products, complement, subset construction, Hopcroft, shortest example, parsing | called by all of the above |
| `src/code/finite_case/finite_arena.py` | predecessors, players | `attractor` | none |
| `lib/z3-master` | | | vendored; any model of the formula may come back |

There is one thread and nothing is persisted. What is hard here is not
scheduling but long sequences of legal calls, data kept across iterations, the
order in which hash sets are iterated over, limits off by one, and termination:

* the learner keeps `n` while the sample grows; labels of words are sticky; a
  repeated counterexample would make the two loop for ever;
* the counterexamples must be true of *every* winning set, or the solution is
  lost rounds later;
* `imageRec` recurses without marking what it visited, merges loops, and hands
  over an automaton that counts as deterministic whatever it looks like;
* every operation on automata relies on what the ones before it left: the flag
  `deterministic`, no transition to a dead state, a total automaton;
* `minimizeHopcroft` queues one part of a split block only, and refines blocks
  while the queue speaks of them;
* `attractor` counts successors down and relies on each vertex being met once.

PROJECT.json lists these hazards at their lines with the properties about them.

What makes each component correct: the solver returns winning sets only and
keeps every solution possible; a conjecture is coherent with the sample and
minimal; the formula of `constructSAT` is satisfied by the coherent DFAs and by
no other; the prefix tree labels the words of the sample and no other; `image`
returns the image; `attractor` marks the vertices of the inductive definition.

## 2. Modules

### SafetyProblem, WinningSetSpec, Solver (`MCSolver`, `Solver_proofs`)

`SafetyProblem` is the game as constants: automata are their languages, the
transducer is a relation, `Post` and `Pre` are `image` of it and of its inverse.
`WinningSetSpec` is what `Main.solve` promises: an answer that is a winning set,
given once. `Solver` is the loop.

| Solver | code |
|---|---|
| `n`, `sample`, `w`, `pc` | `Learner.n`, `Learner.s`, local `w` of `Main.solve`, whose turn it is |
| `Consistent`, `Models` | what a model of `constructSAT`'s formula accepts |
| `Unsatisfiable`, `Conjecture` | the two outcomes of a round of `Learner.conjecture` |
| `RejectPos`, `RejectNeg`, `RejectEx`, `RejectUni`, `Accept` | the five exits of `Teacher.checkIfWinningSet` |
| `Overflow`, `Ended` | a sixth exit, the `StackOverflowError` of `imageRec` that nothing catches; `Main.solve` has returned or failed |
| `AddPos` ... `AddUni` | the methods of `Sample`, duplicates included |

Abstractions. A DFA is its language on the words of a finite game; `Lang[k]`
holds the languages of the DFAs with up to `k` states, and the SAT solver may
return any model. `Rank` is the order of `getShortestExample`. `MaxStates` bounds
`n`. `Consistent` keeps the code's treatment of a word that is both positive
and negative (positive wins).

Three things about images and models are simplified:

* `imageRec` does not return on some automata with a cycle: of several states
  (`TransducerOperations.java:227`), or a loop that a cycle of the transducer
  erases (216). `Endless` holds the sets that have such an automaton; in the third check
  (on the conjecture) and the fourth (on the vertices outside it) the stack may
  then overflow. A set also has automata without a cycle, so the other exits
  stay possible. Images of single words return, as a vertex has finitely many
  successors.
* Where it returns, `Pre` is exact. That is so in the linear game (module
  Teacher), but not when loops are merged wrongly (219-223, run `image_loop`):
  then predecessors that are none could make the teacher accept a set that does
  not win, or repeat an implication for ever. What Solver's properties say is
  about games whose images are exact.
* `Consistent` leaves out the bound `l_max` on witnesses (`Learner.java:329`) and
  the exception for an empty array `z` (348). Neither adds a model, so what is
  said of conjectures stands. Where player 0 always has a move (`NoDeadEnd`),
  neither takes anything away: a DFA of one state accepts every word or none,
  so the first existential implication comes at `n >= 2`, where a finite set of
  words with an automaton of `na` states has no word of `n*na - 1` letters. In a
  game with dead ends all of whose words are safe, the code may meet the
  exception.

The other modules justify what this one takes as given: ConstructSAT and WordConstraints the formula, Teacher the answers,
Operations the operations on automata.

`Solver` implements `WinningSetSpec` with
`answer <- IF pc = "done" THEN w ELSE NoAnswer`.

### ConstructSAT (`MCConstructSAT`, `AttractorSAT_proofs`)

The clauses for one implication counterexample `(u, A)`, read on a candidate DFA
given by `d` and `f`. `YConstraint` and `UniFormula` are those with `y`
(lines 266-318 of `Learner.java`), `ZRow`, `LMax` and `ExFormula` those with `z`
(321-414). Solving is quantification: there is a set `Y`; for `z` the clauses
leave one value, computed row by row. `FirstLetters` keeps, of each interval of
letters, the one `getMin()` returns. Three actions: the two encodings, and the
exception when `l_max` is 0.

### PrefixTree and WordConstraints (`MCWordConstraints`, `PrefixTree_proofs`)

`PrefixTree` has the four loops of `constructSAT` that fill the tree, the
declaration of `x` and the later lookups by `getNode`, over every sample; the
order of a list is any. The tree is a function from prefixes to nodes.

`WordConstraints` goes on with the rest of the formula (419-483): `d` is a total
function, `x` starts at state 0, and the clauses on `x` are added one node of the
tree after the other. A model is built along that loop: `Constrain` gives the
rows of the children any values the clauses allow, `GiveUp` ends a choice that
a clause forbids, `TranslateModel` reads the DFA off. `WordsExact` compares the
outcome with the words of the sample.

### Automata and Operations (`MCOperations`, `Automata_proofs`)

`Automata` has the data structure of `Automaton` (singletons, intervals of
letters, the flag) and the constructions as operators: `getStates`,
`getLiveStates`, `getStartPoints`, `reduce`, `removeDeadTransitions`, `totalize`,
`expandSingleton`, `determinize`, `complement`, `intersection`, `minus`, `union`,
`concatenate`, `optional`, `repeat`, `subsetOf`, `run`. Epsilon moves copy the
transitions and the acceptance their target has at that time. Where a worklist
builds pairs or subsets, `Closure` gives what is reached; each construction
renumbers its result, as only the identity of states matters. `IsAutomaton` says
what an automaton is made of (finitely many transitions, none without a letter;
none at all for a singleton, which counts as deterministic), `IsHonest` that one
which counts as deterministic is.

`Operations` applies any sequence of them to two automata and keeps beside each
the language it should have. `getShortestExample` is modelled step by step: its
queue, the paths that a word of equal length may revise, and the order in which
the hash set hands over the new states. `Base`, the automata to begin with, are
honest and without transitions to dead states, as those of `BasicAutomata` are
(`BaseAssumption`). The specification is named `CallsSpec` and its parts likewise, so
that the proofs can be about Operations and Minimize at once.

### Minimize and MyhillNerode (`MCMinimize`, `Minimize_proofs`)

`minimizeHopcroft` as its loops: `Start` makes the first two blocks and queues
one of them for each letter, `Take` removes a pair and collects the states to
split off, `Refine` splits one block (any of those left) and updates the queue,
`Build` makes a state for each block, represented by any of its states.
`StartMinimal` is the early return. The lists `active` are sets, computed.
`MyhillNerode` is the abstract specification: blocks are split one at a time,
equivalent states are never separated, and the loop ends in the classes.
`Minimize` implements it with `blocks` and `classes` as in `Abstract`. Its argument
is any honest automaton (`InputsAssumption`), but for one that counts as
deterministic and whose initial state reads every letter by a transition to
itself: the early return wants that to be one transition, as `reduce` leaves it.

### Transducers (`MCTransducers`, `Transducers_proofs`)

The constructor of `TransducerAutomaton`, one state per step (`Visit`), its choice
of the first letter of an interval included; `deepcopy` for `copy` and `invert`
(`DeepCopy`); then `run` on a pair of words, whose choices between reading two
letters and one are never taken back (`RunStep`). States are numbered in the
order in which they are met, as the identity of new objects; `InputsAssumption`
says that an automaton has finitely many transitions and none of them an empty
interval.

### Image (`MCImage`, `Image_proofs`)

`image` and `imageRec`, the recursion as a stack of frames. A frame has the
pairs of transitions its loops have not looked at; `Pick` chooses the next one
while respecting the nesting of the two loops, since the order of the hash sets
is unknown. `Erase`, `Loop`, `Emit` and `Insert` are the four branches. `MaxDepth`
bounds the stack and `pc = "overflow"` stands for a `StackOverflowError`.
`InImage` is the reference: simulation of the pairs of states. The call of
`minimize` that ends `image` is module Minimize; on a deterministic result it
keeps the language, which is why `FlagHonest` matters. `Plain` and `EndsTogether`
say what it takes of the automaton and the transducer for the result to be
deterministic and sound although there are loops; `LinearAssumption` has TLC find
that the linear game gives it.

### Teacher (`MCTeacher`)

`checkIfWinningSet` on automata, composed of the operators of Automata (`B!...`)
and of the actions of Image, which it extends: each call of `image` is started
by `CallImage` and runs step by step (`RunImage`) until it returns or the stack
overflows. `MCTeacher` builds the automata of `linearGame(1)` by the operations
that `RegExp` applies for its expressions. `Violations` states the four
conditions on the game itself, words and moves, without automata.

### Attractor (`MCAttractor`, `AttractorSAT_proofs`)

The whole function, one action per round: within a round the marks do not
change, so only how often a vertex is met counts. `attractor_new` is a list as a
function to Nat, which keeps the duplicates. `Level(k)` is the inductive
definition of the thesis, with one difference: the code never marks an opponent
vertex that has no successor, and `Level` follows the code there. An edge is
enumerated only if the function can look at it, that is, if it does not leave
the target. A predecessor list holds a vertex at most once. The specification is
`AttractorSpec`, so that its proofs can stand beside those of ConstructSAT.

### Recursion

Nothing of the code: lemmas that the proofs share, see section 5.

## 3. Runs

Passing runs. Deadlock is checked except in `construct_sat` (behaviours of one
step), `operations` and `transducers` (which stop at their bounds).

| run | instance | states | shows |
|---|---|---|---|
| `solver` | a game of seven words, one of them no vertex, with every DFA of up to 4 states; it takes counterexamples of the four kinds and has a smallest winning set of 3 states | 395 | types, soundness of the sample, coherence, minimality, no contradiction, no duplicate, progress, refinement, the loop ends with an answer or an overflow |
| `construct_sat` | every DFA and automaton of up to 2 states, 3 antecedents, two letters with codes apart | 97 thousand | a model is coherent; converse up to the longest witness |
| `prefix_tree` | every sample of up to two of four words of each sign and one implication of each kind, every order, every DFA of up to 2 states | 3.2 million | ids, lookups, and the DFAs that the formula on the words allows |
| `operations` | three calls on two of four basic automata, three letters, results of up to 4 states | 94 thousand | languages, honest flags, no dead transitions, inclusion, shortest examples |
| `minimize` | every DFA of up to 3 states over two letters (4 with the sink), all nondeterministic automata of 2 states, cycles of 6 | 92 thousand | the loop finds the classes (refinement), each step makes progress, the result is minimal and has the same language, indexes stay within the arrays, the queue suffices |
| `transducers` | the linear game's expression and 212 small automata of pairs, up to two copies or inverses, pairs of words of up to 2 letters | 96 thousand | the relation read off the automaton, `run` on a transducer that leaves no choice |
| `image` | words of up to two letters and two finite languages under 420 transducers of two states; the linear game's transducer and its inverse on DFAs of up to 4 states without cycles but loops | 43 thousand | result = image, deterministic if the arguments are plain, as in the linear game, termination |
| `teacher` | `linearGame(1)` and 224 conjectures: every DFA of two states, and sets between the initial and the safe vertices, some of them periodic | 335 thousand | the answer is the first condition that fails with its least word, successors are exact, the stack overflows only on a cycle of several states |
| `attractor` | every arena of five vertices, two of them targets, limits -1, 0, 1, 2, with symmetry | 330 thousand | completeness, the player's marks, number of rounds, exactness while no duplicate occurs |

Bounds. In `solver` every `Reject` action fires, on paths of several
counterexamples before an answer, and `Overflow` after several rounds; `Endless`
is computed from the DFAs of two and three states, as `n` stays below 4
(`StatesBounded`). Two states on each side in ConstructSAT give
product paths of every length up to `n*na - 1`, the limit under test. The words
of `prefix_tree` are prefixes of each other or share one, so labels meet and
nodes are shared. Three calls (`MaxCalls`) suffice in `operations` for each
operation to be applied to results of two others, nondeterministic ones and
ones with a wrong flag, if there were any; `MaxLength` 3 exceeds what three
letters and four states need to differ in most cases, and inclusion is compared
on pairs of states, without a bound on words. In `minimize` a queued pair must
be split while it waits (four states), and a queue rule must fail late (cycles
of six). Results of `image` are compared on every word of up to `MaxLength`
letters, longer than the finite results and than the paths without repetition of
the others. In `teacher` `MaxDepth` 12 is larger than any walk without a cycle
and `MaxLength` 6 larger than every least counterexample; `Inner` leaves out the
vertices of the last length, some of whose moves are not enumerated. Five
vertices are needed for a duplicate to do harm in `attractor`. Symmetry
exchanges the targets and the other vertices among themselves; the run checks no
liveness, for which it would be unsound (`TypeOK`, which bounds the rounds, and
the absence of deadlock say that the loop ends).

Disagreements between the code and what is said of it, each shown by a run that
TLC must find violated:

| run | property | what happens |
|---|---|---|
| `attractor_forced` | `OpponentForced` | player vertex 2 precedes both targets, is listed twice and exhausts the counter of its predecessor 3, which also has the free successor 4: vertex 3 is marked. `finite_arena` called with that arena returns `[1, 1, 1, 1, 0]` |
| `construct_sat_intervals` | `SatIsCoherent` | only the first letter of an interval is constrained (`Learner.java:297`, `362`) |
| `image_loop` | `ImageSound` | the image of `l*` under the pair `(l,l)` becomes `l*` instead of `l` |

The models show more, which the passing runs state as limits or assumptions:

* the witness of an existential counterexample may not have the length
  `n*na - 1` the thesis allows (`ExCompleteBelowBound`, `Learner.java:329`), and
  with `n = na = 1` the array `z` is empty and read all the same
  (`EncodeExFails`, `Learner.java:348`);
* outside the linear game the result of `image` may be nondeterministic although
  it counts as deterministic (`FlagHonestIfPlain`,
  `TransducerOperations.java:189`), and what follows is then not what
  ConstructSAT and Minimize take it to be;
* a conjecture whose automaton has a cycle of several states makes `imageRec`
  recurse without end (`OverflowOnlyOnCycle`);
* in a game without a winning set, a word may become positive and negative,
  which a comment rules out (`PrefixTree.java:53`); `NoContradiction` is stated for
  games that have one;
* the expression of `boxGame` (`SafetyProblem.java:94`) relates vertices to words
  that are none, so that `linearGame` is the game of `teacher`.

## 4. Fairness

The programs are sequential: a caller that has not returned takes its next step.
Hence weak fairness of the whole next-state relation, and of nothing finer: the
choices (which model Z3 returns, which transition an iterator yields) are not
fair. Of `Main.solve`, `ExchangeEnds` says that learner and teacher do not go on
for ever: an answer comes, or the stack overflows. It is claimed only when some
winning set is the language of a DFA of the hypothesis space (the documentation
says that `solve` need not halt otherwise), player 0 always has a move and the
images are exact (section 2). That an answer comes is not claimed, since a
conjecture with a cycle may end the program before. That the loops of Minimize and Attractor end is stated without
fairness, as a measure that each step improves.

## 5. Proofs

**Solver_proofs** proves, for every game, hypothesis space, order of words and
`MaxStates`, the properties of `Solver`. The assumptions are `ArenaAssumption`
(the languages are sets of words, moves go from vertices to vertices) and
`LearnerAssumption` (`Lang` grows with the number of states, `NoAnswer` is no
language, `Endless` holds languages).

* `TypeCorrect`, `SolutionKept`, `ContradictionFree`, `Coherence`, `Minimality`,
  `BoundedStates`: invariants;
* `ForGood`, `DuplicateFree`: action properties;
* `Correctness`: `Solver` implements `WinningSetSpec`.

The inductive invariant is

    IInv == TypeOK /\ SampleSound /\ ConjectureMinimal /\ Submitted /\ ReturnedWins

`SampleSound` is inductive because each counterexample is one of the four clauses
of `IsWinningSet`, read at the word of the counterexample (lemma
`Counterexample`): it holds of every winning set, and not of the conjecture.
`Submitted` (a conjecture is consistent when it reaches the teacher) is needed
because minimality and novelty compare the conjecture with the sample of its
time; `ReturnedWins` carries the outcome of the four checks (`PassingWins`) to the
end. `ConjectureMinimal` is preserved by a growing sample because a language once
ruled out stays so (`RejectionStep`), and by `Unsatisfiable` because a coherent
language is consistent (`CoherentIsConsistent`). The other properties follow:
no word is contradictory in a solvable game since a winning set respects the
sample; then consistent and coherent are the same; a rejected conjecture, being
coherent before and not after, makes the sample change.

**Recursion** holds what the other proofs need of induction. The prover cannot
use a principle that is stated of every predicate, so these are stated of every
set: a set of numbers that holds 0 and the successor of each of its members holds
all numbers (`NumberInduction`, from the least number of the complement), and the
same for intervals, words and finite sets. For a definition by recursion,
`Iteration` shows that a function with the required values exists, after which the
`CHOOSE` that TLA+ makes of it can be unfolded. What is reached in a graph is
described by `ClosesExists` and `ClosesLeastWithin`, as the least closed set. `Enumerated`,
`TakenOut` and `PutIn` are about `SetToSeq` and cardinalities; `FoldExists` and
`FoldsUp` about folding a sequence, `Join` and `Powers` about languages: words of one
followed by words of another, any number of times.

**AttractorSAT_proofs**, on the formula of constructSAT, for every DFA, automaton,
antecedent and alphabet that `ConstructAssumption` admits:

* `ModelsAreCoherent` (`SatIsCoherent`): where no letter has the code after another
  (`Adjacent = {}`), every model of the clauses on `y` or on `z` respects the
  counterexample. The hypothesis is that of the passing run; `construct_sat_intervals`
  shows that it is needed.
* `ModelsAreCoherentOnAllWords`: the same without the bound on words. A witness can
  be shortened to less than the product of the numbers of states, as long as two
  of its prefixes lead to the same pair (pigeonhole on the run of the product).
* `UniversalFormulaComplete` (`UniComplete`): the clauses on `y` exclude no coherent
  DFA; the reachable pairs are a value of `y`.
* `ExistentialFormulaComplete` (`ExCompleteBelowBound`): those on `z` exclude none
  that has a witness shorter than the greatest length they consider.

A run of an automaton is unfolded letter by letter (`RunIsRun`), and the rows of
`z` are shown, by induction on the length, to hold exactly the pairs that a word
of that length leads to.

**PrefixTree_proofs**, for every set of words (`WordsAssumption`: they are
sequences), sample and order:

* `IdsNumberNodes` (`TypeOK`) and `LookupsFind` (`LookupInRange`). `AddWordKeeps` is the
  lemma about `addWord`: a new node gets the size of the tree plus its rank among
  the missing prefixes (`Ranks`), so ids stay distinct and below the new size; an
  injection of the nodes into as many numbers is onto. The loops need the
  invariant that an antecedent whose turn has passed is held with all its
  prefixes: then the lookup finds no prefix missing and the size stays the number
  of rows.
* `FormulaExact` (`WordsExact`): the DFA read off a model of the clauses agrees with
  the words of the sample, and one that agrees is given up only for rows of `x` that
  do not describe its runs. The invariants are `Labels` (which nodes are labelled
  with which sign while the loops run: a positive label is never overwritten) and
  `Rows` (the rows of the nodes done so far are the runs of the DFA, those waiting
  are the children of nodes done).

**Automata_proofs** begins with what each construction of Automata gives, for every
automaton and alphabet: `getStates` as the least set closed under transitions
(`Reachable`), the numbering of states (`NumberedAutomaton`), intervals
(`IntervalsCover`), `reduce` (`Reduced`), `removeDeadTransitions` (`DeadRemoved`),
`totalize` (`Total`), the subset construction (`PowerAutomatonIsOne`), epsilon moves
(`EpsilonsAdded`, `Linked`). Theorems about Operations and, in Minimize_proofs, about
Minimize rest on that. Those about Operations need one invariant, `RegistersTidy`:
both automata are well-formed and honest (`Sound`), and no transition leads to a dead
state (`NoneDead`). There is a lemma for each operation.

* `FlagsAreHonest` (`FlagHonest`): whatever is called, in any order and any number of
  times, an automaton that counts as deterministic is. The flag is claimed by
  `determinize` (different start points have different stretches,
  `PowerIsDeterministic`), `totalize` and `complement` (the gaps
  of a state are letters it does not read), `intersection` (a common move is one of
  each) and `concatenate`, if a word stands before a deterministic automaton:
  the states of a line have one move each and only the last gets new ones
  (`WordBefore`). All the others drop it.
* `NoDeadLeft` (`NoDeadTransitions`). What is reached changes with every new initial
  state, so `NoneDead` is stated of all states, reached or not: each transition leads
  to a state of `Productive`, the least set with the accepting states and the sources
  of transitions into it. It grows with acceptance and transitions
  (`ProductiveGrows`), which is what epsilon moves add; among the reached states it is
  the live ones (`ProductiveIsLive`). Only concatenation takes acceptance away, from
  the end of its first part: those states stay productive because they get the
  moves, or the acceptance, of the initial state of the second part (`Follows`), which
  has some as it is not empty. That is why the early return of `concatenate` on an
  empty argument matters, and why `isEmpty`, which decides it, may look at the
  initial state alone.

The next ones say what the operations accept, for words of any length:

* `DeterminizeRun`, `ComplementRun`, `IntersectionRun`, `MinusRun`, `Union2Run`,
  `UnionListRun`, `ConcatenateRun`, `ConcatenateListRun`, `OptionalRun`, `RepeatRun`,
  `RepeatMinRun` and `RepeatMinMaxRun` give the language of each result.
  `After(m, w)` is the set of states that `run` has after `w`; each proof follows it
  letter by letter. The subset construction has the set itself as its one state
  (`PowerAfter`), a product the pairs (`ProductAfter`), automata side by side
  (`SideBySide`) a part for each. An epsilon move copies transitions and
  acceptance: a step then goes where the states with those that they jump to
  went before (`StepsAhead`). So concatenation is after `w` in the states of
  the second part after any rest of `w` (`Split`), and repetition, which jumps
  back to a state that was given its moves one step before, accepts once more
  what it accepts already (`Again`). Concatenation of a list goes by induction on its
  length, and what it does with a word before it by `Chains`.
* `LanguagesAreExact` (`LanguageExact`): after any sequence of calls, each automaton
  accepts of the words up to `MaxLength` exactly those that the operations on
  languages say. The restriction to those words has to be carried through
  concatenation and powers (`CatIs`, `PowerIs`), since a power of a set of short
  words has longer ones, and `repeat(min)` without a maximum has to be shown to need
  no more than `MaxLength` repetitions beyond `min` (`BetweenIsEnough`).

* `SubsetsAreExact` (`SubsetExact`), from `SubsetOfRun`: `subsetOf` holds exactly when each
  word that the first automaton accepts is accepted by the second. The pairs that
  it visits are those that a word leads to (`PairsTogether`). It rejects where a
  letter can be read in the first only, which is right because there is no dead
  state beyond (`ProductiveContinues`) and the second, determinized, is in one state
  only (`OneAfter`). That hypothesis, that the first has no dead transition, is
  what `NoDeadLeft` provides.
* `ShortestsAreExact` (`ShortestExact`): `getShortestExample` returns the first of the
  accepted words, the shorter ones coming first, and none only if `isEmpty` holds,
  whatever the order in which a hash set gives the states met together. The order of
  words is total, and kept when a letter is appended (`BeforeTotal`, `BeforeAppend`).
  The invariant of the search, `Searched`, says that the queue holds at most two
  lengths, the shorter in front (`IsLayered`); a word is only revised by one of its
  length, and so never after its state was taken out; what is taken out has handed its
  word on (`Explored`) or is not before the best one (`BestSoFar`). With an empty
  queue every word is then covered by the best one or by that of a state it leads to
  (`AllCovered`, by induction on the word). That `isEmpty` may be asked instead of the
  language is again `NoneDead` (`NothingAccepted`).

**Minimize_proofs**, for every automaton that `InputsAssumption` admits; that `totalize` and
`determinize` give each state a next one for each letter, and two states
unless the early return is taken, is lemma `Prepared`:

* `QueueSuffices` (`PendingSuffices`) and `EndsStable`: when the queue is empty the
  states of a block agree on acceptance and go to the same block by every letter,
  so that one state can stand for them. The invariant of the loop, `Separated`, says
  that two states of a block that go to different blocks are told apart by a pair
  of the queue, or belong to a block that is still to be refined and only one of
  them is split off. `Take` turns the first case into the second (`TakeKeeps`). In
  `Refine` (`CutBlock`), if a split of `j` into `j` and `k` comes between the two
  targets, either part tells them apart, whichever is queued; if `<<j, c>>` was in
  the queue already, `<<k, c>>` joins it.
* `NeverSeparates` and `EndsCoarsest`: the invariant `Together` speaks of an arbitrary
  bisimulation. States that it relates are in one block, and either both or
  neither are split off, since by the letter taken they reach related states,
  which one block holds. Hence no stable partition has fewer blocks.
* `TypesCorrect` (`TypeOK`), with `ArraysKept`: no block is empty, so there are never
  more blocks than states, which is the length of the arrays; and a split queues
  one new pair for each letter.
* `LoopEnds` (`LoopAdvances`): the measure that makes the loop end.
* `ImplementsMyhillNerode` (`FindsClasses`): the refinement of the abstract
  specification. The classes are those of `Apart`, which is the least set of pairs
  closed under going back by a letter; its complement is a bisimulation, to which
  `Together` applies, and a block that is split is split in two.
* `ResultsAreExact`, about words: the result accepts what the argument accepts
  (`Run`), and words that can be followed by the same lead to the same state of it
  (`Distinct`), so no two of its states accept the same. The invariant `Origin` says
  of the loop that it works on the argument made total, and of the result that it
  is `Minimized`. When the loop ends, the automaton of the blocks goes from block to
  block as the total one goes from state to state (`QuotientAfter`, by `EndsStable`),
  and words that can be followed by the same lead to states of one block, as the
  pairs of such states are a bisimulation (`EndGathers`, by `NeverSeparates`). Dead
  transitions are then removed and the states renamed, neither of which brings
  two states together (`QuotientDistinct`). The early returns are `AtOnce`.
* `ResultsAreMinimal` (`ResultMinimal`), the same as the run checks it, by `subsetOf`
  and `getLiveStates`. It assumes of the arguments that no transition leads to a
  dead state, as those of the run and what `removeDeadTransitions` leaves: of
  other automata `subsetOf` may deny what is so, since it asks `isEmpty`.
  `ResultsAreExact` does not need that.

**AttractorSAT_proofs**, on attractor, for every arena, target and limit:

* `AttractorTypes` (`AttractorTypeOK`), the bound on the number of rounds included:
  each round but the last marks a vertex (`RoundsBound`).
* `NothingMissed` (`Complete`): the counter of an opponent vertex that is not marked
  never exceeds the number of its successors that are yet to be counted
  (`CounterBound`; it may be too small, because of duplicates), so the rounds mark
  at least the levels of the inductive definition (`LevelMarked`).
* `PlayerStays` (`PlayerCanStay`), from the invariant that the list holds marked
  vertices.
* `RoundsAreExact` (`RoundExact`): as long as no vertex is listed twice the counters
  are those successors, exactly, and the marks the levels.

How often a vertex is met is a sum over a finite set; its lemmas are inductions on
that set.

**Transducers_proofs**, for every set of automata of pairs (`InputsAssumption`),
`MaxCopies`, `MaxLength` and order of the visits:

* `TransducersAreRight` (`RelationExact`). The invariant says of the automaton or
  transducer being traversed that it relates what is meant (`Right`), and of the
  part built so far that it is the image of the part visited under an injective
  numbering (`Traversed`, `Renamed`), with each pair turned if it is to be. When
  nothing is left to visit, paths of the two sides correspond.
* `RunsAreRight` (`RunExact`), if no letter of a transition stands for a pair of two
  epsilons (`ReadsLetters`): `run` takes no transition that reads nothing, so a path
  through one would be missed. The map of `boxGame` has such a letter, `i`, but its
  expression does not use it. The invariant says that the letters read are those
  of a path to the current state and, when choices are determined, that an
  accepting end that could be reached at first can be reached still.

**Image_proofs**, for every automaton and every transducer no transition of which
reads and writes nothing (`InputsAssumption`):

* `ImageTyped` (`TypeOK`): the calls and the new transitions are on states that exist
  and no state is made without a transition to it. One lemma, `CallKeeps`, is about
  a step that adds a transition to an old state or to the next one and may call
  `imageRec` for it; the four branches are instances.
* `FiniteImageSound` (`ImageSound`), if no automaton has a transition from a state to
  itself (`Loopless`), as those of finite languages: the result is then a tree, and
  the invariant `Labelled` puts on each state the pairs of states that the
  automaton and the transducer are in after the word that leads there.
* `LoopingImageComplete` (`ImageComplete`), if the transducer stays where it is when
  the automaton loops (`LoopsTogether`) and no letter has the code after another: no
  word of the image is missing. The invariant `Followed` gives the calls made so
  far, each of whose moves is answered by a transition and a call or waits in a
  frame. In the linear game a set of vertices loops on `l` only, which the
  transducer copies without moving, or erases.

* `FlagsHonestIfPlain` (`FlagHonestIfPlain`), if the arguments are `Plain`: in the
  automaton, the transitions of a state read different letters and all loop or
  none does; in the transducer, those of a state that read write different
  letters, and nothing follows one with an epsilon; and it stays where it is when
  the automaton loops. The invariant `Told` labels each state of the result with the
  states its calls are on: but for loops the result is a tree (`Shape`); a call that
  may go to a new state finds no transition on that letter (`Waiting`), because two
  calls in progress for one state are where the automaton loops (`AllApart`).
* `PlainImageSound` (`ImageSound`), if they are also `EndsTogether`: a state that loops
  accepts, and so does the transducer where it could have ended by writing the same
  letter without reading one. An insertion may make a known state accept whose
  label is another pair: then the state has no loop, and after the letter of the
  one transition to it automaton and transducer may end (`EndsWith`).
  `image_loop` violates `Plain`: without it a loop may be merged wrongly.

The hypotheses of both hold of all that the linear game is given in the run
(`LinearAssumption`).

Only model-checked: liveness, and the answers of the Teacher, which runs Image
between the operations on automata.

## 6. Not modelled

* `RegExp`: a parser. The operations it calls are those of Operations, and
  MCTeacher applies them in its order.
* Z3, vendored under `lib/z3-master`, which is nearly all of the repository's
  lines: any model of the formula may come back.
* The algorithms of `MinimizationOperations` that are never selected (Huffman,
  Brzozowski, Valmari), `SpecialOperations`, `Datatypes`, `StringUnionOperations`,
  `AutomatonProvider`, loading, output, cached hash codes.
* `PrefixTree.getWord` and the debugging prompts of the learner.
* `SafetyProblem.boxGame`, and the `reduce` and `minimize` of its constructor.
* `TransducerTransition.equals` compares the pair with itself; no `hashCode` goes
  with it, so hash sets keep such transitions apart unless they are identical.
* Minimization of an automaton that counts as deterministic and is not, which
  `image` may hand over outside the linear game.

## 7. Plan

Done: the solver's loop and its abstract specification, the whole formula, the
prefix tree, the operations on automata, minimization, transducers, the image,
the teacher on automata, the attractor; proofs about all but the Teacher. What is
left, in this order:

1. Minimize composed with Image on results that are nondeterministic.
2. A refinement of Solver's teacher by Teacher on the linear game, and of its
   learner by ConstructSAT with WordConstraints, several implications at once.
3. Proofs: the Teacher's answers.
