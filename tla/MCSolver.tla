------------------------------ MODULE MCSolver ------------------------------
(***************************************************************************)
(* Instances of Solver: games over short words, the hypothesis space being *)
(* every DFA over their letters with up to MaxStates states.               *)
(***************************************************************************)
EXTENDS Solver, SequencesExt

(* The languages, on the words of a game, of the DFAs with k states.       *)
Reads(d, u) == FoldLeft(LAMBDA q, a : d[q][a], 1, u)

(* The words that lead to each state, and the unions of such classes.      *)
Classes(d, words) == {{u \in words : Reads(d, u) = q} : q \in DOMAIN d}

DfaLangs(words, letters, k) ==
  UNION {{UNION c : c \in SUBSET classes} :
           classes \in {Classes(d, words) : d \in [1..k -> [letters -> 1..k]]}}

(* Shortest words first; between words of one length, the listed order.    *)
RankOf(order) == [u \in ToSet(order) |-> CHOOSE i \in DOMAIN order : order[i] = u]

(***************************************************************************)
(* The languages of the DFAs with k states that accept a word by way of a  *)
(* cycle of several states: imageRec never returns from it.                *)
(***************************************************************************)
Onwards(d, q) ==
  FoldSet(LAMBDA i, S : S \cup {d[r][a] : r \in S, a \in DOMAIN d[q]}, {q}, DOMAIN d)

OnCycle(d) ==
  {q \in Onwards(d, 1) : \E r \in Onwards(d, q) \ {q} : q \in Onwards(d, r)}

CyclicLangs(words, letters, k) ==
  {{u \in words : Reads(d[1], u) \in d[2]} :
     d \in {<<e, f>> \in [1..k -> [letters -> 1..k]] \X SUBSET (1..k) :
              \E q \in OnCycle(e) : Onwards(e, q) \cap f # {}}}

-----------------------------------------------------------------------------
(***************************************************************************)
(* A game in which all four kinds of counterexample are needed, and need   *)
(* each other: both players branch, one word is no vertex.                 *)
(***************************************************************************)
BranchOrder ==
  << <<>>, <<"a">>, <<"b">>, <<"a","a">>, <<"a","b">>, <<"b","a">>, <<"b","b">> >>

BranchWord == ToSet(BranchOrder)
BranchV0 == {<<"b">>, <<"a","b">>, <<"b","a">>}
BranchV1 == {<<>>, <<"a">>, <<"a","a">>}
BranchI == {<<>>, <<"a","b">>}
BranchF == BranchV0 \cup BranchV1
BranchEdges ==
  { << <<>>, <<"a","b">> >>, << <<"a">>, <<"b">> >>, << <<"a","a">>, <<"a","a">> >>,
    << <<"a","a">>, <<"b">> >>, << <<"a","a">>, <<"b","a">> >>,
    << <<"b">>, <<"b","a">> >> }
    \cup {<< <<"a","b">>, v >> : v \in {<<"a">>, <<"a","a">>, <<"b","a">>}}
    \cup {<< <<"b","a">>, v >> : v \in {<<"a","b">>, <<"b","a">>}}
BranchRank == RankOf(BranchOrder)
BranchLang1 == DfaLangs(BranchWord, {"a", "b"}, 1)
BranchLang2 == DfaLangs(BranchWord, {"a", "b"}, 2)
BranchLang3 == DfaLangs(BranchWord, {"a", "b"}, 3)
BranchLang4 == DfaLangs(BranchWord, {"a", "b"}, 4)
BranchLang ==
  << {L \in SUBSET BranchWord : L \in BranchLang1},
     {L \in SUBSET BranchWord : L \in BranchLang2},
     {L \in SUBSET BranchWord : L \in BranchLang3},
     {L \in SUBSET BranchWord : L \in BranchLang4} >>

(* Of up to three states: no smaller DFA wins, and none larger is needed.  *)
BranchEndless ==
  CyclicLangs(BranchWord, {"a", "b"}, 2) \cup CyclicLangs(BranchWord, {"a", "b"}, 3)

=============================================================================
