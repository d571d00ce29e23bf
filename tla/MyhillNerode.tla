---------------------------- MODULE MyhillNerode ----------------------------
(***************************************************************************)
(* What minimization does to the states of an automaton: it starts from at *)
(* most two blocks and splits one block at a time, never separating states *)
(* that the same words are accepted from.                                  *)
(***************************************************************************)

VARIABLES
  classes,   \* the classes of equivalent states
  blocks     \* the blocks of the partition

Respects == \A c \in classes : \E b \in blocks : c \subseteq b

Init == classes = {} /\ blocks = {}

Begin ==
  /\ blocks = {}
  /\ \E b \in blocks', c \in blocks' : blocks' = {b, c}
  /\ UNION classes' = UNION blocks'
  /\ Respects'

Split ==
  \E b \in blocks \ blocks' :
    /\ \E c \in (SUBSET b) \ {{}, b} : blocks' = (blocks \ {b}) \cup {c, b \ c}
    /\ UNCHANGED classes
    /\ Respects'

Next == Begin \/ Split

Spec == Init /\ [][Next]_<<classes, blocks>>

=============================================================================
