---------------------------- MODULE MCAttractor ----------------------------
(* Every arena over a few vertices, two of them in the target.             *)
EXTENDS Attractor, TLC

CONSTANTS t1, t2, v1, v2, v3

FiveVertices == {t1, t2, v1, v2, v3}
Targets == {t1, t2}

WholeAttractor == {-1}
AnyLimit == {-1, 0, 1, 2}

(* The vertices of the target are interchangeable, and so are the others.  *)
Symmetry == Permutations(Targets) \cup Permutations({v1, v2, v3})

=============================================================================
