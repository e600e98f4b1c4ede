------------------------------- MODULE MCRope -------------------------------
(* Model-checking instances of Rope.  Caller ids and node objects are      *)
(* model values; Zero and the head are distinguished.                      *)
EXTENDS Rope, TLC

CONSTANTS a, b, c, n1, n2, n3, n4, i1, i2

MCNodes == {HeadNode, n1, n2, n3, n4}
MCLens == {-1, 0, 2}
PositiveLens == {1, 2}

\* rope_core: three entries, no iterator.
CoreIds == {Zero, a, b, c}
CoreIters == {}
CoreSymm == Permutations({a, b, c}) \cup Permutations({n1, n2, n3, n4})

\* rope_iter: two entries and two iterators.
IterIds == {Zero, a, b}
IterIters == {i1, i2}
IterLens == {1}
IterSymm == Permutations({a, b}) \cup Permutations({n1, n2, n3, n4})
            \cup Permutations({i1, i2})
\* iter_live: as rope_iter with three nodes, and no symmetry (liveness).
LiveNodes == {HeadNode, n1, n2, n3}
\* rope_refines: two entries, no iterator.
RefIds == {Zero, a, b}
RefSymm == Permutations({a, b}) \cup Permutations({n1, n2, n3, n4})
=============================================================================
