------------------------------- MODULE MCDag -------------------------------
\* Vertices of which the first two share a label, and the others another.
\* Vertices of one label are interchangeable.
EXTENDS Dag, TLC

CONSTANTS v1, v2, v3, v4, l1, l2

MCLabelOf == [v \in Vertices |-> IF v \in {v1, v2} THEN l1 ELSE l2]
MCSymmetry == Permutations({v1, v2}) \cup Permutations({v3, v4})
=============================================================================
