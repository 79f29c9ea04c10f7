--------------------------- MODULE MCMetricsScope ---------------------------
(* MetricsScope on a small instance: one object, two lives, three guards. *)
EXTENDS MetricsScope

CONSTANTS n1, a, b, g1, g2, g3, h1

Symmetry == Permutations(Guards)
=============================================================================
