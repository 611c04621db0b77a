--------------------------- MODULE MCRouteManager ---------------------------
EXTENDS RouteManager, TLC

CONSTANTS i1, i2, v4, v6

MCFamilyOf ==
  [i \in Ids |-> IF i = i1 \/ v6 \notin Families THEN v4 ELSE v6]

Symmetry == Permutations(Workers)
=============================================================================
