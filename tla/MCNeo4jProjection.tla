------------------------- MODULE MCNeo4jProjection -------------------------
(***************************************************************************)
(* Small instances of Neo4jProjection for TLC: two servers, and three       *)
(* contents of which two differ in their texts only.                        *)
(***************************************************************************)
EXTENDS Neo4jProjection, TLC

CONSTANTS s1, s2, v1, v2, v3, few, more

TwoServers == {s1, s2}
TwoContents == {v1, v2}
ThreeContents == {v1, v2, v3}
SameIds == v1 :> few @@ v2 :> few
TwoSameIds == SameIds @@ v3 :> more

Symmetry == Permutations(TwoServers)
=============================================================================
