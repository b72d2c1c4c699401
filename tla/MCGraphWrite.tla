---------------------------- MODULE MCGraphWrite ----------------------------
(***************************************************************************)
(* Small instances of GraphWrite for TLC: an MCP server and a web           *)
(* service writing a graph of two objects.                                 *)
(***************************************************************************)
EXTENDS GraphWrite, TLC

CONSTANTS m1, web, a, b

OneServer == {m1}
ServerAndWeb == {m1, web}
TwoObjects == {a, b}

\* The objects are interchangeable.
ObjectSymmetry == Permutations(TwoObjects)
=============================================================================
