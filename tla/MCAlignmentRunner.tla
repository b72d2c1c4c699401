------------------------- MODULE MCAlignmentRunner -------------------------
(* Values for model checking AlignmentRunner.  The 10 and 15 minutes are 1 and 2. *)
EXTENDS AlignmentRunner

CONSTANTS s1, s2, q1, q2

MCServers == {s1}
MCQueries == {q1, q2}
MCForeign == {q2}
=============================================================================
