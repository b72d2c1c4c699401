-------------------------- MODULE MCSemanticIndex --------------------------
(* Values for model checking SemanticIndex.                                *)
EXTENDS SemanticIndex

CONSTANTS e1, e2, v1, t1, t2

MCIds == {e1, e2, v1}
MCChannels == <<"Element", "View">>
MCChannelOf == [id \in MCIds |-> IF id = v1 THEN "View" ELSE "Element"]
MCTexts == {t1, t2}
MCGraphs0 == {[id \in MCIds |-> IF id = e2 THEN Absent ELSE t1]}
=============================================================================
