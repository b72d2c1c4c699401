---------------------------- MODULE MCToolCalls ----------------------------
(* Two projects; one of them may have a database setting of its own.       *)
EXTENDS ToolCalls

CONSTANTS a, b, dbA, dbB, dbX

MCProjects == {a, b}
MCDefaultDb == [p \in MCProjects |-> IF p = a THEN dbA ELSE dbB]
MCHosts == {b}
NoSetting == [p \in MCProjects |-> None]
MCOwnDbs == {NoSetting, [NoSetting EXCEPT ![a] = dbX]}
=============================================================================
