--------------------------- MODULE MCEaWebService ---------------------------
(***************************************************************************)
(* Small instances of EaWebService for TLC: an element a and a view d.     *)
(***************************************************************************)
EXTENDS EaWebService

CONSTANTS a, d, v1, v2, short, long, entry

MCObjects == {a, d}
MCDiagrams == {d}
MCViews == {v1, v2}
MCTexts == {short, long}
MCItems == {entry}

\* Two descriptions of an element; "long" adds a line to "short".
LosingPairs == {<<long, short>>}
MCIdentity == [t \in MCTexts |-> "ActorCustomer"]

\* An element in two views, in v1 with a relationship.
Element == [text |-> short, items |-> {}, shown |-> {v1, v2}, linked |-> {v1}]
View(members) == [text |-> short, items |-> members, shown |-> {}, linked |-> {}]

MCGiven == {a :> Element @@ d :> View({entry}), a :> Absent @@ d :> View({})}

\* An attribute comes, a line is added, the view loses a member, the element leaves
\* a view with or without its relationship, is added, or goes in a batch.
MCEdits ==
    {UpdateCall(a, Keep, {entry}, {}, FALSE),
     UpdateCall(a, long, {}, {}, FALSE),
     UpdateCall(d, Keep, {}, {entry}, FALSE),
     RemoveCall(a, {v1}),
     RemoveCall(a, {v2}),
     AddCall(a, Element),
     BatchCall(a :> Absent)}
=============================================================================
