-------------------------- MODULE MCGraphMutations --------------------------
(***************************************************************************)
(* Small instances of GraphMutations for TLC: the graphs to start from and  *)
(* the calls each run makes.                                                *)
(***************************************************************************)
EXTENDS GraphMutations

CONSTANTS a, b, c, r, root, v, w, brief, full

ThreeElements == {a, b, c}
OneRelationship == {r}
TwoViews == {root, v}
ThreeViews == {root, v, w}
TwoTexts == {brief, full}
LosingTexts == {<<full, brief>>}

Element(text, subs) == [text |-> text, subs |-> subs]
View(parent, els, rels) == [parent |-> parent, els |-> els, rels |-> rels]

\* a and b related in both views, v mounted under a.
Mounted ==
    [elements |-> a :> Element(full, {v}) @@ b :> Element(brief, {}),
     rels |-> r :> [src |-> a, tgt |-> b],
     views |-> root :> View(NoParent, {a, b}, {r}) @@ v :> View(a, {a, b}, {r})]

\* Three elements, v shows c only and is mounted under b.
Spread ==
    [elements |-> a :> Element(brief, {}) @@ b :> Element(brief, {v}) @@ c :> Element(full, {}),
     rels |-> r :> [src |-> a, tgt |-> b],
     views |-> root :> View(NoParent, {a, b}, {r}) @@ v :> View(b, {c}, {})]

\* The root view alone.
Flat ==
    [elements |-> a :> Element(brief, {}),
     rels |-> <<>>,
     views |-> root :> View(NoParent, {a}, {})]

\* As Spread, before the relationship.
Unrelated ==
    [Spread EXCEPT !.rels = <<>>, !.views[root].rels = {}]

\* A third view, which shows b and c and hangs under a.
Wide ==
    [Spread EXCEPT !.elements[a].subs = {w}, !.views = @ @@ w :> View(a, {b, c}, {})]

SoundGraphs == {Mounted, Spread, Flat}
BatchGraphs == {Mounted, Spread, Flat, Unrelated, Wide}

\* Graphs written before the server kept both sides of a mount.
DriftedGraphs ==
    LET lists(x, y, z) == [Spread EXCEPT !.elements[a].subs = x, !.elements[b].subs = y,
                                         !.elements[c].subs = z]
    IN  {lists(x, y, z) : x \in SUBSET {v, w}, y \in SUBSET {v}, z \in SUBSET {v}}
-----------------------------------------------------------------------------
(* Mutations.                                                               *)

Scopes == {{root}, {v}, {root, v}}
Memberships == {Keep} \union [full : {TRUE}, add : {{c}, {a, b, c}}, remove : {{}}]
                      \union [full : {FALSE}, add : {{}}, remove : {{a}, {c}}]

ElementMutations ==
    [type : {"addElement"}, id : ThreeElements, text : {brief}, subs : {{}, {v}}, scope : Scopes]
    \union [type : {"updateElement"}, id : ThreeElements, text : {Keep, brief, full},
            subs : {Keep, {}, {v}}]
    \union [type : {"removeElement"}, id : ThreeElements, scope : Scopes \union {{}}]

RelationshipMutations ==
    [type : {"addRelationship"}, id : {r}, src : {a}, tgt : {b, c}, scope : Scopes]
    \union [type : {"updateRelationship"}, id : {r}, src : {Keep, c}, tgt : {Keep, b}]
    \union [type : {"removeRelationship"}, id : {r}, scope : Scopes \union {{}}]

ViewMutations ==
    [type : {"addView"}, id : {v}, parent : {a, b}, els : {{}, {a, b}}, rels : {{}, {r}}]
    \union [type : {"updateView"}, id : TwoViews, parent : {Keep, a, c}, elsPatch : Memberships,
            relsPatch : {Keep}]
    \union [type : {"updateView"}, id : TwoViews, parent : {Keep}, elsPatch : Memberships,
            relsPatch : {[full |-> TRUE, add |-> {}, remove |-> {}],
                         [full |-> FALSE, add |-> {}, remove |-> {r}]}]
    \union [type : {"removeView"}, id : TwoViews]

Mutations == ElementMutations \union RelationshipMutations \union ViewMutations

\* One mutation of any kind.
SingleCalls == [batch : {<<m>> : m \in Mutations}, ack : BOOLEAN]

\* One mutation that mounts a view, moves it or deletes it.
LinkCalls ==
    [batch : {<<m>> : m \in
        [type : {"addElement"}, id : {c}, text : {brief}, subs : {{}, {v}}, scope : {{root}}]
        \union [type : {"updateElement"}, id : ThreeElements, text : {Keep},
                subs : {Keep, {}, {v}}]
        \union [type : {"removeElement"}, id : ThreeElements, scope : {{}, {root}}]
        \union [type : {"addView"}, id : {w}, parent : ThreeElements, els : {{}, {c}}, rels : {{}}]
        \union [type : {"updateView"}, id : ThreeViews, parent : ThreeElements \union {Keep, NoParent},
                elsPatch : {Keep}, relsPatch : {Keep}]
        \union [type : {"removeView"}, id : {w}]},
     ack : {TRUE}]
-----------------------------------------------------------------------------
(* Batches.                                                                 *)

\* New objects that need one another: the element c in the new view w, which
\* hangs under b or under c itself, and a relationship to c.
Additions ==
    [type : {"addElement"}, id : {c}, text : {brief}, subs : {{}, {w}}, scope : {{w}, {root}}]
    \union [type : {"addRelationship"}, id : {r}, src : {a}, tgt : {c}, scope : {{w}, {root}}]
    \union [type : {"addView"}, id : {w}, parent : {b, c}, els : {{}, {c}}, rels : {{}, {r}}]

\* ... with an update of c, the removal of v, or v moved under c.
Edits ==
    [type : {"updateElement"}, id : {c}, text : {brief}, subs : {Keep, {v}}]
    \union [type : {"removeView"}, id : {v}]
    \union [type : {"updateView"}, id : {v}, parent : {c}, elsPatch : {Keep}, relsPatch : {Keep}]

\* One mutation of a kind, and none of a view that another deletes.
BatchesOf(ms, n) ==
    {SetToSeq(S) : S \in {T \in kSubset(n, ms) :
        \A x, y \in T :
            /\ x.type = y.type => x = y
            /\ ~(x.type = "removeView" /\ y.type = "updateView" /\ x.id = y.id)}}

AdditionCalls ==
    [batch : BatchesOf(Additions \union Edits, 2) \union BatchesOf(Additions, 3), ack : {TRUE}]

\* Links, batches and repairs together.
LinkAndBatchCalls == LinkCalls \union AdditionCalls
LinkAndDriftedGraphs == BatchGraphs \union DriftedGraphs
=============================================================================
