--------------------------- MODULE GraphMutations ---------------------------
(***************************************************************************)
(* What a mutation call does to the architecture graph: applyMutations in   *)
(* systemarchitecture-mcp-server.js orders the batch, applies it to a copy, *)
(* and buildMutationResult writes the copy if it is valid and the lossless  *)
(* write gate lets it through.  One call is one step: GraphWrite models the *)
(* lock that makes it so.                                                   *)
(*                                                                          *)
(* A graph has elements, each listing the views mounted under it (subs, for *)
(* subdiagram_views); relationships between elements; and views, each with  *)
(* its parent element and the elements and relationships it includes.  Ids  *)
(* are the keys, lists are sets.  An id has one type and name for ever, so  *)
(* two objects never share a natural key and adding a taken id reuses it.   *)
(***************************************************************************)
EXTENDS Naturals, Sequences, FiniteSets, SequencesExt

CONSTANTS
    Elements, Relationships, Views,  \* ids
    RootView,   \* the view whose name is invariants.rootViewName
    NoParent,   \* a view without parent_element_id
    Keep,       \* a field that a patch does not mention
    Texts,      \* descriptions of elements
    Loses,      \* pairs <<old, new>> of texts where new drops a part of old
    Limit,      \* invariants.maxElementsPerView
    Calls,      \* the calls the agents make: [batch, ack] records
    Docs        \* the graphs the server may start from

ASSUME MutationConstants ==
    /\ RootView \in Views
    /\ NoParent \notin Elements
    /\ Keep \notin Texts
    /\ \A S \in SUBSET Views : Keep # S
    /\ Loses \subseteq Texts \X Texts
    /\ \A t \in Texts : <<t, t>> \notin Loses
    /\ IsFiniteSet(Elements)
    /\ Limit \in Nat

VARIABLE doc

-----------------------------------------------------------------------------
(* Graphs and calls.                                                        *)

Partial(S, T) == UNION {[D -> T] : D \in SUBSET S}

Graphs ==
    [elements : Partial(Elements, [text : Texts, subs : SUBSET Views]),
     rels : Partial(Relationships, [src : Elements, tgt : Elements]),
     views : Partial(Views, [parent : Elements \union {NoParent},
                             els : SUBSET Elements, rels : SUBSET Relationships])]

\* A patch may leave any of its fields out; a list it gives whole or as a delta.
MembersPatch(S) ==
    {Keep} \union [full : BOOLEAN, add : SUBSET S, remove : SUBSET S \union {Keep}]

AnyMutation ==
    [type : {"addElement"}, id : Elements, text : Texts, subs : SUBSET Views, scope : SUBSET Views]
    \union [type : {"updateElement"}, id : Elements, text : {Keep} \union Texts,
            subs : {Keep} \union SUBSET Views]
    \union [type : {"removeElement"}, id : Elements, scope : SUBSET Views]
    \union [type : {"addRelationship"}, id : Relationships, src : Elements, tgt : Elements,
            scope : SUBSET Views]
    \union [type : {"updateRelationship"}, id : Relationships,
            src : {Keep} \union Elements, tgt : {Keep} \union Elements]
    \union [type : {"removeRelationship"}, id : Relationships, scope : SUBSET Views]
    \union [type : {"addView"}, id : Views, parent : {NoParent} \union Elements,
            els : SUBSET Elements, rels : SUBSET Relationships]
    \union [type : {"updateView"}, id : Views, parent : {Keep, NoParent} \union Elements,
            elsPatch : MembersPatch(Elements), relsPatch : MembersPatch(Relationships)]
    \union [type : {"removeView"}, id : Views]

ASSUME MutationInputs ==
    /\ \A d \in Docs : d \in Graphs
    /\ \A c \in Calls : c \in [batch : Seq(AnyMutation), ack : BOOLEAN] /\ c.batch # <<>>

-----------------------------------------------------------------------------
(* Helpers on a graph.  A view scope is a set of views: {} stands for        *)
(* view_ids left out, which a removal reads as every view.                   *)

Ends(d, r) == {d.rels[r].src, d.rels[r].tgt}

\* f with x at k, which may be new.
Put(f, k, x) == [i \in DOMAIN f \union {k} |-> IF i = k THEN x ELSE f[i]]

Include(views, scope, els, rels) ==
    [v \in DOMAIN views |->
        IF v \in scope THEN [views[v] EXCEPT !.els = @ \union els, !.rels = @ \union rels]
                       ELSE views[v]]

Exclude(views, scope, els, rels) ==
    [v \in DOMAIN views |->
        IF v \in scope THEN [views[v] EXCEPT !.els = @ \ els, !.rels = @ \ rels]
                       ELSE views[v]]

ScopeExists(d, scope) == scope \subseteq DOMAIN d.views

ScopeOf(d, scope) == IF scope = {} THEN DOMAIN d.views ELSE scope

Shown(views) == UNION {views[v].els : v \in DOMAIN views}

ShownRels(views) == UNION {views[v].rels : v \in DOMAIN views}

\* The elements in view v that a relationship of v other than r touches.
UsedByOthers(d, v, r) ==
    UNION {Ends(d, x) : x \in (d.views[v].rels \ {r}) \intersect DOMAIN d.rels}

UpsertSub(d, e, v) ==
    IF e \in DOMAIN d.elements THEN [d EXCEPT !.elements[e].subs = @ \union {v}] ELSE d

RemoveSub(d, e, v) ==
    IF e \in DOMAIN d.elements THEN [d EXCEPT !.elements[e].subs = @ \ {v}] ELSE d

ChildViews(d, e) ==
    d.elements[e].subs \union {v \in DOMAIN d.views : d.views[v].parent = e}

\* Every existing view that e lists gets e as its parent, and the parent it had
\* before no longer lists it.  A listed view that does not exist is left listed.
PointViewsTo(d, e) ==
    LET listed == d.elements[e].subs \intersect DOMAIN d.views
        stolenFrom(x) == {v \in listed : d.views[v].parent = x}
        elements == [x \in DOMAIN d.elements |->
            IF x = e THEN d.elements[x]
            ELSE [d.elements[x] EXCEPT !.subs = @ \ stolenFrom(x)]]
        views == [v \in DOMAIN d.views |->
            IF v \in listed THEN [d.views[v] EXCEPT !.parent = e] ELSE d.views[v]]
    IN  [d EXCEPT !.elements = elements, !.views = views]

\* ... and a view that e does not list stops having e as its parent.
Reconcile(d, e) ==
    LET pointed == PointViewsTo(d, e)
    IN  [pointed EXCEPT !.views = [v \in DOMAIN @ |->
            IF @[v].parent = e /\ v \notin d.elements[e].subs
            THEN [@[v] EXCEPT !.parent = NoParent] ELSE @[v]]]

-----------------------------------------------------------------------------
(* Elements.                                                                *)

AddElement(d, m) ==
    LET new == [text |-> m.text, subs |-> m.subs]
        added == IF m.id \in DOMAIN d.elements THEN d
                 ELSE PointViewsTo([d EXCEPT !.elements = Put(@, m.id, new)], m.id)
    IN  [added EXCEPT !.views = Include(@, m.scope, {m.id}, {})]

\* Mutant: a field that the patch leaves out is assigned all the same.
UpdateElementAssigningAll(d, m) ==
    LET text == [d EXCEPT !.elements[m.id].text = m.text]
    IN  IF m.subs = Keep THEN text
        ELSE Reconcile([text EXCEPT !.elements[m.id].subs = m.subs], m.id)

\* subs is reconciled only when the patch mentions it.
UpdateElement(d, m) ==
    LET text == IF m.text = Keep THEN d ELSE [d EXCEPT !.elements[m.id].text = m.text]
    IN  IF m.subs = Keep THEN text
        ELSE Reconcile([text EXCEPT !.elements[m.id].subs = m.subs], m.id)

\* The element and its relationships leave the scoped views.  Once no view shows
\* the element it is deleted, and so is each of its relationships that no view
\* shows any more, whether or not the element stays.
RemoveElement(d, m) ==
    LET related == {r \in DOMAIN d.rels : m.id \in Ends(d, r)}
        scoped == Exclude(d.views, ScopeOf(d, m.scope), {m.id}, related)
        gone == m.id \notin Shown(scoped)
        views == IF gone THEN Exclude(scoped, DOMAIN scoped, {}, related) ELSE scoped
        deleted == related \ ShownRels(views)
    IN  [elements |-> IF gone THEN Restrict(d.elements, DOMAIN d.elements \ {m.id})
                              ELSE d.elements,
         rels |-> Restrict(d.rels, DOMAIN d.rels \ deleted),
         views |-> views]

-----------------------------------------------------------------------------
(* Relationships.                                                           *)

AddRelationship(d, m) ==
    LET added == IF m.id \in DOMAIN d.rels THEN d
                 ELSE [d EXCEPT !.rels = Put(@, m.id, [src |-> m.src, tgt |-> m.tgt])]
    IN  [added EXCEPT !.views = Include(@, m.scope, {m.src, m.tgt}, {m.id})]

\* A view that shows the relationship gains its new ends, and loses an old end
\* that no other of its relationships touches.
UpdateRelationship(d, m) ==
    LET old == d.rels[m.id]
        new == [src |-> IF m.src = Keep THEN old.src ELSE m.src,
                tgt |-> IF m.tgt = Keep THEN old.tgt ELSE m.tgt]
        dropped == {old.src, old.tgt} \ {new.src, new.tgt}
        views == [v \in DOMAIN d.views |->
            IF m.id \in d.views[v].rels
            THEN [d.views[v] EXCEPT !.els = (@ \union {new.src, new.tgt})
                                            \ (dropped \ UsedByOthers(d, v, m.id))]
            ELSE d.views[v]]
    IN  [d EXCEPT !.rels[m.id] = new, !.views = views]

\* Each scoped view, whether it shows the relationship or not, loses the ends
\* that no other of its relationships touches.
RemoveRelationship(d, m) ==
    LET scope == ScopeOf(d, m.scope)
        views == [v \in DOMAIN d.views |->
            IF v \in scope
            THEN [d.views[v] EXCEPT !.rels = @ \ {m.id},
                                    !.els = @ \ (Ends(d, m.id) \ UsedByOthers(d, v, m.id))]
            ELSE d.views[v]]
    IN  [d EXCEPT
          !.views = views,
          !.rels = IF m.id \in ShownRels(views) THEN @ ELSE Restrict(@, DOMAIN @ \ {m.id})]

-----------------------------------------------------------------------------
(* Views.                                                                   *)

AddView(d, m) ==
    IF m.id \in DOMAIN d.views THEN d
    ELSE LET new == [parent |-> m.parent, els |-> m.els, rels |-> m.rels]
         IN  UpsertSub([d EXCEPT !.views = Put(@, m.id, new)], m.parent, m.id)

\* A membership patch is a whole new list (full) or a delta, which may come without
\* the members to remove (Keep).
Patched(old, patch) ==
    IF patch = Keep THEN old
    ELSE IF patch.full THEN patch.add
    ELSE (IF patch.remove = Keep THEN old ELSE old \ patch.remove) \union patch.add

\* A delta that has a list of members to remove, be it empty.
ExplicitRemove(patch) == patch # Keep /\ ~patch.full /\ patch.remove # Keep

\* Mutant: the former parent goes on listing the view.
UpdateViewKeepingOldLink(d, m) ==
    UpsertSub([d EXCEPT !.views[m.id] =
        [parent |-> IF m.parent = Keep THEN @.parent ELSE m.parent,
         els |-> Patched(@.els, m.elsPatch), rels |-> Patched(@.rels, m.relsPatch)]],
        IF m.parent = Keep THEN d.views[m.id].parent ELSE m.parent, m.id)

\* Patches of view_id or view_name are left out: a view keeps its id and name.
UpdateView(d, m) ==
    LET old == d.views[m.id].parent
        parent == IF m.parent = Keep THEN old ELSE m.parent
        patched == [d EXCEPT !.views[m.id] =
            [parent |-> parent, els |-> Patched(@.els, m.elsPatch), rels |-> Patched(@.rels, m.relsPatch)]]
    IN  UpsertSub(IF parent = old THEN patched ELSE RemoveSub(patched, old, m.id), parent, m.id)

RemoveView(d, m) ==
    LET unlinked == RemoveSub(d, d.views[m.id].parent, m.id)
    IN  [unlinked EXCEPT !.views = Restrict(@, DOMAIN @ \ {m.id})]

-----------------------------------------------------------------------------
(* One mutation.                                                            *)

\* applyMutations throws when this is false.
CanApply(d, m) ==
    CASE m.type = "addElement" ->
            m.scope # {} /\ ScopeExists(d, m.scope)
      [] m.type = "updateElement" ->
            m.id \in DOMAIN d.elements
      [] m.type = "removeElement" ->
            /\ m.id \in DOMAIN d.elements
            /\ ChildViews(d, m.id) = {}
            /\ ScopeExists(d, m.scope)
      [] m.type = "addRelationship" ->
            /\ m.scope # {}
            /\ ScopeExists(d, m.scope)
            /\ m.id \in DOMAIN d.rels => d.rels[m.id] = [src |-> m.src, tgt |-> m.tgt]
      [] m.type = "updateRelationship" ->
            m.id \in DOMAIN d.rels
      [] m.type = "removeRelationship" ->
            m.id \in DOMAIN d.rels /\ ScopeExists(d, m.scope)
      [] m.type = "addView" ->
            m.id \in DOMAIN d.views => d.views[m.id].parent = m.parent
      [] OTHER ->
            m.id \in DOMAIN d.views

ApplyOne(d, m) ==
    CASE m.type = "addElement"         -> AddElement(d, m)
      [] m.type = "updateElement"      -> UpdateElement(d, m)
      [] m.type = "removeElement"      -> RemoveElement(d, m)
      [] m.type = "addRelationship"    -> AddRelationship(d, m)
      [] m.type = "updateRelationship" -> UpdateRelationship(d, m)
      [] m.type = "removeRelationship" -> RemoveRelationship(d, m)
      [] m.type = "addView"            -> AddView(d, m)
      [] m.type = "updateView"         -> UpdateView(d, m)
      [] m.type = "removeView"         -> RemoveView(d, m)

\* viewLimitCheckIds: the views whose size the mutation asks to be checked.
LimitChecks(d, m) ==
    CASE m.type = "addElement" -> m.scope
      [] m.type = "addView" -> {m.id} \ DOMAIN d.views
      [] m.type = "updateView" -> IF m.elsPatch = Keep THEN {} ELSE {m.id}
      [] OTHER -> {}
-----------------------------------------------------------------------------
(* A batch.                                                                 *)

Produced(m) ==
    CASE m.type = "addElement"      -> <<"element", m.id>>
      [] m.type = "addRelationship" -> <<"relationship", m.id>>
      [] m.type = "addView"         -> <<"view", m.id>>
      [] OTHER                      -> <<"nothing">>

\* Mutant: an element is not ordered after the views it joins.
RequiredWithoutViews(m) ==
    CASE m.type = "addElement" -> {}
      [] m.type = "addRelationship" -> {<<"element", e>> : e \in {m.src, m.tgt}}
      [] m.type = "addView" -> {<<"element", e>> : e \in {m.parent} \union m.els}
      [] OTHER -> {}

Required(m) ==
    CASE m.type = "addElement" ->
            {<<"view", v>> : v \in m.scope}
      [] m.type = "addRelationship" ->
            {<<"view", v>> : v \in m.scope}
            \union {<<"element", e>> : e \in {m.src, m.tgt}}
      [] m.type = "addView" ->
            {<<"element", e>> : e \in {m.parent} \union m.els}
            \union {<<"relationship", r>> : r \in m.rels}
      [] m.type \in {"updateElement", "removeElement"} ->
            {<<"element", m.id>>}
      [] m.type \in {"updateRelationship", "removeRelationship"} ->
            {<<"relationship", m.id>>}
      [] OTHER ->
            {<<"view", m.id>>}

DependsOn(batch, i) ==
    {j \in DOMAIN batch \ {i} : Produced(batch[j]) \in Required(batch[i])}

NextReady(batch, prior) ==
    LET done == ToSet(prior)
        ready == {i \in DOMAIN batch \ done : DependsOn(batch, i) \subseteq done}
    IN  IF ready = {} THEN prior ELSE Append(prior, Min(ready))

\* Kahn's algorithm, the earliest mutation that is ready first.  On a cycle the
\* order stays shorter than the batch.
ApplicationOrder(batch) ==
    LET order[n \in 0..Len(batch)] ==
          IF n = 0 THEN <<>> ELSE NextReady(batch, order[n - 1])
    IN  order[Len(batch)]

\* One more mutation on the copy, unless one before it threw.
ApplyNext(s, m) ==
    IF s.ok /\ CanApply(s.doc, m)
    THEN [ok |-> TRUE, doc |-> ApplyOne(s.doc, m), limit |-> s.limit \union LimitChecks(s.doc, m)]
    ELSE [s EXCEPT !.ok = FALSE]

\* What applyMutations returns, or ok = FALSE when it throws.
Outcome(d, batch) ==
    LET order == ApplicationOrder(batch)
        run[n \in 0..Len(order)] ==
          IF n = 0 THEN [ok |-> Len(order) = Len(batch), doc |-> d, limit |-> {}]
          ELSE ApplyNext(run[n - 1], batch[order[n]])
    IN  run[Len(order)]

-----------------------------------------------------------------------------
(* Validation and the lossless write gate.                                  *)

WithinLimitIn(d, views) == \A v \in views : Cardinality(d.views[v].els) <= Limit

ValidGraph(d) ==
    /\ \A r \in DOMAIN d.rels : Ends(d, r) \subseteq DOMAIN d.elements
    /\ {v \in DOMAIN d.views : d.views[v].parent = NoParent} = {RootView}
    /\ \A v \in DOMAIN d.views :
          LET view == d.views[v] IN
          /\ view.parent \in DOMAIN d.elements \union {NoParent}
          /\ view.els \subseteq DOMAIN d.elements
          /\ view.rels \subseteq DOMAIN d.rels
          /\ \A r \in view.rels : Ends(d, r) \subseteq view.els
    /\ DOMAIN d.elements \subseteq Shown(d.views)
    /\ DOMAIN d.rels \subseteq ShownRels(d.views)

\* Mutant: an empty set of views to check means none.
ValidTouchedOnly(d, limit) ==
    /\ ValidGraph(d)
    /\ WithinLimitIn(d, limit \intersect DOMAIN d.views)

\* An empty set of views to check means all of them.
Valid(d, limit) ==
    /\ ValidGraph(d)
    /\ WithinLimitIn(d, IF limit = {} THEN DOMAIN d.views ELSE limit \intersect DOMAIN d.views)

Named(batch, type) == {m.id : m \in {x \in ToSet(batch) : x.type = type}}

\* Mutant: views are left out.
RemovedObjectsButViews(base, next, batch) ==
    LET gone(type, before, after) == Named(batch, type) \intersect (DOMAIN before \ DOMAIN after)
    IN  ({"element"} \X gone("removeElement", base.elements, next.elements))
        \union ({"relationship"} \X gone("removeRelationship", base.rels, next.rels))

\* The objects that mutations name for removal and the write deletes.
RemovedObjects(base, next, batch) ==
    LET gone(type, before, after) == Named(batch, type) \intersect (DOMAIN before \ DOMAIN after)
    IN  ({"element"} \X gone("removeElement", base.elements, next.elements))
        \union ({"relationship"} \X gone("removeRelationship", base.rels, next.rels))
        \union ({"view"} \X gone("removeView", base.views, next.views))

LosesText(base, next, m) ==
    /\ m.type = "updateElement"
    /\ m.id \in DOMAIN base.elements \intersect DOMAIN next.elements
    /\ <<base.elements[m.id].text, next.elements[m.id].text>> \in Loses

DropsMembers(base, next, m) ==
    /\ m.type = "updateView"
    /\ m.id \in DOMAIN base.views \intersect DOMAIN next.views
    /\ \/ base.views[m.id].els \ next.views[m.id].els # {} /\ ~ExplicitRemove(m.elsPatch)
       \/ base.views[m.id].rels \ next.views[m.id].rels # {} /\ ~ExplicitRemove(m.relsPatch)

\* Mutant: the gate looks at removed objects only.
BlockedOnRemovalOnly(base, next, call) ==
    ~call.ack /\ RemovedObjects(base, next, call.batch) # {}

\* buildLossReport: a loss that nobody acknowledged blocks the write.
Blocked(base, next, call) ==
    /\ ~call.ack
    /\ \/ RemovedObjects(base, next, call.batch) # {}
       \/ \E m \in ToSet(call.batch) : LosesText(base, next, m) \/ DropsMembers(base, next, m)

\* The graph that a call writes, as a set: {} when the call fails.
Written(d, call) ==
    LET out == Outcome(d, call.batch)
    IN  {next \in {out.doc} : out.ok /\ Valid(next, out.limit) /\ ~Blocked(d, next, call)}

Accepted(d, call) == Written(d, call) # {}
-----------------------------------------------------------------------------
(* repair-subdiagram-views.js: rebuild what each element lists from the      *)
(* parents of the views, through applyMutations.                             *)

Desired(d, e) == {v \in DOMAIN d.views : d.views[v].parent = e}

\* Mutant: an element that lists no view is skipped.
DriftedListing(d) ==
    {e \in DOMAIN d.elements : d.elements[e].subs \notin {{}, Desired(d, e)}}

Drifted(d) == {e \in DOMAIN d.elements : d.elements[e].subs # Desired(d, e)}

RepairBatch(d) ==
    SetToSeq({[type |-> "updateElement", id |-> e, text |-> Keep, subs |-> Desired(d, e)]
                : e \in Drifted(d)})

Repaired(d) == Outcome(d, RepairBatch(d)).doc

-----------------------------------------------------------------------------
(* Behaviours.                                                              *)

Init == doc \in Docs

\* A call that is written.
Submit(call) == doc' \in Written(doc, call)

\* A call that fails, or a preview: the file is left alone.
Refuse(call) ==
    /\ ~Accepted(doc, call)
    /\ UNCHANGED doc

\* --fix --direct: neither validated nor gated.
Repair ==
    /\ Drifted(doc) # {}
    /\ doc' = Repaired(doc)

Next == Repair \/ \E call \in Calls : Submit(call) \/ Refuse(call)

Spec == Init /\ [][Next]_doc

-----------------------------------------------------------------------------
(* Properties.  Those about calls say what each call of Calls would do to    *)
(* the graph as it is, whoever makes it.                                     *)

TypeOK == doc \in Graphs

\* The two sides of the mounts agree: an element lists an existing view exactly
\* when the view has it as parent.
Agrees(d) ==
    \A e \in DOMAIN d.elements : d.elements[e].subs \intersect DOMAIN d.views = Desired(d, e)

\* A batch that adds one end of a mount, and names it at the other end, says the
\* same at both.
Coherent(batch) ==
    \A m \in ToSet(batch), a \in ToSet(batch) :
        /\ (m.type = "addElement" \/ (m.type = "updateElement" /\ m.subs # Keep))
              /\ a.type = "addView" /\ a.id \in m.subs => a.parent = m.id
        /\ m.type = "updateView" /\ a.type = "addElement" /\ a.id = m.parent => m.id \in a.subs

\* Six mutations maintain the two sides of a mount separately.  From a graph where
\* they agree and no element lists a view that does not exist, each coherent call
\* leaves them in agreement (comments at systemarchitecture-mcp-server.js:2419, 2441).
LinksKept ==
    (Drifted(doc) = {}) =>
        \A call \in Calls : Coherent(call.batch) => \A next \in Written(doc, call) : Agrees(next)

\* No view holds more elements than the limit, although most mutations ask for
\* some views only to be checked (validateViewElementLimits).
WithinLimit == WithinLimitIn(doc, DOMAIN doc.views)

Objects(d) ==
    {<<"element", e>> : e \in DOMAIN d.elements}
    \union {<<"view", v>> : v \in DOMAIN d.views}
    \union {<<"relationship", r>> : r \in DOMAIN d.rels}

Gone(d, call) == Objects(d) \ Objects(Outcome(d, call.batch).doc)

\* A call that acknowledges nothing keeps every element and view, every part of
\* every text, and every member of a view it replaces the list of.
KeptWithoutAck ==
    \A call \in Calls :
        ~call.ack /\ Accepted(doc, call) =>
            LET next == Outcome(doc, call.batch).doc IN
            /\ \A x \in Gone(doc, call) : x[1] = "relationship"
            /\ \A e \in DOMAIN doc.elements :
                  <<doc.elements[e].text, next.elements[e].text>> \notin Loses
            /\ \A m \in ToSet(call.batch) :
                  /\ m.type = "updateView" /\ m.elsPatch # Keep /\ m.elsPatch.full
                  /\ m.id \in DOMAIN doc.views
                  => doc.views[m.id].els \subseteq next.views[m.id].els

\* Every element and view that a write deletes is one that the write puts into
\* the tombstone ledger, and so is a relationship removed by name.
DeletionsRecorded ==
    \A call \in Calls :
        Accepted(doc, call) =>
            LET next == Outcome(doc, call.batch).doc
                recorded == RemovedObjects(doc, next, call.batch)
                cascades == \E m \in ToSet(call.batch) : m.type = "removeElement"
            IN  \A x \in Gone(doc, call) :
                    x \in recorded \/ (x[1] = "relationship" /\ cascades)

OrderMatters(call) ==
    LET n == Len(call.batch)
    IN  \E p \in Bijection(1..n, 1..n) :
            Written(doc, [call EXCEPT !.batch = [i \in 1..n |-> @[p[i]]]]) # Written(doc, call)

\* Where a mutation hangs views: pairs of a view and its parent.
Mounts(m) ==
    CASE m.type = "addElement" -> m.subs \X {m.id}
      [] m.type = "updateElement" -> IF m.subs = Keep THEN {} ELSE m.subs \X {m.id}
      [] m.type = "addView" -> {<<m.id, m.parent>>}
      [] m.type = "updateView" -> {<<m.id, m.parent>>} \ {<<m.id, Keep>>}
      [] OTHER -> {}

\* The views that a mutation adds an element or a relationship to.
Joins(m) == IF m.type \in {"addElement", "addRelationship"} THEN m.scope ELSE {}

Relists(m) == m.type = "updateElement" /\ m.subs # Keep

RewritesMembers(m) == m.type = "updateView" /\ (m.elsPatch # Keep \/ m.relsPatch # Keep)

\* Applied to d, m gets in the way of a: both are about one side of one object,
\* they hang a view in two places, m gives a list without a view that a puts on
\* it, m hangs a view elsewhere that a expects where it is, or m replaces what a
\* adds to.
Clash(d, m, a) ==
    \/ m.type = a.type /\ m.id = a.id
    \/ \E x \in Mounts(m), y \in Mounts(a) : x[1] = y[1] /\ x # y
    \/ /\ Relists(m) \/ (m.type = "addElement" /\ a.type = "updateView")
       /\ \E x \in Mounts(a) : x[2] = m.id /\ x[1] \notin m.subs
    \/ Relists(m) /\ a.type = "addView" /\ a.id \in DOMAIN d.views
    \/ RewritesMembers(m) /\ m.id \in Joins(a)
    \/ /\ m.type = "removeView"
       /\ \/ m.id \in Joins(a)
          \/ \E x \in Mounts(a) : x[1] = m.id
          \/ a.type = "updateView" /\ a.id = m.id

\* No two mutations of the batch clash, and none deletes an element or deletes or
\* reroutes a relationship: these take along members of views that others add.
Compatible(d, batch) ==
    /\ \A m \in ToSet(batch) :
          m.type \in {"addElement", "updateElement", "addRelationship",
                     "addView", "updateView", "removeView"}
    /\ \A i, j \in DOMAIN batch : i # j => ~Clash(d, batch[i], batch[j])

\* The order in which a batch lists mutations that do not clash makes no difference
\* to what is written or to whether it is (orderMutationsForApplication).
OrderIndependent ==
    \A call \in Calls : Compatible(doc, call.batch) => ~OrderMatters(call)

\* Repairing a drifted graph makes the two sides agree in one pass and changes
\* no view (repair-subdiagram-views.js:8-9).
RepairConverges ==
    /\ \A e \in DOMAIN doc.elements :
          Repaired(doc).elements[e].subs = Desired(doc, e)
    /\ Repaired(doc).views = doc.views

(* Claims of the repository that the code breaks.                           *)

\* A write deletes nothing unless it is acknowledged (lossless-write-gate.js:6).
NoSilentLoss ==
    \A call \in Calls : ~call.ack /\ Accepted(doc, call) => Gone(doc, call) = {}

\* A batch is order-independent (systemarchitecture-mcp-server.js:1666).  An
\* updateView that moves a view under an element of the same batch does not wait
\* for the element, which then lists nothing.
OrderNeverMatters ==
    \A call \in Calls : ~OrderMatters(call)
=============================================================================
