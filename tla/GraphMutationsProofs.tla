------------------------ MODULE GraphMutationsProofs ------------------------
(***************************************************************************)
(* What mutation calls keep, for every graph, every batch of mutations and *)
(* every limit: the types (TypeCorrect), everything that nobody agreed to  *)
(* lose (NothingLost), a tombstone for what is deleted (AllRecorded), the  *)
(* agreement of both sides of the mounts through coherent batches          *)
(* (LinksStay) and after a repair (RepairMends), the limit of a view's     *)
(* size through batches that do not mix two kinds of mutations             *)
(* (StaysWithinLimit), and the same outcome in whatever order a batch      *)
(* lists mutations that do not clash (AnyOrderWill).                       *)
(*                                                                         *)
(* Each mutation is shown to do only what its type and id say (Accounted)  *)
(* and to leave the mounts completable by what is still to come (Aligned); *)
(* two inductions, over the order of a batch and over its run, carry this  *)
(* to what a call writes.                                                  *)
(*                                                                         *)
(* For AnyOrderWill, what a set of mutations makes of a graph is said      *)
(* without an order (IsEffect), field by field.  Each mutation that comes  *)
(* next extends what has been done to the effect of one mutation more      *)
(* (ComesToEffect), can be applied or not whatever came before it          *)
(* (NextFits), and asks for the same views to be checked (NextChecks).     *)
(* Two listings of one set then do all of it, unless mutations wait for    *)
(* one another in both (FullUnlessStuck), and the effect is one graph      *)
(* (OneEffect).                                                            *)
(***************************************************************************)
EXTENDS GraphMutations, FiniteSetTheorems, SequenceTheorems, TLAPS

-----------------------------------------------------------------------------
(* Induction and iteration.                                                *)

\* A set of numbers with 0, and with every successor, has them all.
LEMMA SetInduction ==
    ASSUME NEW S \in SUBSET Nat, 0 \in S, \A n \in S : n + 1 \in S
    PROVE  S = Nat
  <1> SUFFICES ASSUME Nat \ S # {} PROVE FALSE
    OBVIOUS
  <1>1. PICK x \in Nat \ S : \A y \in Nat \ S : ~(<<y, x>> \in OpToRel(<, Nat))
    <2> DEFINE R == OpToRel(<, Nat)
               T == Nat \ S
    <2>1. T \subseteq Nat /\ T # {} /\ IsWellFoundedOn(R, Nat)
      BY NatLessThanWellFounded
    <2> HIDE DEF R, T
    <2>2. \E x \in T : \A y \in T : ~(<<y, x>> \in R)
      BY <2>1, WFMin
    <2> QED
      BY <2>2 DEF R, T
  <1>2. x # 0 /\ x - 1 \in Nat /\ x - 1 < x
    OBVIOUS
  <1>3. x - 1 \in S
    BY <1>1, <1>2 DEF OpToRel
  <1> QED
    BY <1>3

LEMMA SmallestIsIn ==
    ASSUME NEW S \in SUBSET Nat, S # {}
    PROVE  Min(S) \in S /\ \A y \in S : Min(S) <= y
  <1>1. PICK x \in S : \A y \in S : ~(<<y, x>> \in OpToRel(<, Nat))
    <2> DEFINE R == OpToRel(<, Nat)
    <2>1. IsWellFoundedOn(R, Nat)
      BY NatLessThanWellFounded
    <2> HIDE DEF R
    <2>2. \E x \in S : \A y \in S : ~(<<y, x>> \in R)
      BY <2>1, WFMin
    <2> QED
      BY <2>2 DEF R
  <1>2. \A y \in S : ~(y < x)
    BY <1>1 DEF OpToRel
  <1>3. \A y \in S : x <= y
    BY <1>2
  <1> QED
    BY <1>3 DEF Min

Iterates(g, s0, F, N) ==
    g[0] = s0 /\ \A n \in 1..N : g[n] = F[<<g[n - 1], n>>]

\* Iterating a function n times gives a function of n.
LEMMA Iterated ==
    ASSUME NEW S, NEW s0 \in S, NEW F \in [S \X Nat -> S], NEW N \in Nat
    PROVE  \E g \in [0..N -> S] : Iterates(g, s0, F, N)
  <1> USE DEF Iterates
  <1> DEFINE Good(k, g) == g[0] = s0 /\ \A n \in 1..k : g[n] = F[<<g[n - 1], n>>]
             T == {k \in Nat : \E g \in [0..k -> S] : Good(k, g)}
  <1>1. 0 \in T
    <2>1. [n \in 0..0 |-> s0] \in [0..0 -> S] /\ Good(0, [n \in 0..0 |-> s0])
      OBVIOUS
    <2> QED
      BY <2>1
  <1>2. ASSUME NEW k \in T PROVE k + 1 \in T
    <2>1. k \in Nat /\ k + 1 \in Nat
      OBVIOUS
    <2>2. PICK g \in [0..k -> S] : Good(k, g)
      OBVIOUS
    <2> DEFINE h == [n \in 0..(k + 1) |-> IF n \in 0..k THEN g[n] ELSE F[<<g[k], k + 1>>]]
    <2>3. h \in [0..(k + 1) -> S]
      <3>1. F[<<g[k], k + 1>>] \in S
        BY <2>1
      <3> QED
        BY <2>1, <3>1
    <2>4. \A n \in 1..(k + 1) : h[n] = F[<<h[n - 1], n>>]
      <3> SUFFICES ASSUME NEW n \in 1..(k + 1) PROVE h[n] = F[<<h[n - 1], n>>]
        OBVIOUS
      <3>1. n - 1 \in 0..k /\ h[n - 1] = g[n - 1] /\ n \in 0..(k + 1)
        BY <2>1
      <3>2. CASE n = k + 1
        <4>1. n \notin 0..k /\ n - 1 = k
          BY <2>1, <3>2
        <4>2. h[n] = F[<<g[k], k + 1>>]
          BY <3>1, <4>1
        <4> QED
          BY <3>1, <3>2, <4>1, <4>2
      <3>3. CASE n # k + 1
        <4>1. n \in 1..k /\ n \in 0..k
          BY <2>1, <3>3
        <4>2. h[n] = g[n]
          BY <3>1, <4>1
        <4> QED
          BY <2>2, <3>1, <4>1, <4>2
      <3> QED
        BY <3>2, <3>3
    <2>5. h[0] = s0
      BY <2>1, <2>2
    <2> HIDE DEF h
    <2> QED
      BY <2>1, <2>3, <2>4, <2>5
  <1>3. T = Nat
    <2>1. T \in SUBSET Nat
      OBVIOUS
    <2> HIDE DEF T
    <2> QED
      BY <1>1, <1>2, <2>1, SetInduction
  <1> QED
    BY <1>3

-----------------------------------------------------------------------------
(* Types of graphs.                                                        *)

ElementTypes == [text : Texts, subs : SUBSET Views]
RelTypes == [src : Elements, tgt : Elements]
ViewTypes == [parent : Elements \union {NoParent}, els : SUBSET Elements, rels : SUBSET Relationships]

LEMMA PartialType ==
    ASSUME NEW S, NEW T, NEW f
    PROVE  f \in Partial(S, T) <=>
              /\ f = [x \in DOMAIN f |-> f[x]]
              /\ DOMAIN f \subseteq S
              /\ \A x \in DOMAIN f : f[x] \in T
  <1>1. ASSUME f \in Partial(S, T)
        PROVE  f = [x \in DOMAIN f |-> f[x]] /\ DOMAIN f \subseteq S /\ \A x \in DOMAIN f : f[x] \in T
    <2>1. PICK D \in SUBSET S : f \in [D -> T]
      BY <1>1 DEF Partial
    <2> QED
      BY <2>1
  <1>2. ASSUME f = [x \in DOMAIN f |-> f[x]], DOMAIN f \subseteq S, \A x \in DOMAIN f : f[x] \in T
        PROVE  f \in Partial(S, T)
    <2>1. f \in [DOMAIN f -> T]
      BY <1>2
    <2> QED
      BY <1>2, <2>1 DEF Partial
  <1> QED
    BY <1>1, <1>2

LEMMA BuiltType ==
    ASSUME NEW S, NEW T, NEW D \in SUBSET S, NEW f \in [D -> T]
    PROVE  f \in Partial(S, T)
  BY DEF Partial

LEMMA PutType ==
    ASSUME NEW S, NEW T, NEW f \in Partial(S, T), NEW k \in S, NEW x \in T
    PROVE  Put(f, k, x) \in Partial(S, T)
  <1>1. DOMAIN f \subseteq S /\ \A i \in DOMAIN f : f[i] \in T
    BY PartialType
  <1>2. Put(f, k, x) \in [DOMAIN f \union {k} -> T]
    BY <1>1 DEF Put
  <1> QED
    BY <1>1, <1>2, BuiltType

LEMMA RestrictType ==
    ASSUME NEW S, NEW T, NEW f \in Partial(S, T), NEW D \in SUBSET DOMAIN f
    PROVE  Restrict(f, D) \in Partial(S, T)
  <1>1. DOMAIN f \subseteq S /\ \A i \in DOMAIN f : f[i] \in T
    BY PartialType
  <1>2. Restrict(f, D) \in [D -> T]
    BY <1>1 DEF Restrict
  <1> QED
    BY <1>1, <1>2, BuiltType

\* What is in a graph.
LEMMA GraphFields ==
    ASSUME NEW d \in Graphs
    PROVE  /\ d = [elements |-> d.elements, rels |-> d.rels, views |-> d.views]
           /\ d.elements \in Partial(Elements, ElementTypes)
           /\ d.rels \in Partial(Relationships, RelTypes)
           /\ d.views \in Partial(Views, ViewTypes)
           /\ DOMAIN d.elements \subseteq Elements
           /\ DOMAIN d.rels \subseteq Relationships
           /\ DOMAIN d.views \subseteq Views
           /\ \A e \in DOMAIN d.elements : d.elements[e] \in ElementTypes
           /\ \A r \in DOMAIN d.rels : d.rels[r] \in RelTypes
           /\ \A v \in DOMAIN d.views : d.views[v] \in ViewTypes
  <1>1. /\ d = [elements |-> d.elements, rels |-> d.rels, views |-> d.views]
        /\ d.elements \in Partial(Elements, ElementTypes)
        /\ d.rels \in Partial(Relationships, RelTypes)
        /\ d.views \in Partial(Views, ViewTypes)
    BY DEF Graphs, ElementTypes, RelTypes, ViewTypes
  <1> QED
    BY <1>1, PartialType

LEMMA GraphOf ==
    ASSUME NEW es \in Partial(Elements, ElementTypes), NEW rs \in Partial(Relationships, RelTypes),
           NEW vs \in Partial(Views, ViewTypes)
    PROVE  [elements |-> es, rels |-> rs, views |-> vs] \in Graphs
  BY DEF Graphs, ElementTypes, RelTypes, ViewTypes

\* From d to n only mounts change.
MountsOnly(d, n) ==
    /\ n \in Graphs
    /\ n.rels = d.rels
    /\ DOMAIN n.elements = DOMAIN d.elements
    /\ \A e \in DOMAIN d.elements : n.elements[e].text = d.elements[e].text
    /\ DOMAIN n.views = DOMAIN d.views
    /\ \A v \in DOMAIN d.views :
          n.views[v].els = d.views[v].els /\ n.views[v].rels = d.views[v].rels

\* A graph with other elements or other views.
LEMMA OtherElements ==
    ASSUME NEW d \in Graphs, NEW es \in Partial(Elements, ElementTypes)
    PROVE  /\ [d EXCEPT !.elements = es] \in Graphs
           /\ [d EXCEPT !.elements = es].elements = es
           /\ [d EXCEPT !.elements = es].rels = d.rels
           /\ [d EXCEPT !.elements = es].views = d.views
  BY GraphFields DEF Graphs, ElementTypes

LEMMA OtherViews ==
    ASSUME NEW d \in Graphs, NEW vs \in Partial(Views, ViewTypes)
    PROVE  /\ [d EXCEPT !.views = vs] \in Graphs
           /\ [d EXCEPT !.views = vs].elements = d.elements
           /\ [d EXCEPT !.views = vs].rels = d.rels
           /\ [d EXCEPT !.views = vs].views = vs
  BY GraphFields DEF Graphs, ViewTypes

LEMMA OtherRels ==
    ASSUME NEW d \in Graphs, NEW rs \in Partial(Relationships, RelTypes)
    PROVE  /\ [d EXCEPT !.rels = rs] \in Graphs
           /\ [d EXCEPT !.rels = rs].elements = d.elements
           /\ [d EXCEPT !.rels = rs].rels = rs
           /\ [d EXCEPT !.rels = rs].views = d.views
  BY GraphFields DEF Graphs, RelTypes

\* No view gains an element.
Shrinks(vs, n) == \A v \in DOMAIN vs : n[v].els \subseteq vs[v].els

\* The same views under the same parents.
SameMounts(vs, n) ==
    DOMAIN n = DOMAIN vs /\ \A v \in DOMAIN vs : n[v].parent = vs[v].parent

LEMMA IncludeType ==
    ASSUME NEW vs \in Partial(Views, ViewTypes), NEW scope,
           NEW els \in SUBSET Elements, NEW rels \in SUBSET Relationships
    PROVE  /\ Include(vs, scope, els, rels) \in Partial(Views, ViewTypes)
           /\ SameMounts(vs, Include(vs, scope, els, rels))
  <1> DEFINE n == Include(vs, scope, els, rels)
  <1>1. DOMAIN vs \subseteq Views /\ \A v \in DOMAIN vs : vs[v] \in ViewTypes
    BY PartialType
  <1>2. n \in [DOMAIN vs -> ViewTypes]
    BY <1>1 DEF Include, ViewTypes
  <1>3. n \in Partial(Views, ViewTypes)
    BY <1>1, <1>2, BuiltType
  <1>4. \A v \in DOMAIN vs : n[v].parent = vs[v].parent
    BY <1>1 DEF Include, ViewTypes
  <1> QED
    BY <1>2, <1>3, <1>4 DEF SameMounts

LEMMA ExcludeType ==
    ASSUME NEW vs \in Partial(Views, ViewTypes), NEW scope,
           NEW els, NEW rels
    PROVE  /\ Exclude(vs, scope, els, rels) \in Partial(Views, ViewTypes)
           /\ SameMounts(vs, Exclude(vs, scope, els, rels))
           /\ Shrinks(vs, Exclude(vs, scope, els, rels))
  <1> DEFINE n == Exclude(vs, scope, els, rels)
  <1>1. DOMAIN vs \subseteq Views /\ \A v \in DOMAIN vs : vs[v] \in ViewTypes
    BY PartialType
  <1>2. n \in [DOMAIN vs -> ViewTypes]
    BY <1>1 DEF Exclude, ViewTypes
  <1>3. n \in Partial(Views, ViewTypes)
    BY <1>1, <1>2, BuiltType
  <1>4. \A v \in DOMAIN vs : n[v].parent = vs[v].parent
    BY <1>1 DEF Exclude, ViewTypes
  <1>5. \A v \in DOMAIN vs : n[v].els \subseteq vs[v].els
    BY <1>1 DEF Exclude, ViewTypes
  <1> QED
    BY <1>2, <1>3, <1>4, <1>5 DEF SameMounts, Shrinks

\* The element e lists the views S, and nothing else changes.
WithSubs(d, e, S) == [d EXCEPT !.elements[e].subs = S]

ListsNow(d, n, e, S) ==
    /\ n.views = d.views
    /\ n.elements[e].subs = S
    /\ \A x \in DOMAIN d.elements : x # e => n.elements[x] = d.elements[x]

LEMMA SubsType ==
    ASSUME NEW d \in Graphs, NEW e \in DOMAIN d.elements, NEW S \in SUBSET Views
    PROVE  MountsOnly(d, WithSubs(d, e, S)) /\ ListsNow(d, WithSubs(d, e, S), e, S)
  <1> DEFINE es == [d.elements EXCEPT ![e].subs = S]
             n == [d EXCEPT !.elements = es]
  <1>1. /\ DOMAIN d.elements \subseteq Elements
        /\ d.elements = [x \in DOMAIN d.elements |-> d.elements[x]]
        /\ \A x \in DOMAIN d.elements : d.elements[x] \in ElementTypes
    BY GraphFields, PartialType
  <1>2. /\ DOMAIN es = DOMAIN d.elements
        /\ \A x \in DOMAIN d.elements :
              es[x] = IF x = e THEN [d.elements[e] EXCEPT !.subs = S] ELSE d.elements[x]
    BY <1>1
  <1>3. [d.elements[e] EXCEPT !.subs = S] \in ElementTypes
    BY <1>1 DEF ElementTypes
  <1>4. es \in [DOMAIN d.elements -> ElementTypes]
    BY <1>1, <1>2, <1>3
  <1>5. es \in Partial(Elements, ElementTypes)
    BY <1>1, <1>4, BuiltType
  <1>6. WithSubs(d, e, S) = n
    BY GraphFields DEF WithSubs
  <1>7. /\ [d.elements[e] EXCEPT !.subs = S].subs = S
        /\ [d.elements[e] EXCEPT !.subs = S].text = d.elements[e].text
    BY <1>1 DEF ElementTypes
  <1>8. n \in Graphs /\ n.elements = es /\ n.rels = d.rels /\ n.views = d.views
    BY <1>5, OtherElements
  <1> HIDE DEF n, es
  <1> QED
    BY <1>2, <1>6, <1>7, <1>8 DEF MountsOnly, ListsNow

\* From d to n the element e, if there is one, lists v as well; or no longer.
ListsToo(d, n, e, v) ==
    /\ MountsOnly(d, n)
    /\ n.views = d.views
    /\ \A x \in DOMAIN d.elements :
          n.elements[x].subs = IF x = e THEN d.elements[x].subs \union {v} ELSE d.elements[x].subs

ListsNot(d, n, e, v) ==
    /\ MountsOnly(d, n)
    /\ n.views = d.views
    /\ \A x \in DOMAIN d.elements :
          n.elements[x].subs = IF x = e THEN d.elements[x].subs \ {v} ELSE d.elements[x].subs

LEMMA UpsertSubType ==
    ASSUME NEW d \in Graphs, NEW e, NEW v \in Views
    PROVE  ListsToo(d, UpsertSub(d, e, v), e, v)
  <1>1. CASE e \notin DOMAIN d.elements
    BY <1>1 DEF UpsertSub, MountsOnly, ListsToo
  <1>2. CASE e \in DOMAIN d.elements
    <2> DEFINE S == d.elements[e].subs \union {v}
               n == WithSubs(d, e, S)
    <2>1. S \in SUBSET Views
      BY <1>2, GraphFields DEF ElementTypes
    <2>2. UpsertSub(d, e, v) = n
      BY <1>2 DEF UpsertSub, WithSubs
    <2> HIDE DEF S
    <2>3. MountsOnly(d, n) /\ ListsNow(d, n, e, S)
      BY <1>2, <2>1, SubsType
    <2> HIDE DEF n
    <2> QED
      BY <2>2, <2>3 DEF S, ListsNow, ListsToo
  <1> QED
    BY <1>1, <1>2

LEMMA RemoveSubType ==
    ASSUME NEW d \in Graphs, NEW e, NEW v
    PROVE  ListsNot(d, RemoveSub(d, e, v), e, v)
  <1>1. CASE e \notin DOMAIN d.elements
    BY <1>1 DEF RemoveSub, MountsOnly, ListsNot
  <1>2. CASE e \in DOMAIN d.elements
    <2> DEFINE S == d.elements[e].subs \ {v}
               n == WithSubs(d, e, S)
    <2>1. S \in SUBSET Views
      BY <1>2, GraphFields DEF ElementTypes
    <2>2. RemoveSub(d, e, v) = n
      BY <1>2 DEF RemoveSub, WithSubs
    <2> HIDE DEF S
    <2>3. MountsOnly(d, n) /\ ListsNow(d, n, e, S)
      BY <1>2, <2>1, SubsType
    <2> HIDE DEF n
    <2> QED
      BY <2>2, <2>3 DEF S, ListsNow, ListsNot
  <1> QED
    BY <1>1, <1>2

\* What the pointing of views does, field by field.
LEMMA PointViewsToType ==
    ASSUME NEW d \in Graphs, NEW e \in DOMAIN d.elements
    PROVE  LET n == PointViewsTo(d, e)
               subs == d.elements[e].subs
           IN  /\ MountsOnly(d, n)
               /\ n.elements[e] = d.elements[e]
               /\ \A x \in DOMAIN d.elements : x # e =>
                     n.elements[x].subs =
                        d.elements[x].subs \ {v \in subs \intersect DOMAIN d.views : d.views[v].parent = x}
               /\ \A v \in DOMAIN d.views :
                     n.views[v].parent = IF v \in subs THEN e ELSE d.views[v].parent
  <1> DEFINE subs == d.elements[e].subs
             listed == subs \intersect DOMAIN d.views
             stolen(x) == {v \in listed : d.views[v].parent = x}
             es == [x \in DOMAIN d.elements |->
                      IF x = e THEN d.elements[x]
                      ELSE [d.elements[x] EXCEPT !.subs = @ \ stolen(x)]]
             vs == [v \in DOMAIN d.views |->
                      IF v \in listed THEN [d.views[v] EXCEPT !.parent = e] ELSE d.views[v]]
             n == [d EXCEPT !.elements = es, !.views = vs]
  <1>1. /\ DOMAIN d.elements \subseteq Elements /\ DOMAIN d.views \subseteq Views
        /\ \A x \in DOMAIN d.elements : d.elements[x] \in ElementTypes
        /\ \A v \in DOMAIN d.views : d.views[v] \in ViewTypes
        /\ d.rels \in Partial(Relationships, RelTypes)
    BY GraphFields
  <1>2. PointViewsTo(d, e) = n
    BY DEF PointViewsTo
  <1>3. \A x \in DOMAIN d.elements :
           /\ es[x] \in ElementTypes
           /\ es[x].text = d.elements[x].text
           /\ es[x].subs = IF x = e THEN subs ELSE d.elements[x].subs \ stolen(x)
    BY <1>1 DEF ElementTypes
  <1>4. \A v \in DOMAIN d.views :
           /\ vs[v] \in ViewTypes
           /\ vs[v].els = d.views[v].els /\ vs[v].rels = d.views[v].rels
           /\ vs[v].parent = IF v \in subs THEN e ELSE d.views[v].parent
    BY <1>1 DEF ViewTypes
  <1>5. DOMAIN es = DOMAIN d.elements /\ DOMAIN vs = DOMAIN d.views /\ es[e] = d.elements[e]
    OBVIOUS
  <1>6. es \in Partial(Elements, ElementTypes)
    <2>1. es \in [DOMAIN d.elements -> ElementTypes]
      BY <1>3
    <2> HIDE DEF es
    <2> QED
      BY <1>1, <2>1, BuiltType
  <1>7. vs \in Partial(Views, ViewTypes)
    <2>1. vs \in [DOMAIN d.views -> ViewTypes]
      BY <1>4
    <2> HIDE DEF vs
    <2> QED
      BY <1>1, <2>1, BuiltType
  <1> HIDE DEF es, vs
  <1>8. n \in Graphs /\ n.elements = es /\ n.rels = d.rels /\ n.views = vs
    BY <1>6, <1>7, GraphFields DEF Graphs, ElementTypes, ViewTypes
  <1> HIDE DEF n
  <1>9. MountsOnly(d, n)
    BY <1>3, <1>4, <1>5, <1>8 DEF MountsOnly
  <1>10. /\ n.elements[e] = d.elements[e]
         /\ \A x \in DOMAIN d.elements : x # e =>
               n.elements[x].subs = d.elements[x].subs \ stolen(x)
         /\ \A v \in DOMAIN d.views :
               n.views[v].parent = IF v \in subs THEN e ELSE d.views[v].parent
    BY <1>3, <1>4, <1>5, <1>8
  <1> QED
    BY <1>2, <1>9, <1>10

LEMMA ReconcileType ==
    ASSUME NEW d \in Graphs, NEW e \in DOMAIN d.elements
    PROVE  LET n == Reconcile(d, e)
               subs == d.elements[e].subs
           IN  /\ MountsOnly(d, n)
               /\ n.elements[e] = d.elements[e]
               /\ \A x \in DOMAIN d.elements : x # e =>
                     n.elements[x].subs =
                        d.elements[x].subs \ {v \in subs \intersect DOMAIN d.views : d.views[v].parent = x}
               /\ \A v \in DOMAIN d.views :
                     n.views[v].parent = IF v \in subs THEN e
                                         ELSE IF d.views[v].parent = e THEN NoParent
                                         ELSE d.views[v].parent
  <1> DEFINE subs == d.elements[e].subs
             p == PointViewsTo(d, e)
             vs == [v \in DOMAIN p.views |->
                      IF p.views[v].parent = e /\ v \notin subs
                      THEN [p.views[v] EXCEPT !.parent = NoParent] ELSE p.views[v]]
             n == [p EXCEPT !.views = vs]
  <1>1. /\ MountsOnly(d, p)
        /\ p.elements[e] = d.elements[e]
        /\ \A x \in DOMAIN d.elements : x # e =>
              p.elements[x].subs =
                 d.elements[x].subs \ {v \in subs \intersect DOMAIN d.views : d.views[v].parent = x}
        /\ \A v \in DOMAIN d.views :
              p.views[v].parent = IF v \in subs THEN e ELSE d.views[v].parent
    BY PointViewsToType
  <1>2. Reconcile(d, e) = n
    BY DEF Reconcile
  <1> HIDE DEF p
  <1>3. /\ p \in Graphs /\ DOMAIN p.views \subseteq Views
        /\ \A v \in DOMAIN p.views : p.views[v] \in ViewTypes
    BY <1>1, GraphFields DEF MountsOnly
  <1>4. \A v \in DOMAIN p.views :
           /\ vs[v] \in ViewTypes
           /\ vs[v].els = p.views[v].els /\ vs[v].rels = p.views[v].rels
           /\ vs[v].parent = IF p.views[v].parent = e /\ v \notin subs
                             THEN NoParent ELSE p.views[v].parent
    BY <1>3 DEF ViewTypes
  <1>5. vs \in Partial(Views, ViewTypes)
    <2>1. vs \in [DOMAIN p.views -> ViewTypes]
      BY <1>4
    <2> HIDE DEF vs
    <2> QED
      BY <1>3, <2>1, BuiltType
  <1>6. DOMAIN vs = DOMAIN p.views
    OBVIOUS
  <1> HIDE DEF vs
  <1>7. n \in Graphs /\ n.elements = p.elements /\ n.rels = p.rels /\ n.views = vs
    BY <1>3, <1>5, OtherViews
  <1> HIDE DEF n
  <1>8. MountsOnly(d, n)
    BY <1>1, <1>4, <1>6, <1>7 DEF MountsOnly
  <1>9. \A v \in DOMAIN d.views :
           n.views[v].parent = IF v \in subs THEN e
                               ELSE IF d.views[v].parent = e THEN NoParent
                               ELSE d.views[v].parent
    BY <1>1, <1>4, <1>7 DEF MountsOnly
  <1> QED
    BY <1>1, <1>2, <1>7, <1>8, <1>9

-----------------------------------------------------------------------------
(* What one mutation does.                                                 *)

LEMMA MutationFields ==
    ASSUME NEW m \in AnyMutation
    PROVE  /\ m.type \in {"addElement", "updateElement", "removeElement",
                          "addRelationship", "updateRelationship", "removeRelationship",
                          "addView", "updateView", "removeView"}
           /\ m.type = "addElement" =>
                 /\ m.id \in Elements /\ m.text \in Texts
                 /\ m.subs \in SUBSET Views /\ m.scope \in SUBSET Views
           /\ m.type = "updateElement" =>
                 /\ m.id \in Elements
                 /\ m.text # Keep => m.text \in Texts
                 /\ m.subs # Keep => m.subs \in SUBSET Views
           /\ m.type = "removeElement" => m.id \in Elements /\ m.scope \in SUBSET Views
           /\ m.type = "addRelationship" =>
                 /\ m.id \in Relationships /\ m.src \in Elements /\ m.tgt \in Elements
                 /\ m.scope \in SUBSET Views
           /\ m.type = "updateRelationship" =>
                 /\ m.id \in Relationships
                 /\ m.src # Keep => m.src \in Elements
                 /\ m.tgt # Keep => m.tgt \in Elements
           /\ m.type = "removeRelationship" => m.id \in Relationships /\ m.scope \in SUBSET Views
           /\ m.type = "addView" =>
                 /\ m.id \in Views /\ m.parent \in Elements \union {NoParent}
                 /\ m.els \in SUBSET Elements /\ m.rels \in SUBSET Relationships
           /\ m.type = "updateView" =>
                 /\ m.id \in Views
                 /\ m.parent # Keep => m.parent \in Elements \union {NoParent}
                 /\ m.elsPatch \in MembersPatch(Elements)
                 /\ m.relsPatch \in MembersPatch(Relationships)
           /\ m.type = "removeView" => m.id \in Views
  BY DEF AnyMutation

\* What m does from d to n is what its type and id say: only the object that it
\* names appears or has its text replaced, and what disappears was named too, or
\* is a relationship of an element that was removed.  A view that grows is asked
\* to be checked, unless it grows with a relationship.
Accounted(d, n, m) ==
    /\ n \in Graphs
    /\ \A e \in DOMAIN d.elements \ DOMAIN n.elements : m.type = "removeElement" /\ m.id = e
    /\ \A e \in DOMAIN n.elements \ DOMAIN d.elements : m.type = "addElement" /\ m.id = e
    /\ \A e \in DOMAIN d.elements \intersect DOMAIN n.elements :
          \/ n.elements[e].text = d.elements[e].text
          \/ m.type = "updateElement" /\ m.id = e
    /\ \A v \in DOMAIN d.views \ DOMAIN n.views : m.type = "removeView" /\ m.id = v
    /\ \A r \in DOMAIN d.rels \ DOMAIN n.rels :
          m.type = "removeElement" \/ (m.type = "removeRelationship" /\ m.id = r)
    /\ \A v \in DOMAIN n.views :
          \/ v \in LimitChecks(d, m)
          \/ m.type \in {"addRelationship", "updateRelationship"}
          \/ v \in DOMAIN d.views /\ n.views[v].els \subseteq d.views[v].els

LEMMA MountsAccounted ==
    ASSUME NEW d \in Graphs, NEW n, MountsOnly(d, n), NEW m
    PROVE  Accounted(d, n, m)
  BY DEF MountsOnly, Accounted

\* Both sides of the mounts agree as far as both are there, and the mutations P
\* yet to come complete what is not: a view still to be added hangs under the
\* element that lists it already, and an element still to be added lists the
\* views that hang under it already.
InStep(d, P) ==
    /\ \A e \in DOMAIN d.elements :
          d.elements[e].subs \intersect DOMAIN d.views = {v \in DOMAIN d.views : d.views[v].parent = e}
    /\ \A e \in DOMAIN d.elements : \A v \in d.elements[e].subs \ DOMAIN d.views : \A a \in P :
          a.type = "addView" /\ a.id = v => a.parent = e
    /\ \A v \in DOMAIN d.views : \A a \in P :
          a.type = "addElement" /\ a.id = d.views[v].parent =>
              a.id \in DOMAIN d.elements \/ v \in a.subs

\* The mutation m mounts nothing differently from what P will.
Fits(m, P) ==
    /\ m.type = "addElement" \/ (m.type = "updateElement" /\ m.subs # Keep) =>
          \A a \in P : a.type = "addView" /\ a.id \in m.subs => a.parent = m.id
    /\ m.type = "addView" => \A a \in P : ~(a.type = "addElement" /\ a.id = m.parent)
    /\ m.type = "updateView" => \A a \in P : a.type = "addElement" /\ a.id = m.parent => m.id \in a.subs

Aligned(d, n, m) ==
    \A P \in SUBSET AnyMutation : InStep(d, P \union {m}) /\ Fits(m, P) => InStep(n, P)

LEMMA SameMountsInStep ==
    ASSUME NEW d, NEW n, SameMounts(d.views, n.views), DOMAIN n.elements \subseteq DOMAIN d.elements,
           \A e \in DOMAIN n.elements : n.elements[e].subs = d.elements[e].subs,
           \A e \in DOMAIN d.elements \ DOMAIN n.elements : \A v \in DOMAIN d.views : d.views[v].parent # e,
           NEW m, NEW P, InStep(d, P \union {m})
    PROVE  InStep(n, P)
  <1>1. ASSUME NEW e \in DOMAIN n.elements
        PROVE  n.elements[e].subs \intersect DOMAIN n.views = {v \in DOMAIN n.views : n.views[v].parent = e}
    <2>1. d.elements[e].subs \intersect DOMAIN d.views = {v \in DOMAIN d.views : d.views[v].parent = e}
      BY DEF InStep
    <2> QED
      BY <2>1 DEF SameMounts
  <1>2. ASSUME NEW e \in DOMAIN n.elements, NEW v \in n.elements[e].subs \ DOMAIN n.views,
               NEW a \in P, a.type = "addView", a.id = v
        PROVE  a.parent = e
    BY <1>2 DEF InStep, SameMounts
  <1>3. ASSUME NEW v \in DOMAIN n.views, NEW a \in P, a.type = "addElement", a.id = n.views[v].parent
        PROVE  a.id \in DOMAIN n.elements \/ v \in a.subs
    BY <1>3 DEF InStep, SameMounts
  <1> QED
    BY <1>1, <1>2, <1>3 DEF InStep

LEMMA SameMountsAlign ==
    ASSUME NEW d, NEW n, SameMounts(d.views, n.views), DOMAIN n.elements \subseteq DOMAIN d.elements,
           \A e \in DOMAIN n.elements : n.elements[e].subs = d.elements[e].subs,
           \A e \in DOMAIN d.elements \ DOMAIN n.elements : \A v \in DOMAIN d.views : d.views[v].parent # e,
           NEW m
    PROVE  Aligned(d, n, m)
  BY SameMountsInStep DEF Aligned

\* An element whose list P fits takes the views that it lists.
LEMMA PointViewsToInStep ==
    ASSUME NEW d \in Graphs, NEW e \in DOMAIN d.elements, NEW P,
           \A x \in DOMAIN d.elements : x # e =>
              d.elements[x].subs \intersect DOMAIN d.views = {v \in DOMAIN d.views : d.views[v].parent = x},
           \A v \in DOMAIN d.views : d.views[v].parent = e => v \in d.elements[e].subs,
           \A x \in DOMAIN d.elements : \A v \in d.elements[x].subs \ DOMAIN d.views : \A a \in P :
              a.type = "addView" /\ a.id = v => a.parent = x,
           \A v \in DOMAIN d.views : \A a \in P :
              a.type = "addElement" /\ a.id = d.views[v].parent =>
                  a.id \in DOMAIN d.elements \/ v \in a.subs
    PROVE  InStep(PointViewsTo(d, e), P)
  <1> DEFINE n == PointViewsTo(d, e)
             subs == d.elements[e].subs
  <1>1. /\ MountsOnly(d, n)
        /\ n.elements[e] = d.elements[e]
        /\ \A x \in DOMAIN d.elements : x # e =>
              n.elements[x].subs =
                 d.elements[x].subs \ {v \in subs \intersect DOMAIN d.views : d.views[v].parent = x}
        /\ \A v \in DOMAIN d.views :
              n.views[v].parent = IF v \in subs THEN e ELSE d.views[v].parent
    BY PointViewsToType
  <1> SUFFICES InStep(n, P)
    OBVIOUS
  <1> HIDE DEF n
  <1>2. DOMAIN n.elements = DOMAIN d.elements /\ DOMAIN n.views = DOMAIN d.views
    BY <1>1 DEF MountsOnly
  <1>3. ASSUME NEW x \in DOMAIN d.elements
        PROVE  n.elements[x].subs \intersect DOMAIN d.views
                 = {v \in DOMAIN d.views : n.views[v].parent = x}
    <2>1. CASE x = e
      BY <1>1, <2>1
    <2>2. CASE x # e
      <3>1. d.elements[x].subs \intersect DOMAIN d.views = {v \in DOMAIN d.views : d.views[v].parent = x}
        BY <2>2
      <3> QED
        BY <1>1, <2>2, <3>1
    <2> QED
      BY <2>1, <2>2
  <1>4. \A x \in DOMAIN d.elements : n.elements[x].subs \subseteq d.elements[x].subs
    BY <1>1
  <1>5. ASSUME NEW v \in DOMAIN d.views, NEW a \in P, a.type = "addElement", a.id = n.views[v].parent
        PROVE  a.id \in DOMAIN d.elements \/ v \in a.subs
    BY <1>1, <1>5
  <1> QED
    BY <1>2, <1>3, <1>4, <1>5 DEF InStep

LEMMA ReconcileInStep ==
    ASSUME NEW d \in Graphs, NEW e \in DOMAIN d.elements, NEW P \in SUBSET AnyMutation,
           \A x \in DOMAIN d.elements : x # e =>
              d.elements[x].subs \intersect DOMAIN d.views = {v \in DOMAIN d.views : d.views[v].parent = x},
           \A x \in DOMAIN d.elements : \A v \in d.elements[x].subs \ DOMAIN d.views : \A a \in P :
              a.type = "addView" /\ a.id = v => a.parent = x,
           \A v \in DOMAIN d.views : \A a \in P :
              a.type = "addElement" /\ a.id = d.views[v].parent =>
                  a.id \in DOMAIN d.elements \/ v \in a.subs
    PROVE  InStep(Reconcile(d, e), P)
  <1> DEFINE n == Reconcile(d, e)
             subs == d.elements[e].subs
  <1>1. /\ MountsOnly(d, n)
        /\ n.elements[e] = d.elements[e]
        /\ \A x \in DOMAIN d.elements : x # e =>
              n.elements[x].subs =
                 d.elements[x].subs \ {v \in subs \intersect DOMAIN d.views : d.views[v].parent = x}
        /\ \A v \in DOMAIN d.views :
              n.views[v].parent = IF v \in subs THEN e
                                  ELSE IF d.views[v].parent = e THEN NoParent
                                  ELSE d.views[v].parent
    BY ReconcileType
  <1> SUFFICES InStep(n, P)
    OBVIOUS
  <1> HIDE DEF n
  <1>2. DOMAIN n.elements = DOMAIN d.elements /\ DOMAIN n.views = DOMAIN d.views
    BY <1>1 DEF MountsOnly
  <1>3. \A x \in DOMAIN d.elements : x # NoParent
    BY GraphFields, MutationConstants
  <1>4. ASSUME NEW x \in DOMAIN d.elements
        PROVE  n.elements[x].subs \intersect DOMAIN d.views
                 = {v \in DOMAIN d.views : n.views[v].parent = x}
    <2>1. CASE x = e
      BY <1>1, <1>3, <2>1
    <2>2. CASE x # e
      <3>1. d.elements[x].subs \intersect DOMAIN d.views = {v \in DOMAIN d.views : d.views[v].parent = x}
        BY <2>2
      <3> QED
        BY <1>1, <1>3, <2>2, <3>1
    <2> QED
      BY <2>1, <2>2
  <1>5. \A x \in DOMAIN d.elements : n.elements[x].subs \subseteq d.elements[x].subs
    BY <1>1
  <1>6. ASSUME NEW v \in DOMAIN d.views, NEW a \in P, a.type = "addElement", a.id = n.views[v].parent
        PROVE  a.id \in DOMAIN d.elements \/ v \in a.subs
    <2>1. a.id # NoParent
      BY <1>6, MutationFields, MutationConstants
    <2> QED
      BY <1>1, <1>6, <2>1
  <1> QED
    BY <1>2, <1>4, <1>5, <1>6 DEF InStep

LEMMA AddElementKeeps ==
    ASSUME NEW d \in Graphs, NEW m \in AnyMutation, m.type = "addElement"
    PROVE  Accounted(d, AddElement(d, m), m) /\ Aligned(d, AddElement(d, m), m)
  <1> DEFINE new == [text |-> m.text, subs |-> m.subs]
             es == Put(d.elements, m.id, new)
             a == IF m.id \in DOMAIN d.elements THEN d
                  ELSE PointViewsTo([d EXCEPT !.elements = es], m.id)
             vs == Include(a.views, m.scope, {m.id}, {})
             n == [a EXCEPT !.views = vs]
  <1>1. /\ m.id \in Elements /\ m.text \in Texts /\ m.subs \in SUBSET Views
        /\ LimitChecks(d, m) = m.scope
    BY MutationFields DEF LimitChecks
  <1>2. AddElement(d, m) = n
    BY DEF AddElement
  <1>3. /\ a \in Graphs /\ a.rels = d.rels
        /\ DOMAIN a.elements = DOMAIN d.elements \union {m.id}
        /\ \A e \in DOMAIN d.elements : a.elements[e].text = d.elements[e].text
        /\ DOMAIN a.views = DOMAIN d.views
        /\ \A v \in DOMAIN d.views : a.views[v].els = d.views[v].els
        /\ Aligned(d, a, m)
    <2>1. CASE m.id \in DOMAIN d.elements
      <3>1. a = d /\ SameMounts(d.views, a.views)
        BY <2>1 DEF SameMounts
      <3> HIDE DEF a
      <3>2. Aligned(d, a, m)
        BY <3>1, SameMountsAlign
      <3> QED
        BY <2>1, <3>1, <3>2
    <2>2. CASE m.id \notin DOMAIN d.elements
      <3> DEFINE b == [d EXCEPT !.elements = es]
      <3>1. new \in ElementTypes /\ d.elements \in Partial(Elements, ElementTypes)
        BY <1>1, GraphFields DEF ElementTypes
      <3> HIDE DEF new, a
      <3>2. es \in Partial(Elements, ElementTypes)
        BY <1>1, <3>1, PutType
      <3>3. /\ DOMAIN es = DOMAIN d.elements \union {m.id}
            /\ es[m.id].subs = m.subs
            /\ \A e \in DOMAIN d.elements : e # m.id => es[e] = d.elements[e]
        BY DEF Put, new
      <3> HIDE DEF es
      <3>4. b \in Graphs /\ b.elements = es /\ b.rels = d.rels /\ b.views = d.views
        BY <3>2, OtherElements
      <3>5. a = PointViewsTo(b, m.id)
        BY <2>2 DEF a
      <3> HIDE DEF b
      <3>6. MountsOnly(b, a)
        BY <3>3, <3>4, <3>5, PointViewsToType
      <3>7. ASSUME NEW P \in SUBSET AnyMutation, InStep(d, P \union {m}), Fits(m, P)
            PROVE  InStep(a, P)
        <4>1. \A x \in DOMAIN b.elements : x # m.id =>
                b.elements[x].subs \intersect DOMAIN b.views = {v \in DOMAIN b.views : b.views[v].parent = x}
          BY <3>3, <3>4, <3>7 DEF InStep
        <4>2. \A v \in DOMAIN b.views : b.views[v].parent = m.id => v \in b.elements[m.id].subs
          BY <2>2, <3>3, <3>4, <3>7 DEF InStep
        <4>3. \A x \in DOMAIN b.elements : \A v \in b.elements[x].subs \ DOMAIN b.views : \A c \in P :
                c.type = "addView" /\ c.id = v => c.parent = x
          <5> SUFFICES ASSUME NEW x \in DOMAIN b.elements, NEW v \in b.elements[x].subs \ DOMAIN b.views,
                              NEW c \in P, c.type = "addView", c.id = v
                       PROVE  c.parent = x
            OBVIOUS
          <5>1. CASE x = m.id
            BY <3>3, <3>4, <3>7, <5>1 DEF Fits
          <5>2. CASE x # m.id
            BY <3>3, <3>4, <3>7, <5>2 DEF InStep
          <5> QED
            BY <5>1, <5>2
        <4>4. \A v \in DOMAIN b.views : \A c \in P :
                c.type = "addElement" /\ c.id = b.views[v].parent =>
                    c.id \in DOMAIN b.elements \/ v \in c.subs
          BY <3>3, <3>4, <3>7 DEF InStep
        <4>5. m.id \in DOMAIN b.elements
          BY <3>3, <3>4
        <4> QED
          BY <3>4, <3>5, <4>1, <4>2, <4>3, <4>4, <4>5, PointViewsToInStep
      <3> QED
        BY <2>2, <3>3, <3>4, <3>6, <3>7 DEF MountsOnly, Aligned
    <2> QED
      BY <2>1, <2>2
  <1> HIDE DEF a
  <1>4. vs \in Partial(Views, ViewTypes) /\ SameMounts(a.views, vs)
    <2>1. a.views \in Partial(Views, ViewTypes) /\ {m.id} \in SUBSET Elements /\ {} \in SUBSET Relationships
      BY <1>1, <1>3, GraphFields
    <2> QED
      BY <2>1, IncludeType
  <1>5. DOMAIN vs = DOMAIN a.views /\ \A v \in DOMAIN a.views \ m.scope : vs[v] = a.views[v]
    BY DEF Include
  <1> HIDE DEF vs
  <1>6. n \in Graphs /\ n.elements = a.elements /\ n.rels = a.rels /\ n.views = vs
    BY <1>3, <1>4, OtherViews
  <1> HIDE DEF n
  <1>7. Accounted(d, n, m)
    BY <1>1, <1>3, <1>5, <1>6 DEF Accounted
  <1>8. Aligned(d, n, m)
    <2> SUFFICES ASSUME NEW P \in SUBSET AnyMutation, InStep(d, P \union {m}), Fits(m, P)
                 PROVE  InStep(n, P)
      BY DEF Aligned
    <2>1. InStep(a, P)
      BY <1>3 DEF Aligned
    <2> QED
      BY <1>4, <1>6, <2>1 DEF InStep, SameMounts
  <1> QED
    BY <1>2, <1>7, <1>8

LEMMA UpdateElementKeeps ==
    ASSUME NEW d \in Graphs, NEW m \in AnyMutation, m.type = "updateElement",
           m.id \in DOMAIN d.elements
    PROVE  Accounted(d, UpdateElement(d, m), m) /\ Aligned(d, UpdateElement(d, m), m)
  <1> DEFINE es == [d.elements EXCEPT ![m.id].text = m.text]
             t == IF m.text = Keep THEN d ELSE [d EXCEPT !.elements[m.id].text = m.text]
             b == WithSubs(t, m.id, m.subs)
  <1>1. /\ LimitChecks(d, m) = {}
        /\ m.text # Keep => m.text \in Texts
        /\ m.subs # Keep => m.subs \in SUBSET Views
    BY MutationFields DEF LimitChecks
  <1>2. UpdateElement(d, m) = IF m.subs = Keep THEN t ELSE Reconcile(b, m.id)
    BY DEF UpdateElement, WithSubs
  <1>3. /\ t \in Graphs /\ t.rels = d.rels /\ t.views = d.views
        /\ DOMAIN t.elements = DOMAIN d.elements
        /\ \A e \in DOMAIN d.elements : t.elements[e].subs = d.elements[e].subs
        /\ \A e \in DOMAIN d.elements : e # m.id => t.elements[e].text = d.elements[e].text
    <2>1. CASE m.text = Keep
      BY <2>1
    <2>2. CASE m.text # Keep
      <3>1. /\ DOMAIN d.elements \subseteq Elements
            /\ d.elements = [x \in DOMAIN d.elements |-> d.elements[x]]
            /\ \A x \in DOMAIN d.elements : d.elements[x] \in ElementTypes
        BY GraphFields, PartialType
      <3>2. /\ DOMAIN es = DOMAIN d.elements
            /\ \A x \in DOMAIN d.elements :
                  es[x] = IF x = m.id THEN [d.elements[m.id] EXCEPT !.text = m.text] ELSE d.elements[x]
        BY <3>1
      <3>3. /\ [d.elements[m.id] EXCEPT !.text = m.text] \in ElementTypes
            /\ [d.elements[m.id] EXCEPT !.text = m.text].subs = d.elements[m.id].subs
        BY <1>1, <2>2, <3>1 DEF ElementTypes
      <3>4. es \in [DOMAIN d.elements -> ElementTypes]
        BY <3>1, <3>2, <3>3
      <3>5. es \in Partial(Elements, ElementTypes)
        BY <3>1, <3>4, BuiltType
      <3>6. t = [d EXCEPT !.elements = es]
        BY <2>2, GraphFields
      <3> HIDE DEF es, t
      <3>7. t \in Graphs /\ t.elements = es /\ t.rels = d.rels /\ t.views = d.views
        BY <3>5, <3>6, OtherElements
      <3> QED
        BY <3>2, <3>3, <3>7
    <2> QED
      BY <2>1, <2>2
  <1> HIDE DEF t
  <1>4. SameMounts(d.views, t.views)
    BY <1>3 DEF SameMounts
  <1>5. CASE m.subs = Keep
    <2>1. Accounted(d, t, m)
      BY <1>1, <1>3 DEF Accounted
    <2>2. Aligned(d, t, m)
      BY <1>3, <1>4, SameMountsAlign
    <2> QED
      BY <1>2, <1>5, <2>1, <2>2
  <1>6. CASE m.subs # Keep
    <2> DEFINE n == Reconcile(b, m.id)
    <2>1. /\ MountsOnly(t, b)
          /\ b.views = t.views
          /\ b.elements[m.id].subs = m.subs
          /\ \A x \in DOMAIN t.elements : x # m.id => b.elements[x] = t.elements[x]
      BY <1>1, <1>3, <1>6, SubsType DEF ListsNow
    <2> HIDE DEF b
    <2>2. b \in Graphs /\ m.id \in DOMAIN b.elements
      BY <1>3, <2>1 DEF MountsOnly
    <2>3. MountsOnly(b, n)
      BY <2>2, ReconcileType
    <2>4. ASSUME NEW P \in SUBSET AnyMutation, InStep(d, P \union {m}), Fits(m, P)
          PROVE  InStep(n, P)
      <3>1. DOMAIN b.elements = DOMAIN d.elements /\ b.views = d.views
        BY <1>3, <2>1 DEF MountsOnly
      <3>2. \A x \in DOMAIN b.elements : x # m.id => b.elements[x].subs = d.elements[x].subs
        BY <1>3, <2>1, <3>1
      <3>3. \A x \in DOMAIN b.elements : x # m.id =>
              b.elements[x].subs \intersect DOMAIN b.views = {v \in DOMAIN b.views : b.views[v].parent = x}
        BY <2>4, <3>1, <3>2 DEF InStep
      <3>4. \A x \in DOMAIN b.elements : \A v \in b.elements[x].subs \ DOMAIN b.views : \A c \in P :
              c.type = "addView" /\ c.id = v => c.parent = x
        <4> SUFFICES ASSUME NEW x \in DOMAIN b.elements, NEW v \in b.elements[x].subs \ DOMAIN b.views,
                            NEW c \in P, c.type = "addView", c.id = v
                     PROVE  c.parent = x
          OBVIOUS
        <4>1. CASE x = m.id
          BY <1>6, <2>1, <2>4, <4>1 DEF Fits
        <4>2. CASE x # m.id
          BY <2>4, <3>1, <3>2, <4>2 DEF InStep
        <4> QED
          BY <4>1, <4>2
      <3>5. \A v \in DOMAIN b.views : \A c \in P :
              c.type = "addElement" /\ c.id = b.views[v].parent =>
                  c.id \in DOMAIN b.elements \/ v \in c.subs
        BY <2>4, <3>1 DEF InStep
      <3> QED
        BY <2>2, <3>3, <3>4, <3>5, ReconcileInStep
    <2> HIDE DEF n
    <2>5. Accounted(d, n, m)
      BY <1>1, <1>3, <2>1, <2>3 DEF Accounted, MountsOnly
    <2> QED
      BY <1>2, <1>6, <2>4, <2>5 DEF Aligned, n
  <1> QED
    BY <1>5, <1>6

LEMMA RemoveElementKeeps ==
    ASSUME NEW d \in Graphs, NEW m \in AnyMutation, m.type = "removeElement",
           ChildViews(d, m.id) = {}
    PROVE  Accounted(d, RemoveElement(d, m), m) /\ Aligned(d, RemoveElement(d, m), m)
  <1> DEFINE related == {r \in DOMAIN d.rels : m.id \in Ends(d, r)}
             scoped == Exclude(d.views, ScopeOf(d, m.scope), {m.id}, related)
             gone == m.id \notin Shown(scoped)
             vs == IF gone THEN Exclude(scoped, DOMAIN scoped, {}, related) ELSE scoped
             deleted == related \ ShownRels(vs)
             es == IF gone THEN Restrict(d.elements, DOMAIN d.elements \ {m.id}) ELSE d.elements
             rs == Restrict(d.rels, DOMAIN d.rels \ deleted)
             n == [elements |-> es, rels |-> rs, views |-> vs]
  <1>1. RemoveElement(d, m) = n
    BY DEF RemoveElement
  <1>2. LimitChecks(d, m) = {}
    BY DEF LimitChecks
  <1>3. /\ d.elements \in Partial(Elements, ElementTypes)
        /\ d.rels \in Partial(Relationships, RelTypes)
        /\ d.views \in Partial(Views, ViewTypes)
    BY GraphFields
  <1>4. vs \in Partial(Views, ViewTypes) /\ SameMounts(d.views, vs) /\ Shrinks(d.views, vs)
    <2> HIDE DEF related
    <2>1. scoped \in Partial(Views, ViewTypes) /\ SameMounts(d.views, scoped) /\ Shrinks(d.views, scoped)
      BY <1>3, ExcludeType
    <2> HIDE DEF scoped
    <2>2. /\ Exclude(scoped, DOMAIN scoped, {}, related) \in Partial(Views, ViewTypes)
          /\ SameMounts(scoped, Exclude(scoped, DOMAIN scoped, {}, related))
          /\ Shrinks(scoped, Exclude(scoped, DOMAIN scoped, {}, related))
      BY <2>1, ExcludeType
    <2> QED
      BY <2>1, <2>2 DEF SameMounts, Shrinks
  <1> HIDE DEF gone, vs
  <1>5. /\ es \in Partial(Elements, ElementTypes)
        /\ DOMAIN es \subseteq DOMAIN d.elements
        /\ \A e \in DOMAIN d.elements \ DOMAIN es : e = m.id
        /\ \A e \in DOMAIN es : es[e] = d.elements[e]
    <2>1. CASE gone
      <3>1. Restrict(d.elements, DOMAIN d.elements \ {m.id}) \in Partial(Elements, ElementTypes)
        BY <1>3, RestrictType
      <3> QED
        BY <2>1, <3>1 DEF Restrict
    <2>2. CASE ~gone
      BY <1>3, <2>2
    <2> QED
      BY <2>1, <2>2
  <1>6. rs \in Partial(Relationships, RelTypes)
    BY <1>3, RestrictType
  <1> HIDE DEF es, rs
  <1>7. n \in Graphs /\ n.elements = es /\ n.rels = rs /\ n.views = vs
    BY <1>4, <1>5, <1>6, GraphOf
  <1> HIDE DEF n
  <1>8. Accounted(d, n, m)
    BY <1>2, <1>4, <1>5, <1>7 DEF Accounted, SameMounts, Shrinks
  <1>9. Aligned(d, n, m)
    <2>1. \A v \in DOMAIN d.views : d.views[v].parent # m.id
      BY DEF ChildViews
    <2> QED
      BY <1>4, <1>5, <1>7, <2>1, SameMountsAlign
  <1> QED
    BY <1>1, <1>8, <1>9

LEMMA AddRelationshipKeeps ==
    ASSUME NEW d \in Graphs, NEW m \in AnyMutation, m.type = "addRelationship"
    PROVE  Accounted(d, AddRelationship(d, m), m) /\ Aligned(d, AddRelationship(d, m), m)
  <1> DEFINE new == [src |-> m.src, tgt |-> m.tgt]
             rs == Put(d.rels, m.id, new)
             a == IF m.id \in DOMAIN d.rels THEN d ELSE [d EXCEPT !.rels = rs]
             vs == Include(a.views, m.scope, {m.src, m.tgt}, {m.id})
             n == [a EXCEPT !.views = vs]
  <1>1. AddRelationship(d, m) = n
    BY DEF AddRelationship
  <1>2. /\ m.id \in Relationships /\ m.src \in Elements /\ m.tgt \in Elements
        /\ LimitChecks(d, m) = {}
    BY MutationFields DEF LimitChecks
  <1>3. /\ a \in Graphs /\ a.elements = d.elements /\ a.views = d.views
        /\ DOMAIN d.rels \subseteq DOMAIN a.rels
    <2>1. new \in RelTypes /\ d.rels \in Partial(Relationships, RelTypes)
      BY <1>2, GraphFields DEF RelTypes
    <2> HIDE DEF new
    <2>2. rs \in Partial(Relationships, RelTypes)
      BY <1>2, <2>1, PutType
    <2>3. DOMAIN d.rels \subseteq DOMAIN rs
      BY DEF Put
    <2> HIDE DEF rs
    <2>4. /\ [d EXCEPT !.rels = rs] \in Graphs
          /\ [d EXCEPT !.rels = rs].elements = d.elements
          /\ [d EXCEPT !.rels = rs].rels = rs
          /\ [d EXCEPT !.rels = rs].views = d.views
      BY <2>2, OtherRels
    <2> QED
      BY <2>3, <2>4
  <1> HIDE DEF a
  <1>4. vs \in Partial(Views, ViewTypes) /\ SameMounts(a.views, vs)
    <2>1. /\ a.views \in Partial(Views, ViewTypes)
          /\ {m.src, m.tgt} \in SUBSET Elements /\ {m.id} \in SUBSET Relationships
      BY <1>2, <1>3, GraphFields
    <2> QED
      BY <2>1, IncludeType
  <1> HIDE DEF vs
  <1>5. n \in Graphs /\ n.elements = a.elements /\ n.rels = a.rels /\ n.views = vs
    BY <1>3, <1>4, OtherViews
  <1> HIDE DEF n
  <1>6. Accounted(d, n, m)
    BY <1>2, <1>3, <1>4, <1>5 DEF Accounted, SameMounts
  <1>7. Aligned(d, n, m)
    BY <1>3, <1>4, <1>5, SameMountsAlign
  <1> QED
    BY <1>1, <1>6, <1>7

LEMMA UpdateRelationshipKeeps ==
    ASSUME NEW d \in Graphs, NEW m \in AnyMutation, m.type = "updateRelationship",
           m.id \in DOMAIN d.rels
    PROVE  Accounted(d, UpdateRelationship(d, m), m) /\ Aligned(d, UpdateRelationship(d, m), m)
  <1> DEFINE old == d.rels[m.id]
             new == [src |-> IF m.src = Keep THEN old.src ELSE m.src,
                     tgt |-> IF m.tgt = Keep THEN old.tgt ELSE m.tgt]
             dropped == {old.src, old.tgt} \ {new.src, new.tgt}
             vs == [v \in DOMAIN d.views |->
                      IF m.id \in d.views[v].rels
                      THEN [d.views[v] EXCEPT !.els = (@ \union {new.src, new.tgt})
                                                      \ (dropped \ UsedByOthers(d, v, m.id))]
                      ELSE d.views[v]]
             rs == [d.rels EXCEPT ![m.id] = new]
             n == [d EXCEPT !.rels[m.id] = new, !.views = vs]
  <1>1. UpdateRelationship(d, m) = n
    BY DEF UpdateRelationship
  <1>2. /\ m.src # Keep => m.src \in Elements
        /\ m.tgt # Keep => m.tgt \in Elements
        /\ LimitChecks(d, m) = {}
    BY MutationFields DEF LimitChecks
  <1>3. /\ DOMAIN d.rels \subseteq Relationships /\ DOMAIN d.views \subseteq Views
        /\ d.rels = [r \in DOMAIN d.rels |-> d.rels[r]]
        /\ \A r \in DOMAIN d.rels : d.rels[r] \in RelTypes
        /\ \A v \in DOMAIN d.views : d.views[v] \in ViewTypes
    BY GraphFields, PartialType
  <1>4. new \in RelTypes /\ new.src \in Elements /\ new.tgt \in Elements
    BY <1>2, <1>3 DEF RelTypes
  <1> HIDE DEF new
  <1>5. rs \in Partial(Relationships, RelTypes) /\ DOMAIN rs = DOMAIN d.rels
    <2>1. rs \in [DOMAIN d.rels -> RelTypes]
      BY <1>3, <1>4
    <2> HIDE DEF rs
    <2> QED
      BY <1>3, <2>1, BuiltType
  <1>6. vs \in Partial(Views, ViewTypes) /\ SameMounts(d.views, vs)
    <2> HIDE DEF dropped
    <2>1. \A v \in DOMAIN d.views : vs[v] \in ViewTypes /\ vs[v].parent = d.views[v].parent
      BY <1>3, <1>4 DEF ViewTypes
    <2>2. vs \in [DOMAIN d.views -> ViewTypes]
      BY <2>1
    <2>3. SameMounts(d.views, vs)
      BY <2>1 DEF SameMounts
    <2> HIDE DEF vs
    <2> QED
      BY <1>3, <2>2, <2>3, BuiltType
  <1> HIDE DEF vs, rs
  <1>7. n \in Graphs /\ n.elements = d.elements /\ n.rels = rs /\ n.views = vs
    BY <1>5, <1>6, GraphFields DEF Graphs, RelTypes, ViewTypes, rs
  <1> HIDE DEF n
  <1>8. Accounted(d, n, m)
    BY <1>2, <1>5, <1>6, <1>7 DEF Accounted, SameMounts
  <1>9. Aligned(d, n, m)
    BY <1>7, <1>6, SameMountsAlign
  <1> QED
    BY <1>1, <1>8, <1>9

LEMMA RemoveRelationshipKeeps ==
    ASSUME NEW d \in Graphs, NEW m \in AnyMutation, m.type = "removeRelationship"
    PROVE  Accounted(d, RemoveRelationship(d, m), m) /\ Aligned(d, RemoveRelationship(d, m), m)
  <1> DEFINE scope == ScopeOf(d, m.scope)
             vs == [v \in DOMAIN d.views |->
                      IF v \in scope
                      THEN [d.views[v] EXCEPT !.rels = @ \ {m.id},
                                              !.els = @ \ (Ends(d, m.id) \ UsedByOthers(d, v, m.id))]
                      ELSE d.views[v]]
             rs == IF m.id \in ShownRels(vs) THEN d.rels
                   ELSE Restrict(d.rels, DOMAIN d.rels \ {m.id})
             n == [d EXCEPT !.views = vs,
                            !.rels = IF m.id \in ShownRels(vs) THEN @ ELSE Restrict(@, DOMAIN @ \ {m.id})]
  <1>1. RemoveRelationship(d, m) = n
    BY DEF RemoveRelationship
  <1>2. LimitChecks(d, m) = {}
    BY DEF LimitChecks
  <1>3. /\ DOMAIN d.views \subseteq Views /\ d.rels \in Partial(Relationships, RelTypes)
        /\ \A v \in DOMAIN d.views : d.views[v] \in ViewTypes
    BY GraphFields
  <1>4. vs \in Partial(Views, ViewTypes) /\ SameMounts(d.views, vs) /\ Shrinks(d.views, vs)
    <2> HIDE DEF scope
    <2>1. \A v \in DOMAIN d.views : /\ vs[v] \in ViewTypes /\ vs[v].parent = d.views[v].parent
                                 /\ vs[v].els \subseteq d.views[v].els
      BY <1>3 DEF ViewTypes
    <2>2. vs \in [DOMAIN d.views -> ViewTypes]
      BY <2>1
    <2>3. SameMounts(d.views, vs) /\ Shrinks(d.views, vs)
      BY <2>1 DEF SameMounts, Shrinks
    <2> HIDE DEF vs
    <2> QED
      BY <1>3, <2>2, <2>3, BuiltType
  <1> HIDE DEF vs
  <1>5. /\ rs \in Partial(Relationships, RelTypes)
        /\ \A r \in DOMAIN d.rels \ DOMAIN rs : r = m.id
    <2>1. Restrict(d.rels, DOMAIN d.rels \ {m.id}) \in Partial(Relationships, RelTypes)
      BY <1>3, RestrictType
    <2> QED
      BY <1>3, <2>1 DEF Restrict
  <1>6. n = [d EXCEPT !.views = vs, !.rels = rs]
    OBVIOUS
  <1> HIDE DEF rs, n
  <1>7. n \in Graphs /\ n.elements = d.elements /\ n.rels = rs /\ n.views = vs
    BY <1>4, <1>5, <1>6, GraphFields DEF Graphs, RelTypes, ViewTypes
  <1>8. Accounted(d, n, m)
    BY <1>2, <1>4, <1>5, <1>7 DEF Accounted, SameMounts, Shrinks
  <1>9. Aligned(d, n, m)
    BY <1>7, <1>4, SameMountsAlign
  <1> QED
    BY <1>1, <1>8, <1>9

LEMMA AddViewKeeps ==
    ASSUME NEW d \in Graphs, NEW m \in AnyMutation, m.type = "addView"
    PROVE  Accounted(d, AddView(d, m), m) /\ Aligned(d, AddView(d, m), m)
  <1>1. /\ m.id \in Views /\ m.parent \in Elements \union {NoParent}
        /\ m.els \in SUBSET Elements /\ m.rels \in SUBSET Relationships
        /\ LimitChecks(d, m) = {m.id} \ DOMAIN d.views
    BY MutationFields DEF LimitChecks
  <1>2. CASE m.id \in DOMAIN d.views
    <2>1. AddView(d, m) = d /\ SameMounts(d.views, d.views) /\ MountsOnly(d, d)
      BY <1>2 DEF AddView, SameMounts, MountsOnly
    <2> QED
      BY <2>1, MountsAccounted, SameMountsAlign
  <1>3. CASE m.id \notin DOMAIN d.views
    <2> DEFINE new == [parent |-> m.parent, els |-> m.els, rels |-> m.rels]
               vs == Put(d.views, m.id, new)
               b == [d EXCEPT !.views = vs]
               n == UpsertSub(b, m.parent, m.id)
    <2>1. AddView(d, m) = n
      BY <1>3 DEF AddView
    <2>2. new \in ViewTypes /\ d.views \in Partial(Views, ViewTypes) /\ new.parent = m.parent
      BY <1>1, GraphFields DEF ViewTypes
    <2> HIDE DEF new
    <2>3. vs \in Partial(Views, ViewTypes)
      BY <1>1, <2>2, PutType
    <2>4. /\ DOMAIN vs = DOMAIN d.views \union {m.id} /\ vs[m.id] = new
          /\ \A v \in DOMAIN d.views : vs[v] = d.views[v]
      BY <1>3 DEF Put
    <2> HIDE DEF vs
    <2>5. b \in Graphs /\ b.elements = d.elements /\ b.rels = d.rels /\ b.views = vs
      BY <2>3, OtherViews
    <2> HIDE DEF b
    <2>6. /\ MountsOnly(b, n) /\ n.views = vs
          /\ \A x \in DOMAIN d.elements :
                n.elements[x].subs = IF x = m.parent THEN d.elements[x].subs \union {m.id}
                                     ELSE d.elements[x].subs
      <3>1. ListsToo(b, n, m.parent, m.id)
        BY <1>1, <2>5, UpsertSubType
      <3> HIDE DEF n
      <3> QED
        BY <2>5, <3>1 DEF ListsToo
    <2> HIDE DEF n
    <2>7. Accounted(d, n, m)
      BY <1>1, <1>3, <2>4, <2>5, <2>6 DEF Accounted, MountsOnly
    <2>8. Aligned(d, n, m)
      <3> SUFFICES ASSUME NEW P \in SUBSET AnyMutation, InStep(d, P \union {m}), Fits(m, P)
                   PROVE  InStep(n, P)
        BY DEF Aligned
      <3>1. DOMAIN n.elements = DOMAIN d.elements
        BY <2>5, <2>6 DEF MountsOnly
      <3>2. ASSUME NEW e \in DOMAIN d.elements
            PROVE  n.elements[e].subs \intersect DOMAIN vs = {v \in DOMAIN vs : vs[v].parent = e}
        <4>1. d.elements[e].subs \intersect DOMAIN d.views = {v \in DOMAIN d.views : d.views[v].parent = e}
          BY DEF InStep
        <4>2. {v \in DOMAIN vs : vs[v].parent = e}
                = {v \in DOMAIN d.views : d.views[v].parent = e}
                    \union (IF e = m.parent THEN {m.id} ELSE {})
          BY <1>3, <2>2, <2>4
        <4>3. m.id \in d.elements[e].subs => e = m.parent
          BY <1>3 DEF InStep
        <4> QED
          BY <2>4, <2>6, <4>1, <4>2, <4>3
      <3>3. ASSUME NEW e \in DOMAIN d.elements, NEW v \in n.elements[e].subs \ DOMAIN vs,
                   NEW a \in P, a.type = "addView", a.id = v
            PROVE  a.parent = e
        <4>1. v \in d.elements[e].subs \ DOMAIN d.views
          BY <2>4, <2>6
        <4> QED
          BY <3>3, <4>1 DEF InStep
      <3>4. ASSUME NEW v \in DOMAIN vs, NEW a \in P, a.type = "addElement", a.id = vs[v].parent
            PROVE  a.id \in DOMAIN d.elements \/ v \in a.subs
        <4>1. CASE v = m.id
          BY <2>2, <2>4, <3>4, <4>1 DEF Fits
        <4>2. CASE v # m.id
          BY <2>4, <3>4, <4>2 DEF InStep
        <4> QED
          BY <4>1, <4>2
      <3> QED
        BY <2>6, <3>1, <3>2, <3>3, <3>4 DEF InStep
    <2> QED
      BY <2>1, <2>7, <2>8
  <1> QED
    BY <1>2, <1>3

LEMMA PatchedType ==
    ASSUME NEW S, NEW old \in SUBSET S, NEW patch \in MembersPatch(S)
    PROVE  Patched(old, patch) \in SUBSET S
  BY DEF Patched, MembersPatch

LEMMA UpdateViewKeeps ==
    ASSUME NEW d \in Graphs, NEW m \in AnyMutation, m.type = "updateView",
           m.id \in DOMAIN d.views
    PROVE  Accounted(d, UpdateView(d, m), m) /\ Aligned(d, UpdateView(d, m), m)
  <1> DEFINE old == d.views[m.id].parent
             parent == IF m.parent = Keep THEN old ELSE m.parent
             new == [parent |-> parent, els |-> Patched(d.views[m.id].els, m.elsPatch),
                     rels |-> Patched(d.views[m.id].rels, m.relsPatch)]
             vs == [d.views EXCEPT ![m.id] = new]
             b == [d EXCEPT !.views = vs]
             q == IF parent = old THEN b ELSE RemoveSub(b, old, m.id)
             n == UpsertSub(q, parent, m.id)
  <1>1. /\ m.id \in Views
        /\ m.parent # Keep => m.parent \in Elements \union {NoParent}
        /\ m.elsPatch \in MembersPatch(Elements) /\ m.relsPatch \in MembersPatch(Relationships)
        /\ LimitChecks(d, m) = IF m.elsPatch = Keep THEN {} ELSE {m.id}
    BY MutationFields DEF LimitChecks
  <1>2. UpdateView(d, m) = n
    BY DEF UpdateView
  <1>3. /\ DOMAIN d.views \subseteq Views
        /\ d.views = [v \in DOMAIN d.views |-> d.views[v]]
        /\ \A v \in DOMAIN d.views : d.views[v] \in ViewTypes
    BY GraphFields, PartialType
  <1>4. old \in Elements \union {NoParent}
    BY <1>3 DEF ViewTypes
  <1>5. /\ new \in ViewTypes /\ new.parent = parent
        /\ m.elsPatch = Keep => new.els = d.views[m.id].els
    <2>1. d.views[m.id].els \in SUBSET Elements /\ d.views[m.id].rels \in SUBSET Relationships
      BY <1>3 DEF ViewTypes
    <2>2. /\ Patched(d.views[m.id].els, m.elsPatch) \in SUBSET Elements
          /\ Patched(d.views[m.id].rels, m.relsPatch) \in SUBSET Relationships
      BY <1>1, <2>1, PatchedType
    <2>3. parent \in Elements \union {NoParent}
      BY <1>1, <1>4
    <2>4. m.elsPatch = Keep => Patched(d.views[m.id].els, m.elsPatch) = d.views[m.id].els
      BY DEF Patched
    <2> QED
      BY <2>2, <2>3, <2>4 DEF ViewTypes
  <1> HIDE DEF new
  <1>6. /\ DOMAIN vs = DOMAIN d.views /\ vs[m.id] = new
        /\ \A v \in DOMAIN d.views : v # m.id => vs[v] = d.views[v]
        /\ vs \in Partial(Views, ViewTypes)
    <2>1. vs \in [DOMAIN d.views -> ViewTypes]
      BY <1>3, <1>5
    <2>2. vs \in Partial(Views, ViewTypes)
      BY <1>3, <2>1, BuiltType
    <2> QED
      BY <1>3, <2>2
  <1> HIDE DEF vs
  <1>7. b \in Graphs /\ b.elements = d.elements /\ b.rels = d.rels /\ b.views = vs
    BY <1>6, OtherViews
  <1> HIDE DEF b, parent, old
  <1>8. /\ MountsOnly(b, q) /\ q.views = vs
        /\ \A x \in DOMAIN d.elements :
              q.elements[x].subs = IF x = old /\ parent # old THEN d.elements[x].subs \ {m.id}
                                   ELSE d.elements[x].subs
    <2>1. CASE parent = old
      BY <1>7, <2>1 DEF MountsOnly
    <2>2. CASE parent # old
      <3>1. ListsNot(b, RemoveSub(b, old, m.id), old, m.id)
        BY <1>7, RemoveSubType
      <3>2. q = RemoveSub(b, old, m.id)
        BY <2>2
      <3> HIDE DEF q
      <3> QED
        BY <1>7, <2>2, <3>1, <3>2 DEF ListsNot
    <2> QED
      BY <2>1, <2>2
  <1> HIDE DEF q
  <1>9. /\ MountsOnly(q, n) /\ n.views = vs
        /\ \A x \in DOMAIN d.elements :
              n.elements[x].subs = IF x = parent THEN q.elements[x].subs \union {m.id}
                                   ELSE q.elements[x].subs
    <2>1. q \in Graphs /\ DOMAIN q.elements = DOMAIN d.elements
      BY <1>7, <1>8 DEF MountsOnly
    <2>2. ListsToo(q, n, parent, m.id)
      BY <1>1, <2>1, UpsertSubType
    <2> HIDE DEF n
    <2> QED
      BY <1>8, <2>1, <2>2 DEF ListsToo
  <1> HIDE DEF n
  <1>10. Accounted(d, n, m)
    <2>1. \A v \in DOMAIN d.views : v \notin LimitChecks(d, m) => vs[v].els = d.views[v].els
      BY <1>1, <1>5, <1>6
    <2> QED
      BY <1>6, <1>7, <1>8, <1>9, <2>1 DEF Accounted, MountsOnly
  <1>11. Aligned(d, n, m)
    <2> SUFFICES ASSUME NEW P \in SUBSET AnyMutation, InStep(d, P \union {m}), Fits(m, P)
                 PROVE  InStep(n, P)
      BY DEF Aligned
    <2>1. DOMAIN n.elements = DOMAIN d.elements
      BY <1>7, <1>8, <1>9 DEF MountsOnly
    <2>2. \A e \in DOMAIN d.elements : \A v \in n.elements[e].subs \ DOMAIN vs : v \in d.elements[e].subs
      BY <1>6, <1>8, <1>9
    <2>3. ASSUME NEW e \in DOMAIN d.elements
          PROVE  n.elements[e].subs \intersect DOMAIN vs = {v \in DOMAIN vs : vs[v].parent = e}
      <3>1. d.elements[e].subs \intersect DOMAIN d.views = {v \in DOMAIN d.views : d.views[v].parent = e}
        BY DEF InStep
      <3>2. {v \in DOMAIN vs : vs[v].parent = e}
              = ({v \in DOMAIN d.views : d.views[v].parent = e} \ {m.id})
                  \union (IF e = parent THEN {m.id} ELSE {})
        BY <1>5, <1>6
      <3>3. m.id \in d.elements[e].subs <=> e = old
        BY <3>1 DEF old
      <3>4. n.elements[e].subs
              = (d.elements[e].subs \ {m.id}) \union (IF e = parent THEN {m.id} ELSE {})
        <4>1. CASE e = parent
          BY <1>8, <1>9, <4>1
        <4>2. CASE e # parent
          BY <1>8, <1>9, <3>3, <4>2
        <4> QED
          BY <4>1, <4>2
      <3> QED
        BY <1>6, <3>1, <3>2, <3>4
    <2>4. ASSUME NEW e \in DOMAIN d.elements, NEW v \in n.elements[e].subs \ DOMAIN vs,
                 NEW a \in P, a.type = "addView", a.id = v
          PROVE  a.parent = e
      BY <1>6, <2>2, <2>4 DEF InStep
    <2>5. ASSUME NEW v \in DOMAIN vs, NEW a \in P, a.type = "addElement", a.id = vs[v].parent
          PROVE  a.id \in DOMAIN d.elements \/ v \in a.subs
      <3>1. CASE v = m.id /\ parent # old
        BY <1>5, <1>6, <2>5, <3>1 DEF Fits, parent
      <3>2. CASE v # m.id \/ parent = old
        <4>1. vs[v].parent = d.views[v].parent
          BY <1>5, <1>6, <3>2 DEF old
        <4> QED
          BY <1>6, <2>5, <4>1 DEF InStep
      <3> QED
        BY <3>1, <3>2
    <2> QED
      BY <1>9, <2>1, <2>3, <2>4, <2>5 DEF InStep
  <1> QED
    BY <1>2, <1>10, <1>11 DEF n, q, b, vs, new, parent, old

LEMMA RemoveViewKeeps ==
    ASSUME NEW d \in Graphs, NEW m \in AnyMutation, m.type = "removeView",
           m.id \in DOMAIN d.views
    PROVE  Accounted(d, RemoveView(d, m), m) /\ Aligned(d, RemoveView(d, m), m)
  <1> DEFINE old == d.views[m.id].parent
             u == RemoveSub(d, old, m.id)
             vs == Restrict(u.views, DOMAIN u.views \ {m.id})
             n == [u EXCEPT !.views = vs]
  <1>1. RemoveView(d, m) = n /\ LimitChecks(d, m) = {}
    BY DEF RemoveView, LimitChecks
  <1>2. /\ MountsOnly(d, u) /\ u.views = d.views
        /\ \A x \in DOMAIN d.elements :
              u.elements[x].subs = IF x = old THEN d.elements[x].subs \ {m.id}
                                   ELSE d.elements[x].subs
    <2>1. ListsNot(d, u, old, m.id)
      BY RemoveSubType
    <2> HIDE DEF u, old
    <2> QED
      BY <2>1 DEF ListsNot
  <1> HIDE DEF u
  <1>3. /\ vs \in Partial(Views, ViewTypes) /\ DOMAIN vs = DOMAIN d.views \ {m.id}
        /\ \A v \in DOMAIN vs : vs[v] = d.views[v]
    <2>1. u.views \in Partial(Views, ViewTypes)
      BY <1>2, GraphFields
    <2>2. vs \in Partial(Views, ViewTypes)
      BY <2>1, RestrictType
    <2> QED
      BY <1>2, <2>2 DEF Restrict
  <1> HIDE DEF vs
  <1>4. n \in Graphs /\ n.elements = u.elements /\ n.rels = u.rels /\ n.views = vs
    BY <1>2, <1>3, OtherViews DEF MountsOnly
  <1> HIDE DEF n
  <1>5. Accounted(d, n, m)
    BY <1>1, <1>2, <1>3, <1>4 DEF Accounted, MountsOnly
  <1>6. Aligned(d, n, m)
    <2> SUFFICES ASSUME NEW P \in SUBSET AnyMutation, InStep(d, P \union {m}), Fits(m, P)
                 PROVE  InStep(n, P)
      BY DEF Aligned
    <2>1. DOMAIN n.elements = DOMAIN d.elements
      BY <1>2, <1>4 DEF MountsOnly
    <2>2. ASSUME NEW e \in DOMAIN d.elements
          PROVE  n.elements[e].subs = d.elements[e].subs \ {m.id}
      <3>1. d.elements[e].subs \intersect DOMAIN d.views = {v \in DOMAIN d.views : d.views[v].parent = e}
        BY DEF InStep
      <3>2. e # old => m.id \notin d.elements[e].subs
        BY <3>1
      <3> QED
        BY <1>2, <1>4, <3>2
    <2>3. ASSUME NEW e \in DOMAIN d.elements
          PROVE  n.elements[e].subs \intersect DOMAIN vs = {v \in DOMAIN vs : vs[v].parent = e}
      <3>1. d.elements[e].subs \intersect DOMAIN d.views = {v \in DOMAIN d.views : d.views[v].parent = e}
        BY DEF InStep
      <3>2. {v \in DOMAIN vs : vs[v].parent = e} = {v \in DOMAIN d.views : d.views[v].parent = e} \ {m.id}
        BY <1>3
      <3> QED
        BY <1>3, <2>2, <3>1, <3>2
    <2>4. ASSUME NEW e \in DOMAIN d.elements, NEW v \in n.elements[e].subs \ DOMAIN vs,
                 NEW a \in P, a.type = "addView", a.id = v
          PROVE  a.parent = e
      BY <1>3, <2>2, <2>4 DEF InStep
    <2>5. ASSUME NEW v \in DOMAIN vs, NEW a \in P, a.type = "addElement", a.id = vs[v].parent
          PROVE  a.id \in DOMAIN d.elements \/ v \in a.subs
      BY <1>3, <2>5 DEF InStep
    <2> QED
      BY <1>4, <2>1, <2>3, <2>4, <2>5 DEF InStep
  <1> QED
    BY <1>1, <1>5, <1>6 DEF n, vs, u

\* One mutation that does not throw.
LEMMA ApplyOneKeeps ==
    ASSUME NEW d \in Graphs, NEW m \in AnyMutation, CanApply(d, m)
    PROVE  Accounted(d, ApplyOne(d, m), m) /\ Aligned(d, ApplyOne(d, m), m)
  <1>1. m.type \in {"addElement", "updateElement", "removeElement",
                    "addRelationship", "updateRelationship", "removeRelationship",
                    "addView", "updateView", "removeView"}
    BY MutationFields
  <1>2. CASE m.type = "addElement"
    BY <1>2, AddElementKeeps DEF ApplyOne
  <1>3. CASE m.type = "updateElement"
    BY <1>3, UpdateElementKeeps DEF ApplyOne, CanApply
  <1>4. CASE m.type = "removeElement"
    BY <1>4, RemoveElementKeeps DEF ApplyOne, CanApply
  <1>5. CASE m.type = "addRelationship"
    BY <1>5, AddRelationshipKeeps DEF ApplyOne
  <1>6. CASE m.type = "updateRelationship"
    BY <1>6, UpdateRelationshipKeeps DEF ApplyOne, CanApply
  <1>7. CASE m.type = "removeRelationship"
    BY <1>7, RemoveRelationshipKeeps DEF ApplyOne
  <1>8. CASE m.type = "addView"
    BY <1>8, AddViewKeeps DEF ApplyOne
  <1>9. CASE m.type = "updateView"
    BY <1>9, UpdateViewKeeps DEF ApplyOne, CanApply
  <1>10. CASE m.type = "removeView"
    BY <1>10, RemoveViewKeeps DEF ApplyOne, CanApply
  <1> QED
    BY <1>1, <1>2, <1>3, <1>4, <1>5, <1>6, <1>7, <1>8, <1>9, <1>10

-----------------------------------------------------------------------------
(* The order of a batch.                                                   *)

Earlier(p, k) == {p[j] : j \in 1..(k - 1)}

\* No mutation comes twice, and each comes after those it depends on.
Sorted(batch, p) ==
    \A k \in DOMAIN p :
        /\ p[k] \notin Earlier(p, k)
        /\ DependsOn(batch, p[k]) \subseteq Earlier(p, k)

Orders(batch) == {p \in Seq(DOMAIN batch) : Sorted(batch, p)}

LEMMA NextReadySorted ==
    ASSUME NEW batch \in Seq(AnyMutation), NEW p \in Orders(batch)
    PROVE  NextReady(batch, p) \in Orders(batch)
  <1> DEFINE done == ToSet(p)
             ready == {i \in DOMAIN batch \ done : DependsOn(batch, i) \subseteq done}
             q == Append(p, Min(ready))
  <1>1. p \in Seq(DOMAIN batch) /\ Sorted(batch, p) /\ DOMAIN batch \subseteq Nat
    BY DEF Orders
  <1>2. NextReady(batch, p) = IF ready = {} THEN p ELSE q
    BY DEF NextReady
  <1>3. ASSUME ready # {} PROVE q \in Orders(batch)
    <2>1. Min(ready) \in ready
      BY <1>1, <1>3, SmallestIsIn
    <2>2. PICK i \in ready : i = Min(ready)
      BY <2>1
    <2>3. q = Append(p, i) /\ i \in DOMAIN batch /\ i \notin done /\ DependsOn(batch, i) \subseteq done
      BY <2>2
    <2> HIDE DEF ready, q
    <2>4. /\ q \in Seq(DOMAIN batch) /\ DOMAIN q = 1..(Len(p) + 1)
          /\ q[Len(p) + 1] = i /\ \A j \in 1..Len(p) : q[j] = p[j]
          /\ Len(p) \in Nat /\ DOMAIN p = 1..Len(p)
      BY <1>1, <2>3
    <2>5. ASSUME NEW k \in 1..Len(p)
          PROVE  q[k] \notin Earlier(q, k) /\ DependsOn(batch, q[k]) \subseteq Earlier(q, k)
      <3>1. \A j \in 1..(k - 1) : q[j] = p[j]
        BY <2>4
      <3>2. Earlier(q, k) = Earlier(p, k)
        BY <3>1 DEF Earlier
      <3> QED
        BY <1>1, <2>4, <3>2 DEF Sorted
    <2>6. Earlier(q, Len(p) + 1) = done
      <3>1. done = {p[j] : j \in 1..Len(p)} /\ (Len(p) + 1) - 1 = Len(p)
        BY <2>4 DEF ToSet
      <3> HIDE DEF done
      <3> QED
        BY <2>4, <3>1 DEF Earlier
    <2>7. Sorted(batch, q)
      <3> SUFFICES ASSUME NEW k \in 1..(Len(p) + 1)
                   PROVE  q[k] \notin Earlier(q, k) /\ DependsOn(batch, q[k]) \subseteq Earlier(q, k)
        BY <2>4 DEF Sorted
      <3>1. CASE k = Len(p) + 1
        BY <2>3, <2>4, <2>6, <3>1
      <3>2. CASE k # Len(p) + 1
        BY <2>4, <2>5, <3>2
      <3> QED
        BY <3>1, <3>2
    <2> QED
      BY <2>4, <2>7 DEF Orders
  <1> QED
    BY <1>2, <1>3

\* The recursive function in ApplicationOrder is what it says.
OrderBy(batch, f) ==
    f = [n \in 0..Len(batch) |-> IF n = 0 THEN <<>> ELSE NextReady(batch, f[n - 1])]

LEMMA OrderSteps ==
    ASSUME NEW batch \in Seq(AnyMutation)
    PROVE  \E f : OrderBy(batch, f) /\ ApplicationOrder(batch) = f[Len(batch)]
  <1> DEFINE L == Len(batch)
             S == Orders(batch)
             F == [x \in S \X Nat |-> NextReady(batch, x[1])]
             none == <<>>
             order == CHOOSE f : f = [n \in 0..L |-> IF n = 0 THEN <<>> ELSE NextReady(batch, f[n - 1])]
  <1>1. L \in Nat /\ <<>> \in S
    BY DEF Orders, Sorted
  <1>2. F \in [S \X Nat -> S]
    BY NextReadySorted
  <1>3. PICK g \in [0..L -> S] : Iterates(g, none, F, L)
    <2>1. none \in S
      BY <1>1
    <2> HIDE DEF F, S, L, none, order
    <2> QED
      BY <1>1, <1>2, <2>1, Iterated
  <1>4. g = [n \in 0..L |-> IF n = 0 THEN <<>> ELSE NextReady(batch, g[n - 1])]
    <2>1. ASSUME NEW n \in 0..L PROVE g[n] = IF n = 0 THEN <<>> ELSE NextReady(batch, g[n - 1])
      <3>1. CASE n # 0
        <4>1. n \in 1..L /\ n \in Nat /\ n - 1 \in 0..L
          BY <1>1, <3>1
        <4>2. g[n - 1] \in S
          BY <4>1
        <4> QED
          BY <1>3, <3>1, <4>1, <4>2 DEF Iterates
      <3> QED
        BY <1>3, <3>1 DEF Iterates
    <2> QED
      BY <2>1
  <1>5. order = [n \in 0..L |-> IF n = 0 THEN <<>> ELSE NextReady(batch, order[n - 1])]
    BY <1>4
  <1>6. ApplicationOrder(batch) = order[L]
    BY DEF ApplicationOrder
  <1> HIDE DEF order
  <1> QED
    BY <1>5, <1>6 DEF OrderBy

LEMMA OrderSorted ==
    ASSUME NEW batch \in Seq(AnyMutation)
    PROVE  ApplicationOrder(batch) \in Orders(batch)
  <1>1. PICK f : OrderBy(batch, f) /\ ApplicationOrder(batch) = f[Len(batch)]
    BY OrderSteps
  <1> DEFINE L == Len(batch)
             T == {n \in Nat : n <= L => f[n] \in Orders(batch)}
  <1>2. L \in Nat /\ f[0] = <<>> /\ \A n \in 1..L : f[n] = NextReady(batch, f[n - 1])
    BY <1>1 DEF OrderBy
  <1>3. 0 \in T
    <2>1. <<>> \in Orders(batch)
      BY DEF Orders, Sorted
    <2> QED
      BY <1>2, <2>1
  <1>4. ASSUME NEW n \in T PROVE n + 1 \in T
    <2>1. n \in Nat /\ n + 1 \in Nat /\ (n + 1) - 1 = n
      OBVIOUS
    <2>2. ASSUME n + 1 <= L PROVE f[n + 1] \in Orders(batch)
      <3>1. f[n] \in Orders(batch) /\ n + 1 \in 1..L
        BY <1>2, <2>1, <2>2
      <3> QED
        BY <1>2, <2>1, <3>1, NextReadySorted
    <2> QED
      BY <2>1, <2>2
  <1>5. T = Nat
    <2>1. T \in SUBSET Nat
      OBVIOUS
    <2> HIDE DEF T
    <2> QED
      BY <1>3, <1>4, <2>1, SetInduction
  <1> QED
    BY <1>1, <1>2, <1>5

\* Every view hangs under an element of the graph, or under none.
ParentsExist(d) == \A v \in DOMAIN d.views : d.views[v].parent \in DOMAIN d.elements \union {NoParent}

LEMMA NoDriftInStep ==
    ASSUME NEW d, Drifted(d) = {}, ParentsExist(d), NEW P \in SUBSET AnyMutation
    PROVE  InStep(d, P)
  <1>1. \A e \in DOMAIN d.elements : d.elements[e].subs = {v \in DOMAIN d.views : d.views[v].parent = e}
    BY DEF Drifted, Desired
  <1>2. ASSUME NEW v \in DOMAIN d.views, NEW a \in P, a.type = "addElement", a.id = d.views[v].parent
        PROVE  a.id \in DOMAIN d.elements
    <2>1. a.id # NoParent
      BY <1>2, MutationFields, MutationConstants
    <2> QED
      BY <1>2, <2>1 DEF ParentsExist
  <1> QED
    BY <1>1, <1>2 DEF InStep

LEMMA InStepAgrees ==
    ASSUME NEW d, NEW P, InStep(d, P)
    PROVE  Agrees(d)
  BY DEF InStep, Agrees, Desired

-----------------------------------------------------------------------------
(* The run of a batch.                                                     *)

RunStates == [ok : BOOLEAN, doc : Graphs, limit : SUBSET Views]

LEMMA LimitChecksType ==
    ASSUME NEW d \in Graphs, NEW m \in AnyMutation
    PROVE  LimitChecks(d, m) \in SUBSET Views
  <1>1. CASE m.type = "addElement"
    BY <1>1, MutationFields DEF LimitChecks
  <1>2. CASE m.type = "addView"
    BY <1>2, MutationFields DEF LimitChecks
  <1>3. CASE m.type = "updateView"
    BY <1>3, MutationFields DEF LimitChecks
  <1>4. CASE m.type \notin {"addElement", "addView", "updateView"}
    BY <1>4 DEF LimitChecks
  <1> QED
    BY <1>1, <1>2, <1>3, <1>4

LEMMA ApplyNextType ==
    ASSUME NEW s \in RunStates, NEW m \in AnyMutation
    PROVE  ApplyNext(s, m) \in RunStates
  <1>1. s.doc \in Graphs /\ s.limit \in SUBSET Views
    BY DEF RunStates
  <1>2. CASE s.ok /\ CanApply(s.doc, m)
    <2>1. ApplyOne(s.doc, m) \in Graphs
      BY <1>1, <1>2, ApplyOneKeeps DEF Accounted
    <2>2. LimitChecks(s.doc, m) \in SUBSET Views
      BY <1>1, LimitChecksType
    <2> QED
      BY <1>1, <1>2, <2>1, <2>2 DEF ApplyNext, RunStates
  <1>3. CASE ~(s.ok /\ CanApply(s.doc, m))
    BY <1>3 DEF ApplyNext, RunStates
  <1> QED
    BY <1>2, <1>3

\* f[n] is the state after the first n mutations in their order.
IsRun(d, batch, f) ==
    LET order == ApplicationOrder(batch)
    IN  /\ f \in [0..Len(order) -> RunStates]
        /\ f[0].doc = d /\ f[0].limit = {} /\ (f[0].ok <=> Len(order) = Len(batch))
        /\ \A n \in 1..Len(order) : f[n] = ApplyNext(f[n - 1], batch[order[n]])

\* The k-th mutation that the batch applies.
Applied(batch, k) == batch[ApplicationOrder(batch)[k]]

LEMMA AppliedType ==
    ASSUME NEW batch \in Seq(AnyMutation)
    PROVE  /\ Len(ApplicationOrder(batch)) \in Nat
           /\ \A k \in 1..Len(ApplicationOrder(batch)) :
                 /\ ApplicationOrder(batch)[k] \in DOMAIN batch
                 /\ Applied(batch, k) \in AnyMutation
                 /\ Applied(batch, k) \in ToSet(batch)
  <1>1. ApplicationOrder(batch) \in Seq(DOMAIN batch)
    BY OrderSorted DEF Orders
  <1>2. \A i \in DOMAIN batch : batch[i] \in AnyMutation /\ batch[i] \in ToSet(batch)
    BY DEF ToSet
  <1> QED
    BY <1>1, <1>2 DEF Applied

LEMMA RunSteps ==
    ASSUME NEW d \in Graphs, NEW batch \in Seq(AnyMutation)
    PROVE  \E f : IsRun(d, batch, f) /\ Outcome(d, batch) = f[Len(ApplicationOrder(batch))]
  <1> DEFINE order == ApplicationOrder(batch)
             L == Len(order)
             first == [ok |-> L = Len(batch), doc |-> d, limit |-> {}]
             F == [x \in RunStates \X Nat |->
                     IF x[2] \in 1..L THEN ApplyNext(x[1], batch[order[x[2]]]) ELSE x[1]]
             run == CHOOSE f : f = [n \in 0..L |-> IF n = 0 THEN first
                                                   ELSE ApplyNext(f[n - 1], batch[order[n]])]
  <1>1. L \in Nat /\ \A n \in 1..L : batch[order[n]] \in AnyMutation
    BY AppliedType DEF Applied
  <1>2. Outcome(d, batch) = run[L]
    BY DEF Outcome
  <1>3. first \in RunStates /\ first.doc = d /\ first.limit = {} /\ (first.ok <=> L = Len(batch))
    BY DEF RunStates
  <1> HIDE DEF order, first
  <1>4. F \in [RunStates \X Nat -> RunStates]
    BY <1>1, ApplyNextType
  <1>5. PICK g \in [0..L -> RunStates] : Iterates(g, first, F, L)
    <2> HIDE DEF F, L, run
    <2> QED
      BY <1>1, <1>3, <1>4, Iterated
  <1>6. g = [n \in 0..L |-> IF n = 0 THEN first ELSE ApplyNext(g[n - 1], batch[order[n]])]
    <2>1. ASSUME NEW n \in 0..L
          PROVE  g[n] = IF n = 0 THEN first ELSE ApplyNext(g[n - 1], batch[order[n]])
      <3>1. CASE n # 0
        <4>1. n \in 1..L /\ n \in Nat /\ n - 1 \in 0..L
          BY <1>1, <3>1
        <4>2. g[n - 1] \in RunStates
          BY <4>1
        <4>3. F[<<g[n - 1], n>>] = ApplyNext(g[n - 1], batch[order[n]])
          BY <4>1, <4>2
        <4> QED
          BY <1>5, <3>1, <4>1, <4>3 DEF Iterates
      <3> QED
        BY <1>5, <3>1 DEF Iterates
    <2> QED
      BY <2>1
  <1>7. run = [n \in 0..L |-> IF n = 0 THEN first ELSE ApplyNext(run[n - 1], batch[order[n]])]
    BY <1>6
  <1> HIDE DEF run
  <1>8. /\ run[0] = first
        /\ \A n \in 1..L : run[n] = ApplyNext(run[n - 1], batch[order[n]])
    BY <1>1, <1>7
  <1>9. \A n \in 0..L : run[n] \in RunStates
    <2> DEFINE T == {n \in Nat : n <= L => run[n] \in RunStates}
    <2>1. 0 \in T
      BY <1>3, <1>8
    <2>2. ASSUME NEW n \in T PROVE n + 1 \in T
      <3>1. n \in Nat /\ n + 1 \in Nat /\ (n + 1) - 1 = n
        OBVIOUS
      <3>2. ASSUME n + 1 <= L PROVE run[n + 1] \in RunStates
        <4>1. run[n] \in RunStates /\ n + 1 \in 1..L
          BY <1>1, <3>1, <3>2
        <4> QED
          BY <1>1, <1>8, <3>1, <4>1, ApplyNextType
      <3> QED
        BY <3>1, <3>2
    <2>3. T = Nat
      <3>1. T \in SUBSET Nat
        OBVIOUS
      <3> HIDE DEF T
      <3> QED
        BY <2>1, <2>2, <3>1, SetInduction
    <2> QED
      BY <1>1, <2>3
  <1>10. run \in [0..L -> RunStates]
    BY <1>7, <1>9
  <1>11. IsRun(d, batch, run)
    BY <1>3, <1>8, <1>10 DEF IsRun, order
  <1> QED
    BY <1>2, <1>11 DEF order

LEMMA RunStep ==
    ASSUME NEW d \in Graphs, NEW batch \in Seq(AnyMutation), NEW f, IsRun(d, batch, f),
           NEW n \in 1..Len(ApplicationOrder(batch)), f[n].ok
    PROVE  /\ f[n - 1].ok /\ f[n - 1].doc \in Graphs
           /\ Applied(batch, n) \in AnyMutation
           /\ CanApply(f[n - 1].doc, Applied(batch, n))
           /\ f[n].doc = ApplyOne(f[n - 1].doc, Applied(batch, n))
           /\ f[n].limit = f[n - 1].limit \union LimitChecks(f[n - 1].doc, Applied(batch, n))
           /\ Accounted(f[n - 1].doc, f[n].doc, Applied(batch, n))
           /\ Aligned(f[n - 1].doc, f[n].doc, Applied(batch, n))
  <1> DEFINE N == Len(ApplicationOrder(batch))
             s == f[n - 1]
             m == Applied(batch, n)
  <1>1. N \in Nat /\ n - 1 \in 0..N /\ m \in AnyMutation
    BY AppliedType
  <1>2. s \in RunStates /\ f[n] = ApplyNext(s, m)
    BY <1>1 DEF IsRun, Applied
  <1> HIDE DEF s, m
  <1>3. s.ok \in BOOLEAN /\ s.doc \in Graphs
    BY <1>2 DEF RunStates
  <1>4. s.ok /\ CanApply(s.doc, m)
    <2> SUFFICES ASSUME ~(s.ok /\ CanApply(s.doc, m)) PROVE FALSE
      OBVIOUS
    <2>1. f[n] = [s EXCEPT !.ok = FALSE]
      BY <1>2 DEF ApplyNext
    <2>2. ~f[n].ok
      BY <1>2, <2>1 DEF RunStates
    <2> QED
      BY <2>2
  <1>5. f[n] = [ok |-> TRUE, doc |-> ApplyOne(s.doc, m), limit |-> s.limit \union LimitChecks(s.doc, m)]
    BY <1>2, <1>4 DEF ApplyNext
  <1>6. Accounted(s.doc, ApplyOne(s.doc, m), m) /\ Aligned(s.doc, ApplyOne(s.doc, m), m)
    BY <1>1, <1>3, <1>4, ApplyOneKeeps
  <1> QED
    BY <1>1, <1>3, <1>4, <1>5, <1>6 DEF s, m

\* What holds before a run and after each of its steps holds after it.
LEMMA CountUp ==
    ASSUME NEW N \in Nat, NEW T \in SUBSET Nat, 0 \in T,
           \A n \in 1..N : n - 1 \in T => n \in T
    PROVE  N \in T
  <1> DEFINE U == {n \in Nat : n <= N => n \in T}
  <1>1. 0 \in U
    OBVIOUS
  <1>2. ASSUME NEW n \in U PROVE n + 1 \in U
    <2>1. n \in Nat /\ n + 1 \in Nat /\ (n + 1) - 1 = n
      OBVIOUS
    <2>2. n + 1 <= N => n + 1 \in 1..N /\ n \in T
      BY <2>1
    <2> QED
      BY <2>1, <2>2
  <1>3. U = Nat
    <2>1. U \in SUBSET Nat
      OBVIOUS
    <2> HIDE DEF U
    <2> QED
      BY <1>1, <1>2, <2>1, SetInduction
  <1> QED
    BY <1>3

\* Nothing is applied before what it requires.
LEMMA RequiredFirst ==
    ASSUME NEW batch \in Seq(AnyMutation), NEW n \in 1..Len(ApplicationOrder(batch)),
           NEW k \in 1..(n - 1)
    PROVE  Produced(Applied(batch, n)) \notin Required(Applied(batch, k))
  <1> DEFINE p == ApplicationOrder(batch)
  <1>1. p \in Seq(DOMAIN batch) /\ Sorted(batch, p)
    BY OrderSorted DEF Orders
  <1> HIDE DEF p
  <1>2. n \in DOMAIN p /\ k \in DOMAIN p /\ n \in Nat /\ k \in Nat
    BY <1>1 DEF p
  <1>3. p[n] \notin Earlier(p, n) /\ DependsOn(batch, p[k]) \subseteq Earlier(p, k)
    BY <1>1, <1>2 DEF Sorted
  <1>4. p[k] \in Earlier(p, n) /\ Earlier(p, k) \subseteq Earlier(p, n)
    BY <1>2 DEF Earlier
  <1>5. p[n] \in DOMAIN batch /\ p[n] # p[k]
    BY <1>1, <1>2, <1>3, <1>4
  <1>6. p[n] \notin DependsOn(batch, p[k])
    BY <1>3, <1>4
  <1> QED
    BY <1>5, <1>6 DEF DependsOn, Applied, p

\* One of the first n mutations that the batch applies.
Before(batch, n, type, id) ==
    \E k \in 1..n : Applied(batch, k).type = type /\ Applied(batch, k).id = id

\* What the first n mutations have made of d is what they were asked for.
RunAccounted(d, batch, n, g) ==
    /\ \A e \in DOMAIN d.elements \ DOMAIN g.elements : Before(batch, n, "removeElement", e)
    /\ \A e \in DOMAIN d.elements \intersect DOMAIN g.elements :
          g.elements[e].text = d.elements[e].text \/ Before(batch, n, "updateElement", e)
    /\ \A v \in DOMAIN d.views \ DOMAIN g.views : Before(batch, n, "removeView", v)
    /\ \A r \in DOMAIN d.rels \ DOMAIN g.rels :
          \/ Before(batch, n, "removeRelationship", r)
          \/ \E k \in 1..n : Applied(batch, k).type = "removeElement"

LEMMA RunAccountedStep ==
    ASSUME NEW d \in Graphs, NEW batch \in Seq(AnyMutation),
           NEW n \in 1..Len(ApplicationOrder(batch)), NEW s \in Graphs, NEW g,
           Accounted(s, g, Applied(batch, n)), RunAccounted(d, batch, n - 1, s)
    PROVE  RunAccounted(d, batch, n, g)
  <1> DEFINE m == Applied(batch, n)
  <1>1. n \in Nat /\ n \in 1..n /\ 1..(n - 1) \subseteq 1..n
    BY AppliedType
  <1>2. \A type, id : Before(batch, n - 1, type, id) => Before(batch, n, type, id)
    BY <1>1 DEF Before
  <1>3. Before(batch, n, m.type, m.id)
    BY <1>1 DEF Before
  <1>4. ASSUME NEW e \in DOMAIN d.elements \ DOMAIN g.elements
        PROVE  Before(batch, n, "removeElement", e)
    <2>1. CASE e \in DOMAIN s.elements
      BY <1>3, <2>1 DEF Accounted
    <2>2. CASE e \notin DOMAIN s.elements
      BY <1>2, <2>2 DEF RunAccounted
    <2> QED
      BY <2>1, <2>2
  <1>5. ASSUME NEW e \in DOMAIN d.elements \intersect DOMAIN g.elements
        PROVE  g.elements[e].text = d.elements[e].text \/ Before(batch, n, "updateElement", e)
    <2>1. CASE e \in DOMAIN s.elements
      <3>1. g.elements[e].text = s.elements[e].text \/ Before(batch, n, "updateElement", e)
        BY <1>3, <2>1 DEF Accounted
      <3>2. s.elements[e].text = d.elements[e].text \/ Before(batch, n, "updateElement", e)
        BY <1>2, <2>1 DEF RunAccounted
      <3> QED
        BY <3>1, <3>2
    <2>2. CASE e \notin DOMAIN s.elements
      <3>1. PICK k \in 1..(n - 1) : Applied(batch, k).type = "removeElement" /\ Applied(batch, k).id = e
        BY <2>2 DEF RunAccounted, Before
      <3>2. m.type = "addElement" /\ m.id = e
        BY <2>2 DEF Accounted
      <3>3. Produced(m) = <<"element", e>> /\ <<"element", e>> \in Required(Applied(batch, k))
        BY <3>1, <3>2 DEF Produced, Required
      <3> QED
        BY <3>3, RequiredFirst
    <2> QED
      BY <2>1, <2>2
  <1>6. ASSUME NEW v \in DOMAIN d.views \ DOMAIN g.views
        PROVE  Before(batch, n, "removeView", v)
    <2>1. CASE v \in DOMAIN s.views
      BY <1>3, <2>1 DEF Accounted
    <2>2. CASE v \notin DOMAIN s.views
      BY <1>2, <2>2 DEF RunAccounted
    <2> QED
      BY <2>1, <2>2
  <1>7. ASSUME NEW r \in DOMAIN d.rels \ DOMAIN g.rels
        PROVE  \/ Before(batch, n, "removeRelationship", r)
               \/ \E k \in 1..n : Applied(batch, k).type = "removeElement"
    <2>1. CASE r \in DOMAIN s.rels
      BY <1>1, <1>3, <2>1 DEF Accounted
    <2>2. CASE r \notin DOMAIN s.rels
      BY <1>1, <1>2, <2>2 DEF RunAccounted
    <2> QED
      BY <2>1, <2>2
  <1> QED
    BY <1>4, <1>5, <1>6, <1>7 DEF RunAccounted

\* What a batch that does not throw made of d is what it was asked for.
LEMMA OutcomeAccounted ==
    ASSUME NEW d \in Graphs, NEW batch \in Seq(AnyMutation)
    PROVE  /\ Outcome(d, batch) \in RunStates
           /\ Outcome(d, batch).ok =>
                RunAccounted(d, batch, Len(ApplicationOrder(batch)), Outcome(d, batch).doc)
  <1>1. PICK f : IsRun(d, batch, f) /\ Outcome(d, batch) = f[Len(ApplicationOrder(batch))]
    BY RunSteps
  <1> DEFINE N == Len(ApplicationOrder(batch))
             T == {n \in Nat : n <= N => (f[n].ok => RunAccounted(d, batch, n, f[n].doc))}
  <1>2. N \in Nat /\ f[0].doc = d /\ \A n \in 0..N : f[n] \in RunStates
    BY <1>1, AppliedType DEF IsRun
  <1>3. 0 \in T
    <2>1. RunAccounted(d, batch, 0, d)
      BY DEF RunAccounted
    <2> QED
      BY <1>2, <2>1
  <1>4. ASSUME NEW n \in 1..N, n - 1 \in T PROVE n \in T
    <2>1. n \in Nat /\ n <= N /\ n - 1 <= N
      BY <1>2
    <2>2. ASSUME f[n].ok PROVE RunAccounted(d, batch, n, f[n].doc)
      <3>1. /\ f[n - 1].ok /\ f[n - 1].doc \in Graphs
            /\ Accounted(f[n - 1].doc, f[n].doc, Applied(batch, n))
        BY <1>1, <2>2, RunStep
      <3>2. RunAccounted(d, batch, n - 1, f[n - 1].doc)
        BY <1>4, <2>1, <3>1
      <3> QED
        BY <3>1, <3>2, RunAccountedStep
    <2> QED
      BY <2>1, <2>2
  <1>5. N \in T
    <2>1. T \in SUBSET Nat
      OBVIOUS
    <2> HIDE DEF T, N
    <2> QED
      BY <1>2, <1>3, <1>4, <2>1, CountUp
  <1> QED
    BY <1>1, <1>2, <1>5

-----------------------------------------------------------------------------
(* What a call writes.                                                     *)

LEMMA CallType ==
    ASSUME NEW call \in Calls
    PROVE  call.batch \in Seq(AnyMutation)
  BY MutationInputs

LEMMA WrittenIs ==
    ASSUME NEW d \in Graphs, NEW call \in Calls, NEW next \in Written(d, call)
    PROVE  /\ next = Outcome(d, call.batch).doc
           /\ next \in Graphs
           /\ Outcome(d, call.batch).ok
           /\ Valid(next, Outcome(d, call.batch).limit)
           /\ ~Blocked(d, next, call)
           /\ RunAccounted(d, call.batch, Len(ApplicationOrder(call.batch)), next)
  <1>1. /\ next = Outcome(d, call.batch).doc
        /\ Outcome(d, call.batch).ok
        /\ Valid(next, Outcome(d, call.batch).limit)
        /\ ~Blocked(d, next, call)
    BY DEF Written
  <1>2. /\ Outcome(d, call.batch) \in RunStates
        /\ RunAccounted(d, call.batch, Len(ApplicationOrder(call.batch)), next)
    BY <1>1, CallType, OutcomeAccounted
  <1> QED
    BY <1>1, <1>2 DEF RunStates

\* The same, said of the batch as a set.
LEMMA AskedFor ==
    ASSUME NEW d, NEW batch \in Seq(AnyMutation), NEW g,
           RunAccounted(d, batch, Len(ApplicationOrder(batch)), g)
    PROVE  /\ \A e \in DOMAIN d.elements \ DOMAIN g.elements : e \in Named(batch, "removeElement")
           /\ \A e \in DOMAIN d.elements \intersect DOMAIN g.elements :
                 \/ g.elements[e].text = d.elements[e].text
                 \/ \E m \in ToSet(batch) : m.type = "updateElement" /\ m.id = e
           /\ \A v \in DOMAIN d.views \ DOMAIN g.views : v \in Named(batch, "removeView")
           /\ \A r \in DOMAIN d.rels \ DOMAIN g.rels :
                 \/ r \in Named(batch, "removeRelationship")
                 \/ \E m \in ToSet(batch) : m.type = "removeElement"
  <1> DEFINE N == Len(ApplicationOrder(batch))
  <1>1. \A k \in 1..N : Applied(batch, k) \in ToSet(batch)
    BY AppliedType
  <1>2. \A type, id : Before(batch, N, type, id) =>
           /\ \E m \in ToSet(batch) : m.type = type /\ m.id = id
           /\ id \in Named(batch, type)
    BY <1>1 DEF Before, Named
  <1> QED
    BY <1>1, <1>2 DEF RunAccounted

LEMMA Losing ==
    ASSUME NEW d \in Graphs, NEW call \in Calls, NEW next \in Written(d, call),
           NEW x \in Objects(d) \ Objects(next)
    PROVE  \/ x \in RemovedObjects(d, next, call.batch)
           \/ x[1] = "relationship" /\ \E m \in ToSet(call.batch) : m.type = "removeElement"
  <1> DEFINE batch == call.batch
  <1>1. /\ \A e \in DOMAIN d.elements \ DOMAIN next.elements : e \in Named(batch, "removeElement")
        /\ \A v \in DOMAIN d.views \ DOMAIN next.views : v \in Named(batch, "removeView")
        /\ \A r \in DOMAIN d.rels \ DOMAIN next.rels :
              \/ r \in Named(batch, "removeRelationship")
              \/ \E m \in ToSet(batch) : m.type = "removeElement"
    BY WrittenIs, CallType, AskedFor
  <1>2. CASE \E e \in DOMAIN d.elements : x = <<"element", e>>
    <2>1. PICK e \in DOMAIN d.elements : x = <<"element", e>>
      BY <1>2
    <2>2. e \notin DOMAIN next.elements
      BY <2>1 DEF Objects
    <2> QED
      BY <1>1, <2>1, <2>2 DEF RemovedObjects
  <1>3. CASE \E v \in DOMAIN d.views : x = <<"view", v>>
    <2>1. PICK v \in DOMAIN d.views : x = <<"view", v>>
      BY <1>3
    <2>2. v \notin DOMAIN next.views
      BY <2>1 DEF Objects
    <2> QED
      BY <1>1, <2>1, <2>2 DEF RemovedObjects
  <1>4. CASE \E r \in DOMAIN d.rels : x = <<"relationship", r>>
    <2>1. PICK r \in DOMAIN d.rels : x = <<"relationship", r>>
      BY <1>4
    <2>2. r \notin DOMAIN next.rels
      BY <2>1 DEF Objects
    <2> QED
      BY <1>1, <2>1, <2>2 DEF RemovedObjects
  <1> QED
    BY <1>2, <1>3, <1>4 DEF Objects

LEMMA RecordedAlways ==
    ASSUME TypeOK
    PROVE  DeletionsRecorded
  <1> SUFFICES ASSUME NEW call \in Calls, Accepted(doc, call),
                      NEW x \in Gone(doc, call)
               PROVE  \/ x \in RemovedObjects(doc, Outcome(doc, call.batch).doc, call.batch)
                      \/ x[1] = "relationship" /\ \E m \in ToSet(call.batch) : m.type = "removeElement"
    BY DEF DeletionsRecorded
  <1>1. PICK next \in Written(doc, call) : TRUE
    BY DEF Accepted
  <1>2. doc \in Graphs
    BY DEF TypeOK
  <1>3. next = Outcome(doc, call.batch).doc
    BY <1>2, WrittenIs
  <1> QED
    BY <1>1, <1>2, <1>3, Losing DEF Gone

LEMMA KeptAlways ==
    ASSUME TypeOK
    PROVE  KeptWithoutAck
  <1> SUFFICES ASSUME NEW call \in Calls, ~call.ack, Accepted(doc, call)
               PROVE  LET next == Outcome(doc, call.batch).doc IN
                      /\ \A x \in Gone(doc, call) : x[1] = "relationship"
                      /\ \A e \in DOMAIN doc.elements :
                            <<doc.elements[e].text, next.elements[e].text>> \notin Loses
                      /\ \A m \in ToSet(call.batch) :
                            /\ m.type = "updateView" /\ m.elsPatch # Keep /\ m.elsPatch.full
                            /\ m.id \in DOMAIN doc.views
                            => doc.views[m.id].els \subseteq next.views[m.id].els
    BY DEF KeptWithoutAck
  <1> DEFINE batch == call.batch
  <1>1. PICK next \in Written(doc, call) : TRUE
    BY DEF Accepted
  <1>2. doc \in Graphs
    BY DEF TypeOK
  <1>3. /\ next = Outcome(doc, batch).doc
        /\ ~Blocked(doc, next, call)
        /\ RunAccounted(doc, batch, Len(ApplicationOrder(batch)), next)
    BY <1>2, WrittenIs
  <1>4. /\ RemovedObjects(doc, next, batch) = {}
        /\ \A m \in ToSet(batch) : ~LosesText(doc, next, m) /\ ~DropsMembers(doc, next, m)
    BY <1>3 DEF Blocked
  <1>5. \A x \in Objects(doc) \ Objects(next) : x[1] = "relationship"
    BY <1>2, <1>4, Losing
  <1>6. DOMAIN doc.elements \subseteq DOMAIN next.elements /\ DOMAIN doc.views \subseteq DOMAIN next.views
    <2>1. ASSUME NEW e \in DOMAIN doc.elements \ DOMAIN next.elements PROVE FALSE
      <3>1. <<"element", e>> \in Objects(doc) \ Objects(next)
        BY DEF Objects
      <3>2. <<"element", e>>[1] = "relationship"
        BY <1>5, <3>1
      <3> QED
        BY <3>2
    <2>2. ASSUME NEW v \in DOMAIN doc.views \ DOMAIN next.views PROVE FALSE
      <3>1. <<"view", v>> \in Objects(doc) \ Objects(next)
        BY DEF Objects
      <3>2. <<"view", v>>[1] = "relationship"
        BY <1>5, <3>1
      <3> QED
        BY <3>2
    <2> QED
      BY <2>1, <2>2
  <1>7. ASSUME NEW e \in DOMAIN doc.elements
        PROVE  <<doc.elements[e].text, next.elements[e].text>> \notin Loses
    <2>1. CASE next.elements[e].text = doc.elements[e].text
      <3>1. doc.elements[e].text \in Texts
        BY <1>2, GraphFields DEF ElementTypes
      <3> QED
        BY <2>1, <3>1, MutationConstants
    <2>2. CASE next.elements[e].text # doc.elements[e].text
      <3>1. \E m \in ToSet(batch) : m.type = "updateElement" /\ m.id = e
        <4>1. batch \in Seq(AnyMutation) /\ e \in DOMAIN doc.elements \intersect DOMAIN next.elements
          BY <1>6, CallType
        <4> HIDE DEF batch
        <4> QED
          BY <1>3, <2>2, <4>1, AskedFor
      <3>2. PICK m \in ToSet(batch) : m.type = "updateElement" /\ m.id = e
        BY <3>1
      <3> QED
        BY <1>4, <1>6, <3>2 DEF LosesText
    <2> QED
      BY <2>1, <2>2
  <1>8. ASSUME NEW m \in ToSet(batch), m.type = "updateView", m.elsPatch # Keep, m.elsPatch.full,
               m.id \in DOMAIN doc.views
        PROVE  doc.views[m.id].els \subseteq next.views[m.id].els
    <2>1. ~ExplicitRemove(m.elsPatch)
      BY <1>8 DEF ExplicitRemove
    <2> QED
      BY <1>4, <1>6, <1>8, <2>1 DEF DropsMembers
  <1> QED
    BY <1>3, <1>5, <1>7, <1>8 DEF Gone

-----------------------------------------------------------------------------
(* The size of views.                                                      *)

\* A mutation that asks for views to be checked, and one that may add elements
\* to a view without asking.
Checking(m) ==
    m.type \in {"addElement", "addView"} \/ (m.type = "updateView" /\ m.elsPatch # Keep)

Widening(m) == m.type \in {"addRelationship", "updateRelationship"}

\* A batch that does not do both.
Unmixed(batch) ==
    \/ \A m \in ToSet(batch) : ~Checking(m)
    \/ \A m \in ToSet(batch) : ~Widening(m)

LEMMA ChecksNothing ==
    ASSUME NEW d, NEW m \in AnyMutation, ~Checking(m)
    PROVE  LimitChecks(d, m) = {}
  BY MutationFields DEF Checking, LimitChecks

RunChecks(d, batch, s) ==
    /\ (\A m \in ToSet(batch) : ~Checking(m)) => s.limit = {}
    /\ (\A m \in ToSet(batch) : ~Widening(m)) =>
          \A v \in DOMAIN s.doc.views :
              v \in s.limit \/ (v \in DOMAIN d.views /\ s.doc.views[v].els \subseteq d.views[v].els)

LEMMA OutcomeChecks ==
    ASSUME NEW d \in Graphs, NEW batch \in Seq(AnyMutation), Outcome(d, batch).ok
    PROVE  RunChecks(d, batch, Outcome(d, batch))
  <1>1. PICK f : IsRun(d, batch, f) /\ Outcome(d, batch) = f[Len(ApplicationOrder(batch))]
    BY RunSteps
  <1> DEFINE N == Len(ApplicationOrder(batch))
             T == {n \in Nat : n <= N => (f[n].ok => RunChecks(d, batch, f[n]))}
  <1>2. N \in Nat /\ f[0].doc = d /\ f[0].limit = {}
    BY <1>1, AppliedType DEF IsRun
  <1>3. 0 \in T
    BY <1>2 DEF RunChecks
  <1>4. ASSUME NEW n \in 1..N, n - 1 \in T PROVE n \in T
    <2>1. n \in Nat /\ n <= N /\ n - 1 <= N
      BY <1>2
    <2>2. ASSUME f[n].ok PROVE RunChecks(d, batch, f[n])
      <3> DEFINE s == f[n - 1]
                 g == f[n]
                 m == Applied(batch, n)
      <3>1. /\ s.ok /\ m \in AnyMutation
            /\ g.limit = s.limit \union LimitChecks(s.doc, m)
            /\ Accounted(s.doc, g.doc, m)
        BY <1>1, <2>2, RunStep
      <3>2. RunChecks(d, batch, s) /\ m \in ToSet(batch)
        BY <1>4, <2>1, <3>1, AppliedType
      <3> HIDE DEF s, g, m
      <3>3. (\A x \in ToSet(batch) : ~Checking(x)) => g.limit = {}
        BY <3>1, <3>2, ChecksNothing DEF RunChecks
      <3>4. ASSUME \A x \in ToSet(batch) : ~Widening(x), NEW v \in DOMAIN g.doc.views
            PROVE  v \in g.limit \/ (v \in DOMAIN d.views /\ g.doc.views[v].els \subseteq d.views[v].els)
        <4>1. \/ v \in LimitChecks(s.doc, m)
              \/ v \in DOMAIN s.doc.views /\ g.doc.views[v].els \subseteq s.doc.views[v].els
          BY <3>1, <3>2, <3>4 DEF Accounted, Widening
        <4>2. v \in DOMAIN s.doc.views =>
                v \in s.limit \/ (v \in DOMAIN d.views /\ s.doc.views[v].els \subseteq d.views[v].els)
          BY <3>2, <3>4 DEF RunChecks
        <4> QED
          BY <3>1, <4>1, <4>2
      <3> QED
        BY <3>3, <3>4 DEF RunChecks, g
    <2> QED
      BY <2>1, <2>2
  <1>5. N \in T
    <2>1. T \in SUBSET Nat
      OBVIOUS
    <2> HIDE DEF T, N
    <2> QED
      BY <1>2, <1>3, <1>4, <2>1, CountUp
  <1> QED
    BY <1>1, <1>2, <1>5

LEMMA WrittenWithinLimit ==
    ASSUME NEW d \in Graphs, WithinLimitIn(d, DOMAIN d.views),
           NEW call \in Calls, Unmixed(call.batch), NEW next \in Written(d, call)
    PROVE  WithinLimitIn(next, DOMAIN next.views)
  <1> DEFINE out == Outcome(d, call.batch)
  <1>1. next = out.doc /\ next \in Graphs /\ out.ok /\ Valid(next, out.limit)
    BY WrittenIs
  <1>2. RunChecks(d, call.batch, out)
    BY <1>1, CallType, OutcomeChecks
  <1> HIDE DEF out
  <1>3. CASE out.limit = {}
    BY <1>1, <1>3 DEF Valid
  <1>4. CASE out.limit # {}
    <2>1. \A m \in ToSet(call.batch) : ~Widening(m)
      BY <1>2, <1>4 DEF Unmixed, RunChecks
    <2> SUFFICES ASSUME NEW v \in DOMAIN next.views
                 PROVE  Cardinality(next.views[v].els) <= Limit
      BY DEF WithinLimitIn
    <2>2. CASE v \in out.limit
      BY <1>1, <1>4, <2>2 DEF Valid, WithinLimitIn
    <2>3. CASE v \notin out.limit
      <3>1. v \in DOMAIN d.views /\ next.views[v].els \subseteq d.views[v].els
        BY <1>1, <1>2, <2>1, <2>3 DEF RunChecks
      <3>2. Cardinality(d.views[v].els) <= Limit
        BY <3>1 DEF WithinLimitIn
      <3>3. d.views[v].els \subseteq Elements
        BY <3>1, GraphFields DEF ViewTypes
      <3>4. IsFiniteSet(d.views[v].els)
        BY <3>3, MutationConstants, FS_Subset
      <3>5. /\ Cardinality(next.views[v].els) <= Cardinality(d.views[v].els)
            /\ IsFiniteSet(next.views[v].els)
        BY <3>1, <3>4, FS_Subset
      <3>6. Cardinality(next.views[v].els) \in Nat /\ Cardinality(d.views[v].els) \in Nat
        BY <3>4, <3>5, FS_CardinalityType
      <3> QED
        BY <3>2, <3>5, <3>6, MutationConstants
    <2> QED
      BY <2>2, <2>3
  <1> QED
    BY <1>3, <1>4

-----------------------------------------------------------------------------
(* The mounts.                                                             *)

\* The mutations that are still to come after the first n.
Coming(batch, n) == {Applied(batch, k) : k \in (n + 1)..Len(ApplicationOrder(batch))}

LEMMA ComingFits ==
    ASSUME NEW batch \in Seq(AnyMutation), Coherent(batch),
           NEW n \in 1..Len(ApplicationOrder(batch))
    PROVE  /\ Coming(batch, n - 1) = Coming(batch, n) \union {Applied(batch, n)}
           /\ Coming(batch, n) \in SUBSET AnyMutation
           /\ Fits(Applied(batch, n), Coming(batch, n))
  <1> DEFINE N == Len(ApplicationOrder(batch))
             m == Applied(batch, n)
  <1>1. N \in Nat /\ \A k \in 1..N : Applied(batch, k) \in AnyMutation /\ Applied(batch, k) \in ToSet(batch)
    BY AppliedType
  <1>2. (n + 1)..N \subseteq 1..N /\ ((n - 1) + 1)..N = (n + 1)..N \union {n}
    BY <1>1
  <1>3. Coming(batch, n - 1) = Coming(batch, n) \union {m}
    BY <1>2 DEF Coming
  <1>4. \A a \in Coming(batch, n) : a \in AnyMutation /\ a \in ToSet(batch)
    BY <1>1, <1>2 DEF Coming
  <1>5. ASSUME m.type = "addView", NEW a \in Coming(batch, n), a.type = "addElement", a.id = m.parent
        PROVE  FALSE
    <2>1. PICK k \in (n + 1)..N : a = Applied(batch, k)
      BY DEF Coming
    <2>2. k \in 1..N /\ n \in 1..(k - 1)
      BY <1>1, <2>1
    <2>3. Produced(a) = <<"element", m.parent>> /\ <<"element", m.parent>> \in Required(m)
      BY <1>5 DEF Produced, Required
    <2> QED
      BY <2>1, <2>2, <2>3, RequiredFirst
  <1>6. m \in ToSet(batch)
    BY <1>1
  <1> HIDE DEF m
  <1>7. Fits(m, Coming(batch, n))
    BY <1>4, <1>5, <1>6 DEF Fits, Coherent
  <1> QED
    BY <1>3, <1>4, <1>7 DEF m

LEMMA OutcomeAgrees ==
    ASSUME NEW d \in Graphs, Drifted(d) = {}, ParentsExist(d),
           NEW batch \in Seq(AnyMutation), Coherent(batch), Outcome(d, batch).ok
    PROVE  Agrees(Outcome(d, batch).doc)
  <1>1. PICK f : IsRun(d, batch, f) /\ Outcome(d, batch) = f[Len(ApplicationOrder(batch))]
    BY RunSteps
  <1> DEFINE N == Len(ApplicationOrder(batch))
             T == {n \in Nat : n <= N => (f[n].ok => InStep(f[n].doc, Coming(batch, n)))}
  <1>2. N \in Nat /\ f[0].doc = d
    BY <1>1, AppliedType DEF IsRun
  <1>3. 0 \in T
    <2>1. Coming(batch, 0) \in SUBSET AnyMutation
      BY AppliedType DEF Coming
    <2> QED
      BY <1>2, <2>1, NoDriftInStep
  <1>4. ASSUME NEW n \in 1..N, n - 1 \in T PROVE n \in T
    <2>1. n \in Nat /\ n <= N /\ n - 1 <= N
      BY <1>2
    <2>2. ASSUME f[n].ok PROVE InStep(f[n].doc, Coming(batch, n))
      <3>1. f[n - 1].ok /\ Aligned(f[n - 1].doc, f[n].doc, Applied(batch, n))
        BY <1>1, <2>2, RunStep
      <3>2. InStep(f[n - 1].doc, Coming(batch, n - 1))
        BY <1>4, <2>1, <3>1
      <3> QED
        BY <3>1, <3>2, ComingFits DEF Aligned
    <2> QED
      BY <2>1, <2>2
  <1>5. N \in T
    <2>1. T \in SUBSET Nat
      OBVIOUS
    <2> HIDE DEF T, N
    <2> QED
      BY <1>2, <1>3, <1>4, <2>1, CountUp
  <1>6. InStep(f[N].doc, Coming(batch, N))
    BY <1>1, <1>2, <1>5
  <1> QED
    BY <1>1, <1>6, InStepAgrees

-----------------------------------------------------------------------------
(* The repair.                                                             *)

LEMMA SetToSeqLists ==
    ASSUME NEW S, IsFiniteSet(S)
    PROVE  SetToSeq(S) \in Seq(S) /\ ToSet(SetToSeq(S)) = S
  <1> DEFINE n == Cardinality(S)
             s == SetToSeq(S)
  <1>1. n \in Nat /\ ExistsBijection(1..n, S)
    BY FS_CardinalityType
  <1>2. PICK f \in Bijection(1..n, S) : TRUE
    BY <1>1 DEF ExistsBijection
  <1>3. f \in [1..n -> S] /\ IsInjective(f)
    BY <1>2 DEF Bijection, Injection, IsInjective
  <1>4. s \in [1..n -> S] /\ IsInjective(s)
    BY <1>3 DEF SetToSeq
  <1> HIDE DEF s
  <1>5. s \in Injection(1..n, S)
    BY <1>4 DEF Injection
  <1>6. Cardinality(1..n) = n
    BY <1>1, FS_Interval
  <1>7. s \in Surjection(1..n, S)
    BY <1>5, <1>6, FS_Injection
  <1>8. s \in Seq(S) /\ DOMAIN s = 1..n
    BY <1>1, <1>4
  <1>9. ToSet(s) = S
    BY <1>4, <1>7, <1>8 DEF ToSet, Surjection
  <1> QED
    BY <1>8, <1>9 DEF s

\* Mutations that depend on nothing are applied as they are listed.
LEMMA ListedOrder ==
    ASSUME NEW batch \in Seq(AnyMutation), \A m \in ToSet(batch) : m.type = "updateElement"
    PROVE  ApplicationOrder(batch) = [i \in 1..Len(batch) |-> i]
  <1>1. PICK f : OrderBy(batch, f) /\ ApplicationOrder(batch) = f[Len(batch)]
    BY OrderSteps
  <1> DEFINE L == Len(batch)
             T == {n \in Nat : n <= L => f[n] = [i \in 1..n |-> i]}
  <1>2. L \in Nat /\ DOMAIN batch = 1..L
    OBVIOUS
  <1>3. f[0] = <<>> /\ \A n \in 1..L : f[n] = NextReady(batch, f[n - 1])
    BY <1>1, <1>2 DEF OrderBy
  <1>4. \A i \in 1..L : DependsOn(batch, i) = {}
    <2> SUFFICES ASSUME NEW i \in 1..L, NEW j \in DependsOn(batch, i) PROVE FALSE
      OBVIOUS
    <2>1. j \in 1..L /\ Produced(batch[j]) \in Required(batch[i])
      BY <1>2 DEF DependsOn
    <2>2. batch[i].type = "updateElement" /\ batch[j].type = "updateElement"
      BY <1>2, <2>1 DEF ToSet
    <2>3. Produced(batch[j]) = <<"nothing">> /\ Required(batch[i]) = {<<"element", batch[i].id>>}
      BY <2>2 DEF Produced, Required
    <2> QED
      BY <2>1, <2>3
  <1>5. 0 \in T
    <2>1. <<>> = [i \in 1..0 |-> i]
      OBVIOUS
    <2> QED
      BY <1>3, <2>1
  <1>6. ASSUME NEW n \in 1..L, n - 1 \in T PROVE n \in T
    <2> DEFINE p == [i \in 1..(n - 1) |-> i]
               done == ToSet(p)
               ready == {i \in DOMAIN batch \ done : DependsOn(batch, i) \subseteq done}
    <2>1. n \in Nat /\ n <= L /\ n - 1 \in Nat /\ f[n] = NextReady(batch, p)
      BY <1>2, <1>3, <1>6
    <2>2. done = 1..(n - 1)
      BY <2>1 DEF ToSet
    <2>3. NextReady(batch, p) = IF ready = {} THEN p ELSE Append(p, Min(ready))
      BY DEF NextReady
    <2> HIDE DEF done
    <2>4. ready = n..L
      BY <1>2, <1>4, <2>1, <2>2
    <2> HIDE DEF ready
    <2>5. Min(ready) = n
      <3>1. ready \in SUBSET Nat /\ ready # {} /\ n \in ready
        BY <1>2, <2>1, <2>4
      <3>2. Min(ready) \in ready /\ Min(ready) <= n
        BY <3>1, SmallestIsIn
      <3> QED
        BY <1>2, <2>1, <2>4, <3>2
    <2>6. n \in ready
      BY <1>2, <2>1, <2>4
    <2>7. p \in Seq(Nat) /\ Len(p) = n - 1
      BY <2>1
    <2>8. Append(p, n) = [i \in 1..n |-> i]
      BY <2>1, <2>7
    <2> QED
      BY <2>1, <2>3, <2>5, <2>6, <2>8
  <1>7. L \in T
    <2>1. T \in SUBSET Nat
      OBVIOUS
    <2> HIDE DEF T, L
    <2> QED
      BY <1>2, <1>5, <1>6, <2>1, CountUp
  <1> QED
    BY <1>1, <1>2, <1>7

\* The mutation that repairs what e lists.
Mending(d, e) == [type |-> "updateElement", id |-> e, text |-> Keep, subs |-> Desired(d, e)]

LEMMA RepairBatchType ==
    ASSUME NEW d \in Graphs
    PROVE  /\ RepairBatch(d) \in Seq(AnyMutation)
           /\ ToSet(RepairBatch(d)) = {Mending(d, e) : e \in Drifted(d)}
           /\ {Mending(d, e) : e \in Drifted(d)} \subseteq AnyMutation
  <1> DEFINE S == {Mending(d, e) : e \in Drifted(d)}
             f == [e \in Drifted(d) |-> Mending(d, e)]
  <1>1. Drifted(d) \subseteq Elements
    BY GraphFields DEF Drifted
  <1>2. IsFiniteSet(Drifted(d))
    BY <1>1, MutationConstants, FS_Subset
  <1>3. f \in Surjection(Drifted(d), S)
    BY DEF Surjection
  <1> HIDE DEF f
  <1>4. IsFiniteSet(S)
    BY <1>2, <1>3, FS_Surjection
  <1>5. S \subseteq AnyMutation
    <2>1. \A e \in Drifted(d) : Mending(d, e) \in AnyMutation
      <3> SUFFICES ASSUME NEW e \in Drifted(d) PROVE Mending(d, e) \in AnyMutation
        OBVIOUS
      <3>1. e \in Elements /\ Desired(d, e) \in SUBSET Views
        BY <1>1, GraphFields DEF Desired
      <3> QED
        BY <3>1 DEF Mending, AnyMutation
    <2> QED
      BY <2>1
  <1>6. RepairBatch(d) = SetToSeq(S)
    BY DEF RepairBatch, Mending
  <1> HIDE DEF S
  <1>7. SetToSeq(S) \in Seq(S) /\ ToSet(SetToSeq(S)) = S
    BY <1>4, SetToSeqLists
  <1> QED
    BY <1>5, <1>6, <1>7 DEF S

\* The elements in E list what the parents of the views say, the others what they did.
MendedFor(d, g, E) ==
    /\ g \in Graphs
    /\ g.views = d.views
    /\ DOMAIN g.elements = DOMAIN d.elements
    /\ \A e \in DOMAIN d.elements :
          g.elements[e].subs = IF e \in E THEN Desired(d, e) ELSE d.elements[e].subs

LEMMA MendOne ==
    ASSUME NEW d \in Graphs, NEW E, NEW g, MendedFor(d, g, E), NEW e \in DOMAIN d.elements,
           NEW m \in AnyMutation, m = Mending(d, e)
    PROVE  CanApply(g, m) /\ MendedFor(d, ApplyOne(g, m), E \union {e})
  <1> DEFINE subs == Desired(d, e)
             b == WithSubs(g, e, subs)
             n == Reconcile(b, e)
  <1>1. /\ m.type = "updateElement" /\ m.id = e /\ m.text = Keep /\ m.subs = subs
    BY DEF Mending
  <1>2. g \in Graphs /\ g.views = d.views /\ e \in DOMAIN g.elements /\ DOMAIN g.elements = DOMAIN d.elements
    BY DEF MendedFor
  <1>3. subs \in SUBSET Views /\ subs # Keep /\ subs = {v \in DOMAIN g.views : g.views[v].parent = e}
    <2>1. subs \in SUBSET Views
      BY GraphFields DEF Desired
    <2> QED
      BY <1>2, <2>1, MutationConstants DEF Desired
  <1>4. CanApply(g, m) /\ ApplyOne(g, m) = n
    BY <1>1, <1>2, <1>3 DEF CanApply, ApplyOne, UpdateElement, WithSubs
  <1> HIDE DEF subs
  <1>5. MountsOnly(g, b) /\ ListsNow(g, b, e, subs)
    BY <1>2, <1>3, SubsType
  <1> HIDE DEF b
  <1>6. /\ b \in Graphs /\ b.views = g.views /\ DOMAIN b.elements = DOMAIN g.elements
        /\ b.elements[e].subs = subs
        /\ \A x \in DOMAIN g.elements : x # e => b.elements[x] = g.elements[x]
    BY <1>5 DEF MountsOnly, ListsNow
  <1>7. /\ MountsOnly(b, n)
        /\ n.elements[e] = b.elements[e]
        /\ \A x \in DOMAIN b.elements : x # e =>
              n.elements[x].subs =
                 b.elements[x].subs \ {v \in subs \intersect DOMAIN b.views : b.views[v].parent = x}
        /\ \A v \in DOMAIN b.views :
              n.views[v].parent = IF v \in subs THEN e
                                  ELSE IF b.views[v].parent = e THEN NoParent
                                  ELSE b.views[v].parent
    BY <1>2, <1>6, ReconcileType
  <1> HIDE DEF n
  <1>8. /\ n \in Graphs /\ DOMAIN n.elements = DOMAIN d.elements
        /\ DOMAIN n.views = DOMAIN b.views
        /\ \A v \in DOMAIN b.views :
              n.views[v].els = b.views[v].els /\ n.views[v].rels = b.views[v].rels
    BY <1>2, <1>6, <1>7 DEF MountsOnly
  <1>9. \A v \in DOMAIN b.views : n.views[v].parent = b.views[v].parent
    BY <1>3, <1>6, <1>7
  <1>10. n.views = b.views
    <2>1. \A v \in DOMAIN b.views : n.views[v] = b.views[v]
      <3> SUFFICES ASSUME NEW v \in DOMAIN b.views PROVE n.views[v] = b.views[v]
        OBVIOUS
      <3>1. n.views[v] \in ViewTypes /\ b.views[v] \in ViewTypes
        BY <1>6, <1>8, GraphFields
      <3> QED
        BY <1>8, <1>9, <3>1 DEF ViewTypes
    <2>2. /\ n.views = [v \in DOMAIN n.views |-> n.views[v]]
          /\ b.views = [v \in DOMAIN b.views |-> b.views[v]]
      BY <1>6, <1>8, GraphFields, PartialType
    <2> QED
      BY <1>8, <2>1, <2>2
  <1>11. ASSUME NEW x \in DOMAIN d.elements, x # e
         PROVE  n.elements[x].subs = g.elements[x].subs
    <2>1. {v \in subs \intersect DOMAIN b.views : b.views[v].parent = x} = {}
      BY <1>3, <1>6, <1>11
    <2>2. n.elements[x].subs = b.elements[x].subs \ {}
      BY <1>2, <1>6, <1>7, <1>11, <2>1
    <2>3. b.elements[x] = g.elements[x]
      BY <1>2, <1>6, <1>11
    <2> QED
      BY <2>2, <2>3
  <1>12. \A x \in DOMAIN d.elements :
            n.elements[x].subs = IF x \in E \union {e} THEN Desired(d, x) ELSE d.elements[x].subs
    <2> SUFFICES ASSUME NEW x \in DOMAIN d.elements
                 PROVE  n.elements[x].subs = IF x \in E \union {e} THEN Desired(d, x) ELSE d.elements[x].subs
      OBVIOUS
    <2>1. CASE x = e
      BY <1>6, <1>7, <2>1 DEF subs
    <2>2. CASE x # e
      BY <1>11, <2>2 DEF MendedFor
    <2> QED
      BY <2>1, <2>2
  <1>13. MendedFor(d, n, E \union {e})
    BY <1>2, <1>6, <1>8, <1>10, <1>12 DEF MendedFor
  <1> QED
    BY <1>4, <1>13

LEMMA RepairMendsAll ==
    ASSUME NEW d \in Graphs
    PROVE  MendedFor(d, Repaired(d), DOMAIN d.elements)
  <1> DEFINE batch == RepairBatch(d)
             L == Len(batch)
             order == ApplicationOrder(batch)
             Mended(n) == {batch[k].id : k \in 1..n}
  <1>1. /\ batch \in Seq(AnyMutation)
        /\ ToSet(batch) = {Mending(d, e) : e \in Drifted(d)}
    BY RepairBatchType
  <1>2. Repaired(d) = Outcome(d, batch).doc
    BY DEF Repaired
  <1> HIDE DEF batch
  <1>3. \A m \in ToSet(batch) : m.type = "updateElement"
    BY <1>1 DEF Mending
  <1>4. order = [i \in 1..L |-> i]
    BY <1>1, <1>3, ListedOrder
  <1>5. L \in Nat /\ Len(order) = L /\ DOMAIN batch = 1..L
    BY <1>1, <1>4
  <1>6. PICK f : IsRun(d, batch, f) /\ Outcome(d, batch) = f[L]
    BY <1>1, <1>5, RunSteps
  <1>7. /\ f[0].doc = d /\ f[0].ok
        /\ \A n \in 1..L : f[n] = ApplyNext(f[n - 1], batch[n])
    BY <1>4, <1>5, <1>6 DEF IsRun
  <1> DEFINE T == {n \in Nat : n <= L => f[n].ok /\ MendedFor(d, f[n].doc, Mended(n))}
  <1>8. 0 \in T
    <2>1. MendedFor(d, d, {})
      BY DEF MendedFor
    <2>2. Mended(0) = {}
      OBVIOUS
    <2> QED
      BY <1>7, <2>1, <2>2
  <1>9. ASSUME NEW n \in 1..L, n - 1 \in T PROVE n \in T
    <2> DEFINE s == f[n - 1]
               m == batch[n]
    <2>1. n \in Nat /\ n <= L /\ n - 1 <= L
      BY <1>5
    <2>2. s.ok /\ MendedFor(d, s.doc, Mended(n - 1))
      BY <1>9, <2>1
    <2>3. m \in ToSet(batch) /\ m \in AnyMutation
      BY <1>1, <1>5 DEF ToSet
    <2>4. PICK e \in Drifted(d) : m = Mending(d, e)
      BY <1>1, <2>3
    <2>5. e \in DOMAIN d.elements /\ m.id = e
      BY <2>4 DEF Drifted, Mending
    <2>6. Mended(n) = Mended(n - 1) \union {e}
      <3>1. 1..n = 1..(n - 1) \union {n}
        BY <2>1
      <3> QED
        BY <2>5, <3>1
    <2>7. f[n] = ApplyNext(s, m)
      BY <1>7
    <2> HIDE DEF s, m, Mended
    <2>8. CanApply(s.doc, m) /\ MendedFor(d, ApplyOne(s.doc, m), Mended(n - 1) \union {e})
      BY <2>2, <2>3, <2>4, <2>5, MendOne
    <2>9. f[n].ok /\ f[n].doc = ApplyOne(s.doc, m)
      BY <2>2, <2>7, <2>8 DEF ApplyNext
    <2> QED
      BY <2>1, <2>6, <2>8, <2>9
  <1>10. L \in T
    <2>1. T \in SUBSET Nat
      OBVIOUS
    <2> HIDE DEF T, L
    <2> QED
      BY <1>5, <1>8, <1>9, <2>1, CountUp
  <1>11. MendedFor(d, f[L].doc, Mended(L))
    BY <1>5, <1>10
  <1>12. ASSUME NEW e \in DOMAIN d.elements, e \notin Mended(L)
         PROVE  d.elements[e].subs = Desired(d, e)
    <2> SUFFICES ASSUME e \in Drifted(d) PROVE FALSE
      BY DEF Drifted
    <2>1. Mending(d, e) \in ToSet(batch)
      BY <1>1
    <2>2. PICK k \in 1..L : Mending(d, e) = batch[k]
      BY <1>5, <2>1 DEF ToSet
    <2>3. batch[k].id = e
      BY <2>2 DEF Mending
    <2> QED
      BY <1>12, <2>3
  <1> HIDE DEF Mended, L
  <1> QED
    BY <1>2, <1>6, <1>11, <1>12 DEF MendedFor

-----------------------------------------------------------------------------
(* The order of a batch makes no difference: what a set M of mutations     *)
(* that do not clash makes of a graph d, whatever order they were applied  *)
(* in, is said field by field.                                             *)

\* To add what is there already takes nothing.
Takes(d, m) ==
    /\ m.type = "addElement" => m.id \notin DOMAIN d.elements
    /\ m.type = "addView" => m.id \notin DOMAIN d.views

HangsAt(d, M, v, p) == \E m \in M : Takes(d, m) /\ <<v, p>> \in Mounts(m)

Hung(d, M, v) == \E p \in Elements \union {NoParent} : HangsAt(d, M, v, p)

Has(M, type, id) == \E m \in M : m.type = type /\ m.id = id

Relisted(M, e) == \E m \in M : Relists(m) /\ m.id = e

\* A view hangs where a mutation hangs it, or where it did, unless the element
\* there has a list without it.
ParentIs(d, M, v, p) ==
    \/ HangsAt(d, M, v, p)
    \/ /\ ~Hung(d, M, v)
       /\ v \in DOMAIN d.views
       /\ p = IF Relisted(M, d.views[v].parent) THEN NoParent ELSE d.views[v].parent

\* An element no longer lists the view that is taken from it.
Leaves(d, M, e, v) ==
    /\ v \in DOMAIN d.views
    /\ d.views[v].parent = e
    /\ Has(M, "removeView", v) \/ ~ParentIs(d, M, v, e)

ListsView(d, M, e, v) ==
    IF Relisted(M, e) THEN \E m \in M : Relists(m) /\ m.id = e /\ v \in m.subs
    ELSE \/ HangsAt(d, M, v, e)
         \/ Has(M, "updateView", v) /\ ParentIs(d, M, v, e)
         \/ e \in DOMAIN d.elements /\ v \in d.elements[e].subs /\ ~Leaves(d, M, e, v)

Retold(M, e) == \E m \in M : m.type = "updateElement" /\ m.id = e /\ m.text # Keep

TextIs(d, M, e, t) ==
    \/ \E m \in M : m.type = "updateElement" /\ m.id = e /\ m.text # Keep /\ t = m.text
    \/ /\ ~Retold(M, e)
       /\ IF e \in DOMAIN d.elements THEN t = d.elements[e].text
          ELSE \E m \in M : m.type = "addElement" /\ m.id = e /\ t = m.text

EndsAre(d, M, r, x) ==
    IF r \in DOMAIN d.rels THEN x = d.rels[r]
    ELSE \E m \in M : m.type = "addRelationship" /\ m.id = r /\ x = [src |-> m.src, tgt |-> m.tgt]

\* The elements and the relationships that a mutation adds to the views it joins.
BroughtEls(m) == IF m.type = "addElement" THEN {m.id} ELSE {m.src, m.tgt}
BroughtRels(m) == IF m.type = "addElement" THEN {} ELSE {m.id}

FirstEls(d, M, v) ==
    IF v \in DOMAIN d.views THEN d.views[v].els
    ELSE UNION {m.els : m \in {x \in M : x.type = "addView" /\ x.id = v}}
FirstRels(d, M, v) ==
    IF v \in DOMAIN d.views THEN d.views[v].rels
    ELSE UNION {m.rels : m \in {x \in M : x.type = "addView" /\ x.id = v}}

ShowsEl(d, M, v, e) ==
    \/ \E m \in M : v \in Joins(m) /\ e \in BroughtEls(m)
    \/ \E m \in M : m.type = "updateView" /\ m.id = v /\ e \in Patched(FirstEls(d, M, v), m.elsPatch)
    \/ ~Has(M, "updateView", v) /\ e \in FirstEls(d, M, v)
ShowsRel(d, M, v, r) ==
    \/ \E m \in M : v \in Joins(m) /\ r \in BroughtRels(m)
    \/ \E m \in M : m.type = "updateView" /\ m.id = v /\ r \in Patched(FirstRels(d, M, v), m.relsPatch)
    \/ ~Has(M, "updateView", v) /\ r \in FirstRels(d, M, v)

ObjectsAre(d, M, g) ==
    /\ \A e \in Elements : e \in DOMAIN g.elements <=> (e \in DOMAIN d.elements \/ Has(M, "addElement", e))
    /\ \A r \in Relationships : r \in DOMAIN g.rels <=> (r \in DOMAIN d.rels \/ Has(M, "addRelationship", r))
    /\ \A v \in Views :
          v \in DOMAIN g.views <=>
             (v \in DOMAIN d.views \/ Has(M, "addView", v)) /\ ~Has(M, "removeView", v)

MountsAre(d, M, g) ==
    /\ \A e \in DOMAIN g.elements, v \in Views : v \in g.elements[e].subs <=> ListsView(d, M, e, v)
    /\ \A v \in DOMAIN g.views : ParentIs(d, M, v, g.views[v].parent)

ContentsAre(d, M, g) ==
    /\ \A e \in DOMAIN g.elements : TextIs(d, M, e, g.elements[e].text)
    /\ \A r \in DOMAIN g.rels : EndsAre(d, M, r, g.rels[r])

MembersAre(d, M, g) ==
    \A v \in DOMAIN g.views :
        /\ \A e \in Elements : e \in g.views[v].els <=> ShowsEl(d, M, v, e)
        /\ \A r \in Relationships : r \in g.views[v].rels <=> ShowsRel(d, M, v, r)

IsEffect(d, M, g) ==
    ObjectsAre(d, M, g) /\ MountsAre(d, M, g) /\ ContentsAre(d, M, g) /\ MembersAre(d, M, g)

\* A set of mutations of which no two clash, a part of it that has been applied,
\* and the graph that it was applied to and has become.
Peaceful(d, B) ==
    /\ B \in SUBSET AnyMutation
    /\ \A m \in B : m.type \in {"addElement", "updateElement", "addRelationship",
                                "addView", "updateView", "removeView"}
    /\ \A m \in B, a \in B : m # a => ~Clash(d, m, a)

Reached(d, B, M, g) ==
    /\ d \in Graphs /\ ParentsExist(d) /\ Peaceful(d, B)
    /\ M \in SUBSET B
    /\ \A x \in M, y \in B : Produced(y) \in Required(x) => y \in M
    /\ g \in Graphs /\ IsEffect(d, M, g)

\* m comes next.
ComesNext(B, M, m) ==
    /\ m \in B \ M
    /\ \A y \in B : Produced(y) \in Required(m) => y \in M

-----------------------------------------------------------------------------
(* What it means that mutations do not clash.                              *)

\* What Mounts says, kind by kind.
LEMMA MountsAt ==
    ASSUME NEW m \in AnyMutation, NEW v, NEW p
    PROVE  <<v, p>> \in Mounts(m) <=>
              \/ m.type = "addElement" /\ v \in m.subs /\ p = m.id
              \/ Relists(m) /\ v \in m.subs /\ p = m.id
              \/ m.type = "addView" /\ v = m.id /\ p = m.parent
              \/ m.type = "updateView" /\ m.parent # Keep /\ v = m.id /\ p = m.parent
  <1>1. CASE m.type = "addElement"
    BY <1>1 DEF Mounts, Relists
  <1>2. CASE m.type = "updateElement"
    BY <1>2 DEF Mounts, Relists
  <1>3. CASE m.type = "addView"
    BY <1>3 DEF Mounts, Relists
  <1>4. CASE m.type = "updateView"
    BY <1>4 DEF Mounts, Relists
  <1>5. CASE m.type \notin {"addElement", "updateElement", "addView", "updateView"}
    BY <1>5 DEF Mounts, Relists
  <1> QED
    BY <1>1, <1>2, <1>3, <1>4, <1>5

LEMMA MountsType ==
    ASSUME NEW m \in AnyMutation, NEW v, NEW p, <<v, p>> \in Mounts(m)
    PROVE  v \in Views /\ p \in Elements \union {NoParent}
  <1>1. CASE m.type = "addElement" /\ v \in m.subs /\ p = m.id
    BY <1>1, MutationFields
  <1>2. CASE Relists(m) /\ v \in m.subs /\ p = m.id
    BY <1>2, MutationFields DEF Relists
  <1>3. CASE m.type = "addView" /\ v = m.id /\ p = m.parent
    BY <1>3, MutationFields
  <1>4. CASE m.type = "updateView" /\ m.parent # Keep /\ v = m.id /\ p = m.parent
    BY <1>4, MutationFields
  <1> QED
    BY <1>1, <1>2, <1>3, <1>4, MountsAt

\* What it means for two mutations not to clash.
LEMMA Apart ==
    ASSUME NEW d, NEW m \in AnyMutation, NEW a \in AnyMutation, ~Clash(d, m, a)
    PROVE  /\ m.type = a.type => m.id # a.id
           /\ \A v, p, q : <<v, p>> \in Mounts(m) /\ <<v, q>> \in Mounts(a) => p = q
           /\ \A v : Relists(m) /\ <<v, m.id>> \in Mounts(a) => v \in m.subs
           /\ \A v : m.type = "addElement" /\ a.type = "updateView" /\ <<v, m.id>> \in Mounts(a)
                        => v \in m.subs
           /\ Relists(m) /\ a.type = "addView" => a.id \notin DOMAIN d.views
           /\ RewritesMembers(m) => m.id \notin Joins(a)
           /\ m.type = "removeView" =>
                 /\ m.id \notin Joins(a)
                 /\ \A p : <<m.id, p>> \notin Mounts(a)
                 /\ ~(a.type = "updateView" /\ a.id = m.id)
  <1>1. \A v, p, q : <<v, p>> \in Mounts(m) /\ <<v, q>> \in Mounts(a) => p = q
    <2> SUFFICES ASSUME NEW v, NEW p, NEW q, <<v, p>> \in Mounts(m), <<v, q>> \in Mounts(a) PROVE p = q
      OBVIOUS
    <2>1. \A x \in Mounts(m), y \in Mounts(a) : x[1] = y[1] => x = y
      BY DEF Clash
    <2>2. <<v, p>> = <<v, q>>
      BY <2>1
    <2> QED
      BY <2>2
  <1>2. \A v : Relists(m) \/ (m.type = "addElement" /\ a.type = "updateView") =>
                 (<<v, m.id>> \in Mounts(a) => v \in m.subs)
    <2> SUFFICES ASSUME NEW v, Relists(m) \/ (m.type = "addElement" /\ a.type = "updateView"),
                        <<v, m.id>> \in Mounts(a)
                 PROVE  v \in m.subs
      OBVIOUS
    <2>1. \A x \in Mounts(a) : x[2] = m.id => x[1] \in m.subs
      BY DEF Clash
    <2>2. <<v, m.id>>[2] = m.id /\ <<v, m.id>>[1] = v
      OBVIOUS
    <2> QED
      BY <2>1, <2>2
  <1>3. m.type = "removeView" => \A p : <<m.id, p>> \notin Mounts(a)
    <2> SUFFICES ASSUME m.type = "removeView", NEW p, <<m.id, p>> \in Mounts(a) PROVE FALSE
      OBVIOUS
    <2>1. \A x \in Mounts(a) : x[1] # m.id
      BY DEF Clash
    <2>2. <<m.id, p>>[1] = m.id
      OBVIOUS
    <2> QED
      BY <2>1, <2>2
  <1> QED
    BY <1>1, <1>2, <1>3 DEF Clash

\* The same of a set of mutations.
LEMMA PeacefulApart ==
    ASSUME NEW d, NEW B, Peaceful(d, B)
    PROVE  /\ \A m \in B : m \in AnyMutation
           /\ \A m \in B : m.type \in {"addElement", "updateElement", "addRelationship",
                                       "addView", "updateView", "removeView"}
           /\ \A m, a \in B : m.type = a.type /\ m.id = a.id => m = a
           /\ \A m, a \in B : \A v, p, q : <<v, p>> \in Mounts(m) /\ <<v, q>> \in Mounts(a) => p = q
           /\ \A m, a \in B : \A v : Relists(m) /\ <<v, m.id>> \in Mounts(a) => v \in m.subs
           /\ \A m, a \in B : \A v :
                 m.type = "addElement" /\ a.type = "updateView" /\ <<v, m.id>> \in Mounts(a)
                    => v \in m.subs
           /\ \A m, a \in B : Relists(m) /\ a.type = "addView" => a.id \notin DOMAIN d.views
           /\ \A m, a \in B : RewritesMembers(m) => m.id \notin Joins(a)
           /\ \A m, a \in B : m.type = "removeView" =>
                 /\ m.id \notin Joins(a)
                 /\ \A p : <<m.id, p>> \notin Mounts(a)
                 /\ ~(a.type = "updateView" /\ a.id = m.id)
  <1>1. B \in SUBSET AnyMutation
    BY DEF Peaceful
  <1>2. \A m \in B : \A v, p, q : <<v, p>> \in Mounts(m) /\ <<v, q>> \in Mounts(m) => p = q
    BY <1>1, MountsAt DEF Relists
  <1>3. \A m \in B : \A v : Relists(m) /\ <<v, m.id>> \in Mounts(m) => v \in m.subs
    BY <1>1, MountsAt DEF Relists
  <1>4. \A m \in B : m.type \in {"updateView", "removeView"} =>
           /\ m.id \notin Joins(m)
           /\ m.type = "removeView" => \A p : <<m.id, p>> \notin Mounts(m)
    BY <1>1, MountsAt DEF Joins, Relists
  <1>5. \A m, a \in B : m # a => ~Clash(d, m, a)
    BY DEF Peaceful
  <1>6. \A m \in B : m.type \in {"addElement", "updateElement", "addRelationship",
                                 "addView", "updateView", "removeView"}
    BY DEF Peaceful
  <1>7. \A m, a \in B : m.type = a.type /\ m.id = a.id => m = a
    BY <1>1, <1>5, Apart
  <1>8. \A m, a \in B : \A v, p, q : <<v, p>> \in Mounts(m) /\ <<v, q>> \in Mounts(a) => p = q
    <2> TAKE m, a \in B
    <2> QED
      BY <1>1, <1>2, <1>5, Apart
  <1>9. \A m, a \in B : \A v : Relists(m) /\ <<v, m.id>> \in Mounts(a) => v \in m.subs
    <2> TAKE m, a \in B
    <2> QED
      BY <1>1, <1>3, <1>5, Apart
  <1>10. \A m, a \in B : \A v :
            m.type = "addElement" /\ a.type = "updateView" /\ <<v, m.id>> \in Mounts(a) => v \in m.subs
    <2> TAKE m, a \in B
    <2> QED
      BY <1>1, <1>5, Apart
  <1>11. \A m, a \in B : Relists(m) /\ a.type = "addView" => a.id \notin DOMAIN d.views
    <2> TAKE m, a \in B
    <2> QED
      BY <1>1, <1>5, Apart DEF Relists
  <1>12. \A m, a \in B : RewritesMembers(m) => m.id \notin Joins(a)
    <2> TAKE m, a \in B
    <2> QED
      BY <1>1, <1>4, <1>5, Apart DEF RewritesMembers
  <1>13. \A m, a \in B : m.type = "removeView" =>
                 /\ m.id \notin Joins(a)
                 /\ \A p : <<m.id, p>> \notin Mounts(a)
                 /\ ~(a.type = "updateView" /\ a.id = m.id)
    <2> TAKE m, a \in B
    <2> QED
      BY <1>1, <1>4, <1>5, Apart
  <1> QED
    BY <1>1, <1>6, <1>7, <1>8, <1>9, <1>10, <1>11, <1>12, <1>13

LEMMA HangsType ==
    ASSUME NEW d, NEW B, Peaceful(d, B), NEW M \in SUBSET B, NEW v, NEW p, HangsAt(d, M, v, p)
    PROVE  v \in Views /\ p \in Elements \union {NoParent} /\ Hung(d, M, v)
  BY PeacefulApart, MountsType DEF HangsAt, Hung

LEMMA HangsOnce ==
    ASSUME NEW d, NEW B, Peaceful(d, B), NEW M \in SUBSET B, NEW v, NEW p, NEW q,
           HangsAt(d, M, v, p), HangsAt(d, M, v, q)
    PROVE  p = q
  BY PeacefulApart DEF HangsAt

LEMMA OneParent ==
    ASSUME NEW d, NEW B, Peaceful(d, B), NEW M \in SUBSET B, NEW v, NEW p, NEW q,
           ParentIs(d, M, v, p), ParentIs(d, M, v, q)
    PROVE  p = q
  <1>1. CASE Hung(d, M, v)
    BY <1>1, HangsOnce DEF ParentIs
  <1>2. CASE ~Hung(d, M, v)
    BY <1>2, HangsType DEF ParentIs
  <1> QED
    BY <1>1, <1>2

-----------------------------------------------------------------------------
(* Where views hang after one more mutation.                               *)

LEMMA HangsAfter ==
    ASSUME NEW d, NEW M, NEW m, NEW v, NEW p
    PROVE  HangsAt(d, M \union {m}, v, p) <=>
              HangsAt(d, M, v, p) \/ (Takes(d, m) /\ <<v, p>> \in Mounts(m))
  BY DEF HangsAt

LEMMA HungAfter ==
    ASSUME NEW d, NEW M, NEW m, NEW v,
           \A p : ~(Takes(d, m) /\ <<v, p>> \in Mounts(m))
    PROVE  Hung(d, M \union {m}, v) <=> Hung(d, M, v)
  BY HangsAfter DEF Hung

LEMMA RelistedAfter ==
    ASSUME NEW M, NEW m, NEW e
    PROVE  Relisted(M \union {m}, e) <=> Relisted(M, e) \/ (Relists(m) /\ m.id = e)
  BY DEF Relisted

LEMMA HasAfter ==
    ASSUME NEW M, NEW m, NEW type, NEW id
    PROVE  Has(M \union {m}, type, id) <=> Has(M, type, id) \/ (m.type = type /\ m.id = id)
  BY DEF Has

\* m hangs v at p.
LEMMA NewParent ==
    ASSUME NEW d, NEW M, NEW m, NEW v, NEW p, Takes(d, m), <<v, p>> \in Mounts(m)
    PROVE  ParentIs(d, M \union {m}, v, p)
  BY HangsAfter DEF ParentIs

\* m does not hang v.
LEMMA SameParent ==
    ASSUME NEW d, NEW M, NEW m, NEW v, NEW p,
           \A q : ~(Takes(d, m) /\ <<v, q>> \in Mounts(m)),
           Relists(m) => Hung(d, M, v) \/ v \notin DOMAIN d.views \/ d.views[v].parent # m.id
    PROVE  ParentIs(d, M \union {m}, v, p) <=> ParentIs(d, M, v, p)
  <1>1. HangsAt(d, M \union {m}, v, p) <=> HangsAt(d, M, v, p)
    BY HangsAfter
  <1>2. Hung(d, M \union {m}, v) <=> Hung(d, M, v)
    BY HungAfter
  <1>3. ~Hung(d, M, v) /\ v \in DOMAIN d.views =>
           (Relisted(M \union {m}, d.views[v].parent) <=> Relisted(M, d.views[v].parent))
    BY RelistedAfter
  <1> QED
    BY <1>1, <1>2, <1>3 DEF ParentIs

\* The element that m hangs v at lists it.
LEMMA NewListing ==
    ASSUME NEW d, NEW B, Peaceful(d, B), NEW M \in SUBSET B, NEW m \in B,
           NEW v, NEW p, Takes(d, m), <<v, p>> \in Mounts(m)
    PROVE  ListsView(d, M \union {m}, p, v)
  <1>1. HangsAt(d, M \union {m}, v, p)
    BY HangsAfter
  <1>2. ASSUME NEW a \in M \union {m}, Relists(a), a.id = p PROVE v \in a.subs
    BY <1>2, PeacefulApart
  <1> QED
    BY <1>1, <1>2 DEF ListsView, Relisted

\* An element that does not get v from m lists it as before, unless it had it.
LEMMA OtherListing ==
    ASSUME NEW d, NEW B, NEW M, NEW g, Reached(d, B, M, g), NEW m, ComesNext(B, M, m),
           NEW v, NEW p, Takes(d, m), <<v, p>> \in Mounts(m),
           NEW e \in DOMAIN g.elements, e # p
    PROVE  ListsView(d, M \union {m}, e, v) <=>
              /\ v \in g.elements[e].subs
              /\ ~(v \in DOMAIN g.views /\ g.views[v].parent = e)
  <1> DEFINE N == M \union {m}
  <1>1. /\ Peaceful(d, B) /\ M \in SUBSET B /\ N \in SUBSET B /\ m \in B /\ m \in AnyMutation
        /\ d \in Graphs /\ g \in Graphs /\ MountsAre(d, M, g) /\ ObjectsAre(d, M, g)
    BY PeacefulApart DEF Reached, ComesNext, IsEffect
  <1>2. v \in Views /\ e \in Elements /\ e # NoParent /\ v \in Views
    BY <1>1, MountsType, GraphFields, MutationConstants
  <1>3. v \in g.elements[e].subs <=> ListsView(d, M, e, v)
    BY <1>1, <1>2 DEF MountsAre
  <1>4. HangsAt(d, N, v, p) /\ ParentIs(d, N, v, p) /\ Hung(d, N, v)
    BY <1>1, HangsAfter, NewParent, HangsType
  <1>5. ~HangsAt(d, N, v, e) /\ ~ParentIs(d, N, v, e) /\ ~HangsAt(d, M, v, e)
    BY <1>1, <1>4, HangsOnce, OneParent, HangsAfter
  <1>6. ~Has(N, "removeView", v) /\ ~Has(M, "removeView", v)
    BY <1>1, PeacefulApart DEF Has
  <1>7. v \in DOMAIN d.views => v \in DOMAIN g.views
    BY <1>1, <1>2, <1>6 DEF ObjectsAre
  <1>8. v \in DOMAIN g.views => ParentIs(d, M, v, g.views[v].parent)
    BY <1>1 DEF MountsAre
  <1>9. ~(Relists(m) /\ m.id = e)
    BY <1>1, MountsAt DEF Relists
  <1>10. CASE Relisted(M, e)
    <2>1. PICK a \in M : Relists(a) /\ a.id = e
      BY <1>10 DEF Relisted
    <2>2. \A b \in N : Relists(b) /\ b.id = e => v \notin b.subs
      <3> SUFFICES ASSUME NEW b \in N, Relists(b), b.id = e, v \in b.subs PROVE FALSE
        OBVIOUS
      <3>1. <<v, e>> \in Mounts(b) /\ b \in B
        BY <1>1, MountsAt, PeacefulApart
      <3> QED
        BY <1>1, <3>1, PeacefulApart
    <2>3. Relisted(N, e)
      BY <1>10, RelistedAfter
    <2>4. ~ListsView(d, N, e, v) /\ ~ListsView(d, M, e, v)
      BY <1>10, <2>2, <2>3 DEF ListsView
    <2> QED
      BY <1>3, <2>4
  <1>11. CASE ~Relisted(M, e)
    <2>1. ~Relisted(N, e)
      BY <1>9, <1>11, RelistedAfter
    <2> DEFINE old == e \in DOMAIN d.elements /\ v \in d.elements[e].subs
               had == v \in DOMAIN d.views /\ d.views[v].parent = e
    <2>2. ListsView(d, N, e, v) <=> old /\ ~had
      BY <1>5, <2>1 DEF ListsView, Leaves
    <2>3. ListsView(d, M, e, v) <=>
             \/ Has(M, "updateView", v) /\ ParentIs(d, M, v, e)
             \/ old /\ ~(had /\ ~ParentIs(d, M, v, e))
      BY <1>5, <1>6, <1>11 DEF ListsView, Leaves
    <2>4. ParentIs(d, M, v, e) => had /\ v \in DOMAIN g.views /\ g.views[v].parent = e
      <3>1. ASSUME ParentIs(d, M, v, e) PROVE had
        BY <1>2, <1>5, <3>1 DEF ParentIs
      <3> QED
        BY <1>1, <1>7, <1>8, <3>1, OneParent
    <2>5. v \in DOMAIN g.views /\ g.views[v].parent = e => ParentIs(d, M, v, e)
      BY <1>8
    <2>6. had => (ListsView(d, M, e, v) => ParentIs(d, M, v, e))
      BY <2>3
    <2> QED
      BY <1>3, <2>2, <2>3, <2>4, <2>5, <2>6
  <1> QED
    BY <1>10, <1>11

\* Listings that m leaves alone.
LEMMA SameListing ==
    ASSUME NEW d, NEW B, NEW M, NEW g, Reached(d, B, M, g), NEW m, ComesNext(B, M, m),
           NEW v, NEW e \in DOMAIN g.elements,
           \A p : ~(Takes(d, m) /\ <<v, p>> \in Mounts(m)),
           ~(m.type \in {"updateView", "removeView"} /\ m.id = v),
           ~(Relists(m) /\ m.id = e)
    PROVE  ListsView(d, M \union {m}, e, v) <=> ListsView(d, M, e, v)
  <1> DEFINE N == M \union {m}
  <1>1. e \in Elements /\ e # NoParent
    BY GraphFields, MutationConstants DEF Reached
  <1>2. HangsAt(d, N, v, e) <=> HangsAt(d, M, v, e)
    BY HangsAfter
  <1>3. Relisted(N, e) <=> Relisted(M, e)
    BY RelistedAfter
  <1>4. ParentIs(d, N, v, e) <=> ParentIs(d, M, v, e)
    <2>1. Hung(d, N, v) <=> Hung(d, M, v)
      BY HungAfter
    <2>2. CASE Hung(d, M, v)
      BY <1>2, <2>1, <2>2 DEF ParentIs
    <2>3. CASE ~Hung(d, M, v) /\ v \in DOMAIN d.views
      <3>1. CASE d.views[v].parent = e
        BY <1>1, <1>2, <1>3, <2>1, <2>3, <3>1 DEF ParentIs
      <3>2. CASE d.views[v].parent # e
        BY <1>1, <1>2, <2>1, <2>3, <3>2 DEF ParentIs
      <3> QED
        BY <3>1, <3>2
    <2>4. CASE v \notin DOMAIN d.views
      BY <1>2, <2>4 DEF ParentIs
    <2> QED
      BY <2>2, <2>3, <2>4
  <1>5. Has(N, "updateView", v) <=> Has(M, "updateView", v)
    BY HasAfter
  <1>6. Has(N, "removeView", v) <=> Has(M, "removeView", v)
    BY HasAfter
  <1>7. Leaves(d, N, e, v) <=> Leaves(d, M, e, v)
    BY <1>4, <1>6 DEF Leaves
  <1>8. (\E a \in N : Relists(a) /\ a.id = e /\ v \in a.subs)
          <=> \E a \in M : Relists(a) /\ a.id = e /\ v \in a.subs
    OBVIOUS
  <1> QED
    BY <1>2, <1>3, <1>4, <1>5, <1>7, <1>8 DEF ListsView

-----------------------------------------------------------------------------
(* What each mutation makes of a graph, field by field.                    *)

\* The views of scope show E and R too.
Joined(vs, n, scope, E, R) ==
    /\ SameMounts(vs, n)
    /\ \A v \in DOMAIN vs :
          /\ n[v].els = IF v \in scope THEN vs[v].els \union E ELSE vs[v].els
          /\ n[v].rels = IF v \in scope THEN vs[v].rels \union R ELSE vs[v].rels

LEMMA IncludeJoins ==
    ASSUME NEW vs \in Partial(Views, ViewTypes), NEW scope,
           NEW els \in SUBSET Elements, NEW rels \in SUBSET Relationships
    PROVE  Joined(vs, Include(vs, scope, els, rels), scope, els, rels)
  <1>1. \A v \in DOMAIN vs : vs[v] \in ViewTypes
    BY PartialType
  <1>2. SameMounts(vs, Include(vs, scope, els, rels))
    BY IncludeType
  <1>3. ASSUME NEW v \in DOMAIN vs
        PROVE  /\ Include(vs, scope, els, rels)[v].els = IF v \in scope THEN vs[v].els \union els ELSE vs[v].els
               /\ Include(vs, scope, els, rels)[v].rels = IF v \in scope THEN vs[v].rels \union rels ELSE vs[v].rels
    <2>1. vs[v] \in ViewTypes
      BY <1>1
    <2>2. CASE v \in scope
      BY <2>1, <2>2 DEF Include, ViewTypes
    <2>3. CASE v \notin scope
      BY <2>3 DEF Include
    <2> QED
      BY <2>2, <2>3
  <1> QED
    BY <1>2, <1>3 DEF Joined

\* e has just got its list: it takes the views on it from where they were.
Pointed(g, n, e, S) ==
    /\ n.elements[e].subs = S
    /\ \A x \in DOMAIN g.elements : x # e =>
          n.elements[x].subs =
             g.elements[x].subs \ {v \in S \intersect DOMAIN g.views : g.views[v].parent = x}

\* What each mutation makes of the graph g is h: of one that adds an element.
AddsElement(g, h, m) ==
    /\ h \in Graphs /\ h.rels = g.rels
    /\ DOMAIN h.elements = DOMAIN g.elements \union {m.id}
    /\ \A e \in DOMAIN g.elements : h.elements[e].text = g.elements[e].text
    /\ DOMAIN h.views = DOMAIN g.views
    /\ \A v \in DOMAIN g.views :
          /\ h.views[v].els = IF v \in m.scope THEN g.views[v].els \union {m.id} ELSE g.views[v].els
          /\ h.views[v].rels = g.views[v].rels
    /\ m.id \in DOMAIN g.elements =>
          /\ \A e \in DOMAIN g.elements : h.elements[e].subs = g.elements[e].subs
          /\ \A v \in DOMAIN g.views : h.views[v].parent = g.views[v].parent
    /\ m.id \notin DOMAIN g.elements =>
          /\ h.elements[m.id].text = m.text
          /\ Pointed(g, h, m.id, m.subs)
          /\ \A v \in DOMAIN g.views :
                h.views[v].parent = IF v \in m.subs THEN m.id ELSE g.views[v].parent

LEMMA AddElementShape ==
    ASSUME NEW g \in Graphs, NEW m \in AnyMutation, m.type = "addElement"
    PROVE  AddsElement(g, AddElement(g, m), m)
  <1> DEFINE new == [text |-> m.text, subs |-> m.subs]
             es == Put(g.elements, m.id, new)
             a == IF m.id \in DOMAIN g.elements THEN g
                  ELSE PointViewsTo([g EXCEPT !.elements = es], m.id)
             vs == Include(a.views, m.scope, {m.id}, {})
             n == [a EXCEPT !.views = vs]
  <1>1. m.id \in Elements /\ m.text \in Texts /\ m.subs \in SUBSET Views
    BY MutationFields
  <1>2. AddElement(g, m) = n
    BY DEF AddElement
  <1>3. /\ a \in Graphs /\ a.rels = g.rels
        /\ DOMAIN a.elements = DOMAIN g.elements \union {m.id}
        /\ \A e \in DOMAIN g.elements : a.elements[e].text = g.elements[e].text
        /\ DOMAIN a.views = DOMAIN g.views
        /\ \A v \in DOMAIN g.views :
              a.views[v].els = g.views[v].els /\ a.views[v].rels = g.views[v].rels
        /\ m.id \in DOMAIN g.elements =>
              /\ \A e \in DOMAIN g.elements : a.elements[e].subs = g.elements[e].subs
              /\ \A v \in DOMAIN g.views : a.views[v].parent = g.views[v].parent
        /\ m.id \notin DOMAIN g.elements =>
              /\ a.elements[m.id].text = m.text
              /\ Pointed(g, a, m.id, m.subs)
              /\ \A v \in DOMAIN g.views :
                    a.views[v].parent = IF v \in m.subs THEN m.id ELSE g.views[v].parent
    <2>1. CASE m.id \in DOMAIN g.elements
      <3>1. a = g
        BY <2>1
      <3> HIDE DEF a
      <3> QED
        BY <2>1, <3>1
    <2>2. CASE m.id \notin DOMAIN g.elements
      <3> DEFINE b == [g EXCEPT !.elements = es]
      <3>1. new \in ElementTypes /\ g.elements \in Partial(Elements, ElementTypes)
        BY <1>1, GraphFields DEF ElementTypes
      <3>2. new.subs = m.subs /\ new.text = m.text
        OBVIOUS
      <3> HIDE DEF new, a
      <3>3. es \in Partial(Elements, ElementTypes)
        BY <1>1, <3>1, PutType
      <3>4. /\ DOMAIN es = DOMAIN g.elements \union {m.id}
            /\ es[m.id] = new
            /\ \A e \in DOMAIN g.elements : es[e] = g.elements[e]
        BY <2>2 DEF Put
      <3> HIDE DEF es
      <3>5. b \in Graphs /\ b.elements = es /\ b.rels = g.rels /\ b.views = g.views
        BY <3>3, OtherElements
      <3>6. a = PointViewsTo(b, m.id)
        BY <2>2 DEF a
      <3> HIDE DEF b
      <3>7. m.id \in DOMAIN b.elements /\ b.elements[m.id].subs = m.subs
        BY <3>2, <3>4, <3>5
      <3>8. /\ MountsOnly(b, a)
            /\ a.elements[m.id] = b.elements[m.id]
            /\ \A x \in DOMAIN b.elements : x # m.id =>
                  a.elements[x].subs =
                     b.elements[x].subs \ {v \in m.subs \intersect DOMAIN b.views : b.views[v].parent = x}
            /\ \A v \in DOMAIN b.views :
                  a.views[v].parent = IF v \in m.subs THEN m.id ELSE b.views[v].parent
        BY <3>5, <3>6, <3>7, PointViewsToType
      <3>9. Pointed(g, a, m.id, m.subs)
        BY <2>2, <3>4, <3>5, <3>7, <3>8 DEF Pointed
      <3> QED
        BY <2>2, <3>2, <3>4, <3>5, <3>8, <3>9 DEF MountsOnly
    <2> QED
      BY <2>1, <2>2
  <1> HIDE DEF a
  <1>4. vs \in Partial(Views, ViewTypes) /\ Joined(a.views, vs, m.scope, {m.id}, {})
    <2>1. a.views \in Partial(Views, ViewTypes) /\ {m.id} \in SUBSET Elements /\ {} \in SUBSET Relationships
      BY <1>1, <1>3, GraphFields
    <2> QED
      BY <2>1, IncludeType, IncludeJoins
  <1> HIDE DEF vs
  <1>5. n \in Graphs /\ n.elements = a.elements /\ n.rels = a.rels /\ n.views = vs
    BY <1>3, <1>4, OtherViews
  <1> HIDE DEF n
  <1>6. DOMAIN n.views = DOMAIN a.views /\ \A v \in DOMAIN a.views : n.views[v].parent = a.views[v].parent
    BY <1>4, <1>5 DEF Joined, SameMounts
  <1>7. ASSUME NEW v \in DOMAIN g.views
        PROVE  /\ n.views[v].els = IF v \in m.scope THEN g.views[v].els \union {m.id} ELSE g.views[v].els
               /\ n.views[v].rels = g.views[v].rels
    BY <1>3, <1>4, <1>5 DEF Joined
  <1>8. Pointed(g, a, m.id, m.subs) => Pointed(g, n, m.id, m.subs)
    BY <1>5 DEF Pointed
  <1> QED
    BY <1>2, <1>3, <1>5, <1>6, <1>7, <1>8 DEF AddsElement

\* ... one that updates an element.
UpdatesElement(g, h, m) ==
    /\ h \in Graphs /\ h.rels = g.rels
    /\ DOMAIN h.elements = DOMAIN g.elements
    /\ \A e \in DOMAIN g.elements :
          h.elements[e].text = IF e = m.id /\ m.text # Keep THEN m.text ELSE g.elements[e].text
    /\ DOMAIN h.views = DOMAIN g.views
    /\ \A v \in DOMAIN g.views :
          h.views[v].els = g.views[v].els /\ h.views[v].rels = g.views[v].rels
    /\ m.subs = Keep =>
          /\ \A e \in DOMAIN g.elements : h.elements[e].subs = g.elements[e].subs
          /\ \A v \in DOMAIN g.views : h.views[v].parent = g.views[v].parent
    /\ m.subs # Keep =>
          /\ Pointed(g, h, m.id, m.subs)
          /\ \A v \in DOMAIN g.views :
                h.views[v].parent = IF v \in m.subs THEN m.id
                                    ELSE IF g.views[v].parent = m.id THEN NoParent
                                    ELSE g.views[v].parent

LEMMA UpdateElementShape ==
    ASSUME NEW g \in Graphs, NEW m \in AnyMutation, m.type = "updateElement",
           m.id \in DOMAIN g.elements
    PROVE  UpdatesElement(g, UpdateElement(g, m), m)
  <1> DEFINE es == [g.elements EXCEPT ![m.id].text = m.text]
             t == IF m.text = Keep THEN g ELSE [g EXCEPT !.elements[m.id].text = m.text]
             b == WithSubs(t, m.id, m.subs)
  <1>1. /\ m.text # Keep => m.text \in Texts
        /\ m.subs # Keep => m.subs \in SUBSET Views
    BY MutationFields
  <1>2. UpdateElement(g, m) = IF m.subs = Keep THEN t ELSE Reconcile(b, m.id)
    BY DEF UpdateElement, WithSubs
  <1>3. /\ t \in Graphs /\ t.rels = g.rels /\ t.views = g.views
        /\ DOMAIN t.elements = DOMAIN g.elements
        /\ \A e \in DOMAIN g.elements : t.elements[e].subs = g.elements[e].subs
        /\ \A e \in DOMAIN g.elements :
              t.elements[e].text = IF e = m.id /\ m.text # Keep THEN m.text ELSE g.elements[e].text
    <2>1. CASE m.text = Keep
      BY <2>1
    <2>2. CASE m.text # Keep
      <3>1. /\ DOMAIN g.elements \subseteq Elements
            /\ g.elements = [x \in DOMAIN g.elements |-> g.elements[x]]
            /\ \A x \in DOMAIN g.elements : g.elements[x] \in ElementTypes
        BY GraphFields, PartialType
      <3>2. /\ DOMAIN es = DOMAIN g.elements
            /\ \A x \in DOMAIN g.elements :
                  es[x] = IF x = m.id THEN [g.elements[m.id] EXCEPT !.text = m.text] ELSE g.elements[x]
        BY <3>1
      <3>3. /\ [g.elements[m.id] EXCEPT !.text = m.text] \in ElementTypes
            /\ [g.elements[m.id] EXCEPT !.text = m.text].subs = g.elements[m.id].subs
            /\ [g.elements[m.id] EXCEPT !.text = m.text].text = m.text
        BY <1>1, <2>2, <3>1 DEF ElementTypes
      <3>4. es \in [DOMAIN g.elements -> ElementTypes]
        BY <3>1, <3>2, <3>3
      <3>5. es \in Partial(Elements, ElementTypes)
        BY <3>1, <3>4, BuiltType
      <3>6. t = [g EXCEPT !.elements = es]
        BY <2>2, GraphFields
      <3> HIDE DEF es, t
      <3>7. t \in Graphs /\ t.elements = es /\ t.rels = g.rels /\ t.views = g.views
        BY <3>5, <3>6, OtherElements
      <3> QED
        BY <2>2, <3>2, <3>3, <3>7
    <2> QED
      BY <2>1, <2>2
  <1> HIDE DEF t
  <1>4. CASE m.subs = Keep
    BY <1>2, <1>3, <1>4 DEF UpdatesElement
  <1>5. CASE m.subs # Keep
    <2> DEFINE n == Reconcile(b, m.id)
    <2>1. /\ MountsOnly(t, b)
          /\ b.views = t.views
          /\ b.elements[m.id].subs = m.subs
          /\ \A x \in DOMAIN t.elements : x # m.id => b.elements[x] = t.elements[x]
      BY <1>1, <1>3, <1>5, SubsType DEF ListsNow
    <2> HIDE DEF b
    <2>2. b \in Graphs /\ m.id \in DOMAIN b.elements /\ DOMAIN b.elements = DOMAIN g.elements
      BY <1>3, <2>1 DEF MountsOnly
    <2>3. /\ MountsOnly(b, n)
          /\ n.elements[m.id] = b.elements[m.id]
          /\ \A x \in DOMAIN b.elements : x # m.id =>
                n.elements[x].subs =
                   b.elements[x].subs \ {v \in m.subs \intersect DOMAIN b.views : b.views[v].parent = x}
          /\ \A v \in DOMAIN b.views :
                n.views[v].parent = IF v \in m.subs THEN m.id
                                    ELSE IF b.views[v].parent = m.id THEN NoParent
                                    ELSE b.views[v].parent
      BY <2>1, <2>2, ReconcileType
    <2> HIDE DEF n
    <2>4. Pointed(g, n, m.id, m.subs)
      BY <1>3, <2>1, <2>2, <2>3 DEF Pointed
    <2>5. UpdatesElement(g, n, m)
      BY <1>3, <1>5, <2>1, <2>2, <2>3, <2>4 DEF UpdatesElement, MountsOnly
    <2> QED
      BY <1>2, <1>5, <2>5 DEF n
  <1> QED
    BY <1>4, <1>5

\* ... one that adds a relationship.
AddsRelationship(g, h, m) ==
    /\ h \in Graphs /\ h.elements = g.elements
    /\ DOMAIN h.rels = DOMAIN g.rels \union {m.id}
    /\ \A r \in DOMAIN g.rels : h.rels[r] = g.rels[r]
    /\ m.id \notin DOMAIN g.rels => h.rels[m.id] = [src |-> m.src, tgt |-> m.tgt]
    /\ DOMAIN h.views = DOMAIN g.views
    /\ \A v \in DOMAIN g.views :
          /\ h.views[v].parent = g.views[v].parent
          /\ h.views[v].els = IF v \in m.scope THEN g.views[v].els \union {m.src, m.tgt} ELSE g.views[v].els
          /\ h.views[v].rels = IF v \in m.scope THEN g.views[v].rels \union {m.id} ELSE g.views[v].rels

LEMMA AddRelationshipShape ==
    ASSUME NEW g \in Graphs, NEW m \in AnyMutation, m.type = "addRelationship"
    PROVE  AddsRelationship(g, AddRelationship(g, m), m)
  <1> DEFINE new == [src |-> m.src, tgt |-> m.tgt]
             rs == Put(g.rels, m.id, new)
             a == IF m.id \in DOMAIN g.rels THEN g ELSE [g EXCEPT !.rels = rs]
             vs == Include(a.views, m.scope, {m.src, m.tgt}, {m.id})
             n == [a EXCEPT !.views = vs]
  <1>1. AddRelationship(g, m) = n
    BY DEF AddRelationship
  <1>2. m.id \in Relationships /\ m.src \in Elements /\ m.tgt \in Elements
    BY MutationFields
  <1>3. /\ a \in Graphs /\ a.elements = g.elements /\ a.views = g.views
        /\ DOMAIN a.rels = DOMAIN g.rels \union {m.id}
        /\ \A r \in DOMAIN g.rels : a.rels[r] = g.rels[r]
        /\ m.id \notin DOMAIN g.rels => a.rels[m.id] = new
    <2>1. new \in RelTypes /\ g.rels \in Partial(Relationships, RelTypes)
      BY <1>2, GraphFields DEF RelTypes
    <2> HIDE DEF new
    <2>2. rs \in Partial(Relationships, RelTypes)
      BY <1>2, <2>1, PutType
    <2>3. /\ DOMAIN rs = DOMAIN g.rels \union {m.id} /\ rs[m.id] = new
          /\ m.id \notin DOMAIN g.rels => \A r \in DOMAIN g.rels : rs[r] = g.rels[r]
      BY DEF Put
    <2> HIDE DEF rs
    <2>4. /\ [g EXCEPT !.rels = rs] \in Graphs
          /\ [g EXCEPT !.rels = rs].elements = g.elements
          /\ [g EXCEPT !.rels = rs].rels = rs
          /\ [g EXCEPT !.rels = rs].views = g.views
      BY <2>2, OtherRels
    <2> QED
      BY <2>3, <2>4
  <1> HIDE DEF a
  <1>4. vs \in Partial(Views, ViewTypes) /\ Joined(a.views, vs, m.scope, {m.src, m.tgt}, {m.id})
    <2>1. /\ a.views \in Partial(Views, ViewTypes)
          /\ {m.src, m.tgt} \in SUBSET Elements /\ {m.id} \in SUBSET Relationships
      BY <1>2, <1>3, GraphFields
    <2> QED
      BY <2>1, IncludeType, IncludeJoins
  <1> HIDE DEF vs
  <1>5. n \in Graphs /\ n.elements = a.elements /\ n.rels = a.rels /\ n.views = vs
    BY <1>3, <1>4, OtherViews
  <1> HIDE DEF n
  <1>6. DOMAIN n.views = DOMAIN g.views /\ \A v \in DOMAIN g.views : n.views[v].parent = g.views[v].parent
    BY <1>3, <1>4, <1>5 DEF Joined, SameMounts
  <1>7. ASSUME NEW v \in DOMAIN g.views
        PROVE  /\ n.views[v].els = IF v \in m.scope THEN g.views[v].els \union {m.src, m.tgt} ELSE g.views[v].els
               /\ n.views[v].rels = IF v \in m.scope THEN g.views[v].rels \union {m.id} ELSE g.views[v].rels
    BY <1>3, <1>4, <1>5 DEF Joined
  <1> QED
    BY <1>1, <1>3, <1>5, <1>6, <1>7 DEF AddsRelationship

\* ... one that adds a view.
AddsView(g, h, m) ==
    /\ h \in Graphs /\ h.rels = g.rels
    /\ DOMAIN h.elements = DOMAIN g.elements
    /\ \A e \in DOMAIN g.elements :
          /\ h.elements[e].text = g.elements[e].text
          /\ h.elements[e].subs = IF e = m.parent THEN g.elements[e].subs \union {m.id}
                                  ELSE g.elements[e].subs
    /\ DOMAIN h.views = DOMAIN g.views \union {m.id}
    /\ \A v \in DOMAIN g.views : h.views[v] = g.views[v]
    /\ h.views[m.id].parent = m.parent /\ h.views[m.id].els = m.els /\ h.views[m.id].rels = m.rels

LEMMA AddViewShape ==
    ASSUME NEW g \in Graphs, NEW m \in AnyMutation, m.type = "addView", m.id \notin DOMAIN g.views
    PROVE  AddsView(g, AddView(g, m), m)
  <1>1. /\ m.id \in Views /\ m.parent \in Elements \union {NoParent}
        /\ m.els \in SUBSET Elements /\ m.rels \in SUBSET Relationships
    BY MutationFields
  <1> DEFINE new == [parent |-> m.parent, els |-> m.els, rels |-> m.rels]
             vs == Put(g.views, m.id, new)
             b == [g EXCEPT !.views = vs]
             n == UpsertSub(b, m.parent, m.id)
  <1>2. AddView(g, m) = n
    BY DEF AddView
  <1>3. new \in ViewTypes /\ g.views \in Partial(Views, ViewTypes)
    BY <1>1, GraphFields DEF ViewTypes
  <1>4. new.parent = m.parent /\ new.els = m.els /\ new.rels = m.rels
    OBVIOUS
  <1> HIDE DEF new
  <1>5. vs \in Partial(Views, ViewTypes)
    BY <1>1, <1>3, PutType
  <1>6. /\ DOMAIN vs = DOMAIN g.views \union {m.id} /\ vs[m.id] = new
        /\ \A v \in DOMAIN g.views : vs[v] = g.views[v]
    BY DEF Put
  <1> HIDE DEF vs
  <1>7. b \in Graphs /\ b.elements = g.elements /\ b.rels = g.rels /\ b.views = vs
    BY <1>5, OtherViews
  <1> HIDE DEF b
  <1>8. ListsToo(b, n, m.parent, m.id)
    BY <1>1, <1>7, UpsertSubType
  <1> HIDE DEF n
  <1> QED
    BY <1>2, <1>4, <1>6, <1>7, <1>8 DEF ListsToo, MountsOnly, AddsView

\* ... one that updates a view.
UpdatesView(g, h, m) ==
    LET old == g.views[m.id].parent
        parent == IF m.parent = Keep THEN old ELSE m.parent
    IN  /\ h \in Graphs /\ h.rels = g.rels
        /\ DOMAIN h.elements = DOMAIN g.elements
        /\ \A e \in DOMAIN g.elements :
              /\ h.elements[e].text = g.elements[e].text
              /\ h.elements[e].subs = (IF e = old THEN g.elements[e].subs \ {m.id} ELSE g.elements[e].subs)
                                      \union (IF e = parent THEN {m.id} ELSE {})
        /\ DOMAIN h.views = DOMAIN g.views
        /\ \A v \in DOMAIN g.views : v # m.id => h.views[v] = g.views[v]
        /\ h.views[m.id].parent = parent
        /\ h.views[m.id].els = Patched(g.views[m.id].els, m.elsPatch)
        /\ h.views[m.id].rels = Patched(g.views[m.id].rels, m.relsPatch)

LEMMA UpdateViewShape ==
    ASSUME NEW g \in Graphs, NEW m \in AnyMutation, m.type = "updateView", m.id \in DOMAIN g.views
    PROVE  UpdatesView(g, UpdateView(g, m), m)
  <1> DEFINE old == g.views[m.id].parent
             parent == IF m.parent = Keep THEN old ELSE m.parent
             new == [parent |-> parent, els |-> Patched(g.views[m.id].els, m.elsPatch),
                     rels |-> Patched(g.views[m.id].rels, m.relsPatch)]
             vs == [g.views EXCEPT ![m.id] = new]
             b == [g EXCEPT !.views = vs]
             q == IF parent = old THEN b ELSE RemoveSub(b, old, m.id)
             n == UpsertSub(q, parent, m.id)
  <1>1. /\ m.id \in Views
        /\ m.parent # Keep => m.parent \in Elements \union {NoParent}
        /\ m.elsPatch \in MembersPatch(Elements) /\ m.relsPatch \in MembersPatch(Relationships)
    BY MutationFields
  <1>2. UpdateView(g, m) = n
    BY DEF UpdateView
  <1>3. /\ DOMAIN g.views \subseteq Views
        /\ g.views = [v \in DOMAIN g.views |-> g.views[v]]
        /\ \A v \in DOMAIN g.views : g.views[v] \in ViewTypes
    BY GraphFields, PartialType
  <1>4. old \in Elements \union {NoParent}
    BY <1>3 DEF ViewTypes
  <1>5. /\ new \in ViewTypes /\ new.parent = parent
        /\ new.els = Patched(g.views[m.id].els, m.elsPatch)
        /\ new.rels = Patched(g.views[m.id].rels, m.relsPatch)
    <2>1. g.views[m.id].els \in SUBSET Elements /\ g.views[m.id].rels \in SUBSET Relationships
      BY <1>3 DEF ViewTypes
    <2>2. /\ Patched(g.views[m.id].els, m.elsPatch) \in SUBSET Elements
          /\ Patched(g.views[m.id].rels, m.relsPatch) \in SUBSET Relationships
      BY <1>1, <2>1, PatchedType
    <2>3. parent \in Elements \union {NoParent}
      BY <1>1, <1>4
    <2> QED
      BY <2>2, <2>3 DEF ViewTypes
  <1> HIDE DEF new
  <1>6. /\ DOMAIN vs = DOMAIN g.views /\ vs[m.id] = new
        /\ \A v \in DOMAIN g.views : v # m.id => vs[v] = g.views[v]
        /\ vs \in Partial(Views, ViewTypes)
    <2>1. vs \in [DOMAIN g.views -> ViewTypes]
      BY <1>3, <1>5
    <2>2. vs \in Partial(Views, ViewTypes)
      BY <1>3, <2>1, BuiltType
    <2> QED
      BY <1>3, <2>2
  <1> HIDE DEF vs
  <1>7. b \in Graphs /\ b.elements = g.elements /\ b.rels = g.rels /\ b.views = vs
    BY <1>6, OtherViews
  <1> HIDE DEF b
  <1>8. UpdatesView(g, n, m) <=>
           /\ n \in Graphs /\ n.rels = g.rels
           /\ DOMAIN n.elements = DOMAIN g.elements
           /\ \A e \in DOMAIN g.elements :
                 /\ n.elements[e].text = g.elements[e].text
                 /\ n.elements[e].subs = (IF e = old THEN g.elements[e].subs \ {m.id} ELSE g.elements[e].subs)
                                         \union (IF e = parent THEN {m.id} ELSE {})
           /\ DOMAIN n.views = DOMAIN g.views
           /\ \A v \in DOMAIN g.views : v # m.id => n.views[v] = g.views[v]
           /\ n.views[m.id].parent = parent
           /\ n.views[m.id].els = Patched(g.views[m.id].els, m.elsPatch)
           /\ n.views[m.id].rels = Patched(g.views[m.id].rels, m.relsPatch)
    <2> HIDE DEF n
    <2> QED
      BY DEF UpdatesView
  <1> HIDE DEF parent, old
  <1>9. /\ MountsOnly(b, q) /\ q.views = vs
        /\ \A x \in DOMAIN g.elements :
              q.elements[x].subs = IF x = old /\ parent # old THEN g.elements[x].subs \ {m.id}
                                   ELSE g.elements[x].subs
    <2>1. CASE parent = old
      BY <1>7, <2>1 DEF MountsOnly
    <2>2. CASE parent # old
      <3>1. ListsNot(b, RemoveSub(b, old, m.id), old, m.id)
        BY <1>7, RemoveSubType
      <3>2. q = RemoveSub(b, old, m.id)
        BY <2>2
      <3> HIDE DEF q
      <3> QED
        BY <1>7, <2>2, <3>1, <3>2 DEF ListsNot
    <2> QED
      BY <2>1, <2>2
  <1> HIDE DEF q
  <1>10. /\ MountsOnly(q, n) /\ n.views = vs
         /\ \A x \in DOMAIN g.elements :
               n.elements[x].subs = IF x = parent THEN q.elements[x].subs \union {m.id}
                                    ELSE q.elements[x].subs
    <2>1. q \in Graphs /\ DOMAIN q.elements = DOMAIN g.elements
      BY <1>7, <1>9 DEF MountsOnly
    <2>2. ListsToo(q, n, parent, m.id)
      BY <1>1, <2>1, UpsertSubType
    <2> HIDE DEF n
    <2> QED
      BY <1>9, <2>1, <2>2 DEF ListsToo
  <1> HIDE DEF n
  <1>11. ASSUME NEW e \in DOMAIN g.elements
         PROVE  n.elements[e].subs = (IF e = old THEN g.elements[e].subs \ {m.id} ELSE g.elements[e].subs)
                                     \union (IF e = parent THEN {m.id} ELSE {})
    <2>1. CASE e = parent /\ e = old
      BY <1>9, <1>10, <2>1
    <2>2. CASE e # parent \/ e # old
      BY <1>9, <1>10, <2>2
    <2> QED
      BY <2>1, <2>2
  <1>12. UpdatesView(g, n, m)
    BY <1>5, <1>6, <1>7, <1>8, <1>9, <1>10, <1>11 DEF MountsOnly
  <1> QED
    BY <1>2, <1>12 DEF n, q, b, vs, new, parent, old

\* ... one that removes a view.
RemovesView(g, h, m) ==
    /\ h \in Graphs /\ h.rels = g.rels
    /\ DOMAIN h.elements = DOMAIN g.elements
    /\ \A e \in DOMAIN g.elements :
          /\ h.elements[e].text = g.elements[e].text
          /\ h.elements[e].subs = IF e = g.views[m.id].parent THEN g.elements[e].subs \ {m.id}
                                  ELSE g.elements[e].subs
    /\ DOMAIN h.views = DOMAIN g.views \ {m.id}
    /\ \A v \in DOMAIN h.views : h.views[v] = g.views[v]

LEMMA RemoveViewShape ==
    ASSUME NEW g \in Graphs, NEW m \in AnyMutation, m.type = "removeView", m.id \in DOMAIN g.views
    PROVE  RemovesView(g, RemoveView(g, m), m)
  <1> DEFINE old == g.views[m.id].parent
             u == RemoveSub(g, old, m.id)
             vs == Restrict(u.views, DOMAIN u.views \ {m.id})
             n == [u EXCEPT !.views = vs]
  <1>1. RemoveView(g, m) = n
    BY DEF RemoveView
  <1>2. /\ MountsOnly(g, u) /\ u.views = g.views
        /\ \A x \in DOMAIN g.elements :
              u.elements[x].subs = IF x = g.views[m.id].parent THEN g.elements[x].subs \ {m.id}
                                   ELSE g.elements[x].subs
    <2>1. ListsNot(g, u, old, m.id)
      BY RemoveSubType
    <2>2. old = g.views[m.id].parent
      OBVIOUS
    <2> HIDE DEF u, old
    <2> QED
      BY <2>1, <2>2 DEF ListsNot
  <1> HIDE DEF u
  <1>3. /\ vs \in Partial(Views, ViewTypes) /\ DOMAIN vs = DOMAIN g.views \ {m.id}
        /\ \A v \in DOMAIN vs : vs[v] = g.views[v]
    <2>1. u.views \in Partial(Views, ViewTypes)
      BY <1>2, GraphFields
    <2>2. vs \in Partial(Views, ViewTypes)
      BY <2>1, RestrictType
    <2> QED
      BY <1>2, <2>2 DEF Restrict
  <1> HIDE DEF vs
  <1>4. n \in Graphs /\ n.elements = u.elements /\ n.rels = u.rels /\ n.views = vs
    BY <1>2, <1>3, OtherViews DEF MountsOnly
  <1> HIDE DEF n
  <1> QED
    BY <1>1, <1>2, <1>3, <1>4 DEF RemovesView, MountsOnly

-----------------------------------------------------------------------------
(* The mutation that comes next, m, and the parts of the graph that it     *)
(* leaves as they are.                                                     *)

LEMMA NextFacts ==
    ASSUME NEW d, NEW B, NEW M, NEW g, Reached(d, B, M, g), NEW m, ComesNext(B, M, m)
    PROVE  /\ d \in Graphs /\ g \in Graphs /\ Peaceful(d, B) /\ IsEffect(d, M, g)
           /\ M \in SUBSET B /\ M \union {m} \in SUBSET B
           /\ m \in B /\ m \notin M /\ m \in AnyMutation
           /\ m.type \in {"addElement", "updateElement", "addRelationship",
                          "addView", "updateView", "removeView"}
           /\ ~Has(M, m.type, m.id)
  BY PeacefulApart DEF Reached, ComesNext, Has

LEMMA AddsNew ==
    ASSUME NEW d, NEW B, NEW M, NEW g, Reached(d, B, M, g), NEW m, ComesNext(B, M, m)
    PROVE  /\ m.type = "addElement" => (m.id \in DOMAIN g.elements <=> m.id \in DOMAIN d.elements)
           /\ m.type = "addRelationship" => (m.id \in DOMAIN g.rels <=> m.id \in DOMAIN d.rels)
           /\ m.type = "addView" => (m.id \in DOMAIN g.views <=> m.id \in DOMAIN d.views)
  <1>1. /\ Peaceful(d, B) /\ IsEffect(d, M, g) /\ M \in SUBSET B /\ m \in B /\ m \in AnyMutation
        /\ ~Has(M, m.type, m.id)
    BY NextFacts
  <1>2. m.type = "addView" => ~Has(M, "removeView", m.id)
    <2> SUFFICES ASSUME m.type = "addView", NEW a \in M, a.type = "removeView", a.id = m.id
                 PROVE  FALSE
      BY DEF Has
    <2>1. <<a.id, m.parent>> \in Mounts(m)
      BY <1>1, MountsAt
    <2> QED
      BY <1>1, <2>1, PeacefulApart
  <1>3. ObjectsAre(d, M, g)
    BY <1>1 DEF IsEffect
  <1>4. CASE m.type = "addElement"
    <2>1. m.id \in Elements
      BY <1>1, <1>4, MutationFields
    <2> QED
      BY <1>1, <1>3, <1>4, <2>1 DEF ObjectsAre
  <1>5. CASE m.type = "addRelationship"
    <2>1. m.id \in Relationships
      BY <1>1, <1>5, MutationFields
    <2> QED
      BY <1>1, <1>3, <1>5, <2>1 DEF ObjectsAre
  <1>6. CASE m.type = "addView"
    <2>1. m.id \in Views
      BY <1>1, <1>6, MutationFields
    <2> QED
      BY <1>1, <1>2, <1>3, <1>6, <2>1 DEF ObjectsAre
  <1> QED
    BY <1>4, <1>5, <1>6

LEMMA TextsSame ==
    ASSUME NEW d, NEW B, NEW M, NEW g, Reached(d, B, M, g), NEW m, ComesNext(B, M, m), NEW h,
           ~(m.type = "updateElement" /\ m.text # Keep),
           m.type = "addElement" => m.id \in DOMAIN d.elements,
           \A e \in DOMAIN h.elements :
              e \in DOMAIN g.elements /\ h.elements[e].text = g.elements[e].text
    PROVE  \A e \in DOMAIN h.elements : TextIs(d, M \union {m}, e, h.elements[e].text)
  <1>1. ContentsAre(d, M, g)
    BY NextFacts DEF IsEffect
  <1> TAKE e \in DOMAIN h.elements
  <1>2. TextIs(d, M, e, h.elements[e].text)
    BY <1>1 DEF ContentsAre
  <1>3. Retold(M \union {m}, e) <=> Retold(M, e)
    BY DEF Retold
  <1> QED
    BY <1>2, <1>3 DEF TextIs

LEMMA EndsSame ==
    ASSUME NEW d, NEW B, NEW M, NEW g, Reached(d, B, M, g), NEW m, ComesNext(B, M, m), NEW h,
           m.type # "addRelationship", h.rels = g.rels
    PROVE  \A r \in DOMAIN h.rels : EndsAre(d, M \union {m}, r, h.rels[r])
  <1>1. ContentsAre(d, M, g)
    BY NextFacts DEF IsEffect
  <1> QED
    BY <1>1 DEF ContentsAre, EndsAre

\* m hangs nothing and takes nothing down.
LEMMA MountsSame ==
    ASSUME NEW d, NEW B, NEW M, NEW g, Reached(d, B, M, g), NEW m, ComesNext(B, M, m), NEW h,
           ~Relists(m), m.type \notin {"updateView", "removeView"},
           \A v, p : ~(Takes(d, m) /\ <<v, p>> \in Mounts(m)),
           \A e \in DOMAIN h.elements :
              e \in DOMAIN g.elements /\ h.elements[e].subs = g.elements[e].subs,
           \A v \in DOMAIN h.views :
              v \in DOMAIN g.views /\ h.views[v].parent = g.views[v].parent
    PROVE  MountsAre(d, M \union {m}, h)
  <1>1. MountsAre(d, M, g)
    BY NextFacts DEF IsEffect
  <1>2. ASSUME NEW e \in DOMAIN h.elements, NEW v \in Views
        PROVE  v \in h.elements[e].subs <=> ListsView(d, M \union {m}, e, v)
    <2>1. e \in DOMAIN g.elements
      OBVIOUS
    <2>2. v \in g.elements[e].subs <=> ListsView(d, M, e, v)
      BY <1>1, <2>1 DEF MountsAre
    <2>3. ListsView(d, M \union {m}, e, v) <=> ListsView(d, M, e, v)
      BY <2>1, SameListing
    <2> QED
      BY <2>2, <2>3
  <1>3. ASSUME NEW v \in DOMAIN h.views
        PROVE  ParentIs(d, M \union {m}, v, h.views[v].parent)
    <2>1. ParentIs(d, M, v, h.views[v].parent)
      BY <1>1 DEF MountsAre
    <2> QED
      BY <2>1, SameParent
  <1> QED
    BY <1>2, <1>3 DEF MountsAre

LEMMA FirstSame ==
    ASSUME NEW d, NEW M, NEW m, NEW v, ~(m.type = "addView" /\ m.id = v) \/ v \in DOMAIN d.views
    PROVE  /\ FirstEls(d, M \union {m}, v) = FirstEls(d, M, v)
           /\ FirstRels(d, M \union {m}, v) = FirstRels(d, M, v)
  <1>1. CASE v \in DOMAIN d.views
    BY <1>1 DEF FirstEls, FirstRels
  <1>2. CASE ~(m.type = "addView" /\ m.id = v)
    <2>1. {x \in M \union {m} : x.type = "addView" /\ x.id = v} = {x \in M : x.type = "addView" /\ x.id = v}
      BY <1>2
    <2> QED
      BY <2>1 DEF FirstEls, FirstRels
  <1> QED
    BY <1>1, <1>2

\* m adds no more to a view than what it brings to those it joins.
LEMMA MembersJoined ==
    ASSUME NEW d, NEW B, NEW M, NEW g, Reached(d, B, M, g), NEW m, ComesNext(B, M, m), NEW h,
           m.type # "updateView", m.type = "addView" => m.id \in DOMAIN d.views,
           \A v \in DOMAIN h.views :
              /\ v \in DOMAIN g.views
              /\ h.views[v].els = IF v \in Joins(m) THEN g.views[v].els \union BroughtEls(m)
                                  ELSE g.views[v].els
              /\ h.views[v].rels = IF v \in Joins(m) THEN g.views[v].rels \union BroughtRels(m)
                                   ELSE g.views[v].rels
    PROVE  MembersAre(d, M \union {m}, h)
  <1> DEFINE N == M \union {m}
  <1>1. MembersAre(d, M, g)
    BY NextFacts DEF IsEffect
  <1> SUFFICES ASSUME NEW v \in DOMAIN h.views
               PROVE  /\ \A e \in Elements : e \in h.views[v].els <=> ShowsEl(d, N, v, e)
                      /\ \A r \in Relationships : r \in h.views[v].rels <=> ShowsRel(d, N, v, r)
    BY DEF MembersAre
  <1>2. v \in DOMAIN g.views
    OBVIOUS
  <1>3. FirstEls(d, N, v) = FirstEls(d, M, v) /\ FirstRels(d, N, v) = FirstRels(d, M, v)
    BY FirstSame
  <1>4. Has(N, "updateView", v) <=> Has(M, "updateView", v)
    BY HasAfter
  <1>5. ASSUME NEW e \in Elements
        PROVE  e \in h.views[v].els <=> ShowsEl(d, N, v, e)
    <2>1. e \in g.views[v].els <=> ShowsEl(d, M, v, e)
      BY <1>1, <1>2 DEF MembersAre
    <2>2. ShowsEl(d, N, v, e) <=> ShowsEl(d, M, v, e) \/ (v \in Joins(m) /\ e \in BroughtEls(m))
      BY <1>3, <1>4 DEF ShowsEl
    <2> QED
      BY <2>1, <2>2
  <1>6. ASSUME NEW r \in Relationships
        PROVE  r \in h.views[v].rels <=> ShowsRel(d, N, v, r)
    <2>1. r \in g.views[v].rels <=> ShowsRel(d, M, v, r)
      BY <1>1, <1>2 DEF MembersAre
    <2>2. ShowsRel(d, N, v, r) <=> ShowsRel(d, M, v, r) \/ (v \in Joins(m) /\ r \in BroughtRels(m))
      BY <1>3, <1>4 DEF ShowsRel
    <2> QED
      BY <2>1, <2>2
  <1> QED
    BY <1>5, <1>6

-----------------------------------------------------------------------------
(* Each mutation that comes next extends what has been done to its effect. *)

LEMMA ObjectsAfter ==
    ASSUME NEW d, NEW B, NEW M, NEW g, Reached(d, B, M, g), NEW m, ComesNext(B, M, m), NEW h,
           \A e \in Elements : e \in DOMAIN h.elements <=>
              e \in DOMAIN g.elements \/ (m.type = "addElement" /\ e = m.id),
           \A r \in Relationships : r \in DOMAIN h.rels <=>
              r \in DOMAIN g.rels \/ (m.type = "addRelationship" /\ r = m.id),
           \A v \in Views : v \in DOMAIN h.views <=>
              /\ v \in DOMAIN g.views \/ (m.type = "addView" /\ v = m.id)
              /\ ~(m.type = "removeView" /\ v = m.id)
    PROVE  ObjectsAre(d, M \union {m}, h)
  <1> DEFINE N == M \union {m}
  <1>1. ObjectsAre(d, M, g) /\ M \in SUBSET B /\ m \in B /\ Peaceful(d, B) /\ m \in AnyMutation
    BY NextFacts DEF IsEffect
  <1>2. \A v : m.type = "addView" /\ m.id = v => ~Has(M, "removeView", v)
    <2> SUFFICES ASSUME m.type = "addView", NEW a \in M, a.type = "removeView", a.id = m.id
                 PROVE  FALSE
      BY DEF Has
    <2>1. <<a.id, m.parent>> \in Mounts(m)
      BY <1>1, MountsAt
    <2> QED
      BY <1>1, <2>1, PeacefulApart
  <1>3. \A type, id : Has(N, type, id) <=> Has(M, type, id) \/ (m.type = type /\ m.id = id)
    BY HasAfter
  <1> HIDE DEF N
  <1>4. \A e \in Elements : e \in DOMAIN h.elements <=> (e \in DOMAIN d.elements \/ Has(N, "addElement", e))
    BY <1>1, <1>3 DEF ObjectsAre
  <1>5. \A r \in Relationships : r \in DOMAIN h.rels <=> (r \in DOMAIN d.rels \/ Has(N, "addRelationship", r))
    BY <1>1, <1>3 DEF ObjectsAre
  <1>6. \A v \in Views : v \in DOMAIN h.views <=>
           (v \in DOMAIN d.views \/ Has(N, "addView", v)) /\ ~Has(N, "removeView", v)
    BY <1>1, <1>2, <1>3 DEF ObjectsAre
  <1> QED
    BY <1>4, <1>5, <1>6 DEF ObjectsAre, N

LEMMA AddRelationshipEffect ==
    ASSUME NEW d, NEW B, NEW M, NEW g, Reached(d, B, M, g), NEW m, ComesNext(B, M, m),
           m.type = "addRelationship", CanApply(g, m)
    PROVE  LET h == AddRelationship(g, m) IN h \in Graphs /\ IsEffect(d, M \union {m}, h)
  <1> DEFINE N == M \union {m}
             h == AddRelationship(g, m)
  <1>1. /\ d \in Graphs /\ g \in Graphs /\ IsEffect(d, M, g)
        /\ m \in AnyMutation /\ m.id \in Relationships /\ ~Has(M, "addRelationship", m.id)
    BY NextFacts, MutationFields
  <1>2. AddsRelationship(g, h, m)
    BY <1>1, AddRelationshipShape
  <1> HIDE DEF h
  <1>3. ObjectsAre(d, N, h)
    BY <1>2, ObjectsAfter DEF AddsRelationship
  <1>4. MountsAre(d, N, h)
    <2>1. ~Relists(m) /\ \A v, p : ~(<<v, p>> \in Mounts(m))
      BY <1>1, MountsAt DEF Relists
    <2>2. /\ \A e \in DOMAIN h.elements : e \in DOMAIN g.elements /\ h.elements[e].subs = g.elements[e].subs
          /\ \A v \in DOMAIN h.views : v \in DOMAIN g.views /\ h.views[v].parent = g.views[v].parent
      BY <1>2 DEF AddsRelationship
    <2> QED
      BY <2>1, <2>2, MountsSame
  <1>5. \A e \in DOMAIN h.elements : TextIs(d, N, e, h.elements[e].text)
    BY <1>2, TextsSame DEF AddsRelationship
  <1>6. ASSUME NEW r \in DOMAIN h.rels
        PROVE  EndsAre(d, N, r, h.rels[r])
    <2>1. CASE r \in DOMAIN g.rels
      <3>1. EndsAre(d, M, r, h.rels[r])
        BY <1>1, <1>2, <2>1 DEF AddsRelationship, IsEffect, ContentsAre
      <3> QED
        BY <3>1 DEF EndsAre
    <2>2. CASE r \notin DOMAIN g.rels
      <3>1. r = m.id /\ h.rels[r] = [src |-> m.src, tgt |-> m.tgt]
        BY <1>2, <2>2 DEF AddsRelationship
      <3>2. r \notin DOMAIN d.rels
        BY <2>2, <3>1, AddsNew
      <3> QED
        BY <3>1, <3>2 DEF EndsAre
    <2> QED
      BY <2>1, <2>2
  <1>7. MembersAre(d, N, h)
    <2>1. Joins(m) = m.scope /\ BroughtEls(m) = {m.src, m.tgt} /\ BroughtRels(m) = {m.id}
      BY DEF Joins, BroughtEls, BroughtRels
    <2>2. \A v \in DOMAIN h.views :
            /\ v \in DOMAIN g.views
            /\ h.views[v].els = IF v \in Joins(m) THEN g.views[v].els \union BroughtEls(m)
                                ELSE g.views[v].els
            /\ h.views[v].rels = IF v \in Joins(m) THEN g.views[v].rels \union BroughtRels(m)
                                 ELSE g.views[v].rels
      BY <1>2, <2>1 DEF AddsRelationship
    <2> QED
      BY <2>2, MembersJoined
  <1> QED
    BY <1>2, <1>3, <1>4, <1>5, <1>6, <1>7 DEF IsEffect, ContentsAre, AddsRelationship, h

LEMMA AddElementMounts ==
    ASSUME NEW d, NEW B, NEW M, NEW g, Reached(d, B, M, g), NEW m, ComesNext(B, M, m),
           m.type = "addElement", NEW h, AddsElement(g, h, m)
    PROVE  MountsAre(d, M \union {m}, h)
  <1> DEFINE N == M \union {m}
  <1>1. /\ d \in Graphs /\ g \in Graphs /\ IsEffect(d, M, g) /\ Peaceful(d, B)
        /\ M \in SUBSET B /\ N \in SUBSET B /\ m \in B
        /\ m \in AnyMutation /\ m.id \in Elements /\ m.subs \in SUBSET Views
        /\ m.id # NoParent
    BY NextFacts, MutationFields, MutationConstants
  <1>2. ~Relists(m)
    BY DEF Relists
  <1>3. \A v, p : <<v, p>> \in Mounts(m) <=> v \in m.subs /\ p = m.id
    BY <1>1, <1>2, MountsAt
  <1>4. CASE m.id \in DOMAIN g.elements
    <2>1. ~Takes(d, m)
      BY <1>4, AddsNew DEF Takes
    <2>2. /\ \A e \in DOMAIN h.elements : e \in DOMAIN g.elements /\ h.elements[e].subs = g.elements[e].subs
          /\ \A v \in DOMAIN h.views : v \in DOMAIN g.views /\ h.views[v].parent = g.views[v].parent
      BY <1>4 DEF AddsElement
    <2> QED
      BY <1>2, <2>1, <2>2, MountsSame
  <1>5. CASE m.id \notin DOMAIN g.elements
    <2>1. Takes(d, m) /\ m.id \notin DOMAIN d.elements
      BY <1>5, AddsNew DEF Takes
    <2>2. MountsAre(d, M, g)
      BY <1>1 DEF IsEffect
    <2>3. ASSUME NEW v \in Views, ListsView(d, N, m.id, v) PROVE v \in m.subs
      <3>1. ASSUME NEW a \in M, Relists(a) \/ a.type = "addView", <<v, m.id>> \in Mounts(a)
            PROVE  FALSE
        <4>1. a \in AnyMutation
          BY <1>1, PeacefulApart
        <4>2. CASE Relists(a)
          <5>1. a.type = "updateElement" /\ a.id = m.id
            BY <3>1, <4>1, <4>2, MountsAt DEF Relists
          <5>2. Produced(m) \in Required(a)
            BY <5>1 DEF Produced, Required
          <5> QED
            BY <1>1, <5>2, NextFacts DEF Reached
        <4>3. CASE a.type = "addView"
          <5>1. a.parent = m.id
            BY <3>1, <4>1, <4>3, MountsAt DEF Relists
          <5>2. Produced(m) \in Required(a)
            BY <4>3, <5>1 DEF Produced, Required
          <5> QED
            BY <1>1, <5>2, NextFacts DEF Reached
        <4> QED
          BY <3>1, <4>2, <4>3
      <3>2. ASSUME NEW a \in N, Takes(d, a), <<v, m.id>> \in Mounts(a) PROVE v \in m.subs
        <4>1. a \in AnyMutation /\ a \in B
          BY <1>1, PeacefulApart
        <4>2. CASE a = m
          BY <1>3, <3>2, <4>2
        <4>3. CASE a # m /\ a.type = "addElement"
          <5>1. a.id = m.id
            BY <3>2, <4>1, <4>3, MountsAt DEF Relists
          <5> QED
            BY <1>1, <4>1, <4>3, <5>1, PeacefulApart
        <4>4. CASE a # m /\ a.type = "updateView"
          BY <1>1, <3>2, <4>1, <4>4, PeacefulApart
        <4>5. a.type \in {"addElement", "addView", "updateView"} \/ Relists(a)
          BY <3>2, <4>1, MountsAt
        <4> QED
          BY <3>1, <3>2, <4>2, <4>3, <4>4, <4>5
      <3>3. HangsAt(d, N, v, m.id) => v \in m.subs
        BY <3>2 DEF HangsAt
      <3>4. ~Relisted(N, m.id)
        <4> SUFFICES ASSUME NEW a \in N, Relists(a), a.id = m.id PROVE FALSE
          BY DEF Relisted
        <4>1. a \in M
          BY <1>2
        <4>2. Produced(m) \in Required(a)
          BY DEF Relists, Produced, Required
        <4> QED
          BY <1>1, <4>1, <4>2, NextFacts DEF Reached
      <3>5. ~(v \in DOMAIN d.views /\ d.views[v].parent = m.id)
        BY <1>1, <2>1 DEF Reached, ParentsExist
      <3>6. ParentIs(d, N, v, m.id) => HangsAt(d, N, v, m.id)
        BY <1>1, <3>5 DEF ParentIs
      <3> QED
        BY <2>1, <2>3, <3>3, <3>4, <3>6 DEF ListsView
    <2>4. ASSUME NEW e \in DOMAIN h.elements, NEW v \in Views
          PROVE  v \in h.elements[e].subs <=> ListsView(d, N, e, v)
      <3>1. CASE e = m.id
        <4>1. h.elements[e].subs = m.subs
          BY <1>5, <3>1 DEF AddsElement, Pointed
        <4>2. v \in m.subs => ListsView(d, N, m.id, v)
          BY <1>1, <1>3, <2>1, NewListing
        <4> QED
          BY <2>3, <3>1, <4>1, <4>2
      <3>2. CASE e # m.id
        <4>1. /\ e \in DOMAIN g.elements
              /\ v \in h.elements[e].subs <=>
                    v \in g.elements[e].subs /\ ~(v \in m.subs /\ v \in DOMAIN g.views /\ g.views[v].parent = e)
          BY <1>5, <3>2 DEF AddsElement, Pointed
        <4>2. v \in g.elements[e].subs <=> ListsView(d, M, e, v)
          BY <2>2, <4>1 DEF MountsAre
        <4>3. CASE v \in m.subs
          <5>1. <<v, m.id>> \in Mounts(m)
            BY <1>3, <4>3
          <5> QED
            BY <2>1, <3>2, <4>1, <4>3, <5>1, OtherListing
        <4>4. CASE v \notin m.subs
          <5>1. \A p : ~(<<v, p>> \in Mounts(m))
            BY <1>3, <4>4
          <5>2. ListsView(d, N, e, v) <=> ListsView(d, M, e, v)
            BY <1>2, <4>1, <5>1, SameListing
          <5> QED
            BY <4>1, <4>2, <4>4, <5>2
        <4> QED
          BY <4>3, <4>4
      <3> QED
        BY <3>1, <3>2
    <2>5. ASSUME NEW v \in DOMAIN h.views
          PROVE  ParentIs(d, N, v, h.views[v].parent)
      <3>1. v \in DOMAIN g.views /\ h.views[v].parent = IF v \in m.subs THEN m.id ELSE g.views[v].parent
        BY <1>5 DEF AddsElement
      <3>2. CASE v \in m.subs
        BY <1>3, <2>1, <3>1, <3>2, NewParent
      <3>3. CASE v \notin m.subs
        <4>1. ParentIs(d, M, v, h.views[v].parent)
          BY <2>2, <3>1, <3>3 DEF MountsAre
        <4> QED
          BY <1>2, <1>3, <3>3, <4>1, SameParent
      <3> QED
        BY <3>2, <3>3
    <2> QED
      BY <2>4, <2>5 DEF MountsAre
  <1> QED
    BY <1>4, <1>5

LEMMA AddElementEffect ==
    ASSUME NEW d, NEW B, NEW M, NEW g, Reached(d, B, M, g), NEW m, ComesNext(B, M, m),
           m.type = "addElement"
    PROVE  LET h == AddElement(g, m) IN h \in Graphs /\ IsEffect(d, M \union {m}, h)
  <1> DEFINE N == M \union {m}
             h == AddElement(g, m)
  <1>1. /\ g \in Graphs /\ IsEffect(d, M, g) /\ m \in AnyMutation
        /\ ~Has(M, "addElement", m.id) /\ M \in SUBSET B /\ Peaceful(d, B)
    BY NextFacts
  <1>2. AddsElement(g, h, m)
    BY <1>1, AddElementShape
  <1> HIDE DEF h
  <1>3. ObjectsAre(d, N, h)
    BY <1>2, ObjectsAfter DEF AddsElement
  <1>4. MountsAre(d, N, h)
    BY <1>2, AddElementMounts
  <1>5. ASSUME NEW e \in DOMAIN h.elements
        PROVE  TextIs(d, N, e, h.elements[e].text)
    <2>1. CASE e \in DOMAIN g.elements
      <3>1. TextIs(d, M, e, h.elements[e].text)
        BY <1>1, <1>2, <2>1 DEF AddsElement, IsEffect, ContentsAre
      <3>2. Retold(N, e) <=> Retold(M, e)
        BY DEF Retold
      <3> QED
        BY <3>1, <3>2 DEF TextIs
    <2>2. CASE e \notin DOMAIN g.elements
      <3>1. e = m.id /\ h.elements[e].text = m.text
        BY <1>2, <2>2 DEF AddsElement
      <3>2. e \notin DOMAIN d.elements
        BY <2>2, <3>1, AddsNew
      <3>3. ~Retold(N, e)
        <4> SUFFICES ASSUME NEW a \in M, a.type = "updateElement", a.id = e PROVE FALSE
          BY DEF Retold
        <4>1. Produced(m) \in Required(a)
          BY <3>1 DEF Produced, Required
        <4> QED
          BY <4>1, NextFacts DEF Reached
      <3> QED
        BY <3>1, <3>2, <3>3 DEF TextIs
    <2> QED
      BY <2>1, <2>2
  <1>6. \A r \in DOMAIN h.rels : EndsAre(d, N, r, h.rels[r])
    BY <1>2, EndsSame DEF AddsElement
  <1>7. MembersAre(d, N, h)
    <2>1. Joins(m) = m.scope /\ BroughtEls(m) = {m.id} /\ BroughtRels(m) = {}
      BY DEF Joins, BroughtEls, BroughtRels
    <2>2. \A v \in DOMAIN h.views :
            /\ v \in DOMAIN g.views
            /\ h.views[v].els = IF v \in Joins(m) THEN g.views[v].els \union BroughtEls(m)
                                ELSE g.views[v].els
            /\ h.views[v].rels = IF v \in Joins(m) THEN g.views[v].rels \union BroughtRels(m)
                                 ELSE g.views[v].rels
      BY <1>2, <2>1 DEF AddsElement
    <2> QED
      BY <2>2, MembersJoined
  <1> QED
    BY <1>2, <1>3, <1>4, <1>5, <1>6, <1>7 DEF IsEffect, ContentsAre, AddsElement, h

LEMMA UpdateElementMounts ==
    ASSUME NEW d, NEW B, NEW M, NEW g, Reached(d, B, M, g), NEW m, ComesNext(B, M, m),
           m.type = "updateElement", m.id \in DOMAIN g.elements,
           NEW h, UpdatesElement(g, h, m)
    PROVE  MountsAre(d, M \union {m}, h)
  <1> DEFINE N == M \union {m}
  <1>1. /\ d \in Graphs /\ g \in Graphs /\ MountsAre(d, M, g) /\ Peaceful(d, B)
        /\ M \in SUBSET B /\ N \in SUBSET B /\ m \in B /\ m \in AnyMutation
        /\ ~Has(M, "updateElement", m.id) /\ m.id # NoParent
    BY NextFacts, MutationFields, MutationConstants DEF IsEffect
  <1>2. Takes(d, m)
    BY DEF Takes
  <1>3. \A v, p : <<v, p>> \in Mounts(m) <=> m.subs # Keep /\ v \in m.subs /\ p = m.id
    BY <1>1, MountsAt DEF Relists
  <1>4. CASE m.subs = Keep
    <2>1. ~Relists(m)
      BY <1>4 DEF Relists
    <2>2. /\ \A e \in DOMAIN h.elements : e \in DOMAIN g.elements /\ h.elements[e].subs = g.elements[e].subs
          /\ \A v \in DOMAIN h.views : v \in DOMAIN g.views /\ h.views[v].parent = g.views[v].parent
      BY <1>4 DEF UpdatesElement
    <2> QED
      BY <1>3, <1>4, <2>1, <2>2, MountsSame
  <1>5. CASE m.subs # Keep
    <2>1. Relists(m)
      BY <1>5 DEF Relists
    <2>2. ASSUME NEW e \in DOMAIN h.elements, NEW v \in Views
          PROVE  v \in h.elements[e].subs <=> ListsView(d, N, e, v)
      <3>1. CASE e = m.id
        <4>1. h.elements[e].subs = m.subs
          BY <1>5, <3>1 DEF UpdatesElement, Pointed
        <4>2. \A a \in N : Relists(a) /\ a.id = e => a = m
          BY <1>1, <3>1 DEF Relists, Has
        <4>3. Relisted(N, e) /\ ((\E a \in N : Relists(a) /\ a.id = e /\ v \in a.subs) <=> v \in m.subs)
          BY <2>1, <3>1, <4>2 DEF Relisted
        <4> QED
          BY <4>1, <4>3 DEF ListsView
      <3>2. CASE e # m.id
        <4>1. /\ e \in DOMAIN g.elements
              /\ v \in h.elements[e].subs <=>
                    v \in g.elements[e].subs /\ ~(v \in m.subs /\ v \in DOMAIN g.views /\ g.views[v].parent = e)
          BY <1>5, <3>2 DEF UpdatesElement, Pointed
        <4>2. v \in g.elements[e].subs <=> ListsView(d, M, e, v)
          BY <1>1, <4>1 DEF MountsAre
        <4>3. CASE v \in m.subs
          <5>1. <<v, m.id>> \in Mounts(m)
            BY <1>3, <1>5, <4>3
          <5> QED
            BY <1>2, <3>2, <4>1, <4>3, <5>1, OtherListing
        <4>4. CASE v \notin m.subs
          <5>1. \A p : ~(<<v, p>> \in Mounts(m))
            BY <1>3, <4>4
          <5>2. ListsView(d, N, e, v) <=> ListsView(d, M, e, v)
            BY <3>2, <4>1, <5>1, SameListing
          <5> QED
            BY <4>1, <4>2, <4>4, <5>2
        <4> QED
          BY <4>3, <4>4
      <3> QED
        BY <3>1, <3>2
    <2>3. ASSUME NEW v \in DOMAIN h.views
          PROVE  ParentIs(d, N, v, h.views[v].parent)
      <3>1. /\ v \in DOMAIN g.views /\ ParentIs(d, M, v, g.views[v].parent)
            /\ h.views[v].parent = IF v \in m.subs THEN m.id
                                   ELSE IF g.views[v].parent = m.id THEN NoParent
                                   ELSE g.views[v].parent
        BY <1>1, <1>5 DEF UpdatesElement, MountsAre
      <3>2. CASE v \in m.subs
        BY <1>2, <1>3, <1>5, <3>1, <3>2, NewParent
      <3>3. CASE v \notin m.subs
        <4>1. \A q : ~(<<v, q>> \in Mounts(m))
          BY <1>3, <3>3
        <4>2. ~HangsAt(d, M, v, m.id)
          <5> SUFFICES ASSUME NEW a \in M, <<v, m.id>> \in Mounts(a) PROVE FALSE
            BY DEF HangsAt
          <5> QED
            BY <1>1, <2>1, <3>3, PeacefulApart
        <4>3. ~Relisted(M, m.id)
          BY <1>1 DEF Relisted, Relists, Has
        <4>4. CASE ~Hung(d, M, v) /\ v \in DOMAIN d.views /\ d.views[v].parent = m.id
          <5>1. g.views[v].parent = m.id
            BY <3>1, <4>2, <4>3, <4>4, <1>1, HangsType DEF ParentIs
          <5>2. h.views[v].parent = NoParent
            BY <3>1, <3>3, <5>1
          <5>3. ~Hung(d, N, v)
            BY <4>1, <4>4, HungAfter
          <5>4. Relisted(N, m.id)
            BY <2>1 DEF Relisted
          <5> QED
            BY <4>4, <5>2, <5>3, <5>4 DEF ParentIs
        <4>5. CASE Hung(d, M, v) \/ v \notin DOMAIN d.views \/ d.views[v].parent # m.id
          <5>1. g.views[v].parent # m.id
            BY <1>1, <3>1, <4>2, <4>5 DEF ParentIs
          <5>2. h.views[v].parent = g.views[v].parent
            BY <3>1, <3>3, <5>1
          <5> QED
            BY <3>1, <4>1, <4>5, <5>2, SameParent
        <4> QED
          BY <4>4, <4>5
      <3> QED
        BY <3>2, <3>3
    <2> QED
      BY <2>2, <2>3 DEF MountsAre
  <1> QED
    BY <1>4, <1>5

LEMMA UpdateElementEffect ==
    ASSUME NEW d, NEW B, NEW M, NEW g, Reached(d, B, M, g), NEW m, ComesNext(B, M, m),
           m.type = "updateElement", m.id \in DOMAIN g.elements
    PROVE  LET h == UpdateElement(g, m) IN h \in Graphs /\ IsEffect(d, M \union {m}, h)
  <1> DEFINE N == M \union {m}
             h == UpdateElement(g, m)
  <1>1. g \in Graphs /\ IsEffect(d, M, g) /\ m \in AnyMutation /\ ~Has(M, "updateElement", m.id)
    BY NextFacts
  <1>2. UpdatesElement(g, h, m)
    BY <1>1, UpdateElementShape
  <1> HIDE DEF h
  <1>3. ObjectsAre(d, N, h)
    BY <1>2, ObjectsAfter DEF UpdatesElement
  <1>4. MountsAre(d, N, h)
    BY <1>2, UpdateElementMounts
  <1>5. ASSUME NEW e \in DOMAIN h.elements
        PROVE  TextIs(d, N, e, h.elements[e].text)
    <2>1. e \in DOMAIN g.elements /\ TextIs(d, M, e, g.elements[e].text)
      BY <1>1, <1>2 DEF UpdatesElement, IsEffect, ContentsAre
    <2>2. CASE e = m.id /\ m.text # Keep
      <3>1. h.elements[e].text = m.text
        BY <1>2, <2>1, <2>2 DEF UpdatesElement
      <3> QED
        BY <2>2, <3>1 DEF TextIs
    <2>3. CASE ~(e = m.id /\ m.text # Keep)
      <3>1. h.elements[e].text = g.elements[e].text
        BY <1>2, <2>1, <2>3 DEF UpdatesElement
      <3>2. Retold(N, e) <=> Retold(M, e)
        BY <2>3 DEF Retold
      <3> QED
        BY <2>1, <3>1, <3>2 DEF TextIs
    <2> QED
      BY <2>2, <2>3
  <1>6. \A r \in DOMAIN h.rels : EndsAre(d, N, r, h.rels[r])
    BY <1>2, EndsSame DEF UpdatesElement
  <1>7. MembersAre(d, N, h)
    <2>1. Joins(m) = {}
      BY DEF Joins
    <2>2. \A v \in DOMAIN h.views :
            /\ v \in DOMAIN g.views
            /\ h.views[v].els = IF v \in Joins(m) THEN g.views[v].els \union BroughtEls(m)
                                ELSE g.views[v].els
            /\ h.views[v].rels = IF v \in Joins(m) THEN g.views[v].rels \union BroughtRels(m)
                                 ELSE g.views[v].rels
      BY <1>2, <2>1 DEF UpdatesElement
    <2> QED
      BY <2>2, MembersJoined
  <1> QED
    BY <1>2, <1>3, <1>4, <1>5, <1>6, <1>7 DEF IsEffect, ContentsAre, UpdatesElement, h

LEMMA AddViewMembers ==
    ASSUME NEW d, NEW B, NEW M, NEW g, Reached(d, B, M, g), NEW m, ComesNext(B, M, m),
           m.type = "addView", m.id \notin DOMAIN g.views, NEW h, AddsView(g, h, m)
    PROVE  MembersAre(d, M \union {m}, h)
  <1> DEFINE N == M \union {m}
  <1>1. /\ MembersAre(d, M, g) /\ M \in SUBSET B /\ m \in B /\ m \notin M
        /\ ~Has(M, "addView", m.id) /\ m.id \notin DOMAIN d.views
    BY NextFacts, AddsNew DEF IsEffect
  <1>2. \A v : Has(N, "updateView", v) <=> Has(M, "updateView", v)
    BY HasAfter
  <1>3. Joins(m) = {}
    BY DEF Joins
  <1>4. ASSUME NEW v \in DOMAIN h.views, v # m.id
        PROVE  /\ \A e \in Elements : e \in h.views[v].els <=> ShowsEl(d, N, v, e)
               /\ \A r \in Relationships : r \in h.views[v].rels <=> ShowsRel(d, N, v, r)
    <2>1. v \in DOMAIN g.views /\ h.views[v] = g.views[v]
      BY <1>4 DEF AddsView
    <2>2. FirstEls(d, N, v) = FirstEls(d, M, v) /\ FirstRels(d, N, v) = FirstRels(d, M, v)
      BY <1>4, FirstSame
    <2>3. \A e \in Elements : ShowsEl(d, N, v, e) <=> ShowsEl(d, M, v, e)
      BY <1>2, <1>3, <2>2 DEF ShowsEl
    <2>4. \A r \in Relationships : ShowsRel(d, N, v, r) <=> ShowsRel(d, M, v, r)
      BY <1>2, <1>3, <2>2 DEF ShowsRel
    <2> QED
      BY <1>1, <2>1, <2>3, <2>4 DEF MembersAre
  <1>5. \A a \in M : m.id \notin Joins(a) /\ ~(a.type = "updateView" /\ a.id = m.id)
    <2> SUFFICES ASSUME NEW a \in M, m.id \in Joins(a) \/ (a.type = "updateView" /\ a.id = m.id)
                 PROVE  FALSE
      OBVIOUS
    <2>1. Produced(m) \in Required(a)
      BY DEF Joins, Produced, Required
    <2> QED
      BY <1>1, <2>1 DEF Reached
  <1>6. {x \in N : x.type = "addView" /\ x.id = m.id} = {m}
    BY <1>1 DEF Has
  <1>7. FirstEls(d, N, m.id) = m.els /\ FirstRels(d, N, m.id) = m.rels
    BY <1>1, <1>6 DEF FirstEls, FirstRels
  <1>8. ~Has(N, "updateView", m.id)
    BY <1>2, <1>5 DEF Has
  <1>9. \A e : ShowsEl(d, N, m.id, e) <=> e \in m.els
    BY <1>3, <1>5, <1>7, <1>8 DEF ShowsEl
  <1>10. \A r : ShowsRel(d, N, m.id, r) <=> r \in m.rels
    BY <1>3, <1>5, <1>7, <1>8 DEF ShowsRel
  <1>11. h.views[m.id].els = m.els /\ h.views[m.id].rels = m.rels
    BY DEF AddsView
  <1> QED
    BY <1>4, <1>9, <1>10, <1>11 DEF MembersAre

LEMMA AddViewMounts ==
    ASSUME NEW d, NEW B, NEW M, NEW g, Reached(d, B, M, g), NEW m, ComesNext(B, M, m),
           m.type = "addView", m.id \notin DOMAIN g.views, NEW h, AddsView(g, h, m)
    PROVE  MountsAre(d, M \union {m}, h)
  <1> DEFINE N == M \union {m}
  <1>1. /\ MountsAre(d, M, g) /\ Peaceful(d, B) /\ M \in SUBSET B /\ m \in B /\ m \in AnyMutation
        /\ m.id \notin DOMAIN d.views
    BY NextFacts, AddsNew DEF IsEffect
  <1>2. Takes(d, m) /\ ~Relists(m)
    BY <1>1 DEF Takes, Relists
  <1>3. \A v, p : <<v, p>> \in Mounts(m) <=> v = m.id /\ p = m.parent
    BY <1>1, <1>2, MountsAt
  <1>4. ASSUME NEW e \in DOMAIN h.elements, NEW v \in Views
        PROVE  v \in h.elements[e].subs <=> ListsView(d, N, e, v)
    <2>1. /\ e \in DOMAIN g.elements
          /\ v \in h.elements[e].subs <=> v \in g.elements[e].subs \/ (e = m.parent /\ v = m.id)
      BY DEF AddsView
    <2>2. v \in g.elements[e].subs <=> ListsView(d, M, e, v)
      BY <1>1, <2>1 DEF MountsAre
    <2>3. CASE v # m.id
      <3>1. ListsView(d, N, e, v) <=> ListsView(d, M, e, v)
        BY <1>2, <1>3, <2>1, <2>3, SameListing
      <3> QED
        BY <2>1, <2>2, <2>3, <3>1
    <2>4. CASE v = m.id /\ e = m.parent
      <3>1. ListsView(d, N, e, v)
        BY <1>1, <1>2, <1>3, <2>4, NewListing
      <3> QED
        BY <2>1, <2>4, <3>1
    <2>5. CASE v = m.id /\ e # m.parent
      <3>1. <<v, m.parent>> \in Mounts(m)
        BY <1>3, <2>5
      <3>2. ListsView(d, N, e, v) <=>
               v \in g.elements[e].subs /\ ~(v \in DOMAIN g.views /\ g.views[v].parent = e)
        BY <1>2, <2>1, <2>5, <3>1, OtherListing
      <3> QED
        BY <2>1, <2>5, <3>2
    <2> QED
      BY <2>3, <2>4, <2>5
  <1>5. ASSUME NEW v \in DOMAIN h.views
        PROVE  ParentIs(d, N, v, h.views[v].parent)
    <2>1. CASE v = m.id
      BY <1>2, <1>3, <2>1, NewParent DEF AddsView
    <2>2. CASE v # m.id
      <3>1. ParentIs(d, M, v, h.views[v].parent)
        BY <1>1, <2>2 DEF MountsAre, AddsView
      <3> QED
        BY <1>2, <1>3, <2>2, <3>1, SameParent
    <2> QED
      BY <2>1, <2>2
  <1> QED
    BY <1>4, <1>5 DEF MountsAre

LEMMA AddViewEffect ==
    ASSUME NEW d, NEW B, NEW M, NEW g, Reached(d, B, M, g), NEW m, ComesNext(B, M, m),
           m.type = "addView"
    PROVE  LET h == AddView(g, m) IN h \in Graphs /\ IsEffect(d, M \union {m}, h)
  <1> DEFINE N == M \union {m}
             h == AddView(g, m)
  <1>1. g \in Graphs /\ IsEffect(d, M, g) /\ m \in AnyMutation /\ m.id \in Views
    BY NextFacts, MutationFields
  <1>2. CASE m.id \in DOMAIN g.views
    <2>1. h = g
      BY <1>2 DEF AddView
    <2>2. m.id \in DOMAIN d.views
      BY <1>2, AddsNew
    <2> HIDE DEF h
    <2>3. ObjectsAre(d, N, h)
      BY <1>2, <2>1, ObjectsAfter
    <2>4. ~Takes(d, m) /\ ~Relists(m)
      BY <2>2 DEF Takes, Relists
    <2>5. MountsAre(d, N, h)
      BY <2>1, <2>4, MountsSame
    <2>6. \A e \in DOMAIN h.elements : TextIs(d, N, e, h.elements[e].text)
      BY <2>1, TextsSame
    <2>7. \A r \in DOMAIN h.rels : EndsAre(d, N, r, h.rels[r])
      BY <2>1, EndsSame
    <2>8. Joins(m) = {}
      BY DEF Joins
    <2>9. MembersAre(d, N, h)
      BY <2>1, <2>2, <2>8, MembersJoined
    <2> QED
      BY <1>1, <2>1, <2>3, <2>5, <2>6, <2>7, <2>9 DEF IsEffect, ContentsAre, h
  <1>3. CASE m.id \notin DOMAIN g.views
    <2>1. AddsView(g, h, m)
      BY <1>1, <1>3, AddViewShape
    <2> HIDE DEF h
    <2>2. ObjectsAre(d, N, h)
      BY <2>1, ObjectsAfter DEF AddsView
    <2>3. MountsAre(d, N, h)
      BY <1>3, <2>1, AddViewMounts
    <2>4. \A e \in DOMAIN h.elements : TextIs(d, N, e, h.elements[e].text)
      <3>1. \A e \in DOMAIN h.elements : e \in DOMAIN g.elements /\ h.elements[e].text = g.elements[e].text
        BY <2>1 DEF AddsView
      <3> QED
        BY <3>1, TextsSame
    <2>5. \A r \in DOMAIN h.rels : EndsAre(d, N, r, h.rels[r])
      BY <2>1, EndsSame DEF AddsView
    <2>6. MembersAre(d, N, h)
      BY <1>3, <2>1, AddViewMembers
    <2> QED
      BY <2>1, <2>2, <2>3, <2>4, <2>5, <2>6 DEF IsEffect, ContentsAre, AddsView, h
  <1> QED
    BY <1>2, <1>3

LEMMA PatchedAt ==
    ASSUME NEW X, NEW Y, NEW x, x \in X <=> x \in Y, NEW patch
    PROVE  x \in Patched(X, patch) <=> x \in Patched(Y, patch)
  BY DEF Patched

LEMMA UpdateViewMembers ==
    ASSUME NEW d, NEW B, NEW M, NEW g, Reached(d, B, M, g), NEW m, ComesNext(B, M, m),
           m.type = "updateView", m.id \in DOMAIN g.views, NEW h, UpdatesView(g, h, m)
    PROVE  MembersAre(d, M \union {m}, h)
  <1> DEFINE N == M \union {m}
             v == m.id
             first == FirstEls(d, M, v)
             firstR == FirstRels(d, M, v)
  <1>1. /\ MembersAre(d, M, g) /\ Peaceful(d, B) /\ M \in SUBSET B /\ m \in B
        /\ ~Has(M, "updateView", m.id)
    BY NextFacts DEF IsEffect
  <1>2. Joins(m) = {}
    BY DEF Joins
  <1>3. \A u : FirstEls(d, N, u) = FirstEls(d, M, u) /\ FirstRels(d, N, u) = FirstRels(d, M, u)
    BY FirstSame
  <1>4. ASSUME NEW u \in DOMAIN h.views, u # m.id
        PROVE  /\ \A e \in Elements : e \in h.views[u].els <=> ShowsEl(d, N, u, e)
               /\ \A r \in Relationships : r \in h.views[u].rels <=> ShowsRel(d, N, u, r)
    <2>1. u \in DOMAIN g.views /\ h.views[u] = g.views[u]
      BY <1>4 DEF UpdatesView
    <2>2. Has(N, "updateView", u) <=> Has(M, "updateView", u)
      BY <1>4, HasAfter
    <2>3. \A e \in Elements : ShowsEl(d, N, u, e) <=> ShowsEl(d, M, u, e)
      BY <1>2, <1>3, <1>4, <2>2 DEF ShowsEl
    <2>4. \A r \in Relationships : ShowsRel(d, N, u, r) <=> ShowsRel(d, M, u, r)
      BY <1>2, <1>3, <1>4, <2>2 DEF ShowsRel
    <2> QED
      BY <1>1, <2>1, <2>3, <2>4 DEF MembersAre
  <1>5. /\ \A e \in Elements : e \in g.views[v].els <=> ShowsEl(d, M, v, e)
        /\ \A r \in Relationships : r \in g.views[v].rels <=> ShowsRel(d, M, v, r)
    BY <1>1 DEF MembersAre
  <1>6. \A a \in M : ~(a.type = "updateView" /\ a.id = v)
    BY <1>1 DEF Has
  <1>7. Has(N, "updateView", v)
    BY DEF Has
  <1>8. /\ h.views[v].els = Patched(g.views[v].els, m.elsPatch)
        /\ h.views[v].rels = Patched(g.views[v].rels, m.relsPatch)
    BY DEF UpdatesView
  <1>9. ASSUME RewritesMembers(m) PROVE \A a \in M : v \notin Joins(a)
    BY <1>1, <1>9, PeacefulApart
  <1>10. ASSUME ~RewritesMembers(m) PROVE \A X : Patched(X, m.elsPatch) = X /\ Patched(X, m.relsPatch) = X
    BY <1>10 DEF RewritesMembers, Patched
  <1>11. ASSUME NEW e \in Elements
         PROVE  e \in h.views[v].els <=> ShowsEl(d, N, v, e)
    <2> DEFINE joins == \E a \in M : v \in Joins(a) /\ e \in BroughtEls(a)
    <2>1. ShowsEl(d, M, v, e) <=> joins \/ e \in first
      BY <1>6 DEF ShowsEl, Has
    <2>2. ShowsEl(d, N, v, e) <=> joins \/ e \in Patched(first, m.elsPatch)
      BY <1>2, <1>3, <1>6, <1>7 DEF ShowsEl
    <2>3. CASE RewritesMembers(m)
      <3>1. ~joins
        BY <1>9, <2>3
      <3>2. e \in g.views[v].els <=> e \in first
        BY <1>5, <2>1, <3>1
      <3> HIDE DEF first, joins
      <3>3. e \in Patched(g.views[v].els, m.elsPatch) <=> e \in Patched(first, m.elsPatch)
        BY <3>2, PatchedAt
      <3> QED
        BY <1>8, <2>2, <3>1, <3>3
    <2>4. CASE ~RewritesMembers(m)
      BY <1>5, <1>8, <1>10, <2>1, <2>2, <2>4
    <2> QED
      BY <2>3, <2>4
  <1>12. ASSUME NEW r \in Relationships
         PROVE  r \in h.views[v].rels <=> ShowsRel(d, N, v, r)
    <2> DEFINE joins == \E a \in M : v \in Joins(a) /\ r \in BroughtRels(a)
    <2>1. ShowsRel(d, M, v, r) <=> joins \/ r \in firstR
      BY <1>6 DEF ShowsRel, Has
    <2>2. ShowsRel(d, N, v, r) <=> joins \/ r \in Patched(firstR, m.relsPatch)
      BY <1>2, <1>3, <1>6, <1>7 DEF ShowsRel
    <2>3. CASE RewritesMembers(m)
      <3>1. ~joins
        BY <1>9, <2>3
      <3>2. r \in g.views[v].rels <=> r \in firstR
        BY <1>5, <2>1, <3>1
      <3> HIDE DEF firstR, joins
      <3>3. r \in Patched(g.views[v].rels, m.relsPatch) <=> r \in Patched(firstR, m.relsPatch)
        BY <3>2, PatchedAt
      <3> QED
        BY <1>8, <2>2, <3>1, <3>3
    <2>4. CASE ~RewritesMembers(m)
      BY <1>5, <1>8, <1>10, <2>1, <2>2, <2>4
    <2> QED
      BY <2>3, <2>4
  <1> QED
    BY <1>4, <1>11, <1>12 DEF MembersAre

\* An updateView that leaves the parent as it is lists the view there once more.
LEMMA ListedAgain ==
    ASSUME NEW d, NEW B, NEW M, NEW g, Reached(d, B, M, g), NEW m, ComesNext(B, M, m),
           m.type = "updateView", m.parent = Keep, m.id \in DOMAIN g.views,
           NEW e \in DOMAIN g.elements
    PROVE  ListsView(d, M \union {m}, e, m.id) <=>
              ListsView(d, M, e, m.id) \/ e = g.views[m.id].parent
  <1> DEFINE N == M \union {m}
             v == m.id
             old == g.views[v].parent
  <1>1. /\ MountsAre(d, M, g) /\ Peaceful(d, B) /\ M \in SUBSET B /\ m \in B /\ m \in AnyMutation
        /\ ~Has(M, "updateView", v) /\ e # NoParent /\ d \in Graphs
    BY NextFacts, GraphFields, MutationConstants DEF IsEffect
  <1>2. ParentIs(d, M, v, old)
    BY <1>1 DEF MountsAre
  <1>3. ParentIs(d, M, v, e) <=> e = old
    BY <1>1, <1>2, OneParent
  <1>4. ~Relists(m) /\ \A u, p : ~(<<u, p>> \in Mounts(m))
    BY <1>1, MountsAt DEF Relists
  <1>5. ParentIs(d, N, v, e) <=> ParentIs(d, M, v, e)
    BY <1>4, SameParent
  <1>6. HangsAt(d, N, v, e) <=> HangsAt(d, M, v, e)
    BY <1>4, HangsAfter
  <1>7. Relisted(N, e) <=> Relisted(M, e)
    BY <1>4, RelistedAfter
  <1>8. Has(N, "updateView", v)
    BY DEF Has
  <1>9. Has(N, "removeView", v) <=> Has(M, "removeView", v)
    BY HasAfter
  <1> HIDE DEF v, old
  <1>10. CASE Relisted(M, e)
    <2>1. PICK a \in M : Relists(a) /\ a.id = e
      BY <1>10 DEF Relisted
    <2>2. ASSUME e = old PROVE v \in a.subs
      <3>1. HangsAt(d, M, v, e)
        BY <1>1, <1>2, <1>10, <2>2 DEF ParentIs
      <3> QED
        BY <1>1, <2>1, <3>1, PeacefulApart DEF HangsAt
    <2>3. ListsView(d, M, e, v) <=> \E b \in M : Relists(b) /\ b.id = e /\ v \in b.subs
      BY <1>10 DEF ListsView
    <2>4. ListsView(d, N, e, v) <=> \E b \in N : Relists(b) /\ b.id = e /\ v \in b.subs
      BY <1>7, <1>10 DEF ListsView
    <2> QED
      BY <1>4, <2>1, <2>2, <2>3, <2>4 DEF v, old
  <1>11. CASE ~Relisted(M, e)
    <2>1. Leaves(d, N, e, v) <=> Leaves(d, M, e, v)
      BY <1>5, <1>9 DEF Leaves
    <2>2. ListsView(d, N, e, v) <=> ListsView(d, M, e, v) \/ ParentIs(d, M, v, e)
      BY <1>1, <1>5, <1>6, <1>7, <1>8, <1>11, <2>1 DEF ListsView
    <2> QED
      BY <1>3, <2>2 DEF v, old
  <1> QED
    BY <1>10, <1>11

LEMMA UpdateViewMounts ==
    ASSUME NEW d, NEW B, NEW M, NEW g, Reached(d, B, M, g), NEW m, ComesNext(B, M, m),
           m.type = "updateView", m.id \in DOMAIN g.views, NEW h, UpdatesView(g, h, m)
    PROVE  MountsAre(d, M \union {m}, h)
  <1> DEFINE N == M \union {m}
             old == g.views[m.id].parent
             parent == IF m.parent = Keep THEN old ELSE m.parent
  <1>1. MountsAre(d, M, g) /\ Peaceful(d, B) /\ M \in SUBSET B /\ m \in B /\ m \in AnyMutation
    BY NextFacts DEF IsEffect
  <1>2. Takes(d, m) /\ ~Relists(m)
    BY DEF Takes, Relists
  <1>3. \A v, p : <<v, p>> \in Mounts(m) <=> m.parent # Keep /\ v = m.id /\ p = m.parent
    BY <1>1, <1>2, MountsAt
  <1>4. /\ h.views[m.id].parent = parent
        /\ DOMAIN h.elements = DOMAIN g.elements /\ DOMAIN h.views = DOMAIN g.views
        /\ \A v \in DOMAIN g.views : v # m.id => h.views[v] = g.views[v]
        /\ \A e \in DOMAIN g.elements :
              h.elements[e].subs = (IF e = old THEN g.elements[e].subs \ {m.id} ELSE g.elements[e].subs)
                                   \union (IF e = parent THEN {m.id} ELSE {})
    BY DEF UpdatesView
  <1>5. ASSUME NEW e \in DOMAIN h.elements, NEW v \in Views
        PROVE  v \in h.elements[e].subs <=> ListsView(d, N, e, v)
    <2>1. e \in DOMAIN g.elements
      BY <1>4
    <2>2. v \in g.elements[e].subs <=> ListsView(d, M, e, v)
      BY <1>1, <2>1 DEF MountsAre
    <2>3. CASE v # m.id
      <3>1. ListsView(d, N, e, v) <=> ListsView(d, M, e, v)
        BY <1>2, <1>3, <2>1, <2>3, SameListing
      <3>2. v \in h.elements[e].subs <=> v \in g.elements[e].subs
        BY <1>4, <2>1, <2>3
      <3> QED
        BY <2>2, <3>1, <3>2
    <2>4. CASE v = m.id
      <3>1. v \in h.elements[e].subs <=> (v \in g.elements[e].subs /\ e # old) \/ e = parent
        BY <1>4, <2>1, <2>4
      <3>2. CASE m.parent = Keep
        <4>1. ListsView(d, N, e, v) <=> ListsView(d, M, e, v) \/ e = old
          BY <2>1, <2>4, <3>2, ListedAgain
        <4> QED
          BY <2>2, <3>1, <3>2, <4>1
      <3>3. CASE m.parent # Keep /\ e = parent
        <4>1. ListsView(d, N, e, v)
          BY <1>1, <1>2, <1>3, <2>4, <3>3, NewListing
        <4> QED
          BY <3>1, <3>3, <4>1
      <3>4. CASE m.parent # Keep /\ e # parent
        <4>1. <<v, m.parent>> \in Mounts(m) /\ e # m.parent
          BY <1>3, <2>4, <3>4
        <4>2. ListsView(d, N, e, v) <=>
                 v \in g.elements[e].subs /\ ~(v \in DOMAIN g.views /\ g.views[v].parent = e)
          BY <1>2, <2>1, <4>1, OtherListing
        <4> QED
          BY <2>4, <3>1, <3>4, <4>2
      <3> QED
        BY <3>2, <3>3, <3>4
    <2> QED
      BY <2>3, <2>4
  <1>6. ASSUME NEW v \in DOMAIN h.views
        PROVE  ParentIs(d, N, v, h.views[v].parent)
    <2>1. v \in DOMAIN g.views /\ ParentIs(d, M, v, g.views[v].parent)
      BY <1>1, <1>4 DEF MountsAre
    <2>2. CASE v = m.id /\ m.parent # Keep
      <3>1. h.views[v].parent = m.parent
        BY <1>4, <2>2
      <3> QED
        BY <1>2, <1>3, <2>2, <3>1, NewParent
    <2>3. CASE v # m.id \/ m.parent = Keep
      <3>1. h.views[v].parent = g.views[v].parent
        BY <1>4, <2>1, <2>3
      <3> QED
        BY <1>2, <1>3, <2>1, <2>3, <3>1, SameParent
    <2> QED
      BY <2>2, <2>3
  <1> QED
    BY <1>5, <1>6 DEF MountsAre

LEMMA UpdateViewEffect ==
    ASSUME NEW d, NEW B, NEW M, NEW g, Reached(d, B, M, g), NEW m, ComesNext(B, M, m),
           m.type = "updateView", m.id \in DOMAIN g.views
    PROVE  LET h == UpdateView(g, m) IN h \in Graphs /\ IsEffect(d, M \union {m}, h)
  <1> DEFINE N == M \union {m}
             h == UpdateView(g, m)
  <1>1. g \in Graphs /\ m \in AnyMutation
    BY NextFacts
  <1>2. UpdatesView(g, h, m)
    BY <1>1, UpdateViewShape
  <1> HIDE DEF h
  <1>3. /\ h \in Graphs /\ h.rels = g.rels
        /\ DOMAIN h.elements = DOMAIN g.elements /\ DOMAIN h.views = DOMAIN g.views
        /\ \A e \in DOMAIN g.elements : h.elements[e].text = g.elements[e].text
    BY <1>2 DEF UpdatesView
  <1>4. ObjectsAre(d, N, h)
    BY <1>3, ObjectsAfter
  <1>5. MountsAre(d, N, h)
    BY <1>2, UpdateViewMounts
  <1>6. \A e \in DOMAIN h.elements : TextIs(d, N, e, h.elements[e].text)
    BY <1>3, TextsSame
  <1>7. \A r \in DOMAIN h.rels : EndsAre(d, N, r, h.rels[r])
    BY <1>3, EndsSame
  <1>8. MembersAre(d, N, h)
    BY <1>2, UpdateViewMembers
  <1> QED
    BY <1>3, <1>4, <1>5, <1>6, <1>7, <1>8 DEF IsEffect, ContentsAre, h

LEMMA RemoveViewMounts ==
    ASSUME NEW d, NEW B, NEW M, NEW g, Reached(d, B, M, g), NEW m, ComesNext(B, M, m),
           m.type = "removeView", m.id \in DOMAIN g.views, NEW h, RemovesView(g, h, m)
    PROVE  MountsAre(d, M \union {m}, h)
  <1> DEFINE N == M \union {m}
  <1>1. /\ MountsAre(d, M, g) /\ Peaceful(d, B) /\ M \in SUBSET B /\ N \in SUBSET B
        /\ m \in B /\ m \in AnyMutation /\ d \in Graphs /\ g \in Graphs
    BY NextFacts DEF IsEffect
  <1>2. ~Relists(m) /\ \A v, p : ~(<<v, p>> \in Mounts(m))
    BY <1>1, MountsAt DEF Relists
  <1>3. \A a \in B : /\ \A p : <<m.id, p>> \notin Mounts(a)
                     /\ ~(a.type = "updateView" /\ a.id = m.id)
    BY <1>1, PeacefulApart
  <1>4. ASSUME NEW e \in DOMAIN g.elements
        PROVE  ListsView(d, N, e, m.id) <=> ListsView(d, M, e, m.id) /\ e # g.views[m.id].parent
    <2> DEFINE v == m.id
    <2>1. e \in Elements /\ e # NoParent
      BY <1>1, GraphFields, MutationConstants
    <2>2. \A p : ~HangsAt(d, M, v, p) /\ ~HangsAt(d, N, v, p)
      BY <1>1, <1>3 DEF HangsAt
    <2>3. ~Hung(d, M, v) /\ ~Hung(d, N, v)
      BY <2>2 DEF Hung
    <2>4. ParentIs(d, M, v, g.views[v].parent)
      BY <1>1 DEF MountsAre
    <2>5. v \in DOMAIN d.views /\ g.views[v].parent =
             IF Relisted(M, d.views[v].parent) THEN NoParent ELSE d.views[v].parent
      BY <2>2, <2>4 DEF ParentIs
    <2>6. ~Has(M, "updateView", v) /\ ~Has(N, "updateView", v) /\ Has(N, "removeView", v)
      BY <1>1, <1>3 DEF Has
    <2>7. Relisted(N, e) <=> Relisted(M, e)
      BY <1>2, RelistedAfter
    <2>8. ParentIs(d, M, v, e) <=> e = g.views[v].parent
      BY <1>1, <2>4, OneParent
    <2>9. ~Has(M, "removeView", v)
      BY NextFacts
    <2> HIDE DEF v
    <2>10. CASE Relisted(M, e)
      <3>1. ASSUME NEW b \in N, Relists(b), b.id = e, v \in b.subs PROVE FALSE
        <4>1. b \in B /\ b \in AnyMutation
          BY <1>1, PeacefulApart
        <4>2. <<v, e>> \in Mounts(b)
          BY <3>1, <4>1, MountsAt
        <4> QED
          BY <1>3, <4>1, <4>2 DEF v
      <3>2. ~ListsView(d, N, e, v) /\ ~ListsView(d, M, e, v)
        BY <2>7, <2>10, <3>1 DEF ListsView
      <3> QED
        BY <3>2 DEF v
    <2>11. CASE ~Relisted(M, e)
      <3> DEFINE lists == e \in DOMAIN d.elements /\ v \in d.elements[e].subs
                 had == v \in DOMAIN d.views /\ d.views[v].parent = e
      <3>1. ListsView(d, N, e, v) <=> lists /\ ~had
        BY <2>2, <2>6, <2>7, <2>11 DEF ListsView, Leaves
      <3>2. ListsView(d, M, e, v) <=> lists /\ ~(had /\ e # g.views[v].parent)
        BY <2>2, <2>6, <2>8, <2>9, <2>11 DEF ListsView, Leaves
      <3>3. e = g.views[v].parent <=> had
        BY <2>1, <2>5, <2>11
      <3> QED
        BY <3>1, <3>2, <3>3 DEF v
    <2> QED
      BY <2>10, <2>11
  <1>5. ASSUME NEW e \in DOMAIN h.elements, NEW v \in Views
        PROVE  v \in h.elements[e].subs <=> ListsView(d, N, e, v)
    <2>1. /\ e \in DOMAIN g.elements
          /\ v \in h.elements[e].subs <=>
                v \in g.elements[e].subs /\ ~(e = g.views[m.id].parent /\ v = m.id)
      BY DEF RemovesView
    <2>2. v \in g.elements[e].subs <=> ListsView(d, M, e, v)
      BY <1>1, <2>1 DEF MountsAre
    <2>3. CASE v # m.id
      <3>1. ListsView(d, N, e, v) <=> ListsView(d, M, e, v)
        BY <1>2, <2>1, <2>3, SameListing
      <3> QED
        BY <2>1, <2>2, <2>3, <3>1
    <2>4. CASE v = m.id
      BY <1>4, <2>1, <2>2, <2>4
    <2> QED
      BY <2>3, <2>4
  <1>6. ASSUME NEW v \in DOMAIN h.views
        PROVE  ParentIs(d, N, v, h.views[v].parent)
    <2>1. ParentIs(d, M, v, h.views[v].parent)
      BY <1>1 DEF MountsAre, RemovesView
    <2> QED
      BY <1>2, <2>1, SameParent
  <1> QED
    BY <1>5, <1>6 DEF MountsAre

LEMMA RemoveViewEffect ==
    ASSUME NEW d, NEW B, NEW M, NEW g, Reached(d, B, M, g), NEW m, ComesNext(B, M, m),
           m.type = "removeView", m.id \in DOMAIN g.views
    PROVE  LET h == RemoveView(g, m) IN h \in Graphs /\ IsEffect(d, M \union {m}, h)
  <1> DEFINE N == M \union {m}
             h == RemoveView(g, m)
  <1>1. g \in Graphs /\ m \in AnyMutation
    BY NextFacts
  <1>2. RemovesView(g, h, m)
    BY <1>1, RemoveViewShape
  <1> HIDE DEF h
  <1>3. ObjectsAre(d, N, h)
    BY <1>2, ObjectsAfter DEF RemovesView
  <1>4. MountsAre(d, N, h)
    BY <1>2, RemoveViewMounts
  <1>5. \A e \in DOMAIN h.elements : TextIs(d, N, e, h.elements[e].text)
    <2>1. \A e \in DOMAIN h.elements : e \in DOMAIN g.elements /\ h.elements[e].text = g.elements[e].text
      BY <1>2 DEF RemovesView
    <2> QED
      BY <2>1, TextsSame
  <1>6. \A r \in DOMAIN h.rels : EndsAre(d, N, r, h.rels[r])
    BY <1>2, EndsSame DEF RemovesView
  <1>7. MembersAre(d, N, h)
    <2>1. Joins(m) = {}
      BY DEF Joins
    <2>2. \A v \in DOMAIN h.views :
            /\ v \in DOMAIN g.views
            /\ h.views[v].els = IF v \in Joins(m) THEN g.views[v].els \union BroughtEls(m)
                                ELSE g.views[v].els
            /\ h.views[v].rels = IF v \in Joins(m) THEN g.views[v].rels \union BroughtRels(m)
                                 ELSE g.views[v].rels
      BY <1>2, <2>1 DEF RemovesView
    <2> QED
      BY <2>2, MembersJoined
  <1> QED
    BY <1>2, <1>3, <1>4, <1>5, <1>6, <1>7 DEF IsEffect, ContentsAre, RemovesView, h

\* So it is for the mutation that comes next, whatever it is.
LEMMA ComesToEffect ==
    ASSUME NEW d, NEW B, NEW M, NEW g, Reached(d, B, M, g), NEW m, ComesNext(B, M, m), CanApply(g, m)
    PROVE  LET h == ApplyOne(g, m) IN h \in Graphs /\ IsEffect(d, M \union {m}, h)
  <1>1. m.type \in {"addElement", "updateElement", "addRelationship", "addView", "updateView", "removeView"}
    BY NextFacts
  <1>2. CASE m.type = "addElement"
    BY <1>2, AddElementEffect DEF ApplyOne
  <1>3. CASE m.type = "updateElement"
    BY <1>3, UpdateElementEffect DEF ApplyOne, CanApply
  <1>4. CASE m.type = "addRelationship"
    BY <1>4, AddRelationshipEffect DEF ApplyOne
  <1>5. CASE m.type = "addView"
    BY <1>5, AddViewEffect DEF ApplyOne
  <1>6. CASE m.type = "updateView"
    BY <1>6, UpdateViewEffect DEF ApplyOne, CanApply
  <1>7. CASE m.type = "removeView"
    BY <1>7, RemoveViewEffect DEF ApplyOne, CanApply
  <1> QED
    BY <1>1, <1>2, <1>3, <1>4, <1>5, <1>6, <1>7

-----------------------------------------------------------------------------
(* Whether a mutation of the set B can be applied when it comes next does  *)
(* not depend on what came before.                                         *)

\* The mutations of B may meet the view v.
ViewComes(d, B, v) == v \in DOMAIN d.views \/ Has(B, "addView", v)

\* m throws nothing when it comes next.
Applicable(d, B, m) ==
    /\ m.type \in {"addElement", "addRelationship"} =>
          m.scope # {} /\ \A v \in m.scope : ViewComes(d, B, v)
    /\ m.type = "addRelationship" /\ m.id \in DOMAIN d.rels =>
          d.rels[m.id] = [src |-> m.src, tgt |-> m.tgt]
    /\ m.type = "updateElement" => m.id \in DOMAIN d.elements \/ Has(B, "addElement", m.id)
    /\ m.type = "addView" /\ m.id \in DOMAIN d.views =>
          \/ d.views[m.id].parent = m.parent
          \/ \E a \in B : /\ a.type = "addElement" /\ Takes(d, a)
                          /\ a.id = m.parent /\ m.id \in a.subs
    /\ m.type \in {"updateView", "removeView"} => ViewComes(d, B, m.id)

\* A view that m needs and that B does not remove is there when m comes, if ever.
LEMMA ViewThere ==
    ASSUME NEW d, NEW B, NEW M, NEW g, Reached(d, B, M, g), NEW m, ComesNext(B, M, m),
           NEW v \in Views, <<"view", v>> \in Required(m), ~Has(M, "removeView", v)
    PROVE  v \in DOMAIN g.views <=> ViewComes(d, B, v)
  <1>1. ObjectsAre(d, M, g) /\ M \in SUBSET B
    BY NextFacts DEF IsEffect
  <1>2. Has(B, "addView", v) => Has(M, "addView", v)
    <2> SUFFICES ASSUME NEW a \in B, a.type = "addView", a.id = v PROVE a \in M
      BY DEF Has
    <2>1. Produced(a) = <<"view", v>>
      BY DEF Produced
    <2> QED
      BY <2>1 DEF ComesNext
  <1>3. Has(M, "addView", v) => Has(B, "addView", v)
    BY <1>1 DEF Has
  <1> QED
    BY <1>1, <1>2, <1>3 DEF ObjectsAre, ViewComes

LEMMA ViewsThere ==
    ASSUME NEW d, NEW B, NEW M, NEW g, Reached(d, B, M, g), NEW m, ComesNext(B, M, m),
           m.type \in {"addElement", "addRelationship"}
    PROVE  m.scope \subseteq DOMAIN g.views <=> \A v \in m.scope : ViewComes(d, B, v)
  <1>1. Peaceful(d, B) /\ M \in SUBSET B /\ m \in B /\ m \in AnyMutation
    BY NextFacts
  <1>2. m.scope \in SUBSET Views
    BY <1>1, MutationFields
  <1>3. ASSUME NEW v \in m.scope PROVE v \in DOMAIN g.views <=> ViewComes(d, B, v)
    <2>1. <<"view", v>> \in Required(m)
      BY <1>3 DEF Required
    <2>2. v \in Joins(m)
      BY <1>3 DEF Joins
    <2>3. ~Has(M, "removeView", v)
      BY <1>1, <2>2, PeacefulApart DEF Has
    <2> QED
      BY <1>2, <1>3, <2>1, <2>3, ViewThere
  <1> QED
    BY <1>3

LEMMA AddViewFits ==
    ASSUME NEW d, NEW B, NEW M, NEW g, Reached(d, B, M, g), NEW m, ComesNext(B, M, m),
           m.type = "addView"
    PROVE  CanApply(g, m) <=> Applicable(d, B, m)
  <1> DEFINE v == m.id
             there == \E a \in B : /\ a.type = "addElement" /\ Takes(d, a)
                                   /\ a.id = m.parent /\ m.id \in a.subs
  <1>1. /\ Peaceful(d, B) /\ MountsAre(d, M, g) /\ M \in SUBSET B /\ m \in B /\ m \notin M
        /\ m \in AnyMutation
    BY NextFacts DEF IsEffect
  <1>2. CanApply(g, m) <=> (v \in DOMAIN g.views => g.views[v].parent = m.parent)
    BY DEF CanApply
  <1>3. Applicable(d, B, m) <=> (v \in DOMAIN d.views => d.views[v].parent = m.parent \/ there)
    BY DEF Applicable
  <1>4. v \in DOMAIN g.views <=> v \in DOMAIN d.views
    BY AddsNew
  <1>5. ASSUME v \in DOMAIN d.views
        PROVE  g.views[v].parent = m.parent <=> d.views[v].parent = m.parent \/ there
    <2>1. ParentIs(d, M, v, g.views[v].parent)
      BY <1>1, <1>4, <1>5 DEF MountsAre
    <2>2. <<v, m.parent>> \in Mounts(m)
      BY <1>1, MountsAt
    <2>3. \A a \in B : ~Relists(a)
      BY <1>1, <1>5, PeacefulApart
    <2>4. \A a \in M : \A p : <<v, p>> \in Mounts(a) => p = m.parent /\ a.type = "addElement"
      <3> SUFFICES ASSUME NEW a \in M, NEW p, <<v, p>> \in Mounts(a)
                   PROVE  p = m.parent /\ a.type = "addElement"
        OBVIOUS
      <3>1. a \in B /\ a \in AnyMutation /\ p = m.parent
        BY <1>1, <2>2, PeacefulApart
      <3>2. ~(a.type = "addView" /\ a.id = v)
        BY <1>1, <3>1, PeacefulApart
      <3>3. ~(a.type = "updateView" /\ a.id = v)
        <4> SUFFICES ASSUME a.type = "updateView", a.id = v PROVE FALSE
          OBVIOUS
        <4>1. Produced(m) \in Required(a)
          BY DEF Produced, Required
        <4> QED
          BY <1>1, <4>1 DEF Reached
      <3> QED
        BY <2>3, <3>1, <3>2, <3>3, MountsAt
    <2>5. Hung(d, M, v) <=> there
      <3>1. ASSUME Hung(d, M, v) PROVE there
        <4>0. PICK p : HangsAt(d, M, v, p)
          BY <3>1 DEF Hung
        <4>1. PICK a \in M : Takes(d, a) /\ <<v, p>> \in Mounts(a)
          BY <4>0 DEF HangsAt
        <4>2. a \in B /\ a \in AnyMutation /\ p = m.parent /\ a.type = "addElement"
          BY <1>1, <2>4, <4>1, PeacefulApart
        <4>3. v \in a.subs /\ a.id = m.parent
          BY <2>3, <4>1, <4>2, MountsAt
        <4> QED
          BY <4>1, <4>2, <4>3
      <3>2. ASSUME there PROVE Hung(d, M, v)
        <4>1. PICK a \in B : a.type = "addElement" /\ Takes(d, a) /\ a.id = m.parent /\ m.id \in a.subs
          BY <3>2
        <4>2. Produced(a) \in Required(m)
          BY <4>1 DEF Produced, Required
        <4>3. a \in M /\ a \in AnyMutation
          BY <1>1, <4>2, PeacefulApart DEF ComesNext
        <4>4. <<v, m.parent>> \in Mounts(a)
          BY <4>1, <4>3, MountsAt
        <4>5. HangsAt(d, M, v, m.parent)
          BY <4>1, <4>3, <4>4 DEF HangsAt
        <4> QED
          BY <1>1, <4>5, HangsType
      <3> QED
        BY <3>1, <3>2
    <2>6. ASSUME Hung(d, M, v) PROVE g.views[v].parent = m.parent
      <3>1. HangsAt(d, M, v, g.views[v].parent)
        BY <2>1, <2>6 DEF ParentIs
      <3> QED
        BY <2>4, <3>1 DEF HangsAt
    <2>7. ASSUME ~Hung(d, M, v) PROVE g.views[v].parent = d.views[v].parent
      <3>1. ~HangsAt(d, M, v, g.views[v].parent)
        BY <1>1, <2>7, HangsType
      <3>2. ~Relisted(M, d.views[v].parent)
        BY <1>1, <2>3 DEF Relisted
      <3> QED
        BY <2>1, <3>1, <3>2 DEF ParentIs
    <2> HIDE DEF there, v
    <2> QED
      BY <2>5, <2>6, <2>7
  <1> HIDE DEF there, v
  <1> QED
    BY <1>2, <1>3, <1>4, <1>5

LEMMA NextFits ==
    ASSUME NEW d, NEW B, NEW M, NEW g, Reached(d, B, M, g), NEW m, ComesNext(B, M, m)
    PROVE  CanApply(g, m) <=> Applicable(d, B, m)
  <1>1. /\ Peaceful(d, B) /\ IsEffect(d, M, g) /\ M \in SUBSET B /\ m \in B /\ m \notin M
        /\ m \in AnyMutation
        /\ m.type \in {"addElement", "updateElement", "addRelationship",
                       "addView", "updateView", "removeView"}
    BY NextFacts
  <1>2. CASE m.type = "addElement"
    <2>1. CanApply(g, m) <=> m.scope # {} /\ m.scope \subseteq DOMAIN g.views
      BY <1>2 DEF CanApply, ScopeExists
    <2> QED
      BY <1>2, <2>1, ViewsThere DEF Applicable
  <1>3. CASE m.type = "addRelationship"
    <2>1. CanApply(g, m) <=> /\ m.scope # {} /\ m.scope \subseteq DOMAIN g.views
                             /\ m.id \in DOMAIN g.rels => g.rels[m.id] = [src |-> m.src, tgt |-> m.tgt]
      BY <1>3 DEF CanApply, ScopeExists
    <2>2. m.id \in DOMAIN g.rels <=> m.id \in DOMAIN d.rels
      BY <1>3, AddsNew
    <2>3. m.id \in DOMAIN g.rels => g.rels[m.id] = d.rels[m.id]
      BY <1>1, <2>2 DEF IsEffect, ContentsAre, EndsAre
    <2> QED
      BY <1>3, <2>1, <2>2, <2>3, ViewsThere DEF Applicable
  <1>4. CASE m.type = "updateElement"
    <2>1. m.id \in Elements
      BY <1>1, <1>4, MutationFields
    <2>2. Has(B, "addElement", m.id) => Has(M, "addElement", m.id)
      <3> SUFFICES ASSUME NEW a \in B, a.type = "addElement", a.id = m.id PROVE a \in M
        BY DEF Has
      <3>1. Produced(a) \in Required(m)
        BY <1>4 DEF Produced, Required
      <3> QED
        BY <3>1 DEF ComesNext
    <2>3. Has(M, "addElement", m.id) => Has(B, "addElement", m.id)
      BY <1>1 DEF Has
    <2> QED
      BY <1>1, <1>4, <2>1, <2>2, <2>3 DEF IsEffect, ObjectsAre, CanApply, Applicable
  <1>5. CASE m.type = "addView"
    BY <1>5, AddViewFits
  <1>6. CASE m.type \in {"updateView", "removeView"}
    <2>1. m.id \in Views
      BY <1>1, <1>6, MutationFields
    <2>2. <<"view", m.id>> \in Required(m)
      BY <1>6 DEF Required
    <2>3. ~Has(M, "removeView", m.id)
      <3>1. CASE m.type = "updateView"
        BY <1>1, <3>1, PeacefulApart DEF Has
      <3>2. CASE m.type = "removeView"
        BY <3>2, NextFacts
      <3> QED
        BY <1>6, <3>1, <3>2
    <2>4. m.id \in DOMAIN g.views <=> ViewComes(d, B, m.id)
      BY <2>1, <2>2, <2>3, ViewThere
    <2>5. CanApply(g, m) <=> m.id \in DOMAIN g.views
      BY <1>6 DEF CanApply
    <2> QED
      BY <1>6, <2>4, <2>5 DEF Applicable
  <1> QED
    BY <1>1, <1>2, <1>3, <1>4, <1>5, <1>6

LEMMA NextChecks ==
    ASSUME NEW d, NEW B, NEW M, NEW g, Reached(d, B, M, g), NEW m, ComesNext(B, M, m)
    PROVE  LimitChecks(g, m) = LimitChecks(d, m)
  <1>1. CASE m.type = "addView"
    <2>1. {m.id} \ DOMAIN g.views = {m.id} \ DOMAIN d.views
      BY <1>1, AddsNew
    <2> QED
      BY <1>1, <2>1 DEF LimitChecks
  <1>2. CASE m.type # "addView"
    BY <1>2 DEF LimitChecks
  <1> QED
    BY <1>1, <1>2

-----------------------------------------------------------------------------
(* What a batch of mutations that do not clash comes to.                   *)

LEMMA NothingDone ==
    ASSUME NEW d \in Graphs
    PROVE  IsEffect(d, {}, d)
  <1>1. \A type, id : ~Has({}, type, id)
    BY DEF Has
  <1>2. \A v, p : ~HangsAt(d, {}, v, p)
    BY DEF HangsAt
  <1>3. \A v : ~Hung(d, {}, v)
    BY <1>2 DEF Hung
  <1>4. \A e : ~Relisted({}, e)
    BY DEF Relisted
  <1>5. ObjectsAre(d, {}, d)
    BY <1>1 DEF ObjectsAre
  <1>6. \A v \in DOMAIN d.views : \A p : ParentIs(d, {}, v, p) <=> p = d.views[v].parent
    BY <1>2, <1>3, <1>4 DEF ParentIs
  <1>7. \A e, v : ~Leaves(d, {}, e, v)
    BY <1>1, <1>6 DEF Leaves
  <1>8. MountsAre(d, {}, d)
    BY <1>1, <1>2, <1>4, <1>6, <1>7 DEF MountsAre, ListsView
  <1>9. ContentsAre(d, {}, d)
    BY DEF ContentsAre, TextIs, Retold, EndsAre
  <1>10. MembersAre(d, {}, d)
    BY <1>1 DEF MembersAre, ShowsEl, ShowsRel, FirstEls, FirstRels
  <1> QED
    BY <1>5, <1>8, <1>9, <1>10 DEF IsEffect

LEMMA RequiresOthers ==
    ASSUME NEW m \in AnyMutation
    PROVE  Produced(m) \notin Required(m)
  <1>1. CASE m.type = "addElement"
    BY <1>1 DEF Produced, Required
  <1>2. CASE m.type = "addRelationship"
    BY <1>2 DEF Produced, Required
  <1>3. CASE m.type = "addView"
    BY <1>3 DEF Produced, Required
  <1>4. CASE m.type \notin {"addElement", "addRelationship", "addView"}
    <2>1. Produced(m) = <<"nothing">>
      BY <1>4 DEF Produced
    <2>2. \A x, y : <<"nothing">> # <<x, y>>
      OBVIOUS
    <2>3. \A r \in Required(m) : r # <<"nothing">>
      BY <1>4, <2>2 DEF Required
    <2> QED
      BY <2>1, <2>3
  <1> QED
    BY <1>1, <1>2, <1>3, <1>4

\* No mutation is listed twice.
Distinct(batch) == \A i, j \in DOMAIN batch : batch[i] = batch[j] => i = j

LEMMA CompatibleApart ==
    ASSUME NEW d, NEW batch \in Seq(AnyMutation), Compatible(d, batch)
    PROVE  Peaceful(d, ToSet(batch)) /\ Distinct(batch)
  <1>1. \A i \in DOMAIN batch : batch[i] \in AnyMutation
    OBVIOUS
  <1>2. ToSet(batch) = {batch[i] : i \in DOMAIN batch}
    BY DEF ToSet
  <1>3. \A i, j \in DOMAIN batch : i # j => ~Clash(d, batch[i], batch[j])
    BY DEF Compatible
  <1>4. ASSUME NEW m \in ToSet(batch), NEW a \in ToSet(batch), m # a PROVE ~Clash(d, m, a)
    BY <1>2, <1>3, <1>4
  <1>5. Distinct(batch)
    <2> SUFFICES ASSUME NEW i \in DOMAIN batch, NEW j \in DOMAIN batch, batch[i] = batch[j], i # j
                 PROVE  FALSE
      BY DEF Distinct
    <2>1. ~Clash(d, batch[i], batch[i])
      BY <1>3
    <2> QED
      BY <2>1 DEF Clash
  <1> QED
    BY <1>1, <1>2, <1>4, <1>5 DEF Peaceful, Compatible

\* The first n mutations in the order.
Done(batch, n) == {Applied(batch, k) : k \in 1..n}

LEMMA DoneNext ==
    ASSUME NEW batch \in Seq(AnyMutation), Distinct(batch),
           NEW n \in 1..Len(ApplicationOrder(batch))
    PROVE  /\ Done(batch, n) = Done(batch, n - 1) \union {Applied(batch, n)}
           /\ ComesNext(ToSet(batch), Done(batch, n - 1), Applied(batch, n))
  <1> DEFINE order == ApplicationOrder(batch)
             m == Applied(batch, n)
  <1>1. /\ Len(order) \in Nat /\ DOMAIN order = 1..Len(order)
        /\ Sorted(batch, order)
        /\ \A k \in 1..Len(order) : order[k] \in DOMAIN batch
    BY OrderSorted, AppliedType DEF Orders
  <1>2. m \in ToSet(batch) /\ m \in AnyMutation
    BY AppliedType
  <1>3. 1..n = 1..(n - 1) \union {n} /\ n \in DOMAIN order
    BY <1>1
  <1>4. Done(batch, n) = Done(batch, n - 1) \union {Applied(batch, n)}
    BY <1>3 DEF Done
  <1>5. order[n] \notin Earlier(order, n) /\ DependsOn(batch, order[n]) \subseteq Earlier(order, n)
    BY <1>1, <1>3 DEF Sorted
  <1> HIDE DEF m
  <1>6. m \notin Done(batch, n - 1)
    <2> SUFFICES ASSUME NEW k \in 1..(n - 1), Applied(batch, k) = m PROVE FALSE
      BY DEF Done
    <2>1. k \in 1..Len(order)
      BY <1>1
    <2>2. order[k] = order[n]
      BY <1>1, <2>1 DEF Applied, Distinct, m
    <2> QED
      BY <1>5, <2>2 DEF Earlier
  <1>7. ASSUME NEW y \in ToSet(batch), Produced(y) \in Required(m)
        PROVE  y \in Done(batch, n - 1)
    <2>1. PICK i \in DOMAIN batch : y = batch[i]
      BY DEF ToSet
    <2>2. i # order[n]
      BY <1>2, <1>7, <2>1, RequiresOthers DEF Applied, m
    <2>3. i \in DependsOn(batch, order[n])
      BY <1>7, <2>1, <2>2 DEF DependsOn, Applied, m
    <2>4. PICK k \in 1..(n - 1) : order[k] = i
      BY <1>5, <2>3 DEF Earlier
    <2> QED
      BY <2>1, <2>4 DEF Done, Applied
  <1> QED
    BY <1>2, <1>4, <1>6, <1>7 DEF ComesNext, m

\* What a mutation that is done requires is done.
LEMMA DoneClosed ==
    ASSUME NEW batch \in Seq(AnyMutation), Distinct(batch),
           NEW n \in Nat, n <= Len(ApplicationOrder(batch))
    PROVE  /\ Done(batch, n) \in SUBSET ToSet(batch)
           /\ \A x \in Done(batch, n), y \in ToSet(batch) :
                 Produced(y) \in Required(x) => y \in Done(batch, n)
  <1>1. Len(ApplicationOrder(batch)) \in Nat
    BY AppliedType
  <1>2. ASSUME NEW k \in 1..n
        PROVE  /\ Applied(batch, k) \in ToSet(batch)
               /\ \A y \in ToSet(batch) : Produced(y) \in Required(Applied(batch, k)) => y \in Done(batch, n)
    <2>1. k \in 1..Len(ApplicationOrder(batch))
      BY <1>1
    <2>2. ComesNext(ToSet(batch), Done(batch, k - 1), Applied(batch, k))
      BY <2>1, DoneNext
    <2>3. Done(batch, k - 1) \subseteq Done(batch, n)
      BY DEF Done
    <2> QED
      BY <2>2, <2>3 DEF ComesNext
  <1> QED
    BY <1>2 DEF Done

\* The order takes in the whole batch: no mutations of it wait for each other.
Full(batch) == Len(ApplicationOrder(batch)) = Len(batch)

\* What the run has come to when n mutations of the order are done.
RunIs(d, batch, n, s) ==
    LET B == ToSet(batch)
        M == Done(batch, n)
    IN  /\ s.ok <=> Full(batch) /\ \A a \in M : Applicable(d, B, a)
        /\ s.ok => /\ IsEffect(d, M, s.doc)
                   /\ \A v : v \in s.limit <=> \E a \in M : v \in LimitChecks(d, a)

LEMMA RunStepIs ==
    ASSUME NEW d \in Graphs, ParentsExist(d),
           NEW batch \in Seq(AnyMutation), Peaceful(d, ToSet(batch)), Distinct(batch),
           NEW n \in 1..Len(ApplicationOrder(batch)), NEW s \in RunStates,
           RunIs(d, batch, n - 1, s)
    PROVE  RunIs(d, batch, n, ApplyNext(s, Applied(batch, n)))
  <1> DEFINE B == ToSet(batch)
             M == Done(batch, n - 1)
             m == Applied(batch, n)
             t == ApplyNext(s, m)
  <1>1. /\ s.ok <=> Full(batch) /\ \A a \in M : Applicable(d, B, a)
        /\ s.ok => /\ IsEffect(d, M, s.doc)
                   /\ \A v : v \in s.limit <=> \E a \in M : v \in LimitChecks(d, a)
    BY DEF RunIs
  <1>2. s.doc \in Graphs /\ s.ok \in BOOLEAN
        /\ s = [ok |-> s.ok, doc |-> s.doc, limit |-> s.limit]
    BY DEF RunStates
  <1>3. Done(batch, n) = M \union {m} /\ ComesNext(B, M, m)
    BY DoneNext
  <1>4. Len(ApplicationOrder(batch)) \in Nat
    BY AppliedType
  <1>5. M \in SUBSET B /\ \A x \in M, y \in B : Produced(y) \in Required(x) => y \in M
    BY <1>4, DoneClosed
  <1> HIDE DEF B, M, m
  <1>6. CASE ~s.ok
    <2>1. ~t.ok
      BY <1>2, <1>6 DEF ApplyNext
    <2> HIDE DEF t
    <2> QED
      BY <1>1, <1>3, <1>6, <2>1 DEF RunIs, B, m, t
  <1>7. CASE s.ok
    <2>1. Reached(d, B, M, s.doc)
      BY <1>1, <1>2, <1>5, <1>7 DEF Reached, B
    <2>2. CanApply(s.doc, m) <=> Applicable(d, B, m)
      BY <1>3, <2>1, NextFits
    <2>3. CASE ~CanApply(s.doc, m)
      <3>1. ~t.ok
        BY <1>2, <2>3 DEF ApplyNext
      <3> HIDE DEF t
      <3> QED
        BY <1>1, <1>3, <2>2, <2>3, <3>1 DEF RunIs, B, m, t
    <2>4. CASE CanApply(s.doc, m)
      <3>1. /\ t.ok /\ t.doc = ApplyOne(s.doc, m)
            /\ t.limit = s.limit \union LimitChecks(s.doc, m)
        BY <1>7, <2>4 DEF ApplyNext
      <3>2. IsEffect(d, M \union {m}, t.doc)
        BY <1>3, <2>1, <2>4, <3>1, ComesToEffect
      <3>3. LimitChecks(s.doc, m) = LimitChecks(d, m)
        BY <1>3, <2>1, NextChecks
      <3> HIDE DEF t
      <3>4. \A v : v \in t.limit <=> \E a \in M \union {m} : v \in LimitChecks(d, a)
        BY <1>1, <1>7, <3>1, <3>3
      <3>5. Full(batch) /\ \A a \in M \union {m} : Applicable(d, B, a)
        BY <1>1, <1>7, <2>2, <2>4
      <3> QED
        BY <1>3, <3>1, <3>2, <3>4, <3>5 DEF RunIs, B, m, t
    <2> QED
      BY <2>3, <2>4
  <1> QED
    BY <1>2, <1>6, <1>7

LEMMA OutcomeIs ==
    ASSUME NEW d \in Graphs, ParentsExist(d),
           NEW batch \in Seq(AnyMutation), Peaceful(d, ToSet(batch)), Distinct(batch)
    PROVE  RunIs(d, batch, Len(ApplicationOrder(batch)), Outcome(d, batch))
  <1> DEFINE L == Len(ApplicationOrder(batch))
  <1>1. PICK f : IsRun(d, batch, f) /\ Outcome(d, batch) = f[L]
    BY RunSteps
  <1>2. /\ L \in Nat /\ f \in [0..L -> RunStates]
        /\ f[0].doc = d /\ f[0].limit = {} /\ (f[0].ok <=> Full(batch))
        /\ \A n \in 1..L : f[n] = ApplyNext(f[n - 1], Applied(batch, n))
    BY <1>1, AppliedType DEF IsRun, Full, Applied
  <1> HIDE DEF L
  <1> DEFINE T == {n \in Nat : n <= L => RunIs(d, batch, n, f[n])}
  <1>3. 0 \in T
    <2>1. Done(batch, 0) = {}
      BY DEF Done
    <2> QED
      BY <1>2, <2>1, NothingDone DEF RunIs
  <1>4. ASSUME NEW n \in 1..L, n - 1 \in T PROVE n \in T
    <2>1. f[n - 1] \in RunStates /\ n - 1 \in Nat /\ n - 1 <= L
      BY <1>2
    <2>2. RunIs(d, batch, n - 1, f[n - 1])
      BY <1>4, <2>1
    <2>3. f[n] = ApplyNext(f[n - 1], Applied(batch, n))
      BY <1>2
    <2> QED
      BY <1>2, <2>1, <2>2, <2>3, RunStepIs DEF L
  <1>5. L \in T
    <2> HIDE DEF T
    <2>1. T \in SUBSET Nat
      BY DEF T
    <2> QED
      BY <1>2, <1>3, <1>4, <2>1, CountUp
  <1> QED
    BY <1>1, <1>2, <1>5 DEF L

\* What the mutations of a set make of a graph is one graph.
LEMMA OneEffect ==
    ASSUME NEW d, NEW B, Peaceful(d, B), NEW g \in Graphs, NEW h \in Graphs,
           IsEffect(d, B, g), IsEffect(d, B, h)
    PROVE  g = h
  <1>1. /\ ObjectsAre(d, B, g) /\ MountsAre(d, B, g) /\ ContentsAre(d, B, g) /\ MembersAre(d, B, g)
        /\ ObjectsAre(d, B, h) /\ MountsAre(d, B, h) /\ ContentsAre(d, B, h) /\ MembersAre(d, B, h)
    BY DEF IsEffect
  <1>2. /\ g = [elements |-> g.elements, rels |-> g.rels, views |-> g.views]
        /\ h = [elements |-> h.elements, rels |-> h.rels, views |-> h.views]
    BY GraphFields
  <1>3. /\ DOMAIN g.elements \subseteq Elements /\ DOMAIN h.elements \subseteq Elements
        /\ DOMAIN g.rels \subseteq Relationships /\ DOMAIN h.rels \subseteq Relationships
        /\ DOMAIN g.views \subseteq Views /\ DOMAIN h.views \subseteq Views
    BY GraphFields
  <1>4. /\ g.elements = [x \in DOMAIN g.elements |-> g.elements[x]]
        /\ h.elements = [x \in DOMAIN h.elements |-> h.elements[x]]
        /\ g.rels = [x \in DOMAIN g.rels |-> g.rels[x]]
        /\ h.rels = [x \in DOMAIN h.rels |-> h.rels[x]]
        /\ g.views = [x \in DOMAIN g.views |-> g.views[x]]
        /\ h.views = [x \in DOMAIN h.views |-> h.views[x]]
    BY GraphFields, PartialType
  <1>5. /\ DOMAIN g.elements = DOMAIN h.elements
        /\ DOMAIN g.rels = DOMAIN h.rels
        /\ DOMAIN g.views = DOMAIN h.views
    BY <1>1, <1>3 DEF ObjectsAre
  <1>6. ASSUME NEW e \in DOMAIN g.elements PROVE g.elements[e] = h.elements[e]
    <2>1. g.elements[e] \in ElementTypes /\ h.elements[e] \in ElementTypes
      BY <1>5, GraphFields
    <2>2. \A v \in Views : v \in g.elements[e].subs <=> v \in h.elements[e].subs
      BY <1>1, <1>5 DEF MountsAre
    <2>3. g.elements[e].subs = h.elements[e].subs
      BY <2>1, <2>2 DEF ElementTypes
    <2>4. TextIs(d, B, e, g.elements[e].text) /\ TextIs(d, B, e, h.elements[e].text)
      BY <1>1, <1>5 DEF ContentsAre
    <2>5. \A m, a \in B : m.type = a.type /\ m.id = a.id => m = a
      BY PeacefulApart
    <2>6. g.elements[e].text = h.elements[e].text
      <3>1. CASE Retold(B, e)
        BY <2>4, <2>5, <3>1 DEF TextIs
      <3>2. CASE ~Retold(B, e)
        BY <2>4, <2>5, <3>2 DEF TextIs, Retold
      <3> QED
        BY <3>1, <3>2
    <2> QED
      BY <2>1, <2>3, <2>6 DEF ElementTypes
  <1>7. ASSUME NEW r \in DOMAIN g.rels PROVE g.rels[r] = h.rels[r]
    <2>1. EndsAre(d, B, r, g.rels[r]) /\ EndsAre(d, B, r, h.rels[r])
      BY <1>1, <1>5 DEF ContentsAre
    <2>2. \A m, a \in B : m.type = a.type /\ m.id = a.id => m = a
      BY PeacefulApart
    <2> QED
      BY <2>1, <2>2 DEF EndsAre
  <1>8. ASSUME NEW v \in DOMAIN g.views PROVE g.views[v] = h.views[v]
    <2>1. g.views[v] \in ViewTypes /\ h.views[v] \in ViewTypes
      BY <1>5, GraphFields
    <2>2. /\ \A e \in Elements : e \in g.views[v].els <=> e \in h.views[v].els
          /\ \A r \in Relationships : r \in g.views[v].rels <=> r \in h.views[v].rels
      BY <1>1, <1>5 DEF MembersAre
    <2>3. g.views[v].els = h.views[v].els
      BY <2>1, <2>2 DEF ViewTypes
    <2>4. g.views[v].rels = h.views[v].rels
      BY <2>1, <2>2 DEF ViewTypes
    <2>5. ParentIs(d, B, v, g.views[v].parent) /\ ParentIs(d, B, v, h.views[v].parent)
      BY <1>1, <1>5 DEF MountsAre
    <2>6. g.views[v].parent = h.views[v].parent
      BY <2>5, OneParent
    <2> QED
      BY <2>1, <2>3, <2>4, <2>6 DEF ViewTypes
  <1>9. g.elements = h.elements
    BY <1>4, <1>5, <1>6
  <1>10. g.rels = h.rels
    BY <1>4, <1>5, <1>7
  <1>11. g.views = h.views
    BY <1>4, <1>5, <1>8
  <1> QED
    BY <1>2, <1>9, <1>10, <1>11

-----------------------------------------------------------------------------
(* Whether the order takes in the whole batch.                             *)

\* The mutations that may come next after p.
ReadyAfter(batch, p) ==
    {i \in DOMAIN batch \ ToSet(p) : DependsOn(batch, i) \subseteq ToSet(p)}

LEMMA StopsAtNothingReady ==
    ASSUME NEW batch \in Seq(AnyMutation)
    PROVE  Full(batch) \/ ReadyAfter(batch, ApplicationOrder(batch)) = {}
  <1>1. PICK f : OrderBy(batch, f) /\ ApplicationOrder(batch) = f[Len(batch)]
    BY OrderSteps
  <1> DEFINE L == Len(batch)
             Goes(n) == Len(f[n]) = n \/ ReadyAfter(batch, f[n]) = {}
             T == {n \in Nat : n <= L => f[n] \in Orders(batch) /\ Goes(n)}
  <1>2. L \in Nat /\ f[0] = <<>> /\ \A n \in 1..L : f[n] = NextReady(batch, f[n - 1])
    BY <1>1 DEF OrderBy
  <1>3. 0 \in T
    <2>1. <<>> \in Orders(batch) /\ Len(<<>>) = 0
      BY DEF Orders, Sorted
    <2> QED
      BY <1>2, <2>1
  <1>4. ASSUME NEW n \in 1..L, n - 1 \in T PROVE n \in T
    <2>1. n - 1 <= L /\ n \in Nat
      BY <1>2
    <2>2. f[n - 1] \in Orders(batch) /\ Goes(n - 1)
      BY <1>4, <2>1
    <2>3. f[n] = NextReady(batch, f[n - 1])
      BY <1>2
    <2>4. f[n] = IF ReadyAfter(batch, f[n - 1]) = {} THEN f[n - 1]
                 ELSE Append(f[n - 1], Min(ReadyAfter(batch, f[n - 1])))
      BY <2>3 DEF NextReady, ReadyAfter
    <2>5. f[n] \in Orders(batch)
      BY <2>2, <2>3, NextReadySorted
    <2>6. CASE ReadyAfter(batch, f[n - 1]) = {}
      BY <2>1, <2>4, <2>5, <2>6
    <2>7. CASE ReadyAfter(batch, f[n - 1]) # {}
      <3>1. f[n - 1] \in Seq(DOMAIN batch) /\ Len(f[n - 1]) = n - 1
        BY <2>2, <2>7 DEF Orders
      <3>2. \A x : Len(Append(f[n - 1], x)) = n
        BY <2>1, <3>1
      <3> QED
        BY <2>1, <2>4, <2>5, <2>7, <3>2
    <2> QED
      BY <2>6, <2>7
  <1>5. L \in T
    <2> HIDE DEF T
    <2>1. T \in SUBSET Nat
      BY DEF T
    <2> QED
      BY <1>2, <1>3, <1>4, <2>1, CountUp
  <1> QED
    BY <1>1, <1>2, <1>5 DEF Full

\* The places of the order and those of the batch.
LEMMA FullMeansAll ==
    ASSUME NEW batch \in Seq(AnyMutation)
    PROVE  Full(batch) <=> ToSet(ApplicationOrder(batch)) = DOMAIN batch
  <1> DEFINE p == ApplicationOrder(batch)
             S == ToSet(p)
  <1>1. /\ p \in Seq(DOMAIN batch) /\ Sorted(batch, p) /\ Len(p) \in Nat /\ DOMAIN p = 1..Len(p)
        /\ Len(batch) \in Nat /\ DOMAIN batch = 1..Len(batch)
    BY OrderSorted DEF Orders
  <1> HIDE DEF p
  <1>2. S = {p[k] : k \in 1..Len(p)} /\ S \subseteq DOMAIN batch
    BY <1>1 DEF ToSet
  <1>3. ASSUME NEW j \in 1..Len(p), NEW k \in 1..Len(p), p[j] = p[k] PROVE j = k
    <2>1. \A a, b \in 1..Len(p) : a < b => p[a] # p[b]
      <3> SUFFICES ASSUME NEW a \in 1..Len(p), NEW b \in 1..Len(p), a < b PROVE p[a] # p[b]
        OBVIOUS
      <3>1. p[b] \notin Earlier(p, b) /\ a \in 1..(b - 1)
        BY <1>1 DEF Sorted
      <3> QED
        BY <3>1 DEF Earlier
    <2> QED
      BY <1>1, <1>3, <2>1
  <1>4. p \in Bijection(1..Len(p), S)
    <2>1. p \in [1..Len(p) -> S]
      BY <1>1, <1>2
    <2> QED
      BY <1>2, <1>3, <2>1 DEF Bijection, Injection, Surjection, IsInjective
  <1> HIDE DEF S
  <1>5. ASSUME NEW n \in Nat PROVE IsFiniteSet(1..n) /\ Cardinality(1..n) = n
    <2>1. n \in Int /\ 1 \in Int
      OBVIOUS
    <2>2. IsFiniteSet(1..n) /\ Cardinality(1..n) = IF 1 > n THEN 0 ELSE n - 1 + 1
      BY <2>1, FS_Interval
    <2> QED
      BY <2>2
  <1>6. IsFiniteSet(DOMAIN batch) /\ Cardinality(DOMAIN batch) = Len(batch)
    BY <1>1, <1>5
  <1>7. IsFiniteSet(S) /\ Cardinality(S) = Len(p)
    BY <1>1, <1>4, <1>5, FS_Bijection DEF ExistsBijection
  <1>8. Cardinality(DOMAIN batch) = Cardinality(S) => DOMAIN batch = S
    BY <1>2, <1>6, FS_Subset
  <1> QED
    BY <1>6, <1>7, <1>8 DEF Full, p, S

\* Mutations that wait for each other.
Stuck(B) ==
    \E S \in SUBSET B : S # {} /\ \A m \in S : \E y \in S : y # m /\ Produced(y) \in Required(m)

LEMMA FullUnlessStuck ==
    ASSUME NEW batch \in Seq(AnyMutation), Distinct(batch)
    PROVE  Full(batch) <=> ~Stuck(ToSet(batch))
  <1> DEFINE p == ApplicationOrder(batch)
  <1>1. /\ Sorted(batch, p) /\ Len(p) \in Nat /\ DOMAIN p = 1..Len(p)
        /\ \A k \in 1..Len(p) : p[k] \in DOMAIN batch
        /\ ToSet(p) = {p[k] : k \in 1..Len(p)}
    <2>1. p \in Seq(DOMAIN batch) /\ Sorted(batch, p)
      BY OrderSorted DEF Orders
    <2> QED
      BY <2>1 DEF ToSet
  <1>2. ToSet(batch) = {batch[i] : i \in DOMAIN batch}
    BY DEF ToSet
  <1> HIDE DEF p
  <1>3. ASSUME ~Full(batch) PROVE Stuck(ToSet(batch))
    <2> DEFINE left == DOMAIN batch \ ToSet(p)
               S == {batch[i] : i \in left}
    <2>1. ReadyAfter(batch, p) = {}
      BY <1>3, StopsAtNothingReady DEF p
    <2>2. left # {}
      <3>1. ToSet(p) # DOMAIN batch
        BY <1>3, FullMeansAll DEF p
      <3>2. ToSet(p) \subseteq DOMAIN batch
        BY <1>1
      <3> QED
        BY <3>1, <3>2
    <2>3. ASSUME NEW i \in left
          PROVE  \E j \in left : batch[j] # batch[i] /\ Produced(batch[j]) \in Required(batch[i])
      <3>1. ~(DependsOn(batch, i) \subseteq ToSet(p))
        BY <2>1 DEF ReadyAfter
      <3>2. PICK j \in DependsOn(batch, i) : j \notin ToSet(p)
        BY <3>1
      <3>3. j \in DOMAIN batch /\ j # i /\ Produced(batch[j]) \in Required(batch[i])
        BY <3>2 DEF DependsOn
      <3> QED
        BY <3>2, <3>3 DEF Distinct
    <2>4. S \in SUBSET ToSet(batch) /\ S # {}
      BY <1>2, <2>2
    <2>5. \A m \in S : \E y \in S : y # m /\ Produced(y) \in Required(m)
      BY <2>3
    <2> HIDE DEF S
    <2> QED
      BY <2>4, <2>5 DEF Stuck
  <1>4. ASSUME Full(batch), Stuck(ToSet(batch)) PROVE FALSE
    <2>1. PICK S \in SUBSET ToSet(batch) :
             S # {} /\ \A m \in S : \E y \in S : y # m /\ Produced(y) \in Required(m)
      BY <1>4 DEF Stuck
    <2>2. ToSet(p) = DOMAIN batch
      BY <1>4, FullMeansAll DEF p
    <2> DEFINE K == {k \in 1..Len(p) : batch[p[k]] \in S}
    <2>3. \A m \in S : \E k \in K : m = batch[p[k]]
      <3> SUFFICES ASSUME NEW m \in S PROVE \E k \in K : m = batch[p[k]]
        OBVIOUS
      <3>1. PICK i \in DOMAIN batch : m = batch[i]
        BY <1>2
      <3>2. PICK k \in 1..Len(p) : p[k] = i
        BY <1>1, <2>2, <3>1
      <3> QED
        BY <3>1, <3>2
    <2>4. K \in SUBSET Nat /\ K # {}
      BY <1>1, <2>1, <2>3
    <2>5. PICK k \in K : \A j \in K : k <= j
      BY <2>4, SmallestIsIn
    <2>6. PICK y \in S : y # batch[p[k]] /\ Produced(y) \in Required(batch[p[k]])
      BY <2>1, <2>5
    <2>7. PICK j \in K : y = batch[p[j]]
      BY <2>3, <2>6
    <2>8. p[j] \in DependsOn(batch, p[k])
      BY <1>1, <2>6, <2>7 DEF DependsOn
    <2>9. DependsOn(batch, p[k]) \subseteq Earlier(p, k)
      BY <1>1 DEF Sorted
    <2>10. PICK i \in 1..(k - 1) : p[i] = p[j]
      BY <2>8, <2>9 DEF Earlier
    <2>11. i \in K
      BY <1>1, <2>7, <2>10
    <2> QED
      BY <1>1, <2>5, <2>11
  <1> QED
    BY <1>3, <1>4

LEMMA FullDoesAll ==
    ASSUME NEW batch \in Seq(AnyMutation), Full(batch)
    PROVE  Done(batch, Len(ApplicationOrder(batch))) = ToSet(batch)
  <1> DEFINE p == ApplicationOrder(batch)
  <1>1. ToSet(p) = DOMAIN batch
    BY FullMeansAll
  <1>2. p \in Seq(DOMAIN batch)
    BY OrderSorted DEF Orders
  <1>3. ToSet(p) = {p[k] : k \in 1..Len(p)}
    BY <1>2 DEF ToSet
  <1>4. Done(batch, Len(p)) = {batch[p[k]] : k \in 1..Len(p)}
    BY DEF Done, Applied
  <1>5. ToSet(batch) = {batch[i] : i \in DOMAIN batch}
    BY DEF ToSet
  <1> HIDE DEF p
  <1>6. \A i \in DOMAIN batch : \E k \in 1..Len(p) : p[k] = i
    BY <1>1, <1>3
  <1>7. \A k \in 1..Len(p) : p[k] \in DOMAIN batch
    BY <1>1, <1>3
  <1>8. ToSet(batch) = {batch[p[k]] : k \in 1..Len(p)}
    BY <1>5, <1>6, <1>7
  <1> QED
    BY <1>4, <1>8 DEF p

-----------------------------------------------------------------------------
(* Two listings of the same mutations.                                     *)

LEMMA SameOutcome ==
    ASSUME NEW d \in Graphs, ParentsExist(d),
           NEW a \in Seq(AnyMutation), Distinct(a), NEW b \in Seq(AnyMutation), Distinct(b),
           ToSet(a) = ToSet(b), Peaceful(d, ToSet(a))
    PROVE  /\ Outcome(d, a).ok <=> Outcome(d, b).ok
           /\ Outcome(d, a).ok =>
                 /\ Outcome(d, a).doc = Outcome(d, b).doc
                 /\ Outcome(d, a).limit = Outcome(d, b).limit
  <1> DEFINE B == ToSet(a)
             x == Outcome(d, a)
             y == Outcome(d, b)
  <1>1. x \in RunStates /\ y \in RunStates
    BY OutcomeAccounted
  <1>2. /\ RunIs(d, a, Len(ApplicationOrder(a)), x)
        /\ RunIs(d, b, Len(ApplicationOrder(b)), y)
    BY OutcomeIs
  <1>3. /\ Full(a) => Done(a, Len(ApplicationOrder(a))) = B
        /\ Full(b) => Done(b, Len(ApplicationOrder(b))) = B
    BY FullDoesAll
  <1>4. Full(a) <=> Full(b)
    BY FullUnlessStuck
  <1> HIDE DEF x, y, B
  <1>5. /\ x.ok <=> Full(a) /\ \A m \in B : Applicable(d, B, m)
        /\ x.ok => /\ IsEffect(d, B, x.doc)
                   /\ \A v : v \in x.limit <=> \E m \in B : v \in LimitChecks(d, m)
    BY <1>2, <1>3 DEF RunIs, B
  <1>6. /\ y.ok <=> Full(b) /\ \A m \in B : Applicable(d, B, m)
        /\ y.ok => /\ IsEffect(d, B, y.doc)
                   /\ \A v : v \in y.limit <=> \E m \in B : v \in LimitChecks(d, m)
    BY <1>2, <1>3 DEF RunIs, B
  <1>7. x.ok <=> y.ok
    BY <1>4, <1>5, <1>6
  <1>8. ASSUME x.ok PROVE x.doc = y.doc /\ x.limit = y.limit
    <2>1. x.doc \in Graphs /\ y.doc \in Graphs /\ x.limit \in SUBSET Views /\ y.limit \in SUBSET Views
      BY <1>1 DEF RunStates
    <2>2. x.doc = y.doc
      BY <1>5, <1>6, <1>7, <1>8, <2>1, OneEffect DEF B
    <2>3. x.limit = y.limit
      BY <1>5, <1>6, <1>7, <1>8, <2>1
    <2> QED
      BY <2>2, <2>3
  <1> QED
    BY <1>7, <1>8 DEF x, y

\* The gate looks at what a batch lists, not at the order.
LEMMA SameWritten ==
    ASSUME NEW d \in Graphs, ParentsExist(d),
           NEW c, NEW e, c.ack = e.ack,
           c.batch \in Seq(AnyMutation), Distinct(c.batch),
           e.batch \in Seq(AnyMutation), Distinct(e.batch),
           ToSet(c.batch) = ToSet(e.batch), Peaceful(d, ToSet(c.batch))
    PROVE  Written(d, c) = Written(d, e)
  <1> DEFINE x == Outcome(d, c.batch)
             y == Outcome(d, e.batch)
  <1>1. \A next : RemovedObjects(d, next, c.batch) = RemovedObjects(d, next, e.batch)
    BY DEF RemovedObjects, Named
  <1>2. \A next : Blocked(d, next, c) <=> Blocked(d, next, e)
    BY <1>1 DEF Blocked
  <1>3. /\ x.ok <=> y.ok
        /\ x.ok => x.doc = y.doc /\ x.limit = y.limit
    BY SameOutcome
  <1>4. /\ Written(d, c) = {next \in {x.doc} : x.ok /\ Valid(next, x.limit) /\ ~Blocked(d, next, c)}
        /\ Written(d, e) = {next \in {y.doc} : y.ok /\ Valid(next, y.limit) /\ ~Blocked(d, next, e)}
    BY DEF Written
  <1> HIDE DEF x, y
  <1>5. CASE x.ok
    BY <1>2, <1>3, <1>4, <1>5
  <1>6. CASE ~x.ok
    BY <1>3, <1>4, <1>6
  <1> QED
    BY <1>5, <1>6

LEMMA Reordered ==
    ASSUME NEW call \in Calls, Distinct(call.batch),
           NEW p \in Bijection(1..Len(call.batch), 1..Len(call.batch))
    PROVE  LET other == [call EXCEPT !.batch = [i \in 1..Len(call.batch) |-> @[p[i]]]] IN
           /\ other.ack = call.ack
           /\ other.batch \in Seq(AnyMutation)
           /\ Distinct(other.batch)
           /\ ToSet(other.batch) = ToSet(call.batch)
  <1> DEFINE n == Len(call.batch)
             b == [i \in 1..n |-> call.batch[p[i]]]
             other == [call EXCEPT !.batch = [i \in 1..n |-> @[p[i]]]]
  <1>1. call \in [batch : Seq(AnyMutation), ack : BOOLEAN]
    BY MutationInputs
  <1>2. other.ack = call.ack /\ other.batch = b
    BY <1>1
  <1>3. /\ n \in Nat /\ DOMAIN call.batch = 1..n
        /\ \A i \in 1..n : call.batch[i] \in AnyMutation
    BY <1>1
  <1>4. /\ p \in [1..n -> 1..n]
        /\ \A i, j \in 1..n : p[i] = p[j] => i = j
        /\ \A k \in 1..n : \E i \in 1..n : p[i] = k
    BY DEF Bijection, Injection, Surjection, IsInjective
  <1> HIDE DEF other, n
  <1>5. b \in Seq(AnyMutation)
    <2>1. \A i \in 1..n : p[i] \in 1..n
      BY <1>4
    <2>2. \A i \in 1..n : call.batch[p[i]] \in AnyMutation
      BY <1>3, <2>1
    <2>3. b \in [1..n -> AnyMutation]
      BY <2>2
    <2>4. \A q : q \in [1..n -> AnyMutation] => q \in Seq(AnyMutation)
      BY <1>3
    <2> HIDE DEF b
    <2> QED
      BY <2>3, <2>4
  <1>6. DOMAIN b = 1..n /\ \A i \in 1..n : b[i] = call.batch[p[i]]
    OBVIOUS
  <1> HIDE DEF b
  <1>7. Distinct(b)
    <2> SUFFICES ASSUME NEW i \in 1..n, NEW j \in 1..n, b[i] = b[j] PROVE i = j
      BY <1>6 DEF Distinct
    <2>1. p[i] \in 1..n /\ p[j] \in 1..n
      BY <1>4
    <2>2. call.batch[p[i]] = call.batch[p[j]]
      BY <1>6
    <2>3. p[i] = p[j]
      BY <1>3, <2>1, <2>2 DEF Distinct
    <2> QED
      BY <1>4, <2>3
  <1>8. ToSet(b) = ToSet(call.batch)
    <2>1. ToSet(b) = {b[i] : i \in 1..n} /\ ToSet(call.batch) = {call.batch[i] : i \in 1..n}
      BY <1>3, <1>6 DEF ToSet
    <2>2. ASSUME NEW i \in 1..n PROVE \E j \in 1..n : b[i] = call.batch[j]
      <3>1. p[i] \in 1..n
        BY <1>4
      <3> QED
        BY <1>6, <3>1
    <2>3. ASSUME NEW j \in 1..n PROVE \E i \in 1..n : b[i] = call.batch[j]
      <3>1. PICK i \in 1..n : p[i] = j
        BY <1>4
      <3> QED
        BY <1>6, <3>1
    <2>4. ToSet(b) \subseteq ToSet(call.batch)
      BY <2>1, <2>2
    <2>5. ToSet(call.batch) \subseteq ToSet(b)
      BY <2>1, <2>3
    <2> QED
      BY <2>4, <2>5
  <1> QED
    BY <1>2, <1>5, <1>7, <1>8 DEF other, n

LEMMA OrderFree ==
    ASSUME NEW d \in Graphs, ParentsExist(d), NEW call \in Calls, Compatible(d, call.batch),
           NEW p \in Bijection(1..Len(call.batch), 1..Len(call.batch))
    PROVE  Written(d, [call EXCEPT !.batch = [i \in 1..Len(call.batch) |-> @[p[i]]]]) = Written(d, call)
  <1> DEFINE other == [call EXCEPT !.batch = [i \in 1..Len(call.batch) |-> @[p[i]]]]
  <1>1. call.batch \in Seq(AnyMutation)
    BY CallType
  <1>2. Peaceful(d, ToSet(call.batch)) /\ Distinct(call.batch)
    BY <1>1, CompatibleApart
  <1>3. /\ other.ack = call.ack /\ other.batch \in Seq(AnyMutation)
        /\ Distinct(other.batch) /\ ToSet(other.batch) = ToSet(call.batch)
    BY <1>2, Reordered
  <1> HIDE DEF other
  <1>4. Written(d, other) = Written(d, call)
    BY <1>1, <1>2, <1>3, SameWritten
  <1> QED
    BY <1>4 DEF other

-----------------------------------------------------------------------------
(* Theorems.                                                               *)

LEMMA RepairedType ==
    ASSUME NEW d \in Graphs
    PROVE  Repaired(d) \in Graphs
  BY RepairMendsAll DEF MendedFor

LEMMA TypeStep ==
    ASSUME TypeOK, [Next]_doc
    PROVE  TypeOK'
  <1>1. doc \in Graphs
    BY DEF TypeOK
  <1>2. CASE UNCHANGED doc
    BY <1>1, <1>2 DEF TypeOK
  <1>3. CASE Repair
    BY <1>1, <1>3, RepairedType DEF Repair, TypeOK
  <1>4. ASSUME NEW call \in Calls, Submit(call) PROVE TypeOK'
    BY <1>1, <1>4, WrittenIs DEF Submit, TypeOK
  <1>5. ASSUME NEW call \in Calls, Refuse(call) PROVE TypeOK'
    BY <1>1, <1>5 DEF Refuse, TypeOK
  <1> QED
    BY <1>2, <1>3, <1>4, <1>5 DEF Next

\* A call of one mutation meets the conditions on batches.
LEMMA OneMutation ==
    ASSUME NEW m \in AnyMutation
    PROVE  Unmixed(<<m>>) /\ Coherent(<<m>>)
  <1>1. ToSet(<<m>>) = {m}
    BY DEF ToSet
  <1> QED
    BY <1>1 DEF Unmixed, Coherent, Checking, Widening

\* The file holds a graph: no batch of mutations that applyMutations lets through,
\* and no repair, leaves a list or an object of another shape.
THEOREM TypeCorrect == Spec => []TypeOK
  <1>1. Init => TypeOK
    BY MutationInputs DEF Init, TypeOK
  <1>2. TypeOK /\ [Next]_doc => TypeOK'
    BY TypeStep
  <1> QED
    BY <1>1, <1>2, PTL DEF Spec

\* Every element and view that any call deletes, and every relationship that it
\* removes by name, goes into the tombstone ledger (removedObjects), whatever the
\* batch and the order it was applied in.
THEOREM AllRecorded == Spec => []DeletionsRecorded
  BY TypeCorrect, RecordedAlways, PTL

\* The lossless write gate: what a call that acknowledges nothing leaves is every
\* element, every view, every part of every text, and every member of a view whose
\* list it replaces.
THEOREM NothingLost == Spec => []KeptWithoutAck
  BY TypeCorrect, KeptAlways, PTL

\* repair-subdiagram-views.js: one pass brings what the elements list into line
\* with the parents of the views, and changes no view.
THEOREM RepairMends == Spec => []RepairConverges
  <1>1. TypeOK => RepairConverges
    <2> SUFFICES ASSUME TypeOK PROVE RepairConverges
      OBVIOUS
    <2>1. MendedFor(doc, Repaired(doc), DOMAIN doc.elements)
      BY RepairMendsAll DEF TypeOK
    <2> QED
      BY <2>1 DEF MendedFor, RepairConverges
  <1> QED
    BY <1>1, TypeCorrect, PTL

\* validateViewElementLimits, told by most mutations to look at some views only,
\* or at none, misses no view that grew: true of batches that do not mix the two
\* kinds (see Unmixed), and so of every call of one mutation.
THEOREM StaysWithinLimit ==
    ASSUME \A c \in Calls : Unmixed(c.batch),
           \A d \in Docs : WithinLimitIn(d, DOMAIN d.views)
    PROVE  Spec => []WithinLimit
  <1>1. Init => WithinLimit
    BY DEF Init, WithinLimit
  <1>2. TypeOK /\ WithinLimit /\ [Next]_doc => WithinLimit'
    <2> SUFFICES ASSUME TypeOK, WithinLimit, [Next]_doc PROVE WithinLimitIn(doc', DOMAIN doc'.views)
      BY DEF WithinLimit
    <2>1. doc \in Graphs /\ WithinLimitIn(doc, DOMAIN doc.views)
      BY DEF TypeOK, WithinLimit
    <2>2. CASE UNCHANGED doc
      BY <2>1, <2>2
    <2>3. CASE Repair
      <3>1. Repaired(doc).views = doc.views
        BY <2>1, RepairMendsAll DEF MendedFor
      <3> QED
        BY <2>1, <2>3, <3>1 DEF Repair, WithinLimitIn
    <2>4. ASSUME NEW call \in Calls, Submit(call) PROVE WithinLimitIn(doc', DOMAIN doc'.views)
      BY <2>1, <2>4, WrittenWithinLimit DEF Submit
    <2>5. ASSUME NEW call \in Calls, Refuse(call) PROVE WithinLimitIn(doc', DOMAIN doc'.views)
      BY <2>1, <2>5 DEF Refuse
    <2> QED
      BY <2>2, <2>3, <2>4, <2>5 DEF Next
  <1> QED
    BY <1>1, <1>2, TypeCorrect, PTL DEF Spec

\* Every view hangs under an element of the graph, from the first graph on.
LEMMA ParentsStay ==
    ASSUME \A d \in Docs : ParentsExist(d)
    PROVE  Spec => []ParentsExist(doc)
  <1>1. Init => ParentsExist(doc)
    BY DEF Init
  <1>2. TypeOK /\ ParentsExist(doc) /\ [Next]_doc => ParentsExist(doc)'
    <2> SUFFICES ASSUME TypeOK, ParentsExist(doc), [Next]_doc PROVE ParentsExist(doc')
      OBVIOUS
    <2>1. doc \in Graphs
      BY DEF TypeOK
    <2>2. CASE UNCHANGED doc
      BY <2>2
    <2>3. CASE Repair
      <3>1. Repaired(doc).views = doc.views /\ DOMAIN Repaired(doc).elements = DOMAIN doc.elements
        BY <2>1, RepairMendsAll DEF MendedFor
      <3> QED
        BY <2>3, <3>1 DEF Repair, ParentsExist
    <2>4. ASSUME NEW call \in Calls, Submit(call) PROVE ParentsExist(doc')
      BY <2>1, <2>4, WrittenIs DEF Submit, Valid, ValidGraph, ParentsExist
    <2>5. ASSUME NEW call \in Calls, Refuse(call) PROVE ParentsExist(doc')
      BY <2>5 DEF Refuse
    <2> QED
      BY <2>2, <2>3, <2>4, <2>5 DEF Next
  <1> QED
    BY <1>1, <1>2, TypeCorrect, PTL DEF Spec

\* Six mutations maintain the two sides of a mount separately, and keep them in
\* agreement through any batch that is of one mind about the mounts whose ends it
\* adds, and so through every call of one mutation.
THEOREM LinksStay ==
    ASSUME \A d \in Docs : ParentsExist(d)
    PROVE  Spec => []LinksKept
  <1>1. TypeOK /\ ParentsExist(doc) => LinksKept
    <2> SUFFICES ASSUME TypeOK, ParentsExist(doc), Drifted(doc) = {}, NEW call \in Calls,
                        Coherent(call.batch), NEW next \in Written(doc, call)
                 PROVE  Agrees(next)
      BY DEF LinksKept
    <2>1. doc \in Graphs
      BY DEF TypeOK
    <2>2. next = Outcome(doc, call.batch).doc /\ Outcome(doc, call.batch).ok
      BY <2>1, WrittenIs
    <2> QED
      BY <2>1, <2>2, CallType, OutcomeAgrees
  <1> QED
    BY <1>1, ParentsStay, TypeCorrect, PTL

\* Whether a batch of mutations that do not clash is written, and what it makes
\* of the graph, is the same in whatever order the batch lists them.
THEOREM AnyOrderWill ==
    ASSUME \A d \in Docs : ParentsExist(d)
    PROVE  Spec => []OrderIndependent
  <1>1. TypeOK /\ ParentsExist(doc) => OrderIndependent
    <2> SUFFICES ASSUME TypeOK, ParentsExist(doc), NEW call \in Calls, Compatible(doc, call.batch)
                 PROVE  ~OrderMatters(call)
      BY DEF OrderIndependent
    <2>1. doc \in Graphs
      BY DEF TypeOK
    <2> QED
      BY <2>1, OrderFree DEF OrderMatters
  <1> QED
    BY <1>1, ParentsStay, TypeCorrect, PTL
=============================================================================
