------------------------- MODULE EaWebServiceProofs -------------------------
(***************************************************************************)
(* The undo and redo stacks of the EA web service form one history of the  *)
(* graph (OneHistoryAlways), for every set of objects and contents, every  *)
(* stack depth and every number of requests, however they are pipelined.   *)
(***************************************************************************)
EXTENDS EaWebService, SequenceTheorems, TLAPS

Popped == {"undo", "redo"}

WaitingJobs ==
    [kind : {"edit"}, step : {"start"}, call : Calls]
    \union [kind : Popped, step : {"start"}, command : Commands]
    \union [kind : {"import"}, step : {"start"}, graph : Graphs]

StartedJobs ==
    [kind : {"edit"}, step : {"call", "called"}, call : Calls, before : Graphs]
    \union [kind : Popped, step : {"called"}, command : Commands]

TypeInv ==
    /\ doc \in Graphs
    /\ undo \in Seq(Commands)
    /\ redo \in Seq(Commands)
    /\ Len(undo) <= Depth
    /\ queue \in Seq(WaitingJobs)
    /\ job \in {Idle} \union WaitingJobs \union StartedJobs
    /\ requests \in Nat
    /\ Len(queue) <= requests
    /\ interfered \in BOOLEAN

-----------------------------------------------------------------------------
(* The invariant.                                                          *)

\* The command says what its call does, and what undoes it.
Faithful(c) ==
    c.kind = "call" =>
        /\ c.call.tool # "batch"
        /\ Accepts(c.before, c.call)
        /\ c.inverse = DeriveInverse(c.call, c.before)
        /\ c.after = Effect(c.before, c.call)

AllFaithful ==
    /\ \A i \in 1..Len(undo) : Faithful(undo[i])
    /\ \A i \in 1..Len(redo) : Faithful(redo[i])
    /\ \A i \in 1..Len(queue) : queue[i].kind \in Popped => Faithful(queue[i].command)
    /\ job.kind \in Popped => Faithful(job.command)

\* Where the two stacks meet, seen from either: the running job stands between.
UndoMeets ==
    IF job.kind \in Popped THEN job.command.before
    ELSE IF At("edit", "called") THEN job.before ELSE doc

RedoMeets ==
    IF job.kind \in Popped THEN job.command.after
    ELSE IF At("edit", "called") THEN job.before ELSE doc

\* Nothing of another kind comes before a command that was popped.
InTurn ==
    \A i \in 1..Len(queue) :
        queue[i].kind \in Popped =>
            /\ job.kind \in {"none", queue[i].kind}
            /\ \A j \in 1..(i - 1) : queue[j].kind = queue[i].kind

UndoChain(s) == \A i \in 1..(Len(s) - 1) : s[i].after = s[i + 1].before
RedoChain(s) == \A i \in 1..(Len(s) - 1) : s[i + 1].after = s[i].before

\* The popped commands go on where the running one stops, each where the one
\* before it stops.
PoppedChain ==
    \A i \in 1..Len(queue) :
        /\ queue[i].kind = "undo" =>
              queue[i].command.after =
                 IF i = 1 THEN UndoMeets ELSE queue[i - 1].command.before
        /\ queue[i].kind = "redo" =>
              queue[i].command.before =
                 IF i = 1 THEN RedoMeets ELSE queue[i - 1].command.after

\* i is the last command of its kind, the last that was popped, in the queue.
LastOf(kind, i) ==
    queue[i].kind = kind /\ (i = Len(queue) \/ queue[i + 1].kind # kind)

\* The stacks begin where the last popped command stops.
UndoEnd ==
    undo # <<>> =>
        /\ \A i \in 1..Len(queue) :
              LastOf("undo", i) => Last(undo).after = queue[i].command.before
        /\ queue = <<>> \/ queue[1].kind # "undo" => Last(undo).after = UndoMeets

RedoEnd ==
    redo # <<>> =>
        /\ \A i \in 1..Len(queue) :
              LastOf("redo", i) => Last(redo).before = queue[i].command.after
        /\ queue = <<>> \/ queue[1].kind # "redo" => Last(redo).before = RedoMeets

\* Where the graph stands while a job runs.
DocStands ==
    /\ job.kind = "undo" =>
          doc = IF job.step = "start" THEN job.command.after ELSE job.command.before
    /\ job.kind = "redo" =>
          doc = IF job.step = "start" THEN job.command.before ELSE job.command.after
    /\ At("edit", "call") => doc = job.before
    /\ At("edit", "called") =>
          Accepts(job.before, job.call) /\ doc = Effect(job.before, job.call)

Linked ==
    /\ AllFaithful
    /\ InTurn
    /\ UndoChain(undo)
    /\ RedoChain(redo)
    /\ PoppedChain
    /\ UndoEnd
    /\ RedoEnd
    /\ DocStands

HistoryInv == ~interfered => Linked

-----------------------------------------------------------------------------
(* Calls, graphs and commands                                              *)

LEMMA CallKinds ==
    ASSUME NEW c \in Calls
    PROVE  \/ c.tool = "add" /\ c.id \in Objects /\ c.value \in Contents \union {Absent}
           \/ /\ c.tool = "update" /\ c.id \in Objects /\ c.text \in Texts \union {Keep}
              /\ c.add \subseteq Items /\ c.remove \subseteq Items
           \/ c.tool = "remove" /\ c.id \in Objects /\ c.scope \subseteq Views
           \/ /\ c.tool = "batch"
              /\ \A o \in DOMAIN c.changes : o \in Objects /\ c.changes[o] \in Contents \union {Absent}
  <1>1. CASE c \in [tool : {"add"}, id : Objects, value : Contents \union {Absent}]
    BY <1>1
  <1>2. CASE c \in [tool : {"update"}, id : Objects, text : Texts \union {Keep},
                    add : SUBSET Items, remove : SUBSET Items, whole : BOOLEAN]
    BY <1>2
  <1>3. CASE c \in [tool : {"remove"}, id : Objects, scope : SUBSET Views]
    BY <1>3
  <1>4. CASE c \in [tool : {"batch"},
                    changes : UNION {[S -> Contents \union {Absent}] : S \in SUBSET Objects}]
    <2>1. c.tool = "batch"
          /\ c.changes \in UNION {[S -> Contents \union {Absent}] : S \in SUBSET Objects}
      BY <1>4
    <2>2. PICK S \in SUBSET Objects : c.changes \in [S -> Contents \union {Absent}]
      BY <2>1
    <2>3. DOMAIN c.changes = S /\ \A o \in S : c.changes[o] \in Contents \union {Absent}
      BY <2>2
    <2> QED
      BY <2>1, <2>3
  <1> QED
    BY <1>1, <1>2, <1>3, <1>4 DEF Calls

\* A graph changed in one object.
LEMMA ChangedGraph ==
    ASSUME NEW g \in Graphs, NEW o \in Objects, NEW v \in Contents \union {Absent}
    PROVE  [g EXCEPT ![o] = v] \in Graphs
  BY DEF Graphs

LEMMA EffectType ==
    ASSUME NEW g \in Graphs, NEW c \in Calls, Accepts(g, c)
    PROVE  Effect(g, c) \in Graphs
  <1>1. CASE c.tool = "add"
    <2> DEFINE r == Reached(g, c)
               new == IF g[r] = Absent THEN Created(c.value) ELSE Placed(g[r], c.value.shown)
    <2>1. c.id \in Objects /\ c.value \in Contents
      BY <1>1, CallKinds DEF Accepts
    <2>2. r \in Objects
      BY <2>1 DEF Reached
    <2>3. new \in Contents
      BY <2>1, <2>2 DEF Graphs, Contents, Created, Placed
    <2>4. Effect(g, c) = [g EXCEPT ![r] = new]
      BY <1>1 DEF Effect
    <2> HIDE DEF r, new
    <2> QED
      BY <2>2, <2>3, <2>4, ChangedGraph
  <1>2. CASE c.tool = "update"
    <2>1. /\ c.id \in Objects /\ c.text \in Texts \union {Keep}
          /\ c.add \subseteq Items /\ c.remove \subseteq Items
      BY <1>2, CallKinds
    <2>2. g[c.id] \in Contents
      BY <1>2, <2>1 DEF Accepts, Graphs
    <2>3. Patched(g[c.id], c) \in Contents
      BY <2>1, <2>2 DEF Contents, Patched
    <2> QED
      BY <1>2, <2>1, <2>3, ChangedGraph DEF Effect
  <1>3. CASE c.tool = "remove"
    <2>1. c.id \in Objects /\ g[c.id] \in Contents
      BY <1>3, CallKinds DEF Accepts, Graphs
    <2>2. TakenFrom(g[c.id], c.scope) \in Contents
      BY <2>1 DEF Contents, TakenFrom
    <2> QED
      BY <1>3, <2>1, <2>2, ChangedGraph DEF Effect
  <1>4. CASE c.tool = "batch"
    <2>1. \A o \in DOMAIN c.changes : o \in Objects /\ c.changes[o] \in Contents \union {Absent}
      BY <1>4, CallKinds
    <2> QED
      BY <1>4, <2>1 DEF Effect, Graphs
  <1> QED
    BY <1>1, <1>2, <1>3, <1>4, CallKinds

LEMMA InverseType ==
    ASSUME NEW c \in Calls, c.tool # "batch", NEW g \in Graphs
    PROVE  DeriveInverse(c, g) \in Calls
  <1>1. c.id \in Objects /\ g[c.id] \in Contents \union {Absent}
    BY CallKinds DEF Graphs
  <1>2. CASE c.tool = "add"
    BY <1>1, <1>2 DEF DeriveInverse, Calls, RemoveCall
  <1>3. CASE c.tool = "remove"
    BY <1>1, <1>3 DEF DeriveInverse, Calls, AddCall
  <1>4. CASE c.tool = "update"
    <2> DEFINE i == OldFields(c, g[c.id])
    <2>1. g[c.id] # Absent => g[c.id].text \in Texts /\ g[c.id].items \subseteq Items
      BY <1>1 DEF Contents
    <2>2. PatchesItems(c) \in BOOLEAN
      BY DEF PatchesItems
    <2>3. \A text \in Texts \union {Keep}, add \in SUBSET Items, whole \in BOOLEAN :
            UpdateCall(c.id, text, add, {}, whole) \in Calls
      BY <1>1 DEF Calls, UpdateCall
    <2>4. i \in Calls
      BY <2>1, <2>2, <2>3 DEF OldFields
    <2> QED
      BY <1>4, <2>4 DEF DeriveInverse
  <1> QED
    BY <1>2, <1>3, <1>4, CallKinds

LEMMA CommandType ==
    ASSUME NEW c \in Calls, NEW g \in Graphs, NEW h \in Graphs
    PROVE  /\ Command(c, g, h) \in Commands
           /\ Command(c, g, h).before = g
           /\ Command(c, g, h).after = h
  <1>1. CASE c.tool = "batch"
    BY <1>1 DEF Command, Commands
  <1>2. CASE c.tool # "batch"
    <2>1. DeriveInverse(c, g) \in Calls
      BY <1>2, InverseType
    <2> QED
      BY <1>2, <2>1 DEF Command, Commands
  <1> QED
    BY <1>1, <1>2

\* A call that the MCP accepted makes a faithful command.
LEMMA NewCommandFaithful ==
    ASSUME NEW c \in Calls, NEW g \in Graphs, Accepts(g, c)
    PROVE  Faithful(Command(c, g, Effect(g, c)))
  BY DEF Faithful, Command

LEMMA CommandFields ==
    ASSUME NEW c \in Commands
    PROVE  /\ c.kind \in {"snapshot", "call"} /\ c.call \in Calls /\ c.inverse \in Calls
           /\ c.before \in Graphs /\ c.after \in Graphs
  BY DEF Commands

\* What an update did to one object, its inverse puts right: the old text comes
\* back, and the old entries do; nothing was added that would stay.
LEMMA OldFieldsRestore ==
    ASSUME NEW v \in Contents, NEW c, c.text \in Texts \union {Keep}, c.add \subseteq v.items
    PROVE  Patched(Patched(v, c), OldFields(c, v)) = v
  <1> DEFINE i == OldFields(c, v)
             m == Patched(v, c)
  <1>1. /\ v = [text |-> v.text, items |-> v.items, shown |-> v.shown, linked |-> v.linked]
        /\ v.text \in Texts /\ v # Absent /\ Keep \notin Texts
    BY ServiceConstants DEF Contents
  <1>2. /\ i.text = IF c.text = Keep THEN Keep ELSE v.text
        /\ i.add = IF PatchesItems(c) THEN v.items ELSE {}
        /\ i.remove = {}
    BY <1>1 DEF OldFields, UpdateCall
  <1>3. /\ m.text = IF c.text = Keep THEN v.text ELSE c.text
        /\ m.items = (v.items \ c.remove) \union c.add
        /\ m.shown = v.shown /\ m.linked = v.linked
    BY DEF Patched
  <1>4. (IF i.text = Keep THEN m.text ELSE i.text) = v.text
    BY <1>1, <1>2, <1>3
  <1>5. (m.items \ i.remove) \union i.add = v.items
    <2>1. CASE PatchesItems(c)
      BY <1>2, <1>3, <2>1
    <2>2. CASE ~PatchesItems(c)
      <3>1. c.add = {} /\ c.remove = {}
        BY <2>2 DEF PatchesItems
      <3> QED
        BY <1>2, <1>3, <2>2, <3>1
    <2> QED
      BY <2>1, <2>2
  <1>6. Patched(m, i) = [text |-> v.text, items |-> v.items, shown |-> v.shown, linked |-> v.linked]
    BY <1>3, <1>4, <1>5 DEF Patched
  <1> QED
    BY <1>1, <1>6

\* Shown again where it was, an object is what it was, if nothing went with it.
LEMMA PlacedAgain ==
    ASSUME NEW v \in Contents, NEW scope, v.linked \intersect scope = {}
    PROVE  Placed(TakenFrom(v, scope), v.shown) = v
  <1> DEFINE m == TakenFrom(v, scope)
  <1>1. v = [text |-> v.text, items |-> v.items, shown |-> v.shown, linked |-> v.linked]
    BY DEF Contents
  <1>2. m.text = v.text /\ m.items = v.items /\ m.shown = v.shown \ scope /\ m.linked = v.linked \ scope
    BY DEF TakenFrom
  <1>3. m.shown \union v.shown = v.shown /\ m.linked = v.linked
    BY <1>2
  <1>4. Placed(m, v.shown) = [text |-> v.text, items |-> v.items, shown |-> v.shown, linked |-> v.linked]
    BY <1>2, <1>3 DEF Placed
  <1> QED
    BY <1>1, <1>4

\* An object that was changed and changed back.
LEMMA ChangedBack ==
    ASSUME NEW g \in Graphs, NEW o \in Objects, NEW v
    PROVE  /\ [g EXCEPT ![o] = v][o] = v
           /\ [[g EXCEPT ![o] = v] EXCEPT ![o] = g[o]] = g
  BY DEF Graphs

\* Where its call led, the inverse of a faithful command leads back, if the MCP
\* accepts it and nothing is lost for it: the inverse of an addition is refused.
LEMMA InverseUndoes ==
    ASSUME NEW c \in Commands, c.kind = "call", Faithful(c),
           Accepts(c.after, c.inverse), Restorable(c.call, c.before)
    PROVE  Effect(c.after, c.inverse) = c.before
  <1> DEFINE id == c.call.id
             v == c.before[id]
  <1>1. c.call \in Calls /\ c.before \in Graphs /\ c.after \in Graphs
    BY CommandFields
  <1>2. /\ c.call.tool # "batch"
        /\ Accepts(c.before, c.call)
        /\ c.inverse = DeriveInverse(c.call, c.before)
        /\ c.after = Effect(c.before, c.call)
    BY DEF Faithful
  <1>3. CASE c.call.tool = "add"
    <2>1. c.inverse = RemoveCall(id, Views)
      BY <1>2, <1>3 DEF DeriveInverse
    <2>2. c.after[id] # Absent /\ c.after[id].shown \ Views # {}
      BY <2>1 DEF Accepts, RemoveCall
    <2>3. id \in Objects
      BY <1>1, <1>3, CallKinds
    <2>4. c.after[id] \in Contents
      BY <1>1, <2>2, <2>3 DEF Graphs
    <2>5. c.after[id].shown \subseteq Views
      BY <2>4 DEF Contents
    <2> QED
      BY <2>2, <2>5
  <1>4. CASE c.call.tool = "update"
    <2>1. id \in Objects /\ c.call.text \in Texts \union {Keep} /\ v \in Contents
      BY <1>1, <1>2, <1>4, CallKinds DEF Accepts, Graphs
    <2>2. c.after = [c.before EXCEPT ![id] = Patched(v, c.call)]
      BY <1>2, <1>4 DEF Effect
    <2>3. c.inverse = OldFields(c.call, v)
      BY <1>2, <1>4 DEF DeriveInverse
    <2>4. c.inverse.tool = "update" /\ c.inverse.id = id
      BY <2>3 DEF OldFields, UpdateCall
    <2>5. Effect(c.after, c.inverse) = [c.after EXCEPT ![id] = Patched(c.after[id], c.inverse)]
      BY <2>4 DEF Effect
    <2>6. c.after[id] = Patched(v, c.call)
      BY <1>1, <2>1, <2>2, ChangedBack
    <2>7. c.call.add \subseteq v.items
      BY <1>4 DEF Restorable
    <2>8. Patched(c.after[id], c.inverse) = v
      BY <2>1, <2>3, <2>6, <2>7, OldFieldsRestore
    <2> QED
      BY <1>1, <2>1, <2>2, <2>5, <2>8, ChangedBack
  <1>5. CASE c.call.tool = "remove"
    <2>1. id \in Objects /\ v \in Contents
      BY <1>1, <1>2, <1>5, CallKinds DEF Accepts, Graphs
    <2>2. c.after = [c.before EXCEPT ![id] = TakenFrom(v, c.call.scope)]
      BY <1>2, <1>5 DEF Effect
    <2>3. c.inverse = AddCall(id, v)
      BY <1>2, <1>5 DEF DeriveInverse
    <2>4. c.after[id] = TakenFrom(v, c.call.scope)
      BY <1>1, <2>1, <2>2, ChangedBack
    <2>5. c.after[id] # Absent
      <3>1. TakenFrom(v, c.call.scope) \in Contents
        BY <2>1 DEF Contents, TakenFrom
      <3> QED
        BY <2>4, <3>1, ServiceConstants
    <2>6. Reached(c.after, c.inverse) = id
      BY <2>3, <2>5 DEF Reached, AddCall
    <2>7. Effect(c.after, c.inverse) = [c.after EXCEPT ![id] = Placed(c.after[id], v.shown)]
      BY <2>3, <2>5, <2>6 DEF Effect, AddCall
    <2>8. v.linked \intersect c.call.scope = {}
      BY <1>5 DEF Restorable
    <2>9. Placed(c.after[id], v.shown) = v
      BY <2>1, <2>4, <2>8, PlacedAgain
    <2> QED
      BY <1>1, <2>1, <2>2, <2>7, <2>9, ChangedBack
  <1> QED
    BY <1>1, <1>2, <1>3, <1>4, <1>5, CallKinds

-----------------------------------------------------------------------------
(* Stacks                                                                  *)

LEMMA Pushed ==
    ASSUME NEW s \in Seq(Commands), NEW c \in Commands
    PROVE  /\ PushUndo(s, c) \in Seq(Commands)
           /\ PushUndo(s, c) # <<>>
           /\ Len(s) <= Depth => Len(PushUndo(s, c)) <= Depth
           /\ Last(PushUndo(s, c)) = c
           /\ (\A i \in 1..Len(s) : Faithful(s[i])) /\ Faithful(c) =>
                  \A i \in 1..Len(PushUndo(s, c)) : Faithful(PushUndo(s, c)[i])
           /\ UndoChain(s) /\ (s # <<>> => Last(s).after = c.before) =>
                  UndoChain(PushUndo(s, c))
  <1> DEFINE t == Append(s, c)
  <1>1. /\ t \in Seq(Commands) /\ Len(t) = Len(s) + 1 /\ t[Len(t)] = c
        /\ \A i \in 1..Len(s) : t[i] = s[i]
        /\ Len(s) \in Nat
    BY AppendProperties
  <1>2. s # <<>> <=> Len(s) # 0
    BY EmptySeq
  <1>3. (\A i \in 1..Len(s) : Faithful(s[i])) /\ Faithful(c) => \A i \in 1..Len(t) : Faithful(t[i])
    BY <1>1
  <1>4. UndoChain(s) /\ (s # <<>> => Last(s).after = c.before) => UndoChain(t)
    <2> SUFFICES ASSUME UndoChain(s), s # <<>> => Last(s).after = c.before,
                        NEW i \in 1..(Len(t) - 1)
                 PROVE  t[i].after = t[i + 1].before
      BY DEF UndoChain
    <2>1. CASE i = Len(s)
      BY <1>1, <1>2, <2>1 DEF Last
    <2>2. CASE i # Len(s)
      <3>1. i \in 1..(Len(s) - 1) /\ i \in 1..Len(s) /\ i + 1 \in 1..Len(s)
        BY <1>1, <2>2
      <3> QED
        BY <1>1, <3>1 DEF UndoChain
    <2> QED
      BY <2>1, <2>2
  <1>5. CASE Len(t) <= Depth
    <2>1. PushUndo(s, c) = t
      BY <1>1, <1>5, ServiceConstants DEF PushUndo
    <2> QED
      BY <1>1, <1>3, <1>4, <1>5, <2>1 DEF Last
  <1>6. CASE Len(t) > Depth
    <2> DEFINE u == Tail(t)
    <2>1. PushUndo(s, c) = u
      BY <1>6 DEF PushUndo
    <2>2. t # <<>> /\ Depth \in Nat \ {0} /\ Len(t) > 1
      BY <1>1, <1>6, ServiceConstants
    <2>3. u \in Seq(Commands) /\ Len(u) = Len(t) - 1 /\ \A i \in 1..Len(u) : u[i] = t[i + 1]
      BY <1>1, <2>2, HeadTailProperties
    <2>4. Last(u) = c /\ u # <<>>
      BY <1>1, <2>2, <2>3 DEF Last
    <2>5. (\A i \in 1..Len(t) : Faithful(t[i])) => \A i \in 1..Len(u) : Faithful(u[i])
      <3>1. \A i \in 1..Len(u) : i + 1 \in 1..Len(t)
        BY <1>1, <2>3
      <3> QED
        BY <2>3, <3>1
    <2>6. UndoChain(t) => UndoChain(u)
      <3> SUFFICES ASSUME UndoChain(t), NEW i \in 1..(Len(u) - 1)
                   PROVE  u[i].after = u[i + 1].before
        BY DEF UndoChain
      <3>1. i \in 1..Len(u) /\ i + 1 \in 1..Len(u) /\ i + 1 \in 1..(Len(t) - 1)
        BY <1>1, <2>3
      <3> QED
        BY <2>3, <3>1 DEF UndoChain
    <2> QED
      BY <1>1, <1>3, <1>4, <2>1, <2>3, <2>4, <2>5, <2>6
  <1> QED
    BY <1>1, <1>5, <1>6, ServiceConstants

LEMMA Returned ==
    ASSUME NEW s \in Seq(Commands), NEW c \in Commands
    PROVE  /\ Append(s, c) \in Seq(Commands)
           /\ Append(s, c) # <<>>
           /\ Last(Append(s, c)) = c
           /\ (\A i \in 1..Len(s) : Faithful(s[i])) /\ Faithful(c) =>
                  \A i \in 1..Len(Append(s, c)) : Faithful(Append(s, c)[i])
           /\ RedoChain(s) /\ (s # <<>> => Last(s).before = c.after) =>
                  RedoChain(Append(s, c))
  <1> DEFINE t == Append(s, c)
  <1>1. /\ t \in Seq(Commands) /\ Len(t) = Len(s) + 1 /\ t[Len(t)] = c /\ t # <<>>
        /\ \A i \in 1..Len(s) : t[i] = s[i]
        /\ Len(s) \in Nat
    BY AppendProperties
  <1>2. s # <<>> <=> Len(s) # 0
    BY EmptySeq
  <1>3. RedoChain(s) /\ (s # <<>> => Last(s).before = c.after) => RedoChain(t)
    <2> SUFFICES ASSUME RedoChain(s), s # <<>> => Last(s).before = c.after,
                        NEW i \in 1..(Len(t) - 1)
                 PROVE  t[i + 1].after = t[i].before
      BY DEF RedoChain
    <2>1. CASE i = Len(s)
      BY <1>1, <1>2, <2>1 DEF Last
    <2>2. CASE i # Len(s)
      <3>1. i \in 1..(Len(s) - 1) /\ i \in 1..Len(s) /\ i + 1 \in 1..Len(s)
        BY <1>1, <2>2
      <3> QED
        BY <1>1, <3>1 DEF RedoChain
    <2> QED
      BY <2>1, <2>2
  <1> QED
    BY <1>1, <1>3 DEF Last

LEMMA Taken ==
    ASSUME NEW s \in Seq(Commands), s # <<>>
    PROVE  /\ Front(s) \in Seq(Commands)
           /\ Len(Front(s)) = Len(s) - 1
           /\ Last(s) \in Commands
           /\ (\A i \in 1..Len(s) : Faithful(s[i])) =>
                  (\A i \in 1..Len(Front(s)) : Faithful(Front(s)[i])) /\ Faithful(Last(s))
           /\ UndoChain(s) => UndoChain(Front(s))
           /\ RedoChain(s) => RedoChain(Front(s))
           /\ UndoChain(s) /\ Front(s) # <<>> => Last(Front(s)).after = Last(s).before
           /\ RedoChain(s) /\ Front(s) # <<>> => Last(Front(s)).before = Last(s).after
  <1> DEFINE f == Front(s)
  <1>1. Len(s) \in Nat /\ Len(s) > 0
    BY EmptySeq
  <1>2. \A i \in 1..(Len(s) - 1) : s[i] \in Commands
    BY <1>1, ElementOfSeq
  <1>3. /\ f \in Seq(Commands)
        /\ Len(f) = Len(s) - 1
        /\ \A i \in 1..(Len(s) - 1) : f[i] = s[i]
    <2> DEFINE n == Len(s) - 1
    <2>1. n \in Int /\ 1 \in Int /\ (\A i \in 1..n : s[i] \in Commands) /\ (n - 1) + 1 = n /\ n >= 0
      BY <1>1, <1>2
    <2>2. f = SubSeq(s, 1, n)
      BY DEF Front
    <2> HIDE DEF n
    <2>3. /\ SubSeq(s, 1, n) \in Seq(Commands)
          /\ Len(SubSeq(s, 1, n)) = IF 1 <= n THEN n - 1 + 1 ELSE 0
          /\ \A i \in 1..(n - 1 + 1) : SubSeq(s, 1, n)[i] = s[1 + i - 1]
      BY <2>1, SubSeqProperties
    <2>4. /\ SubSeq(s, 1, n) \in Seq(Commands)
          /\ Len(SubSeq(s, 1, n)) = n
          /\ \A i \in 1..n : SubSeq(s, 1, n)[i] = s[i]
      BY <2>1, <2>3
    <2> QED
      BY <2>2, <2>4 DEF n
  <1>4. Last(s) \in Commands
    BY <1>1, ElementOfSeq DEF Last
  <1>5. (\A i \in 1..Len(s) : Faithful(s[i])) =>
           (\A i \in 1..Len(f) : Faithful(f[i])) /\ Faithful(Last(s))
    BY <1>1, <1>3 DEF Last
  <1>6. \A i \in 1..(Len(f) - 1) : /\ i \in 1..(Len(s) - 1) /\ i + 1 \in 1..(Len(s) - 1)
                                  /\ f[i] = s[i] /\ f[i + 1] = s[i + 1]
    BY <1>1, <1>3
  <1>7. UndoChain(s) => UndoChain(f)
    BY <1>6 DEF UndoChain
  <1>8. RedoChain(s) => RedoChain(f)
    BY <1>6 DEF RedoChain
  <1>9. f # <<>> => /\ Len(s) - 1 \in 1..(Len(s) - 1)
                    /\ Last(f) = s[Len(s) - 1] /\ Last(s) = s[(Len(s) - 1) + 1]
    BY <1>1, <1>3, EmptySeq DEF Last
  <1> QED
    BY <1>3, <1>4, <1>5, <1>7, <1>8, <1>9 DEF UndoChain, RedoChain

-----------------------------------------------------------------------------
(* Types                                                                   *)

LEMMA WaitingFields ==
    ASSUME NEW j \in WaitingJobs
    PROVE  /\ j.kind \in {"edit", "undo", "redo", "import"}
           /\ j.step = "start"
           /\ j.kind = "edit" => j.call \in Calls
           /\ j.kind \in Popped => j.command \in Commands
           /\ j.kind = "import" => j.graph \in Graphs
  BY DEF WaitingJobs, Popped

LEMMA JobFields ==
    ASSUME TypeInv
    PROVE  /\ job.kind \in {"none", "edit", "undo", "redo", "import"}
           /\ job = Idle <=> job.kind = "none"
           /\ job.kind = "edit" =>
                 /\ job.call \in Calls
                 /\ job.step \in {"start", "call", "called"}
                 /\ job.step # "start" => job.before \in Graphs
           /\ job.kind \in Popped =>
                 job.command \in Commands /\ job.step \in {"start", "called"}
           /\ job.kind = "import" => job.graph \in Graphs /\ job.step = "start"
  <1>1. CASE job = Idle
    BY <1>1 DEF Idle, Popped
  <1>2. CASE job \in WaitingJobs
    BY <1>2, WaitingFields DEF Idle, Popped
  <1>3. CASE job \in StartedJobs
    BY <1>3 DEF StartedJobs, Idle, Popped
  <1> QED
    BY <1>1, <1>2, <1>3 DEF TypeInv

LEMMA TypeInit == Init => TypeInv
  <1> SUFFICES ASSUME Init PROVE TypeInv
    OBVIOUS
  <1>1. <<>> \in Seq(Commands) /\ <<>> \in Seq(WaitingJobs) /\ Len(<<>>) = 0
    BY EmptySeq
  <1>2. 0 <= Depth /\ 0 <= 0 /\ 0 \in Nat
    BY ServiceConstants
  <1> QED
    BY <1>1, <1>2, ServiceConstants DEF Init, TypeInv

\* The stacks a step leaves are typed; the rest of a job's end.
LEMMA SettleType ==
    ASSUME TypeInv, Settle,
           doc' \in Graphs, undo' \in Seq(Commands), redo' \in Seq(Commands),
           Len(undo') <= Depth, interfered' \in BOOLEAN
    PROVE  TypeInv'
  BY DEF TypeInv, Settle

LEMMA EnqueueType ==
    ASSUME TypeInv, NEW j \in WaitingJobs, Receive, Enqueue(j)
    PROVE  /\ requests' \in Nat /\ queue' \in Seq(WaitingJobs) /\ Len(queue') <= requests'
  <1>1. Append(queue, j) \in Seq(WaitingJobs) /\ Len(Append(queue, j)) = Len(queue) + 1 /\ Len(queue) \in Nat
    BY AppendProperties DEF TypeInv
  <1> QED
    BY <1>1 DEF TypeInv, Receive, Enqueue

LEMMA CallForType ==
    ASSUME TypeInv, job.kind \in Popped
    PROVE  CallFor(job) \in Calls
  BY JobFields, CommandFields DEF CallFor, Popped

LEMMA TypeStep == TypeInv /\ [Next]_vars => TypeInv'
  <1> SUFFICES ASSUME TypeInv, [Next]_vars PROVE TypeInv'
    OBVIOUS
  <1>1. CASE EditRequest
    <2>1. PICK c \in Edits : Enqueue([kind |-> "edit", step |-> "start", call |-> c])
      BY <1>1 DEF EditRequest
    <2>2. [kind |-> "edit", step |-> "start", call |-> c] \in WaitingJobs
      BY ServiceConstants DEF WaitingJobs
    <2> QED
      BY <1>1, <2>1, <2>2, EnqueueType DEF EditRequest, TypeInv
  <1>2. CASE UndoRequest
    <2>1. Front(undo) \in Seq(Commands) /\ Last(undo) \in Commands /\ Len(Front(undo)) = Len(undo) - 1
      BY <1>2, Taken DEF UndoRequest, TypeInv
    <2>2. [kind |-> "undo", step |-> "start", command |-> Last(undo)] \in WaitingJobs
      BY <2>1 DEF WaitingJobs, Popped
    <2>3. Len(Front(undo)) <= Depth
      BY <2>1, LenProperties, ServiceConstants DEF TypeInv
    <2> QED
      BY <1>2, <2>1, <2>2, <2>3, EnqueueType DEF UndoRequest, TypeInv, Overtakes
  <1>3. CASE RedoRequest
    <2>1. Front(redo) \in Seq(Commands) /\ Last(redo) \in Commands
      BY <1>3, Taken DEF RedoRequest, TypeInv
    <2>2. [kind |-> "redo", step |-> "start", command |-> Last(redo)] \in WaitingJobs
      BY <2>1 DEF WaitingJobs, Popped
    <2> QED
      BY <1>3, <2>1, <2>2, EnqueueType DEF RedoRequest, TypeInv, Overtakes
  <1>4. CASE ImportRequest
    <2>1. PICK g \in Given : Enqueue([kind |-> "import", step |-> "start", graph |-> g])
      BY <1>4 DEF ImportRequest
    <2>2. [kind |-> "import", step |-> "start", graph |-> g] \in WaitingJobs
      BY ServiceConstants DEF WaitingJobs
    <2> QED
      BY <1>4, <2>1, <2>2, EnqueueType DEF ImportRequest, TypeInv
  <1>5. CASE StartJob
    <2>1. Head(queue) \in WaitingJobs /\ Tail(queue) \in Seq(WaitingJobs) /\ Len(Tail(queue)) = Len(queue) - 1
      BY <1>5, HeadTailProperties DEF StartJob, TypeInv
    <2>2. Len(queue) \in Nat
      BY LenProperties DEF TypeInv
    <2> QED
      BY <1>5, <2>1, <2>2 DEF StartJob, TypeInv
  <1>6. CASE EditRead
    BY <1>6, JobFields DEF EditRead, At, TypeInv, StartedJobs
  <1>7. CASE EditCall
    <2>1. job.call \in Calls /\ job.before \in Graphs /\ Accepts(doc, job.call)
      BY <1>7, JobFields DEF EditCall, At
    <2>2. Effect(doc, job.call) \in Graphs
      BY <2>1, EffectType DEF TypeInv
    <2> QED
      BY <1>7, <2>1, <2>2 DEF EditCall, TypeInv, StartedJobs
  <1>8. CASE EditRefused
    BY <1>8, SettleType DEF EditRefused, TypeInv
  <1>9. CASE EditDone
    <2>1. Command(job.call, job.before, doc) \in Commands
      BY <1>9, JobFields, CommandType DEF EditDone, At, TypeInv
    <2>2. <<>> \in Seq(Commands)
      BY EmptySeq
    <2> QED
      BY <1>9, <2>1, <2>2, Pushed, SettleType DEF EditDone, TypeInv
  <1>10. CASE UndoSnapshot
    <2>1. job.command \in Commands /\ job.command.before \in Graphs
      BY <1>10, JobFields, CommandFields DEF UndoSnapshot, At, Popped
    <2> QED
      BY <1>10, <2>1, Returned, SettleType DEF UndoSnapshot, TypeInv
  <1>11. CASE RedoSnapshot
    <2>1. job.command \in Commands /\ job.command.after \in Graphs
      BY <1>11, JobFields, CommandFields DEF RedoSnapshot, At, Popped
    <2> QED
      BY <1>11, <2>1, Pushed, SettleType DEF RedoSnapshot, TypeInv
  <1>12. CASE LockTimeout
    BY <1>12, SettleType DEF LockTimeout, TypeInv
  <1>13. CASE ReplayCall
    <2>1. job.kind \in Popped /\ job.command \in Commands
      BY <1>13, JobFields DEF ReplayCall, Popped
    <2>2. doc' \in Graphs
      BY <1>13, <2>1, CallForType, EffectType DEF ReplayCall, TypeInv
    <2>3. job \in WaitingJobs
      BY <1>13, <2>1 DEF ReplayCall, TypeInv, StartedJobs, Idle, Popped
    <2>4. [job EXCEPT !.step = "called"] \in StartedJobs
      BY <2>1, <2>3 DEF WaitingJobs, StartedJobs, Popped
    <2> QED
      BY <1>13, <2>2, <2>4 DEF ReplayCall, TypeInv
  <1>14. CASE ReplayRefused
    <2>1. job.command \in Commands
      BY <1>14, JobFields DEF ReplayRefused, Popped
    <2> QED
      BY <1>14, <2>1, Pushed, Returned, SettleType DEF ReplayRefused, TypeInv
  <1>15. CASE ReplayDone
    <2>1. job.command \in Commands
      BY <1>15, JobFields DEF ReplayDone, Popped
    <2> QED
      BY <1>15, <2>1, Pushed, Returned, SettleType DEF ReplayDone, TypeInv
  <1>16. CASE Import
    <2>1. job.graph \in Graphs /\ <<>> \in Seq(Commands) /\ Len(<<>>) = 0
      BY <1>16, JobFields, EmptySeq DEF Import, At
    <2>2. interfered' \in BOOLEAN /\ 0 <= Depth
      BY <1>16, ServiceConstants DEF Import
    <2> QED
      BY <1>16, <2>1, <2>2, SettleType DEF Import, TypeInv
  <1>17. CASE AgentWrite
    <2>1. PICK o \in Objects, g \in Given : doc' = [doc EXCEPT ![o] = g[o]]
      BY <1>17 DEF AgentWrite
    <2>2. doc' \in Graphs
      BY <2>1, ServiceConstants DEF TypeInv, Graphs
    <2> QED
      BY <1>17, <2>2 DEF AgentWrite, TypeInv
  <1>17a. CASE JobThrows
    BY <1>17a, SettleType DEF JobThrows, TypeInv
  <1>18. CASE UNCHANGED vars
    BY <1>18 DEF vars, TypeInv
  <1> QED
    BY <1>1, <1>2, <1>3, <1>4, <1>5, <1>6, <1>7, <1>8, <1>9, <1>10, <1>11, <1>12, <1>13,
       <1>14, <1>15, <1>16, <1>17, <1>17a, <1>18 DEF Next, Request, JobStep

LEMMA TypeAlways == Spec => []TypeInv
  BY TypeInit, TypeStep, PTL DEF Spec

\* The stacks hold commands, and no more to undo than the depth; the queue no
\* more jobs than there were requests.
THEOREM TypeCorrect == Spec => []TypeOK
  <1>1. TypeInv => TypeOK
    <2> SUFFICES ASSUME TypeInv PROVE TypeOK
      OBVIOUS
    <2>1. /\ DOMAIN undo = 1..Len(undo) /\ \A i \in 1..Len(undo) : undo[i] \in Commands
          /\ DOMAIN redo = 1..Len(redo) /\ \A i \in 1..Len(redo) : redo[i] \in Commands
      BY LenProperties, ElementOfSeq DEF TypeInv
    <2> QED
      BY <2>1 DEF TypeInv, TypeOK
  <1> QED
    BY <1>1, TypeAlways, PTL

-----------------------------------------------------------------------------
(* One history                                                             *)

\* No popped command waits.
Quiet == \A i \in 1..Len(queue) : queue[i].kind \notin Popped

StacksMeet ==
    /\ \A i \in 1..Len(undo) : Faithful(undo[i])
    /\ \A i \in 1..Len(redo) : Faithful(redo[i])
    /\ job.kind \in Popped => Faithful(job.command)
    /\ UndoChain(undo)
    /\ RedoChain(redo)
    /\ undo # <<>> => Last(undo).after = UndoMeets
    /\ redo # <<>> => Last(redo).before = RedoMeets
    /\ DocStands

LEMMA QueueFields ==
    TypeInv => /\ Len(queue) \in Nat
               /\ queue # <<>> <=> Len(queue) > 0
               /\ \A i \in 1..Len(queue) : queue[i] \in WaitingJobs
  BY EmptySeq, LenProperties, ElementOfSeq DEF TypeInv

LEMMA QuietLinks == TypeInv /\ Quiet /\ StacksMeet => Linked
  <1> SUFFICES ASSUME TypeInv, Quiet, StacksMeet PROVE Linked
    OBVIOUS
  <1>1. AllFaithful /\ InTurn
    BY DEF AllFaithful, InTurn, Quiet, StacksMeet
  <1>2. PoppedChain
    BY DEF PoppedChain, Quiet, Popped
  <1>3. UndoEnd /\ RedoEnd
    BY QueueFields DEF UndoEnd, RedoEnd, LastOf, Quiet, Popped, StacksMeet
  <1> QED
    BY <1>1, <1>2, <1>3 DEF Linked, StacksMeet

LEMMA LinksWhenQuiet == TypeInv /\ Quiet /\ Linked => StacksMeet
  <1> SUFFICES ASSUME TypeInv, Quiet, Linked PROVE StacksMeet
    OBVIOUS
  <1>1. queue = <<>> \/ (queue[1].kind # "undo" /\ queue[1].kind # "redo")
    BY QueueFields DEF Quiet, Popped
  <1> QED
    BY <1>1 DEF Linked, AllFaithful, UndoEnd, RedoEnd, StacksMeet

\* Behind a job that is no undo or redo, and behind a command put back, nothing
\* popped waits.
LEMMA QuietBehind == TypeInv /\ InTurn /\ job.kind \notin Popped \union {"none"} => Quiet
  BY DEF InTurn, Quiet, Popped

\* A finished edit is the newest command to undo, and there is nothing to redo.
LEMMA EditDoneLinks == TypeInv /\ Linked /\ TypeInv' /\ EditDone => Linked'
  <1> SUFFICES ASSUME TypeInv, Linked, TypeInv', EditDone PROVE Linked'
    OBVIOUS
  <1>1. Quiet /\ Quiet'
    BY QuietBehind DEF EditDone, At, Popped, Linked, Settle, Quiet
  <1>2. StacksMeet
    BY <1>1, LinksWhenQuiet
  <1>3. StacksMeet'
    <2> DEFINE c == Command(job.call, job.before, doc)
    <2>1. job.call \in Calls /\ job.before \in Graphs /\ doc \in Graphs
      BY JobFields DEF EditDone, At, TypeInv
    <2>2. c \in Commands /\ c.before = job.before /\ c.after = doc
      BY <2>1, CommandType
    <2>3. Accepts(job.before, job.call) /\ doc = Effect(job.before, job.call)
      BY <1>2 DEF EditDone, StacksMeet, DocStands
    <2>4. Faithful(c)
      BY <2>1, <2>3, NewCommandFaithful
    <2>5. UndoMeets = job.before
      BY DEF EditDone, At, UndoMeets, Popped
    <2> HIDE DEF c
    <2>6. /\ undo' # <<>> /\ Last(undo').after = doc /\ UndoChain(undo')
          /\ \A i \in 1..Len(undo') : Faithful(undo'[i])
      BY <1>2, <2>2, <2>4, <2>5, Pushed DEF EditDone, StacksMeet, TypeInv, c
    <2>7. redo' = <<>> /\ RedoChain(redo') /\ Len(redo') = 0
      BY EmptySeq DEF EditDone, RedoChain
    <2> QED
      BY <2>6, <2>7 DEF EditDone, Settle, Idle, StacksMeet, UndoMeets, RedoMeets, DocStands, At, Popped
  <1> QED
    BY <1>1, <1>3, QuietLinks, PTL

\* What joins the queue joins its end.
LEMMA Joined ==
    ASSUME TypeInv, NEW j \in WaitingJobs, Enqueue(j)
    PROVE  /\ Len(queue') = Len(queue) + 1
           /\ queue' # <<>>
           /\ \A i \in 1..Len(queue) : queue'[i] = queue[i]
           /\ queue'[Len(queue) + 1] = j
  BY AppendProperties DEF TypeInv, Enqueue

\* An edit or an import waits behind what was popped.
LEMMA OtherRequestLinks ==
    ASSUME TypeInv, Linked, NEW j \in WaitingJobs, j.kind \notin Popped, Enqueue(j),
           UNCHANGED <<doc, undo, redo, job>>
    PROVE  Linked'
  <1>1. /\ Len(queue) \in Nat /\ Len(queue') = Len(queue) + 1
        /\ \A i \in 1..Len(queue) : queue'[i] = queue[i]
        /\ queue'[Len(queue) + 1] = j
        /\ queue # <<>> <=> Len(queue) > 0
    BY Joined, QueueFields
  <1>2. \A i \in 1..Len(queue') : i \in 1..Len(queue) \/ (i = Len(queue) + 1 /\ queue'[i].kind \notin Popped)
    BY <1>1
  <1>3. AllFaithful'
    BY <1>1, <1>2 DEF Linked, AllFaithful
  <1>4. InTurn'
    BY <1>1, <1>2 DEF Linked, InTurn
  <1>5. UndoChain(undo)' /\ RedoChain(redo)'
    BY DEF Linked, UndoChain, RedoChain
  <1>6. UndoMeets' = UndoMeets /\ RedoMeets' = RedoMeets /\ DocStands'
    BY DEF Linked, UndoMeets, RedoMeets, DocStands, At
  <1>7. PoppedChain'
    <2> SUFFICES ASSUME NEW i \in 1..Len(queue'), queue'[i].kind \in Popped
                 PROVE  /\ i \in 1..Len(queue) /\ queue'[i] = queue[i]
                        /\ i # 1 => queue'[i - 1] = queue[i - 1]
      BY <1>6 DEF Linked, PoppedChain, Popped
    <2> QED
      BY <1>1, <1>2
  <1>8. ASSUME NEW kind \in Popped, NEW i \in 1..Len(queue'), LastOf(kind, i)'
        PROVE  i \in 1..Len(queue) /\ LastOf(kind, i) /\ queue'[i] = queue[i]
    BY <1>1, <1>2, <1>8 DEF LastOf
  <1>9. \A kind \in Popped : queue'[1].kind # kind => queue = <<>> \/ queue[1].kind # kind
    BY <1>1
  <1>10. UndoEnd'
    BY <1>1, <1>6, <1>8, <1>9 DEF Linked, UndoEnd, Popped
  <1>11. RedoEnd'
    BY <1>1, <1>6, <1>8, <1>9 DEF Linked, RedoEnd, Popped
  <1> QED
    BY <1>3, <1>4, <1>5, <1>6, <1>7, <1>10, <1>11 DEF Linked

\* A command is popped in its turn if only others of its kind come first.
LEMMA OwnKindBefore ==
    ASSUME TypeInv, NEW kind \in Popped, ~Overtakes(kind)
    PROVE  /\ job.kind \in {"none", kind}
           /\ \A i \in 1..Len(queue) : queue[i].kind = kind
  <1>1. \A i \in 1..Len(queue) : queue[i] \in ToSet(queue) /\ queue[i] \in WaitingJobs
    BY QueueFields, LenProperties DEF ToSet, TypeInv
  <1> QED
    BY <1>1, WaitingFields DEF Overtakes

\* What an undo pops goes on where the stack ends, at the end of the queue.
LEMMA UndoRequestLinks == TypeInv /\ Linked /\ UndoRequest /\ ~interfered' => Linked'
  <1> SUFFICES ASSUME TypeInv, Linked, UndoRequest, ~interfered' PROVE Linked'
    OBVIOUS
  <1> DEFINE c == Last(undo)
             j == [kind |-> "undo", step |-> "start", command |-> c]
  <1>1. /\ c \in Commands /\ Faithful(c) /\ undo # <<>>
        /\ \A i \in 1..Len(undo') : Faithful(undo'[i])
        /\ UndoChain(undo')
        /\ undo' # <<>> => Last(undo').after = c.before
    BY Taken DEF UndoRequest, TypeInv, Linked, AllFaithful
  <1>2. j \in WaitingJobs /\ j.kind = "undo" /\ j.command = c
    BY <1>1 DEF WaitingJobs, Popped
  <1>3. /\ job.kind \in {"none", "undo"}
        /\ \A i \in 1..Len(queue) : queue[i].kind = "undo"
    BY OwnKindBefore DEF UndoRequest, Popped
  <1>4. Enqueue(j) /\ UNCHANGED <<doc, redo, job>>
    BY DEF UndoRequest
  <1> HIDE DEF c, j
  <1>5. /\ Len(queue) \in Nat /\ Len(queue') = Len(queue) + 1
        /\ \A i \in 1..Len(queue) : queue'[i] = queue[i]
        /\ queue'[Len(queue) + 1] = j
        /\ queue # <<>> <=> Len(queue) > 0
        /\ queue' # <<>>
    BY <1>2, <1>4, Joined, QueueFields
  <1>6. \A i \in 1..Len(queue') : i \in 1..Len(queue) \/ i = Len(queue) + 1
    BY <1>5
  <1>7. \A i \in 1..Len(queue') : queue'[i].kind = "undo"
    BY <1>2, <1>3, <1>5, <1>6
  <1>8. UndoMeets' = UndoMeets /\ RedoMeets' = RedoMeets /\ DocStands'
    BY <1>4 DEF Linked, UndoMeets, RedoMeets, DocStands, At
  <1>9. AllFaithful'
    BY <1>1, <1>2, <1>4, <1>5, <1>6 DEF Linked, AllFaithful
  <1>10. InTurn'
    <2>1. \A i \in 1..Len(queue') : \A k \in 1..(i - 1) : k \in 1..Len(queue')
      BY <1>5
    <2> QED
      BY <1>3, <1>4, <1>7, <2>1 DEF InTurn
  <1>11. c.after = IF queue = <<>> THEN UndoMeets ELSE queue[Len(queue)].command.before
    <2>1. CASE queue = <<>>
      BY <1>1, <2>1 DEF Linked, UndoEnd, c
    <2>2. CASE queue # <<>>
      <3>1. Len(queue) \in 1..Len(queue) /\ LastOf("undo", Len(queue))
        BY <1>3, <1>5, <2>2 DEF LastOf
      <3> QED
        BY <1>1, <2>2, <3>1 DEF Linked, UndoEnd, c
    <2> QED
      BY <2>1, <2>2
  <1>12. PoppedChain'
    <2> SUFFICES ASSUME NEW i \in 1..Len(queue')
                 PROVE  queue'[i].command.after =
                           IF i = 1 THEN UndoMeets ELSE queue'[i - 1].command.before
      BY <1>7, <1>8 DEF PoppedChain
    <2>1. CASE i = Len(queue) + 1
      <3>1. i = 1 <=> queue = <<>>
        BY <1>5, <2>1
      <3>2. i # 1 => queue'[i - 1] = queue[Len(queue)]
        BY <1>5, <2>1
      <3> QED
        BY <1>2, <1>5, <1>11, <2>1, <3>1, <3>2
    <2>2. CASE i \in 1..Len(queue)
      <3>1. queue'[i] = queue[i] /\ (i # 1 => queue'[i - 1] = queue[i - 1])
        BY <1>5, <2>2
      <3> QED
        BY <1>3, <2>2, <3>1 DEF Linked, PoppedChain
    <2> QED
      BY <1>6, <2>1, <2>2
  <1>13. UndoEnd'
    <2>1. queue'[1].kind = "undo"
      BY <1>5, <1>7
    <2>2. \A i \in 1..Len(queue') : LastOf("undo", i)' => i = Len(queue) + 1
      <3> SUFFICES ASSUME NEW i \in 1..Len(queue), LastOf("undo", i)' PROVE FALSE
        BY <1>6
      <3>1. i + 1 \in 1..Len(queue') /\ i # Len(queue')
        BY <1>5
      <3> QED
        BY <1>7, <3>1 DEF LastOf
    <2> QED
      BY <1>1, <1>2, <1>5, <2>1, <2>2 DEF UndoEnd
  <1>14. RedoEnd'
    <2>1. queue = <<>> \/ queue[1].kind # "redo"
      BY <1>3, <1>5
    <2>2. \A i \in 1..Len(queue') : ~LastOf("redo", i)'
      BY <1>7 DEF LastOf
    <2> QED
      BY <1>4, <1>8, <2>1, <2>2 DEF Linked, RedoEnd
  <1> QED
    BY <1>1, <1>4, <1>8, <1>9, <1>10, <1>12, <1>13, <1>14 DEF Linked, RedoChain, UndoChain

\* So does what a redo pops.
LEMMA RedoRequestLinks == TypeInv /\ Linked /\ RedoRequest /\ ~interfered' => Linked'
  <1> SUFFICES ASSUME TypeInv, Linked, RedoRequest, ~interfered' PROVE Linked'
    OBVIOUS
  <1> DEFINE c == Last(redo)
             j == [kind |-> "redo", step |-> "start", command |-> c]
  <1>1. /\ c \in Commands /\ Faithful(c) /\ redo # <<>>
        /\ \A i \in 1..Len(redo') : Faithful(redo'[i])
        /\ RedoChain(redo')
        /\ redo' # <<>> => Last(redo').before = c.after
    BY Taken DEF RedoRequest, TypeInv, Linked, AllFaithful
  <1>2. j \in WaitingJobs /\ j.kind = "redo" /\ j.command = c
    BY <1>1 DEF WaitingJobs, Popped
  <1>3. /\ job.kind \in {"none", "redo"}
        /\ \A i \in 1..Len(queue) : queue[i].kind = "redo"
    BY OwnKindBefore DEF RedoRequest, Popped
  <1>4. Enqueue(j) /\ UNCHANGED <<doc, undo, job>>
    BY DEF RedoRequest
  <1> HIDE DEF c, j
  <1>5. /\ Len(queue) \in Nat /\ Len(queue') = Len(queue) + 1
        /\ \A i \in 1..Len(queue) : queue'[i] = queue[i]
        /\ queue'[Len(queue) + 1] = j
        /\ queue # <<>> <=> Len(queue) > 0
        /\ queue' # <<>>
    BY <1>2, <1>4, Joined, QueueFields
  <1>6. \A i \in 1..Len(queue') : i \in 1..Len(queue) \/ i = Len(queue) + 1
    BY <1>5
  <1>7. \A i \in 1..Len(queue') : queue'[i].kind = "redo"
    BY <1>2, <1>3, <1>5, <1>6
  <1>8. RedoMeets' = RedoMeets /\ UndoMeets' = UndoMeets /\ DocStands'
    BY <1>4 DEF Linked, RedoMeets, UndoMeets, DocStands, At
  <1>9. AllFaithful'
    BY <1>1, <1>2, <1>4, <1>5, <1>6 DEF Linked, AllFaithful
  <1>10. InTurn'
    <2>1. \A i \in 1..Len(queue') : \A k \in 1..(i - 1) : k \in 1..Len(queue')
      BY <1>5
    <2> QED
      BY <1>3, <1>4, <1>7, <2>1 DEF InTurn
  <1>11. c.before = IF queue = <<>> THEN RedoMeets ELSE queue[Len(queue)].command.after
    <2>1. CASE queue = <<>>
      BY <1>1, <2>1 DEF Linked, RedoEnd, c
    <2>2. CASE queue # <<>>
      <3>1. Len(queue) \in 1..Len(queue) /\ LastOf("redo", Len(queue))
        BY <1>3, <1>5, <2>2 DEF LastOf
      <3> QED
        BY <1>1, <2>2, <3>1 DEF Linked, RedoEnd, c
    <2> QED
      BY <2>1, <2>2
  <1>12. PoppedChain'
    <2> SUFFICES ASSUME NEW i \in 1..Len(queue')
                 PROVE  queue'[i].command.before =
                           IF i = 1 THEN RedoMeets ELSE queue'[i - 1].command.after
      BY <1>7, <1>8 DEF PoppedChain
    <2>1. CASE i = Len(queue) + 1
      <3>1. i = 1 <=> queue = <<>>
        BY <1>5, <2>1
      <3>2. i # 1 => queue'[i - 1] = queue[Len(queue)]
        BY <1>5, <2>1
      <3> QED
        BY <1>2, <1>5, <1>11, <2>1, <3>1, <3>2
    <2>2. CASE i \in 1..Len(queue)
      <3>1. queue'[i] = queue[i] /\ (i # 1 => queue'[i - 1] = queue[i - 1])
        BY <1>5, <2>2
      <3> QED
        BY <1>3, <2>2, <3>1 DEF Linked, PoppedChain
    <2> QED
      BY <1>6, <2>1, <2>2
  <1>13. RedoEnd'
    <2>1. queue'[1].kind = "redo"
      BY <1>5, <1>7
    <2>2. \A i \in 1..Len(queue') : LastOf("redo", i)' => i = Len(queue) + 1
      <3> SUFFICES ASSUME NEW i \in 1..Len(queue), LastOf("redo", i)' PROVE FALSE
        BY <1>6
      <3>1. i + 1 \in 1..Len(queue') /\ i # Len(queue')
        BY <1>5
      <3> QED
        BY <1>7, <3>1 DEF LastOf
    <2> QED
      BY <1>1, <1>2, <1>5, <2>1, <2>2 DEF RedoEnd
  <1>14. UndoEnd'
    <2>1. queue = <<>> \/ queue[1].kind # "undo"
      BY <1>3, <1>5
    <2>2. \A i \in 1..Len(queue') : ~LastOf("undo", i)'
      BY <1>7 DEF LastOf
    <2> QED
      BY <1>4, <1>8, <2>1, <2>2 DEF Linked, UndoEnd
  <1> QED
    BY <1>1, <1>4, <1>8, <1>9, <1>10, <1>12, <1>13, <1>14 DEF Linked, RedoChain, UndoChain

\* The next job starts where the stacks meet.
LEMMA StartJobLinks == TypeInv /\ Linked /\ StartJob => Linked'
  <1> SUFFICES ASSUME TypeInv, Linked, StartJob PROVE Linked'
    OBVIOUS
  <1>1. /\ queue # <<>> /\ Len(queue) \in Nat /\ Len(queue) > 0
        /\ Len(queue') = Len(queue) - 1
        /\ \A i \in 1..Len(queue') : queue'[i] = queue[i + 1]
        /\ job = Idle /\ job' = queue[1] /\ queue[1] \in WaitingJobs
        /\ queue' # <<>> <=> Len(queue') > 0
    <2>1. queue \in Seq(WaitingJobs) /\ queue # <<>> /\ job = Idle
      BY DEF StartJob, TypeInv
    <2>2. queue' = Tail(queue) /\ job' = Head(queue)
      BY DEF StartJob
    <2>3. /\ Tail(queue) \in Seq(WaitingJobs) /\ Len(Tail(queue)) = Len(queue) - 1
          /\ \A i \in 1..Len(Tail(queue)) : Tail(queue)[i] = queue[i + 1]
      BY <2>1, HeadTailProperties
    <2>4. Head(queue) = queue[1]
      BY <2>1
    <2>5. Tail(queue) # <<>> <=> Len(Tail(queue)) > 0
      <3>1. \A t \in Seq(WaitingJobs) : t # <<>> <=> Len(t) > 0
        BY EmptySeq
      <3> QED
        BY <2>3, <3>1
    <2> QED
      BY <2>1, <2>2, <2>3, <2>4, <2>5, QueueFields
  <1>2. \A i \in 1..Len(queue') : /\ i + 1 \in 1..Len(queue) /\ i + 1 # 1 /\ (i + 1) - 1 = i
                                  /\ i \in 1..Len(queue)
                                  /\ i # 1 => i - 1 \in 1..Len(queue') /\ queue'[i - 1] = queue[i]
    BY <1>1
  <1>3. UNCHANGED <<doc, undo, redo>>
    BY DEF StartJob
  <1>4. job'.step = "start" /\ job'.kind \in {"edit", "undo", "redo", "import"}
    BY <1>1, WaitingFields
  <1>5. UndoMeets = doc /\ RedoMeets = doc
    BY <1>1 DEF UndoMeets, RedoMeets, Idle, At, Popped
  <1>6. /\ UndoMeets' = IF job'.kind \in Popped THEN job'.command.before ELSE doc
        /\ RedoMeets' = IF job'.kind \in Popped THEN job'.command.after ELSE doc
    BY <1>3, <1>4 DEF UndoMeets, RedoMeets, At
  <1>7. /\ job'.kind = "undo" => job'.command.after = doc
        /\ job'.kind = "redo" => job'.command.before = doc
    BY <1>1, <1>5 DEF Linked, PoppedChain
  <1>8. \A i \in 1..Len(queue') : queue'[i].kind \in Popped => job'.kind = queue'[i].kind
    <2> SUFFICES ASSUME NEW i \in 1..Len(queue'), queue'[i].kind \in Popped
                 PROVE  job'.kind = queue'[i].kind
      OBVIOUS
    <2>1. 1 \in 1..((i + 1) - 1) /\ queue'[i] = queue[i + 1] /\ i + 1 \in 1..Len(queue)
      BY <1>1, <1>2
    <2> QED
      BY <1>1, <2>1 DEF Linked, InTurn
  <1>9. AllFaithful'
    <2>1. job'.kind \in Popped => Faithful(job'.command)
      BY <1>1 DEF Linked, AllFaithful
    <2>2. \A i \in 1..Len(queue') : queue'[i].kind \in Popped => Faithful(queue'[i].command)
      BY <1>1, <1>2 DEF Linked, AllFaithful
    <2> QED
      BY <1>3, <2>1, <2>2 DEF Linked, AllFaithful
  <1>10. InTurn'
    <2> SUFFICES ASSUME NEW i \in 1..Len(queue'), queue'[i].kind \in Popped
                 PROVE  \A k \in 1..(i - 1) : queue'[k].kind = queue'[i].kind
      BY <1>8 DEF InTurn
    <2>1. i + 1 \in 1..Len(queue) /\ queue'[i] = queue[i + 1]
      BY <1>1, <1>2
    <2>2. \A j \in 1..((i + 1) - 1) : queue[j].kind = queue'[i].kind
      BY <2>1 DEF Linked, InTurn
    <2>3. ASSUME NEW k \in 1..(i - 1) PROVE queue'[k].kind = queue'[i].kind
      <3>1. k + 1 \in 1..((i + 1) - 1) /\ k \in 1..Len(queue')
        BY <1>1
      <3>2. queue'[k] = queue[k + 1]
        BY <1>2, <3>1
      <3> QED
        BY <2>2, <3>1, <3>2
    <2> QED
      BY <2>3
  <1>11. PoppedChain'
    <2> SUFFICES ASSUME NEW i \in 1..Len(queue'), queue'[i].kind \in Popped
                 PROVE  /\ queue'[i].kind = "undo" =>
                              queue'[i].command.after =
                                 IF i = 1 THEN UndoMeets' ELSE queue'[i - 1].command.before
                        /\ queue'[i].kind = "redo" =>
                              queue'[i].command.before =
                                 IF i = 1 THEN RedoMeets' ELSE queue'[i - 1].command.after
      BY DEF PoppedChain, Popped
    <2>1. /\ queue'[i].kind = "undo" => queue'[i].command.after = queue[i].command.before
          /\ queue'[i].kind = "redo" => queue'[i].command.before = queue[i].command.after
      BY <1>1, <1>2 DEF Linked, PoppedChain
    <2>2. job'.kind \in Popped
      BY <1>8
    <2>3. CASE i = 1
      BY <1>1, <1>6, <2>1, <2>2, <2>3
    <2>4. CASE i # 1
      BY <1>2, <2>1, <2>4
    <2> QED
      BY <2>3, <2>4
  <1>12. ASSUME NEW kind \in Popped, NEW i \in 1..Len(queue'), LastOf(kind, i)'
         PROVE  i + 1 \in 1..Len(queue) /\ LastOf(kind, i + 1) /\ queue'[i] = queue[i + 1]
    <2>1. i + 1 \in 1..Len(queue) /\ queue'[i] = queue[i + 1] /\ queue[i + 1].kind = kind
      BY <1>1, <1>2, <1>12 DEF LastOf
    <2>2. CASE i = Len(queue')
      BY <1>1, <2>1, <2>2 DEF LastOf
    <2>3. CASE i # Len(queue')
      <3>1. i + 1 \in 1..Len(queue')
        BY <1>1, <2>3
      <3>2. queue'[i + 1] = queue[(i + 1) + 1] /\ queue'[i + 1].kind # kind
        BY <1>1, <1>12, <2>3, <3>1 DEF LastOf
      <3> QED
        BY <2>1, <3>2 DEF LastOf
    <2> QED
      BY <2>2, <2>3
  <1>13. ASSUME NEW kind \in Popped, queue' = <<>> \/ queue'[1].kind # kind, job'.kind = kind
         PROVE  1 \in 1..Len(queue) /\ LastOf(kind, 1)
    <2>1. CASE queue' = <<>>
      BY <1>1, <1>13, <2>1 DEF LastOf
    <2>2. CASE queue' # <<>>
      <3>1. 1 \in 1..Len(queue') /\ queue'[1] = queue[1 + 1]
        BY <1>1, <2>2
      <3> QED
        BY <1>1, <1>13, <2>2, <3>1 DEF LastOf
    <2> QED
      BY <2>1, <2>2
  <1>14. UndoEnd'
    <2> SUFFICES ASSUME undo # <<>>
                 PROVE  /\ \A i \in 1..Len(queue') :
                              LastOf("undo", i)' => Last(undo).after = queue'[i].command.before
                        /\ queue' = <<>> \/ queue'[1].kind # "undo" => Last(undo).after = UndoMeets'
      BY <1>3 DEF UndoEnd
    <2>1. ASSUME NEW i \in 1..Len(queue'), LastOf("undo", i)'
          PROVE  Last(undo).after = queue'[i].command.before
      BY <1>12, <2>1 DEF Linked, UndoEnd, Popped
    <2>2. ASSUME queue' = <<>> \/ queue'[1].kind # "undo"
          PROVE  Last(undo).after = UndoMeets'
      <3>1. CASE job'.kind = "undo"
        BY <1>1, <1>6, <1>13, <2>2, <3>1 DEF Linked, UndoEnd, Popped
      <3>2. CASE job'.kind # "undo"
        <4>1. Last(undo).after = doc
          BY <1>1, <1>5, <3>2 DEF Linked, UndoEnd
        <4> QED
          BY <1>4, <1>6, <1>7, <3>2, <4>1 DEF Popped
      <3> QED
        BY <3>1, <3>2
    <2> QED
      BY <2>1, <2>2
  <1>15. RedoEnd'
    <2> SUFFICES ASSUME redo # <<>>
                 PROVE  /\ \A i \in 1..Len(queue') :
                              LastOf("redo", i)' => Last(redo).before = queue'[i].command.after
                        /\ queue' = <<>> \/ queue'[1].kind # "redo" => Last(redo).before = RedoMeets'
      BY <1>3 DEF RedoEnd
    <2>1. ASSUME NEW i \in 1..Len(queue'), LastOf("redo", i)'
          PROVE  Last(redo).before = queue'[i].command.after
      BY <1>12, <2>1 DEF Linked, RedoEnd, Popped
    <2>2. ASSUME queue' = <<>> \/ queue'[1].kind # "redo"
          PROVE  Last(redo).before = RedoMeets'
      <3>1. CASE job'.kind = "redo"
        BY <1>1, <1>6, <1>13, <2>2, <3>1 DEF Linked, RedoEnd, Popped
      <3>2. CASE job'.kind # "redo"
        <4>1. Last(redo).before = doc
          BY <1>1, <1>5, <3>2 DEF Linked, RedoEnd
        <4> QED
          BY <1>4, <1>6, <1>7, <3>2, <4>1 DEF Popped
      <3> QED
        BY <3>1, <3>2
    <2> QED
      BY <2>1, <2>2
  <1>16. DocStands'
    BY <1>3, <1>4, <1>7 DEF DocStands, At
  <1> QED
    BY <1>3, <1>9, <1>10, <1>11, <1>14, <1>15, <1>16 DEF Linked, UndoChain, RedoChain

\* An undo that was done: its command is the newest to redo.
LEMMA UndoneLinks ==
    ASSUME TypeInv, Linked, job.kind = "undo", job' = Idle, UNCHANGED <<undo, queue>>,
           doc' = job.command.before, redo' = Append(redo, job.command)
    PROVE  Linked'
  <1>1. \A i \in 1..Len(queue) : queue[i].kind \in Popped => queue[i].kind = "undo"
    BY DEF Linked, InTurn, Popped
  <1>2. queue = <<>> \/ queue[1].kind # "redo"
    BY <1>1, QueueFields DEF Popped
  <1>3. job.kind \in Popped /\ job.command \in Commands /\ Faithful(job.command)
    BY JobFields DEF Popped, Linked, AllFaithful
  <1>4. /\ redo' # <<>> /\ Last(redo').before = job.command.before
        /\ RedoChain(redo') /\ \A i \in 1..Len(redo') : Faithful(redo'[i])
    <2>1. redo # <<>> => Last(redo).before = job.command.after
      BY <1>2, <1>3 DEF Linked, RedoEnd, RedoMeets
    <2> QED
      BY <1>3, <2>1, Returned DEF TypeInv, Linked, AllFaithful
  <1>5. UndoMeets' = UndoMeets /\ RedoMeets' = doc' /\ job'.kind = "none"
    BY <1>3 DEF UndoMeets, RedoMeets, Idle, At, Popped
  <1>6. AllFaithful'
    BY <1>4, <1>5 DEF Linked, AllFaithful, Popped
  <1>7. InTurn' /\ DocStands'
    BY <1>5 DEF Linked, InTurn, DocStands, At
  <1>8. PoppedChain'
    BY <1>1, <1>5 DEF Linked, PoppedChain, Popped
  <1>9. UndoEnd'
    BY <1>5 DEF Linked, UndoEnd, LastOf
  <1>10. RedoEnd'
    BY <1>1, <1>4, <1>5 DEF RedoEnd, LastOf, Popped
  <1> QED
    BY <1>4, <1>6, <1>7, <1>8, <1>9, <1>10 DEF Linked, UndoChain

\* A redo that was done: its command is the newest to undo.
LEMMA RedoneLinks ==
    ASSUME TypeInv, Linked, job.kind = "redo", job' = Idle, UNCHANGED <<redo, queue>>,
           doc' = job.command.after, undo' = PushUndo(undo, job.command)
    PROVE  Linked'
  <1>1. \A i \in 1..Len(queue) : queue[i].kind \in Popped => queue[i].kind = "redo"
    BY DEF Linked, InTurn, Popped
  <1>2. queue = <<>> \/ queue[1].kind # "undo"
    BY <1>1, QueueFields DEF Popped
  <1>3. job.kind \in Popped /\ job.command \in Commands /\ Faithful(job.command)
    BY JobFields DEF Popped, Linked, AllFaithful
  <1>4. /\ undo' # <<>> /\ Last(undo').after = job.command.after
        /\ UndoChain(undo') /\ \A i \in 1..Len(undo') : Faithful(undo'[i])
    <2>1. undo # <<>> => Last(undo).after = job.command.before
      BY <1>2, <1>3 DEF Linked, UndoEnd, UndoMeets
    <2> QED
      BY <1>3, <2>1, Pushed DEF TypeInv, Linked, AllFaithful
  <1>5. RedoMeets' = RedoMeets /\ UndoMeets' = doc' /\ job'.kind = "none"
    BY <1>3 DEF UndoMeets, RedoMeets, Idle, At, Popped
  <1>6. AllFaithful'
    BY <1>4, <1>5 DEF Linked, AllFaithful, Popped
  <1>7. InTurn' /\ DocStands'
    BY <1>5 DEF Linked, InTurn, DocStands, At
  <1>8. PoppedChain'
    BY <1>1, <1>5 DEF Linked, PoppedChain, Popped
  <1>9. RedoEnd'
    BY <1>5 DEF Linked, RedoEnd, LastOf
  <1>10. UndoEnd'
    BY <1>1, <1>4, <1>5 DEF UndoEnd, LastOf, Popped
  <1> QED
    BY <1>4, <1>6, <1>7, <1>8, <1>9, <1>10 DEF Linked, RedoChain

\* The call of an undo leads back, that of a redo forth.
LEMMA ReplayCallLinks == TypeInv /\ Linked /\ ReplayCall /\ ~interfered' => Linked'
  <1> SUFFICES ASSUME TypeInv, Linked, ReplayCall, ~interfered' PROVE Linked'
    OBVIOUS
  <1>1. /\ job.kind \in Popped /\ job.command \in Commands /\ job.command.kind = "call"
        /\ Faithful(job.command) /\ job.step = "start"
        /\ Accepts(doc, CallFor(job)) /\ doc' = Effect(doc, CallFor(job))
    BY JobFields DEF ReplayCall, Popped, Linked, AllFaithful
  <1>2. job'.kind = job.kind /\ job'.command = job.command /\ job'.step = "called"
    <2>1. job \in WaitingJobs
      BY <1>1 DEF TypeInv, StartedJobs, Idle, Popped
    <2>2. job \in [kind : Popped, step : {"start"}, command : Commands]
      BY <1>1, <2>1 DEF WaitingJobs, Popped
    <2> QED
      BY <2>2 DEF ReplayCall
  <1>3. UndoMeets' = UndoMeets /\ RedoMeets' = RedoMeets
    BY <1>1, <1>2 DEF UndoMeets, RedoMeets
  <1>4. job.kind = "undo" => doc' = job.command.before
    <2> SUFFICES ASSUME job.kind = "undo" PROVE doc' = job.command.before
      OBVIOUS
    <2>1. doc = job.command.after /\ CallFor(job) = job.command.inverse
      BY <1>1 DEF Linked, DocStands, CallFor
    <2>2. Restorable(job.command.call, job.command.before)
      BY DEF ReplayCall
    <2> QED
      BY <1>1, <2>1, <2>2, InverseUndoes
  <1>5. job.kind = "redo" => doc' = job.command.after
    <2> SUFFICES ASSUME job.kind = "redo" PROVE doc' = job.command.after
      OBVIOUS
    <2>1. doc = job.command.before /\ CallFor(job) = job.command.call
      BY <1>1 DEF Linked, DocStands, CallFor
    <2> QED
      BY <1>1, <2>1 DEF Faithful
  <1>6. DocStands'
    BY <1>1, <1>2, <1>4, <1>5 DEF DocStands, At, Popped
  <1>7. UNCHANGED <<undo, redo, queue>>
    BY DEF ReplayCall
  <1>8. AllFaithful' /\ InTurn' /\ PoppedChain'
    BY <1>2, <1>3, <1>7 DEF Linked, AllFaithful, InTurn, PoppedChain
  <1>9. UndoEnd' /\ RedoEnd'
    BY <1>3, <1>7 DEF Linked, UndoEnd, RedoEnd, LastOf
  <1> QED
    BY <1>6, <1>7, <1>8, <1>9 DEF Linked, UndoChain, RedoChain

\* A refused command is put back where it was taken, if none taken after it waits.
LEMMA ReplayRefusedLinks == TypeInv /\ TypeInv' /\ Linked /\ ReplayRefused /\ ~interfered' => Linked'
  <1> SUFFICES ASSUME TypeInv, TypeInv', Linked, ReplayRefused, ~interfered' PROVE Linked'
    OBVIOUS
  <1>1. /\ job.kind \in Popped /\ job.command \in Commands /\ job.step = "start"
        /\ Faithful(job.command)
    BY JobFields DEF ReplayRefused, Popped, Linked, AllFaithful
  <1>2. Quiet
    <2>1. \A i \in 1..Len(queue) : queue[i] \in ToSet(queue)
      BY LenProperties DEF ToSet, TypeInv
    <2>2. \A i \in 1..Len(queue) : queue[i].kind # job.kind
      BY <2>1 DEF ReplayRefused
    <2> QED
      BY <1>1, <2>2 DEF Linked, InTurn, Quiet, Popped
  <1>3. StacksMeet
    BY <1>2, LinksWhenQuiet
  <1>4. job' = Idle /\ UNCHANGED <<doc, queue>>
    BY DEF ReplayRefused, Settle
  <1>5. /\ job'.kind = "none" /\ UndoMeets' = doc /\ RedoMeets' = doc /\ DocStands' /\ Quiet'
    BY <1>2, <1>4 DEF UndoMeets, RedoMeets, DocStands, At, Idle, Popped, Quiet
  <1>6. CASE job.kind = "undo"
    <2>1. doc = job.command.after
      BY <1>1, <1>3, <1>6 DEF StacksMeet, DocStands
    <2>2. undo # <<>> => Last(undo).after = job.command.before
      BY <1>1, <1>3 DEF StacksMeet, UndoMeets
    <2>3. redo # <<>> => Last(redo).before = doc
      BY <1>1, <1>3, <2>1 DEF StacksMeet, RedoMeets
    <2>4. undo' = PushUndo(undo, job.command) /\ redo' = redo
      BY <1>6 DEF ReplayRefused
    <2>5. /\ Last(undo').after = doc /\ UndoChain(undo')
          /\ \A i \in 1..Len(undo') : Faithful(undo'[i])
      BY <1>1, <1>3, <2>1, <2>2, <2>4, Pushed DEF TypeInv, StacksMeet
    <2>6. StacksMeet'
      BY <1>3, <1>5, <2>3, <2>4, <2>5 DEF StacksMeet, RedoChain, Popped
    <2> QED
      BY <1>5, <2>6, QuietLinks, PTL
  <1>7. CASE job.kind = "redo"
    <2>1. doc = job.command.before
      BY <1>1, <1>3, <1>7 DEF StacksMeet, DocStands
    <2>2. redo # <<>> => Last(redo).before = job.command.after
      BY <1>1, <1>3 DEF StacksMeet, RedoMeets
    <2>3. undo # <<>> => Last(undo).after = doc
      BY <1>1, <1>3, <2>1 DEF StacksMeet, UndoMeets
    <2>4. redo' = Append(redo, job.command) /\ undo' = undo
      BY <1>7 DEF ReplayRefused
    <2>5. /\ Last(redo').before = doc /\ RedoChain(redo')
          /\ \A i \in 1..Len(redo') : Faithful(redo'[i])
      BY <1>1, <1>3, <2>1, <2>2, <2>4, Returned DEF TypeInv, StacksMeet
    <2>6. StacksMeet'
      BY <1>3, <1>5, <2>3, <2>4, <2>5 DEF StacksMeet, UndoChain, Popped
    <2> QED
      BY <1>5, <2>6, QuietLinks, PTL
  <1> QED
    BY <1>1, <1>6, <1>7 DEF Popped
\* Behind an edit or an import nothing popped waits: the stacks still meet where
\* they met.
LEMMA QuietJobLinks ==
    ASSUME TypeInv, TypeInv', Linked, job.kind \notin Popped \union {"none"},
           job'.kind \notin Popped, UNCHANGED <<undo, redo, queue>>,
           UndoMeets' = UndoMeets, RedoMeets' = RedoMeets, DocStands'
    PROVE  Linked'
  <1>1. Quiet /\ Quiet'
    BY QuietBehind DEF Linked, Quiet
  <1>2. StacksMeet
    BY <1>1, LinksWhenQuiet
  <1>3. StacksMeet'
    BY <1>2 DEF StacksMeet, UndoChain, RedoChain
  <1> QED
    BY <1>1, <1>3, QuietLinks, PTL

LEMMA EditReadLinks == TypeInv /\ TypeInv' /\ Linked /\ EditRead => Linked'
  <1> SUFFICES ASSUME TypeInv, TypeInv', Linked, EditRead PROVE Linked'
    OBVIOUS
  <1>1. /\ job.kind = "edit" /\ job.step = "start"
        /\ job'.kind = "edit" /\ job'.step = "call" /\ job'.before = doc
        /\ UNCHANGED <<doc, undo, redo, queue>>
    BY DEF EditRead, At
  <1>2. UndoMeets' = UndoMeets /\ RedoMeets' = RedoMeets /\ DocStands'
    BY <1>1 DEF UndoMeets, RedoMeets, DocStands, At, Popped
  <1> QED
    BY <1>1, <1>2, QuietJobLinks DEF Popped

\* The graph was read before the call, and nobody wrote it since.
LEMMA EditCallLinks == TypeInv /\ TypeInv' /\ Linked /\ EditCall => Linked'
  <1> SUFFICES ASSUME TypeInv, TypeInv', Linked, EditCall PROVE Linked'
    OBVIOUS
  <1>1. /\ job.kind = "edit" /\ job.step = "call" /\ doc = job.before
        /\ job'.kind = "edit" /\ job'.step = "called"
        /\ job'.before = job.before /\ job'.call = job.call
        /\ Accepts(doc, job.call) /\ doc' = Effect(doc, job.call)
        /\ UNCHANGED <<undo, redo, queue>>
    BY DEF EditCall, At, Linked, DocStands
  <1>2. UndoMeets' = UndoMeets /\ RedoMeets' = RedoMeets /\ DocStands'
    BY <1>1 DEF UndoMeets, RedoMeets, DocStands, At, Popped
  <1> QED
    BY <1>1, <1>2, QuietJobLinks DEF Popped

\* A job that ends without a write, edit or import, leaves everything in place.
LEMMA GivenUpLinks ==
    ASSUME TypeInv, TypeInv', Linked, job' = Idle, UNCHANGED <<doc, undo, redo, queue>>,
           At("edit", "call") \/ At("import", "start")
    PROVE  Linked'
  <1>1. UndoMeets' = UndoMeets /\ RedoMeets' = RedoMeets /\ DocStands' /\ job'.kind = "none"
    BY DEF UndoMeets, RedoMeets, DocStands, At, Popped, Idle
  <1> QED
    BY <1>1, QuietJobLinks DEF Popped, At

\* The same when a file error ends it: it loses a command otherwise.
LEMMA JobThrowsLinks == TypeInv /\ TypeInv' /\ Linked /\ JobThrows /\ ~interfered' => Linked'
  <1> SUFFICES ASSUME TypeInv, TypeInv', Linked, JobThrows, ~interfered' PROVE Linked'
    OBVIOUS
  <1>1. job' = Idle /\ UNCHANGED <<doc, undo, redo, queue>> /\ job.kind \in {"edit", "import"}
        /\ ~At("edit", "called")
    BY DEF JobThrows, Settle, At
  <1>2. UndoMeets' = UndoMeets /\ RedoMeets' = RedoMeets /\ DocStands' /\ job'.kind = "none"
    BY <1>1 DEF UndoMeets, RedoMeets, DocStands, At, Popped, Idle
  <1> QED
    BY <1>1, <1>2, QuietJobLinks DEF Popped

\* An import empties the stacks.  If they had parted from the graph before and
\* jobs wait still, `interfered` stays.
LEMMA ImportLinks == TypeInv /\ TypeInv' /\ HistoryInv /\ Import /\ ~interfered' => Linked'
  <1> SUFFICES ASSUME TypeInv, TypeInv', HistoryInv, Import, ~interfered' PROVE Linked'
    OBVIOUS
  <1>1. /\ undo' = <<>> /\ redo' = <<>> /\ job'.kind = "none" /\ queue' = queue
        /\ Len(undo') = 0 /\ Len(redo') = 0
    BY EmptySeq DEF Import, Settle, Idle
  <1>2. Quiet'
    <2>1. CASE queue = <<>>
      BY <1>1, <2>1, EmptySeq DEF Quiet
    <2>2. CASE queue # <<>>
      BY <1>1, <2>2, QuietBehind DEF Import, At, HistoryInv, Linked, Popped, Quiet
    <2> QED
      BY <2>1, <2>2
  <1>3. StacksMeet'
    BY <1>1 DEF StacksMeet, UndoChain, RedoChain, DocStands, At, Popped
  <1> QED
    BY <1>2, <1>3, QuietLinks, PTL

-----------------------------------------------------------------------------
LEMMA HistoryInit == Init => HistoryInv
  <1> SUFFICES ASSUME Init PROVE Linked
    BY DEF HistoryInv
  <1>1. TypeInv
    BY TypeInit
  <1>2. job.kind = "none" /\ Len(queue) = 0 /\ Len(undo) = 0 /\ Len(redo) = 0
    BY EmptySeq DEF Init, Idle
  <1>3. Quiet /\ StacksMeet
    BY <1>2, EmptySeq DEF Init, Quiet, StacksMeet, UndoChain, RedoChain, DocStands, At, Popped
  <1> QED
    BY <1>1, <1>3, QuietLinks

LEMMA HistoryStep == TypeInv /\ TypeInv' /\ HistoryInv /\ [Next]_vars => HistoryInv'
  <1> SUFFICES ASSUME TypeInv, TypeInv', HistoryInv, [Next]_vars, ~interfered' PROVE Linked'
    BY DEF HistoryInv
  <1>1. CASE EditRequest
    <2>1. PICK c \in Edits : Enqueue([kind |-> "edit", step |-> "start", call |-> c])
      BY <1>1 DEF EditRequest
    <2>2. [kind |-> "edit", step |-> "start", call |-> c] \in WaitingJobs
      BY ServiceConstants DEF WaitingJobs
    <2> QED
      BY <1>1, <2>1, <2>2, OtherRequestLinks DEF EditRequest, HistoryInv, Popped
  <1>2. CASE UndoRequest
    BY <1>2, UndoRequestLinks DEF UndoRequest, HistoryInv
  <1>3. CASE RedoRequest
    BY <1>3, RedoRequestLinks DEF RedoRequest, HistoryInv
  <1>4. CASE ImportRequest
    <2>1. PICK g \in Given : Enqueue([kind |-> "import", step |-> "start", graph |-> g])
      BY <1>4 DEF ImportRequest
    <2>2. [kind |-> "import", step |-> "start", graph |-> g] \in WaitingJobs
      BY ServiceConstants DEF WaitingJobs
    <2> QED
      BY <1>4, <2>1, <2>2, OtherRequestLinks DEF ImportRequest, HistoryInv, Popped
  <1>5. CASE StartJob
    BY <1>5, StartJobLinks DEF StartJob, HistoryInv
  <1>6. CASE EditRead
    BY <1>6, EditReadLinks DEF EditRead, HistoryInv
  <1>7. CASE EditCall
    BY <1>7, EditCallLinks DEF EditCall, HistoryInv
  <1>8. CASE EditRefused
    BY <1>8, GivenUpLinks DEF EditRefused, Settle, HistoryInv
  <1>9. CASE EditDone
    BY <1>9, EditDoneLinks DEF EditDone, HistoryInv
  <1>10. CASE UndoSnapshot
    BY <1>10, UndoneLinks DEF UndoSnapshot, At, Settle, HistoryInv
  <1>11. CASE RedoSnapshot
    BY <1>11, RedoneLinks DEF RedoSnapshot, At, Settle, HistoryInv
  <1>12. CASE LockTimeout
    BY <1>12, GivenUpLinks DEF LockTimeout, Settle, HistoryInv
  <1>13. CASE ReplayCall
    BY <1>13, ReplayCallLinks DEF ReplayCall, HistoryInv
  <1>14. CASE ReplayRefused
    BY <1>14, ReplayRefusedLinks DEF ReplayRefused, HistoryInv
  <1>15. CASE ReplayDone
    <2>1. Linked /\ job' = Idle /\ UNCHANGED <<doc, queue>>
      BY <1>15 DEF ReplayDone, Settle, HistoryInv
    <2>2. CASE job.kind = "undo"
      <3>1. doc = job.command.before
        BY <1>15, <2>1, <2>2 DEF ReplayDone, Linked, DocStands
      <3> QED
        BY <1>15, <2>1, <2>2, <3>1, UndoneLinks DEF ReplayDone
    <2>3. CASE job.kind = "redo"
      <3>1. doc = job.command.after
        BY <1>15, <2>1, <2>3 DEF ReplayDone, Linked, DocStands
      <3> QED
        BY <1>15, <2>1, <2>3, <3>1, RedoneLinks DEF ReplayDone
    <2> QED
      BY <1>15, <2>2, <2>3 DEF ReplayDone
  <1>16. CASE Import
    BY <1>16, ImportLinks
  <1>17. CASE AgentWrite
    BY <1>17 DEF AgentWrite
  <1>17a. CASE JobThrows
    BY <1>17a, JobThrowsLinks DEF HistoryInv, JobThrows
  <1>18. CASE UNCHANGED vars
    BY <1>18 DEF vars, HistoryInv, Linked, AllFaithful, InTurn, UndoChain, RedoChain,
       PoppedChain, UndoEnd, RedoEnd, DocStands, LastOf, UndoMeets, RedoMeets, At
  <1> QED
    BY <1>1, <1>2, <1>3, <1>4, <1>5, <1>6, <1>7, <1>8, <1>9, <1>10, <1>11, <1>12, <1>13,
       <1>14, <1>15, <1>16, <1>17, <1>17a, <1>18 DEF Next, Request, JobStep

\* Unless an agent wrote, a lock was busy, a file error lost a command, requests
\* overtook each other, or a call was undone that its inverse cannot restore, the
\* two stacks are one history, and the graph stands where they meet.
THEOREM OneHistoryAlways == Spec => []OneHistory
  <1>1. TypeInv /\ HistoryInv => OneHistory
    <2> SUFFICES ASSUME TypeInv, Linked, ~Serving PROVE OneHistory
      BY DEF HistoryInv, OneHistory
    <2>1. queue = <<>> /\ job.kind = "none"
      BY DEF Serving, Idle
    <2>2. UndoMeets = doc /\ RedoMeets = doc
      BY <2>1 DEF UndoMeets, RedoMeets, At, Popped
    <2> QED
      BY <2>1, <2>2 DEF Linked, UndoEnd, RedoEnd, UndoChain, RedoChain, OneHistory
  <1> QED
    BY <1>1, TypeAlways, HistoryInit, HistoryStep, TypeInit, TypeStep, PTL DEF Spec
=============================================================================
