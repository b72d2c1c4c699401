---------------------------- MODULE EaWebService ----------------------------
(***************************************************************************)
(* Editing one project through the EA web service (ea-web-service.js):     *)
(* HTTP requests to edit, undo, redo and import, the project's write       *)
(* queue, and the undo and redo stacks, while agents write the same graph  *)
(* through MCP servers of their own.                                       *)
(*                                                                         *)
(* The graph maps each object to its contents or to Absent.  One MCP call  *)
(* is one step here: GraphWrite models the lock that makes it so.          *)
(***************************************************************************)
EXTENDS Naturals, Sequences, SequencesExt

CONSTANTS
    Objects,        \* ids of elements, relationships and views
    Diagrams,       \* those of them that are views
    Views,          \* ids of the views whose members are not a question here
    Texts,          \* contents of text fields, the name among them
    Items,          \* entries of lists: attributes and testcases, a view's members
    Absent,         \* the object is not in the graph
    Keep,           \* a patch sets no text
    Identity,       \* the type and name in a text, by which the MCP knows an object
    Loses,          \* pairs <<t, u>> where going from t to u drops text
    Edits,          \* bound: the calls that clients make
    Given,          \* bound: graphs there are at first and that imports and agents bring
    Depth,          \* undoDepth: the undo stack keeps this many commands
    Pipelined,      \* can a request arrive while another is being served?
    LockBusy,       \* can an agent hold <graph>.lock past the 3 s timeout?
    FileErrors,     \* can the graph be unreadable or unwritable for a while?
    MaxRequests,    \* bound: requests in a behaviour
    MaxAgentWrites  \* bound: writes by agents in a behaviour

\* An object's text and lists, the views that show it, and the views from which
\* removing it takes something else along: relationships of an element, ends of a
\* relationship.
Contents ==
    [text : Texts, items : SUBSET Items, shown : SUBSET Views, linked : SUBSET Views]

Graphs == [Objects -> Contents \union {Absent}]

(* Tool calls, as the service makes them: without acknowledgeLoss, which    *)
(* buildEditArgs and deriveInverseCommand never pass.                       *)

AddCall(o, v)         == [tool |-> "add", id |-> o, value |-> v]
RemoveCall(o, scope)  == [tool |-> "remove", id |-> o, scope |-> scope]
BatchCall(b)          == [tool |-> "batch", changes |-> b]

\* A patch adds entries to the lists and removes some; `whole` when it gives
\* entire lists, as an inverse does.
UpdateCall(o, text, add, remove, whole) ==
    [tool |-> "update", id |-> o, text |-> text, add |-> add, remove |-> remove, whole |-> whole]

Calls ==
    [tool : {"add"}, id : Objects, value : Contents \union {Absent}]
    \union [tool : {"update"}, id : Objects, text : Texts \union {Keep},
            add : SUBSET Items, remove : SUBSET Items, whole : BOOLEAN]
    \union [tool : {"remove"}, id : Objects, scope : SUBSET Views]
    \union [tool : {"batch"},
            changes : UNION {[S -> Contents \union {Absent}] : S \in SUBSET Objects}]

ASSUME ServiceConstants ==
    /\ Diagrams \subseteq Objects
    /\ Absent \notin Contents
    /\ Keep \notin Texts
    /\ DOMAIN Identity = Texts
    /\ Loses \subseteq Texts \X Texts
    /\ Edits \subseteq Calls
    /\ Given \subseteq Graphs
    /\ Depth \in Nat \ {0}
    /\ Pipelined \in BOOLEAN
    /\ LockBusy \in BOOLEAN
    /\ FileErrors \in BOOLEAN
    /\ MaxRequests \in Nat
    /\ MaxAgentWrites \in Nat

VARIABLES
    doc,          \* the canonical graph file
    undo, redo,   \* undoStacks, redoStacks: sequences of commands
    queue,        \* the jobs behind the running one in writeQueues
    job,          \* the job that runs, or Idle
    requests,     \* counts the requests, for the bound
    agentWrites,  \* counts the agents' writes, for the bound
    interfered    \* history: the stacks and the graph may have parted

vars == <<doc, undo, redo, queue, job, requests, agentWrites, interfered>>

-----------------------------------------------------------------------------
(* What the MCP makes of a call.                                            *)

Same(v, w) == Identity[v.text] = Identity[w.text]

\* The object that an addition reaches: the one of that id; or else, onConflict
\* being "reuse", one of the same type and name; or a new one.
Reached(graph, call) ==
    LET twins == {o \in Objects : graph[o] # Absent /\ Same(graph[o], call.value)}
    IN  IF graph[call.id] # Absent \/ twins = {} THEN call.id ELSE CHOOSE o \in twins : TRUE

\* Whether the MCP accepts the call.  An element needs views to be shown in, and
\* an id that is taken an object of the same identity.  An update must not drop
\* text, nor a view's members unless it says so.  The lossless gate lets a removal
\* pass that leaves the object in some view (one without view_ids has them all for
\* its scope).  The mutations of a batch are the client's own and may acknowledge
\* their losses.
Accepts(graph, call) ==
    CASE call.tool = "add" ->
            /\ call.value # Absent
            /\ call.value.shown # {} \/ call.id \in Diagrams
            /\ graph[call.id] # Absent => Same(graph[call.id], call.value)
      [] call.tool = "update" ->
            /\ graph[call.id] # Absent
            /\ call.text # Keep => <<graph[call.id].text, call.text>> \notin Loses
            /\ call.whole /\ call.id \in Diagrams => graph[call.id].items \subseteq call.add
      [] call.tool = "remove" ->
            /\ graph[call.id] # Absent
            /\ graph[call.id].shown \ call.scope # {}
      [] call.tool = "batch" -> TRUE

\* An object that is there already is only shown in more views.
Placed(v, views) ==
    [text |-> v.text, items |-> v.items, shown |-> v.shown \union views, linked |-> v.linked]

\* A new object has no relationships yet.
Created(v) == [text |-> v.text, items |-> v.items, shown |-> v.shown, linked |-> {}]

\* Texts are replaced, lists merged by name.
Patched(v, call) ==
    [text   |-> IF call.text = Keep THEN v.text ELSE call.text,
     items  |-> (v.items \ call.remove) \union call.add,
     shown  |-> v.shown,
     linked |-> v.linked]

TakenFrom(v, scope) ==
    [text |-> v.text, items |-> v.items, shown |-> v.shown \ scope, linked |-> v.linked \ scope]

\* What a call that was accepted does.
Effect(graph, call) ==
    CASE call.tool = "add" ->
            [graph EXCEPT ![Reached(graph, call)] =
                IF @ = Absent THEN Created(call.value) ELSE Placed(@, call.value.shown)]
      [] call.tool = "update" -> [graph EXCEPT ![call.id] = Patched(@, call)]
      [] call.tool = "remove" -> [graph EXCEPT ![call.id] = TakenFrom(@, call.scope)]
      [] call.tool = "batch" -> [o \in Objects |-> IF o \in DOMAIN call.changes
                                                  THEN call.changes[o] ELSE graph[o]]

PatchesItems(call) == call.whole \/ call.add # {} \/ call.remove # {}

\* oldFieldsForPatch: the old text and the entire old lists of the fields that the
\* patch sets; nothing of an object that was not there.
OldFields(call, before) ==
    IF before = Absent THEN UpdateCall(call.id, Keep, {}, {}, FALSE)
    ELSE UpdateCall(call.id,
                    IF call.text = Keep THEN Keep ELSE before.text,
                    IF PatchesItems(call) THEN before.items ELSE {},
                    {},
                    PatchesItems(call))

\* deriveInverseCommand, from the graph read before the call.
DeriveInverse(call, before) ==
    CASE call.tool = "add"    -> RemoveCall(call.id, Views)
      [] call.tool = "update" -> OldFields(call, before[call.id])
      [] call.tool = "remove" -> AddCall(call.id, before[call.id])

\* The inverse brings everything back: it names no entry that the call had added,
\* and no relationship that went with an element, or end with a relationship.
Restorable(call, before) ==
    CASE call.tool = "update" -> call.add \subseteq before[call.id].items
      [] call.tool = "remove" -> before[call.id].linked \intersect call.scope = {}
      [] OTHER -> TRUE

-----------------------------------------------------------------------------
(* The stacks                                                               *)

\* Mutant: the depth limit drops the newest command.
PushKeepingOldest(stack, command) ==
    IF Len(stack) >= Depth THEN stack ELSE Append(stack, command)

\* Mutant: the depth is not enforced.
PushUncapped(stack, command) == Append(stack, command)

\* pushUndo: over the limit, the oldest command falls out.
PushUndo(stack, command) ==
    LET pushed == Append(stack, command)
    IN  IF Len(pushed) > Depth THEN Tail(pushed) ELSE pushed

-----------------------------------------------------------------------------
(* Requests.  A request of an idle service starts its job at once; another   *)
(* joins the queue.                                                          *)

Idle == [kind |-> "none"]

Serving == job # Idle \/ queue # <<>>

\* withProjectWriteLock: the job runs after every job before it.
Enqueue(j) == queue' = Append(queue, j)

Receive ==
    /\ requests < MaxRequests
    /\ Pipelined \/ ~Serving
    /\ requests' = requests + 1

EditRequest ==
    /\ Receive
    /\ \E c \in Edits : Enqueue([kind |-> "edit", step |-> "start", call |-> c])
    /\ UNCHANGED <<doc, undo, redo, job, agentWrites, interfered>>

\* A command is popped before its turn: a job of another kind comes first.
Overtakes(kind) == \E j \in {job} \union ToSet(queue) : j.kind \notin {"none", kind}

\* undoProject pops its command when the request arrives, not when its turn in
\* the queue comes.  With nothing to pop the request fails.
UndoRequest ==
    /\ Receive
    /\ undo # <<>>
    /\ undo' = Front(undo)
    /\ Enqueue([kind |-> "undo", step |-> "start", command |-> Last(undo)])
    /\ interfered' = (interfered \/ Overtakes("undo"))
    /\ UNCHANGED <<doc, redo, job, agentWrites>>

RedoRequest ==
    /\ Receive
    /\ redo # <<>>
    /\ redo' = Front(redo)
    /\ Enqueue([kind |-> "redo", step |-> "start", command |-> Last(redo)])
    /\ interfered' = (interfered \/ Overtakes("redo"))
    /\ UNCHANGED <<doc, undo, job, agentWrites>>

\* importProject, once the text is parsed and validated.
ImportRequest ==
    /\ Receive
    /\ \E g \in Given : Enqueue([kind |-> "import", step |-> "start", graph |-> g])
    /\ UNCHANGED <<doc, undo, redo, job, agentWrites, interfered>>

\* The promise chain: the next job starts when the one before it has settled.
StartJob ==
    /\ job = Idle
    /\ queue # <<>>
    /\ job' = Head(queue)
    /\ queue' = Tail(queue)
    /\ UNCHANGED <<doc, undo, redo, requests, agentWrites, interfered>>

At(kind, step) == job.kind = kind /\ job.step = step

\* The job settles, fulfilled or rejected.
Settle == job' = Idle /\ UNCHANGED <<queue, requests, agentWrites>>

-----------------------------------------------------------------------------
(* Edit                                                                      *)

\* The graph is read (and backed up) before the call, outside any lock.
EditRead ==
    /\ At("edit", "start")
    /\ job' = [kind |-> "edit", step |-> "call", call |-> job.call, before |-> doc]
    /\ UNCHANGED <<doc, undo, redo, queue, requests, agentWrites, interfered>>

\* The MCP refuses the call, or gives up waiting for the lock; either way the
\* result says `failed`.  (LockBusy thus covers the refusals for reasons that are
\* not looked into here as well: an invalid graph, a semantic near-duplicate, an
\* inverse that gives a list the object never had as `undefined`.)
Fails(call) == ~Accepts(doc, call) \/ LockBusy

EditCall ==
    /\ At("edit", "call")
    /\ Accepts(doc, job.call)
    /\ doc' = Effect(doc, job.call)
    /\ job' = [kind |-> "edit", step |-> "called", call |-> job.call, before |-> job.before]
    /\ UNCHANGED <<undo, redo, queue, requests, agentWrites, interfered>>

\* Mutant: a failed edit neither returns nor throws.
EditRefusedHanging ==
    /\ At("edit", "call")
    /\ Fails(job.call)
    /\ UNCHANGED vars

EditRefused ==
    /\ At("edit", "call")
    /\ Fails(job.call)
    /\ Settle
    /\ UNCHANGED <<doc, undo, redo, interfered>>

\* A batch is undone by putting back the graph read before it, any other edit by
\* the inverse call.  (before and after of the latter are history.)
Command(call, before, after) ==
    IF call.tool = "batch"
    THEN [kind |-> "snapshot", call |-> call, inverse |-> call, before |-> before, after |-> after]
    ELSE [kind |-> "call", call |-> call, inverse |-> DeriveInverse(call, before),
          before |-> before, after |-> after]

\* Mutant: a new edit leaves the redo stack alone.
EditDoneKeepingRedo ==
    /\ At("edit", "called")
    /\ undo' = PushUndo(undo, Command(job.call, job.before, doc))
    /\ Settle
    /\ UNCHANGED <<doc, redo, interfered>>

EditDone ==
    /\ At("edit", "called")
    /\ undo' = PushUndo(undo, Command(job.call, job.before, doc))
    /\ redo' = <<>>
    /\ Settle
    /\ UNCHANGED <<doc, interfered>>

-----------------------------------------------------------------------------
(* Undo and redo of a snapshot: the service replaces the file itself, under  *)
(* the lock, by a graph it saw earlier.                                      *)

UndoSnapshot ==
    /\ At("undo", "start")
    /\ job.command.kind = "snapshot"
    /\ doc' = job.command.before
    /\ redo' = Append(redo, job.command)
    /\ Settle
    /\ UNCHANGED <<undo, interfered>>

RedoSnapshot ==
    /\ At("redo", "start")
    /\ job.command.kind = "snapshot"
    /\ doc' = job.command.after
    /\ undo' = PushUndo(undo, job.command)
    /\ Settle
    /\ UNCHANGED <<redo, interfered>>

\* acquireFileLock times out with 409 before the try block: the popped command
\* is put back on neither stack.
LockTimeout ==
    /\ LockBusy
    /\ \/ /\ job.kind \in {"undo", "redo"} /\ job.step = "start"
          /\ job.command.kind = "snapshot"
          /\ interfered' = TRUE
       \/ /\ At("import", "start")
          /\ UNCHANGED interfered
    /\ Settle
    /\ UNCHANGED <<doc, undo, redo>>

-----------------------------------------------------------------------------
(* Undo and redo of a call, and import                                       *)

CallFor(j) == IF j.kind = "undo" THEN j.command.inverse ELSE j.command.call

ReplayCall ==
    /\ job.kind \in {"undo", "redo"}
    /\ job.step = "start"
    /\ job.command.kind = "call"
    /\ Accepts(doc, CallFor(job))
    /\ doc' = Effect(doc, CallFor(job))
    /\ job' = [job EXCEPT !.step = "called"]
    /\ interfered' = (interfered \/
         (job.kind = "undo" /\ ~Restorable(job.command.call, job.command.before)))
    /\ UNCHANGED <<undo, redo, queue, requests, agentWrites>>

\* The command goes back on the stack it came from.
ReplayRefused ==
    /\ job.kind \in {"undo", "redo"}
    /\ job.step = "start"
    /\ job.command.kind = "call"
    /\ Fails(CallFor(job))
    /\ IF job.kind = "undo"
       THEN undo' = PushUndo(undo, job.command) /\ UNCHANGED redo
       ELSE redo' = Append(redo, job.command) /\ UNCHANGED undo
    /\ interfered' = (interfered \/ \E j \in ToSet(queue) : j.kind = job.kind)
    /\ Settle
    /\ UNCHANGED doc

ReplayDone ==
    /\ job.kind \in {"undo", "redo"}
    /\ job.step = "called"
    /\ IF job.kind = "undo"
       THEN redo' = Append(redo, job.command) /\ UNCHANGED undo
       ELSE undo' = PushUndo(undo, job.command) /\ UNCHANGED redo
    /\ Settle
    /\ UNCHANGED <<doc, interfered>>

\* A file cannot be read or written: the graph before an edit or after a batch, its
\* backup, what the MCP reads, the file that a snapshot or an import replaces.  The
\* adapter passes on what the MCP throws.  The job rejects, and the command that it
\* popped or did not yet push is lost.
JobThrows ==
    /\ FileErrors
    /\ \/ job.kind \in {"edit", "undo", "redo", "import"} /\ job.step # "called"
       \/ At("edit", "called") /\ job.call.tool = "batch"
    /\ interfered' = (interfered \/ job.kind \in {"undo", "redo"} \/ job.step = "called")
    /\ Settle
    /\ UNCHANGED <<doc, undo, redo>>

\* The stacks start anew.
Import ==
    /\ At("import", "start")
    /\ doc' = job.graph
    /\ undo' = <<>>
    /\ redo' = <<>>
    /\ interfered' = (interfered /\ queue # <<>>)
    /\ Settle

\* An agent adds, changes or (acknowledging it) removes an object.
AgentWrite ==
    /\ agentWrites < MaxAgentWrites
    /\ agentWrites' = agentWrites + 1
    /\ \E o \in Objects, g \in Given :
        /\ g[o] # doc[o]
        /\ doc' = [doc EXCEPT ![o] = g[o]]
    /\ interfered' = TRUE
    /\ UNCHANGED <<undo, redo, queue, job, requests>>

-----------------------------------------------------------------------------
Init ==
    /\ doc \in Given
    /\ undo = <<>>
    /\ redo = <<>>
    /\ queue = <<>>
    /\ job = Idle
    /\ requests = 0
    /\ agentWrites = 0
    /\ interfered = FALSE

Request == EditRequest \/ UndoRequest \/ RedoRequest \/ ImportRequest

JobStep ==
    \/ EditRead \/ EditCall \/ EditRefused \/ EditDone
    \/ UndoSnapshot \/ RedoSnapshot \/ LockTimeout
    \/ ReplayCall \/ ReplayRefused \/ ReplayDone
    \/ Import

Next == Request \/ StartJob \/ JobStep \/ JobThrows \/ AgentWrite

Spec == Init /\ [][Next]_vars

\* The event loop runs what is ready; every MCP call returns, as it does with the
\* default in-process adapter (a stdio child may die without an answer).
FairSpec == Spec /\ WF_vars(StartJob) /\ WF_vars(JobStep)
-----------------------------------------------------------------------------
(* Properties                                                               *)

Commands ==
    [kind : {"snapshot", "call"}, call : Calls, inverse : Calls, before : Graphs, after : Graphs]

TypeOK ==
    /\ doc \in Graphs
    /\ \A i \in DOMAIN undo : undo[i] \in Commands
    /\ \A i \in DOMAIN redo : redo[i] \in Commands
    /\ Len(undo) <= Depth
    /\ Len(queue) <= requests
    /\ interfered \in BOOLEAN

\* The commands form one history: each starts from the graph the one before it
\* left, and the graph is where the undone part and the undoable part meet.  It
\* is broken by an agent's write, by a request that pops its command out of turn,
\* by a lock timeout or a file error that loses a command, and by the undo of a
\* call that its inverse does not bring back entirely; an import mends it.
OneHistory ==
    ~Serving /\ ~interfered =>
        /\ (undo # <<>> => Last(undo).after = doc)
        /\ (redo # <<>> => Last(redo).before = doc)
        /\ \A i \in 1..(Len(undo) - 1) : undo[i].after = undo[i + 1].before
        /\ \A i \in 1..(Len(redo) - 1) : redo[i + 1].after = redo[i].before

\* What FR-12 and AC-10 of ea-web-service-requirements.md ask: an undo brings back the
\* graph that was.  It does not hold of the code, even with nobody else writing: an
\* added attribute stays, and so does the loss of what a scoped removal took along.
UndoRestores ==
    [][~interfered /\ ReplayCall /\ job.kind = "undo" => doc' = job.command.before]_vars

\* Every request is answered, whatever becomes of the jobs before it.
RequestsAnswered == Serving ~> ~Serving
=============================================================================
