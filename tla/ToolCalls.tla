----------------------------- MODULE ToolCalls -----------------------------
(***************************************************************************)
(* How a process that serves several projects finds the project of a tool  *)
(* call, and keeps to it until the call returns.                           *)
(*                                                                         *)
(* The host is an MCP server on stdio (argo-mcp-server.js) or the web      *)
(* service with its in-process adapter (ea-web-service.js).  The server    *)
(* reads one message after the other and awaits each call, except for the  *)
(* calls it defers until the client has named its roots and then starts    *)
(* together.  The web service runs calls of different requests at once and *)
(* swaps ARGO_REPO_ROOT around each.  What they share is the process: that *)
(* variable, the settings loaded from the projects' .env files, and the    *)
(* one alignment that is in flight.                                        *)
(*                                                                         *)
(* A call's own steps are taken from GraphWrite, Neo4jProjection and       *)
(* AlignmentRunner, with the failures left to those modules.               *)
(***************************************************************************)
EXTENDS Naturals, Sequences, SequencesExt

CONSTANTS
    Projects,   \* directories with a canonical graph
    Cwd,        \* the directory the process was started in, which has none
    DefaultDb,  \* the database named after a project's directory
    OwnDbs,     \* settings of ARGO_NEO4J_DATABASE in the projects' .env files
    GlobalEnv,  \* is there a .env file of the user's or of the installation's?
    Hosts,      \* bound: projects that the process may be installed in
    MaxCalls,   \* bound: tool calls
    MaxRead,    \* bound: tool calls that a server on stdio reads
    MaxChanges, \* bound: changes of the client's roots
    None        \* not set, nobody, nothing

\* A call is numbered as it comes.
Calls == 1..MaxCalls

Places == Projects \union {Cwd}
Databases == {DefaultDb[p] : p \in Projects}
                 \union UNION {{own[p] : p \in Projects} : own \in OwnDbs}

ASSUME CallConstants ==
    /\ Cwd \notin Projects
    /\ None \notin Places \union Calls
    /\ MaxCalls \in Nat /\ MaxRead \in 0..MaxCalls /\ MaxChanges \in Nat
    /\ DOMAIN DefaultDb = Projects
    /\ \A p \in Projects : DefaultDb[p] # None
    /\ \A p, q \in Projects : DefaultDb[p] = DefaultDb[q] => p = q
    /\ \A own \in OwnDbs : DOMAIN own = Projects
    /\ GlobalEnv \in BOOLEAN
    /\ Hosts \subseteq Projects

VARIABLES
    host,      \* the kind of the process, ARGO_WORKSPACE_ROOT_TRUSTED, and the
               \* project that the installation is embedded in
    own,       \* the projects' settings of the database, or None
    env,       \* process.env.ARGO_REPO_ROOT
    dbName,    \* process.env.ARGO_NEO4J_DATABASE
    roots,     \* mcpWorkspaceRoots: the project among them
    hand,      \* the roots/list handshake
    loop,      \* the call the main loop awaits
    deferred,  \* deferredToolCalls
    call,      \* the calls
    lock,      \* per project: who has <graph>.lock
    graph,     \* per project: the calls whose write it holds
    synced,    \* per project: is its digest recorded as projected?
    db,        \* per database: whose graph is projected there
    ready,     \* per project: is its embedding index ready?
    aligning,  \* where the alignment in flight works (inFlight)
    changes,   \* counts the changes of the roots, for the bound
    crossed,   \* history: a swap was undone after a later one had been made
    rootless   \* history: the client was silent for 8 s, or named no root

hostVars == <<host, own>>
rootVars == <<env, roots, hand, loop, deferred, changes, crossed, rootless>>
dataVars == <<lock, graph, synced, db, ready, aligning>>
vars == <<hostVars, rootVars, dataVars, dbName, call>>

Web == host.kind = "web"

\* hasStaticWorkspace.
Static == env # None \/ host.embedded # None

\* getWorkspaceRoot, with the environment and the roots as they are given.
RootOf(e, r) ==
    IF e # None THEN e
    ELSE IF r # None THEN r
    ELSE IF host.embedded # None THEN host.embedded
    ELSE Cwd
Workspace == RootOf(env, roots)

NewCall == [pc |-> "new", kind |-> "query", want |-> None, session |-> FALSE,
            root |-> None, aim |-> None, saved |-> None, late |-> FALSE, strayed |-> FALSE,
            answer |-> "none"]

CallPc == {"new", "deferred", "lock", "recover", "write", "project", "check", "align",
           "wait", "again", "return", "done"}

Answers == {"none", "written", "served", "refused", "failed", "denied"}

TypeOK ==
    /\ host \in [kind : {"web", "stdio"}, trusted : BOOLEAN, embedded : Projects \union {None}]
    /\ own \in OwnDbs
    /\ env \in Projects \union {None}
    /\ dbName \in Databases \union {None}
    /\ roots \in Projects \union {None}
    /\ hand \in {"none", "asked", "settled"}
    /\ loop \in Calls \union {None}
    /\ Range(deferred) = {c \in Calls : call[c].pc = "deferred"}
    /\ call \in [Calls ->
          [pc : CallPc, kind : {"write", "query"}, want : Projects \union {None},
           session : BOOLEAN, root : Places \union {None}, aim : Places \union {None},
           saved : Projects \union {None}, late : BOOLEAN, strayed : BOOLEAN,
           answer : Answers]]
    /\ lock \in [Projects -> Calls \union {None}]
    /\ graph \in [Projects -> SUBSET Calls]
    /\ synced \in [Projects -> BOOLEAN]
    /\ db \in [Databases \ {None} -> Projects \union {None}]
    /\ ready \in [Projects -> BOOLEAN]
    /\ aligning \in Places \union {None}
    /\ changes \in 0..MaxChanges
    /\ crossed \in BOOLEAN
    /\ rootless \in BOOLEAN

Init ==
    /\ host \in [kind : {"web", "stdio"}, trusted : BOOLEAN, embedded : Hosts \union {None}]
    /\ host.kind = "web" => ~host.trusted
    /\ own \in OwnDbs
    /\ env \in {None} \union (IF host.kind = "web" THEN {} ELSE Projects)
    /\ dbName = None
    /\ roots = None
    /\ hand = "none"
    /\ loop = None
    /\ deferred = <<>>
    /\ call = [c \in Calls |-> NewCall]
    /\ lock = [p \in Projects |-> None]
    /\ graph = [p \in Projects |-> {}]
    /\ synced = [p \in Projects |-> FALSE]
    /\ db = [d \in Databases \ {None} |-> None]
    /\ ready = [p \in Projects |-> FALSE]
    /\ aligning = None
    /\ changes = 0
    /\ crossed = FALSE
    /\ rootless = FALSE

Active(c) == call[c].pc \notin {"new", "deferred", "done"}

\* c is the next call.
Comes(c) == \A d \in Calls : call[d].pc = "new" <=> c <= d

\* What is left of a call that has been answered.
Done(k) == [NewCall EXCEPT !.pc = "done", !.late = k.late]

\* The process-wide root may have moved under this query.
Strayed(k) == [k EXCEPT !.strayed =
                  @ \/ (k.kind = "query" /\ k.pc \in {"recover", "check", "align"})]

-----------------------------------------------------------------------------
(* Dispatch: what callTool does before its first await                     *)

\* authorizeWorkspaceWrite: a write goes to the server's own workspace, or to
\* the session's, which only a trusted broker may name.
Allowed(k, home) ==
    \/ k.kind = "query"
    \/ k.want \in {None, home}
    \/ host.trusted /\ k.session

\* resolveCallWorkspaceRoot, once for the whole call.
Target(k, home) == IF k.want # None THEN k.want ELSE home

\* loadContext: the graph is read, and the projection looked at.
Load(k, root) ==
    IF ~synced[root] THEN "recover" ELSE IF k.kind = "write" THEN "write" ELSE "check"

Dispatched(k, home) ==
    LET root == Target(k, home)
    IN  [k EXCEPT !.root = root, !.aim = root, !.strayed = root # home,
                  !.pc = IF ~Allowed(k, home) \/ root = Cwd THEN "return"
                         ELSE IF k.kind = "write" THEN "lock" ELSE Load(k, root),
                  !.answer = IF ~Allowed(k, home) THEN "denied"
                             ELSE IF root = Cwd THEN "failed" ELSE "none"]

\* getArgoEnvPath: the last place for the settings of all projects is the .env of
\* the current workspace.
Fallback(home) == IF GlobalEnv \/ home = Cwd THEN None ELSE own[home]

\* loadRepositoryArgoEnvironment: what the process has already is kept, and the
\* call's workspace comes before the rest.
Loaded(name, k, home) ==
    IF name # None \/ ~Allowed(k, home) \/ Target(k, home) = Cwd THEN name
    ELSE IF own[Target(k, home)] # None THEN own[Target(k, home)]
    ELSE Fallback(home)

-----------------------------------------------------------------------------
(* The web service's adapter                                               *)

\* A request for project p: the variable is swapped and the call dispatched.
\* Edits of one project wait for one another (withProjectWriteLock).
WebCall(c) ==
    /\ Web
    /\ Comes(c)
    /\ \E p \in Projects, kind \in {"write", "query"} :
          LET k == [NewCall EXCEPT !.kind = kind, !.saved = env]
          IN  /\ \A d \in Calls : Active(d) /\ call[d].kind = "write" /\ call[d].aim = p =>
                     kind # "write"
              /\ env' = p
              /\ dbName' = Loaded(dbName, k, p)
              /\ call' = [d \in Calls |->
                            IF d = c THEN Dispatched(k, p)
                            ELSE Strayed(call[d])]
    /\ UNCHANGED <<hostVars, dataVars, roots, hand, loop, deferred, changes, crossed, rootless>>

\* Mutant: the variable is put back only if the call was a success.
WebReturnOnSuccess(c) ==
    /\ Web
    /\ call[c].pc = "return"
    /\ env' = IF call[c].answer \in {"written", "served"} THEN call[c].saved ELSE env
    /\ call' = [d \in Calls |->
                  IF d = c THEN Done(call[c]) ELSE Strayed(call[d])]
    /\ crossed' = (crossed \/ \E d \in Calls : Active(d) /\ c < d)
    /\ UNCHANGED <<hostVars, dataVars, dbName, roots, hand, loop, deferred, changes, rootless>>

\* The `finally` of the adapter's callTool.
WebReturn(c) ==
    /\ Web
    /\ call[c].pc = "return"
    /\ env' = call[c].saved
    /\ call' = [d \in Calls |->
                  IF d = c THEN Done(call[c]) ELSE Strayed(call[d])]
    /\ crossed' = (crossed \/ \E d \in Calls : Active(d) /\ c < d)
    /\ UNCHANGED <<hostVars, dataVars, dbName, roots, hand, loop, deferred, changes, rootless>>

-----------------------------------------------------------------------------
(* The stdio server.  A message is read when the main loop awaits nothing.  *)

Reads == ~Web /\ loop = None

\* The client is asked for its roots, unless they cannot matter.
AskRoots ==
    /\ Reads
    /\ ~Static
    /\ hand = "none"
    /\ hand' = "asked"
    /\ UNCHANGED <<hostVars, dataVars, dbName, call, env, roots, loop, deferred, changes,
                   crossed, rootless>>

\* The setting of the first deferred call that brings one.
LoadedAll(home) ==
    LET brings == {i \in DOMAIN deferred : Loaded(dbName, call[deferred[i]], home) # None}
    IN  IF dbName # None \/ brings = {} THEN dbName
        ELSE Loaded(dbName, call[deferred[Min(brings)]], home)

\* Mutant: the calls that go on stay in deferredToolCalls.
SettleKeepingDeferred(r) ==
    LET home == RootOf(env, r)
    IN  /\ roots' = r
        /\ hand' = "settled"
        /\ call' = [c \in Calls |-> IF call[c].pc = "deferred" THEN Dispatched(call[c], home)
                                    ELSE Strayed(call[c])]
        /\ dbName' = LoadedAll(home)
        /\ UNCHANGED <<hostVars, dataVars, env, loop, deferred, crossed>>

\* The roots become r, and those that wait for them go on: settleRoots and
\* flushDeferredToolCalls start the deferred calls, awaiting none.
Settle(r) ==
    LET home == RootOf(env, r)
    IN  /\ roots' = r
        /\ hand' = "settled"
        /\ deferred' = <<>>
        /\ call' = [c \in Calls |-> IF call[c].pc = "deferred" THEN Dispatched(call[c], home)
                                    ELSE Strayed(call[c])]
        /\ dbName' = LoadedAll(home)
        /\ UNCHANGED <<hostVars, dataVars, env, loop, crossed>>

\* The answer to roots/list.  One that comes after the timer is dropped.
RootsAnswer ==
    /\ Reads
    /\ hand = "asked"
    /\ \E r \in Projects \union {None} :
          /\ Settle(r)
          /\ rootless' = (rootless \/ r = None)
    /\ UNCHANGED changes

\* Mutant: the timer only forgets the request.
RootsTimerForgets ==
    /\ hand = "asked"
    /\ hand' = "none"
    /\ rootless' = TRUE
    /\ UNCHANGED <<hostVars, dataVars, dbName, call, env, roots, loop, deferred, changes, crossed>>

\* No answer for eight seconds.
RootsTimer ==
    /\ hand = "asked"
    /\ Settle(roots)
    /\ rootless' = TRUE
    /\ UNCHANGED changes

\* notifications/roots/list_changed: roots that it carries settle the
\* handshake; without any, those known so far are dropped.
RootsChanged ==
    /\ Reads
    /\ changes < MaxChanges
    /\ changes' = changes + 1
    /\ \E r \in Projects \union {None} :
          IF r # None /\ hand # "settled"
          THEN Settle(r) /\ UNCHANGED rootless
          ELSE /\ roots' = r
               /\ rootless' = (rootless \/ r = None)
               /\ call' = [c \in Calls |-> Strayed(call[c])]
               /\ UNCHANGED <<hostVars, dataVars, dbName, env, hand, loop, deferred, crossed>>

\* A tools/call of an initialised client.
Message(c) ==
    /\ Comes(c) /\ c <= MaxRead
    /\ Static \/ hand # "none"
    /\ UNCHANGED <<hostVars, dataVars, env, roots, hand, changes, crossed, rootless>>

\* A broker names the session's workspace in both arguments.
Request(kind, want) ==
    [NewCall EXCEPT !.kind = kind, !.want = want, !.session = host.trusted /\ want # None]

Start(c, k) ==
    /\ call' = [call EXCEPT ![c] = Dispatched(k, Workspace)]
    /\ dbName' = Loaded(dbName, k, Workspace)
    /\ loop' = c
    /\ UNCHANGED deferred

\* Mutant: the main loop does not await the call.
ReadCallUnawaited(c) ==
    /\ ~Web
    /\ Message(c)
    /\ Static \/ hand = "settled"
    /\ \E kind \in {"write", "query"}, want \in Projects \union {None} :
          Start(c, Request(kind, want))

\* The call is dispatched and awaited.
ReadCall(c) ==
    /\ Reads
    /\ Message(c)
    /\ Static \/ hand = "settled"
    /\ \E kind \in {"write", "query"}, want \in Projects \union {None} :
          Start(c, Request(kind, want))

\* Mutant: the call does not wait for the roots.
DeferCallNever(c) ==
    /\ Reads
    /\ Message(c)
    /\ ~Static /\ hand = "asked"
    /\ \E kind \in {"write", "query"}, want \in Projects \union {None} :
          Start(c, Request(kind, want))

DeferCall(c) ==
    /\ Reads
    /\ Message(c)
    /\ ~Static /\ hand = "asked"
    /\ \E kind \in {"write", "query"}, want \in Projects \union {None} :
          call' = [call EXCEPT ![c] = [Request(kind, want) EXCEPT !.pc = "deferred",
                                                                  !.late = TRUE]]
    /\ deferred' = Append(deferred, c)
    /\ UNCHANGED <<dbName, loop>>

\* The answer is sent; the main loop goes on.
Reply(c) ==
    /\ ~Web
    /\ call[c].pc = "return"
    /\ call' = [call EXCEPT ![c] = Done(@)]
    /\ loop' = IF loop = c THEN None ELSE loop
    /\ UNCHANGED <<hostVars, dataVars, dbName, env, roots, hand, deferred, changes, crossed,
                   rootless>>

-----------------------------------------------------------------------------
(* A tool call                                                             *)

CallOnly == UNCHANGED <<hostVars, rootVars, dbName>>

GoTo(c, pc) == call' = [call EXCEPT ![c].pc = pc]
Finish(c, answer) == call' = [call EXCEPT ![c].pc = "return", ![c].answer = answer]

\* Mutant: the root is resolved again, after the wait for the lock.
TakeLockResolving(c) ==
    LET root == IF call[c].want # None THEN call[c].want ELSE Workspace IN
    /\ call[c].pc = "lock"
    /\ lock[call[c].root] = None
    /\ lock' = [lock EXCEPT ![call[c].root] = c]
    /\ call' = IF root = Cwd THEN call
               ELSE [call EXCEPT ![c].root = root, ![c].pc = Load(call[c], root)]
    /\ CallOnly
    /\ UNCHANGED <<graph, synced, db, ready, aligning>>

\* The lock is obtained and the graph of the root it is for is read.
TakeLock(c) ==
    /\ call[c].pc = "lock"
    /\ lock[call[c].root] = None
    /\ lock' = [lock EXCEPT ![call[c].root] = c]
    /\ GoTo(c, Load(call[c], call[c].root))
    /\ CallOnly
    /\ UNCHANGED <<graph, synced, db, ready, aligning>>

LockTimeout(c) ==
    /\ call[c].pc = "lock"
    /\ lock[call[c].root] # None
    /\ Finish(c, "failed")
    /\ CallOnly
    /\ UNCHANGED dataVars

\* Mutant: the name is that of the workspace at the time.
DatabaseOfWorkspace(c) ==
    IF dbName # None THEN dbName
    ELSE DefaultDb[IF Workspace = Cwd THEN call[c].root ELSE Workspace]

\* getNeo4jConfig.
Database(c) == IF dbName # None THEN dbName ELSE DefaultDb[call[c].root]

\* syncArchitectureToNeo4j.  The graph's key is its path in the project, the
\* same for all: a database holds one project's graph.
Project(c) ==
    /\ db' = [db EXCEPT ![Database(c)] = call[c].root]
    /\ synced' = [synced EXCEPT ![call[c].root] = TRUE]

Recover(c) ==
    /\ call[c].pc = "recover"
    /\ Project(c)
    /\ GoTo(c, IF call[c].kind = "write" THEN "write" ELSE "check")
    /\ CallOnly
    /\ UNCHANGED <<lock, graph, ready, aligning>>

Write(c) ==
    /\ call[c].pc = "write"
    /\ graph' = [graph EXCEPT ![call[c].root] = @ \union {c}]
    /\ synced' = [synced EXCEPT ![call[c].root] = FALSE]
    /\ call' = [call EXCEPT ![c].pc = "project", ![c].answer = "written"]
    /\ CallOnly
    /\ UNCHANGED <<lock, db, ready, aligning>>

Release(c) == lock' = [p \in Projects |-> IF lock[p] = c THEN None ELSE lock[p]]

Refuse(c) ==
    /\ call[c].pc = "write"
    /\ Release(c)
    /\ Finish(c, "failed")
    /\ CallOnly
    /\ UNCHANGED <<graph, synced, db, ready, aligning>>

\* The projection and the embedding lifecycle, which may leave the index stale;
\* then the lock is released.
AfterWrite(c) ==
    /\ call[c].pc = "project"
    /\ Project(c)
    /\ \E aligned \in BOOLEAN : ready' = [ready EXCEPT ![call[c].root] = aligned]
    /\ Release(c)
    /\ GoTo(c, "return")
    /\ CallOnly
    /\ UNCHANGED <<graph, aligning>>

Check(c) ==
    /\ call[c].pc = "check"
    /\ IF ready[call[c].root] THEN Finish(c, "served") ELSE GoTo(c, "align")
    /\ CallOnly
    /\ UNCHANGED dataVars

\* Mutant: the harness is started where the process was.
AlignInCwd(c) ==
    /\ call[c].pc = "align"
    /\ aligning' = IF aligning = None THEN Cwd ELSE aligning
    /\ GoTo(c, "wait")
    /\ CallOnly
    /\ UNCHANGED <<lock, graph, synced, db, ready>>

\* runScriptOwnedSemanticAlignment asks for the workspace root again; an
\* alignment in flight is joined, whatever it is for.
Align(c) ==
    /\ call[c].pc = "align"
    /\ aligning' = IF aligning = None THEN Workspace ELSE aligning
    /\ GoTo(c, "wait")
    /\ CallOnly
    /\ UNCHANGED <<lock, graph, synced, db, ready>>

\* The harness exits; those who wait for it go on, or fail with it.
AlignEnds ==
    /\ aligning # None
    /\ aligning' = None
    /\ \E ok \in BOOLEAN :
          /\ ready' = [p \in Projects |-> ready[p] \/ (ok /\ p = aligning)]
          /\ call' = [c \in Calls |->
                        IF call[c].pc # "wait" THEN call[c]
                        ELSE IF ok THEN [call[c] EXCEPT !.pc = "again"]
                        ELSE [call[c] EXCEPT !.pc = "return", !.answer = "refused"]]
    /\ CallOnly
    /\ UNCHANGED <<lock, graph, synced, db>>

Again(c) ==
    /\ call[c].pc = "again"
    /\ Finish(c, IF ready[call[c].root] THEN "served" ELSE "refused")
    /\ CallOnly
    /\ UNCHANGED dataVars

-----------------------------------------------------------------------------
CallStep(c) ==
    \/ TakeLock(c) \/ LockTimeout(c) \/ Recover(c) \/ Write(c) \/ Refuse(c) \/ AfterWrite(c)
    \/ Check(c) \/ Align(c) \/ Again(c)

Return(c) == WebReturn(c) \/ Reply(c)

Next ==
    \/ \E c \in Calls : WebCall(c) \/ ReadCall(c) \/ DeferCall(c) \/ CallStep(c) \/ Return(c)
    \/ AskRoots \/ RootsAnswer \/ RootsTimer \/ RootsChanged
    \/ AlignEnds

Spec == Init /\ [][Next]_vars

\* The event loop runs what is ready, timers fire, and a harness exits, as
\* AlignmentRunner shows.  Nothing makes a client send anything.
FairSpec ==
    /\ Spec
    /\ \A c \in Calls : WF_vars(CallStep(c) \/ Return(c))
    /\ WF_vars(RootsTimer)
    /\ WF_vars(AlignEnds)

-----------------------------------------------------------------------------
(* Properties                                                              *)

\* A write changes the project it was sent to, under the lock it waited for,
\* however the process-wide root moves meanwhile (runMutationCall's pin).
WritesStayHome ==
    [][\A p \in Projects : \A c \in graph'[p] \ graph[p] : call[c].aim = p /\ lock[p] = c]_vars

\* Two writes of one project take effect in the order in which they came,
\* unless one of them was deferred: deferred calls are started together and
\* poll the lock independently.
InOrder ==
    [][\A p \in Projects : \A c \in graph'[p] \ graph[p], d \in graph[p] :
          call[c].late \/ call[d].late \/ c > d]_vars

\* An alignment is for the project of the query that starts it, unless the
\* query named a workspace of its own, or another call came or went, or the
\* roots changed, since it began.
AlignsItsProject ==
    [][\A c \in Calls :
          call[c].pc = "align" /\ call'[c].pc = "wait" /\ aligning = None =>
             aligning' = call[c].root \/ call[c].strayed]_vars

\* A call is resolved against the directory of the process only if the client
\* did not say where it works (comment on deferral in the main loop).
WaitsForRoots == ~rootless => \A c \in Calls : call[c].root # Cwd

\* When the last call is over the process-wide root is what it was, if no
\* swap was undone while a later one was in force.
EnvRestored == Web /\ ~crossed /\ (\A c \in Calls : ~Active(c)) => env = None

\* A projection that counts as current is in the project's database, and no
\* other project's graph has replaced it, until a project with a setting of
\* its own has been served.
ProjectionsApart ==
    dbName = None => \A p \in Projects : synced[p] => db[DefaultDb[p]] = p

\* The same without the reservation: a project without a setting of its own
\* uses the database named after its directory (.env.example).
OwnDatabase ==
    \A p \in Projects :
        synced[p] => db[IF own[p] # None THEN own[p] ELSE DefaultDb[p]] = p

\* Every call is answered, the deferred ones too.
CallsAnswered == \A c \in Calls : call[c].pc # "new" ~> call[c].pc = "done"
=============================================================================
