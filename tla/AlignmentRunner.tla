-------------------------- MODULE AlignmentRunner --------------------------
(***************************************************************************)
(* Who starts an alignment of the semantic index, who waits for it, and    *)
(* how long.                                                               *)
(*                                                                         *)
(* A query that finds the index not ready, the start of an MCP server and  *)
(* a user's argo-init all run the harness (ensureArgoHarnessEnvironment),  *)
(* a process of its own that does its work under the alignment lock of the *)
(* project.  A server shares one harness among its queries (inFlight).     *)
(*                                                                         *)
(* Under the lock the harness runs an MCP server to see whether it         *)
(* answers, and waits for that server's pipes to close (spawnSync).  The   *)
(* server's own start may run another harness in the background, which     *)
(* inherits the error pipe.  This is the process `Nested`.                 *)
(*                                                                         *)
(* What an alignment does to the vectors is the module SemanticIndex; here *)
(* it takes time and ends with a readiness record.  The lock is the one of *)
(* the module FileLock, withFileLock with limits of its own: its openSync, *)
(* statSync and unlinkSync are steps here too.  Time is counted in units   *)
(* much longer than the poll interval of the lock (250 ms).                *)
(***************************************************************************)
EXTENDS Naturals, FiniteSets

CONSTANTS
    Servers,     \* MCP servers of the project (ARGO_REPO_ROOT is set)
    User,        \* the harness of a user's argo-init
    Nested,      \* the harness that the check of another one started
    Queries,     \* semantic queries
    Foreign,     \* those that ask about another project (workspaceRoot)
    Free, Dead,  \* there is no lock file, or one whose maker is gone
    WaitLimit,   \* DEFAULT_WAIT_MS of the alignment lock: 10 minutes
    StaleLimit,  \* DEFAULT_STALE_MS of the alignment lock: 15 minutes
    FileErrors,  \* can unlinkSync fail on a file that is there?
    MaxWork,     \* bound: how long a harness works, its waits not counted
    MaxEvents    \* bound: changes of the graph and failed or killed harnesses

Jobs == Servers \union {User, Nested}

ASSUME RunnerConstants ==
    /\ User \notin Servers /\ Nested \notin Servers \union {User}
    /\ Foreign \subseteq Queries
    /\ {Free, Dead} \intersect Jobs = {}
    /\ Free # Dead
    /\ WaitLimit \in Nat /\ StaleLimit \in Nat /\ MaxWork \in Nat
    /\ FileErrors \in BOOLEAN
    /\ MaxEvents \in Nat

\* Who waits for the lock gives up before it could count as left behind.
ASSUME LimitsFit == WaitLimit <= StaleLimit

VARIABLES
    version,    \* the version of the graph: its identities, not its content
    readiness,  \* the readiness record: state and version
    lock,       \* semantic-alignment.lock: who made the file, and its age
    job,        \* the harness processes
    up,         \* the servers that run
    query,      \* the queries
    excused,    \* history: a living harness lost a file that was not old, or
                \* one worked for longer than the limits of the lock leave
    events      \* counts changes and faults, for the bound

vars == <<version, readiness, lock, job, up, query, excused, events>>

States == {"None", "Stale", "Aligned"}

\* A server's harness is "over" until the server has seen it exit; the user's
\* stays so.  `ok` is the exit code.
JobPc == {"free", "want", "look", "steal", "boot", "verify", "work", "over"}

QueryPc == {"new", "read", "align", "wait", "again", "served", "refused"}

\* A harness that has not begun to wait or to work, or has ended.
Process(pc, ok, parent, disturbed) ==
    [pc |-> pc, waited |-> 0, worked |-> 0, ok |-> ok, parent |-> parent,
     version |-> 0, disturbed |-> disturbed]

NoJob == Process("free", TRUE, Free, FALSE)
Started(parent) == Process("want", TRUE, parent, FALSE)

\* A query that nothing is known of but its answer.
Answer(pc) == [pc |-> pc, server |-> Free, version |-> 0, disturbed |-> FALSE]
NoQuery == Answer("new")

NoLock == [holder |-> Free, age |-> 0]

TypeOK ==
    /\ version \in 0..MaxEvents
    /\ readiness \in [state : States, version : 0..MaxEvents]
    /\ lock \in [holder : Jobs \union {Free, Dead}, age : 0..(StaleLimit + 1)]
    /\ job \in [Jobs -> [pc : JobPc, waited : 0..WaitLimit, worked : 0..MaxWork,
                         ok : BOOLEAN, parent : Jobs \union {Free},
                         version : 0..MaxEvents, disturbed : BOOLEAN]]
    /\ lock.holder = Free => lock.age = 0
    /\ \A j \in Jobs : job[j].pc = "free" => job[j] = NoJob
    /\ up \subseteq Servers
    /\ query \in [Queries -> [pc : QueryPc, server : Servers \union {Free},
                              version : 0..MaxEvents, disturbed : BOOLEAN]]
    /\ excused \in BOOLEAN
    /\ events \in version..MaxEvents

Init ==
    /\ version = 0
    /\ readiness \in [state : States, version : {0}]
    /\ lock = NoLock
    /\ job = [j \in Jobs |-> NoJob]
    /\ up = {}
    /\ query = [q \in Queries |-> NoQuery]
    /\ excused = FALSE
    /\ events = 0

\* In the loop of withFileLock, and inside the lock.
Waits(j) == job[j].pc \in {"want", "look", "steal"}
Aligning(j) == job[j].pc \in {"boot", "verify", "work"}

Alive(j) == Waits(j) \/ Aligning(j)

\* isSemanticReady and hasReadinessRecord: the version is not looked at.
Preheats == readiness.state = "Stale"

Open(q) == query[q].pc \in {"read", "align", "wait", "again"}

\* History: something happened while these queries and harnesses were under way.
DisturbQueries == query' = [q \in Queries |-> [query[q] EXCEPT !.disturbed = @ \/ Open(q)]]
Disturbed(jobs) == [j \in Jobs |->
    [jobs[j] EXCEPT !.disturbed = @ \/ (j \in Servers /\ jobs[j].pc # "free")]]

\* Bound: the changes and faults that are looked at, all of them before a
\* harness may have had company.
CountEvent ==
    /\ events < MaxEvents /\ ~excused
    /\ events' = events + 1

Fault ==
    /\ CountEvent
    /\ DisturbQueries

-----------------------------------------------------------------------------
(* Servers                                                                 *)

\* The start of a server and its preheat.
ServerStart(s) ==
    /\ s \notin up
    /\ up' = up \union {s}
    /\ job' = IF Preheats THEN [job EXCEPT ![s] = Started(Free)] ELSE job
    /\ UNCHANGED <<version, readiness, lock, query, excused, events>>

\* The event 'exit' of the child: all who wait for it go on.
ServerSeesExit(s) ==
    /\ job[s].pc = "over"
    /\ job' = [job EXCEPT ![s] = NoJob]
    /\ query' = [q \in Queries |->
                   IF query[q].pc = "wait" /\ query[q].server = s
                   THEN IF job[s].ok THEN [query[q] EXCEPT !.pc = "again"]
                        ELSE Answer("refused")
                   ELSE query[q]]
    /\ UNCHANGED <<version, readiness, lock, up, excused, events>>

\* argo-init, run by hand once.
UserStart ==
    /\ job[User].pc = "free"
    /\ job' = [job EXCEPT ![User] = Started(Free)]
    /\ UNCHANGED <<version, readiness, lock, up, query, excused, events>>

-----------------------------------------------------------------------------
(* Queries                                                                 *)

\* A query reads the graph once and compares the record with that version.
QueryStart(q) ==
    /\ query[q].pc = "new"
    /\ \E s \in up :
          query' = [query EXCEPT ![q] = [pc |-> "read", server |-> s, version |-> version,
                                         disturbed |-> FALSE]]
    /\ UNCHANGED <<version, readiness, lock, job, up, excused, events>>

\* evaluatePersistentReadiness: is the index ready?  A query about another
\* project reads that project's record, which is whatever it is.
Ready(q) ==
    IF q \in Foreign THEN BOOLEAN
    ELSE {readiness = [state |-> "Aligned", version |-> query[q].version]}

QueryRead(q) ==
    /\ query[q].pc = "read"
    /\ \E ready \in Ready(q) :
          query' = [query EXCEPT ![q] = IF ready THEN Answer("served")
                                              ELSE [@ EXCEPT !.pc = "align"]]
    /\ UNCHANGED <<version, readiness, lock, job, up, excused, events>>

\* runSemanticAlignment: joined, or started; always of the server's project.
QueryAlign(q) ==
    LET s == query[q].server IN
    /\ query[q].pc = "align"
    /\ query' = [query EXCEPT ![q].pc = "wait", ![q].disturbed = @ \/ job[s].disturbed]
    /\ job' = IF job[s].pc = "free" THEN [job EXCEPT ![s] = Started(Free)] ELSE job
    /\ UNCHANGED <<version, readiness, lock, up, excused, events>>

QueryAgain(q) ==
    /\ query[q].pc = "again"
    /\ \E ready \in Ready(q) :
          query' = [query EXCEPT ![q] = Answer(IF ready THEN "served" ELSE "refused")]
    /\ UNCHANGED <<version, readiness, lock, job, up, excused, events>>

-----------------------------------------------------------------------------
(* Harness processes                                                       *)

\* Mutant: no process.exit(1) when the report is not ok.
ExitZero(j, ok) ==
    [job EXCEPT ![j] = CASE j = Nested -> NoJob
                         [] j = User -> Process("over", TRUE, Free, FALSE)
                         [] OTHER -> Process("over", TRUE, Free, job[j].disturbed)]

Exit(j, ok) ==
    [job EXCEPT ![j] = CASE j = Nested -> NoJob
                         [] j = User -> Process("over", TRUE, Free, FALSE)
                         [] OTHER -> Process("over", ok, Free, job[j].disturbed)]

\* Mutant: the file counts as left behind when the wait for it is over.
StaleImpatient == lock.age > WaitLimit

Stale == lock.age > StaleLimit

\* A step of the loop that moves this process only.
JobGoes(j, pc) ==
    /\ job' = [job EXCEPT ![j].pc = pc]
    /\ UNCHANGED <<version, readiness, lock, up, query, excused, events>>

\* openSync(lockPath, 'wx') creates the file.
JobLock(j) ==
    /\ job[j].pc = "want"
    /\ lock.holder = Free
    /\ lock' = [holder |-> j, age |-> 0]
    /\ job' = [job EXCEPT ![j].pc = "boot", ![j].waited = 0]
    /\ UNCHANGED <<version, readiness, up, query, excused, events>>

\* openSync fails with EEXIST.
JobFindLocked(j) ==
    /\ job[j].pc = "want"
    /\ lock.holder # Free
    /\ JobGoes(j, "look")

\* statSync: a file that is old, or gone by now, is stale.
JobFindStale(j) ==
    /\ job[j].pc = "look"
    /\ lock.holder = Free \/ Stale
    /\ JobGoes(j, "steal")

\* The deadline is not over: sleep and try again.
JobSleep(j) ==
    /\ job[j].pc = "look"
    /\ lock.holder # Free /\ ~Stale
    /\ job[j].waited < WaitLimit
    /\ JobGoes(j, "want")

\* Mutant: the harness waits for the lock for as long as it takes.
JobLockPatient(j) == FALSE

JobLockTimeout(j) ==
    /\ job[j].pc = "look"
    /\ lock.holder # Free /\ ~Stale
    /\ job[j].waited = WaitLimit
    /\ job' = Exit(j, FALSE)
    /\ UNCHANGED <<version, readiness, lock, up, query, excused, events>>

\* unlinkSync removes whatever file is there now, a living harness's new one
\* too, or fails; either way the loop starts over.
JobSteal(j) ==
    /\ job[j].pc = "steal"
    /\ job' = [job EXCEPT ![j].pc = "want"]
    /\ \/ /\ lock' = NoLock
          /\ excused' = (excused \/ (lock.holder \in Jobs /\ ~Stale))
       \/ /\ FileErrors /\ lock.holder # Free
          /\ UNCHANGED <<lock, excused>>
    /\ UNCHANGED <<version, readiness, up, query, events>>

\* ensureWorkspaceBootstrap is done; verifyArgoMcpServer starts the server,
\* which preheats if ARGO_REPO_ROOT is set, as it is for what a server starts.
\* Bound: a check starts no other background harness while one is alive, and
\* the pipe of that one is not its own.
JobVerify(j) ==
    /\ job[j].pc = "boot"
    /\ \E env \in BOOLEAN :
          /\ j # User => env
          /\ job' = IF env /\ Preheats /\ ~Alive(Nested)
                    THEN [job EXCEPT ![j].pc = "verify", ![Nested] = Started(j)]
                    ELSE [job EXCEPT ![j].pc = "verify",
                                     ![Nested].parent = IF @ = j THEN Free ELSE @]
    /\ UNCHANGED <<version, readiness, lock, up, query, excused, events>>

\* The pipe that spawnSync reads is open as long as `Nested` has it.
PipeOpen(j) == Alive(Nested) /\ job[Nested].parent = j

\* spawnSync returns; the lifecycle reads the graph's version and invalidates.
JobInvalidate(j) ==
    /\ job[j].pc = "verify"
    /\ ~PipeOpen(j)
    /\ job' = [job EXCEPT ![j].pc = "work", ![j].version = version]
    /\ readiness' = [state |-> "Stale", version |-> version]
    /\ UNCHANGED <<version, lock, up, query, excused, events>>

\* Mutant: the file is only emptied.
UnlockKeepingAge(j) == lock' = [lock EXCEPT !.holder = Free]

\* The `finally` of the lock: the file is removed, whoever made it, or cannot be.
Unlock(j) ==
    \/ lock' = NoLock
    \/ /\ FileErrors
       /\ lock' = IF lock.holder = j THEN [lock EXCEPT !.holder = Dead] ELSE lock

JobDone(j) ==
    /\ job[j].pc = "work"
    /\ readiness' = [state |-> "Aligned", version |-> job[j].version]
    /\ Unlock(j)
    /\ job' = Exit(j, TRUE)
    /\ UNCHANGED <<version, up, query, excused, events>>

\* A section of the report fails, before the record was invalidated or after;
\* after, the index may be aligned nevertheless.
JobFail(j) ==
    /\ Aligning(j)
    /\ job[j].pc = "verify" => ~PipeOpen(j)
    /\ Fault
    /\ IF job[j].pc = "work"
       THEN \E state \in {"Stale", "Aligned"} :
              readiness' = [state |-> state, version |-> job[j].version]
       ELSE UNCHANGED readiness
    /\ Unlock(j)
    /\ job' = Disturbed(Exit(j, FALSE))
    /\ UNCHANGED <<version, up, excused>>

\* A killed process leaves its lock file.
JobKilled(j) ==
    /\ Alive(j)
    /\ Fault
    /\ lock' = IF lock.holder = j THEN [lock EXCEPT !.holder = Dead] ELSE lock
    /\ job' = Disturbed(Exit(j, FALSE))
    /\ UNCHANGED <<version, readiness, up, excused>>

-----------------------------------------------------------------------------

\* Somebody edits the graph, with or without a change of its identities; the
\* record is left as it is, or as the edit's own lifecycle ends.
GraphChange ==
    /\ CountEvent
    /\ version' \in {version, version + 1}
    /\ readiness' \in {readiness} \union [state : {"Stale", "Aligned"}, version : {version'}]
    /\ DisturbQueries
    /\ job' = Disturbed(job)
    /\ UNCHANGED <<lock, up, excused>>

\* Time passes only when everybody waits or works.
Idle ==
    /\ \A j \in Jobs :
          /\ Waits(j) => /\ lock.holder # Free
                         /\ Stale \/ (job[j].pc # "steal" /\ job[j].waited < WaitLimit)
          /\ job[j].pc \in {"boot", "work"} => job[j].worked < MaxWork
          /\ job[j].pc = "verify" => PipeOpen(j)
          /\ job[j].pc = "over" => j = User
    /\ \A q \in Queries : query[q].pc \notin {"read", "align", "again"}

\* Nothing limits the work; a harness that takes more of it than StaleLimit
\* leaves beside one wait of WaitLimit is noted.
Tick ==
    /\ Idle
    /\ lock' = IF lock.holder = Free \/ Stale THEN lock ELSE [lock EXCEPT !.age = @ + 1]
    /\ job' = [j \in Jobs |->
                 CASE Waits(j) /\ job[j].waited < WaitLimit -> [job[j] EXCEPT !.waited = @ + 1]
                   [] job[j].pc \in {"boot", "work"} -> [job[j] EXCEPT !.worked = @ + 1]
                   [] OTHER -> job[j]]
    /\ excused' = (excused \/ \E j \in Jobs : job'[j].worked + WaitLimit > StaleLimit)
    /\ UNCHANGED <<version, readiness, up, query, events>>

JobWaitStep(j) ==
    JobLock(j) \/ JobFindLocked(j) \/ JobFindStale(j) \/ JobSleep(j) \/ JobLockTimeout(j) \/ JobSteal(j)

JobStep(j) == JobWaitStep(j) \/ JobVerify(j) \/ JobInvalidate(j) \/ JobDone(j)

QueryStep(q) == QueryRead(q) \/ QueryAlign(q) \/ QueryAgain(q)

Next ==
    \/ \E s \in Servers : ServerStart(s) \/ ServerSeesExit(s)
    \/ UserStart
    \/ \E q \in Queries : QueryStart(q) \/ QueryStep(q)
    \/ \E j \in Jobs : JobStep(j) \/ JobFail(j) \/ JobKilled(j)
    \/ GraphChange
    \/ Tick

Spec == Init /\ [][Next]_vars

\* Processes run, the clock goes on, a server handles its events.  That a
\* server or a user starts, that a query is asked and that the graph changes
\* is not promised.
Fairness ==
    /\ \A j \in Jobs : WF_vars(JobStep(j))
    /\ \A s \in Servers : WF_vars(ServerSeesExit(s))
    /\ \A q \in Queries : WF_vars(QueryStep(q))
    /\ WF_vars(Tick)

FairSpec == Spec /\ Fairness

-----------------------------------------------------------------------------
(* Properties                                                              *)

\* One alignment at a time, although a harness may wait under its lock for the
\* whole timeout of the harness that its own check has started: two run together
\* only after a steal that removed a living harness's fresh file (the statSync
\* that fails, or a second stealer), or after more work than the limits leave.
OneAlignment == ~excused => \A i, j \in Jobs : Aligning(i) /\ Aligning(j) => i = j

\* "so they serialize instead of racing" (semanticAlignmentLock.js:7-9), without
\* the reservation.  It does not hold.
AlwaysOneAlignment == \A i, j \in Jobs : Aligning(i) /\ Aligning(j) => i = j

\* A query is refused after its alignment only if that harness failed, the
\* query is about another project, the graph was edited or something failed
\* since it was asked, the next harness is at work already and has invalidated
\* the record again, or harnesses may have worked at the same time.
RefusedForAReason ==
    [][\A q \in Queries :
         query[q].pc # "refused" /\ query'[q].pc = "refused" =>
            \/ q \in Foreign
            \/ query[q].pc = "wait" /\ ~job[query[q].server].ok
            \/ query[q].disturbed
            \/ \E j \in Jobs : job[j].pc = "work"
            \/ excused]_vars

\* Steals that remove nothing, over and over.
SpinsInVain == []<><<\E j \in Jobs : JobSteal(j) /\ lock'.holder # Free>>_vars

\* Every query is answered, also when the harness it waits for fails, dies,
\* or waits for a lock whose holder is stuck or dead, unless some harness can
\* never remove a lock file left behind.
QueriesAnswered ==
    \/ SpinsInVain
    \/ \A q \in Queries : query[q].pc = "read" ~> query[q].pc \in {"served", "refused"}

\* What the comment on the preheat's unref says: the caller that waits for
\* the server to exit (spawnSync) does not hang on the background harness.
CheckNeverHangs ==
    \A j \in Jobs : ~(lock.holder = j /\ PipeOpen(j) /\ Waits(Nested))
=============================================================================
