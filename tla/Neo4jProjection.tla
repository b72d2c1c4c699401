-------------------------- MODULE Neo4jProjection --------------------------
(***************************************************************************)
(* The Neo4j copy of the canonical graph                                    *)
(* (neo4j-system-architecture-store.js): a writer projects the graph after  *)
(* it has written it, and every reading call first rebuilds a projection    *)
(* that the sync state shows to be dirty or out of date.                    *)
(*                                                                         *)
(* Writers hold the write lock of FileLock, here the variable holder;       *)
(* readers take no lock.  The web service replaces the graph under the lock *)
(* and projects nothing.  Any step on the database may fail, and a process  *)
(* may crash between any two steps.                                         *)
(*                                                                         *)
(* A content stands for the graph file's bytes, and for its own digest.     *)
(***************************************************************************)
EXTENDS Naturals, FiniteSets

CONSTANTS
    Servers,     \* MCP server processes; each makes one call at a time
    Contents,    \* contents of the graph file
    Skeleton,    \* the ids of a content: all that verification compares
    Free,        \* nobody holds the write lock
    None,        \* no document read yet; nothing projected yet
    NoDigest,    \* a sync state written before digests were recorded
    Never,       \* no successful sync on record
    MaxChanges,  \* bound: replacements of the graph file
    MaxCalls,    \* bound: calls of one process
    MaxCrashes   \* bound: crashes

ASSUME ProjectionConstants ==
    /\ DOMAIN Skeleton = Contents
    /\ Free \notin Servers
    /\ {None, NoDigest, Never} \intersect Contents = {}
    /\ Cardinality({None, NoDigest, Never}) = 3
    /\ {MaxChanges, MaxCalls, MaxCrashes} \subseteq Nat

VARIABLES
    file,        \* the canonical graph file
    projection,  \* what Neo4j holds
    sync,        \* the graph's entry in the sync state file
    holder,      \* who holds the write lock
    pc,          \* where each server is in its call
    kind,        \* "written" is a write call whose graph is in place
    document,    \* the content a call works with
    entry,       \* the entry a call is about to record
    raced,       \* history: the file was replaced under a lock-free call
    unmarked,    \* history: a process died with its projection unrecorded
    changes, calls, crashes   \* count for the bounds

counts == <<changes, calls, crashes>>
vars == <<file, projection, sync, holder, pc, kind, document, entry, raced, unmarked, counts>>

Entries == [dirty : BOOLEAN, digest : Contents \union {NoDigest, Never}]

\* What an absent state file reads as, and so does one that is not JSON because
\* its writer is at work or died at work.
Empty == [dirty |-> FALSE, digest |-> Never]

Pcs == {"idle", "check", "open", "project", "verify", "digest", "dirty", "mark",
        "record", "write"}

TypeOK ==
    /\ file \in Contents
    /\ projection \in Contents \union {None}
    /\ sync \in Entries
    /\ holder \in Servers \union {Free}
    /\ pc \in [Servers -> Pcs]
    /\ kind \in [Servers -> {"read", "query", "write", "written"}]
    /\ document \in [Servers -> Contents \union {None}]
    /\ entry \in [Servers -> Entries]
    /\ raced \in BOOLEAN /\ unmarked \in BOOLEAN
    /\ changes \in 0..MaxChanges /\ crashes \in 0..MaxCrashes
    /\ calls \in [Servers -> 0..MaxCalls]
    /\ \A p \in Servers : (kind[p] \in {"write", "written"} /\ pc[p] # "idle") <=> holder = p

\* A workspace that never used Neo4j, one that is in step, and one whose state
\* file is of before digests were recorded.
Init ==
    /\ file \in Contents
    /\ \/ projection = None /\ sync = Empty
       \/ projection = file /\ sync = [dirty |-> FALSE, digest |-> file]
       \/ projection \in Contents /\ sync = [dirty |-> FALSE, digest |-> NoDigest]
    /\ holder = Free
    /\ pc = [p \in Servers |-> "idle"]
    /\ kind = [p \in Servers |-> "read"]
    /\ document = [p \in Servers |-> None]
    /\ entry = [p \in Servers |-> Empty]
    /\ raced = FALSE
    /\ unmarked = FALSE
    /\ changes = 0 /\ crashes = 0
    /\ calls = [p \in Servers |-> 0]

-----------------------------------------------------------------------------
(* Calls                                                                    *)

Start(p, k, at, loaded) ==
    /\ pc[p] = "idle"
    /\ calls[p] < MaxCalls
    /\ calls' = [calls EXCEPT ![p] = @ + 1]
    /\ kind' = [kind EXCEPT ![p] = k]
    /\ pc' = [pc EXCEPT ![p] = at]
    /\ document' = [document EXCEPT ![p] = loaded]
    /\ UNCHANGED <<file, projection, sync, entry, raced, unmarked, changes, crashes>>

\* loadContext of a reading call or a preview: the graph is read first, the sync
\* state looked at afterwards.
StartRead(p) == Start(p, "read", "check", file) /\ UNCHANGED holder

\* queryNeo4jGraph looks at the sync state first.
StartQuery(p) == Start(p, "query", "check", None) /\ UNCHANGED holder

\* syncSystemArchitectureToNeo4j.js projects without looking.
StartRebuild(p) == Start(p, "query", "open", None) /\ UNCHANGED holder

\* loadContext of a mutating call, inside the lock.
StartWrite(p) ==
    /\ holder = Free
    /\ holder' = p
    /\ Start(p, "write", "check", file)

\* isNeo4jGraphSyncStale, or dirty.  With no digest but a success on record the
\* state is old and stale; with neither there is nothing to be stale.
NeedsSync(state, current) == state.dirty \/ state.digest \notin {Never, current}

\* Where a call goes when its recovery or its projection is over: a writer goes on
\* to write, or else everybody is done.
AfterSync(p) == IF kind[p] = "write" THEN "write" ELSE "idle"

\* A call that is over gives up the lock, if it has it, and what it knew.
GotoWith(p, at, content) ==
    /\ pc' = [pc EXCEPT ![p] = at]
    /\ holder' = IF at = "idle" /\ holder = p THEN Free ELSE holder
    /\ document' = [document EXCEPT ![p] = IF at = "idle" THEN None ELSE content]

Goto(p, at) == GotoWith(p, at, document[p])

\* recoverNeo4jSyncIfNeeded decides.
Check(p) ==
    /\ pc[p] = "check"
    /\ Goto(p, IF NeedsSync(sync, file) THEN "open" ELSE AfterSync(p))
    /\ UNCHANGED <<file, projection, sync, kind, entry, raced, unmarked, counts>>

-----------------------------------------------------------------------------
(* syncArchitectureToNeo4j                                                  *)

\* The document is read unless the caller brought one.  Creating the driver comes
\* before the try: its failure is recorded nowhere.
Open(p) ==
    /\ pc[p] = "open"
    /\ \E at \in {"project", AfterSync(p)} :
          GotoWith(p, at, IF document[p] = None THEN file ELSE document[p])
    /\ UNCHANGED <<file, projection, sync, kind, entry, raced, unmarked, counts>>

\* One transaction replaces the projection.  It may fail, with or without effect.
Project(p) ==
    /\ pc[p] = "project"
    /\ \/ projection' = document[p] /\ Goto(p, "verify")
       \/ projection' \in {projection, document[p]} /\ Goto(p, "dirty")
    /\ UNCHANGED <<file, sync, kind, entry, raced, unmarked, counts>>

\* Mutant: a mismatch is not handled.
VerifyUnhandled(p) ==
    /\ pc[p] = "verify"
    /\ Goto(p, IF projection # None /\ Skeleton[projection] = Skeleton[document[p]]
               THEN "digest" ELSE "mismatch")
    /\ UNCHANGED <<file, projection, sync, kind, entry, raced, unmarked, counts>>

\* verifyArchitectureSync compares ids and counts with the document's.
Verify(p) ==
    /\ pc[p] = "verify"
    /\ \/ Skeleton[projection] = Skeleton[document[p]] /\ Goto(p, "digest")
       \/ Goto(p, "dirty")
    /\ UNCHANGED <<file, projection, sync, kind, entry, raced, unmarked, counts>>

\* markNeo4jSyncClean records the digest of the file as it is now, whatever the
\* document was.
Digest(p) ==
    /\ pc[p] = "digest"
    /\ entry' = [entry EXCEPT ![p] = [dirty |-> FALSE, digest |-> file]]
    /\ Goto(p, "mark")
    /\ UNCHANGED <<file, projection, sync, kind, raced, unmarked, counts>>

\* Mutant: a failure is not recorded.
DirtyUnrecorded(p) ==
    /\ pc[p] = "dirty"
    /\ Goto(p, AfterSync(p))
    /\ UNCHANGED <<file, projection, sync, kind, entry, raced, unmarked, counts>>

\* markNeo4jSyncDirty keeps the digest that is on record.
Dirty(p) ==
    /\ pc[p] = "dirty"
    /\ entry' = [entry EXCEPT ![p] = [dirty |-> TRUE, digest |-> sync.digest]]
    /\ Goto(p, "mark")
    /\ UNCHANGED <<file, projection, sync, kind, raced, unmarked, counts>>

\* writeNeo4jSyncState empties the state file ...
Truncate(p) ==
    /\ pc[p] = "mark"
    /\ sync' = Empty
    /\ Goto(p, "record")
    /\ UNCHANGED <<file, projection, kind, entry, raced, unmarked, counts>>

\* ... and fills it.
Record(p) ==
    /\ pc[p] = "record"
    /\ sync' = entry[p]
    /\ entry' = [entry EXCEPT ![p] = Empty]
    /\ Goto(p, AfterSync(p))
    /\ UNCHANGED <<file, projection, kind, raced, unmarked, counts>>

-----------------------------------------------------------------------------
(* The graph file                                                           *)

\* A call without the lock is at work with a document.
HasDocument(p) == kind[p] \in {"read", "query"} /\ document[p] # None

Replace(content) ==
    /\ changes < MaxChanges
    /\ changes' = changes + 1
    /\ file' = content
    /\ raced' = (raced \/ \E p \in Servers : HasDocument(p))

\* buildMutationResult: the graph is renamed into place, its projection follows.
Write(p) ==
    /\ pc[p] = "write"
    /\ \E c \in Contents :
        /\ Replace(c)
        /\ GotoWith(p, "open", c)
    /\ kind' = [kind EXCEPT ![p] = "written"]
    /\ UNCHANGED <<projection, sync, entry, unmarked, calls, crashes>>

\* The mutation is refused.
Refuse(p) ==
    /\ pc[p] = "write"
    /\ Goto(p, "idle")
    /\ UNCHANGED <<file, projection, sync, kind, entry, raced, unmarked, counts>>

\* The web service imports a graph or restores a snapshot.
Import ==
    /\ holder = Free
    /\ \E c \in Contents : Replace(c)
    /\ UNCHANGED <<projection, sync, holder, pc, kind, document, entry, unmarked, calls, crashes>>

\* A lock left behind is stolen in the end.
Crash(p) ==
    /\ pc[p] # "idle"
    /\ crashes < MaxCrashes
    /\ crashes' = crashes + 1
    /\ unmarked' = (unmarked \/ pc[p] \in {"verify", "digest", "dirty", "mark", "record"})
    /\ entry' = [entry EXCEPT ![p] = Empty]
    /\ Goto(p, "idle")
    /\ UNCHANGED <<file, projection, sync, kind, raced, changes, calls>>

CallStep(p) ==
    \/ StartRead(p) \/ StartQuery(p) \/ StartRebuild(p) \/ StartWrite(p)
    \/ Check(p) \/ Open(p) \/ Project(p) \/ Verify(p)
    \/ Digest(p) \/ Dirty(p) \/ Truncate(p) \/ Record(p)
    \/ Write(p) \/ Refuse(p) \/ Crash(p)

Next == Import \/ \E p \in Servers : CallStep(p)

Spec == Init /\ [][Next]_vars

-----------------------------------------------------------------------------
(* Properties                                                               *)

Quiet == \A p \in Servers : pc[p] = "idle"

\* When the JSON changes Neo4j follows (docs/archgraph-framework-overview.md:76):
\* with nobody at work, a projection that differs from the graph is one that the
\* next reading call rebuilds.  A workspace with nothing on record is not covered.
BehindIsNoticed ==
    Quiet /\ sync # Empty => projection = file \/ NeedsSync(sync, file)

\* It holds as long as no file was replaced under a reader's recovery and nobody
\* died between its transaction and the end of its record.
BehindIsNoticedUntilRaced == ~raced /\ ~unmarked => BehindIsNoticed
=============================================================================
