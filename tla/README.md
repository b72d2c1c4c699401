# ArchGraph: a TLA+ verification project

ArchGraph keeps the architecture of a software system as one JSON file, the
*canonical graph* (`design/KG/SystemArchitecture.json`), which agents edit through
an MCP server and people through a small web service. The file is the only source of
truth; a Neo4j database and an embedding index are derived from it. This directory
models the parts of the program that keep that file, and the copies made of it,
right: TLA+ modules, TLC configurations that check them on small instances, and
proofs for the TLA+ proof system.

Paths below are relative to the repository; `scripts/` stands for `argo/scripts/`.

## 1. The system

| part | code | state it keeps | operations |
|---|---|---|---|
| File lock | `scripts/file-lock.js`, `acquireFileLock` of `scripts/ea-web-service.js` (repository root) | the file `<graph>.lock` | acquire with `wx`, look at the age, steal, wait, time out, release |
| Graph write lock and write path | `scripts/graph-write-lock.js`; `runMutationCall`, `loadContext`, `buildMutationResult`, `writeGraph` of `scripts/systemarchitecture-mcp-server.js` | the graph file, the tombstone ledger | read, apply, gate, rename into place, append tombstones |
| Mutation engine | `orderMutationsForApplication`, `applyMutations` of the same server | none: document in, document out | nine kinds of mutation, and their batches |
| Lossless write gate | `scripts/lossless-write-gate.js` | the ledger | what a write loses, whether it was acknowledged |
| Semantics validator | `scripts/graph-semantics.js` | none | references, view topology, per-view limit |
| Sub-diagram repair | `scripts/repair-subdiagram-views.js` | none | find drift, rebuild `subdiagram_views` |
| EA web service | `scripts/ea-web-service.js` (root) | undo and redo stacks and a write queue per project | edit, undo, redo, import, export, search |
| Neo4j projection | `scripts/neo4j-system-architecture-store.js`, `scripts/syncSystemArchitectureToNeo4j.js` | the database, the sync state file | project, verify, mark clean or dirty, recover |
| Embedding index | `scripts/graph-rag/`: `semantic-persistence/productionSemanticBackfill.js`, `mutationEmbeddingVectorLifecycle.js`, `semanticOperatorJourney.js` | vector records and checkpoints in Neo4j, the readiness record | align (backfill, removal pass), follow an edit, invalidate, check a query |
| Alignment processes | `graph-rag/semanticAlignmentRunner.js`, `semanticAlignmentLock.js`, `scripts/ensureArgoHarnessEnvironment.js` | the alignment lock, the child process in flight | preheat, start or join, wait for the lock, check the server, exit |
| Tool calls and their project | `scripts/argo-mcp-server.js`, `argo-paths.js`, `workspace-write-guard.js`, `repositoryArgoEnvironment.js`, the adapter in `ea-web-service.js` | the client's roots, deferred calls, `process.env` | find the project, authorise, defer, dispatch, reply |
| Schema bundles, QEA sync, test runner, layouts, actor memory, front end | see `PROJECT.json` | little or none of the graph's | |

**How they interact.** Several MCP server processes and one web service share the
graph file. Every mutating MCP call takes the lock, reads the whole file, applies the
mutations to a copy, writes the whole file, appends tombstones, projects the graph
to Neo4j and updates embeddings, and then releases the lock. The web service calls the same
MCP tools for edits and takes the lock itself, without stealing, where it replaces the
file: an import, and an undo or redo of a batch. Readers take no lock; each reading call looks at the
Neo4j sync state first and rebuilds the projection when it is behind.

**What is hard.** Four file-system calls make up a lock, and other processes run between
any two of them; holders may be slow or die. A write is four steps with a crash possible
between any two. Six mutations maintain the two sides of a mount
(`view.parent_element_id`, `element.subdiagram_views`) independently. Undo and redo decide what to do when
the request arrives and do it when their turn comes. A reader rebuilds the
projection, without the lock, from a document it read earlier. The embedding index has two
writers that do not exclude each other, each a sequence of writes to two stores. A query that finds the index stale
starts a process that starts a server that may start such a process. One server process serves several projects, and what
it keeps per process (a variable, the loaded settings, one child) outlives the call it was meant for. `PROJECT.json` lists
each hazard at its line with the properties about it.

**What makes each part correct.**

- Lock: one holder at a time; nobody waits for ever; a dead holder's file goes away.
- Write path: a call's effect is computed from the graph it replaces; nothing removed
  is gone without a record.
- Mutations and gate: accepted writes keep the mounts in agreement and views within
  the limit, lose nothing that was not acknowledged, and do not depend on the order in
  which a batch is listed.
- Web service: the two stacks are one history of the graph, every request is answered, nobody else's edit is undone.
- Projection: a projection that is behind is one that somebody will notice.
- Embedding index: one that queries accept has a vector of every object's present text; a checkpoint
  names nothing that is not stored; whatever fails, the index becomes ready again.
- Alignment: one at a time; a query is answered, and refused for a reason only.
- Tool calls: a call reads, writes, projects and aligns the project it was sent to; a deferred call is not forgotten.

## 2. The modules

```
FileLock ── FileLockProofs ──────────┐
   └── GraphWrite ── GraphWriteProofs
          └── (refines) LinearGraph
   └·· AlignmentRunner ── AlignmentRunnerProofs
GraphMutations ── GraphMutationsProofs      Neo4jProjection ── Neo4jProjectionProofs
EaWebService ── EaWebServiceProofs          SemanticIndex ── SemanticIndexProofs
                                            ToolCalls ── ToolCallsProofs
GraphWrite, Neo4jProjection, AlignmentRunner ·· ToolCalls
FileLock ·· Neo4jProjection, SemanticIndex
```

A solid line is `EXTENDS` or `INSTANCE`. A dotted one says that a module takes up what another has shown:
AlignmentRunner has the lock of FileLock with a clock, ToolCalls takes a write, a projection and an alignment
without their failures, Neo4jProjection and SemanticIndex have one writer of the graph at a time.

Each specification `X` has an `MCX` with the values TLC needs.

**FileLock.** The lock file is `NoFile`, `Orphan` (left by a dead process) or the process
that created it. `pc` is the place in the loop of `withFileLock`: `open`, `stat`, `unlink`, `sleep`,
`held`. One action per system call: `Acquire` and `FindLocked` are the two outcomes of
`openSync(…, 'wx')`, `CheckAge` is `statSync`, `Steal` the `unlinkSync` of the loop, `Release` the
`finally` block. `Stealers` are the MCP servers; the other users take the web service's
`acquireFileLock`, which only waits. Time is two flags: `aged` (the file is older than
`staleMs`) and `expired` (a caller's deadline is past). `usurped` is history: a
process unlinked the file of another that was alive. With `FileErrors` an `unlinkSync` may fail on a file that is there (`LeaveFile`); the code
swallows the error, so a steal starts over without sleep or deadline, and a holder leaves its file behind. An MCP server runs
one call at a time (the serial main loop of `argo-mcp-server.js`), so a process is one attempt at
the lock at a time; a call the web service makes through the in-process adapter is a
stealer of its own. The alignment lock of `graph-rag/semanticAlignmentLock.js` is the
same function with other time constants.

**GraphWrite** extends FileLock with what happens inside the lock: `ReadGraph`
(`loadContext`), `Refuse`, `WriteGraph` (`writeGraph`, a rename), `AppendTombstone`, `Return`.
The graph is a set of ids. `expected` is history: what the accepted writes make of the
initial graph one after the other. **LinearGraph** is the abstract promise: a call takes effect at one
moment on the graph as it is then, or not at all; GraphWrite implements it with
`Pending` as the refinement mapping for what a caller waits for.

**GraphMutations** is the content of one call. A graph is a record of elements (text,
`subs` for `subdiagram_views`), relationships and views (parent, members). `AddElement` … `RemoveView` are the
branches of `applyMutations`, `CanApply` its throws, `ApplicationOrder` the topological sort of
`orderMutationsForApplication`, `Outcome` the whole batch, `Valid` the validator,
`Blocked` the lossless gate, `RemovedObjects` what goes to the ledger. `Submit` and `Refuse`
are the two ends of a call, `Repair` the repair script with `--fix --direct`. One call is one step because GraphWrite shows that
the lock makes it so. `Coherent` says that a batch is of one mind about a mount whose end it adds, `Compatible` that no two of its mutations clash: they are not
about one side of one object, do not hang a view in two places, and none takes away or replaces what another adds to (`Clash`); section 5 has what happens otherwise.

**EaWebService.** One project: `undo` and `redo` are stacks of commands; `queue` and `job` are the promise chain of
`withProjectWriteLock`; a job goes through the steps between its awaits. An object is a record of its text, its list entries, the views that show it (`shown`) and those from which removing it takes something along (`linked`). Tool calls
are abstracted to `Accepts` (the gate and the throws) and `Effect`: an addition may reach an object of the same identity, an update replaces a text and merges lists, a removal has views for its scope, a batch puts whole objects.
`DeriveInverse` and `OldFields` give what the code keeps for an undo, and `Restorable` says when that is enough. `ReplayRefused` puts a refused command back on its stack; `JobThrows` is a call or a file access that throws, which loses it. `AgentWrite` is an MCP server of somebody else's. `interfered` is history: something has happened after which the
stacks need not fit the graph.

**Neo4jProjection.** A content stands for the file's bytes and its digest; `Skeleton` gives
the ids in it, which is all that verification compares. A call is `check` → `open` → `project` → `verify` →
`digest` or `dirty` → `mark` → `record`; a write call does it twice, before and after `Write`. The
write lock is the variable `holder`, exclusive as FileLock shows it to be until usurped.
`Truncate` and `Record` are the two halves of `writeFileSync` on the sync state.

**SemanticIndex.** Two processes: `init` is an alignment (`runCanonicalSemanticInit` and the backfill under it, one at a time by the alignment lock),
`edit` a mutating call with the lifecycle that follows its write (`persistentReconcile`, one at a time by the write lock).
Neither takes the other's lock. A vector is the text it embeds; `Version` is the set of identities, as in
`deriveSemanticCanonicalVersion`. A channel of the backfill goes `seed` → (`embed` → `upsert` → `checkpoint`)\* and all end in
`sweep` → `delete` → `align`; an edit goes `invalidate` → `upsert` → `tombstone` → `verify` → `cohere` → `align`. `OutsideWrite` is an import, an
undo of a batch or a repair: it writes the file, and no lifecycle follows. Resolving the configuration, the probe and the read side of the
gates touch no shared state and are parts of the neighbouring steps. `trusted` and `caveat` are history and say which of the known
exceptions of section 5 applies.

**AlignmentRunner.** The processes around an alignment: `Servers` with their harness (`inFlight`), `User`'s `argo-init`, and `Nested`, the harness that a harness's own check
of the server starts in the background. The lock is `withFileLock` again: `JobLock`, `JobFindLocked`, `JobFindStale`, `JobSleep`, `JobSteal` are its system calls, so a `statSync` that fails
leads to an `unlinkSync` here too. `Tick` is a unit of time, and may happen only when everybody waits or works. Nothing limits the work of a harness (`worked`; `MaxWork` is a bound of the model): `excused` is history and notes that
a living harness lost a file that was not old, or that one worked for longer than the two limits leave. What the alignment does to the vectors is SemanticIndex; here it takes time and ends with a record.

**ToolCalls.** One process and its calls. `host` says whether it is an MCP server on stdio, whose main loop (`loop`) awaits each call and defers those that come before the client has
named its roots (`hand`, `deferred`), or the web service, whose adapter swaps `ARGO_REPO_ROOT` (`env`) around each of several
calls. A call's `root` is what `resolveCallWorkspaceRoot` gave at dispatch, `aim` is the project the sender meant. The process may be installed inside a project (`host.embedded`), which is then its project when the client names none. Dispatch is one step: up to
the first await of `callTool` nothing else runs. `strayed`, `crossed`, `rootless` and `late` are history.

Definitions whose comment begins with "Mutant" are plausible bugs, one or more per property; no
specification uses them. `PROJECT.json` names the property each one breaks.

## 3. The runs

| run | properties | shows |
|---|---|---|
| `lock` | `TypeOK` `SoundUntilUsurped` `OnlyStealersUsurp` `WaitEnds` `OrphanIsRemoved` | until a live owner's file is removed, the holder is unique and owns the file; the first removal is a steal; every wait ends and orphans are removed, unless a file that cannot be removed is stolen in vain for ever |
| `graph_write` | `GraphTypeOK` `NoLostUpdateUntilUsurped` `BaseIsCurrent` `RemovalsRecordedWithoutCrash` `LinearSpec` | no lost update, no stale base, no unrecorded removal, refinement of LinearGraph |
| `mut_edits` | `TypeOK` `WithinLimit` `KeptWithoutAck` `DeletionsRecorded` | one mutation per call, every kind and scope: what validator and gate promise |
| `mut_links` | `LinksKept` `OrderIndependent` `RepairConverges` | mounts stay in agreement (unless the batch contradicts itself), the order of a batch makes no difference (unless its mutations clash), one repair pass converges |
| `web` | `TypeOK` `OneHistory` `RequestsAnswered` | pipelined requests, merging and scoped edits, refusals, throws, lock timeouts, an agent: the stacks are one history until one of the listed events, and again after an import; the queue drains |
| `neo_noticed` | `TypeOK` `BehindIsNoticedUntilRaced` | a stale projection is noticed, through failures and a crash |
| `index` | `TypeOK` `AlignedIsExact` `AlignedIsComplete` `CheckpointIsBacked` `Heals` | an accepted index is exact, or at least complete, outside the exceptions; checkpoints survive crashes; the index heals |
| `align` | `TypeOK` `OneAlignment` `RefusedForAReason` `QueriesAnswered` | one alignment at a time until a live lock was taken or work outlasted the limits; queries end, and are not refused for nothing |
| `calls` | `TypeOK` `WaitsForRoots` `EnvRestored` `ProjectionsApart` `WritesStayHome` `InOrder` `AlignsItsProject` `CallsAnswered` | calls keep to their project while the process-wide root moves, in order, and are all answered |
| `lock_stat_race` | `MutualExclusion` | **violated**, see 6 |
| `neo_reader_race` | `BehindIsNoticed` | **violated** |
| `index_recall` | `RebuildIsExact` | **violated** |

**Bounds, and why they are enough.**

- `lock`: three users of which two steal, one crash, two requests each. The races of the lock need a
  releaser, a waiter that looks at the file at the wrong moment, and a third that has taken it in between; with two requests
  each, a process meets its own earlier file. The safety part is proved for every number of each.
- `graph_write`: one server, the web service, two objects, one crash, two requests each, unlink errors as in `lock`: the two kinds of user
  with the two kinds of write interleave, and a removal can meet an addition of the same
  object. Three users take TLC too long; all five properties are proved for any number.
- `mut_edits`: three elements, one relationship, two views, limit two, from three graphs; about
  280 mutations, each with and without acknowledgement, in any sequence. Three elements are the fewest with one that is not an end of the relationship; two
  views are the fewest with a scope that is a proper part.
- `mut_links`: three views (a mount, its former and its new parent), five sound graphs and
  fifteen drifted ones, batches of up to three in all their orders, among them some that contradict themselves about a mount or whose mutations clash.
- `web`: an element and a view, two views that show the element and of which one shows its relationship, two texts of which one is shorter, one list entry; seven edits: one entry added, one dropped, a line added, the element taken out of either view,
  added, and deleted in a batch. Depth two, four requests (three edits overflow the stack, and the fourth may undo; or edit, undo, and edit or redo in each order and overlap), one agent's write, and at any moment a busy lock or a file error.
- `neo_noticed`: two servers, three contents (two with the same ids), two replacements of the file
  so that a content can come back, two calls each, one crash. The properties are proved for any number of each.
- `index`: two channels, of which one has room for a second object, batches of one, two texts, two writes and one fault: an edit may fail and the next one succeed, an alignment may die after a
  batch and the next one resume. `index_recall` has no faults and one write. All safety properties of `index` are proved for any graph and any bounds; only `Heals` rests on these.
- `align`: one server, one query of its own project and one of another, one change of the graph or fault. With the user's and the nested harness that is three processes at one lock, as a statSync race needs.
  The limits of the lock (10 and 15 minutes) are one and two units of time, and work lasts up to two: one fits beside a wait, two do not. Lock files may be impossible to remove.
- `calls`: two projects, of which one may have a database setting and the other may contain the installation, no `.env` of the user's, three calls (a web call between the start and the return of another, or two
  deferred ones), one change of the roots.

`CHECK_DEADLOCK FALSE` is set where the bounds on requests, crashes and changes stop the
system; in `GraphMutations` nothing does and it is not.

**Symmetry** is used in `graph_write` (objects) and `neo_noticed` (servers), which check no liveness;
`LinearSpec` is a safety property.

**Fairness.** `FileLock!FairSpec`: a running process goes on executing its loop (`LoopStep`) and
its action (`Release`), and clocks advance (`Expire`, `Age`). Nothing makes a process ask, succeed
or die. The loop of `withFileLock` is synchronous calls and a timer, which the event loop runs. `EaWebService!FairSpec`: the promise chain runs what is
ready, and every MCP call returns. The second holds for the in-process adapter, which is the default; in
stdio mode a child that exits without an answer leaves the call pending
(`ea-web-service.js:626`), a hazard that is listed and not covered. `SemanticIndex!FairSpec`: both processes go on, and while the index is not ready somebody aligns, because a query that finds it so does
(`defaultSemanticRetrieval.js:182`); nothing makes an edit happen or succeed. `AlignmentRunner!FairSpec`: processes, the clock and the server's event `exit`;
no server is made to start, no query to be asked. `ToolCalls!FairSpec`: what is ready runs, the eight-second timer fires, a harness exits (which AlignmentRunner shows); nothing makes a client
send anything, so the answer to `roots/list` may never come.

## 4. The proofs

| theorem | statement |
|---|---|
| `FileLockProofs!TypeCorrect` | `Spec => []TypeOK` |
| `FileLockProofs!LockSound` | `Spec => []SoundUntilUsurped` |
| `FileLockProofs!FirstUsurperSteals` | `Spec => OnlyStealersUsurp` |
| `FileLockProofs!MutexWithoutStealing` | if `Stealers = {}`, `Spec => []MutualExclusion` |
| `GraphWriteProofs!GraphTypeCorrect` | `GraphSpec => []GraphTypeOK` |
| `GraphWriteProofs!NoLostUpdates` | `GraphSpec => []NoLostUpdateUntilUsurped` |
| `GraphWriteProofs!WritersAreCurrent` | `GraphSpec => []BaseIsCurrent` |
| `GraphWriteProofs!RemovalsAreRecorded` | `GraphSpec => []RemovalsRecordedWithoutCrash` |
| `GraphWriteProofs!WritesAreLinear` | `GraphSpec => LinearSpec` |
| `AlignmentRunnerProofs!TypeCorrect` | `Spec => []TypeOK` |
| `AlignmentRunnerProofs!OneAlignmentAlways` | `Spec => []OneAlignment` |
| `AlignmentRunnerProofs!RefusedForAReasonAlways` | `Spec => RefusedForAReason` |
| `Neo4jProjectionProofs!TypeCorrect` | `Spec => []TypeOK` |
| `Neo4jProjectionProofs!Noticed` | `Spec => []BehindIsNoticedUntilRaced` |
| `SemanticIndexProofs!TypeCorrect` | `Spec => []TypeOK` |
| `SemanticIndexProofs!CheckpointBacked` | `Spec => []CheckpointIsBacked` |
| `SemanticIndexProofs!AcceptedIsExact` | `Spec => []AlignedIsExact` |
| `SemanticIndexProofs!AcceptedIsComplete` | `Spec => []AlignedIsComplete` |
| `GraphMutationsProofs!TypeCorrect` | `Spec => []TypeOK` |
| `GraphMutationsProofs!AllRecorded` | `Spec => []DeletionsRecorded` |
| `GraphMutationsProofs!NothingLost` | `Spec => []KeptWithoutAck` |
| `GraphMutationsProofs!RepairMends` | `Spec => []RepairConverges` |
| `GraphMutationsProofs!StaysWithinLimit` | if every call's batch is `Unmixed` and `Docs` are within the limit, `Spec => []WithinLimit` |
| `GraphMutationsProofs!LinksStay` | if the parents in `Docs` exist, `Spec => []LinksKept` |
| `GraphMutationsProofs!AnyOrderWill` | if the parents in `Docs` exist, `Spec => []OrderIndependent` |
| `EaWebServiceProofs!TypeCorrect` | `Spec => []TypeOK` |
| `EaWebServiceProofs!OneHistoryAlways` | `Spec => []OneHistory` |
| `ToolCallsProofs!WritesStayHomeAlways` | `Spec => WritesStayHome` |
| `ToolCallsProofs!RootsFirst` | `Spec => []WaitsForRoots` |
| `ToolCallsProofs!EnvComesBack` | `Spec => []EnvRestored` |
| `ToolCallsProofs!InOrderAlways` | `Spec => InOrder` |
| `ToolCallsProofs!TypeCorrect` | `Spec => []TypeOK` |
| `ToolCallsProofs!Apart` | `Spec => []ProjectionsApart` |
| `ToolCallsProofs!AlignsItsProjectAlways` | `Spec => AlignsItsProject` |

Those of the lock and the write path hold for every set of users, stealers and objects and every bound, from the assumption
`LockConstants` alone (the stealers are users, the special values are not). Those of the runner hold for every set of servers and queries and any length of the work, from
`RunnerConstants` (of the same kind) and `LimitsFit` (`WaitLimit <= StaleLimit`, the 10 and 15 minutes of the code). Those of the projection, the index and the calls hold from `ProjectionConstants`, `IndexConstants` and `CallConstants`
alone: special values are none of the ordinary ones, bounds are numbers, every identity has a channel, the identities are finitely many; the databases named after projects differ (`ProjectionsApart` rests on it, see section 5).
Those of the web service hold from `ServiceConstants` (the calls and first graphs are calls and graphs, special values are none of the ordinary ones), those of the mutations from `MutationConstants` (the mark `Keep` is no text and no list, no text loses a part of itself, the
elements are finitely many) and `MutationInputs` (the first graphs are graphs, and the calls bring non-empty lists of the nine kinds of mutation): for any graph, and batches of any length and in any order. TLC evaluates these assumptions in every run.

*The lock.* `SoundUntilUsurped` says that holders are unique and own the file. The induction
needs only its second half, `HolderOwnsFile`: unless usurped, a process holds
exactly if the file is its own. A release or a steal that removes another live process's file
sets `usurped` in the same step; otherwise it removes its own, an orphan or nothing, or fails, and then a holder's file is an orphan from then on. Uniqueness follows: one file has one
creator. The first usurper is a stealer in its steal because a release that comes before any usurpation
removes, by the same invariant, its own file. Without stealers nothing can set `usurped`.

*The write path.* A step of GraphWrite is a step of the lock or leaves the lock alone (`LockOnly`), so the lock's
invariants carry over (`LockHolds`). `NoLostUpdate` is not inductive: a process that has read but not written must
have read the current graph. The invariant `WriteInv` adds that (`BaseIsCurrent`), and that a process is past `enter` only
while it holds the lock; by the lock's uniqueness a second process cannot write in between. The refinement
proof maps `WriteGraph` to `Write`, every way for a call to end
without a write to `GiveUp`, a request to `Ask`, the first usurpation to `Break`, and everything else
to a stutter.

*The runner.* `OneAlignment` rests on time: a lock is removed from its holder when it is older than `StaleLimit`, or by a process that took it for gone. The second sets `excused` in the same step. As long as nothing is excused,
who aligns holds the lock (`Holds`), and a living holder's lock is not that old: its age is at most its own work plus the wait of the harness that its check has started (`Fresh`), and so long as the work fits beside that wait (`InTime`, whose end
sets `excused`) that is at most `StaleLimit`. The wait needs no assumption beyond `LimitsFit`; the work has no limit in the code and none here. `NotItsParent` says that the nested harness is not its own parent. `IInv` is the conjunction, and an excuse
once given stays.
`RefusedForAReason` compares what a query read at its start with a record read two processes later. `Good` says that the record is of the graph's version or that a harness works at that version. Since there is one harness
at a time, only an edit or a fault ends it, and each of those marks every query and harness under way. `Sound` is what holds of the unmarked: a server's harness works at the version of the graph and leaves a good
record, a query has read that version, waits for such a harness and comes back to a good record. So the comparison fails only while a harness works. `excused` is a reason by itself: two harnesses may then have worked at once.

*The ledger.* A removal is under way from the write to the append of whoever made it, who is past the lock and not crashed (`Underway`); the append or the
warning ends that and records it in the same step. Nothing else ends it, so neither the lock's soundness nor the other invariants are needed.

*The projection.* The property speaks of quiet states, so the invariant says what each call at work guarantees: it has a document (`Documented`), which
is the file unless a file was replaced under it (`Current`); what it is about to record as projected is projected and is the file (`Marked`); and what is on record is projected, or somebody is about to
record something else (`Recorded`). In a quiet state the last part alone remains.

*The index.* `Backing` is about an alignment. A *sound* one (nothing overlapped it, no stale checkpoint believed) has the graph as its snapshot (`Alone`), and has stored the present
text of everything it counts as done (`Progress`); all others are noted in `caveat` before they can do harm (`Caveats`). A trusted channel is one whose objects no write
has changed since, in any snapshot still in use (`Untouched`), so neither a late batch nor a late removal of an unsound alignment takes a named vector away: that is `CheckpointIsBacked`. On top of it, `NothingOld` says that
without a caveat only the running call's own objects may have old vectors, and `Ready` that an accepted index is worked on by nobody and complete. The four are one induction: seeding needs the
checkpoints, the checkpoints need the progress, and the end of an alignment, which clears the caveat, needs both.

*The mutations.* Each branch of `applyMutations` is shown once to turn graphs into graphs and to do to elements, views, texts and members only what its type and id say (`Accounted`). A batch is then two inductions, on the
steps of `ApplicationOrder`, which lists every mutation once and each after what it waits for (`Orders`, `OrderSorted`), and on the steps of `Outcome`. What is gone after the last step was named by some mutation, so it is in the ledger or the gate has
refused the call: `AllRecorded` and `NothingLost`. Agreement is not kept step by step, because a view that a batch adds may be listed before it is there: `InStep(d, P)` is agreement up to the mounts that the mutations still to come, `P`, will complete, and
`Aligned` says what a mutation keeps of it; that those to come fit what is there (`Fits`) follows from the order for a coherent batch. `InStep(d, {})` is agreement. A mount under an element that does not exist can never be completed, hence the assumption of
`LinksStay`; it is an invariant (`ParentsExist`), as the validator refuses such a view. `StaysWithinLimit` shows that a view which the validator does not look at has not grown; `Unmixed` is what that takes (a batch has no mutation that names views to be checked, or none that changes a
relationship's ends), and every call of one mutation is `Unmixed` and `Coherent` (`OneMutation`). The repair's batch is an enumeration of the drifted elements, and each of its updates mends its own element and disturbs no other (`MendedFor`).

*The order of a batch.* `OrderIndependent` compares a call with all listings of its batch, so the argument is about sets of mutations. `IsEffect(d, M, g)` says, field by field and without an order, what `g` is when the mutations of `M` have been
applied to `d`: which objects are there, where each view hangs and who lists it, the texts and ends, the members of each view. If no two mutations clash, each one that comes next turns the effect of `M` into that of `M` and itself
(`ComesToEffect`, one lemma per kind of mutation), its throws do not depend on what came before (`NextFits`, against `Applicable`), nor do the views it asks to be checked (`NextChecks`). So a run is at the effect of what it has done
(`OutcomeIs`). Either listing is then done in full, or both stop because some mutations wait for each other (`Stuck`, a property of the set: `FullUnlessStuck`), and the effect determines the graph (`OneEffect`); the gate and the validator look at that graph and
at the set (`SameWritten`). No reordering is ever swapped step by step. The assumption is that of `LinksStay`: if a view hung under an element that does not exist, adding that element and updating the view would list the view if they came in this order and not in the other.

*The stacks.* While commands wait or run, the history is in four places: the undo stack, the redo stack, the popped commands in the queue and the running job. `Linked` says that they make one line through the graph: every command says what its call does (`Faithful`), popped commands come
before anything else in the queue (`InTurn`) and follow one another (`PoppedChain`), the stacks are chains that begin where the last popped command stops (`UndoEnd`, `RedoEnd`), and the graph is where the running job has got to (`DocStands`). That an undo leads back to the graph before the call is `InverseUndoes`: what the call did (`Faithful`) is taken back by an inverse which the server accepts and which is
`Restorable`: the old texts and entire lists of a patch that added nothing new (`OldFieldsRestore`), and an object added again to the views a removal took it out of (`PlacedAgain`). Whatever breaks one of these sets `interfered`. At rest
the queue is empty and `OneHistory` remains.

*The calls.* A call's root is fixed at dispatch and is the project meant (`Placed`), and from its lock to its write it holds that root's lock (`Home`): the process-wide root does not occur in the argument,
which is why it may move. Settled roots are known unless the client was silent or named none (`Settled`). The adapter's swaps form a stack as long as none was crossed: each active call saved
what the one before it had set (`Stacked`). On stdio the main loop is at the one prompt call there is, and in the web service a project's queue is, so a prompt write finds only earlier ones in the graph (`Ordered`).
The calls in the queue are exactly the deferred ones (`DeferredInv`), so the queue's end leaves none behind. The name of the database, once set, stays, so as long as it is not set every projection went to the
database of its own project, and projects have different ones (`Apart`). A query that may start an alignment is at the workspace root or is marked (`AimInv`): whatever moves that root, a call of the web service, its return or
a change of the roots, marks the queries under way, and so does the end of the handshake, except those it dispatches.

**Only model-checked:** liveness (`WaitEnds`, `OrphanIsRemoved`, `RequestsAnswered`, `Heals`, `QueriesAnswered`, `CallsAnswered`), which is beyond the prover. Every
invariant and every action property that a passing run checks is a theorem.

## 5. Known exceptions

Some properties stop short of what a document says, because the code does too. Each was
seen as a counterexample while the property was being stated.

- *A slow holder.* Staleness is the file's mtime, which a holder never refreshes
  (`file-lock.js:39`): a call longer than `staleMs` is stolen from. `usurped` covers it.
- *A lock file that cannot be removed.* `unlinkSync` errors are swallowed (`file-lock.js:44`), and the loop goes on without a sleep or a look at the deadline. If the file of a dead holder can never be removed (`EPERM`, `EBUSY`), a waiter spins
  for ever: `EveryWaitEnds` fails, and `WaitEnds`, `OrphanIsRemoved` and `QueriesAnswered` exempt the caller that does this (`SpinsInVain`).
- *Two alignments.* The alignment lock has both weaknesses of the file lock: a failed `statSync` counts as stale, and work that takes longer than the stale limit leaves beside a wait (no timeout ends a harness) loses its lock.
  `AlwaysOneAlignment` fails, although `semanticAlignmentLock.js:7-9` says that harnesses serialize; `OneAlignment` ends with `excused`.
- *A lost update* follows from any usurpation (`NoLostUpdate` in GraphWrite is what fails).
- *Tombstones and crashes.* A process that dies between the rename and the ledger's append loses the
  removed object (`RemovalsRecorded` fails), hence `RemovalsRecordedWithoutCrash`.
- *Cascades.* A `removeElement` scoped to one view deletes relationships of an element that stays, with no acknowledgement
  (`NoSilentLoss` fails, although `lossless-write-gate.js:6-7` says that a write never reduces stored content unless the caller acknowledges it). Relationships deleted together with an element, or left in no view after a scoped removal, get no
  tombstone and need no acknowledgement; `DeletionsRecorded` and `KeptWithoutAck` leave relationships that are not named out.
- *Membership.* Removing a relationship takes its ends out of every scoped view where no other relationship uses them, without
  acknowledgement, even from a view that does not show it; `KeptWithoutAck` speaks of replaced lists only.
- *Dangling entries.* An element may list a view that does not exist; when that view is added under another
  parent, the sides disagree. `LinksKept` starts from graphs without such entries.
- *Batches that contradict themselves.* An `updateView` is not ordered after an `addElement` that it names as parent
  (`orderMutationsForApplication`), and `upsertSubdiagramViewIntoElement` does nothing for an element that is not there yet: listed first, it leaves a parent that does not list its view, listed second it does not (`OrderNeverMatters` fails, although the
  comments at `systemarchitecture-mcp-server.js:1666` and `:1860` call a batch order-independent). The sides also disagree when a batch adds a view under one element and lists it in another. `LinksKept` is
  about batches that say the same at both ends (`Coherent`): there the added element lists the view itself.
- *Batches whose mutations clash.* Two updates of one text, a list of mounts that leaves out a view which another mutation puts there, a deleted view that another joins or moves, a replaced member list of a view that an addition joins: the outcome is what came last, and
  `OrderIndependent` is about batches without such pairs (`Compatible`). It also leaves out batches that delete an element, or delete or reroute a relationship: those take members out of views by what the view's other relationships use at that moment, so an
  addition before and after differ.
- *The limit and batches.* A relationship's addition puts its ends into views but does not ask for
  them to be checked. Alone, an empty list means all views; in a batch with an
  `addElement` the list is not empty and the others go unchecked: with the element for one view and a relationship for another, the second grows past the limit. `WithinLimit` is checked for single mutations and proved for unmixed batches.
- *Undo of an addition.* Its inverse is a removal without acknowledgement, which the gate refuses
  (`ea-web-service.js:510`); the command stays on the stack.
- *Undo of an update or of a scoped removal.* The inverse of an update gives the old fields (`ea-web-service.js:496`), and the server merges lists by name, so an attribute that the update added stays. The inverse of a scoped removal is an addition (`:516`), which does
  not bring back the relationships that went along. `UndoRestores` fails, although `docs/ea-web-service-requirements.md:71` (FR-12) and `:100` (AC-10) ask that an undo restores the graph; from then on `interfered`.
- *Undo that throws.* An undo or redo whose MCP call throws (`ea-web-service.js:1061`, `:1090`) puts its command on neither stack (`interfered`), and a batch whose result cannot be read back is written but not undoable.
- *Undo out of turn.* An undo or redo takes its command when the request arrives (`ea-web-service.js:1044`) and acts behind the edits, imports and opposite
  requests queued before it: it undoes an older edit than the last. `interfered` covers it, and several undos in a row are not affected unless one is refused.
- *Undo when the lock is busy.* The 409 is thrown after the pop and before the `try`; the command is lost (`interfered`).
- *Undo and agents.* Undoing or redoing a batch writes back the whole document read earlier and throws away what an agent has written since, other objects too
  (`ea-web-service.js:1053`; `interfered`).
- *Content without identities.* The version compares identities only, so an import, an undo or a repair that changes a text leaves an accepted index with the old vector, and the next
  alignment keeps it (section 6). `caveat` is `"behind"` or `"mixed"` from then on.
- *Overlapping writers of the index.* An alignment and an edit do not exclude each other; the last to record `Aligned` wins. `caveat` is `"mixed"` until an
  alignment that nothing overlaps and that resumes no checkpoint of an edited channel.
- *Failed lifecycles.* The next edit's lifecycle looks at its own objects and at the presence of the others, and records `Aligned` over the old vectors (`"behind"`).
- *Before the invalidation.* From the write of the graph, through its projection, to the invalidation the record still says `Aligned` (`Unannounced`).
- *Removals.* In a batch of removals every touched object is a tombstone (`mutationEmbeddingVectorLifecycle.js:528`), so a scoped removal deletes the vector of an object that stays; the
  coherence check then records `Stale`. This is within the properties (`ScopedRemovals = TRUE`).
- *A check that hangs.* A harness whose check starts a server with `ARGO_REPO_ROOT` set and a stale record has that server start a harness in the background; it inherits the error pipe, for which `spawnSync`
  waits, and waits itself for the lock of the first (`CheckNeverHangs` fails, although `semanticAlignmentRunner.js:86-87` says that the preheat must not do that). It ends
  after the lock's ten minutes, which `QueriesAnswered` and `OneAlignment` take into account: this wait fits into the stale limit.
- *Refused queries.* A query about another project is followed by an alignment of the server's own (`defaultSemanticRetrieval.js:498`), one that joins a rebuild begun before an edit may be
  refused, and so may one whose answer is late for the next harness; `RefusedForAReason` lists them.
- *Deferred calls* are started together and wait for the lock independently; `InOrder` leaves them out.
- *Roots that go away.* `roots/list_changed` without roots in it erases the known ones and nobody asks again; an answer after the timer is dropped. Later calls
  use the directory of the process (`rootless`).
- *Overlapping web calls* that do not return in the reverse order leave `ARGO_REPO_ROOT` set when all are done (`crossed`), and a query may start the alignment of the wrong project (`strayed`).
- *The database's name.* `ARGO_NEO4J_DATABASE` from the first served project's `.argo/.env` stays for the process
  (`repositoryArgoEnvironment.js:47`): the next project, although `.env.example:54-55` says that the default is the name of its own directory, is projected into that database over the first one's graph, and the
  first one's sync state still says clean (`OwnDatabase` fails; `ProjectionsApart` has the reservation). Projects whose directories have the same name share a database anyway; `DefaultDb` is assumed injective.

## 6. Disagreements found

The three `violation` runs, with the quoted text in `PROJECT.json` under `findings`:

- `lock_stat_race`: with no crash and nobody slow, a `statSync` that fails because the holder has just released
  counts as stale (`file-lock.js:41`), and the `unlinkSync` that follows removes the *next* holder's file.
- `neo_reader_race`: a call that has read the graph projects it after the file was replaced, then records the *new* file's digest
  (`neo4j-system-architecture-store.js:249`): the old graph stays in Neo4j and nothing notices. It takes no failure.
- `index_recall`: an alignment believes a checkpoint of the same version (`productionSemanticBackfill.js:91`), and the version says nothing of the content: a text changed by an import is not embedded again.

Seven more formulas state what a comment or a document says and do not hold: `NoSilentLoss` and `OrderNeverMatters` in GraphMutations (put them into
`mut_edits.cfg` and `mut_links.cfg`), `CheckNeverHangs` and `AlwaysOneAlignment` in AlignmentRunner (`align.cfg`), `OwnDatabase` in ToolCalls (`calls.cfg`), `EveryWaitEnds` in FileLock (`lock.cfg`) and `UndoRestores` in EaWebService (`web.cfg`). Section 5 describes the counterexamples.

## 7. What is not modelled

- Inside the modelled parts: deduplication by natural key and id allocation (ids are keys here), attributes, test
  cases, names and statements, patches that rename a view, the segmentation of texts (the constant `Loses`),
  the endpoint matrix and types of the schema, major loss and its justification; torn reads of
  `--fix --direct`, which writes in place; search, layouts, QEA and discovery of
  projects in the web service; the Cypher of the projection, which is one transaction.
- In the lock: an `openSync` that fails for another reason than an existing file, which ends the call.
- In the web service: which entry of a list a patch changes and how (an entry is a value, a changed one is text); the refusals not looked into (an invalid graph, a near-duplicate) count as a busy lock, which may come at any moment.
- In the embedding index: a `version` or `canonicalVersion` in the graph itself (`mutationEmbeddingVectorLifecycle.js:465-467`), which the schema does not allow (`SystemArchitecture.schema.json:7`, `additionalProperties: false`); providers and their qualification, the vectors themselves, retrieval, ranking and the subset a query returns; the structural completeness check before a backfill counts as one of its failures.
- In the runner: `--check-only`, a second `argo-init` by hand, the end and restart of a server.
- In the tool calls: `ARGO_ENV_FILE` and what the user's own `.env` says (`GlobalEnv` is only whether there is one), the 15 s limit of the web service's search (the call goes on behind it), the reads by `projectId`, failures of the projection (Neo4jProjection has them).
- Whole parts: see `PROJECT.json`, with reasons. Most are format conversions, generated tables, installers or browser code.

## 8. Plan

Done, in this order: FileLock, GraphWrite with LinearGraph, their proofs, GraphMutations, EaWebService, Neo4jProjection, SemanticIndex,
AlignmentRunner with its proofs, ToolCalls; then the proofs of ToolCalls, Neo4jProjection and SemanticIndex, and that of the ledger; then those of EaWebService and GraphMutations, and what was left of ToolCalls and AlignmentRunner; then that of the order of a batch.

Next, the most valuable first:

1. GraphMutations: `view_id` patches and duplicate ids, attributes and test cases, the deduplication by natural key.
2. EaWebService: the stdio adapter, layouts (`ea-layout-store.js`).
3. An abstract index (the graph's texts, or not ready) that SemanticIndex implements outside the exceptions.
