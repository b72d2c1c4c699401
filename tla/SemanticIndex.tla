--------------------------- MODULE SemanticIndex ---------------------------
(***************************************************************************)
(* The embedding index: one vector record in Neo4j per object of the       *)
(* canonical graph, kept by two processes that do not exclude each other.  *)
(*                                                                         *)
(* `init` is an alignment (runCanonicalSemanticInit and the backfill       *)
(* under it), one at a time by the alignment lock.  `edit` is a mutating   *)
(* call with the incremental lifecycle that follows its write              *)
(* (persistentReconcile), one at a time by the graph's write lock.  The    *)
(* records and the backfill's checkpoints are in the database, the         *)
(* readiness record and the graph are files: every write is a step of its  *)
(* own, and a process may die between two.                                 *)
(*                                                                         *)
(* A vector is abstracted to the text it embeds.                           *)
(***************************************************************************)
EXTENDS Naturals, FiniteSets, Sequences, SequencesExt

CONSTANTS
    Ids,          \* identities of elements, relationships and views
    Channels,     \* the kinds of objects, in the order of the backfill
    ChannelOf,    \* the kind of each identity
    Texts,        \* what buildSemanticRecordText makes of an object
    Absent,       \* the graph has no such object
    NoRecord,     \* the database has no such record
    NoCheckpoint, \* no checkpoint was ever written for the channel
    Graphs0,      \* the graphs to start from
    BatchSize,    \* objects per call of the embedding provider
    ScopedRemovals, \* are there removals that leave their object in the graph?
    MaxWrites,    \* bound: writes of the graph
    MaxFaults     \* bound: failed calls, crashes and disabled gates

Records == [text : Texts, version : SUBSET Ids, by : {"init", "edit"}]

Checkpoints == [version : SUBSET Ids, done : SUBSET Ids]

ASSUME IndexConstants ==
    /\ IsFiniteSet(Ids)
    /\ Channels \in Seq(Range(Channels)) /\ Channels # <<>>
    /\ ChannelOf \in [Ids -> Range(Channels)]
    /\ NoRecord \notin Records /\ NoCheckpoint \notin Checkpoints
    /\ Absent \notin Texts
    /\ Graphs0 \subseteq [Ids -> Texts \union {Absent}]
    /\ BatchSize \in Nat \ {0}
    /\ ScopedRemovals \in BOOLEAN
    /\ MaxWrites \in Nat
    /\ MaxFaults \in Nat

VARIABLES
    graph,       \* the canonical graph: the text of each object
    records,     \* the vector records: text, version and writer
    checkpoint,  \* per channel: version, identities done
    readiness,   \* the readiness record: state and version
    init,        \* the running alignment
    edit,        \* the running mutating call
    trusted,     \* history: channels not edited since their checkpoint was written
    caveat,      \* history: the known exception since the last sound alignment
    budget       \* counts writes and faults, for the bounds

vars == <<graph, records, checkpoint, readiness, init, edit, trusted, caveat, budget>>

Graphs == [Ids -> Texts \union {Absent}]

\* deriveSemanticCanonicalVersion, canonicalInitVersions, persistentVersions
\* and deriveCanonicalVersion: a digest of the identities, not of the content.  (The
\* `version` that some of them would prefer is no property of the graph's schema,
\* which allows no others.)
Version(g) == {id \in Ids : g[id] # Absent}

MinOf(a, b) == IF a < b THEN a ELSE b

Objects(g, c) == {id \in Version(g) : ChannelOf[id] = c}

\* A record as the writer `by` makes it.  The two writers digest the text
\* differently, so contentVersion tells them apart.
Record(text, version, by) == [text |-> text, version |-> version, by |-> by]

Stored(id) == records[id] # NoRecord

\* evaluatePersistentReadiness: what a semantic query asks for.
ReadyFor(g) == readiness = [state |-> "Aligned", version |-> Version(g)]

InitPc == {"idle", "invalidate", "snapshot", "seed", "embed", "upsert",
           "checkpoint", "sweep", "delete", "align"}

EditPc == {"idle", "invalidate", "pending", "upsert", "tombstone", "verify",
           "cohere", "align"}

States == {"Unknown", "Stale", "SemanticIndexPending", "Failed", "Aligned"}

NoInit == [pc |-> "idle", version |-> {}, snapshot |-> [id \in Ids |-> Absent],
           channel |-> 1, done |-> {}, attempts |-> [id \in Ids |-> 0], batch |-> {},
           complete |-> TRUE, alone |-> TRUE, believed |-> {}]

NoEdit == [pc |-> "idle", upserts |-> {}, left |-> {}, tombstones |-> {}]

TypeOK ==
    /\ graph \in Graphs
    /\ records \in [Ids -> Records \union {NoRecord}]
    /\ checkpoint \in [Range(Channels) -> Checkpoints \union {NoCheckpoint}]
    /\ readiness \in [state : States, version : SUBSET Ids]
    /\ init.pc \in InitPc
    /\ init.snapshot \in Graphs
    /\ init.channel \in 1..Len(Channels)
    /\ init.done \subseteq Objects(init.snapshot, Channels[init.channel])
    /\ init.batch \subseteq Ids
    /\ init.believed \subseteq Range(Channels)
    /\ init.attempts \in [Ids -> 0..2]
    /\ edit.pc \in EditPc
    /\ edit.left \subseteq edit.upserts
    /\ edit.upserts \intersect edit.tombstones = {}
    /\ trusted \subseteq Range(Channels)
    /\ caveat \in {"none", "behind", "mixed"}
    /\ budget \in [writes : 0..MaxWrites, faults : 0..MaxFaults]

Init ==
    /\ graph \in Graphs0
    /\ records = [id \in Ids |-> NoRecord]
    /\ checkpoint = [c \in Range(Channels) |-> NoCheckpoint]
    /\ readiness = [state |-> "Unknown", version |-> {}]
    /\ init = NoInit
    /\ edit = NoEdit
    /\ trusted = {}
    /\ caveat = "none"
    /\ budget = [writes |-> 0, faults |-> 0]

Fault ==
    /\ budget.faults < MaxFaults
    /\ budget' = [budget EXCEPT !.faults = @ + 1]

Change ==
    /\ budget.writes < MaxWrites
    /\ budget' = [budget EXCEPT !.writes = @ + 1]

Running == edit.pc # "idle"
Aligning == init.pc # "idle"

\* No write overlapped the alignment, and it believed no checkpoint of a
\* channel that has been edited since.
Sound == init.alone /\ init.believed = {}

\* "behind": an edit was not followed by its vectors, or not by a lifecycle
\* at all.  "mixed", which covers the former: an alignment and an edit
\* overlapped, or an alignment resumed a checkpoint of a channel edited since.
Behind == IF caveat = "none" THEN "behind" ELSE caveat

-----------------------------------------------------------------------------
(* An alignment                                                            *)

InitOnly == UNCHANGED <<graph, edit>>

\* Mutant: nobody tries again what once failed.
InitStartUnlessFailed ==
    /\ init.pc = "idle"
    /\ readiness.state # "Failed"
    /\ init' = [NoInit EXCEPT !.pc = "invalidate", !.version = Version(graph),
                              !.alone = ~Running]
    /\ caveat' = IF Running THEN "mixed" ELSE caveat
    /\ InitOnly
    /\ UNCHANGED <<records, checkpoint, readiness, trusted, budget>>

\* canonicalInitVersions: the version recorded at the end is read first.
InitStart ==
    /\ init.pc = "idle"
    /\ init' = [NoInit EXCEPT !.pc = "invalidate", !.version = Version(graph),
                              !.alone = ~Running]
    /\ caveat' = IF Running THEN "mixed" ELSE caveat
    /\ InitOnly
    /\ UNCHANGED <<records, checkpoint, readiness, trusted, budget>>

\* With both gates off the alignment ends here.
InitDisabled ==
    /\ init.pc = "invalidate"
    /\ Fault
    /\ readiness' = [state |-> "SemanticIndexPending", version |-> init.version]
    /\ init' = NoInit
    /\ InitOnly
    /\ UNCHANGED <<records, checkpoint, trusted, caveat>>

InitInvalidate ==
    /\ init.pc = "invalidate"
    /\ readiness' = [state |-> "Stale", version |-> init.version]
    /\ init' = [init EXCEPT !.pc = "snapshot"]
    /\ InitOnly
    /\ UNCHANGED <<records, checkpoint, trusted, caveat, budget>>

\* The configuration is resolved, the runtime reads the graph again, and
\* requireComplete compares the database with this document.
InitSnapshot ==
    /\ init.pc = "snapshot"
    /\ init' = [init EXCEPT !.pc = "seed", !.snapshot = graph]
    /\ InitOnly
    /\ UNCHANGED <<records, checkpoint, readiness, trusted, caveat, budget>>

InChannel == Objects(init.snapshot, Channels[init.channel])

\* Mutant: the content is not compared.
MatchesById(id) == Stored(id)

\* persistedRecordMatches: the record is a backfill's and of the same text.
Matches(id) ==
    /\ Stored(id)
    /\ records[id].text = init.snapshot[id]
    /\ records[id].by = "init"

\* Mutant: the next channel starts with the identities done in this one.
AfterBatchKeepingDone(state) ==
    LET objects == Objects(state.snapshot, Channels[state.channel])
    IN IF \E id \in objects \ state.done : state.attempts[id] < 2
       THEN [state EXCEPT !.pc = "embed", !.batch = {}]
       ELSE [state EXCEPT !.batch = {}, !.complete = @ /\ state.done = objects,
                          !.attempts = [id \in Ids |-> 0],
                          !.channel = IF @ < Len(Channels) THEN @ + 1 ELSE @,
                          !.pc = IF state.channel < Len(Channels) THEN "seed" ELSE "sweep"]

\* Where the channel's loop goes on: the next batch, the next channel, or
\* the removal pass.
AfterBatch(state) ==
    LET objects == Objects(state.snapshot, Channels[state.channel])
    IN IF \E id \in objects \ state.done : state.attempts[id] < 2
       THEN [state EXCEPT !.pc = "embed", !.batch = {}]
       ELSE [state EXCEPT !.batch = {}, !.done = {}, !.complete = @ /\ state.done = objects,
                          !.attempts = [id \in Ids |-> 0],
                          !.channel = IF @ < Len(Channels) THEN @ + 1 ELSE @,
                          !.pc = IF state.channel < Len(Channels) THEN "seed" ELSE "sweep"]

\* A checkpoint of this version is believed; otherwise the records with the
\* same content are taken as done (resumeCheckpointByContent), or none of
\* them if they cannot be read.
InitSeed ==
    /\ init.pc = "seed"
    /\ LET c == Channels[init.channel]
           same == checkpoint[c] # NoCheckpoint /\ checkpoint[c].version = Version(init.snapshot)
       IN \/ /\ same
             /\ init' = AfterBatch([init EXCEPT !.done = checkpoint[c].done,
                                                !.believed = @ \union ({c} \ trusted)])
             /\ caveat' = IF c \in trusted THEN caveat ELSE "mixed"
             /\ UNCHANGED budget
          \/ /\ ~same
             /\ init' = AfterBatch([init EXCEPT !.done = {id \in InChannel : Matches(id)}])
             /\ UNCHANGED <<caveat, budget>>
          \/ /\ ~same
             /\ Fault
             /\ init' = AfterBatch([init EXCEPT !.done = {}])
             /\ UNCHANGED caveat
    /\ InitOnly
    /\ UNCHANGED <<records, checkpoint, readiness, trusted>>

Pending == {id \in InChannel \ init.done : init.attempts[id] < 2}

\* Mutant: an object whose embedding failed counts as done.
InitEmbedCountingFailures ==
    /\ init.pc = "embed"
    /\ \E batch \in SUBSET Pending : \E failed \in SUBSET batch :
          /\ Cardinality(batch) = MinOf(Cardinality(Pending), BatchSize)
          /\ budget.faults + Cardinality(failed) <= MaxFaults
          /\ budget' = [budget EXCEPT !.faults = @ + Cardinality(failed)]
          /\ init' = [init EXCEPT !.pc = IF failed = batch THEN "checkpoint" ELSE "upsert",
                                  !.batch = batch]
    /\ InitOnly
    /\ UNCHANGED <<records, checkpoint, readiness, trusted, caveat>>

\* embedBatch: each text of the batch on its own.  An object is tried twice;
\* only the first failure counts against the bound.
InitEmbed ==
    /\ init.pc = "embed"
    /\ \E batch \in SUBSET Pending : \E failed \in SUBSET batch :
          /\ Cardinality(batch) = MinOf(Cardinality(Pending), BatchSize)
          /\ LET new == Cardinality({id \in failed : init.attempts[id] = 0})
             IN /\ budget.faults + new <= MaxFaults
                /\ budget' = [budget EXCEPT !.faults = @ + new]
          /\ init' = [init EXCEPT
                         !.pc = IF failed = batch THEN "checkpoint" ELSE "upsert",
                         !.batch = batch \ failed,
                         !.attempts = [id \in Ids |-> @[id] + IF id \in batch THEN 1 ELSE 0]]
    /\ InitOnly
    /\ UNCHANGED <<records, checkpoint, readiness, trusted, caveat>>

InitUpsert ==
    /\ init.pc = "upsert"
    /\ records' = [id \in Ids |->
                      IF id \in init.batch
                      THEN Record(init.snapshot[id], Version(init.snapshot), "init")
                      ELSE records[id]]
    /\ init' = [init EXCEPT !.pc = "checkpoint"]
    /\ InitOnly
    /\ UNCHANGED <<checkpoint, readiness, trusted, caveat, budget>>

InitCheckpoint ==
    /\ init.pc = "checkpoint"
    /\ LET c == Channels[init.channel]
           done == init.done \union init.batch
       IN /\ checkpoint' = [checkpoint EXCEPT
                               ![c] = [version |-> Version(init.snapshot), done |-> done]]
          /\ init' = AfterBatch([init EXCEPT !.done = done])
          /\ trusted' = IF Sound THEN trusted \union {c} ELSE trusted \ {c}
    /\ InitOnly
    /\ UNCHANGED <<records, readiness, caveat, budget>>

\* reconcileRemovals reads all records, then deletes those that the snapshot
\* does not have.
InitSweep ==
    /\ init.pc = "sweep"
    /\ init' = [init EXCEPT !.pc = "delete",
                            !.batch = {id \in Ids : Stored(id)} \ Version(init.snapshot)]
    /\ InitOnly
    /\ UNCHANGED <<records, checkpoint, readiness, trusted, caveat, budget>>

Without(ids) == [id \in Ids |-> IF id \in ids THEN NoRecord ELSE records[id]]

\* The backfill returns; unless every channel is complete that is a failure.
InitDelete ==
    /\ init.pc = "delete"
    /\ records' = Without(init.batch)
    /\ IF init.complete
       THEN /\ init' = [init EXCEPT !.pc = "align", !.batch = {}]
            /\ UNCHANGED readiness
       ELSE /\ init' = NoInit
            /\ readiness' = [state |-> "Stale", version |-> init.version]
    /\ InitOnly
    /\ UNCHANGED <<checkpoint, trusted, caveat, budget>>

\* A retrieval has run without an error (probeQueryability).  The version
\* recorded is the one read at the start.
InitAlign ==
    /\ init.pc = "align"
    /\ readiness' = [state |-> "Aligned", version |-> init.version]
    /\ init' = NoInit
    /\ caveat' = IF Sound THEN "none" ELSE caveat
    /\ InitOnly
    /\ UNCHANGED <<records, checkpoint, trusted, budget>>

\* recordCanonicalInitFailure, from anywhere after the invalidation.  The
\* configuration's failure is recorded as Failed, all others as Stale.
InitFail ==
    /\ init.pc \in InitPc \ {"idle", "invalidate", "embed"}
    /\ Fault
    /\ \E state \in {"Failed", "Stale"} :
          /\ state = "Failed" => init.pc = "snapshot"
          /\ readiness' = [state |-> state, version |-> init.version]
    /\ init' = NoInit
    /\ InitOnly
    /\ UNCHANGED <<records, checkpoint, trusted, caveat>>

InitCrash ==
    /\ Aligning
    /\ Fault
    /\ init' = NoInit
    /\ InitOnly
    /\ UNCHANGED <<records, checkpoint, readiness, trusted, caveat>>

-----------------------------------------------------------------------------
(* A mutating call and its lifecycle                                       *)

EditOnly == UNCHANGED checkpoint

\* A write to the objects of `ids` while an alignment runs spoils it.
Spoil(ids) ==
    /\ trusted' = trusted \ {ChannelOf[id] : id \in ids}
    /\ init' = IF Aligning THEN [init EXCEPT !.alone = FALSE] ELSE init

\* writeGraph and buildPersistentWork.  When all mutations are removals,
\* every touched object is a tombstone, also one that is still there: the
\* element or view of a scoped removal.
EditWrite ==
    /\ edit.pc = "idle"
    /\ Change
    /\ \E id \in Ids, new \in Texts \union {Absent}, removeOnly \in BOOLEAN :
          /\ new = Absent => graph[id] # Absent /\ removeOnly
          /\ new # Absent /\ removeOnly => ScopedRemovals /\ graph[id] # Absent
          /\ new = graph[id] => removeOnly
          /\ graph' = [graph EXCEPT ![id] = new]
          /\ LET upserts == IF removeOnly THEN {} ELSE {id}
             IN edit' = [pc |-> "invalidate", upserts |-> upserts, left |-> upserts,
                         tombstones |-> {id} \ upserts]
          /\ Spoil({id})
    /\ caveat' = IF Aligning THEN "mixed" ELSE caveat
    /\ EditOnly
    /\ UNCHANGED <<records, readiness>>

\* An import, an undo of a batch or a repair writes the file and nothing else.
OutsideWrite ==
    /\ edit.pc = "idle"
    /\ Change
    /\ \E id \in Ids, new \in Texts \union {Absent} :
          /\ new # graph[id]
          /\ graph' = [graph EXCEPT ![id] = new]
          /\ Spoil({id})
    /\ caveat' = IF Aligning THEN "mixed" ELSE Behind
    /\ UNCHANGED <<records, checkpoint, readiness, edit>>

Finish(state) ==
    /\ readiness' = [state |-> state, version |-> Version(graph)]
    /\ edit' = NoEdit

EditInvalidate ==
    /\ edit.pc = "invalidate"
    /\ readiness' = [state |-> "Stale", version |-> Version(graph)]
    /\ \/ /\ edit' = [edit EXCEPT !.pc = IF edit.upserts = {} THEN "tombstone" ELSE "upsert"]
          /\ UNCHANGED budget
       \/ /\ edit' = [edit EXCEPT !.pc = "pending"]
          /\ Fault
    /\ EditOnly
    /\ UNCHANGED <<graph, records, init, trusted, caveat>>

\* The gates are off.
EditPending ==
    /\ edit.pc = "pending"
    /\ Finish("SemanticIndexPending")
    /\ caveat' = Behind
    /\ EditOnly
    /\ UNCHANGED <<graph, records, init, trusted, budget>>

\* All texts have been embedded by then, one by one, or nothing is stored.
\* The adapter writes one channel after the other.
EditUpsert ==
    /\ edit.pc = "upsert"
    /\ \E n \in 1..Len(Channels) :
          LET mine == {id \in edit.left : ChannelOf[id] = Channels[n]} IN
          /\ mine # {}
          /\ \A earlier \in 1..n-1 : \A id \in edit.left : ChannelOf[id] # Channels[earlier]
          /\ records' = [id \in Ids |-> IF id \in mine
                                        THEN Record(graph[id], Version(graph), "edit")
                                        ELSE records[id]]
          /\ edit' = [edit EXCEPT !.left = @ \ mine,
                                  !.pc = IF edit.left = mine THEN "tombstone" ELSE @]
    /\ EditOnly
    /\ UNCHANGED <<graph, readiness, init, trusted, caveat, budget>>

EditTombstone ==
    /\ edit.pc = "tombstone"
    /\ records' = Without(edit.tombstones)
    /\ edit' = [edit EXCEPT !.pc = "verify"]
    /\ EditOnly
    /\ UNCHANGED <<graph, readiness, init, trusted, caveat, budget>>

Touched == edit.upserts \union edit.tombstones

\* verifyProductionTouchedQueryability
Queryable == \A id \in Touched : Stored(id) <=> id \in edit.upserts

\* Mutant: only what the call touched is looked at.
CoherentTouched ==
    \A id \in Touched \intersect Version(graph) :
       Stored(id) /\ records[id].version = Version(graph)

\* isIncrementalProjectionGloballyCoherent
Coherent ==
    /\ \A id \in Version(graph) : Stored(id)
    /\ \A c \in Range(Channels) : Objects(graph, c) # {}
    /\ \A id \in Touched \intersect Version(graph) : records[id].version = Version(graph)

\* A check that answers no is recorded as Stale.
EditCheck(pc, ok, next) ==
    /\ edit.pc = pc
    /\ IF ok
       THEN /\ edit' = [edit EXCEPT !.pc = next]
            /\ UNCHANGED <<readiness, caveat>>
       ELSE /\ Finish("Stale")
            /\ caveat' = Behind
    /\ EditOnly
    /\ UNCHANGED <<graph, records, init, trusted, budget>>

EditVerify == EditCheck("verify", Queryable, "cohere")

EditCohere == EditCheck("cohere", Coherent, "align")

EditAlign ==
    /\ edit.pc = "align"
    /\ Finish("Aligned")
    /\ EditOnly
    /\ UNCHANGED <<graph, records, init, trusted, caveat, budget>>

\* recordPersistentFailure: a call of the provider or the database fails.
EditFail ==
    /\ edit.pc \in {"upsert", "tombstone", "verify", "cohere"}
    /\ Fault
    /\ Finish("Failed")
    /\ caveat' = Behind
    /\ EditOnly
    /\ UNCHANGED <<graph, records, init, trusted>>

EditCrash ==
    /\ Running
    /\ Fault
    /\ edit' = NoEdit
    /\ caveat' = Behind
    /\ EditOnly
    /\ UNCHANGED <<graph, records, readiness, init, trusted>>

-----------------------------------------------------------------------------

InitStep ==
    \/ InitInvalidate \/ InitSnapshot \/ InitSeed \/ InitEmbed \/ InitUpsert
    \/ InitCheckpoint \/ InitSweep \/ InitDelete \/ InitAlign

EditStep ==
    \/ EditInvalidate \/ EditPending \/ EditUpsert \/ EditTombstone
    \/ EditVerify \/ EditCohere \/ EditAlign

Next ==
    \/ InitStart \/ InitStep \/ InitDisabled \/ InitFail \/ InitCrash
    \/ EditWrite \/ EditStep \/ EditFail \/ EditCrash
    \/ OutsideWrite

Spec == Init /\ [][Next]_vars

\* Both processes go on, and as long as the index is not ready somebody asks
\* it something: a query that finds it so starts an alignment.
Fairness ==
    /\ WF_vars(InitStep)
    /\ WF_vars(EditStep)
    /\ WF_vars(InitStart /\ ~ReadyFor(graph))

FairSpec == Spec /\ Fairness

-----------------------------------------------------------------------------
(* Properties                                                              *)

\* Every object has a vector of its present text, and there are no others.
Exact == \A id \in Ids :
    IF graph[id] = Absent THEN ~Stored(id)
    ELSE Stored(id) /\ records[id].text = graph[id]

\* The write has happened and the readiness record does not say so yet.
Unannounced == edit.pc = "invalidate"

\* An index that queries accept is exact, unless one of the known exceptions
\* has happened since the last alignment free of them; such an alignment
\* makes up for all of them.  Interrupted alignments, failed embeddings,
\* resumed checkpoints and removals are all within this.
AlignedIsExact == ReadyFor(graph) /\ caveat = "none" /\ ~Unannounced => Exact

\* Edits that failed, and writes that no lifecycle followed, may leave old
\* vectors behind an accepted index but no object without one: the coherence
\* check of the next edit and the version see to that.
AlignedIsComplete ==
    ReadyFor(graph) /\ caveat # "mixed"
       => \A id \in Version(graph) : Stored(id)

\* Crash consistency of the checkpoint: whatever dies between a batch's
\* vectors and the checkpoint that names them, a channel that no edit has
\* touched since never names an object whose vector is missing or old.
CheckpointIsBacked ==
    \A c \in trusted : \A id \in checkpoint[c].done :
       Stored(id) /\ records[id].text = graph[id]

\* What the comments of the backfill say without an exception: changed
\* content is always embedded again, and an alignment rebuilds a projection
\* exactly consistent with the graph.  Said here of an alignment that nothing
\* overlaps, when it has done its work and is about to record it.
RebuildIsExact == init.pc = "align" /\ init.alone => Exact

\* Once edits, failures and crashes stop, the index becomes ready again and
\* again.
Heals == []<>ReadyFor(graph)
=============================================================================
