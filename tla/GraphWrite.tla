----------------------------- MODULE GraphWrite -----------------------------
(***************************************************************************)
(* Whole-file writes of the canonical graph under the lock of FileLock.    *)
(*                                                                         *)
(* An MCP server (a Stealer) runs a mutating tool call: it waits for the   *)
(* lock, and only then reads the graph, applies and gates the mutation,    *)
(* renames the new file into place, appends the removed object to the      *)
(* tombstone ledger, and returns.  The web service (the other users)       *)
(* replaces the graph by an imported one.  A process may crash between     *)
(* any two steps.                                                          *)
(*                                                                         *)
(* The graph is the set of the ids in it.  Which ids a call may add or     *)
(* remove together is the business of the mutation rules, not of this      *)
(* module.                                                                 *)
(***************************************************************************)
EXTENDS FileLock

CONSTANT Objects     \* ids of graph objects

Ops ==
    [kind : {"add", "remove"}, id : Objects]
        \union [kind : {"replace"}, content : SUBSET Objects]

Apply(graph, op) ==
    CASE op.kind = "add"     -> graph \union {op.id}
      [] op.kind = "remove"  -> graph \ {op.id}
      [] op.kind = "replace" -> op.content

\* applyMutations fails on an id that is not there.
Accepts(graph, op) == op.kind = "remove" => op.id \in graph

VARIABLES
    doc,         \* the canonical graph file
    op,          \* the write each process was asked for
    step,        \* how far each process is inside the critical section
    base,        \* the graph each process read
    tombstones,  \* ids with an entry in the tombstone ledger
    warned,      \* ids whose failed tombstone was reported to the caller
    expected,    \* history: the graph if the writes had been made one by one
    removed      \* history: ids taken out of the graph by a tool call

writeVars == <<doc, op, step, base, tombstones, warned, expected, removed>>
vars == <<lockVars, writeVars>>

\* "enter": nothing read yet; "read": the graph is in memory; "wrote": the new
\* file is in place; "done": nothing left but to release.
Steps == {"enter", "read", "wrote", "done"}

GraphTypeOK ==
    /\ TypeOK
    /\ doc \in SUBSET Objects
    /\ op \in [Users -> Ops]
    /\ step \in [Users -> Steps]
    /\ base \in [Users -> SUBSET Objects]
    /\ tombstones \in SUBSET Objects
    /\ warned \in SUBSET Objects
    /\ expected \in SUBSET Objects
    /\ removed \in SUBSET Objects

NoOp == [kind |-> "replace", content |-> {}]

Init ==
    /\ LockInit
    /\ doc \in SUBSET Objects
    /\ op = [p \in Users |-> NoOp]
    /\ step = [p \in Users |-> "enter"]
    /\ base = [p \in Users |-> {}]
    /\ tombstones = {}
    /\ warned = {}
    /\ expected = doc
    /\ removed = {}

-----------------------------------------------------------------------------
\* A tool call or an import arrives (runMutationCall, importProject).
Call(p) ==
    /\ Request(p)
    /\ \E o \in Ops :
        /\ (o.kind = "replace") <=> (p \notin Stealers)
        /\ op' = [op EXCEPT ![p] = o]
    /\ UNCHANGED <<doc, step, base, tombstones, warned, expected, removed>>

\* The lock's own steps leave the graph alone.
Lock(p) ==
    /\ LoopStep(p) \/ Expire(p)
    /\ UNCHANGED writeVars

InCritical(p, s) == Holding(p) /\ step[p] = s

\* Mutant: the graph is read before the lock is taken.
ReadGraphUnlocked(p) ==
    /\ pc[p] # "idle" /\ step[p] = "enter"
    /\ base' = [base EXCEPT ![p] = doc]
    /\ step' = [step EXCEPT ![p] = "read"]
    /\ UNCHANGED <<lockVars, doc, op, tombstones, warned, expected, removed>>

\* loadContext, inside the lock.  An import has its content already.
ReadGraph(p) ==
    /\ InCritical(p, "enter")
    /\ base' = [base EXCEPT ![p] = doc]
    /\ step' = [step EXCEPT ![p] = "read"]
    /\ UNCHANGED <<lockVars, doc, op, tombstones, warned, expected, removed>>

\* Mutant: a refused call ends in a place the code does not handle.
RefuseUnhandled(p) ==
    /\ InCritical(p, "read")
    /\ p \in Stealers
    /\ step' = [step EXCEPT ![p] = "refused"]
    /\ UNCHANGED <<lockVars, doc, op, base, tombstones, warned, expected, removed>>

\* The mutation is refused: the id to remove is not there, the result does not
\* validate, a duplicate or an unacknowledged loss blocks it.
Refuse(p) ==
    /\ InCritical(p, "read")
    /\ p \in Stealers
    /\ step' = [step EXCEPT ![p] = "done"]
    /\ UNCHANGED <<lockVars, doc, op, base, tombstones, warned, expected, removed>>

Removes(p) == IF op[p].kind = "remove" THEN {op[p].id} ELSE {}

\* writeGraph (or atomicWriteFile): the graph computed from what was read is
\* renamed into place.
WriteGraph(p) ==
    /\ InCritical(p, "read")
    /\ Accepts(base[p], op[p])
    /\ doc' = Apply(base[p], op[p])
    /\ expected' = Apply(expected, op[p])
    /\ removed' = removed \union Removes(p)
    /\ step' = [step EXCEPT ![p] = "wrote"]
    /\ UNCHANGED <<lockVars, op, base, tombstones, warned>>

\* Mutant: a failed append is swallowed.
AppendTombstoneSilently(p) ==
    /\ InCritical(p, "wrote")
    /\ step' = [step EXCEPT ![p] = "done"]
    /\ tombstones' \in {tombstones, tombstones \union Removes(p)}
    /\ UNCHANGED <<lockVars, doc, op, base, warned, expected, removed>>

\* appendTombstones, after the write; when it fails the call still succeeds
\* and its result carries a warning.
AppendTombstone(p) ==
    /\ InCritical(p, "wrote")
    /\ step' = [step EXCEPT ![p] = "done"]
    /\ \/ /\ tombstones' = tombstones \union Removes(p)
          /\ UNCHANGED warned
       \/ /\ warned' = warned \union Removes(p)
          /\ UNCHANGED tombstones
    /\ UNCHANGED <<lockVars, doc, op, base, expected, removed>>

\* What a process knew is gone with the call.
Forget(p) ==
    /\ step' = [step EXCEPT ![p] = "enter"]
    /\ base' = [base EXCEPT ![p] = {}]
    /\ op' = [op EXCEPT ![p] = NoOp]
    /\ UNCHANGED <<doc, tombstones, warned, expected, removed>>

\* The call returns, through the finally block of the lock.
Return(p) ==
    /\ InCritical(p, "done")
    /\ Release(p)
    /\ Forget(p)

Die(p) ==
    /\ Crash(p)
    /\ Forget(p)

Time == Age /\ UNCHANGED writeVars

WriterStep(p) ==
    \/ Call(p)
    \/ Lock(p)
    \/ ReadGraph(p)
    \/ Refuse(p)
    \/ WriteGraph(p)
    \/ AppendTombstone(p)
    \/ Return(p)
    \/ Die(p)

GraphNext == (\E p \in Users : WriterStep(p)) \/ Time

GraphSpec == Init /\ [][GraphNext]_vars

-----------------------------------------------------------------------------
(* Properties                                                              *)

\* No mutation is silently dropped (the comment on runMutationCall, and
\* AT-graph-write-lock-03): the graph is what the accepted writes make of it
\* one after the other.
NoLostUpdate == doc = expected

\* The same, for as long as the lock file was not taken from a live holder.
NoLostUpdateUntilUsurped == ~usurped => NoLostUpdate

\* A writer still computes from the graph that is there when it writes.
BaseIsCurrent ==
    ~usurped => \A p \in Users : InCritical(p, "read") => base[p] = doc

\* The removals a process has not recorded yet.
InFlight == UNION {Removes(p) : p \in {q \in Users : InCritical(q, "wrote")}}

\* G3 of the lossless gate: a removed object is in the tombstone ledger
\* ("nothing is truly lost"), or the failure was reported to the caller, or the
\* call is still under way.
RemovalsRecorded == removed \subseteq tombstones \union warned \union InFlight

\* The ledger misses an object only if a process crashed.
RemovalsRecordedWithoutCrash == crashes = 0 => RemovalsRecorded

\* The write a process waits for: asked, not yet made or refused.
NoCall == [kind |-> "none"]

Pending == [p \in Users |->
               IF pc[p] # "idle" /\ step[p] \in {"enter", "read"} THEN op[p] ELSE NoCall]

\* The lock's promise to its callers, two processes' calls "cannot clobber each
\* other" (graph-write-lock.js:10-11): each call takes effect at one moment, on
\* the graph as it is then, or not at all.
Linear == INSTANCE LinearGraph WITH
              Callers <- Users, graph <- doc, call <- Pending, broken <- usurped
LinearSpec == Linear!Spec
=============================================================================
