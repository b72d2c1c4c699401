-------------------------- MODULE GraphWriteProofs --------------------------
(***************************************************************************)
(* The graph write path, for any number of MCP servers and web services,   *)
(* any set of objects, any crashes: until a live holder's lock file is     *)
(* removed, calls take effect one whole call at a time.                    *)
(***************************************************************************)
EXTENDS GraphWrite, FileLockProofs

\* A step of the write path is a step of the lock or leaves the lock alone.
LEMMA LockOnly == ASSUME GraphNext PROVE [Next]_lockVars
<1>1. ASSUME NEW p \in Users, WriterStep(p) PROVE [Next]_lockVars
  BY <1>1 DEF WriterStep, Call, Lock, ReadGraph, Refuse, WriteGraph, AppendTombstone,
              Return, Die, Next
<1>2. CASE Time
  BY <1>2 DEF Time, Next
<1>3. QED
  BY <1>1, <1>2 DEF GraphNext

LEMMA LockStep == [GraphNext]_vars => [Next]_lockVars
  BY LockOnly DEF vars, lockVars

\* The lock's invariants hold of the write path.
LEMMA LockHolds == GraphSpec => [](TypeOK /\ HolderOwnsFile)
<1>1. Init => LockInit
  BY DEF Init
<1>2. LockInit => TypeOK /\ HolderOwnsFile
  BY LockInitType, LockInitOwner
<1>3. TypeOK /\ HolderOwnsFile /\ [GraphNext]_vars => (TypeOK /\ HolderOwnsFile)'
  BY LockStep, TypeStep, HolderStep
<1>4. QED
  BY <1>1, <1>2, <1>3, PTL DEF GraphSpec

-----------------------------------------------------------------------------
\* What an operation makes of a graph is a graph.
LEMMA ApplyType ==
  ASSUME NEW g \in SUBSET Objects, NEW o \in Ops
  PROVE  Apply(g, o) \in SUBSET Objects
<1>1. CASE o.kind = "add"
  BY <1>1 DEF Apply, Ops
<1>2. CASE o.kind = "remove"
  BY <1>2 DEF Apply, Ops
<1>3. CASE o.kind = "replace"
  BY <1>3 DEF Apply, Ops
<1>4. QED
  BY <1>1, <1>2, <1>3 DEF Ops

LEMMA RemovesType ==
  ASSUME op \in [Users -> Ops], NEW p \in Users
  PROVE  Removes(p) \subseteq Objects
  BY DEF Removes, Ops

\* The variables of the write path, apart from the lock's.
WriteTypeOK ==
    /\ doc \in SUBSET Objects
    /\ op \in [Users -> Ops]
    /\ step \in [Users -> Steps]
    /\ base \in [Users -> SUBSET Objects]
    /\ tombstones \in SUBSET Objects
    /\ warned \in SUBSET Objects
    /\ expected \in SUBSET Objects
    /\ removed \in SUBSET Objects

LEMMA ForgetType ==
  ASSUME WriteTypeOK, NEW p \in Users, Forget(p) PROVE WriteTypeOK'
<1>1. NoOp \in Ops
  BY DEF NoOp, Ops
<1>2. QED
  BY <1>1 DEF WriteTypeOK, Forget, Steps

LEMMA WriteTypeStep ==
  ASSUME WriteTypeOK, [GraphNext]_vars PROVE WriteTypeOK'
<1>1. ASSUME NEW p \in Users, Call(p) PROVE WriteTypeOK'
  BY <1>1 DEF Call, WriteTypeOK
<1>2. ASSUME NEW p \in Users, Lock(p) PROVE WriteTypeOK'
  BY <1>2 DEF Lock, writeVars, WriteTypeOK
<1>3. ASSUME NEW p \in Users, ReadGraph(p) PROVE WriteTypeOK'
  BY <1>3 DEF ReadGraph, WriteTypeOK, Steps
<1>4. ASSUME NEW p \in Users, Refuse(p) PROVE WriteTypeOK'
  BY <1>4 DEF Refuse, WriteTypeOK, Steps
<1>5. ASSUME NEW p \in Users, WriteGraph(p) PROVE WriteTypeOK'
  <2>1. doc' \in SUBSET Objects /\ expected' \in SUBSET Objects
    BY <1>5, ApplyType DEF WriteGraph, WriteTypeOK
  <2>2. removed' \in SUBSET Objects
    BY <1>5, RemovesType DEF WriteGraph, WriteTypeOK
  <2>3. QED
    BY <1>5, <2>1, <2>2 DEF WriteGraph, WriteTypeOK, Steps
<1>6. ASSUME NEW p \in Users, AppendTombstone(p) PROVE WriteTypeOK'
  BY <1>6, RemovesType DEF AppendTombstone, WriteTypeOK, Steps
<1>7. ASSUME NEW p \in Users, Return(p) \/ Die(p) PROVE WriteTypeOK'
  BY <1>7, ForgetType DEF Return, Die
<1>8. CASE Time \/ UNCHANGED vars
  BY <1>8 DEF Time, vars, writeVars, WriteTypeOK
<1>9. QED
  BY <1>1, <1>2, <1>3, <1>4, <1>5, <1>6, <1>7, <1>8 DEF GraphNext, WriterStep

\* Type correctness of the write path.
THEOREM GraphTypeCorrect == GraphSpec => []GraphTypeOK
<1>1. Init => WriteTypeOK
  <2>1. NoOp \in Ops
    BY DEF NoOp, Ops
  <2>2. QED
    BY <2>1 DEF Init, WriteTypeOK, Steps
<1>2. TypeOK /\ WriteTypeOK => GraphTypeOK
  BY DEF GraphTypeOK, WriteTypeOK
<1>3. QED
  BY <1>1, <1>2, WriteTypeStep, LockHolds, PTL DEF GraphSpec

-----------------------------------------------------------------------------
\* The inductive invariant: a process outside the critical section has no
\* half-done call, a writer's copy of the graph is current, and the graph is
\* what the serial history makes it.
OutsideIsIdle == \A p \in Users : ~Holding(p) => step[p] = "enter"

WriteInv == OutsideIsIdle /\ BaseIsCurrent /\ NoLostUpdateUntilUsurped

LEMMA InvForget ==
  ASSUME TypeOK, WriteTypeOK, WriteInv, NEW p \in Users, Forget(p),
         pc' = [pc EXCEPT ![p] = "idle"], ~usurped' => ~usurped
  PROVE  WriteInv'
  BY DEF TypeOK, WriteTypeOK, WriteInv, OutsideIsIdle, BaseIsCurrent,
         NoLostUpdateUntilUsurped, NoLostUpdate, InCritical, Holding, Forget, Steps

LEMMA InvStep ==
  ASSUME TypeOK, HolderOwnsFile, WriteTypeOK, WriteInv, [GraphNext]_vars
  PROVE  WriteInv'
<1> USE DEF WriteInv, OutsideIsIdle, BaseIsCurrent, NoLostUpdateUntilUsurped,
            NoLostUpdate, InCritical, Holding
<1>1. ASSUME NEW p \in Users, Call(p) PROVE WriteInv'
  BY <1>1 DEF Call, Request, TypeOK
<1>2. ASSUME NEW p \in Users, Lock(p) PROVE WriteInv'
  <2>1. CASE LoopStep(p)
    BY <1>2, <2>1 DEF Lock, LoopStep, Acquire, FindLocked, CheckAge, Steal, Wake,
                      RemoveFile, LeaveFile, TimeoutOrSleep, writeVars, TypeOK, LockPc
  <2>2. CASE Expire(p)
    BY <1>2, <2>2 DEF Lock, Expire, writeVars
  <2>3. QED
    BY <1>2, <2>1, <2>2 DEF Lock
<1>3. ASSUME NEW p \in Users, ReadGraph(p) PROVE WriteInv'
  BY <1>3 DEF ReadGraph, lockVars, WriteTypeOK
<1>4. ASSUME NEW p \in Users, Refuse(p) PROVE WriteInv'
  BY <1>4 DEF Refuse, lockVars, WriteTypeOK
\* Only p holds the lock, so nobody else has a copy to go stale.
<1>5. ASSUME NEW p \in Users, WriteGraph(p) PROVE WriteInv'
  <2>1. ~usurped => \A q \in Users : Holding(q) => q = p
    BY <1>5 DEF WriteGraph, HolderOwnsFile
  <2>2. ~usurped => doc' = expected'
    BY <1>5 DEF WriteGraph
  <2>3. QED
    BY <1>5, <2>1, <2>2 DEF WriteGraph, lockVars, WriteTypeOK
<1>6. ASSUME NEW p \in Users, AppendTombstone(p) PROVE WriteInv'
  BY <1>6 DEF AppendTombstone, lockVars, WriteTypeOK
<1>7. ASSUME NEW p \in Users, Return(p) PROVE WriteInv'
  <2>1. ~usurped' => ~usurped
    BY <1>7 DEF Return, Release, RemoveFile, LeaveFile, TypeOK
  <2>2. Forget(p) /\ pc' = [pc EXCEPT ![p] = "idle"]
    BY <1>7 DEF Return, Release
  <2>3. QED
    BY <2>1, <2>2, InvForget DEF WriteInv
<1>8. ASSUME NEW p \in Users, Die(p) PROVE WriteInv'
  BY <1>8, InvForget DEF Die, Crash, WriteInv
<1>9. CASE Time
  BY <1>9 DEF Time, Age, writeVars
<1>10. CASE UNCHANGED vars
  BY <1>10 DEF vars, lockVars, writeVars
<1>11. QED
  BY <1>1, <1>2, <1>3, <1>4, <1>5, <1>6, <1>7, <1>8, <1>9, <1>10
     DEF GraphNext, WriterStep

LEMMA InvHolds == GraphSpec => [](WriteTypeOK /\ WriteInv)
<1>1. Init => WriteTypeOK /\ WriteInv
  <2>1. NoOp \in Ops
    BY DEF NoOp, Ops
  <2>2. QED
    BY <2>1 DEF Init, LockInit, WriteTypeOK, Steps, WriteInv, OutsideIsIdle, BaseIsCurrent,
                NoLostUpdateUntilUsurped, NoLostUpdate, InCritical, Holding
<1>2. TypeOK /\ HolderOwnsFile /\ WriteTypeOK /\ WriteInv /\ [GraphNext]_vars
        => (WriteTypeOK /\ WriteInv)'
  BY WriteTypeStep, InvStep
<1>3. QED
  BY <1>1, <1>2, LockHolds, PTL DEF GraphSpec

\* Until a live holder's file is removed, no accepted write is lost: the graph
\* is the result of the accepted writes made one by one.
THEOREM NoLostUpdates == GraphSpec => []NoLostUpdateUntilUsurped
  BY InvHolds, PTL DEF WriteInv

\* ... and each writer's copy of the graph is still current when it writes.
THEOREM WritersAreCurrent == GraphSpec => []BaseIsCurrent
  BY InvHolds, PTL DEF WriteInv

-----------------------------------------------------------------------------
\* Somebody who holds the lock has removed o and not come to the ledger yet.
Underway(o) == \E q \in Users : InCritical(q, "wrote") /\ o \in Removes(q)

LEMMA RecordedPointwise ==
  RemovalsRecorded <=> \A o \in removed : o \in tombstones \/ o \in warned \/ Underway(o)
BY DEF RemovalsRecorded, InFlight, Underway

\* A step of p that takes nobody out of "wrote" leaves every removal under way.
LEMMA UnderwayKept ==
  ASSUME NEW p \in Users, NEW o, Underway(o), ~InCritical(p, "wrote"),
         \A q \in Users \ {p} : pc'[q] = pc[q] /\ step'[q] = step[q] /\ op'[q] = op[q]
  PROVE  Underway(o)'
<1>1. PICK q \in Users \ {p} : InCritical(q, "wrote") /\ o \in Removes(q)
  BY DEF Underway
<1>2. InCritical(q, "wrote")' /\ o \in Removes(q)'
  BY <1>1 DEF InCritical, Holding, Removes
<1>3. QED
  BY <1>2 DEF Underway

LEMMA RecordedStep ==
  ASSUME TypeOK, WriteTypeOK, WriteInv, RemovalsRecordedWithoutCrash, [GraphNext]_vars
  PROVE  RemovalsRecordedWithoutCrash'
<1> SUFFICES ASSUME crashes' = 0, NEW o, o \in removed'
             PROVE  o \in tombstones' \/ o \in warned' \/ Underway(o)'
  BY DEF RemovalsRecordedWithoutCrash, RemovalsRecorded, InFlight, Underway
<1>0. ASSUME crashes = 0, o \in removed
      PROVE  o \in tombstones \/ o \in warned \/ Underway(o)
  BY <1>0, RecordedPointwise DEF RemovalsRecordedWithoutCrash
<1>1. ASSUME NEW p \in Users, Call(p)
      PROVE  o \in tombstones' \/ o \in warned' \/ Underway(o)'
  <2>1. ~InCritical(p, "wrote")
    BY <1>1 DEF Call, Request, InCritical, Holding
  <2>2. \A q \in Users \ {p} : pc'[q] = pc[q] /\ step'[q] = step[q] /\ op'[q] = op[q]
    BY <1>1 DEF Call, Request, TypeOK, WriteTypeOK
  <2>3. UNCHANGED <<tombstones, warned, removed, crashes>>
    BY <1>1 DEF Call, Request
  <2>4. QED
    BY <1>0, <2>1, <2>2, <2>3, UnderwayKept
<1>2. ASSUME NEW p \in Users, Lock(p)
      PROVE  o \in tombstones' \/ o \in warned' \/ Underway(o)'
  <2>1. UNCHANGED <<tombstones, warned, removed, crashes, step, op>>
    BY <1>2 DEF Lock, LoopStep, Acquire, FindLocked, CheckAge, Steal, Wake, Expire, writeVars
  <2>2. ~InCritical(p, "wrote")
    BY <1>2 DEF Lock, LoopStep, Acquire, FindLocked, CheckAge, Steal, Wake, Expire, Waiting,
                InCritical, Holding
  <2>3. \A q \in Users \ {p} : pc'[q] = pc[q]
    BY <1>2 DEF Lock, LoopStep, Acquire, FindLocked, CheckAge, Steal, Wake, Expire, TypeOK
  <2>4. QED
    BY <1>0, <2>1, <2>2, <2>3, UnderwayKept
<1>3. ASSUME NEW p \in Users, ReadGraph(p) \/ Refuse(p)
      PROVE  o \in tombstones' \/ o \in warned' \/ Underway(o)'
  <2>1. /\ UNCHANGED <<tombstones, warned, removed, crashes, op, pc>>
        /\ \A q \in Users \ {p} : step'[q] = step[q]
    BY <1>3 DEF ReadGraph, Refuse, lockVars, WriteTypeOK
  <2>2. ~InCritical(p, "wrote")
    BY <1>3 DEF ReadGraph, Refuse, InCritical
  <2>3. QED
    BY <1>0, <2>1, <2>2, UnderwayKept
\* What p removes is under way as soon as it is gone.
<1>4. ASSUME NEW p \in Users, WriteGraph(p)
      PROVE  o \in tombstones' \/ o \in warned' \/ Underway(o)'
  <2>1. /\ UNCHANGED <<tombstones, warned, crashes, op, pc>>
        /\ step'[p] = "wrote" /\ \A q \in Users \ {p} : step'[q] = step[q]
        /\ removed' = removed \union Removes(p)
    BY <1>4 DEF WriteGraph, lockVars, WriteTypeOK
  <2>2. Holding(p) /\ ~InCritical(p, "wrote")
    BY <1>4 DEF WriteGraph, InCritical
  <2>3. CASE o \in removed
    BY <1>0, <2>1, <2>2, <2>3, UnderwayKept
  <2>4. CASE o \in Removes(p)
    <3>1. InCritical(p, "wrote")' /\ o \in Removes(p)'
      BY <2>1, <2>2, <2>4 DEF InCritical, Holding, Removes
    <3>2. QED
      BY <3>1 DEF Underway
  <2>5. QED
    BY <2>1, <2>3, <2>4
\* It ends in the ledger or in the warning.
<1>5. ASSUME NEW p \in Users, AppendTombstone(p)
      PROVE  o \in tombstones' \/ o \in warned' \/ Underway(o)'
  <2>1. /\ UNCHANGED <<removed, crashes, op, pc>>
        /\ \A q \in Users \ {p} : step'[q] = step[q]
        /\ tombstones \subseteq tombstones' /\ warned \subseteq warned'
        /\ Removes(p) \subseteq tombstones' \union warned'
    BY <1>5 DEF AppendTombstone, lockVars, WriteTypeOK
  <2>2. CASE Underway(o)
    <3>1. PICK q \in Users : InCritical(q, "wrote") /\ o \in Removes(q)
      BY <2>2 DEF Underway
    <3>2. CASE q = p
      BY <2>1, <3>1, <3>2
    <3>3. CASE q # p
      <4>1. InCritical(q, "wrote")' /\ o \in Removes(q)'
        BY <2>1, <3>1, <3>3 DEF InCritical, Holding, Removes
      <4>2. QED
        BY <4>1 DEF Underway
    <3>4. QED
      BY <3>2, <3>3
  <2>3. QED
    BY <1>0, <2>1, <2>2
<1>6. ASSUME NEW p \in Users, Return(p)
      PROVE  o \in tombstones' \/ o \in warned' \/ Underway(o)'
  <2>1. /\ UNCHANGED <<tombstones, warned, removed, crashes>>
        /\ \A q \in Users \ {p} : pc'[q] = pc[q] /\ step'[q] = step[q] /\ op'[q] = op[q]
    BY <1>6 DEF Return, Release, RemoveFile, LeaveFile, Forget, TypeOK, WriteTypeOK
  <2>2. ~InCritical(p, "wrote")
    BY <1>6 DEF Return, InCritical
  <2>3. QED
    BY <1>0, <2>1, <2>2, UnderwayKept
<1>7. ASSUME NEW p \in Users, Die(p) PROVE FALSE
  BY <1>7 DEF Die, Crash, TypeOK
<1>8. CASE Time \/ UNCHANGED vars
  <2>1. UNCHANGED <<tombstones, warned, removed, crashes, pc, step, op>>
    BY <1>8 DEF Time, Age, vars, lockVars, writeVars
  <2>2. QED
    BY <1>0, <2>1 DEF Underway, InCritical, Holding, Removes
<1>9. QED
  BY <1>1, <1>2, <1>3, <1>4, <1>5, <1>6, <1>7, <1>8 DEF GraphNext, WriterStep

\* G3 of the lossless gate: an object that a tool call removed is in the ledger,
\* or its caller was warned, or the call is still under way, unless a process
\* crashed.
THEOREM RemovalsAreRecorded == GraphSpec => []RemovalsRecordedWithoutCrash
<1>1. Init => RemovalsRecordedWithoutCrash
  BY RecordedPointwise DEF Init, RemovalsRecordedWithoutCrash
<1>2. QED
  BY <1>1, RecordedStep, InvHolds, LockHolds, PTL DEF GraphSpec

-----------------------------------------------------------------------------
\* What a process waits for changes only when it asks, writes or gives up.
LEMMA PendingSame ==
  ASSUME NEW p \in Users, TypeOK, WriteTypeOK,
         \A q \in Users \ {p} : pc'[q] = pc[q] /\ step'[q] = step[q] /\ op'[q] = op[q],
         Pending'[p] = Pending[p]
  PROVE  Pending' = Pending
<1>1. ASSUME NEW q \in Users PROVE Pending'[q] = Pending[q]
  BY <1>1 DEF Pending
<1>2. QED
  BY <1>1 DEF Pending

LEMMA PendingChange ==
  ASSUME NEW p \in Users, NEW v, TypeOK, WriteTypeOK,
         \A q \in Users \ {p} : pc'[q] = pc[q] /\ step'[q] = step[q] /\ op'[q] = op[q],
         Pending'[p] = v
  PROVE  Pending' = [Pending EXCEPT ![p] = v]
<1>1. ASSUME NEW q \in Users PROVE Pending'[q] = [Pending EXCEPT ![p] = v][q]
  BY <1>1 DEF Pending
<1>2. QED
  BY <1>1 DEF Pending

LinearVars == <<doc, Pending, usurped>>

\* A request asks; the loop's steps give up (a timeout), break the lock (a
\* theft), or change nothing the specification sees.
LEMMA CallIsAsk ==
  ASSUME TypeOK, WriteTypeOK, WriteInv, NEW p \in Users, Call(p) PROVE Linear!Ask(p)
<1>1. Pending[p] = NoCall
  BY DEF Call, Request, Pending
<1>2. PICK o \in Ops : op' = [op EXCEPT ![p] = o]
  BY DEF Call
<1>3. Pending'[p] = o
  BY <1>2 DEF Call, Request, Pending, TypeOK, WriteTypeOK, WriteInv, OutsideIsIdle, Holding
<1>4. Pending' = [Pending EXCEPT ![p] = o]
  BY <1>2, <1>3, PendingChange DEF Call, Request, TypeOK, WriteTypeOK
<1>5. QED
  BY <1>1, <1>4 DEF Call, Request, Linear!Ask

LEMMA LockIsInvisible ==
  ASSUME TypeOK, WriteTypeOK, WriteInv, NEW p \in Users, Lock(p)
  PROVE  Linear!GiveUp(p) \/ Linear!Break \/ UNCHANGED LinearVars
<1>1. \A q \in Users \ {p} : pc'[q] = pc[q] /\ step'[q] = step[q] /\ op'[q] = op[q]
  BY DEF Lock, LoopStep, Acquire, FindLocked, CheckAge, Steal, Wake, Expire, writeVars, TypeOK
<1>2. doc' = doc /\ (UNCHANGED usurped \/ (~usurped /\ usurped' /\ pc'[p] # "idle"))
  BY DEF Lock, LoopStep, Acquire, FindLocked, CheckAge, Steal, Wake, Expire, RemoveFile, LeaveFile,
         writeVars, TypeOK
<1>3. CASE pc'[p] = "idle"
  <2>1. Pending'[p] = NoCall
    BY <1>3 DEF Pending
  <2>2. Pending' = [Pending EXCEPT ![p] = NoCall]
    BY <1>1, <2>1, PendingChange
  <2>3. QED
    BY <1>2, <1>3, <2>2 DEF Linear!GiveUp
<1>4. CASE pc'[p] # "idle"
  <2>1. pc[p] # "idle"
    BY DEF Lock, LoopStep, Acquire, FindLocked, CheckAge, Steal, Wake, Expire, Waiting
  <2>2. Pending'[p] = Pending[p]
    BY <1>4, <2>1 DEF Lock, writeVars, Pending
  <2>3. Pending' = Pending
    BY <1>1, <2>2, PendingSame
  <2>4. QED
    BY <1>2, <2>3 DEF Linear!Break, LinearVars
<1>5. QED
  BY <1>3, <1>4

\* The write is made on the current graph, or the lock is broken.
LEMMA WriteIsWrite ==
  ASSUME TypeOK, WriteTypeOK, WriteTypeOK', WriteInv, NEW p \in Users, WriteGraph(p)
  PROVE  Linear!Write(p)
<1>1. Pending[p] = op[p] /\ op[p] \in Ops
  BY DEF WriteGraph, InCritical, Holding, Pending, WriteTypeOK
<1>2. Pending'[p] = NoCall
  BY DEF WriteGraph, Pending, WriteTypeOK
<1>3. Pending' = [Pending EXCEPT ![p] = NoCall]
  BY <1>2, PendingChange DEF WriteGraph, lockVars, WriteTypeOK
<1>4. ~usurped => base[p] = doc
  BY DEF WriteGraph, WriteInv, BaseIsCurrent
<1>5. ~usurped => Accepts(doc, Pending[p]) /\ doc' = Apply(doc, Pending[p])
  BY <1>1, <1>4 DEF WriteGraph
<1>6. UNCHANGED usurped /\ doc' \in SUBSET Objects
  BY DEF WriteGraph, lockVars, WriteTypeOK
<1>7. QED
  BY <1>1, <1>3, <1>5, <1>6 DEF Linear!Write

\* A refused call gives up, and so does one that dies before its write.
LEMMA RefuseIsGiveUp ==
  ASSUME TypeOK, WriteTypeOK, NEW p \in Users, Refuse(p) \/ Die(p)
  PROVE  Linear!GiveUp(p)
<1>1. \A q \in Users \ {p} : pc'[q] = pc[q] /\ step'[q] = step[q] /\ op'[q] = op[q]
  BY DEF Refuse, Die, Crash, Forget, lockVars, TypeOK, WriteTypeOK
<1>2. Pending'[p] = NoCall
  BY DEF Refuse, Die, Crash, Forget, lockVars, Pending, TypeOK, WriteTypeOK
<1>3. Pending' = [Pending EXCEPT ![p] = NoCall]
  BY <1>1, <1>2, PendingChange
<1>4. QED
  BY <1>3 DEF Refuse, Die, Crash, Forget, lockVars, Linear!GiveUp

LEMMA RestIsInvisible ==
  ASSUME TypeOK, WriteTypeOK, NEW p \in Users,
         ReadGraph(p) \/ AppendTombstone(p) \/ Return(p)
  PROVE  Linear!Break \/ UNCHANGED LinearVars
<1>1. \A q \in Users \ {p} : pc'[q] = pc[q] /\ step'[q] = step[q] /\ op'[q] = op[q]
  BY DEF ReadGraph, AppendTombstone, Return, Release, Forget, lockVars, TypeOK, WriteTypeOK
<1>2. Pending'[p] = Pending[p]
  BY DEF ReadGraph, AppendTombstone, Return, Release, Forget, InCritical, Holding, lockVars,
         Pending, TypeOK, WriteTypeOK
<1>3. Pending' = Pending
  BY <1>1, <1>2, PendingSame
<1>4. doc' = doc /\ (UNCHANGED usurped \/ (~usurped /\ usurped'))
  BY DEF ReadGraph, AppendTombstone, Return, Release, RemoveFile, LeaveFile, Forget, lockVars, TypeOK
<1>5. QED
  BY <1>3, <1>4 DEF Linear!Break, LinearVars

\* The write path implements LinearGraph: every step is a call asked, made or
\* given up, the breaking of the lock, or invisible.
THEOREM WritesAreLinear == GraphSpec => LinearSpec
<1>1. Init => Linear!Init
  BY DEF Init, LockInit, Pending, Linear!Init
<1>2. TypeOK /\ WriteTypeOK /\ WriteTypeOK' /\ WriteInv /\ [GraphNext]_vars
        => [Linear!Next]_LinearVars
  <2> SUFFICES ASSUME TypeOK, WriteTypeOK, WriteTypeOK', WriteInv, [GraphNext]_vars
               PROVE  [Linear!Next]_LinearVars
    OBVIOUS
  <2>1. ASSUME NEW p \in Users, WriterStep(p) PROVE [Linear!Next]_LinearVars
    BY <2>1, CallIsAsk, LockIsInvisible, WriteIsWrite, RefuseIsGiveUp, RestIsInvisible
       DEF WriterStep, Linear!Next
  <2>2. CASE Time \/ UNCHANGED vars
    BY <2>2 DEF Time, Age, vars, lockVars, writeVars, LinearVars, Pending
  <2>3. QED
    BY <2>1, <2>2 DEF GraphNext
<1>3. QED
  BY <1>1, <1>2, WriteTypeStep, InvHolds, LockHolds, PTL
     DEF GraphSpec, LinearSpec, Linear!Spec, LinearVars
=============================================================================
