--------------------------- MODULE FileLockProofs ---------------------------
(***************************************************************************)
(* What the lock file guarantees for any set of processes, any number of   *)
(* crashes and requests, and holders of any speed.                         *)
(***************************************************************************)
EXTENDS FileLock, TLAPS

\* The initial state is well typed.
LEMMA LockInitType == LockInit => TypeOK
<1> SUFFICES ASSUME LockInit PROVE TypeOK
  OBVIOUS
<1>1. crashes \in 0..MaxCrashes /\ uses \in [Users -> 0..MaxUses]
  BY LockConstants DEF LockInit
<1>2. lockFile \in Users \union {NoFile, Orphan} /\ pc \in [Users -> LockPc]
  BY DEF LockInit, LockPc
<1>3. aged \in BOOLEAN /\ usurped \in BOOLEAN /\ expired \in [Users -> BOOLEAN]
  BY Zenon DEF LockInit
<1>4. QED
  BY <1>1, <1>2, <1>3 DEF TypeOK

\* Every step keeps every variable in its type.
LEMMA TypeStep == TypeOK /\ [Next]_lockVars => TypeOK'
<1> SUFFICES ASSUME TypeOK, [Next]_lockVars PROVE TypeOK'
  OBVIOUS
<1> USE LockConstants DEF TypeOK, LockPc
<1>1. ASSUME NEW p \in Users, Request(p) PROVE TypeOK'
  BY <1>1 DEF Request
<1>2. ASSUME NEW p \in Users, LoopStep(p) PROVE TypeOK'
  <2>1. CASE Acquire(p)
    BY <2>1 DEF Acquire
  <2>2. CASE FindLocked(p)
    BY <2>2 DEF FindLocked, TimeoutOrSleep
  <2>3. CASE CheckAge(p)
    BY <2>3 DEF CheckAge, TimeoutOrSleep
  <2>4. CASE Steal(p)
    BY <2>4 DEF Steal, RemoveFile, LeaveFile
  <2>5. CASE Wake(p)
    BY <2>5 DEF Wake
  <2>6. QED
    BY <1>2, <2>1, <2>2, <2>3, <2>4, <2>5 DEF LoopStep
<1>3. ASSUME NEW p \in Users, Release(p) PROVE TypeOK'
  BY <1>3 DEF Release, RemoveFile, LeaveFile
<1>4. ASSUME NEW p \in Users, Expire(p) PROVE TypeOK'
  BY <1>4 DEF Expire
<1>5. ASSUME NEW p \in Users, Crash(p) PROVE TypeOK'
  BY <1>5 DEF Crash
<1>6. CASE Age
  BY <1>6 DEF Age
<1>7. CASE UNCHANGED lockVars
  BY <1>7 DEF lockVars
<1>8. QED
  BY <1>1, <1>2, <1>3, <1>4, <1>5, <1>6, <1>7 DEF Next

\* Type correctness: the lock loop never leaves its six places, and the lock
\* file is always absent, orphaned or some process's.
THEOREM TypeCorrect == Spec => []TypeOK
  BY LockInitType, TypeStep, PTL DEF Spec

-----------------------------------------------------------------------------
\* While no live process's file was removed, the holder is the creator of the
\* file.  (Mutual exclusion follows; it is not needed for induction.)
HolderOwnsFile == ~usurped => \A p \in Users : Holding(p) <=> lockFile = p

LEMMA HolderStep == TypeOK /\ HolderOwnsFile /\ [Next]_lockVars => HolderOwnsFile'
<1> SUFFICES ASSUME TypeOK, HolderOwnsFile, [Next]_lockVars PROVE HolderOwnsFile'
  OBVIOUS
<1> USE LockConstants DEF TypeOK, LockPc, HolderOwnsFile, Holding
<1>1. ASSUME NEW p \in Users, Request(p) PROVE HolderOwnsFile'
  BY <1>1 DEF Request
<1>2. ASSUME NEW p \in Users, LoopStep(p) PROVE HolderOwnsFile'
  <2>1. CASE Acquire(p)
    BY <2>1 DEF Acquire
  <2>2. CASE FindLocked(p)
    BY <2>2 DEF FindLocked, TimeoutOrSleep
  <2>3. CASE CheckAge(p)
    BY <2>3 DEF CheckAge, TimeoutOrSleep
  \* The file removed was p's, an orphan, or none: p itself is not holding.
  <2>4. CASE Steal(p)
    BY <2>4 DEF Steal, RemoveFile, LeaveFile
  <2>5. CASE Wake(p)
    BY <2>5 DEF Wake
  <2>6. QED
    BY <1>2, <2>1, <2>2, <2>3, <2>4, <2>5 DEF LoopStep
<1>3. ASSUME NEW p \in Users, Release(p) PROVE HolderOwnsFile'
  BY <1>3 DEF Release, RemoveFile, LeaveFile
<1>4. ASSUME NEW p \in Users, Expire(p) PROVE HolderOwnsFile'
  BY <1>4 DEF Expire
<1>5. ASSUME NEW p \in Users, Crash(p) PROVE HolderOwnsFile'
  BY <1>5 DEF Crash
<1>6. CASE Age
  BY <1>6 DEF Age
<1>7. CASE UNCHANGED lockVars
  BY <1>7 DEF lockVars
<1>8. QED
  BY <1>1, <1>2, <1>3, <1>4, <1>5, <1>6, <1>7 DEF Next

LEMMA LockInitOwner == LockInit => HolderOwnsFile
  BY LockConstants DEF LockInit, HolderOwnsFile, Holding

LEMMA HolderOwnsFileHolds == Spec => []HolderOwnsFile
  BY LockInitOwner, TypeCorrect, HolderStep, PTL DEF Spec

\* The lock is sound up to usurpation: for any processes, any speed and any
\* crashes, two processes hold the lock together only after an unlinkSync has
\* removed a file whose creator was alive.
THEOREM LockSound == Spec => []SoundUntilUsurped
<1>1. HolderOwnsFile => SoundUntilUsurped
  BY DEF HolderOwnsFile, SoundUntilUsurped, MutualExclusion
<1>2. QED
  BY <1>1, HolderOwnsFileHolds, PTL

-----------------------------------------------------------------------------
\* acquireFileLock never looks at the file's age nor unlinks in its loop.
OthersNeverUnlink == \A p \in Users \ Stealers : pc[p] \notin {"stat", "unlink"}

LEMMA OthersStep ==
  TypeOK /\ OthersNeverUnlink /\ [Next]_lockVars => OthersNeverUnlink'
<1> SUFFICES ASSUME TypeOK, OthersNeverUnlink, [Next]_lockVars PROVE OthersNeverUnlink'
  OBVIOUS
<1> USE LockConstants DEF TypeOK, LockPc, OthersNeverUnlink
<1>1. ASSUME NEW p \in Users, Request(p) PROVE OthersNeverUnlink'
  BY <1>1 DEF Request
<1>2. ASSUME NEW p \in Users, LoopStep(p) PROVE OthersNeverUnlink'
  BY <1>2 DEF LoopStep, Acquire, FindLocked, CheckAge, Steal, Wake, TimeoutOrSleep
<1>3. ASSUME NEW p \in Users, Release(p) PROVE OthersNeverUnlink'
  BY <1>3 DEF Release
<1>4. ASSUME NEW p \in Users, Expire(p) PROVE OthersNeverUnlink'
  BY <1>4 DEF Expire
<1>5. ASSUME NEW p \in Users, Crash(p) PROVE OthersNeverUnlink'
  BY <1>5 DEF Crash
<1>6. CASE Age
  BY <1>6 DEF Age
<1>7. CASE UNCHANGED lockVars
  BY <1>7 DEF lockVars
<1>8. QED
  BY <1>1, <1>2, <1>3, <1>4, <1>5, <1>6, <1>7 DEF Next

\* The step that first removes a live process's file is a steal.
FirstUsurper ==
  usurped' /\ ~usurped => \E p \in Stealers : pc[p] = "unlink" /\ pc'[p] = "open"

LEMMA FirstUsurperStep ==
  TypeOK /\ HolderOwnsFile /\ OthersNeverUnlink /\ [Next]_lockVars => FirstUsurper
<1> SUFFICES ASSUME TypeOK, HolderOwnsFile, OthersNeverUnlink, [Next]_lockVars,
                    usurped', ~usurped
             PROVE  \E p \in Stealers : pc[p] = "unlink" /\ pc'[p] = "open"
  BY DEF FirstUsurper
<1> USE LockConstants DEF TypeOK
<1>1. ASSUME NEW p \in Users, LoopStep(p)
      PROVE  \E q \in Stealers : pc[q] = "unlink" /\ pc'[q] = "open"
  <2>1. CASE Steal(p)
    BY <2>1 DEF Steal, OthersNeverUnlink
  <2>2. CASE ~Steal(p)
    BY <1>1, <2>2 DEF LoopStep, Acquire, FindLocked, CheckAge, Wake
  <2>3. QED
    BY <2>1, <2>2
\* A release removes the holder's own file.
<1>2. ASSUME NEW p \in Users, Release(p) PROVE FALSE
  BY <1>2 DEF Release, RemoveFile, LeaveFile, HolderOwnsFile, Holding
<1>3. ASSUME NEW p \in Users, Request(p) \/ Expire(p) \/ Crash(p) PROVE FALSE
  BY <1>3 DEF Request, Expire, Crash
<1>4. CASE Age \/ UNCHANGED lockVars
  BY <1>4 DEF Age, lockVars
<1>5. QED
  BY <1>1, <1>2, <1>3, <1>4 DEF Next

\* The first removal of a live process's file is always a steal: a release can
\* only repeat the damage (after its own file was stolen).
THEOREM FirstUsurperSteals == Spec => OnlyStealersUsurp
<1>1. LockInit => OthersNeverUnlink
  BY DEF LockInit, OthersNeverUnlink
<1>2. TypeOK /\ HolderOwnsFile /\ OthersNeverUnlink /\ [Next]_lockVars
        => [FirstUsurper]_lockVars
  BY FirstUsurperStep
<1>3. Spec => [][FirstUsurper]_lockVars
  BY <1>1, <1>2, OthersStep, TypeCorrect, HolderOwnsFileHolds, PTL DEF Spec
<1>4. QED
  BY <1>3 DEF OnlyStealersUsurp, FirstUsurper

\* The web service's own locking is a mutual exclusion, whatever the number of
\* services, their speed and their crashes: acquireFileLock removes only the
\* file it created.  Mixing in a process that steals takes this away.
THEOREM MutexWithoutStealing ==
  ASSUME Stealers = {} PROVE Spec => []MutualExclusion
<1>1. LockInit => ~usurped
  BY DEF LockInit
<1>2. ~usurped /\ [usurped' /\ ~usurped => \E p \in Stealers : pc[p] = "unlink" /\ pc'[p] = "open"]_lockVars
        => ~usurped'
  BY DEF lockVars
<1>3. ~usurped /\ SoundUntilUsurped => MutualExclusion
  BY DEF SoundUntilUsurped
<1>4. QED
  BY <1>1, <1>2, <1>3, FirstUsurperSteals, LockSound, PTL DEF Spec, OnlyStealersUsurp
=============================================================================
