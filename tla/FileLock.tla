------------------------------ MODULE FileLock ------------------------------
(***************************************************************************)
(* The cross-process lock on `<graph>.lock`: one regular file, created     *)
(* with the exclusive flag `wx` and removed when the holder is done.       *)
(*                                                                         *)
(* Two programs share it.  The MCP servers (Stealers) take it through      *)
(* withFileLock of file-lock.js, which removes a file it finds stale; the  *)
(* EA web service takes it through acquireFileLock of ea-web-service.js    *)
(* for the writes it makes itself, and never removes another's file.       *)
(*                                                                         *)
(* Every file-system call is one atomic step, and the processes interleave *)
(* between two calls: openSync, statSync and unlinkSync are separate       *)
(* steps, as they are for the operating system.                            *)
(***************************************************************************)
EXTENDS Naturals, FiniteSets

CONSTANTS
    Users,        \* the processes that take the lock
    Stealers,     \* those that take it through withFileLock
    NoFile,       \* the lock file does not exist
    Orphan,       \* the lock file was left by a process that crashed, or that
                  \* could not remove it
    SlowHolders,  \* can a live holder keep the lock longer than staleMs?
    FileErrors,   \* can unlinkSync fail on a file that is there (EPERM, EBUSY), as
                  \* on one that another program has open?
    MaxCrashes,   \* bound: crashes in a behaviour
    MaxUses       \* bound: lock requests of one process in a behaviour

ASSUME LockConstants ==
    /\ Stealers \subseteq Users
    /\ NoFile \notin Users
    /\ Orphan \notin Users
    /\ NoFile # Orphan
    /\ SlowHolders \in BOOLEAN
    /\ FileErrors \in BOOLEAN
    /\ MaxCrashes \in Nat
    /\ MaxUses \in Nat

VARIABLES
    lockFile,   \* who created the lock file that is there now
    aged,       \* its mtime is more than staleMs ago
    pc,         \* where each process is in the acquisition loop
    expired,    \* the process's deadline (now + waitMs) has passed
    usurped,    \* history: some process removed a file whose creator is alive
    crashes,    \* counts the crashes, for the bound
    uses        \* counts the requests of each process, for the bound

lockVars == <<lockFile, aged, pc, expired, usurped, crashes, uses>>

LockPc == {"idle", "open", "stat", "unlink", "sleep", "held"}

\* In the loop, not yet in the critical section.
Waiting(p) == pc[p] \in {"open", "stat", "unlink", "sleep"}

\* Between a successful openSync and the unlinkSync of the finally block.
Holding(p) == pc[p] = "held"

TypeOK ==
    /\ lockFile \in Users \union {NoFile, Orphan}
    /\ aged \in BOOLEAN
    /\ pc \in [Users -> LockPc]
    /\ expired \in [Users -> BOOLEAN]
    /\ usurped \in BOOLEAN
    /\ crashes \in 0..MaxCrashes
    /\ uses \in [Users -> 0..MaxUses]

LockInit ==
    /\ lockFile = NoFile
    /\ aged = FALSE
    /\ pc = [p \in Users |-> "idle"]
    /\ expired = [p \in Users |-> FALSE]
    /\ usurped = FALSE
    /\ crashes = 0
    /\ uses = [p \in Users |-> 0]

-----------------------------------------------------------------------------
(* Steps of a process                                                      *)

\* A call that needs the lock: the deadline is computed, the loop entered.
Request(p) ==
    /\ pc[p] = "idle"
    /\ uses[p] < MaxUses
    /\ uses' = [uses EXCEPT ![p] = @ + 1]
    /\ pc' = [pc EXCEPT ![p] = "open"]
    /\ expired' = [expired EXCEPT ![p] = FALSE]
    /\ UNCHANGED <<lockFile, aged, usurped, crashes>>

\* Mutant: the file is opened with `w`, which succeeds over an existing file.
AcquireOverwriting(p) ==
    /\ pc[p] = "open"
    /\ lockFile' = p
    /\ aged' = FALSE
    /\ pc' = [pc EXCEPT ![p] = "held"]
    /\ UNCHANGED <<expired, usurped, crashes, uses>>

\* openSync(lockPath, 'wx') creates the file.
Acquire(p) ==
    /\ pc[p] = "open"
    /\ lockFile = NoFile
    /\ lockFile' = p
    /\ aged' = FALSE
    /\ pc' = [pc EXCEPT ![p] = "held"]
    /\ UNCHANGED <<expired, usurped, crashes, uses>>

\* Mutant: the deadline is never tested.
SleepForever(p) == "sleep"

\* Mutant: a timed-out caller is left in a state nobody handles.
TimeoutUnhandled(p) == IF expired[p] THEN "failed" ELSE "sleep"

\* The deadline test of both loops, made only where a sleep would follow.
TimeoutOrSleep(p) == IF expired[p] THEN "idle" ELSE "sleep"

\* Mutant: the web service steals as the MCP servers do.
FindLockedAllSteal(p) ==
    /\ pc[p] = "open"
    /\ lockFile # NoFile
    /\ pc' = [pc EXCEPT ![p] = "stat"]
    /\ UNCHANGED <<lockFile, aged, expired, usurped, crashes, uses>>

\* openSync fails with EEXIST.  withFileLock goes on to look at the file's
\* age; acquireFileLock only tests its deadline.
FindLocked(p) ==
    /\ pc[p] = "open"
    /\ lockFile # NoFile
    /\ pc' = [pc EXCEPT ![p] = IF p \in Stealers THEN "stat"
                                                 ELSE TimeoutOrSleep(p)]
    /\ UNCHANGED <<lockFile, aged, expired, usurped, crashes, uses>>

\* Mutant: the age of the file is not looked at.
LooksStaleNeverAged == lockFile = NoFile

\* statSync(lockPath): a file that is gone by now makes the call throw, and
\* the catch clause takes that for a stale lock.
LooksStale == lockFile = NoFile \/ aged

CheckAge(p) ==
    /\ pc[p] = "stat"
    /\ pc' = [pc EXCEPT ![p] = IF LooksStale THEN "unlink"
                                             ELSE TimeoutOrSleep(p)]
    /\ UNCHANGED <<lockFile, aged, expired, usurped, crashes, uses>>

\* unlinkSync removes whatever file has the name now, or fails when none has.
\* It usurps when that file belongs to a process that is alive and not the
\* caller.
RemoveFile(p) ==
    /\ lockFile' = NoFile
    /\ aged' = FALSE
    /\ usurped' = (usurped \/ lockFile \in Users \ {p})

\* unlinkSync fails although the file is there, and the error is swallowed.  A
\* file its own creator cannot remove is nobody's from then on.
LeaveFile(p) ==
    /\ FileErrors
    /\ lockFile # NoFile
    /\ lockFile' = IF lockFile = p THEN Orphan ELSE lockFile
    /\ UNCHANGED <<aged, usurped>>

\* The steal; the loop continues at once, without sleeping and without testing
\* the deadline, whether or not the file is gone.
Steal(p) ==
    /\ pc[p] = "unlink"
    /\ RemoveFile(p) \/ LeaveFile(p)
    /\ pc' = [pc EXCEPT ![p] = "open"]
    /\ UNCHANGED <<expired, crashes, uses>>

Wake(p) ==
    /\ pc[p] = "sleep"
    /\ pc' = [pc EXCEPT ![p] = "open"]
    /\ UNCHANGED <<lockFile, aged, expired, usurped, crashes, uses>>

\* The finally block: close, then unlink, whoever owns the file by now.
Release(p) ==
    /\ Holding(p)
    /\ RemoveFile(p) \/ LeaveFile(p)
    /\ pc' = [pc EXCEPT ![p] = "idle"]
    /\ UNCHANGED <<expired, crashes, uses>>

-----------------------------------------------------------------------------
(* Time and failures                                                       *)

\* staleMs passes.  The mtime is never refreshed, so a holder that works
\* longer than that ages its own file.
Age ==
    /\ lockFile # NoFile
    /\ ~aged
    /\ lockFile = Orphan \/ SlowHolders
    /\ aged' = TRUE
    /\ UNCHANGED <<lockFile, pc, expired, usurped, crashes, uses>>

\* waitMs passes for a waiting process.
Expire(p) ==
    /\ Waiting(p)
    /\ ~expired[p]
    /\ expired' = [expired EXCEPT ![p] = TRUE]
    /\ UNCHANGED <<lockFile, aged, pc, usurped, crashes, uses>>

\* The process dies; the file it created, if it is still there, stays.  Its
\* successor starts idle.
Crash(p) ==
    /\ pc[p] # "idle"
    /\ crashes < MaxCrashes
    /\ crashes' = crashes + 1
    /\ lockFile' = IF lockFile = p THEN Orphan ELSE lockFile
    /\ pc' = [pc EXCEPT ![p] = "idle"]
    /\ UNCHANGED <<aged, expired, usurped, uses>>

-----------------------------------------------------------------------------
\* A step of the acquisition loop.
LoopStep(p) ==
    \/ Acquire(p)
    \/ FindLocked(p)
    \/ CheckAge(p)
    \/ Steal(p)
    \/ Wake(p)

Next ==
    \/ \E p \in Users :
        \/ Request(p)
        \/ LoopStep(p)
        \/ Release(p)
        \/ Expire(p)
        \/ Crash(p)
    \/ Age

Spec == LockInit /\ [][Next]_lockVars

\* A running process keeps executing its loop and its action; clocks advance.
\* Nothing makes a process request the lock, and nothing makes it crash.
FairSpec ==
    /\ Spec
    /\ \A p \in Users : /\ WF_lockVars(LoopStep(p))
                        /\ WF_lockVars(Release(p))
                        /\ WF_lockVars(Expire(p))
    /\ WF_lockVars(Age)

-----------------------------------------------------------------------------
(* Properties                                                              *)

\* "One holder at a time across OS processes" (file-lock.js:3).
MutualExclusion == \A p, q \in Users : Holding(p) /\ Holding(q) => p = q

\* The lock is sound up to removals of a live process's file: as long as no
\* unlinkSync has hit one, the file that is there is the holder's, so there is
\* one holder at most and no other release can free the lock under it.
SoundUntilUsurped ==
    ~usurped => /\ MutualExclusion
                /\ \A p \in Users : Holding(p) <=> lockFile = p

\* A process that does not steal never removes a live process's file as long
\* as its own was not removed before (acquireFileLock's release).
OnlyStealersUsurp ==
    [][usurped' /\ ~usurped => \E p \in Stealers : pc[p] = "unlink" /\ pc'[p] = "open"]_lockVars

\* A steal that leaves a file in the way, so that the loop starts over.
InVain(p) == Steal(p) /\ lockFile' # NoFile

\* "raced with another stealer" (file-lock.js:44) is what the code takes a failed
\* unlinkSync for.  A file that can never be removed is stolen in vain for ever.
SpinsInVain(p) == []<><<InVain(p)>>_lockVars

\* Both loops end: a caller gets the lock, or its timeout error, unless it spends
\* the rest of its life in steals that remove nothing: the deadline is tested only
\* on the path that sleeps.
WaitEnds == \A p \in Users : SpinsInVain(p) \/ (Waiting(p) ~> ~Waiting(p))

\* What waitMs and timeoutError promise.  It does not hold with FileErrors.
EveryWaitEnds == \A p \in Users : Waiting(p) ~> ~Waiting(p)

\* The file of a crashed holder, or one its holder could not remove, does not
\* block forever (file-lock.js:6-7): once it is old enough, a process that steals
\* and is about to try has it removed, unless that process crashes in turn or
\* its unlinkSync never succeeds.
OrphanIsRemoved ==
    \A p \in Stealers :
        \/ SpinsInVain(p)
        \/ (lockFile = Orphan /\ aged /\ pc[p] = "open" /\ crashes = MaxCrashes)
               ~> lockFile # Orphan
=============================================================================
