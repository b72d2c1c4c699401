----------------------- MODULE AlignmentRunnerProofs -----------------------
(***************************************************************************)
(* One alignment at a time, and no refusal without a reason, for every     *)
(* number of servers and queries and for all limits that fit (LimitsFit),  *)
(* until a steal has removed a living harness's fresh file or one has      *)
(* worked for longer than the limits leave (excused).                      *)
(*                                                                         *)
(* The lock alone does not give the first: a lock may be taken from a      *)
(* living holder when it is old enough.  The induction therefore bounds    *)
(* the age of a living holder's lock by the time it has worked and the     *)
(* time that the harness started by its check has waited (Fresh).          *)
(*                                                                         *)
(* The second rests on it.  What a query finds when it reads the record    *)
(* again is the work of the harness it waited for, or of a later one, and  *)
(* with one harness at a time a record of the graph's version stays one    *)
(* until somebody edits, fails or begins anew (Good, Sound).               *)
(***************************************************************************)
EXTENDS AlignmentRunner, TLAPS

JobRecord == [pc : JobPc, waited : 0..WaitLimit, worked : 0..MaxWork,
              ok : BOOLEAN, parent : Jobs \union {Free},
              version : 0..MaxEvents, disturbed : BOOLEAN]

QueryRecord == [pc : QueryPc, server : Servers \union {Free},
                version : 0..MaxEvents, disturbed : BOOLEAN]

\* A harness process is well-formed when it is new, and after every step.
LEMMA NoJobType ==
    /\ \A pc \in JobPc, ok \in BOOLEAN, p \in Jobs \union {Free}, d \in BOOLEAN :
          Process(pc, ok, p, d) \in JobRecord
    /\ NoJob \in JobRecord
    /\ \A p \in Jobs \union {Free} : Started(p) \in JobRecord
  <1>1. 0 \in 0..WaitLimit /\ 0 \in 0..MaxWork /\ 0 \in 0..MaxEvents
    BY RunnerConstants
  <1>2. \A pc \in JobPc, ok \in BOOLEAN, p \in Jobs \union {Free}, d \in BOOLEAN :
           Process(pc, ok, p, d) \in JobRecord
    BY <1>1 DEF Process, JobRecord
  <1> QED
    BY <1>2 DEF NoJob, Started, JobPc

\* The process that exits is well-formed and works no more; the others are
\* as they were.
Exited(jobs, j) ==
    /\ jobs \in [Jobs -> JobRecord]
    /\ jobs[j].pc \in {"free", "over"}
    /\ jobs[j].pc = "free" => jobs[j] = NoJob
    /\ \A i \in Jobs \ {j} : jobs[i] = job[i]

LEMMA ExitType ==
    ASSUME job \in [Jobs -> JobRecord], NEW j \in Jobs
    PROVE  Exited(Exit(j, TRUE), j) /\ Exited(Exit(j, FALSE), j)
  <1>0. job[j].disturbed \in BOOLEAN /\ "over" \in JobPc
    BY DEF JobRecord, JobPc
  <1>1. ASSUME NEW new \in JobRecord, new = NoJob \/ new.pc = "over"
        PROVE  Exited([job EXCEPT ![j] = new], j)
    BY <1>1 DEF Exited, NoJob, Process
  <1>2. \A ok \in BOOLEAN, d \in BOOLEAN :
           /\ Process("over", ok, Free, d) \in JobRecord
           /\ Process("over", ok, Free, d).pc = "over"
    BY <1>0, NoJobType DEF Process
  <1>3. CASE j = Nested
    <2>1. Exit(j, TRUE) = [job EXCEPT ![j] = NoJob] /\ Exit(j, FALSE) = [job EXCEPT ![j] = NoJob]
      BY <1>3, RunnerConstants DEF Exit
    <2> QED
      BY <2>1, <1>1, NoJobType
  <1>4. CASE j # Nested /\ j = User
    <2> DEFINE new == Process("over", TRUE, Free, FALSE)
    <2>1. Exit(j, TRUE) = [job EXCEPT ![j] = new] /\ Exit(j, FALSE) = [job EXCEPT ![j] = new]
      BY <1>4 DEF Exit
    <2>2. new \in JobRecord /\ new.pc = "over"
      BY <1>2
    <2> HIDE DEF new
    <2> QED
      BY <2>1, <2>2, <1>1
  <1>5. CASE j # Nested /\ j # User
    <2> DEFINE good == Process("over", TRUE, Free, job[j].disturbed)
               bad == Process("over", FALSE, Free, job[j].disturbed)
    <2>1. Exit(j, TRUE) = [job EXCEPT ![j] = good] /\ Exit(j, FALSE) = [job EXCEPT ![j] = bad]
      BY <1>5 DEF Exit
    <2>2. good \in JobRecord /\ good.pc = "over" /\ bad \in JobRecord /\ bad.pc = "over"
      BY <1>0, <1>2
    <2> HIDE DEF good, bad
    <2> QED
      BY <2>1, <2>2, <1>1
  <1> QED
    BY <1>3, <1>4, <1>5

\* Marking processes as disturbed changes nothing else of them.
LEMMA DisturbedType ==
    ASSUME NEW jobs \in [Jobs -> JobRecord]
    PROVE  /\ Disturbed(jobs) \in [Jobs -> JobRecord]
           /\ \A i \in Jobs : /\ Disturbed(jobs)[i].pc = jobs[i].pc
                              /\ Disturbed(jobs)[i].waited = jobs[i].waited
                              /\ Disturbed(jobs)[i].worked = jobs[i].worked
                              /\ Disturbed(jobs)[i].parent = jobs[i].parent
                              /\ (jobs[i].pc = "free" => Disturbed(jobs)[i] = jobs[i])
  <1>1. \A i \in Jobs : [jobs[i] EXCEPT !.disturbed = @ \/ (i \in Servers /\ jobs[i].pc # "free")]
                           \in JobRecord
    BY DEF JobRecord
  <1>2. ASSUME NEW i \in Jobs, jobs[i].pc = "free"
        PROVE  [jobs[i] EXCEPT !.disturbed = @ \/ (i \in Servers /\ jobs[i].pc # "free")] = jobs[i]
    BY <1>2 DEF JobRecord
  <1> QED
    BY <1>1, <1>2 DEF Disturbed, JobRecord

\* Replacing one process by one that is not free.
LEMMA OneJobType ==
    ASSUME job \in [Jobs -> JobRecord],
           \A j \in Jobs : job[j].pc = "free" => job[j] = NoJob,
           NEW j \in Jobs, NEW new \in JobRecord, new.pc # "free",
           job' = [job EXCEPT ![j] = new]
    PROVE  job' \in [Jobs -> JobRecord] /\ \A i \in Jobs : job'[i].pc = "free" => job'[i] = NoJob
  OBVIOUS

LEMMA QueriesDisturbed ==
    ASSUME query \in [Queries -> QueryRecord], DisturbQueries
    PROVE  query' \in [Queries -> QueryRecord]
  BY DEF DisturbQueries, QueryRecord

LEMMA AnswerType ==
    NoQuery \in QueryRecord /\ \A pc \in QueryPc : Answer(pc) \in QueryRecord
  <1>1. \A pc \in QueryPc : Answer(pc) \in QueryRecord
    BY RunnerConstants DEF Answer, QueryRecord
  <1> QED
    BY <1>1 DEF NoQuery, QueryPc

-----------------------------------------------------------------------------

\* The type invariant in terms of the two kinds of records.
TypeInv ==
    /\ version \in 0..MaxEvents
    /\ readiness \in [state : States, version : 0..MaxEvents]
    /\ lock \in [holder : Jobs \union {Free, Dead}, age : 0..(StaleLimit + 1)]
    /\ job \in [Jobs -> JobRecord]
    /\ lock.holder = Free => lock.age = 0
    /\ \A j \in Jobs : job[j].pc = "free" => job[j] = NoJob
    /\ up \subseteq Servers
    /\ query \in [Queries -> QueryRecord]
    /\ excused \in BOOLEAN
    /\ events \in version..MaxEvents

LEMMA TypeParts == TypeInv <=> TypeOK
  BY DEF TypeInv, TypeOK, JobRecord, QueryRecord

LEMMA TypeInit == Init => TypeInv
  <1> SUFFICES ASSUME Init PROVE TypeInv
    OBVIOUS
  <1>1. 0 \in 0..MaxEvents /\ 0 \in 0..(StaleLimit + 1)
    BY RunnerConstants
  <1>2. job \in [Jobs -> JobRecord] /\ query \in [Queries -> QueryRecord]
    BY NoJobType, AnswerType DEF Init
  <1>3. readiness \in [state : States, version : 0..MaxEvents]
    BY <1>1 DEF Init
  <1>4. lock \in [holder : Jobs \union {Free, Dead}, age : 0..(StaleLimit + 1)] /\ lock.age = 0
    BY <1>1 DEF Init, NoLock
  <1>5. excused \in BOOLEAN
    BY DEF Init
  <1> QED
    BY <1>1, <1>2, <1>3, <1>4, <1>5, RunnerConstants DEF Init, TypeInv

\* The steps of the lock's loop that neither obtain it nor give up.
JobLoops(j) == JobFindLocked(j) \/ JobFindStale(j) \/ JobSleep(j) \/ JobSteal(j)

LEMMA LoopStep ==
    ASSUME TypeInv, NEW j \in Jobs, JobLoops(j)
    PROVE  /\ Waits(j) /\ \E pc \in {"want", "look", "steal"} : job' = [job EXCEPT ![j].pc = pc]
           /\ lock' = lock \/ lock' = NoLock
           /\ lock' # lock => excused' = (excused \/ (lock.holder \in Jobs /\ ~Stale))
           /\ excused' \in BOOLEAN
           /\ UNCHANGED <<version, readiness, up, query, events>>
  <1>1. CASE JobFindLocked(j) \/ JobFindStale(j) \/ JobSleep(j)
    BY <1>1 DEF JobFindLocked, JobFindStale, JobSleep, JobGoes, Waits, TypeInv
  <1>2. CASE JobSteal(j)
    <2>1. excused' \in BOOLEAN
      BY <1>2 DEF JobSteal, TypeInv
    <2> QED
      BY <1>2, <2>1 DEF JobSteal, Waits
  <1> QED
    BY <1>1, <1>2 DEF JobLoops

LEMMA UnlockType ==
    ASSUME TypeInv, NEW j \in Jobs, Unlock(j)
    PROVE  /\ lock' \in [holder : Jobs \union {Free, Dead}, age : 0..(StaleLimit + 1)]
           /\ lock'.holder = Free => lock'.age = 0
  <1>1. 0 \in 0..(StaleLimit + 1) /\ Dead # Free
    BY RunnerConstants
  <1> QED
    BY <1>1 DEF TypeInv, Unlock, NoLock

\* What the start of a check makes of the processes.
LEMMA VerifyType ==
    ASSUME TypeInv, NEW j \in Jobs, JobVerify(j)
    PROVE  /\ job' \in [Jobs -> JobRecord] /\ \A i \in Jobs : job'[i].pc = "free" => job'[i] = NoJob
           /\ job'[j].pc = "verify" /\ job'[j].worked = job[j].worked
           /\ job'[j].disturbed = job[j].disturbed
           /\ \A i \in Jobs \ {j, Nested} : job'[i] = job[i]
           /\ j # Nested => \/ ~Alive(Nested) /\ job'[Nested] = Started(j)
                            \/ \E p \in {job[Nested].parent, Free} :
                                  job'[Nested] = [job[Nested] EXCEPT !.parent = p]
           /\ j = Nested => job'[j].parent \in {job[j].parent, Free}
  <1>0. Nested \in Jobs /\ job \in [Jobs -> JobRecord] /\ "verify" \in JobPc /\ job[j].pc = "boot"
    BY DEF Jobs, TypeInv, JobPc, JobVerify
  <1> DEFINE new == [job[j] EXCEPT !.pc = "verify"]
             older(p) == [job[Nested] EXCEPT !.parent = p]
             ownOlder(p) == [new EXCEPT !.parent = p]
  <1>1. /\ new \in JobRecord /\ new.pc = "verify"
        /\ new.worked = job[j].worked /\ new.disturbed = job[j].disturbed
    BY <1>0 DEF JobRecord
  <1>t. \A i \in Jobs : job[i].pc = "free" => job[i] = NoJob
    BY DEF TypeInv
  <1>2. Started(j) \in JobRecord /\ Started(j).pc # "free"
    BY NoJobType DEF Started, Process
  <1>3. \/ /\ ~Alive(Nested)
           /\ job' = [job EXCEPT ![j].pc = "verify", ![Nested] = Started(j)]
        \/ job' = [job EXCEPT ![j].pc = "verify", ![Nested].parent = IF @ = j THEN Free ELSE @]
    BY DEF JobVerify
  <1>4. CASE /\ ~Alive(Nested)
             /\ job' = [job EXCEPT ![j].pc = "verify", ![Nested] = Started(j)]
    <2>1. j # Nested
      BY <1>0, <1>4 DEF Alive, Aligning
    <2>2. job' = [i \in Jobs |-> IF i = j THEN new ELSE IF i = Nested THEN Started(j) ELSE job[i]]
      BY <1>0, <1>4, <2>1
    <2> HIDE DEF new
    <2>3. /\ job' \in [Jobs -> JobRecord] /\ job'[j] = new /\ job'[Nested] = Started(j)
          /\ \A i \in Jobs \ {j, Nested} : job'[i] = job[i]
      BY <1>0, <1>1, <1>2, <2>1, <2>2
    <2> QED
      BY <1>1, <1>2, <1>4, <1>t, <2>1, <2>3
  <1>5. CASE job' = [job EXCEPT ![j].pc = "verify", ![Nested].parent = IF @ = j THEN Free ELSE @]
    <2>1. CASE j # Nested
      <3>1. PICK p \in {job[Nested].parent, Free} :
              job' = [i \in Jobs |-> IF i = j THEN new ELSE IF i = Nested THEN older(p) ELSE job[i]]
        BY <1>0, <1>5, <2>1
      <3>2. older(p) \in JobRecord
        BY <1>0, <3>1 DEF JobRecord
      <3>3. older(p).pc = "free" => older(p) = NoJob
        <4> SUFFICES ASSUME job[Nested].pc = "free" PROVE older(p) = NoJob
          BY <1>0 DEF JobRecord
        <4>1. job[Nested] = NoJob
          BY <1>0, <1>t
        <4>2. p = Free /\ job[Nested].parent = Free
          BY <3>1, <4>1 DEF NoJob, Process
        <4>3. \A r \in JobRecord : [r EXCEPT !.parent = r.parent] = r
          BY DEF JobRecord
        <4>4. [job[Nested] EXCEPT !.parent = Free] = job[Nested]
          BY <1>0, <4>2, <4>3
        <4> QED
          BY <4>1, <4>2, <4>4
      <3> DEFINE old == older(p)
      <3>4. old = [job[Nested] EXCEPT !.parent = p]
        OBVIOUS
      <3> HIDE DEF new, old
      <3>5. /\ job' \in [Jobs -> JobRecord] /\ job'[j] = new /\ job'[Nested] = old
            /\ \A i \in Jobs \ {j, Nested} : job'[i] = job[i]
        BY <1>0, <1>1, <2>1, <3>1, <3>2 DEF old
      <3>6. old.pc = "free" => old = NoJob
        BY <3>3 DEF old
      <3> QED
        BY <1>1, <1>t, <2>1, <3>1, <3>4, <3>5, <3>6
    <2>2. CASE j = Nested
      <3>1. PICK p \in {job[Nested].parent, Free} :
              job' = [i \in Jobs |-> IF i = j THEN ownOlder(p) ELSE job[i]]
        BY <1>0, <1>5, <2>2
      <3>2. ownOlder(p) \in JobRecord /\ ownOlder(p).pc = "verify" /\ ownOlder(p).parent = p
            /\ ownOlder(p).worked = job[j].worked /\ ownOlder(p).disturbed = job[j].disturbed
        BY <1>0, <1>1, <2>2, <3>1 DEF JobRecord
      <3> QED
        BY <1>0, <2>2, <3>1, <3>2 DEF TypeInv
    <2> QED
      BY <2>1, <2>2
  <1> QED
    BY <1>3, <1>4, <1>5

\* Every step keeps the types.
LEMMA TypeStep == TypeInv /\ [Next]_vars => TypeInv'
  <1> SUFFICES ASSUME TypeInv, [Next]_vars PROVE TypeInv'
    OBVIOUS
  <1> USE DEF TypeInv
  <1>0. /\ "over" \in JobPc /\ "boot" \in JobPc /\ "verify" \in JobPc /\ "work" \in JobPc
        /\ {"want", "look", "steal"} \subseteq JobPc
        /\ Nested \in Jobs /\ User \in Jobs /\ Servers \subseteq Jobs
        /\ 0 \in 0..(StaleLimit + 1) /\ 0 \in 0..WaitLimit
    BY RunnerConstants DEF JobPc, Jobs
  <1>1. ASSUME NEW s \in Servers, ServerStart(s) PROVE TypeInv'
    BY <1>0, <1>1, NoJobType DEF ServerStart, Started, Process
  <1>2. ASSUME NEW s \in Servers, ServerSeesExit(s) PROVE TypeInv'
    <2>1. job' \in [Jobs -> JobRecord] /\ \A j \in Jobs : job'[j].pc = "free" => job'[j] = NoJob
      BY <1>0, <1>2, NoJobType DEF ServerSeesExit
    <2>2. query' \in [Queries -> QueryRecord]
      <3>1. ASSUME NEW q \in Queries
            PROVE  (IF query[q].pc = "wait" /\ query[q].server = s
                    THEN IF job[s].ok THEN [query[q] EXCEPT !.pc = "again"]
                         ELSE Answer("refused")
                    ELSE query[q]) \in QueryRecord
        BY AnswerType DEF QueryRecord, QueryPc
      <3> QED
        BY <1>2, <3>1 DEF ServerSeesExit
    <2> QED
      BY <1>2, <2>1, <2>2 DEF ServerSeesExit
  <1>3. CASE UserStart
    BY <1>0, <1>3, NoJobType DEF UserStart, Started, Process
  <1>4. ASSUME NEW q \in Queries, QueryStart(q) PROVE TypeInv'
    <2>1. query' \in [Queries -> QueryRecord]
      BY <1>4 DEF QueryStart, QueryRecord, QueryPc
    <2> QED
      BY <1>4, <2>1 DEF QueryStart
  <1>5. ASSUME NEW q \in Queries, QueryRead(q) PROVE TypeInv'
    <2>1. query' \in [Queries -> QueryRecord]
      BY <1>5, AnswerType DEF QueryRead, QueryRecord, QueryPc
    <2> QED
      BY <1>5, <2>1 DEF QueryRead
  <1>6. ASSUME NEW q \in Queries, QueryAlign(q) PROVE TypeInv'
    <2> DEFINE s == query[q].server
    <2> DEFINE new == [query[q] EXCEPT !.pc = "wait", !.disturbed = @ \/ job[s].disturbed]
    <2>0. query' = [query EXCEPT ![q] = new]
      BY <1>6 DEF QueryAlign, QueryRecord
    <2>a. (query[q].disturbed \/ job[s].disturbed) \in BOOLEAN
      OBVIOUS
    <2>b. new \in QueryRecord
      BY <2>a DEF QueryRecord, QueryPc
    <2> HIDE DEF new
    <2>1. query' \in [Queries -> QueryRecord]
      BY <2>0, <2>b
    <2> USE DEF new
    <2>2. job' \in [Jobs -> JobRecord]
      BY <1>6, NoJobType DEF QueryAlign
    <2>3. \A j \in Jobs : job'[j].pc = "free" => job'[j] = NoJob
      BY <1>6 DEF QueryAlign, Started, Process
    <2> QED
      BY <1>6, <2>1, <2>2, <2>3 DEF QueryAlign
  <1>7. ASSUME NEW q \in Queries, QueryAgain(q) PROVE TypeInv'
    <2>1. query' \in [Queries -> QueryRecord]
      BY <1>7, AnswerType DEF QueryAgain, QueryRecord, QueryPc
    <2> QED
      BY <1>7, <2>1 DEF QueryAgain
  <1>8. ASSUME NEW j \in Jobs, JobLock(j) PROVE TypeInv'
    <2> DEFINE new == [job[j] EXCEPT !.pc = "boot", !.waited = 0]
    <2>p. job[j] \in JobRecord
      OBVIOUS
    <2>0. new \in JobRecord /\ new.pc # "free"
      BY <1>0, <2>p DEF JobRecord
    <2>a. job' = [job EXCEPT ![j] = new]
      BY <1>8 DEF JobLock, JobRecord
    <2>1. job' \in [Jobs -> JobRecord] /\ \A i \in Jobs : job'[i].pc = "free" => job'[i] = NoJob
      <3> HIDE DEF new
      <3> QED
        BY <2>0, <2>a, OneJobType
    <2> QED
      BY <1>0, <1>8, <2>1, RunnerConstants DEF JobLock
  <1>8a. ASSUME NEW j \in Jobs, JobLoops(j) PROVE TypeInv'
    <2>1. PICK pc \in {"want", "look", "steal"} : job' = [job EXCEPT ![j].pc = pc]
      BY <1>8a, LoopStep
    <2> DEFINE new == [job[j] EXCEPT !.pc = pc]
    <2>0. new \in JobRecord /\ new.pc # "free"
      BY <1>0 DEF JobRecord
    <2>a. job' = [job EXCEPT ![j] = new]
      BY <2>1
    <2>2. job' \in [Jobs -> JobRecord] /\ \A i \in Jobs : job'[i].pc = "free" => job'[i] = NoJob
      <3> HIDE DEF new
      <3> QED
        BY <2>0, <2>a, OneJobType
    <2>3. /\ lock' \in [holder : Jobs \union {Free, Dead}, age : 0..(StaleLimit + 1)]
          /\ lock'.holder = Free => lock'.age = 0
      <3>1. lock' = lock \/ lock' = NoLock
        BY <1>8a, LoopStep
      <3> QED
        BY <1>0, <3>1 DEF NoLock
    <2>4. excused' \in BOOLEAN
      BY <1>8a, LoopStep
    <2>5. UNCHANGED <<version, readiness, up, query, events>>
      BY <1>8a, LoopStep
    <2> QED
      BY <2>2, <2>3, <2>4, <2>5
  <1>9. ASSUME NEW j \in Jobs, JobLockTimeout(j) PROVE TypeInv'
    <2>e. Exited(job', j)
      BY <1>9, ExitType DEF JobLockTimeout
    <2>1. job' \in [Jobs -> JobRecord] /\ \A i \in Jobs : job'[i].pc = "free" => job'[i] = NoJob
      BY <2>e DEF Exited
    <2> QED
      BY <1>9, <2>1 DEF JobLockTimeout
  <1>10. ASSUME NEW j \in Jobs, JobVerify(j) PROVE TypeInv'
    <2>1. job' \in [Jobs -> JobRecord] /\ \A i \in Jobs : job'[i].pc = "free" => job'[i] = NoJob
      BY <1>0, <1>10, VerifyType
    <2> QED
      BY <1>10, <2>1 DEF JobVerify
  <1>11. ASSUME NEW j \in Jobs, JobInvalidate(j) PROVE TypeInv'
    <2> DEFINE new == [job[j] EXCEPT !.pc = "work", !.version = version]
    <2>0. new \in JobRecord /\ new.pc # "free"
      BY <1>0 DEF JobRecord
    <2>a. job' = [job EXCEPT ![j] = new]
      BY <1>11 DEF JobInvalidate, JobRecord
    <2>1. job' \in [Jobs -> JobRecord] /\ \A i \in Jobs : job'[i].pc = "free" => job'[i] = NoJob
      <3> HIDE DEF new
      <3> QED
        BY <2>0, <2>a, OneJobType
    <2> QED
      BY <1>11, <2>1 DEF JobInvalidate, States
  <1>12. ASSUME NEW j \in Jobs, JobDone(j) PROVE TypeInv'
    <2>1. job[j].version \in 0..MaxEvents
      BY DEF JobRecord
    <2>2. job' \in [Jobs -> JobRecord] /\ \A i \in Jobs : job'[i].pc = "free" => job'[i] = NoJob
      BY <1>12, ExitType DEF JobDone, Exited
    <2>3. /\ lock' \in [holder : Jobs \union {Free, Dead}, age : 0..(StaleLimit + 1)]
          /\ lock'.holder = Free => lock'.age = 0
      BY <1>12, UnlockType DEF JobDone
    <2>4. readiness' \in [state : States, version : 0..MaxEvents]
      BY <1>12, <2>1 DEF JobDone, States
    <2> QED
      BY <1>12, <2>2, <2>3, <2>4 DEF JobDone
  <1>13. ASSUME NEW j \in Jobs, JobFail(j) PROVE TypeInv'
    <2>1. job[j].version \in 0..MaxEvents
      BY DEF JobRecord
    <2> DEFINE exited == Exit(j, FALSE)
    <2>e. Exited(exited, j)
      BY ExitType
    <2>0. exited \in [Jobs -> JobRecord] /\ \A i \in Jobs : exited[i].pc = "free" => exited[i] = NoJob
      <3> HIDE DEF exited
      <3> QED
        BY <2>e DEF Exited
    <2>a. job' = Disturbed(exited)
      BY <1>13 DEF JobFail
    <2> HIDE DEF exited
    <2>2. job' \in [Jobs -> JobRecord] /\ \A i \in Jobs : job'[i].pc = "free" => job'[i] = NoJob
      BY <2>0, <2>a, DisturbedType
    <2>3. query' \in [Queries -> QueryRecord] /\ events' \in version..MaxEvents
      BY <1>13, QueriesDisturbed, RunnerConstants DEF JobFail, Fault, CountEvent
    <2>4. readiness' \in [state : States, version : 0..MaxEvents]
      BY <1>13, <2>1 DEF JobFail, States
    <2>5. /\ lock' \in [holder : Jobs \union {Free, Dead}, age : 0..(StaleLimit + 1)]
          /\ lock'.holder = Free => lock'.age = 0
      BY <1>13, UnlockType DEF JobFail
    <2>6. UNCHANGED <<version, up, excused>>
      BY <1>13 DEF JobFail
    <2> QED
      BY <2>2, <2>3, <2>4, <2>5, <2>6
  <1>14. ASSUME NEW j \in Jobs, JobKilled(j) PROVE TypeInv'
    <2> DEFINE exited == Exit(j, FALSE)
    <2>e. Exited(exited, j)
      BY ExitType
    <2>0. exited \in [Jobs -> JobRecord] /\ \A i \in Jobs : exited[i].pc = "free" => exited[i] = NoJob
      <3> HIDE DEF exited
      <3> QED
        BY <2>e DEF Exited
    <2>a. job' = Disturbed(exited)
      BY <1>14 DEF JobKilled
    <2> HIDE DEF exited
    <2>2. job' \in [Jobs -> JobRecord] /\ \A i \in Jobs : job'[i].pc = "free" => job'[i] = NoJob
      BY <2>0, <2>a, DisturbedType
    <2>3. query' \in [Queries -> QueryRecord] /\ events' \in version..MaxEvents
      BY <1>14, QueriesDisturbed, RunnerConstants DEF JobKilled, Fault, CountEvent
    <2>4. lock' \in [holder : Jobs \union {Free, Dead}, age : 0..(StaleLimit + 1)]
          /\ (lock'.holder = Free => lock'.age = 0)
      BY <1>14, RunnerConstants DEF JobKilled
    <2> QED
      BY <1>14, <2>2, <2>3, <2>4 DEF JobKilled
  <1>15. CASE GraphChange
    <2>1. query' \in [Queries -> QueryRecord]
      BY <1>15, QueriesDisturbed DEF GraphChange
    <2>2. job' \in [Jobs -> JobRecord] /\ \A i \in Jobs : job'[i].pc = "free" => job'[i] = NoJob
      BY <1>15, DisturbedType DEF GraphChange
    <2>3. /\ version' \in 0..MaxEvents /\ events' \in version'..MaxEvents
          /\ readiness' \in [state : States, version : 0..MaxEvents]
      BY <1>15, RunnerConstants DEF GraphChange, CountEvent, States
    <2> QED
      BY <1>15, <2>1, <2>2, <2>3 DEF GraphChange
  <1>16. CASE Tick
    <2>1. lock' \in [holder : Jobs \union {Free, Dead}, age : 0..(StaleLimit + 1)]
          /\ (lock'.holder = Free => lock'.age = 0)
      BY <1>16, RunnerConstants DEF Tick, Stale
    <2>2. ASSUME NEW j \in Jobs
          PROVE  job'[j] \in JobRecord /\ (job'[j].pc = "free" => job'[j] = NoJob)
      <3>1. CASE Waits(j) /\ job[j].waited < WaitLimit
        <4>1. job'[j] = [job[j] EXCEPT !.waited = @ + 1]
          BY <1>16, <3>1 DEF Tick, Waits
        <4> QED
          BY <3>1, <4>1, RunnerConstants DEF JobRecord, Waits
      <3>2. CASE job[j].pc \in {"boot", "work"}
        <4>1. job'[j] = [job[j] EXCEPT !.worked = @ + 1] /\ job[j].worked < MaxWork
          BY <1>16, <3>2 DEF Tick, Idle, Waits
        <4> QED
          BY <3>2, <4>1, RunnerConstants DEF JobRecord
      <3>3. CASE ~(Waits(j) /\ job[j].waited < WaitLimit) /\ job[j].pc \notin {"boot", "work"}
        BY <1>16, <3>3 DEF Tick
      <3> QED
        BY <3>1, <3>2, <3>3
    <2>3. job' \in [Jobs -> JobRecord]
      BY <1>16, <2>2 DEF Tick
    <2>4. excused' \in BOOLEAN
      BY <1>16 DEF Tick
    <2> QED
      BY <1>16, <2>1, <2>2, <2>3, <2>4 DEF Tick
  <1>17. CASE UNCHANGED vars
    BY <1>17 DEF vars
  <1> QED
    BY <1>1, <1>2, <1>3, <1>4, <1>5, <1>6, <1>7, <1>8, <1>8a, <1>9, <1>10, <1>11, <1>12, <1>13,
       <1>14, <1>15, <1>16, <1>17 DEF Next, QueryStep, JobStep, JobWaitStep, JobLoops

\* In every reachable state the variables are of their types.
THEOREM TypeCorrect == Spec => []TypeOK
  <1>1. Spec => []TypeInv
    BY TypeInit, TypeStep, PTL DEF Spec
  <1> QED
    BY <1>1, TypeParts, PTL

-----------------------------------------------------------------------------

\* Who works under the lock is its holder.
Holds == \A j \in Jobs : Aligning(j) => lock.holder = j

\* Its lock is not older than it has worked and waited since.
Fresh == \A j \in Jobs :
    /\ job[j].pc = "boot" => lock.age <= job[j].worked
    /\ job[j].pc = "verify" /\ PipeOpen(j) => lock.age <= job[j].worked + job[Nested].waited
    /\ job[j].pc \in {"verify", "work"} => lock.age <= job[j].worked + WaitLimit

\* No check starts its own harness.
NotItsParent == job[Nested].parent # Nested

\* Nobody has worked for longer than the limits leave.
InTime == \A j \in Jobs : job[j].worked + WaitLimit <= StaleLimit

\* What holds as long as nothing is excused.
IInv == TypeInv /\ Holds /\ Fresh /\ InTime /\ NotItsParent

\* The numbers of a process are within its limits.
LEMMA JobNumbers ==
    ASSUME TypeInv, NEW j \in Jobs
    PROVE  /\ job[j].waited \in Nat /\ job[j].waited <= WaitLimit
           /\ job[j].worked \in Nat /\ job[j].worked <= MaxWork
           /\ lock.age \in Nat
           /\ WaitLimit \in Nat /\ StaleLimit \in Nat
  <1>1. job[j] \in JobRecord
    BY DEF TypeInv
  <1>2. job[j].waited \in 0..WaitLimit /\ job[j].worked \in 0..MaxWork
    BY <1>1 DEF JobRecord
  <1>3. lock.age \in 0..(StaleLimit + 1)
    BY DEF TypeInv
  <1> QED
    BY <1>2, <1>3, RunnerConstants

\* A lock that can be had has no living holder.
LEMMA NobodyAligns ==
    ASSUME IInv, lock.holder = Free \/ Stale, NEW j \in Jobs
    PROVE  ~Aligning(j)
  <1> SUFFICES ASSUME Aligning(j) PROVE FALSE
    OBVIOUS
  <1>1. lock.holder = j /\ j # Free
    BY RunnerConstants DEF IInv, Holds
  <1>2. lock.age <= job[j].worked + WaitLimit
    <2>1. job[j].pc = "boot" => lock.age <= job[j].worked
      BY DEF IInv, Fresh
    <2>2. job[j].pc \in {"verify", "work"} => lock.age <= job[j].worked + WaitLimit
      BY DEF IInv, Fresh
    <2> QED
      BY <2>1, <2>2, JobNumbers DEF Aligning, IInv
  <1>3. lock.age <= StaleLimit
    BY <1>2, JobNumbers DEF IInv, InTime
  <1> QED
    BY <1>1, <1>3, JobNumbers DEF Stale, IInv

\* A step after which nobody works but who worked before, under the same
\* lock and with the same clocks, keeps the invariant.
LEMMA Calm ==
    ASSUME IInv, lock' = lock,
           \A j \in Jobs : job'[j].pc \in {"boot", "verify", "work"} =>
              /\ job'[j].pc = job[j].pc
              /\ job'[j].worked = job[j].worked,
           Alive(Nested)' => Alive(Nested) /\ job'[Nested].waited = job[Nested].waited
                                           /\ job'[Nested].parent = job[Nested].parent
    PROVE  Holds' /\ Fresh'
  <1>1. Holds'
    BY DEF IInv, Holds, Aligning
  <1>2. \A j \in Jobs : PipeOpen(j)' => PipeOpen(j)
    BY DEF PipeOpen
  <1>3. \A j \in Jobs : PipeOpen(j)' => job'[Nested].waited = job[Nested].waited
    BY DEF PipeOpen
  <1> QED
    BY <1>1, <1>2, <1>3 DEF IInv, Fresh

\* After the only worker has ended, nobody works.
LEMMA LastOut ==
    ASSUME IInv, NEW j \in Jobs, lock.holder = j,
           job'[j].pc \in {"free", "over"},
           \A i \in Jobs \ {j} : job'[i].pc = job[i].pc
    PROVE  Holds' /\ Fresh'
  <1>1. \A i \in Jobs : job'[i].pc \notin {"boot", "verify", "work"}
    BY DEF IInv, Holds, Aligning
  <1> QED
    BY <1>1 DEF Holds, Fresh, Aligning

\* Only the clock makes work longer, and it notes when it is too long.
LEMMA InTimeStep == IInv /\ [Next]_vars /\ ~excused' => InTime'
  <1> SUFFICES ASSUME IInv, [Next]_vars, ~excused' PROVE InTime'
    OBVIOUS
  <1>0. /\ job \in [Jobs -> JobRecord] /\ WaitLimit \in Nat /\ StaleLimit \in Nat
        /\ Nested \in Jobs /\ User \in Jobs /\ Servers \subseteq Jobs
        /\ \A j \in Jobs : job[j].worked \in Nat
    BY JobNumbers, RunnerConstants DEF IInv, TypeInv, Jobs
  <1>a. NoJob.worked = 0 /\ \A p : Started(p).worked = 0
    BY DEF NoJob, Started, Process
  <1>e. ASSUME NEW j \in Jobs, NEW ok \in BOOLEAN
        PROVE  \A i \in Jobs : Exit(j, ok)[i].worked \in {job[i].worked, 0}
    BY <1>0, <1>a DEF Exit, Process
  <1>k. ASSUME \A i \in Jobs : job'[i].worked \in {job[i].worked, 0} PROVE InTime'
    BY <1>0, <1>k, LimitsFit DEF IInv, InTime
  <1>1. CASE \/ \E s \in Servers : ServerStart(s) \/ ServerSeesExit(s)
             \/ UserStart
             \/ \E q \in Queries : QueryStart(q) \/ QueryStep(q)
    <2>1. \A i \in Jobs : job'[i] = job[i] \/ job'[i] = NoJob \/ job'[i] = Started(Free)
      BY <1>0, <1>1 DEF ServerStart, ServerSeesExit, UserStart, QueryStart, QueryStep, QueryRead,
                        QueryAlign, QueryAgain
    <2> QED
      BY <1>a, <1>k, <2>1
  <1>2. ASSUME NEW j \in Jobs, JobLock(j) PROVE InTime'
    BY <1>0, <1>2, <1>k DEF JobLock, JobRecord
  <1>3. ASSUME NEW j \in Jobs, JobLoops(j) PROVE InTime'
    <2>1. PICK pc \in {"want", "look", "steal"} : job' = [job EXCEPT ![j].pc = pc]
      BY <1>3, LoopStep DEF IInv
    <2> QED
      BY <1>0, <1>k, <2>1 DEF JobRecord
  <1>4. ASSUME NEW j \in Jobs, JobLockTimeout(j) \/ JobDone(j) PROVE InTime'
    BY <1>4, <1>e, <1>k DEF JobLockTimeout, JobDone
  <1>5. ASSUME NEW j \in Jobs, JobVerify(j) PROVE InTime'
    <2>1. \A i \in Jobs : \/ job'[i].worked = job[i].worked
                           \/ job'[i] = Started(j)
      BY <1>0, <1>5, VerifyType DEF IInv, JobRecord
    <2> QED
      BY <1>a, <1>k, <2>1
  <1>6. ASSUME NEW j \in Jobs, JobInvalidate(j) PROVE InTime'
    BY <1>0, <1>6, <1>k DEF JobInvalidate, JobRecord
  <1>7. ASSUME NEW j \in Jobs, JobFail(j) \/ JobKilled(j) PROVE InTime'
    <2> DEFINE exited == Exit(j, FALSE)
    <2>1. exited \in [Jobs -> JobRecord]
      <3>1. Exited(exited, j)
        BY <1>0, ExitType
      <3> HIDE DEF exited
      <3> QED
        BY <3>1 DEF Exited
    <2>2. job' = Disturbed(exited)
      BY <1>7 DEF JobFail, JobKilled
    <2>3. \A i \in Jobs : exited[i].worked \in {job[i].worked, 0}
      BY <1>e
    <2> HIDE DEF exited
    <2> QED
      BY <1>k, <2>1, <2>2, <2>3, DisturbedType
  <1>8. CASE GraphChange
    BY <1>0, <1>8, <1>k, DisturbedType DEF GraphChange
  <1>9. CASE Tick
    <2>1. job' \in [Jobs -> JobRecord]
      BY TypeStep DEF IInv, TypeInv
    <2>2. \A j \in Jobs : job'[j].worked \in Nat
      BY <2>1, RunnerConstants DEF JobRecord
    <2>3. \A j \in Jobs : ~(job'[j].worked + WaitLimit > StaleLimit)
      BY <1>9 DEF Tick
    <2> QED
      BY <1>0, <2>2, <2>3 DEF InTime
  <1>10. CASE UNCHANGED vars
    BY <1>10, <1>k DEF vars
  <1> QED
    BY <1>1, <1>2, <1>3, <1>4, <1>5, <1>6, <1>7, <1>8, <1>9, <1>10
       DEF Next, JobStep, JobWaitStep, JobLoops

LEMMA Step == IInv /\ [Next]_vars /\ ~excused' => (Holds /\ Fresh /\ NotItsParent)'
  <1> SUFFICES ASSUME IInv, [Next]_vars, ~excused' PROVE Holds' /\ Fresh' /\ NotItsParent'
    OBVIOUS
  <1>0. /\ job \in [Jobs -> JobRecord]
        /\ Nested \in Jobs /\ User \in Jobs /\ Servers \subseteq Jobs
        /\ Nested # User /\ Nested \notin Servers /\ Nested # Free
        /\ Free \notin Jobs /\ Dead \notin Jobs
    BY RunnerConstants DEF IInv, TypeInv, Jobs
  <1>a. NoJob.pc = "free" /\ NoJob.parent = Free
    BY DEF NoJob, Process
  <1>b. \A p : /\ Started(p).pc = "want" /\ Started(p).waited = 0
               /\ Started(p).parent = p
    BY DEF Started, Process
  <1>c. \A i, j \in Jobs : Aligning(i) /\ Aligning(j) => i = j
    BY DEF IInv, Holds
  <1>d. job[Nested].parent # Nested
    BY DEF IInv, NotItsParent
  <1>1. ASSUME NEW s \in Servers, ServerStart(s) PROVE Holds' /\ Fresh' /\ NotItsParent'
    <2>1. lock' = lock /\ job'[Nested] = job[Nested]
          /\ \A i \in Jobs : job'[i] = job[i] \/ job'[i].pc = "want"
      BY <1>0, <1>1, <1>b DEF ServerStart
    <2> QED
      BY <2>1, <1>d, Calm DEF NotItsParent, Alive, Waits, Aligning
  <1>2. ASSUME NEW s \in Servers, ServerSeesExit(s) PROVE Holds' /\ Fresh' /\ NotItsParent'
    <2>1. lock' = lock /\ job'[Nested] = job[Nested]
          /\ \A i \in Jobs : job'[i] = job[i] \/ job'[i].pc = "free"
      BY <1>0, <1>2, <1>a DEF ServerSeesExit
    <2> QED
      BY <2>1, <1>d, Calm DEF NotItsParent, Alive, Waits, Aligning
  <1>3. CASE UserStart
    <2>1. lock' = lock /\ job'[Nested] = job[Nested]
          /\ \A i \in Jobs : job'[i] = job[i] \/ job'[i].pc = "want"
      BY <1>0, <1>3, <1>b DEF UserStart
    <2> QED
      BY <2>1, <1>d, Calm DEF NotItsParent, Alive, Waits, Aligning
  <1>4. ASSUME NEW q \in Queries, QueryStart(q) \/ QueryRead(q) \/ QueryAgain(q)
        PROVE  Holds' /\ Fresh' /\ NotItsParent'
    <2>1. lock' = lock /\ job' = job
      BY <1>4 DEF QueryStart, QueryRead, QueryAgain
    <2> QED
      BY <2>1, <1>d, Calm DEF NotItsParent, Alive, Waits, Aligning
  <1>5. ASSUME NEW q \in Queries, QueryAlign(q) PROVE Holds' /\ Fresh' /\ NotItsParent'
    <2> DEFINE s == query[q].server
    <2>0. s # Nested
      BY <1>0 DEF IInv, TypeInv, QueryRecord
    <2>1. lock' = lock /\ job'[Nested] = job[Nested]
          /\ \A i \in Jobs : job'[i] = job[i] \/ job'[i].pc = "want"
      BY <1>0, <1>5, <1>b, <2>0 DEF QueryAlign
    <2> QED
      BY <2>1, <1>d, Calm DEF NotItsParent, Alive, Waits, Aligning
  <1>6. ASSUME NEW j \in Jobs, JobLock(j) PROVE Holds' /\ Fresh' /\ NotItsParent'
    <2>1. \A i \in Jobs : ~Aligning(i)
      BY <1>6, NobodyAligns DEF JobLock
    <2>2. /\ lock' = [holder |-> j, age |-> 0]
          /\ job' = [job EXCEPT ![j].pc = "boot", ![j].waited = 0]
      BY <1>6 DEF JobLock
    <2>3. /\ job'[j].pc = "boot" /\ job'[j].worked = job[j].worked
          /\ job'[j].parent = job[j].parent
          /\ \A i \in Jobs \ {j} : job'[i] = job[i]
      BY <1>0, <2>2 DEF JobRecord
    <2>4. Holds'
      BY <2>1, <2>2, <2>3 DEF Holds, Aligning
    <2>5. Fresh'
      <3>1. job[j].worked \in Nat /\ lock'.age = 0
        BY <2>2, JobNumbers DEF IInv
      <3>2. \A i \in Jobs : job'[i].pc \in {"boot", "verify", "work"} => i = j
        BY <2>1, <2>3 DEF Aligning
      <3> QED
        BY <2>3, <3>1, <3>2 DEF Fresh
    <2> QED
      BY <1>0, <1>d, <2>3, <2>4, <2>5 DEF NotItsParent
  \* A file that is removed was nobody's, or was old: then nobody works.
  <1>6a. ASSUME NEW j \in Jobs, JobLoops(j) PROVE Holds' /\ Fresh' /\ NotItsParent'
    <2>0. IInv /\ TypeInv
      BY DEF IInv
    <2>1. PICK pc \in {"want", "look", "steal"} : job' = [job EXCEPT ![j].pc = pc]
      BY <1>6a, <2>0, LoopStep
    <2>2. /\ job[j].pc \in {"want", "look", "steal"} /\ job'[j].pc = pc
          /\ \A i \in Jobs : /\ job'[i].worked = job[i].worked /\ job'[i].waited = job[i].waited
                              /\ job'[i].parent = job[i].parent
          /\ \A i \in Jobs \ {j} : job'[i] = job[i]
      <3>1. job'[j] = [job[j] EXCEPT !.pc = pc] /\ job[j] \in JobRecord
            /\ \A i \in Jobs \ {j} : job'[i] = job[i]
        BY <1>0, <2>1
      <3>2. Waits(j)
        BY <1>6a, <2>0, LoopStep
      <3> QED
        BY <3>1, <3>2 DEF JobRecord, Waits
    <2>3. NotItsParent'
      BY <1>0, <1>d, <2>2 DEF NotItsParent
    <2>4. CASE lock' = lock
      <3>1. Alive(Nested)' => Alive(Nested)
        BY <1>0, <2>2 DEF Alive, Waits, Aligning
      <3>2. \A i \in Jobs : job'[i].pc \in {"boot", "verify", "work"} => job'[i].pc = job[i].pc
        BY <2>2
      <3> QED
        BY <1>0, <2>2, <2>3, <2>4, <3>1, <3>2, Calm
    <2>5. CASE lock' # lock
      <3>1. lock.holder \notin Jobs \/ Stale
        BY <1>6a, <2>0, <2>5, LoopStep
      <3>2. \A i \in Jobs : ~Aligning(i)
        <4>1. CASE Stale
          BY <4>1, NobodyAligns
        <4>2. CASE lock.holder \notin Jobs
          BY <4>2 DEF IInv, Holds
        <4> QED
          BY <3>1, <4>1, <4>2
      <3>3. \A i \in Jobs : job'[i].pc \notin {"boot", "verify", "work"}
        BY <2>2, <3>2 DEF Aligning
      <3> QED
        BY <2>3, <3>3 DEF Holds, Fresh, Aligning
    <2> QED
      BY <2>4, <2>5
  <1>7. ASSUME NEW j \in Jobs, JobLockTimeout(j) PROVE Holds' /\ Fresh' /\ NotItsParent'
    <2>1. Exited(job', j) /\ lock' = lock
      BY <1>0, <1>7, ExitType DEF JobLockTimeout
    <2>2. job'[Nested].parent # Nested
      <3>1. j = Nested => job'[j] = NoJob
        BY <1>0, <1>7 DEF JobLockTimeout, Exit
      <3> QED
        BY <1>0, <1>a, <1>d, <2>1, <3>1 DEF Exited
    <2> QED
      BY <1>0, <2>1, <2>2, Calm DEF Exited, NotItsParent, Alive, Waits, Aligning
  <1>8. ASSUME NEW j \in Jobs, JobVerify(j) PROVE Holds' /\ Fresh' /\ NotItsParent'
    <2>0. Aligning(j) /\ job[j].pc = "boot" /\ lock' = lock
      BY <1>8 DEF JobVerify, Aligning
    <2>1. /\ job'[j].pc = "verify" /\ job'[j].worked = job[j].worked
          /\ \A i \in Jobs \ {j, Nested} : job'[i] = job[i]
          /\ j # Nested => \/ job'[Nested] = Started(j)
                           \/ /\ job'[Nested].pc = job[Nested].pc
                              /\ job'[Nested].parent \in {job[Nested].parent, Free}
          /\ j = Nested => job'[j].parent \in {job[j].parent, Free}
      BY <1>0, <1>8, VerifyType DEF IInv, JobRecord
    <2>2. \A i \in Jobs : Aligning(i)' => i = j
      BY <1>b, <1>c, <2>0, <2>1 DEF Aligning
    <2>3. lock.age <= job[j].worked /\ job[j].worked \in Nat /\ WaitLimit \in Nat /\ lock.age \in Nat
      BY <2>0, JobNumbers DEF IInv, Fresh
    <2>4. job'[Nested].waited \in Nat
      <3>1. job'[Nested] \in JobRecord
        BY <1>0, <1>8, VerifyType DEF IInv
      <3> QED
        BY <3>1, RunnerConstants DEF JobRecord
    <2>5. Holds'
      BY <2>0, <2>2 DEF IInv, Holds
    <2>6. Fresh'
      BY <2>0, <2>1, <2>2, <2>3, <2>4 DEF Fresh, Aligning
    <2> QED
      BY <1>0, <1>b, <1>d, <2>1, <2>5, <2>6 DEF NotItsParent
  <1>9. ASSUME NEW j \in Jobs, JobInvalidate(j) PROVE Holds' /\ Fresh' /\ NotItsParent'
    <2>0. Aligning(j) /\ lock' = lock
      BY <1>9 DEF JobInvalidate, Aligning
    <2>1. /\ job'[j].pc = "work" /\ job'[j].worked = job[j].worked
          /\ job'[j].parent = job[j].parent
          /\ \A i \in Jobs \ {j} : job'[i] = job[i]
      BY <1>0, <1>9 DEF JobInvalidate, JobRecord
    <2>2. \A i \in Jobs : Aligning(i)' => i = j
      BY <1>c, <2>0, <2>1 DEF Aligning
    <2>3. lock.age <= job[j].worked + WaitLimit
      BY <1>9 DEF JobInvalidate, IInv, Fresh
    <2>4. Holds'
      BY <2>0, <2>2 DEF IInv, Holds
    <2>5. Fresh'
      BY <2>0, <2>1, <2>2, <2>3 DEF Fresh, Aligning
    <2> QED
      BY <1>d, <1>0, <2>1, <2>4, <2>5 DEF NotItsParent
  <1>10. ASSUME NEW j \in Jobs, JobDone(j) \/ JobFail(j) PROVE Holds' /\ Fresh' /\ NotItsParent'
    <2>0. Aligning(j) /\ lock.holder = j
      BY <1>10 DEF JobDone, JobFail, Aligning, IInv, Holds
    <2>1. \E ok \in {TRUE, FALSE} : Exited(Exit(j, ok), j)
             /\ (job' = Exit(j, ok) \/ job' = Disturbed(Exit(j, ok)))
      BY <1>0, <1>10, ExitType DEF JobDone, JobFail
    <2>2. PICK ok \in {TRUE, FALSE} : Exited(Exit(j, ok), j)
             /\ (job' = Exit(j, ok) \/ job' = Disturbed(Exit(j, ok)))
      BY <2>1
    <2> DEFINE exited == Exit(j, ok)
    <2>3. j = Nested => exited[j].parent = Free
      BY <1>0, <1>a DEF Exit
    <2> HIDE DEF exited
    <2>4. Exited(exited, j) /\ (job' = exited \/ job' = Disturbed(exited))
      BY <2>2 DEF exited
    <2>5. \A i \in Jobs : job'[i].pc = exited[i].pc /\ job'[i].parent = exited[i].parent
      BY <2>4, DisturbedType DEF Exited
    <2>6. Holds' /\ Fresh'
      BY <2>0, <2>4, <2>5, LastOut DEF Exited
    <2> QED
      BY <1>0, <1>d, <2>3, <2>4, <2>5, <2>6 DEF Exited, NotItsParent
  <1>11. ASSUME NEW j \in Jobs, JobKilled(j) PROVE Holds' /\ Fresh' /\ NotItsParent'
    <2> DEFINE exited == Exit(j, FALSE)
    <2>1. Exited(exited, j)
      BY <1>0, ExitType
    <2>2. j = Nested => exited[j].parent = Free
      BY <1>0, <1>a DEF Exit
    <2>3. job' = Disturbed(exited)
      BY <1>11 DEF JobKilled
    <2> HIDE DEF exited
    <2>4. \A i \in Jobs : /\ job'[i].pc = exited[i].pc /\ job'[i].parent = exited[i].parent
                          /\ job'[i].worked = exited[i].worked /\ job'[i].waited = exited[i].waited
      BY <2>1, <2>3, DisturbedType DEF Exited
    <2>5. NotItsParent'
      BY <1>0, <1>d, <2>1, <2>2, <2>4 DEF Exited, NotItsParent
    <2>6. CASE lock.holder = j
      BY <2>1, <2>4, <2>5, <2>6, LastOut DEF Exited
    <2>7. CASE lock.holder # j
      <3>1. lock' = lock
        BY <1>11, <2>7 DEF JobKilled
      <3> QED
        BY <1>0, <2>1, <2>4, <2>5, <3>1, Calm DEF Exited, Alive, Waits, Aligning
    <2> QED
      BY <2>6, <2>7
  <1>12. CASE GraphChange
    <2>1. lock' = lock /\ job' = Disturbed(job)
      BY <1>12 DEF GraphChange
    <2>2. \A i \in Jobs : /\ job'[i].pc = job[i].pc /\ job'[i].parent = job[i].parent
                          /\ job'[i].worked = job[i].worked /\ job'[i].waited = job[i].waited
      BY <1>0, <2>1, DisturbedType
    <2> QED
      BY <1>0, <1>d, <2>1, <2>2, Calm DEF NotItsParent, Alive, Waits, Aligning
  <1>13. CASE Tick
    <2>1. \A i \in Jobs : job'[i].pc = job[i].pc /\ job'[i].parent = job[i].parent
      BY <1>0, <1>13 DEF Tick, JobRecord
    <2>2. lock'.holder = lock.holder /\ lock'.age <= lock.age + 1 /\ lock'.age \in Nat
      <3>1. lock.age \in Nat
        BY <1>0, JobNumbers DEF IInv
      <3>2. lock \in [holder : Jobs \union {Free, Dead}, age : 0..(StaleLimit + 1)]
        BY DEF IInv, TypeInv
      <3> QED
        BY <1>13, <3>1, <3>2 DEF Tick
    <2>3. Holds'
      BY <2>1, <2>2 DEF IInv, Holds, Aligning
    <2>4. \A i \in Jobs : PipeOpen(i)' = PipeOpen(i)
      BY <1>0, <2>1 DEF PipeOpen, Alive, Waits, Aligning
    <2>5. ASSUME NEW j \in Jobs, job[j].pc \in {"boot", "work"}
          PROVE  job'[j].worked = job[j].worked + 1
      BY <1>0, <1>13, <2>5 DEF Tick, JobRecord
    <2>6. ASSUME NEW j \in Jobs, job[j].pc = "verify"
          PROVE  /\ job'[j].worked = job[j].worked
                 /\ job'[Nested].waited = job[Nested].waited + 1
                 /\ job[Nested].waited < WaitLimit
                 /\ PipeOpen(j)
      <3>1. PipeOpen(j)
        BY <1>13, <2>6 DEF Tick, Idle
      <3>2. j # Nested
        BY <1>d, <3>1 DEF PipeOpen
      <3>3. Waits(Nested)
        BY <1>0, <1>c, <2>6, <3>1, <3>2 DEF PipeOpen, Alive, Aligning
      <3>4. ~Stale
        BY <2>6, NobodyAligns DEF Aligning
      <3>5. job[Nested].waited < WaitLimit
        <4>1. Idle
          BY <1>13 DEF Tick
        <4> QED
          BY <3>3, <3>4, <4>1 DEF Idle, Jobs
      <3>6. job'[Nested] = [job[Nested] EXCEPT !.waited = @ + 1] /\ job[Nested] \in JobRecord
        BY <1>0, <1>13, <3>3, <3>5 DEF Tick, Waits
      <3>7. job'[j] = job[j]
        BY <1>13, <2>6 DEF Tick, Waits
      <3> QED
        BY <3>1, <3>5, <3>6, <3>7 DEF JobRecord
    <2>7. ASSUME NEW j \in Jobs
          PROVE  /\ job[j].pc = "boot" => lock'.age <= job'[j].worked
                 /\ job[j].pc = "verify" => lock'.age <= job'[j].worked + job'[Nested].waited
                 /\ job[j].pc \in {"verify", "work"} => lock'.age <= job'[j].worked + WaitLimit
      <3>1. /\ job[j].worked \in Nat /\ job[Nested].waited \in Nat /\ WaitLimit \in Nat
            /\ lock.age \in Nat
        BY <1>0, JobNumbers DEF IInv
      <3>2. CASE job[j].pc = "boot"
        BY <2>2, <2>5, <3>1, <3>2 DEF IInv, Fresh
      <3>3. CASE job[j].pc = "verify"
        <4>1. lock.age <= job[j].worked + job[Nested].waited
          BY <2>6, <3>3 DEF IInv, Fresh
        <4>2. lock'.age <= job[j].worked + job[Nested].waited + 1
          BY <2>2, <3>1, <4>1
        <4> QED
          BY <2>2, <2>6, <3>1, <3>3, <4>2
      <3>4. CASE job[j].pc = "work"
        BY <2>2, <2>5, <3>1, <3>4 DEF IInv, Fresh
      <3> QED
        BY <3>2, <3>3, <3>4
    <2>8. Fresh'
      BY <2>1, <2>7 DEF Fresh
    <2> QED
      BY <1>0, <1>d, <2>1, <2>3, <2>8 DEF NotItsParent
  <1>14. CASE UNCHANGED vars
    <2>1. lock' = lock /\ job' = job
      BY <1>14 DEF vars
    <2> QED
      BY <2>1, <1>d, Calm DEF NotItsParent, Alive, Waits, Aligning
  <1> QED
    BY <1>1, <1>2, <1>3, <1>4, <1>5, <1>6, <1>6a, <1>7, <1>8, <1>9, <1>10, <1>11, <1>12, <1>13,
       <1>14 DEF Next, QueryStep, JobStep, JobWaitStep, JobLoops

LEMMA IInvInit == Init => IInv
  <1> SUFFICES ASSUME Init PROVE IInv
    OBVIOUS
  <1>1. \A j \in Jobs : job[j].pc = "free" /\ job[j].parent = Free /\ job[j].worked = 0
    BY DEF Init, NoJob, Process
  <1>2. Nested \in Jobs /\ Nested # Free
    BY RunnerConstants DEF Jobs
  <1> QED
    BY <1>1, <1>2, TypeInit, LimitsFit, RunnerConstants
       DEF IInv, Holds, Fresh, InTime, NotItsParent, Aligning

\* An excuse is never taken back.
LEMMA ExcuseStays == TypeInv /\ [Next]_vars /\ ~excused' => ~excused
  <1> SUFFICES ASSUME TypeInv, [Next]_vars, excused PROVE excused'
    BY DEF TypeInv
  <1>1. ASSUME NEW j \in Jobs, JobSteal(j) PROVE excused'
    BY <1>1 DEF JobSteal
  <1>2. CASE Tick
    BY <1>2 DEF Tick
  <1>3. CASE UNCHANGED excused
    BY <1>3
  <1> QED
    BY <1>1, <1>2, <1>3
       DEF Next, QueryStep, QueryRead, QueryAlign, QueryAgain, JobStep, JobWaitStep, ServerStart,
           ServerSeesExit, UserStart, QueryStart, JobLock, JobFindLocked, JobFindStale, JobSleep,
           JobGoes, JobLockTimeout, JobVerify, JobInvalidate, JobDone, JobFail, JobKilled,
           GraphChange, vars

LEMMA IInvAlways == Spec => [](TypeInv /\ (~excused => IInv))
  <1>1. (TypeInv /\ (~excused => IInv)) /\ [Next]_vars => (TypeInv /\ (~excused => IInv))'
    BY TypeStep, Step, InTimeStep, ExcuseStays DEF IInv
  <1>2. Init => TypeInv /\ (~excused => IInv)
    BY IInvInit, TypeInit
  <1> QED
    BY <1>1, <1>2, PTL DEF Spec

\* Two harnesses never work under the lock at a time until a living one's
\* fresh file has been removed, by a stealer that found the file gone or was
\* not the first, or one has worked for longer than the limits leave.  That a
\* check may wait for the whole lock timeout of another is not enough.
THEOREM OneAlignmentAlways == Spec => []OneAlignment
  <1>1. (~excused => IInv) => OneAlignment
    BY DEF IInv, Holds, OneAlignment
  <1> QED
    BY IInvAlways, <1>1, PTL

-----------------------------------------------------------------------------

\* The record will answer a query that was asked at this version: it is of
\* this version, or a harness that works at it will leave it so.
Good ==
    /\ readiness = [state |-> "Aligned", version |-> version] \/ \E j \in Jobs : job[j].pc = "work"
    /\ \A j \in Jobs : job[j].pc = "work" => job[j].version = version

\* A harness of a server under which nothing happened works at the version of
\* the graph, and if it ends well the record is good.
SoundJobs ==
    \A s \in Servers : job[s].pc # "free" /\ ~job[s].disturbed =>
        /\ job[s].pc = "work" => job[s].version = version
        /\ job[s].pc = "over" /\ job[s].ok => Good

\* A query under which nothing happened waits for such a harness, and when it
\* reads the record again that is good.
SoundQuery(q) ==
    Open(q) /\ ~query[q].disturbed =>
        /\ query[q].version = version
        /\ query[q].pc = "wait" => /\ job[query[q].server].pc # "free"
                                   /\ ~job[query[q].server].disturbed
        /\ query[q].pc = "again" => Good

SoundQueries == \A q \in Queries : SoundQuery(q)

\* Harnesses and queries are of servers that have started.
UpFirst ==
    /\ \A s \in Servers \ up : job[s].pc = "free"
    /\ \A q \in Queries : Open(q) => query[q].server \in up

Sound == UpFirst /\ SoundJobs /\ SoundQueries

\* A good record stays good when neither it nor the graph changes and the
\* same harnesses work.
LEMMA GoodKept ==
    ASSUME readiness' = readiness, version' = version,
           \A j \in Jobs : job'[j].pc = "work" <=> job[j].pc = "work",
           \A j \in Jobs : job'[j].pc = "work" => job'[j].version = job[j].version
    PROVE  Good => Good'
  BY DEF Good

\* What is under way and undisturbed was so before, or has not begun to work.
LEMMA JobsKept ==
    ASSUME SoundJobs, Good => Good', version' = version,
           \A s \in Servers : job'[s].pc # "free" /\ ~job'[s].disturbed =>
              \/ job'[s].pc \notin {"work", "over"}
              \/ job'[s].pc = "over" /\ ~job'[s].ok
              \/ /\ job[s].pc = job'[s].pc /\ job[s].ok = job'[s].ok
                 /\ job[s].version = job'[s].version
                 /\ ~job[s].disturbed
    PROVE  SoundJobs'
  <1> SUFFICES ASSUME NEW s \in Servers, job'[s].pc # "free", ~job'[s].disturbed
               PROVE  /\ job'[s].pc = "work" => job'[s].version = version'
                      /\ job'[s].pc = "over" /\ job'[s].ok => Good'
    BY DEF SoundJobs
  <1>1. CASE job'[s].pc \notin {"work", "over"} \/ (job'[s].pc = "over" /\ ~job'[s].ok)
    BY <1>1
  <1>2. CASE /\ job[s].pc = job'[s].pc /\ job[s].ok = job'[s].ok
             /\ job[s].version = job'[s].version
             /\ ~job[s].disturbed
    BY <1>2 DEF SoundJobs
  <1> QED
    BY <1>1, <1>2

\* A query may wait on when the harness it waits for is still there.
LEMMA QueryKept ==
    ASSUME NEW q \in Queries, SoundQuery(q), Good => Good', version' = version,
           query'[q] = query[q],
           query[q].pc = "wait" =>
              LET s == query[q].server IN
              job[s].pc # "free" /\ ~job[s].disturbed => job'[s].pc # "free" /\ ~job'[s].disturbed
    PROVE  SoundQuery(q)'
  <1>1. Open(q)' = Open(q)
    BY DEF Open
  <1> QED
    BY <1>1 DEF SoundQuery

\* After a fault or an edit, nothing that was under way counts as undisturbed.
LEMMA NothingCounts ==
    ASSUME UpFirst, query \in [Queries -> QueryRecord], DisturbQueries, up' = up,
           \A s \in Servers : job'[s].pc # "free" => job'[s].disturbed,
           \A s \in Servers : job[s].pc = "free" => job'[s].pc = "free"
    PROVE  Sound'
  <1>1. SoundJobs'
    BY DEF SoundJobs
  <1>2. ASSUME NEW q \in Queries
        PROVE  /\ query'[q].pc = query[q].pc /\ query'[q].server = query[q].server
               /\ Open(q) => query'[q].disturbed
    BY DEF DisturbQueries, QueryRecord
  <1>3. \A q \in Queries : Open(q)' = Open(q)
    BY <1>2 DEF Open
  <1>4. SoundQueries'
    BY <1>2, <1>3 DEF SoundQueries, SoundQuery
  <1>5. UpFirst'
    BY <1>2, <1>3 DEF UpFirst
  <1> QED
    BY <1>1, <1>4, <1>5 DEF Sound

\* A process that is marked as disturbed is.
LEMMA AllDisturbed ==
    ASSUME NEW jobs \in [Jobs -> JobRecord]
    PROVE  \A s \in Servers : Disturbed(jobs)[s].pc # "free" => Disturbed(jobs)[s].disturbed
  BY DEF Disturbed, JobRecord, Jobs

\* A step of the harnesses alone keeps the record good and the queries
\* waiting, if the same harnesses work at the same versions.
LEMMA SameWorkers ==
    ASSUME Sound, up \subseteq Servers,
           readiness' = readiness, version' = version, query' = query, up' = up,
           \A j \in Jobs : job'[j].pc = "work" <=> job[j].pc = "work",
           \A j \in Jobs : job'[j].pc = "work" => job'[j].version = job[j].version,
           \A s \in Servers :
              /\ job[s].pc = "free" <=> job'[s].pc = "free"
              /\ job'[s].disturbed = job[s].disturbed
              /\ job'[s].pc = "over" /\ job'[s].ok => job[s].pc = "over" /\ job[s].ok
    PROVE  Sound'
  <1>0. Servers \subseteq Jobs
    BY DEF Jobs
  <1>1. Good => Good'
    BY GoodKept
  <1>2. SoundJobs'
    BY <1>0, <1>1 DEF Sound, SoundJobs
  <1>3. \A q \in Queries : Open(q)' = Open(q)
    BY DEF Open
  <1>4. UpFirst'
    BY <1>3 DEF Sound, UpFirst
  <1>5. ASSUME NEW q \in Queries PROVE SoundQuery(q)'
    <2>1. query[q].pc = "wait" => query[q].server \in Servers
      BY DEF Sound, UpFirst, Open
    <2>2. SoundQuery(q)
      BY DEF Sound, SoundQueries
    <2> QED
      BY <1>1, <2>1, <2>2, QueryKept
  <1> QED
    BY <1>2, <1>4, <1>5 DEF Sound, SoundQueries

\* Every step keeps what is said of the undisturbed.
LEMMA SoundStep == IInv /\ Sound /\ [Next]_vars => Sound'
  <1> SUFFICES ASSUME IInv, Sound, [Next]_vars PROVE Sound'
    OBVIOUS
  <1>0. /\ job \in [Jobs -> JobRecord] /\ query \in [Queries -> QueryRecord]
        /\ \A j \in Jobs : job[j].pc = "free" => job[j] = NoJob
        /\ Nested \in Jobs /\ User \in Jobs /\ Servers \subseteq Jobs
        /\ Nested \notin Servers /\ User \notin Servers /\ up \subseteq Servers
    BY RunnerConstants DEF IInv, TypeInv, Jobs
  <1>a. NoJob.pc = "free" /\ ~NoJob.disturbed
    BY DEF NoJob, Process
  <1>b. \A p : Started(p).pc = "want" /\ ~Started(p).disturbed
    BY DEF Started, Process
  <1>c. \A i, j \in Jobs : Aligning(i) /\ Aligning(j) => i = j
    BY DEF IInv, Holds
  <1>d. \A pc \in QueryPc : Answer(pc).pc = pc
    BY DEF Answer
  <1>e. ASSUME NEW q \in Queries PROVE SoundQuery(q) /\ (Open(q) => query[q].server \in up)
    BY DEF Sound, SoundQueries, UpFirst
  <1>1. ASSUME NEW s \in Servers, ServerStart(s) PROVE Sound'
    <2>1. readiness' = readiness /\ version' = version /\ query' = query
          /\ up' = up \union {s} /\ s \notin up
      BY <1>1 DEF ServerStart
    <2>2. job[s].pc = "free"
      BY <2>1 DEF Sound, UpFirst
    <2>3. \A i \in Jobs : job'[i] = job[i] \/ (i = s /\ job'[i] = Started(Free))
      BY <1>0, <1>1 DEF ServerStart
    <2>4. \A j \in Jobs : job'[j].pc = "work" \/ job[j].pc = "work" => job'[j] = job[j]
      BY <1>b, <2>2, <2>3
    <2>5. Good => Good'
      BY <2>1, <2>4, GoodKept
    <2>6. SoundJobs'
      BY <1>0, <1>b, <2>1, <2>3, <2>5, JobsKept DEF Sound
    <2>7. \A q \in Queries : Open(q)' = Open(q)
      BY <2>1 DEF Open
    <2>8. UpFirst'
      BY <1>0, <2>1, <2>3, <2>7 DEF Sound, UpFirst
    <2>9. ASSUME NEW q \in Queries PROVE SoundQuery(q)'
      <3>1. query[q].pc = "wait" => query[q].server \in up /\ query[q].server # s
        BY <1>e, <2>1 DEF Open
      <3> QED
        BY <1>0, <1>e, <2>1, <2>3, <2>5, <3>1, QueryKept
    <2> QED
      BY <2>6, <2>8, <2>9 DEF Sound, SoundQueries
  <1>2. ASSUME NEW s \in Servers, ServerSeesExit(s) PROVE Sound'
    <2>1. readiness' = readiness /\ version' = version /\ up' = up
          /\ job' = [job EXCEPT ![s] = NoJob] /\ job[s].pc = "over"
      BY <1>2 DEF ServerSeesExit
    <2>2. \A i \in Jobs : job'[i] = IF i = s THEN NoJob ELSE job[i]
      BY <1>0, <2>1
    <2>3. /\ \A j \in Jobs : job'[j].pc = "work" <=> job[j].pc = "work"
          /\ \A j \in Jobs : job'[j].pc = "work" => job'[j].version = job[j].version
      BY <1>a, <2>1, <2>2
    <2>4. Good => Good'
      BY <2>1, <2>3, GoodKept
    <2>5. SoundJobs'
      BY <1>0, <1>a, <2>1, <2>2, <2>4, JobsKept DEF Sound
    <2>6. ASSUME NEW q \in Queries
          PROVE  SoundQuery(q)' /\ (Open(q)' => query'[q].server \in up')
      <3>1. CASE query[q].pc = "wait" /\ query[q].server = s
        <4>0. query[q] \in QueryRecord
          BY <1>0
        <4>1. CASE job[s].ok
          <5>1. /\ query'[q].pc = "again" /\ query'[q].server = query[q].server
                /\ query'[q].version = query[q].version
                /\ query'[q].disturbed = query[q].disturbed
            BY <1>2, <3>1, <4>0, <4>1 DEF ServerSeesExit, QueryRecord
          <5>2. ~query[q].disturbed => query[q].version = version /\ ~job[s].disturbed
            BY <1>e, <3>1 DEF SoundQuery, Open
          <5>3. ~query[q].disturbed => Good
            BY <2>1, <4>1, <5>2 DEF Sound, SoundJobs
          <5> QED
            BY <1>e, <2>1, <2>4, <3>1, <5>1, <5>2, <5>3 DEF SoundQuery, Open
        <4>2. CASE ~job[s].ok
          <5>1. query'[q] = Answer("refused")
            BY <1>2, <3>1, <4>2 DEF ServerSeesExit
          <5>2. query'[q].pc = "refused"
            BY <1>d, <5>1 DEF QueryPc
          <5> QED
            BY <5>2 DEF SoundQuery, Open
        <4> QED
          BY <4>1, <4>2
      <3>2. CASE ~(query[q].pc = "wait" /\ query[q].server = s)
        <4>1. query'[q] = query[q]
          BY <1>2, <3>2 DEF ServerSeesExit
        <4>2. query[q].pc = "wait" => query[q].server \in Servers /\ query[q].server # s
          BY <1>0, <1>e, <3>2 DEF Open
        <4>3. SoundQuery(q)'
          BY <1>0, <1>e, <2>1, <2>2, <2>4, <4>1, <4>2, QueryKept
        <4> QED
          BY <1>e, <2>1, <4>1, <4>3 DEF Open
      <3> QED
        BY <3>1, <3>2
    <2>7. UpFirst'
      BY <1>0, <1>a, <2>1, <2>2, <2>6 DEF Sound, UpFirst
    <2> QED
      BY <2>5, <2>6, <2>7 DEF Sound, SoundQueries
  <1>3. CASE UserStart
    <2>1. UNCHANGED <<version, readiness, up, query>>
      BY <1>3 DEF UserStart
    <2>2. \A i \in Jobs : job'[i] = job[i] \/ (i = User /\ job'[i].pc = "want" /\ job[i].pc = "free")
      BY <1>0, <1>3, <1>b DEF UserStart
    <2> QED
      BY <1>0, <2>1, <2>2, SameWorkers
  <1>4. ASSUME NEW q \in Queries, QueryStart(q) \/ QueryRead(q) \/ QueryAgain(q)
        PROVE  Sound'
    <2>1. UNCHANGED <<version, readiness, up, job>>
      BY <1>4 DEF QueryStart, QueryRead, QueryAgain
    <2>2. Good' = Good
      BY <2>1 DEF Good
    <2>3. SoundJobs'
      BY <2>1, <2>2 DEF Sound, SoundJobs
    <2>4. \A p \in Queries \ {q} : query'[p] = query[p]
      BY <1>0, <1>4 DEF QueryStart, QueryRead, QueryAgain
    <2>5. SoundQuery(q)' /\ (Open(q)' => query'[q].server \in up')
      <3>1. CASE QueryStart(q)
        <4>1. query'[q].pc = "read" /\ query'[q].server \in up /\ query'[q].version = version
          BY <1>0, <3>1 DEF QueryStart
        <4> QED
          BY <2>1, <4>1 DEF SoundQuery, Open
      <3>2. CASE QueryRead(q)
        <4>1. \/ query'[q].pc = "served"
              \/ /\ query[q].pc = "read" /\ query'[q].pc = "align"
                 /\ query'[q].server = query[q].server /\ query'[q].version = query[q].version
                 /\ query'[q].disturbed = query[q].disturbed
          BY <1>0, <1>d, <3>2 DEF QueryRead, QueryRecord, QueryPc
        <4> QED
          BY <1>e, <2>1, <4>1 DEF SoundQuery, Open
      <3>3. CASE QueryAgain(q)
        <4>1. query'[q].pc \in {"served", "refused"}
          BY <1>0, <1>d, <3>3 DEF QueryAgain, QueryPc
        <4> QED
          BY <4>1 DEF SoundQuery, Open
      <3> QED
        BY <1>4, <3>1, <3>2, <3>3
    <2>6. ASSUME NEW p \in Queries, p # q
          PROVE  SoundQuery(p)' /\ (Open(p)' => query'[p].server \in up')
      BY <1>e, <2>1, <2>2, <2>4, <2>6 DEF SoundQuery, Open
    <2>7. UpFirst'
      BY <2>1, <2>5, <2>6 DEF Sound, UpFirst
    <2> QED
      BY <2>3, <2>5, <2>6, <2>7 DEF Sound, SoundQueries
  <1>5. ASSUME NEW q \in Queries, QueryAlign(q) PROVE Sound'
    <2> DEFINE s == query[q].server
    <2>0. s \in up /\ s \in Servers /\ query[q].pc = "align"
      BY <1>0, <1>5, <1>e DEF QueryAlign, Open
    <2>1. UNCHANGED <<version, readiness, up>>
      BY <1>5 DEF QueryAlign
    <2>2. \A i \in Jobs : job'[i] = job[i] \/ (i = s /\ job[s].pc = "free" /\ job'[i] = Started(Free))
      BY <1>0, <1>5, <2>0 DEF QueryAlign
    <2>3. job'[s].pc # "free" /\ job'[s].disturbed = job[s].disturbed
      <3>1. CASE job[s].pc = "free"
        <4>1. job[s] = NoJob /\ job'[s] = Started(Free)
          BY <1>0, <1>5, <2>0, <3>1 DEF QueryAlign
        <4> QED
          BY <4>1 DEF NoJob, Started, Process
      <3>2. CASE job[s].pc # "free"
        BY <1>0, <1>5, <2>0, <3>2 DEF QueryAlign
      <3> QED
        BY <3>1, <3>2
    <2>4. /\ query'[q].pc = "wait" /\ query'[q].server = s
          /\ query'[q].version = query[q].version
          /\ query'[q].disturbed = (query[q].disturbed \/ job[s].disturbed)
          /\ \A p \in Queries \ {q} : query'[p] = query[p]
      <3>1. query[q] \in QueryRecord
        BY <1>0
      <3>2. query' = [query EXCEPT ![q] = [query[q] EXCEPT !.pc = "wait", !.disturbed = @ \/ job[s].disturbed]]
        BY <1>0, <1>5, <3>1 DEF QueryAlign, QueryRecord
      <3> QED
        BY <1>0, <3>1, <3>2 DEF QueryRecord
    <2> HIDE DEF s
    <2>5. Good => Good'
      BY <1>b, <2>1, <2>2, GoodKept
    <2>6. SoundJobs'
      BY <1>0, <1>b, <2>1, <2>2, <2>5, JobsKept DEF Sound
    <2>7. SoundQuery(q)'
      <3>1. ~query[q].disturbed => query[q].version = version
        BY <1>e, <2>0 DEF SoundQuery, Open
      <3> QED
        BY <2>1, <2>3, <2>4, <3>1 DEF SoundQuery
    <2>8. ASSUME NEW p \in Queries, p # q
          PROVE  SoundQuery(p)' /\ (Open(p)' => query'[p].server \in up')
      <3>1. query'[p] = query[p]
        BY <2>4, <2>8
      <3>2. query[p].pc = "wait" => query[p].server \in Jobs
        BY <1>0, <1>e DEF Open
      <3>3. SoundQuery(p)'
        BY <1>e, <1>b, <2>1, <2>2, <2>3, <2>5, <3>1, <3>2, QueryKept
      <3> QED
        BY <1>e, <2>1, <3>1, <3>3 DEF Open
    <2>9. UpFirst'
      BY <1>0, <2>0, <2>1, <2>2, <2>4, <2>8 DEF Sound, UpFirst
    <2> QED
      BY <2>6, <2>7, <2>8, <2>9 DEF Sound, SoundQueries
  <1>6. ASSUME NEW j \in Jobs, JobLock(j) PROVE Sound'
    <2>1. UNCHANGED <<version, readiness, up, query>>
      BY <1>6 DEF JobLock
    <2>2. /\ job[j].pc = "want" /\ job'[j].pc = "boot" /\ job'[j].disturbed = job[j].disturbed
          /\ \A i \in Jobs \ {j} : job'[i] = job[i]
      BY <1>0, <1>6 DEF JobLock, JobRecord
    <2> QED
      BY <1>0, <2>1, <2>2, SameWorkers
  <1>6a. ASSUME NEW j \in Jobs, JobLoops(j) PROVE Sound'
    <2>0. TypeInv
      BY DEF IInv
    <2>1. UNCHANGED <<version, readiness, up, query>>
      BY <1>6a, <2>0, LoopStep
    <2>2. PICK pc \in {"want", "look", "steal"} : job' = [job EXCEPT ![j].pc = pc]
      BY <1>6a, <2>0, LoopStep
    <2>3. /\ job[j].pc \in {"want", "look", "steal"} /\ job'[j].pc = pc
          /\ job'[j].disturbed = job[j].disturbed
          /\ \A i \in Jobs \ {j} : job'[i] = job[i]
      <3>1. job'[j] = [job[j] EXCEPT !.pc = pc] /\ job[j] \in JobRecord
            /\ \A i \in Jobs \ {j} : job'[i] = job[i]
        BY <1>0, <2>2
      <3>2. Waits(j)
        BY <1>6a, <2>0, LoopStep
      <3> QED
        BY <3>1, <3>2 DEF JobRecord, Waits
    <2> QED
      BY <1>0, <2>1, <2>3, SameWorkers
  <1>7. ASSUME NEW j \in Jobs, JobLockTimeout(j) PROVE Sound'
    <2>1. UNCHANGED <<version, readiness, up, query>>
      BY <1>7 DEF JobLockTimeout
    <2>2. Exited(job', j) /\ job[j].pc = "look"
      BY <1>0, <1>7, ExitType DEF JobLockTimeout
    <2>3. j \in Servers => job'[j].pc = "over" /\ ~job'[j].ok /\ job'[j].disturbed = job[j].disturbed
      BY <1>0, <1>7 DEF JobLockTimeout, Exit, Process
    <2> QED
      BY <1>0, <2>1, <2>2, <2>3, SameWorkers DEF Exited
  <1>8. ASSUME NEW j \in Jobs, JobVerify(j) PROVE Sound'
    <2>1. UNCHANGED <<version, readiness, up, query>>
      BY <1>8 DEF JobVerify
    <2>2. job[j].pc = "boot"
      BY <1>8 DEF JobVerify
    <2>3. /\ job'[j].pc = "verify" /\ job'[j].disturbed = job[j].disturbed
          /\ \A i \in Jobs \ {j, Nested} : job'[i] = job[i]
          /\ j # Nested => \/ ~Alive(Nested) /\ job'[Nested] = Started(j)
                           \/ /\ job'[Nested].pc = job[Nested].pc
                              /\ job'[Nested].version = job[Nested].version
      BY <1>0, <1>8, VerifyType DEF IInv, JobRecord
    <2>4. j # Nested => /\ job'[Nested].pc = "work" <=> job[Nested].pc = "work"
                        /\ job'[Nested].pc = "work" => job'[Nested].version = job[Nested].version
      BY <1>b, <2>3 DEF Alive, Aligning
    <2> QED
      BY <1>0, <2>1, <2>2, <2>3, <2>4, SameWorkers
  <1>9. ASSUME NEW j \in Jobs, JobInvalidate(j) PROVE Sound'
    <2>1. UNCHANGED <<version, up, query>> /\ job[j].pc = "verify"
      BY <1>9 DEF JobInvalidate
    <2>2. /\ job'[j].pc = "work" /\ job'[j].version = version
          /\ job'[j].disturbed = job[j].disturbed
          /\ \A i \in Jobs \ {j} : job'[i] = job[i]
      BY <1>0, <1>9 DEF JobInvalidate, JobRecord
    <2>3. Good'
      <3>1. \A i \in Jobs \ {j} : job'[i].pc # "work"
        BY <1>c, <2>1, <2>2 DEF Aligning
      <3> QED
        BY <2>1, <2>2, <3>1 DEF Good
    <2>4. SoundJobs'
      BY <1>0, <2>1, <2>2, <2>3 DEF Sound, SoundJobs
    <2>5. \A s \in Servers : (job'[s].pc = "free" <=> job[s].pc = "free")
                              /\ job'[s].disturbed = job[s].disturbed
      BY <1>0, <2>1, <2>2
    <2>6. ASSUME NEW q \in Queries
          PROVE  SoundQuery(q)' /\ (Open(q)' => query'[q].server \in up')
      <3>1. query[q].pc = "wait" => query[q].server \in Servers
        BY <1>0, <1>e DEF Open
      <3>2. SoundQuery(q)'
        BY <1>e, <2>1, <2>3, <2>5, <3>1, QueryKept
      <3> QED
        BY <1>e, <2>1, <3>2 DEF Open
    <2>7. UpFirst'
      BY <2>1, <2>5, <2>6 DEF Sound, UpFirst
    <2> QED
      BY <2>4, <2>6, <2>7 DEF Sound, SoundQueries
  <1>10. ASSUME NEW j \in Jobs, JobDone(j) PROVE Sound'
    <2>1. /\ UNCHANGED <<version, up, query>> /\ job[j].pc = "work"
          /\ readiness' = [state |-> "Aligned", version |-> job[j].version]
      BY <1>10 DEF JobDone
    <2>2. Exited(job', j)
      BY <1>0, <1>10, ExitType DEF JobDone
    <2>3. j \in Servers => job'[j].pc = "over" /\ job'[j].disturbed = job[j].disturbed
      BY <1>0, <1>10 DEF JobDone, Exit, Process
    <2>4. \A i \in Jobs : job'[i].pc # "work"
      <3>1. \A i \in Jobs \ {j} : job[i].pc # "work"
        BY <1>c, <2>1 DEF Aligning
      <3> QED
        BY <2>2, <3>1 DEF Exited
    <2>5. job[j].version = version => Good'
      BY <2>1, <2>4 DEF Good
    <2>6. Good => Good'
      BY <2>1, <2>5 DEF Good
    <2>7. SoundJobs'
      <3>1. ASSUME NEW s \in Servers, s # j
            PROVE  job'[s] = job[s]
        BY <1>0, <2>2, <3>1 DEF Exited
      <3>2. j \in Servers /\ ~job'[j].disturbed => Good'
        BY <2>1, <2>3, <2>5 DEF Sound, SoundJobs
      <3> QED
        BY <1>0, <2>4, <2>6, <3>1, <3>2 DEF Sound, SoundJobs
    <2>8. \A s \in Servers : (job'[s].pc = "free" <=> job[s].pc = "free")
                              /\ job'[s].disturbed = job[s].disturbed
      BY <1>0, <2>1, <2>2, <2>3 DEF Exited
    <2>9. ASSUME NEW q \in Queries
          PROVE  SoundQuery(q)' /\ (Open(q)' => query'[q].server \in up')
      <3>1. query[q].pc = "wait" => query[q].server \in Servers
        BY <1>0, <1>e DEF Open
      <3>2. SoundQuery(q)'
        BY <1>e, <2>1, <2>6, <2>8, <3>1, QueryKept
      <3> QED
        BY <1>e, <2>1, <3>2 DEF Open
    <2>10. UpFirst'
      BY <2>1, <2>8, <2>9 DEF Sound, UpFirst
    <2> QED
      BY <2>7, <2>9, <2>10 DEF Sound, SoundQueries
  <1>11. ASSUME NEW j \in Jobs, JobFail(j) \/ JobKilled(j) PROVE Sound'
    <2> DEFINE exited == Exit(j, FALSE)
    <2>1. Exited(exited, j) /\ job[j].pc # "free"
      BY <1>0, <1>11, ExitType DEF JobFail, JobKilled, Alive, Waits, Aligning
    <2>2. job' = Disturbed(exited) /\ DisturbQueries /\ up' = up
      BY <1>11 DEF JobFail, JobKilled, Fault
    <2> HIDE DEF exited
    <2>3. exited \in [Jobs -> JobRecord]
      BY <2>1 DEF Exited
    <2>4. \A s \in Servers : job'[s].pc # "free" => job'[s].disturbed
      BY <2>2, <2>3, AllDisturbed
    <2>5. \A i \in Jobs : job'[i].pc = exited[i].pc
      BY <2>2, <2>3, DisturbedType
    <2>6. \A s \in Servers : job[s].pc = "free" => job'[s].pc = "free"
      BY <1>0, <2>1, <2>5 DEF Exited
    <2> QED
      BY <1>0, <2>2, <2>4, <2>6, NothingCounts DEF Sound
  <1>12. CASE GraphChange
    <2>1. job' = Disturbed(job) /\ DisturbQueries /\ up' = up
      BY <1>12 DEF GraphChange
    <2>2. \A s \in Servers : job'[s].pc # "free" => job'[s].disturbed
      BY <1>0, <2>1, AllDisturbed
    <2>3. \A i \in Jobs : job'[i].pc = job[i].pc
      BY <1>0, <2>1, DisturbedType
    <2> QED
      BY <1>0, <2>1, <2>2, <2>3, NothingCounts DEF Sound
  <1>13. CASE Tick
    <2>1. UNCHANGED <<version, readiness, up, query>>
      BY <1>13 DEF Tick
    <2>2. \A i \in Jobs : /\ job'[i].pc = job[i].pc /\ job'[i].version = job[i].version
                          /\ job'[i].ok = job[i].ok /\ job'[i].disturbed = job[i].disturbed
      BY <1>0, <1>13 DEF Tick, JobRecord
    <2> QED
      BY <1>0, <2>1, <2>2, SameWorkers
  <1>14. CASE UNCHANGED vars
    <2>1. UNCHANGED <<version, readiness, up, query, job>>
      BY <1>14 DEF vars
    <2> QED
      BY <1>0, <2>1, SameWorkers
  <1> QED
    BY <1>1, <1>2, <1>3, <1>4, <1>5, <1>6, <1>6a, <1>7, <1>8, <1>9, <1>10, <1>11, <1>12, <1>13,
       <1>14 DEF Next, QueryStep, JobStep, JobWaitStep, JobLoops

LEMMA SoundInit == Init => Sound
  <1> SUFFICES ASSUME Init PROVE Sound
    OBVIOUS
  <1>1. \A j \in Jobs : job[j].pc = "free"
    BY DEF Init, NoJob, Process
  <1>2. \A q \in Queries : ~Open(q)
    BY DEF Init, NoQuery, Answer, Open
  <1> QED
    BY <1>1, <1>2 DEF Sound, SoundJobs, SoundQueries, SoundQuery, UpFirst, Jobs

\* The step at which a query is refused has a reason.
LEMMA ReasonStep ==
    ASSUME IInv, Sound, [Next]_vars, NEW q \in Queries,
           query[q].pc # "refused", query'[q].pc = "refused"
    PROVE  \/ q \in Foreign
           \/ query[q].pc = "wait" /\ ~job[query[q].server].ok
           \/ query[q].disturbed
           \/ \E j \in Jobs : job[j].pc = "work"
  <1>0. query \in [Queries -> QueryRecord] /\ query[q] \in QueryRecord
    BY DEF IInv, TypeInv
  <1>d. \A pc \in QueryPc : Answer(pc).pc = pc
    BY DEF Answer
  <1>1. ASSUME NEW s \in Servers, ServerSeesExit(s)
        PROVE  query[q].pc = "wait" /\ ~job[query[q].server].ok
    <2>1. query'[q] = IF query[q].pc = "wait" /\ query[q].server = s
                      THEN IF job[s].ok THEN [query[q] EXCEPT !.pc = "again"]
                           ELSE Answer("refused")
                      ELSE query[q]
      BY <1>1 DEF ServerSeesExit
    <2> QED
      BY <1>0, <2>1 DEF QueryRecord
  <1>2. ASSUME NEW p \in Queries, QueryStart(p) PROVE FALSE
    BY <1>0, <1>2 DEF QueryStart
  <1>3. ASSUME NEW p \in Queries, QueryRead(p) PROVE FALSE
    BY <1>0, <1>3, <1>d DEF QueryRead, QueryPc, QueryRecord
  <1>4. ASSUME NEW p \in Queries, QueryAlign(p) PROVE FALSE
    BY <1>0, <1>4 DEF QueryAlign, QueryRecord
  <1>5. ASSUME NEW p \in Queries, QueryAgain(p)
        PROVE  q \in Foreign \/ query[q].disturbed \/ \E j \in Jobs : job[j].pc = "work"
    <2>1. p = q /\ query[q].pc = "again"
      BY <1>0, <1>5 DEF QueryAgain
    <2> SUFFICES ASSUME q \notin Foreign, ~query[q].disturbed,
                        \A j \in Jobs : job[j].pc # "work"
                 PROVE  FALSE
      OBVIOUS
    <2>2. query[q].version = version /\ Good
      BY <2>1 DEF Sound, SoundQueries, SoundQuery, Open
    <2>3. Ready(q) = {TRUE}
      BY <2>2 DEF Ready, Good
    <2>4. query'[q] = Answer("served")
      BY <1>0, <1>5, <2>1, <2>3 DEF QueryAgain
    <2> QED
      BY <1>d, <2>4 DEF QueryPc
  <1>6. CASE query' = query
    BY <1>6
  <1>7. ASSUME DisturbQueries PROVE FALSE
    BY <1>0, <1>7 DEF DisturbQueries, QueryRecord
  <1> QED
    BY <1>1, <1>2, <1>3, <1>4, <1>5, <1>6, <1>7
       DEF Next, QueryStep, JobStep, JobWaitStep, ServerStart, UserStart, JobLock, JobFindLocked,
           JobFindStale, JobSleep, JobSteal, JobGoes, JobLockTimeout, JobVerify, JobInvalidate,
           JobDone, JobFail, JobKilled, Fault, GraphChange, Tick, vars

\* A query is refused after its alignment only when that harness failed, the
\* query is about another project, something happened since it was asked, the
\* next harness is at work already, or harnesses may have worked together.
THEOREM RefusedForAReasonAlways == Spec => RefusedForAReason
  <1> DEFINE Reason ==
        \A q \in Queries :
           query[q].pc # "refused" /\ query'[q].pc = "refused" =>
              \/ q \in Foreign
              \/ query[q].pc = "wait" /\ ~job[query[q].server].ok
              \/ query[q].disturbed
              \/ \E j \in Jobs : job[j].pc = "work"
              \/ excused
             Inv == TypeInv /\ (~excused => IInv /\ Sound)
  <1>1. Inv /\ [Next]_vars => Reason
    BY ReasonStep
  <1>2. Inv /\ [Next]_vars => Inv'
    BY TypeStep, Step, InTimeStep, ExcuseStays, SoundStep DEF IInv
  <1>3. Init => Inv
    BY IInvInit, TypeInit, SoundInit
  <1> HIDE DEF Reason, Inv
  <1>4. Spec => [][Reason]_vars
    BY <1>1, <1>2, <1>3, PTL DEF Spec
  <1> QED
    BY <1>4 DEF Reason, RefusedForAReason
=============================================================================
