-------------------------- MODULE ToolCallsProofs --------------------------
(***************************************************************************)
(* A tool call keeps to its project, for every number of projects and      *)
(* calls: a write stays where it was sent (WritesStayHomeAlways), a call   *)
(* with known roots is never resolved against the directory of the process *)
(* (RootsFirst), the web service's swaps of ARGO_REPO_ROOT undo one        *)
(* another when they nest (EnvComesBack), prompt writes keep their order   *)
(* (InOrderAlways), projects without a database setting keep their         *)
(* databases apart (Apart), and a query that nothing came across aligns its *)
(* own project (AlignsItsProjectAlways).                                   *)
(***************************************************************************)
EXTENDS ToolCalls, WellFoundedInduction, SequenceTheorems, TLAPS

CallRecord ==
    [pc : CallPc, kind : {"write", "query"}, want : Projects \union {None},
     session : BOOLEAN, root : Places \union {None}, aim : Places \union {None},
     saved : Projects \union {None}, late : BOOLEAN, strayed : BOOLEAN,
     answer : Answers]

\* What the arguments below need of the types.
TypeInv ==
    /\ host \in [kind : {"web", "stdio"}, trusted : BOOLEAN, embedded : Projects \union {None}]
    /\ env \in Projects \union {None}
    /\ roots \in Projects \union {None}
    /\ call \in [Calls -> CallRecord]
    /\ lock \in [Projects -> Calls \union {None}]
    /\ graph \in [Projects -> SUBSET Calls]

-----------------------------------------------------------------------------
(* The operators that make a call's record                                 *)

LEMMA Constants ==
    /\ Cwd \notin Projects /\ None \notin Projects /\ None # Cwd
    /\ None \notin Calls /\ Calls \subseteq Nat
    /\ Projects \subseteq Places /\ Cwd \in Places
  BY CallConstants DEF Places, Calls

LEMMA NewType == NewCall \in CallRecord
  BY DEF NewCall, CallRecord, CallPc, Answers

\* A call that is over is inactive and keeps no root.
LEMMA DoneType ==
    ASSUME NEW k \in CallRecord
    PROVE  /\ Done(k) \in CallRecord
           /\ Done(k).pc = "done" /\ Done(k).root = None /\ Done(k).aim = None
           /\ Done(k).late = k.late
  <1>1. k.late \in BOOLEAN
    BY DEF CallRecord
  <1> QED
    BY <1>1, NewType DEF Done, NewCall, CallRecord, CallPc

\* A move of the process-wide root leaves a call where it is.
LEMMA StrayedType ==
    ASSUME NEW k \in CallRecord
    PROVE  /\ Strayed(k) \in CallRecord
           /\ Strayed(k).pc = k.pc /\ Strayed(k).kind = k.kind
           /\ Strayed(k).root = k.root /\ Strayed(k).aim = k.aim
           /\ Strayed(k).saved = k.saved /\ Strayed(k).late = k.late
  BY DEF Strayed, CallRecord

\* A call is dispatched to one root for good, which is a project unless the
\* call returns at once; a write goes to the lock first.
LEMMA DispatchedType ==
    ASSUME NEW k \in CallRecord, NEW home \in Places
    PROVE  LET d == Dispatched(k, home) IN
           /\ d \in CallRecord
           /\ d.root = d.aim /\ d.saved = k.saved /\ d.kind = k.kind /\ d.late = k.late
           /\ d.pc \in {"return", "lock", "recover", "check"}
           /\ d.pc = "lock" => d.kind = "write"
           /\ d.pc # "return" => d.root \in Projects
           /\ d.pc = "recover" => d.kind = "query"
           /\ home # Cwd => d.root # Cwd
           /\ k.want = None => d.aim = home
  <1> DEFINE root == Target(k, home)
             pc == IF ~Allowed(k, home) \/ root = Cwd THEN "return"
                   ELSE IF k.kind = "write" THEN "lock" ELSE Load(k, root)
             answer == IF ~Allowed(k, home) THEN "denied"
                       ELSE IF root = Cwd THEN "failed" ELSE "none"
             d == [k EXCEPT !.root = root, !.aim = root, !.strayed = root # home,
                            !.pc = pc, !.answer = answer]
  <1>1. Dispatched(k, home) = d
    BY DEF Dispatched
  <1>2. /\ root \in Places
        /\ home # Cwd => root # Cwd
        /\ k.want = None => root = home
    BY Constants DEF Target, CallRecord
  <1>3. /\ pc \in {"return", "lock", "recover", "check"}
        /\ pc # "return" => root \in Projects
        /\ pc = "recover" => k.kind = "query"
        /\ pc = "lock" => k.kind = "write"
    BY <1>2 DEF Load, CallRecord, Places
  <1>4. answer \in Answers
    BY DEF Answers
  <1> HIDE DEF root, pc, answer
  <1>5. d \in CallRecord
    BY <1>2, <1>3, <1>4 DEF CallRecord, CallPc
  <1>6. d.root = root /\ d.aim = root /\ d.saved = k.saved /\ d.kind = k.kind
        /\ d.pc = pc /\ d.late = k.late
    BY DEF CallRecord
  <1> QED
    BY <1>1, <1>2, <1>3, <1>5, <1>6

-----------------------------------------------------------------------------
(* A call keeps its root, and the lock of that root                        *)

\* A record's root is the one the sender meant, and a project while the call
\* works on one.
Placed(k) ==
    /\ k.root = k.aim
    /\ k.pc \in {"lock", "recover", "write", "project"} => k.root \in Projects

\* Between its lock and the end of its write a call must hold the lock.
Guarded(k) == k.pc \in {"write", "project"} \/ (k.pc = "recover" /\ k.kind = "write")

Home == \A c \in Calls : Placed(call[c]) /\ (Guarded(call[c]) => lock[call[c].root] = c)

HomeInv == TypeInv /\ Home

LEMMA HomeInit == Init => HomeInv
  <1> SUFFICES ASSUME Init PROVE HomeInv
    OBVIOUS
  <1>1. call \in [Calls -> CallRecord]
    BY NewType DEF Init
  <1>2. Home
    BY DEF Init, Home, Placed, Guarded, NewCall
  <1>3. env \in Projects \union {None}
    BY DEF Init
  <1>4. host \in [kind : {"web", "stdio"}, trusted : BOOLEAN, embedded : Projects \union {None}]
    BY CallConstants DEF Init
  <1> QED
    BY <1>1, <1>2, <1>3, <1>4 DEF Init, HomeInv, TypeInv

\* A request has no root yet.
LEMMA RequestType ==
    ASSUME HomeInv, NEW kind \in {"write", "query"}, NEW want \in Projects \union {None}
    PROVE  LET k == Request(kind, want) IN
           /\ k \in CallRecord
           /\ k.pc = "new" /\ k.root = None /\ k.aim = None /\ k.saved = None
           /\ ~k.late
  <1> DEFINE session == host.trusted /\ want # None
             k == [NewCall EXCEPT !.kind = kind, !.want = want, !.session = session]
  <1>1. Request(kind, want) = k
    BY DEF Request
  <1>2. session \in BOOLEAN
    BY DEF HomeInv, TypeInv
  <1> HIDE DEF session
  <1>3. k \in CallRecord
    BY <1>2, NewType DEF CallRecord
  <1>4. k.pc = "new" /\ k.root = None /\ k.aim = None /\ k.saved = None /\ ~k.late
    BY DEF NewCall
  <1> QED
    BY <1>1, <1>3, <1>4

\* A step in which one call goes on, to a place where it needs no lock or
\* has it, and the others keep their locks.
LEMMA OneCallMoves ==
    ASSUME HomeInv, NEW c \in Calls, NEW new \in CallRecord,
           call' = [call EXCEPT ![c] = new],
           UNCHANGED <<host, env, roots>>,
           graph' \in [Projects -> SUBSET Calls],
           lock' \in [Projects -> Calls \union {None}],
           Placed(new), Guarded(new) => lock'[new.root] = c,
           \A d \in Calls \ {c}, p \in Projects : lock[p] = d => lock'[p] = d
    PROVE  HomeInv'
  <1>1. call' \in [Calls -> CallRecord]
    BY DEF HomeInv, TypeInv
  <1>2. \A d \in Calls \ {c} : call'[d] = call[d]
    BY DEF HomeInv, TypeInv
  <1>3. call'[c] = new
    BY DEF HomeInv, TypeInv
  <1>4. ASSUME NEW d \in Calls \ {c}
        PROVE  Placed(call[d]) /\ (Guarded(call[d]) => lock'[call[d].root] = d)
    <2>1. Placed(call[d]) /\ (Guarded(call[d]) => lock[call[d].root] = d)
      BY DEF HomeInv, Home
    <2>2. Guarded(call[d]) => call[d].root \in Projects
      BY <2>1 DEF Placed, Guarded
    <2> QED
      BY <2>1, <2>2
  <1>5. Home'
    BY <1>2, <1>3, <1>4 DEF Home
  <1> QED
    BY <1>1, <1>5 DEF HomeInv, TypeInv

\* A step that starts or marks any number of calls, none of which has a lock
\* yet, and changes no lock.
LEMMA CallsStart ==
    ASSUME HomeInv,
           UNCHANGED <<host, lock, graph>>,
           env' \in Projects \union {None}, roots' \in Projects \union {None},
           call' \in [Calls -> CallRecord],
           \A c \in Calls :
              \/ call'[c] = call[c]
              \/ call'[c] = Strayed(call[c])
              \/ Placed(call'[c]) /\ ~Guarded(call'[c])
    PROVE  HomeInv'
  <1>1. ASSUME NEW c \in Calls
        PROVE  Placed(call'[c]) /\ (Guarded(call'[c]) => lock[call'[c].root] = c)
    <2>1. Placed(call[c]) /\ (Guarded(call[c]) => lock[call[c].root] = c)
      BY DEF HomeInv, Home
    <2>2. call[c] \in CallRecord
      BY DEF HomeInv, TypeInv
    <2>3. CASE call'[c] = Strayed(call[c])
      BY <2>1, <2>2, <2>3, StrayedType DEF Placed, Guarded
    <2> QED
      BY <2>1, <2>3
  <1>2. Home'
    BY <1>1 DEF Home
  <1> QED
    BY <1>2 DEF HomeInv, TypeInv

\* Which root the process is at, at any time.
LEMMA WorkspaceType ==
    ASSUME HomeInv, NEW e \in Projects \union {None}, NEW r \in Projects \union {None}
    PROVE  /\ RootOf(e, r) \in Places
           /\ e # None \/ r # None \/ host.embedded # None => RootOf(e, r) # Cwd
  <1>1. host.embedded \in Projects \union {None}
    BY DEF HomeInv, TypeInv
  <1> QED
    BY <1>1, Constants DEF RootOf

\* The roots arrive: every deferred call is dispatched.
LEMMA SettleStep ==
    ASSUME HomeInv, NEW r \in Projects \union {None}, Settle(r)
    PROVE  HomeInv'
  <1> DEFINE home == RootOf(env, r)
  <1>1. home \in Places
    BY WorkspaceType DEF HomeInv, TypeInv
  <1>2. /\ call' = [c \in Calls |-> IF call[c].pc = "deferred" THEN Dispatched(call[c], home)
                                    ELSE Strayed(call[c])]
        /\ UNCHANGED <<host, lock, graph, env>> /\ roots' = r
    BY DEF Settle, hostVars, dataVars
  <1> HIDE DEF home
  <1>3. \A c \in Calls : call[c] \in CallRecord
    BY DEF HomeInv, TypeInv
  <1>4. \A c \in Calls : /\ Dispatched(call[c], home) \in CallRecord
                         /\ Placed(Dispatched(call[c], home))
                         /\ ~Guarded(Dispatched(call[c], home))
    BY <1>1, <1>3, DispatchedType DEF Placed, Guarded
  <1>5. call' \in [Calls -> CallRecord]
    BY <1>2, <1>3, <1>4, StrayedType
  <1>6. env' \in Projects \union {None} /\ roots' \in Projects \union {None}
    BY <1>2 DEF HomeInv, TypeInv
  <1>7. \A c \in Calls : \/ call'[c] = Strayed(call[c])
                         \/ Placed(call'[c]) /\ ~Guarded(call'[c])
    BY <1>2, <1>4
  <1> QED
    BY <1>2, <1>5, <1>6, <1>7, CallsStart

LEMMA HomeStep == HomeInv /\ [Next]_vars => HomeInv'
  <1> SUFFICES ASSUME HomeInv, [Next]_vars PROVE HomeInv'
    OBVIOUS
  <1>0. /\ call \in [Calls -> CallRecord]
        /\ lock \in [Projects -> Calls \union {None}]
        /\ graph \in [Projects -> SUBSET Calls]
        /\ env \in Projects \union {None} /\ roots \in Projects \union {None}
    BY DEF HomeInv, TypeInv
  <1>a. \A c \in Calls : /\ call[c] \in CallRecord
                         /\ Placed(call[c])
                         /\ Guarded(call[c]) => lock[call[c].root] = c
    BY <1>0 DEF HomeInv, Home
  <1>b. Placed(NewCall) /\ ~Guarded(NewCall)
    BY DEF Placed, Guarded, NewCall
  <1>c. \A c \in Calls : /\ Done(call[c]) \in CallRecord
                         /\ Placed(Done(call[c])) /\ ~Guarded(Done(call[c]))
    BY <1>a, DoneType DEF Placed, Guarded
  <1>d. ASSUME NEW k \in CallRecord, NEW home \in Places
        PROVE  /\ Dispatched(k, home) \in CallRecord
               /\ Placed(Dispatched(k, home)) /\ ~Guarded(Dispatched(k, home))
    BY DispatchedType DEF Placed, Guarded
  <1>e. Workspace \in Places
    BY <1>0, WorkspaceType DEF Workspace
  <1>1. ASSUME NEW c \in Calls, WebCall(c) PROVE HomeInv'
    <2>1. PICK p \in Projects, kind \in {"write", "query"} :
             LET k == [NewCall EXCEPT !.kind = kind, !.saved = env]
             IN  /\ env' = p
                 /\ call' = [d \in Calls |->
                               IF d = c THEN Dispatched(k, p) ELSE Strayed(call[d])]
      BY <1>1 DEF WebCall
    <2> DEFINE k == [NewCall EXCEPT !.kind = kind, !.saved = env]
    <2>2. k \in CallRecord
      BY <1>0, NewType DEF CallRecord, NewCall
    <2>3. call' = [d \in Calls |-> IF d = c THEN Dispatched(k, p) ELSE Strayed(call[d])]
      BY <2>1
    <2> HIDE DEF k
    <2>4. /\ Dispatched(k, p) \in CallRecord
          /\ Placed(Dispatched(k, p)) /\ ~Guarded(Dispatched(k, p))
      BY <1>d, <2>2, Constants
    <2>5. \A d \in Calls : Strayed(call[d]) \in CallRecord
      BY <1>a, StrayedType
    <2>6. call' \in [Calls -> CallRecord]
      BY <2>3, <2>4, <2>5
    <2>7. \A d \in Calls : \/ call'[d] = Strayed(call[d])
                           \/ Placed(call'[d]) /\ ~Guarded(call'[d])
      BY <2>3, <2>4
    <2>8. /\ env' \in Projects \union {None} /\ roots' \in Projects \union {None}
          /\ UNCHANGED <<host, lock, graph>>
      BY <1>0, <1>1, <2>1 DEF WebCall, hostVars, dataVars
    <2> QED
      BY <2>6, <2>7, <2>8, CallsStart
  <1>2. ASSUME NEW c \in Calls, WebReturn(c) PROVE HomeInv'
    <2>1. call' = [d \in Calls |-> IF d = c THEN Done(call[c]) ELSE Strayed(call[d])]
      BY <1>2 DEF WebReturn
    <2>2. \A d \in Calls : Strayed(call[d]) \in CallRecord
      BY <1>a, StrayedType
    <2>3. call' \in [Calls -> CallRecord]
      BY <1>c, <2>1, <2>2
    <2>4. \A d \in Calls : \/ call'[d] = Strayed(call[d])
                           \/ Placed(call'[d]) /\ ~Guarded(call'[d])
      BY <1>c, <2>1
    <2>5. env' \in Projects \union {None}
      BY <1>a, <1>2 DEF WebReturn, CallRecord
    <2>6. roots' \in Projects \union {None} /\ UNCHANGED <<host, lock, graph>>
      BY <1>0, <1>2 DEF WebReturn, hostVars, dataVars
    <2> QED
      BY <2>3, <2>4, <2>5, <2>6, CallsStart
  <1>3. ASSUME NEW c \in Calls, NEW kind \in {"write", "query"},
               NEW want \in Projects \union {None}, Message(c), Start(c, Request(kind, want))
        PROVE  HomeInv'
    <2> DEFINE k == Request(kind, want)
    <2>1. k \in CallRecord
      BY <1>3, RequestType
    <2>2. call' = [call EXCEPT ![c] = Dispatched(k, Workspace)]
      BY <1>3 DEF Start
    <2>3. UNCHANGED <<host, env, roots, lock, graph>>
      BY <1>3 DEF Message, hostVars, dataVars
    <2> HIDE DEF k
    <2> QED
      BY <1>0, <1>d, <1>e, <2>1, <2>2, <2>3, OneCallMoves
  <1>4. ASSUME NEW c \in Calls, ReadCall(c) PROVE HomeInv'
    BY <1>3, <1>4 DEF ReadCall
  <1>5. ASSUME NEW c \in Calls, DeferCall(c) PROVE HomeInv'
    <2>1. PICK kind \in {"write", "query"}, want \in Projects \union {None} :
             call' = [call EXCEPT ![c] = [Request(kind, want) EXCEPT !.pc = "deferred",
                                                                     !.late = TRUE]]
      BY <1>5 DEF DeferCall
    <2> DEFINE k == Request(kind, want)
               new == [k EXCEPT !.pc = "deferred", !.late = TRUE]
    <2>2. new \in CallRecord /\ Placed(new) /\ ~Guarded(new)
      <3>1. k \in CallRecord /\ k.root = k.aim
        BY RequestType
      <3>2. new \in CallRecord /\ new.pc = "deferred" /\ new.root = new.aim
        BY <3>1 DEF CallRecord, CallPc
      <3> QED
        BY <3>2 DEF Placed, Guarded
    <2>3. UNCHANGED <<host, env, roots, lock, graph>>
      BY <1>5 DEF DeferCall, Message, hostVars, dataVars
    <2> HIDE DEF new
    <2>4. call' = [call EXCEPT ![c] = new]
      BY <2>1 DEF new
    <2> QED
      BY <1>0, <2>2, <2>3, <2>4, OneCallMoves
  <1>6. ASSUME NEW c \in Calls, Reply(c) PROVE HomeInv'
    <2>1. call' = [call EXCEPT ![c] = Done(call[c])] /\ UNCHANGED <<host, env, roots, lock, graph>>
      BY <1>6 DEF Reply, hostVars, dataVars
    <2> QED
      BY <1>0, <1>c, <2>1, OneCallMoves
  <1>7. CASE AskRoots
    <2>1. UNCHANGED <<host, env, roots, lock, graph, call>>
      BY <1>7 DEF AskRoots, hostVars, dataVars
    <2> QED
      BY <1>0, <2>1, CallsStart
  <1>8. CASE RootsAnswer \/ RootsTimer
    BY <1>0, <1>8, SettleStep DEF RootsAnswer, RootsTimer
  <1>9. CASE RootsChanged
    <2>1. PICK r \in Projects \union {None} :
             \/ Settle(r)
             \/ /\ roots' = r
                /\ call' = [c \in Calls |-> Strayed(call[c])]
                /\ UNCHANGED <<host, lock, graph, env>>
      BY <1>9 DEF RootsChanged, hostVars, dataVars
    <2>2. \A c \in Calls : Strayed(call[c]) \in CallRecord
      BY <1>a, StrayedType
    <2>3. CASE ~Settle(r)
      <3>1. call' \in [Calls -> CallRecord] /\ \A c \in Calls : call'[c] = Strayed(call[c])
        BY <2>1, <2>2, <2>3
      <3> QED
        BY <1>0, <2>1, <2>3, <3>1, CallsStart
    <2> QED
      BY <2>3, SettleStep
  <1>10. ASSUME NEW c \in Calls, CallStep(c) PROVE HomeInv'
    <2>0. UNCHANGED <<host, env, roots>>
      BY <1>10 DEF CallStep, TakeLock, LockTimeout, Recover, Write, Refuse, AfterWrite, Check,
                   Align, Again, CallOnly, hostVars, rootVars
    <2>a. ASSUME NEW pc \in CallPc
          PROVE  /\ [call[c] EXCEPT !.pc = pc] \in CallRecord
                 /\ [call[c] EXCEPT !.pc = pc].pc = pc
                 /\ [call[c] EXCEPT !.pc = pc].kind = call[c].kind
                 /\ [call[c] EXCEPT !.pc = pc].root = call[c].root
                 /\ [call[c] EXCEPT !.pc = pc].aim = call[c].aim
      BY <1>a DEF CallRecord
    <2>c. \A pc : GoTo(c, pc) => call' = [call EXCEPT ![c] = [call[c] EXCEPT !.pc = pc]]
      BY <1>0 DEF GoTo
    <2>d. \A answer : Finish(c, answer) =>
             call' = [call EXCEPT ![c] = [call[c] EXCEPT !.pc = "return", !.answer = answer]]
      BY <1>0 DEF Finish
    <2>e. call[c].root = call[c].aim
      BY <1>a DEF Placed
    <2>f. {"recover", "write", "project", "check", "align", "wait", "again", "return"} \subseteq CallPc
          /\ {"written", "served", "refused", "failed"} \subseteq Answers
      BY DEF CallPc, Answers
    \* The call goes to a place where it needs no lock.
    <2>g. ASSUME NEW pc \in {"check", "align", "wait", "return"}, GoTo(c, pc),
                 graph' = graph, lock' \in [Projects -> Calls \union {None}],
                 \A d \in Calls \ {c}, p \in Projects : lock[p] = d => lock'[p] = d
          PROVE  HomeInv'
      <3> DEFINE new == [call[c] EXCEPT !.pc = pc]
      <3>1. new \in CallRecord /\ Placed(new) /\ ~Guarded(new)
        BY <2>a, <2>e, <2>f DEF Placed, Guarded
      <3>2. call' = [call EXCEPT ![c] = new]
        BY <2>c, <2>g
      <3> HIDE DEF new
      <3> QED
        BY <1>0, <2>0, <2>g, <3>1, <3>2, OneCallMoves
    <2>h. ASSUME NEW answer \in Answers, Finish(c, answer),
                 graph' = graph, lock' \in [Projects -> Calls \union {None}],
                 \A d \in Calls \ {c}, p \in Projects : lock[p] = d => lock'[p] = d
          PROVE  HomeInv'
      <3> DEFINE new == [call[c] EXCEPT !.pc = "return", !.answer = answer]
      <3>0. new \in CallRecord /\ new.pc = "return" /\ new.root = new.aim
        BY <1>a, <2>e DEF CallRecord, CallPc
      <3>1. new \in CallRecord /\ Placed(new) /\ ~Guarded(new)
        BY <3>0 DEF Placed, Guarded
      <3>2. call' = [call EXCEPT ![c] = new]
        BY <2>d, <2>h
      <3> HIDE DEF new
      <3> QED
        BY <1>0, <2>0, <2>h, <3>1, <3>2, OneCallMoves
    <2>i. Release(c) => /\ lock' \in [Projects -> Calls \union {None}]
                        /\ \A d \in Calls \ {c}, p \in Projects : lock[p] = d => lock'[p] = d
      BY <1>0 DEF Release
    <2>1. CASE TakeLock(c)
      <3> DEFINE pc == Load(call[c], call[c].root)
                 new == [call[c] EXCEPT !.pc = pc]
      <3>1. call[c].root \in Projects /\ lock[call[c].root] = None
        BY <1>a, <2>1 DEF TakeLock, Placed
      <3>2. pc \in {"recover", "write", "check"}
        BY DEF Load
      <3>3. lock' = [lock EXCEPT ![call[c].root] = c] /\ graph' = graph /\ GoTo(c, pc)
        BY <2>1 DEF TakeLock
      <3> HIDE DEF pc
      <3>4. call' = [call EXCEPT ![c] = new]
        BY <2>c, <3>3
      <3>5. new \in CallRecord /\ Placed(new) /\ new.root = call[c].root
        BY <2>a, <2>e, <2>f, <3>1, <3>2 DEF Placed
      <3>6. lock'[new.root] = c
        BY <1>0, <3>1, <3>3, <3>5
      <3>7. lock' \in [Projects -> Calls \union {None}]
            /\ \A d \in Calls \ {c}, p \in Projects : lock[p] = d => lock'[p] = d
        BY <1>0, <3>1, <3>3, Constants
      <3> HIDE DEF new
      <3> QED
        BY <1>0, <2>0, <3>3, <3>4, <3>5, <3>6, <3>7, OneCallMoves
    <2>2. CASE LockTimeout(c)
      <3>1. Finish(c, "failed") /\ lock' = lock /\ graph' = graph
        BY <2>2 DEF LockTimeout, dataVars
      <3> QED
        BY <1>0, <2>f, <2>h, <3>1
    <2>3. CASE Recover(c)
      <3> DEFINE pc == IF call[c].kind = "write" THEN "write" ELSE "check"
                 new == [call[c] EXCEPT !.pc = pc]
      <3>1. lock' = lock /\ graph' = graph /\ GoTo(c, pc)
        BY <2>3 DEF Recover
      <3>2. call[c].root \in Projects /\ (call[c].kind = "write" => lock[call[c].root] = c)
        BY <1>a, <2>3 DEF Recover, Placed, Guarded
      <3>3. call' = [call EXCEPT ![c] = new]
        BY <2>c, <3>1
      <3>4. new \in CallRecord /\ Placed(new) /\ new.root = call[c].root
            /\ (Guarded(new) => call[c].kind = "write")
        BY <2>a, <2>e, <2>f, <3>2 DEF Placed, Guarded
      <3> HIDE DEF new, pc
      <3> QED
        BY <1>0, <2>0, <3>1, <3>2, <3>3, <3>4, OneCallMoves
    <2>4. CASE Write(c)
      <3> DEFINE new == [call[c] EXCEPT !.pc = "project", !.answer = "written"]
      <3>1. call[c].root \in Projects /\ lock[call[c].root] = c
        BY <1>a, <2>4 DEF Write, Placed, Guarded
      <3>2. call' = [call EXCEPT ![c] = new]
        BY <1>0, <2>4 DEF Write
      <3>3. lock' = lock /\ graph' \in [Projects -> SUBSET Calls]
        BY <1>0, <2>4, <3>1 DEF Write
      <3>a. new \in CallRecord /\ new.root = call[c].root /\ new.root = new.aim
        BY <1>a, <2>e DEF CallRecord, CallPc, Answers
      <3>4. new \in CallRecord /\ Placed(new) /\ new.root = call[c].root
        BY <3>1, <3>a DEF Placed
      <3> HIDE DEF new
      <3> QED
        BY <1>0, <2>0, <3>1, <3>2, <3>3, <3>4, OneCallMoves
    <2>5. CASE Refuse(c)
      BY <2>5, <2>f, <2>h, <2>i DEF Refuse
    <2>6. CASE AfterWrite(c)
      BY <2>6, <2>g, <2>i DEF AfterWrite
    <2>7. CASE Check(c)
      BY <1>0, <2>7, <2>f, <2>g, <2>h DEF Check, dataVars
    <2>8. CASE Align(c)
      BY <1>0, <2>8, <2>g DEF Align
    <2>9. CASE Again(c)
      BY <1>0, <2>9, <2>f, <2>h DEF Again, dataVars
    <2> QED
      BY <1>10, <2>1, <2>2, <2>3, <2>4, <2>5, <2>6, <2>7, <2>8, <2>9 DEF CallStep
  <1>11. CASE AlignEnds
    <2>1. PICK ok \in BOOLEAN :
             call' = [c \in Calls |->
                        IF call[c].pc # "wait" THEN call[c]
                        ELSE IF ok THEN [call[c] EXCEPT !.pc = "again"]
                        ELSE [call[c] EXCEPT !.pc = "return", !.answer = "refused"]]
      BY <1>11 DEF AlignEnds
    <2>2. ASSUME NEW c \in Calls
          PROVE  /\ [call[c] EXCEPT !.pc = "again"] \in CallRecord
                 /\ Placed([call[c] EXCEPT !.pc = "again"])
                 /\ ~Guarded([call[c] EXCEPT !.pc = "again"])
                 /\ [call[c] EXCEPT !.pc = "return", !.answer = "refused"] \in CallRecord
                 /\ Placed([call[c] EXCEPT !.pc = "return", !.answer = "refused"])
                 /\ ~Guarded([call[c] EXCEPT !.pc = "return", !.answer = "refused"])
      BY <1>a DEF CallRecord, CallPc, Answers, Placed, Guarded
    <2>3. call' \in [Calls -> CallRecord]
          /\ \A c \in Calls : call'[c] = call[c] \/ (Placed(call'[c]) /\ ~Guarded(call'[c]))
      BY <1>a, <2>1, <2>2
    <2>4. UNCHANGED <<host, env, roots, lock, graph>>
      BY <1>11 DEF AlignEnds, CallOnly, hostVars, rootVars
    <2> QED
      BY <1>0, <2>3, <2>4, CallsStart
  <1>12. CASE UNCHANGED vars
    <2>1. UNCHANGED <<host, env, roots, lock, graph, call>>
      BY <1>12 DEF vars, hostVars, rootVars, dataVars
    <2> QED
      BY <1>0, <2>1, CallsStart
  <1> QED
    BY <1>1, <1>2, <1>4, <1>5, <1>6, <1>7, <1>8, <1>9, <1>10, <1>11, <1>12 DEF Next, Return

LEMMA HomeAlways == Spec => []HomeInv
  BY HomeInit, HomeStep, PTL DEF Spec

\* Only a write changes a graph: that of its call's root.
LEMMA OnlyWritesWrite ==
    ASSUME HomeInv, [Next]_vars,
           NEW p \in Projects, NEW c \in graph'[p] \ graph[p]
    PROVE  call[c].aim = p /\ lock[p] = c
  <1>1. graph \in [Projects -> SUBSET Calls]
    BY DEF HomeInv, TypeInv
  <1>2. CASE \E d \in Calls : Write(d)
    <2>1. PICK d \in Calls : Write(d)
      BY <1>2
    <2>2. call[d].pc = "write" /\ graph' = [graph EXCEPT ![call[d].root] = @ \union {d}]
      BY <2>1 DEF Write
    <2>3. call[d].root = call[d].aim /\ lock[call[d].root] = d
      BY <2>2 DEF HomeInv, Home, Placed, Guarded
    <2>4. p = call[d].root /\ c = d
      BY <1>1, <2>2
    <2> QED
      BY <2>3, <2>4
  <1>3. CASE ~\E d \in Calls : Write(d)
    <2>1. graph' = graph
      BY <1>3 DEF Next, CallStep, Return, WebCall, WebReturn, Reply, ReadCall, DeferCall, Message,
                  Start, AskRoots, RootsAnswer, RootsTimer, RootsChanged, Settle, AlignEnds,
                  TakeLock, LockTimeout, Recover, Refuse, AfterWrite, Check, Align, Again,
                  vars, dataVars
    <2> QED
      BY <2>1
  <1> QED
    BY <1>2, <1>3

\* A write changes the project it was sent to, under the lock it waited for,
\* however the process-wide root moves meanwhile.
THEOREM WritesStayHomeAlways == Spec => WritesStayHome
  <1> DEFINE HomeWrites ==
        \A p \in Projects : \A c \in graph'[p] \ graph[p] : call[c].aim = p /\ lock[p] = c
  <1>1. HomeInv /\ [Next]_vars => [HomeWrites]_vars
    BY OnlyWritesWrite
  <1>2. WritesStayHome <=> [][HomeWrites]_vars
    BY DEF WritesStayHome
  <1> HIDE DEF HomeWrites
  <1> QED
    BY HomeAlways, <1>1, <1>2, PTL DEF Spec

-----------------------------------------------------------------------------
(* A call with known roots is not resolved against the process's directory *)

\* Unless the client was silent or named no root, settled roots are known.
Settled == ~rootless /\ hand = "settled" => roots # None

RootsInv == Settled /\ WaitsForRoots

LEMMA RootsInit == Init => RootsInv
  BY Constants DEF Init, RootsInv, Settled, WaitsForRoots, NewCall

\* The roots that settle the handshake are known, or this is recorded.
LEMMA SettleRoots ==
    ASSUME HomeInv, RootsInv, NEW r \in Projects \union {None}, Settle(r),
           rootless \/ r = None => rootless'
    PROVE  RootsInv'
  <1>1. roots' = r
    BY DEF Settle
  <1>2. ASSUME NEW c \in Calls, ~rootless' PROVE call'[c].root # Cwd
    <2> DEFINE home == RootOf(env, r)
    <2>1. home \in Places /\ home # Cwd
      BY <1>2, WorkspaceType DEF HomeInv, TypeInv
    <2>2. call'[c] = IF call[c].pc = "deferred" THEN Dispatched(call[c], home)
                      ELSE Strayed(call[c])
      BY DEF Settle
    <2>3. call[c] \in CallRecord /\ call[c].root # Cwd
      BY <1>2 DEF HomeInv, TypeInv, RootsInv, WaitsForRoots
    <2> HIDE DEF home
    <2> QED
      BY <2>1, <2>2, <2>3, DispatchedType, StrayedType
  <1> QED
    BY <1>1, <1>2 DEF RootsInv, Settled, WaitsForRoots

\* A step in which nothing is dispatched.
LEMMA SameRoots ==
    ASSUME RootsInv, UNCHANGED <<hand, rootless, roots>>,
           \A c \in Calls : call'[c].root \in {call[c].root, None}
    PROVE  RootsInv'
  BY Constants DEF RootsInv, Settled, WaitsForRoots

LEMMA RootsStep == HomeInv /\ RootsInv /\ [Next]_vars => RootsInv'
  <1> SUFFICES ASSUME HomeInv, RootsInv, [Next]_vars PROVE RootsInv'
    OBVIOUS
  <1>0. /\ call \in [Calls -> CallRecord]
        /\ env \in Projects \union {None} /\ roots \in Projects \union {None}
    BY DEF HomeInv, TypeInv
  <1>a. \A c \in Calls : call[c] \in CallRecord
    BY <1>0
  <1>1. ASSUME NEW c \in Calls, WebCall(c) PROVE RootsInv'
    <2>1. PICK p \in Projects, kind \in {"write", "query"} :
             LET k == [NewCall EXCEPT !.kind = kind, !.saved = env]
             IN  call' = [d \in Calls |->
                            IF d = c THEN Dispatched(k, p) ELSE Strayed(call[d])]
      BY <1>1 DEF WebCall
    <2> DEFINE k == [NewCall EXCEPT !.kind = kind, !.saved = env]
    <2>2. k \in CallRecord
      BY <1>0, NewType DEF CallRecord, NewCall
    <2>3. call' = [d \in Calls |-> IF d = c THEN Dispatched(k, p) ELSE Strayed(call[d])]
      BY <2>1
    <2> HIDE DEF k
    <2>4. Dispatched(k, p).root # Cwd
      BY <2>2, Constants, DispatchedType
    <2>5. \A d \in Calls : call'[d].root = call[d].root \/ call'[d].root # Cwd
      BY <1>a, <2>3, <2>4, StrayedType
    <2>6. UNCHANGED <<hand, rootless, roots>>
      BY <1>1 DEF WebCall
    <2> QED
      BY <2>5, <2>6 DEF RootsInv, Settled, WaitsForRoots
  <1>2. ASSUME NEW c \in Calls, WebReturn(c) \/ Reply(c) PROVE RootsInv'
    <2>1. \A d \in Calls : call'[d] \in {call[d], Strayed(call[d]), Done(call[d])}
      BY <1>0, <1>2 DEF WebReturn, Reply
    <2>2. \A d \in Calls : call'[d].root \in {call[d].root, None}
      BY <1>a, <2>1, StrayedType, DoneType
    <2>3. UNCHANGED <<hand, rootless, roots>>
      BY <1>2 DEF WebReturn, Reply
    <2> QED
      BY <2>2, <2>3, SameRoots
  <1>3. ASSUME NEW c \in Calls, ReadCall(c) PROVE RootsInv'
    <2>1. PICK kind \in {"write", "query"}, want \in Projects \union {None} :
             call' = [call EXCEPT ![c] = Dispatched(Request(kind, want), Workspace)]
      BY <1>3 DEF ReadCall, Start
    <2> DEFINE k == Request(kind, want)
    <2>2. k \in CallRecord
      BY RequestType
    <2>3. call' = [call EXCEPT ![c] = Dispatched(k, Workspace)]
      BY <2>1
    <2> HIDE DEF k
    <2>4. UNCHANGED <<hand, rootless, roots>>
      BY <1>3 DEF ReadCall, Message
    <2>5. ASSUME ~rootless PROVE Dispatched(k, Workspace).root # Cwd
      <3>1. env # None \/ roots # None \/ host.embedded # None
        BY <1>3, <2>5 DEF ReadCall, Static, RootsInv, Settled
      <3>2. Workspace \in Places /\ Workspace # Cwd
        BY <1>0, <3>1, WorkspaceType DEF Workspace
      <3> QED
        BY <2>2, <3>2, DispatchedType
    <2>6. \A d \in Calls : ~rootless => call'[d].root # Cwd
      BY <1>0, <2>3, <2>5 DEF RootsInv, WaitsForRoots
    <2> QED
      BY <2>4, <2>6 DEF RootsInv, Settled, WaitsForRoots
  <1>4. ASSUME NEW c \in Calls, DeferCall(c) PROVE RootsInv'
    <2>1. PICK kind \in {"write", "query"}, want \in Projects \union {None} :
             call' = [call EXCEPT ![c] = [Request(kind, want) EXCEPT !.pc = "deferred",
                                                                     !.late = TRUE]]
      BY <1>4 DEF DeferCall
    <2>2. Request(kind, want).root = None
      BY RequestType
    <2>3. \A d \in Calls : call'[d].root \in {call[d].root, None}
      BY <1>0, <2>1, <2>2
    <2>4. UNCHANGED <<hand, rootless, roots>>
      BY <1>4 DEF DeferCall, Message
    <2> QED
      BY <2>3, <2>4, SameRoots
  <1>5. CASE AskRoots
    BY <1>5 DEF AskRoots, RootsInv, Settled, WaitsForRoots
  <1>6. CASE RootsAnswer \/ RootsTimer
    BY <1>0, <1>6, SettleRoots DEF RootsAnswer, RootsTimer
  <1>7. CASE RootsChanged
    <2>1. PICK r \in Projects \union {None} :
             \/ Settle(r) /\ r # None /\ UNCHANGED rootless
             \/ /\ roots' = r /\ hand' = hand
                /\ rootless' = (rootless \/ r = None)
                /\ call' = [c \in Calls |-> Strayed(call[c])]
      BY <1>7 DEF RootsChanged
    <2>2. CASE Settle(r) /\ r # None /\ UNCHANGED rootless
      BY <2>2, SettleRoots
    <2>3. CASE /\ roots' = r /\ hand' = hand
               /\ rootless' = (rootless \/ r = None)
               /\ call' = [c \in Calls |-> Strayed(call[c])]
      <3>1. \A c \in Calls : call'[c].root = call[c].root
        BY <1>a, <2>3, StrayedType
      <3> QED
        BY <2>3, <3>1 DEF RootsInv, Settled, WaitsForRoots
    <2> QED
      BY <2>1, <2>2, <2>3
  <1>8. ASSUME NEW c \in Calls, CallStep(c) PROVE RootsInv'
    <2>1. UNCHANGED <<hand, rootless, roots>>
      BY <1>8 DEF CallStep, TakeLock, LockTimeout, Recover, Write, Refuse, AfterWrite, Check,
                  Align, Again, CallOnly, rootVars
    <2>2. \E pc, answer : \/ call' = [call EXCEPT ![c].pc = pc]
                          \/ call' = [call EXCEPT ![c].pc = pc, ![c].answer = answer]
      BY <1>8 DEF CallStep, TakeLock, LockTimeout, Recover, Write, Refuse, AfterWrite, Check,
                  Align, Again, GoTo, Finish
    <2>3. \A d \in Calls : call'[d].root = call[d].root
      BY <1>0, <2>2 DEF CallRecord
    <2> QED
      BY <2>1, <2>3, SameRoots
  <1>9. CASE AlignEnds
    <2>1. \A c \in Calls : \/ call'[c] = call[c]
                           \/ call'[c] = [call[c] EXCEPT !.pc = "again"]
                           \/ call'[c] = [call[c] EXCEPT !.pc = "return", !.answer = "refused"]
      BY <1>9 DEF AlignEnds
    <2>2. \A c \in Calls : call'[c].root = call[c].root
      BY <1>a, <2>1 DEF CallRecord
    <2>3. UNCHANGED <<hand, rootless, roots>>
      BY <1>9 DEF AlignEnds, CallOnly, rootVars
    <2> QED
      BY <2>2, <2>3, SameRoots
  <1>10. CASE UNCHANGED vars
    <2>1. UNCHANGED <<hand, rootless, roots, call>>
      BY <1>10 DEF vars, rootVars
    <2> QED
      BY <2>1, SameRoots
  <1> QED
    BY <1>1, <1>2, <1>3, <1>4, <1>5, <1>6, <1>7, <1>8, <1>9, <1>10 DEF Next, Return

\* A call is resolved against the directory of the process only if the client
\* was silent for eight seconds or named no root.
THEOREM RootsFirst == Spec => []WaitsForRoots
  <1>1. RootsInv => WaitsForRoots
    BY DEF RootsInv
  <1> QED
    BY HomeAlways, RootsInit, RootsStep, <1>1, PTL DEF Spec

-----------------------------------------------------------------------------
(* The swaps of ARGO_REPO_ROOT                                             *)

\* e and d are active calls, and none between them is.
Adjacent(e, d) ==
    /\ Active(e) /\ Active(d) /\ e < d
    /\ \A x \in Calls : Active(x) => x <= e \/ d <= x

\* Each active call saved what the one before it had set: the last one's is
\* the process-wide root, the first one saved none.
Stacked ==
    /\ (\A c \in Calls : ~Active(c)) => env = None
    /\ \A d \in Calls :
          Active(d) /\ (\A x \in Calls : Active(x) => x <= d) => env = call[d].aim
    /\ \A d \in Calls :
          Active(d) /\ (\A x \in Calls : Active(x) => d <= x) => call[d].saved = None
    /\ \A e, d \in Calls : Adjacent(e, d) => call[d].saved = call[e].aim

\* The web service asks nobody for roots.
SwapInv ==
    /\ Web => hand = "none"
    /\ Web /\ ~crossed => Stacked

LEMMA SwapInit == Init => SwapInv
  BY DEF Init, SwapInv, Stacked, Adjacent, Active, NewCall, Web

\* A step in which no call begins or ends, and nothing is swapped.
LEMMA NoSwap ==
    ASSUME SwapInv, UNCHANGED <<host, env, crossed>>, Web => hand' = hand,
           \A c \in Calls : /\ Active(c)' = Active(c)
                            /\ Active(c) => call'[c].aim = call[c].aim
                            /\ Active(c) => call'[c].saved = call[c].saved
    PROVE  SwapInv'
  <1>1. Web' = Web
    BY DEF Web
  <1>2. \A e, d \in Calls : Adjacent(e, d)' = Adjacent(e, d)
    BY DEF Adjacent
  <1>3. ASSUME Stacked PROVE Stacked'
    <2>1. (\A c \in Calls : ~Active(c)') => env' = None
      BY <1>3 DEF Stacked
    <2>2. ASSUME NEW d \in Calls, Active(d)', \A x \in Calls : Active(x)' => x <= d
          PROVE  env' = call'[d].aim
      BY <1>3, <2>2 DEF Stacked
    <2>3. ASSUME NEW d \in Calls, Active(d)', \A x \in Calls : Active(x)' => d <= x
          PROVE  call'[d].saved = None
      BY <1>3, <2>3 DEF Stacked
    <2>4. ASSUME NEW e \in Calls, NEW d \in Calls, Adjacent(e, d)'
          PROVE  call'[d].saved = call'[e].aim
      <3>1. Active(e) /\ Active(d) /\ Adjacent(e, d)
        BY <1>2, <2>4 DEF Adjacent
      <3> QED
        BY <1>3, <3>1 DEF Stacked
    <2> QED
      BY <2>1, <2>2, <2>3, <2>4 DEF Stacked
  <1> QED
    BY <1>1, <1>3 DEF SwapInv

LEMMA SwapStep == HomeInv /\ SwapInv /\ [Next]_vars => SwapInv'
  <1> SUFFICES ASSUME HomeInv, SwapInv, [Next]_vars PROVE SwapInv'
    OBVIOUS
  <1>0. call \in [Calls -> CallRecord] /\ env \in Projects \union {None}
    BY DEF HomeInv, TypeInv
  <1>a. \A c \in Calls : call[c] \in CallRecord
    BY <1>0
  <1>b. \A c \in Calls : c \in Nat
    BY Constants
  <1>1. ASSUME NEW c \in Calls, WebCall(c) PROVE SwapInv'
    <2>1. PICK p \in Projects, kind \in {"write", "query"} :
             LET k == [NewCall EXCEPT !.kind = kind, !.saved = env]
             IN  /\ env' = p
                 /\ call' = [d \in Calls |->
                               IF d = c THEN Dispatched(k, p) ELSE Strayed(call[d])]
      BY <1>1 DEF WebCall
    <2> DEFINE k == [NewCall EXCEPT !.kind = kind, !.saved = env]
    <2>2. k \in CallRecord /\ k.want = None /\ k.saved = env
      BY <1>0, NewType DEF CallRecord, NewCall
    <2>3. call' = [d \in Calls |-> IF d = c THEN Dispatched(k, p) ELSE Strayed(call[d])]
      BY <2>1
    <2> HIDE DEF k
    <2>4. /\ Dispatched(k, p).aim = p /\ Dispatched(k, p).saved = env
          /\ Dispatched(k, p).pc \in {"return", "lock", "recover", "check"}
      BY <2>2, Constants, DispatchedType
    <2>5. Active(c)' /\ call'[c].aim = p /\ call'[c].saved = env /\ env' = p
      BY <2>1, <2>3, <2>4 DEF Active
    <2>6. \A d \in Calls \ {c} : /\ Active(d)' = Active(d)
                                 /\ call'[d].aim = call[d].aim
                                 /\ call'[d].saved = call[d].saved
      BY <1>a, <2>3, StrayedType DEF Active
    <2>7. ~Active(c) /\ \A d \in Calls : Active(d) => d < c
      BY <1>1, <1>b DEF WebCall, Comes, Active
    <2>8. UNCHANGED <<host, hand, crossed>>
      BY <1>1 DEF WebCall, hostVars
    <2>9. ASSUME Stacked PROVE Stacked'
      <3>1. ASSUME NEW d \in Calls, Active(d)', \A x \in Calls : Active(x)' => x <= d
            PROVE  env' = call'[d].aim
        <4>1. c <= d /\ d <= c
          BY <1>b, <2>5, <2>6, <2>7, <3>1
        <4> QED
          BY <1>b, <2>5, <4>1
      <3>2. ASSUME NEW d \in Calls, Active(d)', \A x \in Calls : Active(x)' => d <= x
            PROVE  call'[d].saved = None
        <4>1. CASE d = c
          <5>1. \A x \in Calls : ~Active(x)
            BY <1>b, <2>6, <2>7, <3>2, <4>1
          <5> QED
            BY <2>5, <2>9, <4>1, <5>1 DEF Stacked
        <4>2. CASE d # c
          <5>1. Active(d) /\ \A x \in Calls : Active(x) => d <= x
            BY <2>6, <2>7, <3>2, <4>2
          <5> QED
            BY <2>6, <2>9, <4>2, <5>1 DEF Stacked
        <4> QED
          BY <4>1, <4>2
      <3>3. ASSUME NEW e \in Calls, NEW d \in Calls, Adjacent(e, d)'
            PROVE  call'[d].saved = call'[e].aim
        <4>0. e # c
          BY <1>b, <2>6, <2>7, <3>3 DEF Adjacent
        <4>1. CASE d = c
          <5>1. Active(e) /\ \A x \in Calls : Active(x) => x <= e
            BY <1>b, <2>6, <2>7, <3>3, <4>0, <4>1 DEF Adjacent
          <5> QED
            BY <2>5, <2>6, <2>9, <4>0, <4>1, <5>1 DEF Stacked
        <4>2. CASE d # c
          <5>1. Adjacent(e, d)
            BY <2>6, <2>7, <3>3, <4>0, <4>2 DEF Adjacent
          <5> QED
            BY <2>6, <2>9, <4>0, <4>2, <5>1 DEF Stacked
        <4> QED
          BY <4>1, <4>2
      <3> QED
        BY <2>5, <3>1, <3>2, <3>3 DEF Stacked
    <2> QED
      BY <2>8, <2>9 DEF SwapInv, Web
  <1>2. ASSUME NEW c \in Calls, WebReturn(c) PROVE SwapInv'
    <2>1. /\ Active(c)
          /\ env' = call[c].saved
          /\ call' = [d \in Calls |-> IF d = c THEN Done(call[c]) ELSE Strayed(call[d])]
          /\ crossed' = (crossed \/ \E d \in Calls : Active(d) /\ c < d)
          /\ UNCHANGED <<host, hand>>
      BY <1>2 DEF WebReturn, Active, hostVars
    <2>2. ~Active(c)'
      BY <1>a, <2>1, DoneType DEF Active
    <2>3. \A d \in Calls \ {c} : /\ Active(d)' = Active(d)
                                 /\ call'[d].aim = call[d].aim
                                 /\ call'[d].saved = call[d].saved
      BY <1>a, <2>1, StrayedType DEF Active
    <2>4. ASSUME Stacked, ~crossed' PROVE Stacked'
      <3>a. ~\E d \in Calls : Active(d) /\ c < d
        BY Zenon, <2>1, <2>4
      <3>0. \A d \in Calls : Active(d) => d <= c
        BY <1>b, <3>a
      <3>1. ASSUME \A d \in Calls : ~Active(d)' PROVE env' = None
        <4>1. \A x \in Calls : Active(x) => c <= x
          BY <1>b, <2>3, <3>1
        <4> QED
          BY <2>1, <2>4, <4>1 DEF Stacked
      <3>2. ASSUME NEW d \in Calls, Active(d)', \A x \in Calls : Active(x)' => x <= d
            PROVE  env' = call'[d].aim
        <4>1. Active(d) /\ d # c /\ d <= c
          BY <2>2, <2>3, <3>0, <3>2
        <4>2. \A x \in Calls : Active(x) => x <= d \/ c <= x
          BY <1>b, <2>3, <3>2
        <4>3. Adjacent(d, c)
          BY <1>b, <2>1, <4>1, <4>2 DEF Adjacent
        <4> QED
          BY <2>1, <2>3, <2>4, <4>1, <4>3 DEF Stacked
      <3>3. ASSUME NEW d \in Calls, Active(d)', \A x \in Calls : Active(x)' => d <= x
            PROVE  call'[d].saved = None
        <4>1. Active(d) /\ d # c
          BY <2>2, <2>3, <3>3
        <4>2. \A x \in Calls : Active(x) => d <= x
          BY <2>3, <3>0, <3>3, <4>1
        <4> QED
          BY <2>3, <2>4, <4>1, <4>2 DEF Stacked
      <3>4. ASSUME NEW e \in Calls, NEW d \in Calls, Adjacent(e, d)'
            PROVE  call'[d].saved = call'[e].aim
        <4>1. Active(d) /\ d # c /\ Active(e) /\ e # c
          BY <2>2, <2>3, <3>4 DEF Adjacent
        <4>2. Adjacent(e, d)
          BY <2>3, <3>0, <3>4, <4>1 DEF Adjacent
        <4> QED
          BY <2>3, <2>4, <4>1, <4>2 DEF Stacked
      <3> QED
        BY <3>1, <3>2, <3>3, <3>4 DEF Stacked
    <2> QED
      BY <2>1, <2>4 DEF SwapInv, Web
  <1>3. CASE Web' /\ UNCHANGED vars
    <2>1. UNCHANGED <<host, env, crossed, hand, call>>
      BY <1>3 DEF vars, hostVars, rootVars
    <2> QED
      BY <2>1, NoSwap DEF Active
  <1>4. ASSUME NEW c \in Calls, CallStep(c) PROVE SwapInv'
    <2>1. UNCHANGED <<host, env, crossed, hand>>
      BY <1>4 DEF CallStep, TakeLock, LockTimeout, Recover, Write, Refuse, AfterWrite, Check,
                  Align, Again, CallOnly, rootVars, hostVars
    <2>2. Active(c)
      BY <1>4 DEF CallStep, TakeLock, LockTimeout, Recover, Write, Refuse, AfterWrite, Check,
                  Align, Again, Active
    <2>3. \E pc \in CallPc \ {"new", "deferred", "done"} : \E answer :
             \/ call' = [call EXCEPT ![c].pc = pc]
             \/ call' = [call EXCEPT ![c].pc = pc, ![c].answer = answer]
      BY <1>4 DEF CallStep, TakeLock, LockTimeout, Recover, Write, Refuse, AfterWrite, Check,
                  Align, Again, GoTo, Finish, Load, CallPc
    <2>4. Active(c)' /\ \A d \in Calls : call'[d].aim = call[d].aim /\ call'[d].saved = call[d].saved
      BY <1>0, <2>3 DEF CallRecord, Active
    <2>5. \A d \in Calls \ {c} : Active(d)' = Active(d)
      BY <1>0, <2>3 DEF Active
    <2>6. ASSUME NEW d \in Calls PROVE Active(d)' = Active(d)
      BY <2>2, <2>4, <2>5 DEF Active
    <2> QED
      BY <2>1, <2>4, <2>6, NoSwap
  <1>5. CASE AlignEnds
    <2>1. \A c \in Calls : \/ call'[c] = call[c]
                           \/ /\ call[c].pc = "wait"
                              /\ \/ call'[c] = [call[c] EXCEPT !.pc = "again"]
                                 \/ call'[c] = [call[c] EXCEPT !.pc = "return", !.answer = "refused"]
      BY <1>5 DEF AlignEnds
    <2>2. ASSUME NEW c \in Calls
          PROVE  /\ Active(c)' = Active(c)
                 /\ call'[c].aim = call[c].aim /\ call'[c].saved = call[c].saved
      BY <1>a, <2>1 DEF CallRecord, Active
    <2>3. UNCHANGED <<host, env, crossed, hand>>
      BY <1>5 DEF AlignEnds, CallOnly, rootVars, hostVars
    <2> QED
      BY <2>2, <2>3, NoSwap
  <1>6. CASE ~Web'
    BY <1>6 DEF SwapInv
  <1>7. CASE Web' /\ \/ AskRoots \/ RootsAnswer \/ RootsTimer \/ RootsChanged
                     \/ \E c \in Calls : ReadCall(c) \/ DeferCall(c) \/ Reply(c)
    <2>1. host' = host
      BY <1>7 DEF AskRoots, RootsAnswer, RootsTimer, RootsChanged, Settle, ReadCall, DeferCall,
                  Message, Reply, hostVars
    <2>2. Web /\ hand = "none"
      BY <1>7, <2>1 DEF Web, SwapInv
    <2> QED
      BY <1>7, <2>2 DEF AskRoots, RootsAnswer, RootsTimer, RootsChanged, ReadCall, DeferCall,
                        Reply, Reads
  <1> QED
    BY <1>1, <1>2, <1>3, <1>4, <1>5, <1>6, <1>7 DEF Next, Return

\* When the last call of the web service is over the process-wide root is what
\* it was, if no swap was undone while a later one was in force.
THEOREM EnvComesBack == Spec => []EnvRestored
  <1>1. SwapInv => EnvRestored
    BY DEF SwapInv, Stacked, EnvRestored
  <1> QED
    BY HomeAlways, SwapInit, SwapStep, <1>1, PTL DEF Spec

-----------------------------------------------------------------------------
(* Writes of one project take effect in the order of their arrival         *)

\* c is a write on its way that was not deferred.
Prompt(c) == Active(c) /\ call[c].kind = "write" /\ ~call[c].late

Ordered ==
    /\ \A c \in Calls : call[c].pc = "deferred" => call[c].late
    /\ \A c \in Calls : call[c].pc \in {"lock", "write"} => call[c].kind = "write"
    /\ \A p \in Projects : \A d \in graph[p] : call[d].pc # "new"
    /\ ~Web => \A c \in Calls : Active(c) /\ ~call[c].late => loop = c
    /\ \A c, d \in Calls : Prompt(c) /\ Prompt(d) /\ call[c].aim = call[d].aim => c = d
    /\ \A c \in Calls, p \in Projects :
          Prompt(c) /\ call[c].aim = p => \A d \in graph[p] : call[d].late \/ d <= c

LEMMA OrderInit == Init => Ordered
  BY DEF Init, Ordered, Prompt, Active, NewCall

\* A step in which no call begins, and graphs stay.
LEMMA NoneBegins ==
    ASSUME HomeInv, Ordered, UNCHANGED <<host, graph>>,
           \A c \in Calls :
              /\ call'[c].pc = "deferred" => call'[c].late
              /\ call'[c].pc \in {"lock", "write"} => call'[c].kind = "write"
              /\ call[c].pc # "new" => call'[c].pc # "new"
              /\ call[c].late => call'[c].late
              /\ Active(c)' /\ ~call'[c].late => Active(c) /\ ~call[c].late
              /\ Prompt(c)' => Prompt(c) /\ call'[c].aim = call[c].aim,
           ~Web => \A c \in Calls : Active(c)' /\ ~call'[c].late /\ loop = c => loop' = c
    PROVE  Ordered'
  <1>1. Web' = Web
    BY DEF Web
  <1>2. \A p \in Projects : graph[p] \subseteq Calls
    BY DEF HomeInv, TypeInv
  <1> QED
    BY <1>1, <1>2 DEF Ordered

\* A step that begins the one call c, all others being as they were.
LEMMA OneBegins ==
    ASSUME HomeInv, Ordered, UNCHANGED <<host, graph>>,
           NEW c \in Calls, \A d \in Calls : call[d].pc = "new" <=> c <= d,
           call'[c].pc \in {"return", "lock", "recover", "check"},
           call'[c].pc = "lock" => call'[c].kind = "write",
           \A d \in Calls \ {c} :
              /\ call'[d].pc = call[d].pc /\ call'[d].kind = call[d].kind
              /\ call'[d].late = call[d].late /\ call'[d].aim = call[d].aim,
           ~Web => loop' = c /\ \A d \in Calls : Active(d) => call[d].late,
           Prompt(c)' => \A d \in Calls : Prompt(d) => call[d].aim # call'[c].aim
    PROVE  Ordered'
  <1>1. Web' = Web
    BY DEF Web
  <1>2. \A p \in Projects : graph[p] \subseteq Calls
    BY DEF HomeInv, TypeInv
  <1>3. \A d \in Calls : d \in Nat
    BY Constants
  <1>4. \A p \in Projects : \A d \in graph[p] : d < c
    BY <1>2, <1>3 DEF Ordered
  <1>5. \A d \in Calls \ {c} : /\ Active(d)' <=> Active(d)
                               /\ Prompt(d)' <=> Prompt(d)
    BY DEF Prompt, Active
  <1>6. /\ \A d \in Calls : call'[d].pc = "deferred" => call'[d].late
        /\ \A d \in Calls : call'[d].pc \in {"lock", "write"} => call'[d].kind = "write"
    BY DEF Ordered
  <1>7. \A p \in Projects : \A d \in graph'[p] : call'[d].pc # "new"
    BY <1>2, <1>3, <1>4 DEF Ordered
  <1>8. ~Web' => \A d \in Calls : Active(d)' /\ ~call'[d].late => loop' = d
    BY <1>1, <1>5
  <1>9. \A e, d \in Calls :
           Prompt(e)' /\ Prompt(d)' /\ call'[e].aim = call'[d].aim => e = d
    BY <1>5 DEF Ordered
  <1>10. \A e \in Calls, p \in Projects :
            Prompt(e)' /\ call'[e].aim = p => \A d \in graph'[p] : call'[d].late \/ d <= e
    BY <1>2, <1>3, <1>4, <1>5 DEF Ordered
  <1> QED
    BY <1>6, <1>7, <1>8, <1>9, <1>10 DEF Ordered

LEMMA OrderStep == HomeInv /\ Ordered /\ [Next]_vars => Ordered'
  <1> SUFFICES ASSUME HomeInv, Ordered, [Next]_vars PROVE Ordered'
    OBVIOUS
  <1>0. /\ call \in [Calls -> CallRecord] /\ env \in Projects \union {None}
        /\ roots \in Projects \union {None} /\ graph \in [Projects -> SUBSET Calls]
    BY DEF HomeInv, TypeInv
  <1>a. \A c \in Calls : call[c] \in CallRecord
    BY <1>0
  <1>b. /\ \A c \in Calls : call[c].pc = "deferred" => call[c].late
        /\ \A c \in Calls : call[c].pc \in {"lock", "write"} => call[c].kind = "write"
    BY DEF Ordered
  <1>1. ASSUME NEW c \in Calls, WebCall(c) PROVE Ordered'
    <2>1. PICK p \in Projects, kind \in {"write", "query"} :
             LET k == [NewCall EXCEPT !.kind = kind, !.saved = env]
             IN  /\ \A d \in Calls : Active(d) /\ call[d].kind = "write" /\ call[d].aim = p =>
                        kind # "write"
                 /\ call' = [d \in Calls |->
                               IF d = c THEN Dispatched(k, p) ELSE Strayed(call[d])]
      BY <1>1 DEF WebCall
    <2> DEFINE k == [NewCall EXCEPT !.kind = kind, !.saved = env]
    <2>2. k \in CallRecord /\ k.want = None /\ k.kind = kind
      BY <1>0, NewType DEF CallRecord, NewCall
    <2>3. call' = [d \in Calls |-> IF d = c THEN Dispatched(k, p) ELSE Strayed(call[d])]
      BY <2>1
    <2> HIDE DEF k
    <2>4. /\ call'[c].pc \in {"return", "lock", "recover", "check"}
          /\ call'[c].pc = "lock" => call'[c].kind = "write"
          /\ call'[c].aim = p /\ call'[c].kind = kind
      BY <2>2, <2>3, Constants, DispatchedType
    <2>5. \A d \in Calls \ {c} : /\ call'[d].pc = call[d].pc /\ call'[d].kind = call[d].kind
                                 /\ call'[d].late = call[d].late /\ call'[d].aim = call[d].aim
      BY <1>a, <2>3, StrayedType
    <2>6. UNCHANGED <<host, graph>> /\ Web /\ \A d \in Calls : call[d].pc = "new" <=> c <= d
      BY <1>1 DEF WebCall, hostVars, dataVars, Comes
    <2>7. Prompt(c)' => \A d \in Calls : Prompt(d) => call[d].aim # call'[c].aim
      BY <2>1, <2>4 DEF Prompt
    <2> QED
      BY <2>4, <2>5, <2>6, <2>7, OneBegins
  <1>2. ASSUME NEW c \in Calls, WebReturn(c) \/ Reply(c) PROVE Ordered'
    <2>1. /\ call'[c] = Done(call[c])
          /\ \A d \in Calls \ {c} : call'[d] \in {call[d], Strayed(call[d])}
          /\ UNCHANGED <<host, graph>>
      BY <1>0, <1>2 DEF WebReturn, Reply, hostVars, dataVars
    <2>2. \A d \in Calls \ {c} : /\ call'[d].pc = call[d].pc /\ call'[d].kind = call[d].kind
                                 /\ call'[d].late = call[d].late /\ call'[d].aim = call[d].aim
      BY <1>a, <2>1, StrayedType
    <2>3. call'[c].pc = "done" /\ call'[c].late = call[c].late
      BY <1>a, <2>1, DoneType
    <2>4. ~Web => \A d \in Calls : loop = d /\ d # c => loop' = d
      BY <1>2 DEF WebReturn, Reply
    <2>5. ~Active(c)' /\ \A d \in Calls \ {c} : (Active(d)' <=> Active(d)) /\ (Prompt(d)' <=> Prompt(d))
      BY <2>2, <2>3 DEF Active, Prompt
    <2>6. ~Prompt(c)'
      BY <2>5 DEF Prompt
    <2> QED
      BY <1>b, <2>1, <2>2, <2>3, <2>4, <2>5, <2>6, NoneBegins
  <1>3. ASSUME NEW c \in Calls, ReadCall(c) PROVE Ordered'
    <2>1. PICK kind \in {"write", "query"}, want \in Projects \union {None} :
             call' = [call EXCEPT ![c] = Dispatched(Request(kind, want), Workspace)]
      BY <1>3 DEF ReadCall, Start
    <2> DEFINE k == Request(kind, want)
    <2>2. k \in CallRecord
      BY RequestType
    <2>3. call' = [call EXCEPT ![c] = Dispatched(k, Workspace)]
      BY <2>1
    <2> HIDE DEF k
    <2>4. Workspace \in Places
      BY <1>0, WorkspaceType DEF Workspace
    <2>5. /\ call'[c].pc \in {"return", "lock", "recover", "check"}
          /\ call'[c].pc = "lock" => call'[c].kind = "write"
      BY <1>0, <2>2, <2>3, <2>4, DispatchedType
    <2>6. \A d \in Calls \ {c} : call'[d] = call[d]
      BY <1>0, <2>3
    <2>7. /\ UNCHANGED <<host, graph>> /\ ~Web /\ loop = None /\ loop' = c
          /\ \A d \in Calls : call[d].pc = "new" <=> c <= d
      BY <1>3 DEF ReadCall, Reads, Start, Message, Comes, hostVars, dataVars
    <2>8. \A d \in Calls : Active(d) => call[d].late
      BY <2>7, Constants DEF Ordered
    <2>9. \A d \in Calls : ~Prompt(d)
      BY <2>8 DEF Prompt
    <2> QED
      BY <2>5, <2>6, <2>7, <2>8, <2>9, OneBegins
  <1>4. ASSUME NEW c \in Calls, DeferCall(c) PROVE Ordered'
    <2>1. PICK kind \in {"write", "query"}, want \in Projects \union {None} :
             call' = [call EXCEPT ![c] = [Request(kind, want) EXCEPT !.pc = "deferred",
                                                                     !.late = TRUE]]
      BY <1>4 DEF DeferCall
    <2>2. Request(kind, want) \in CallRecord
      BY RequestType
    <2>3. call'[c].pc = "deferred" /\ call'[c].late
          /\ \A d \in Calls \ {c} : call'[d] = call[d]
      BY <1>0, <2>1, <2>2 DEF CallRecord
    <2>4. UNCHANGED <<host, graph, loop>>
      BY <1>4 DEF DeferCall, Message, hostVars, dataVars
    <2>5. ~Active(c)' /\ \A d \in Calls \ {c} : (Active(d)' <=> Active(d)) /\ (Prompt(d)' <=> Prompt(d))
      BY <2>3 DEF Active, Prompt
    <2>6. ~Prompt(c)'
      BY <2>5 DEF Prompt
    <2> QED
      BY <1>b, <2>3, <2>4, <2>5, <2>6, NoneBegins
  <1>5. CASE AskRoots
    <2>1. UNCHANGED <<host, graph, loop, call>>
      BY <1>5 DEF AskRoots, hostVars, dataVars
    <2> QED
      BY <1>b, <2>1, NoneBegins DEF Active, Prompt
  <1>6. ASSUME NEW r \in Projects \union {None}, Settle(r) PROVE Ordered'
    <2> DEFINE home == RootOf(env, r)
    <2>1. home \in Places
      BY <1>0, WorkspaceType
    <2>2. /\ call' = [c \in Calls |-> IF call[c].pc = "deferred" THEN Dispatched(call[c], home)
                                      ELSE Strayed(call[c])]
          /\ UNCHANGED <<host, graph, loop>>
      BY <1>6 DEF Settle, hostVars, dataVars
    <2> HIDE DEF home
    <2>3. ASSUME NEW c \in Calls, call[c].pc = "deferred"
          PROVE  /\ call'[c].late /\ call'[c].pc \in {"return", "lock", "recover", "check"}
                 /\ call'[c].pc = "lock" => call'[c].kind = "write"
      BY <1>a, <1>b, <2>1, <2>2, <2>3, DispatchedType
    <2>4. \A c \in Calls : call[c].pc # "deferred" =>
             /\ call'[c].pc = call[c].pc /\ call'[c].kind = call[c].kind
             /\ call'[c].late = call[c].late /\ call'[c].aim = call[c].aim
      BY <1>a, <2>2, StrayedType
    <2>5. ASSUME NEW c \in Calls
          PROVE  /\ call'[c].pc = "deferred" => call'[c].late
                 /\ call'[c].pc \in {"lock", "write"} => call'[c].kind = "write"
                 /\ call[c].pc # "new" => call'[c].pc # "new"
                 /\ call[c].late => call'[c].late
                 /\ Active(c)' /\ ~call'[c].late => Active(c) /\ ~call[c].late
                 /\ Prompt(c)' => Prompt(c) /\ call'[c].aim = call[c].aim
      BY <1>b, <2>3, <2>4 DEF Active, Prompt
    <2> QED
      BY <2>2, <2>5, NoneBegins
  <1>7. CASE RootsAnswer \/ RootsTimer
    BY <1>0, <1>6, <1>7 DEF RootsAnswer, RootsTimer
  <1>8. CASE RootsChanged
    <2>1. PICK r \in Projects \union {None} :
             \/ Settle(r)
             \/ /\ call' = [c \in Calls |-> Strayed(call[c])]
                /\ UNCHANGED <<host, graph, loop>>
      BY <1>8 DEF RootsChanged, hostVars, dataVars
    <2>2. CASE ~Settle(r)
      <3>1. \A c \in Calls : /\ call'[c].pc = call[c].pc /\ call'[c].kind = call[c].kind
                             /\ call'[c].late = call[c].late /\ call'[c].aim = call[c].aim
        BY <1>a, <2>1, <2>2, StrayedType
      <3>2. \A c \in Calls : (Active(c)' <=> Active(c)) /\ (Prompt(c)' <=> Prompt(c))
        BY <3>1 DEF Active, Prompt
      <3> QED
        BY <1>b, <2>1, <2>2, <3>1, <3>2, NoneBegins
    <2> QED
      BY <1>6, <2>2
  <1>9. ASSUME NEW c \in Calls, CallStep(c) PROVE Ordered'
    <2>1. UNCHANGED <<host, loop>>
      BY <1>9 DEF CallStep, TakeLock, LockTimeout, Recover, Write, Refuse, AfterWrite, Check,
                  Align, Again, CallOnly, rootVars, hostVars
    <2>2. Active(c)
      BY <1>9 DEF CallStep, TakeLock, LockTimeout, Recover, Write, Refuse, AfterWrite, Check,
                  Align, Again, Active
    <2>3. \E pc \in CallPc \ {"new", "deferred", "done", "lock"} : \E answer :
             /\ pc = "write" => call[c].kind = "write"
             /\ \/ call' = [call EXCEPT ![c].pc = pc]
                \/ call' = [call EXCEPT ![c].pc = pc, ![c].answer = answer]
      BY <1>9, <1>b DEF CallStep, TakeLock, LockTimeout, Recover, Write, Refuse, AfterWrite, Check,
                  Align, Again, GoTo, Finish, Load, CallPc
    <2>4. \A d \in Calls : /\ call'[d].aim = call[d].aim /\ call'[d].kind = call[d].kind
                           /\ call'[d].late = call[d].late
      BY <1>0, <2>3 DEF CallRecord
    <2>5. /\ call'[c].pc \notin {"new", "deferred", "done", "lock"}
          /\ call'[c].pc = "write" => call[c].kind = "write"
          /\ \A d \in Calls \ {c} : call'[d] = call[d]
      BY <1>0, <2>3 DEF CallRecord
    <2>6. \A d \in Calls : (Active(d)' <=> Active(d)) /\ (Prompt(d)' <=> Prompt(d))
      BY <2>2, <2>4, <2>5 DEF Active, Prompt
    <2>7. \A d \in Calls : /\ call'[d].pc = "deferred" => call'[d].late
                           /\ call'[d].pc \in {"lock", "write"} => call'[d].kind = "write"
                           /\ call[d].pc # "new" => call'[d].pc # "new"
      BY <1>b, <2>4, <2>5
    <2>8. CASE ~Write(c)
      <3>1. graph' = graph
        BY <1>9, <2>8 DEF CallStep, TakeLock, LockTimeout, Recover, Refuse, AfterWrite, Check,
                    Align, Again, dataVars
      <3> QED
        BY <2>1, <2>4, <2>6, <2>7, <3>1, NoneBegins
    <2>9. CASE Write(c)
      <3>1. /\ graph' = [graph EXCEPT ![call[c].root] = @ \union {c}]
            /\ call[c].root = call[c].aim /\ call[c].kind = "write"
        BY <1>b, <2>9 DEF Write, HomeInv, Home, Placed
      <3>2. \A p \in Projects : \A d \in graph'[p] : d \in graph[p] \/ (d = c /\ p = call[c].aim)
        BY <1>0, <3>1
      <3>3. call[c].late \/ Prompt(c)
        BY <2>2, <3>1 DEF Prompt
      <3>4. c \in Nat
        BY Constants
      <3>5. ASSUME NEW e \in Calls, NEW p \in Projects, Prompt(e)', call'[e].aim = p,
                   NEW d, d \in graph'[p]
            PROVE  call'[d].late \/ d <= e
        <4>1. Prompt(e) /\ call[e].aim = p
          BY <2>4, <2>6, <3>5
        <4>2. CASE d \in graph[p]
          <5>1. d \in Calls
            BY <1>0, <4>2
          <5> QED
            BY <2>4, <4>1, <4>2, <5>1 DEF Ordered
        <4>3. CASE d = c /\ p = call[c].aim
          <5>1. Prompt(c) => e = c
            BY <4>1, <4>3 DEF Ordered
          <5>2. call[c].late => call'[c].late
            BY <2>4
          <5>3. c <= c
            BY <3>4
          <5> QED
            BY Zenon, <3>3, <4>3, <5>1, <5>2, <5>3
        <4> QED
          BY <3>2, <3>5, <4>2, <4>3
      <3>6. \A p \in Projects : \A d \in graph'[p] : call'[d].pc # "new"
        BY <1>0, <2>5, <2>7, <3>2 DEF Ordered
      <3>7. Web' = Web
        BY <2>1 DEF Web
      <3>8. ~Web' => \A d \in Calls : Active(d)' /\ ~call'[d].late => loop' = d
        BY <2>1, <2>4, <2>6, <3>7 DEF Ordered
      <3>9. \A e, d \in Calls : Prompt(e)' /\ Prompt(d)' /\ call'[e].aim = call'[d].aim => e = d
        BY <2>4, <2>6 DEF Ordered
      <3> QED
        BY <2>7, <3>5, <3>6, <3>8, <3>9 DEF Ordered
    <2> QED
      BY <2>8, <2>9
  <1>10. CASE AlignEnds
    <2>1. \A c \in Calls : \/ call'[c] = call[c]
                           \/ /\ call[c].pc = "wait"
                              /\ \/ call'[c] = [call[c] EXCEPT !.pc = "again"]
                                 \/ call'[c] = [call[c] EXCEPT !.pc = "return", !.answer = "refused"]
      BY <1>10 DEF AlignEnds
    <2>2. ASSUME NEW c \in Calls
          PROVE  /\ call'[c].kind = call[c].kind /\ call'[c].late = call[c].late
                 /\ call'[c].aim = call[c].aim
                 /\ \/ call'[c].pc = call[c].pc
                    \/ call[c].pc = "wait" /\ call'[c].pc \in {"again", "return"}
      BY <1>a, <2>1 DEF CallRecord
    <2>3. \A c \in Calls : (Active(c)' <=> Active(c)) /\ (Prompt(c)' <=> Prompt(c))
      BY <2>2 DEF Active, Prompt
    <2>4. UNCHANGED <<host, graph, loop>>
      BY <1>10 DEF AlignEnds, CallOnly, rootVars, hostVars
    <2> QED
      BY <1>b, <2>2, <2>3, <2>4, NoneBegins
  <1>11. CASE UNCHANGED vars
    <2>1. UNCHANGED <<host, graph, loop, call>>
      BY <1>11 DEF vars, hostVars, rootVars, dataVars
    <2> QED
      BY <1>b, <2>1, NoneBegins DEF Active, Prompt
  <1> QED
    BY <1>1, <1>2, <1>3, <1>4, <1>5, <1>7, <1>8, <1>9, <1>10, <1>11 DEF Next, Return

\* A write finds in the graph only what came before it, and what was deferred.
LEMMA WritesFollow ==
    ASSUME HomeInv, Ordered, [Next]_vars,
           NEW p \in Projects, NEW c, c \in graph'[p] \ graph[p], NEW d, d \in graph[p]
    PROVE  call[c].late \/ call[d].late \/ c > d
  <1>1. graph \in [Projects -> SUBSET Calls]
    BY DEF HomeInv, TypeInv
  <1>2. CASE \E w \in Calls : Write(w)
    <2>1. PICK w \in Calls : Write(w)
      BY <1>2
    <2>2. call[w].pc = "write" /\ graph' = [graph EXCEPT ![call[w].root] = @ \union {w}]
      BY <2>1 DEF Write
    <2>3. call[w].root = call[w].aim /\ call[w].kind = "write"
      BY <2>2 DEF HomeInv, Home, Placed, Ordered
    <2>4. p = call[c].aim /\ c = w /\ c # d /\ d \in Calls
      BY <1>1, <2>2, <2>3
    <2>5. Prompt(c) \/ call[c].late
      BY <2>2, <2>3, <2>4 DEF Prompt, Active
    <2>6. Prompt(c) => call[d].late \/ d <= c
      BY <2>4 DEF Ordered
    <2> QED
      BY <2>4, <2>5, <2>6, Constants
  <1>3. CASE ~\E w \in Calls : Write(w)
    <2>1. graph' = graph
      BY <1>3 DEF Next, CallStep, Return, WebCall, WebReturn, Reply, ReadCall, DeferCall, Message,
                  Start, AskRoots, RootsAnswer, RootsTimer, RootsChanged, Settle, AlignEnds,
                  TakeLock, LockTimeout, Recover, Refuse, AfterWrite, Check, Align, Again,
                  vars, dataVars
    <2> QED
      BY <2>1
  <1> QED
    BY <1>2, <1>3

\* Two writes of one project take effect in the order in which they came,
\* unless one of them was deferred.
THEOREM InOrderAlways == Spec => InOrder
  <1> DEFINE OrderedWrites ==
        \A p \in Projects : \A c \in graph'[p] \ graph[p], d \in graph[p] :
          call[c].late \/ call[d].late \/ c > d
  <1>1. HomeInv /\ Ordered /\ [Next]_vars => [OrderedWrites]_vars
    BY WritesFollow
  <1>2. InOrder <=> [][OrderedWrites]_vars
    BY DEF InOrder
  <1> HIDE DEF OrderedWrites
  <1> QED
    BY HomeAlways, OrderInit, OrderStep, <1>1, <1>2, PTL DEF Spec

-----------------------------------------------------------------------------
(* The types of the rest                                                   *)

RestInv ==
    /\ own \in OwnDbs
    /\ dbName \in Databases \union {None}
    /\ hand \in {"none", "asked", "settled"}
    /\ loop \in Calls \union {None}
    /\ synced \in [Projects -> BOOLEAN]
    /\ db \in [Databases \ {None} -> Projects \union {None}]
    /\ ready \in [Projects -> BOOLEAN]
    /\ aligning \in Places \union {None}
    /\ changes \in 0..MaxChanges
    /\ crossed \in BOOLEAN
    /\ rootless \in BOOLEAN

\* What waits in deferredToolCalls is what was deferred.
DeferredInv ==
    /\ deferred \in Seq(Calls)
    /\ Range(deferred) = {c \in Calls : call[c].pc = "deferred"}

FullInv == HomeInv /\ RestInv /\ DeferredInv

LEMMA AppendRange ==
    ASSUME NEW S, NEW s \in Seq(S), NEW e \in S
    PROVE  Append(s, e) \in Seq(S) /\ Range(Append(s, e)) = Range(s) \union {e}
  <1> DEFINE t == Append(s, e)
  <1>1. /\ t \in Seq(S) /\ DOMAIN t = DOMAIN s \union {Len(s) + 1}
        /\ t[Len(s) + 1] = e /\ \A i \in DOMAIN s : t[i] = s[i]
    OBVIOUS
  <1> HIDE DEF t
  <1>2. Range(t) = Range(s) \union {e}
    BY <1>1 DEF Range
  <1> QED
    BY <1>1, <1>2 DEF t

LEMMA FullInit == Init => FullInv
  <1> SUFFICES ASSUME Init PROVE FullInv
    OBVIOUS
  <1>1. RestInv
    <2>1. synced = [p \in Projects |-> FALSE] /\ ready = [p \in Projects |-> FALSE]
      BY DEF Init
    <2>2. synced \in [Projects -> BOOLEAN] /\ ready \in [Projects -> BOOLEAN]
      BY <2>1
    <2>3. db \in [Databases \ {None} -> Projects \union {None}]
      BY DEF Init
    <2>4. changes \in 0..MaxChanges
      BY CallConstants DEF Init
    <2> QED
      BY <2>2, <2>3, <2>4 DEF Init, RestInv
  <1>2. DeferredInv
    <2>1. deferred = <<>> /\ \A c \in Calls : call[c].pc = "new"
      BY DEF Init, NewCall
    <2>2. Range(deferred) = {}
      BY <2>1 DEF Range
    <2> QED
      BY <2>1, <2>2 DEF DeferredInv
  <1> QED
    BY <1>1, <1>2, HomeInit DEF FullInv

\* A setting that is loaded stays; one that a call brings is one of a project.
LEMMA LoadedType ==
    ASSUME RestInv, NEW k \in CallRecord, NEW home \in Places
    PROVE  /\ Loaded(dbName, k, home) \in Databases \union {None}
           /\ dbName # None => Loaded(dbName, k, home) = dbName
  <1>1. Target(k, home) # Cwd => Target(k, home) \in Projects
    BY DEF Target, CallRecord, Places
  <1>2. \A p \in Projects : own[p] \in Databases
    BY DEF Databases, RestInv
  <1>3. Fallback(home) \in Databases \union {None}
    BY <1>2 DEF Fallback, Places
  <1> QED
    BY <1>1, <1>2, <1>3 DEF Loaded, RestInv

LEMMA SmallestIsIn ==
    ASSUME NEW S \in SUBSET Nat, S # {}
    PROVE  Min(S) \in S /\ \A y \in S : Min(S) <= y
  <1>1. PICK x \in S : \A y \in S : ~(<<y, x>> \in OpToRel(<, Nat))
    <2> DEFINE R == OpToRel(<, Nat)
    <2>1. IsWellFoundedOn(R, Nat)
      BY NatLessThanWellFounded
    <2> HIDE DEF R
    <2>2. \E x \in S : \A y \in S : ~(<<y, x>> \in R)
      BY <2>1, WFMin
    <2> QED
      BY <2>2 DEF R
  <1>2. \A y \in S : ~(y < x)
    BY <1>1 DEF OpToRel
  <1>3. \A y \in S : x <= y
    BY <1>2
  <1> QED
    BY <1>3 DEF Min


LEMMA LoadedAllType ==
    ASSUME FullInv, NEW home \in Places
    PROVE  /\ LoadedAll(home) \in Databases \union {None}
           /\ dbName # None => LoadedAll(home) = dbName
  <1> DEFINE brings == {i \in DOMAIN deferred : Loaded(dbName, call[deferred[i]], home) # None}
  <1>1. CASE dbName # None \/ brings = {}
    BY <1>1 DEF LoadedAll, FullInv, RestInv
  <1>2. CASE dbName = None /\ brings # {}
    <2>1. brings \in SUBSET Nat
      BY DEF FullInv, DeferredInv
    <2>2. Min(brings) \in brings
      BY <1>2, <2>1, SmallestIsIn
    <2>3. deferred[Min(brings)] \in Calls
      BY <2>2 DEF FullInv, DeferredInv
    <2>4. call[deferred[Min(brings)]] \in CallRecord
      BY <2>3 DEF FullInv, HomeInv, TypeInv
    <2>5. LoadedAll(home) = Loaded(dbName, call[deferred[Min(brings)]], home)
      BY <1>2 DEF LoadedAll
    <2> QED
      BY <1>2, <2>4, <2>5, LoadedType DEF FullInv
  <1> QED
    BY <1>1, <1>2

\* Nobody is deferred, nobody goes on.
LEMMA SameDeferred ==
    ASSUME DeferredInv, UNCHANGED deferred,
           \A c \in Calls : call'[c].pc = "deferred" <=> call[c].pc = "deferred"
    PROVE  DeferredInv'
  BY DEF DeferredInv

LEMMA SettleRest ==
    ASSUME FullInv, NEW r \in Projects \union {None}, Settle(r)
    PROVE  /\ DeferredInv'
           /\ dbName' \in Databases \union {None}
           /\ dbName # None => dbName' = dbName
           /\ hand' = "settled"
           /\ UNCHANGED <<own, loop, synced, db, ready, aligning, crossed, env>>
  <1> DEFINE home == RootOf(env, r)
  <1>1. home \in Places
    BY WorkspaceType DEF FullInv, HomeInv, TypeInv
  <1>2. /\ call' = [c \in Calls |-> IF call[c].pc = "deferred" THEN Dispatched(call[c], home)
                                    ELSE Strayed(call[c])]
        /\ deferred' = <<>> /\ hand' = "settled" /\ dbName' = LoadedAll(home)
        /\ UNCHANGED <<own, loop, synced, db, ready, aligning, crossed, env>>
    BY DEF Settle, hostVars, dataVars
  <1> HIDE DEF home
  <1>3. \A c \in Calls : /\ Dispatched(call[c], home).pc # "deferred"
                         /\ Strayed(call[c]).pc = call[c].pc
    <2> TAKE c \in Calls
    <2>1. call[c] \in CallRecord
      BY DEF FullInv, HomeInv, TypeInv
    <2> QED
      BY <1>1, <2>1, DispatchedType, StrayedType
  <1>4. DeferredInv'
    <2>1. Range(deferred') = {}
      BY <1>2 DEF Range
    <2>2. \A c \in Calls : call'[c].pc # "deferred"
      BY <1>2, <1>3
    <2> QED
      BY <1>2, <2>1, <2>2 DEF DeferredInv
  <1> QED
    BY <1>1, <1>2, <1>4, LoadedAllType

\* A step in which the calls that are deferred stay so, and no others join them.
LEMMA RestStep == FullInv /\ [Next]_vars => RestInv' /\ DeferredInv'
  <1> SUFFICES ASSUME FullInv, [Next]_vars PROVE RestInv' /\ DeferredInv'
    OBVIOUS
  <1>0. /\ call \in [Calls -> CallRecord]
        /\ env \in Projects \union {None} /\ roots \in Projects \union {None}
        /\ RestInv /\ DeferredInv /\ HomeInv
    BY DEF FullInv, HomeInv, TypeInv
  <1>a. \A c \in Calls : call[c] \in CallRecord
    BY <1>0
  <1>b. ASSUME NEW c \in Calls, Comes(c) PROVE call[c].pc = "new"
    <2>1. c <= c
      BY Constants
    <2> QED
      BY <1>b, <2>1 DEF Comes
  <1>1. ASSUME NEW c \in Calls, WebCall(c) PROVE RestInv' /\ DeferredInv'
    <2>1. PICK p \in Projects, kind \in {"write", "query"} :
             LET k == [NewCall EXCEPT !.kind = kind, !.saved = env]
             IN  /\ dbName' = Loaded(dbName, k, p)
                 /\ call' = [d \in Calls |->
                               IF d = c THEN Dispatched(k, p) ELSE Strayed(call[d])]
      BY <1>1 DEF WebCall
    <2> DEFINE k == [NewCall EXCEPT !.kind = kind, !.saved = env]
    <2>2. k \in CallRecord
      BY <1>0, NewType DEF CallRecord, NewCall
    <2>3. /\ call' = [d \in Calls |-> IF d = c THEN Dispatched(k, p) ELSE Strayed(call[d])]
          /\ dbName' = Loaded(dbName, k, p)
      BY <2>1
    <2> HIDE DEF k
    <2>4. /\ Dispatched(k, p).pc # "deferred"
          /\ dbName' \in Databases \union {None}
      BY <1>0, <2>2, <2>3, Constants, DispatchedType, LoadedType
    <2>5. UNCHANGED <<own, hand, loop, deferred, synced, db, ready, aligning, changes, crossed,
                      rootless>>
      BY <1>1 DEF WebCall, hostVars, dataVars
    <2>6. \A d \in Calls : call'[d].pc = "deferred" <=> call[d].pc = "deferred"
      BY <1>a, <1>b, <1>1, <2>3, <2>4, StrayedType DEF WebCall
    <2>7. RestInv'
      BY <1>0, <2>4, <2>5 DEF RestInv
    <2> QED
      BY <1>0, <2>5, <2>6, <2>7, SameDeferred
  <1>2. ASSUME NEW c \in Calls, WebReturn(c) PROVE RestInv' /\ DeferredInv'
    <2>1. \A d \in Calls : call'[d] = IF d = c THEN Done(call[c]) ELSE Strayed(call[d])
      BY <1>2 DEF WebReturn
    <2>2. \A d \in Calls : call'[d].pc = "deferred" <=> call[d].pc = "deferred"
      BY <1>a, <1>2, <2>1, StrayedType, DoneType DEF WebReturn
    <2>3. UNCHANGED <<own, dbName, hand, loop, deferred, synced, db, ready, aligning, changes,
                      rootless>>
      BY <1>2 DEF WebReturn, hostVars, dataVars
    <2>4. crossed' \in BOOLEAN
      BY <1>2 DEF WebReturn
    <2>5. RestInv'
      BY <1>0, <2>3, <2>4 DEF RestInv
    <2> QED
      BY <1>0, <2>2, <2>3, <2>5, SameDeferred
  <1>3. ASSUME NEW c \in Calls, ReadCall(c) PROVE RestInv' /\ DeferredInv'
    <2>1. PICK kind \in {"write", "query"}, want \in Projects \union {None} :
             Start(c, Request(kind, want))
      BY <1>3 DEF ReadCall
    <2> DEFINE k == Request(kind, want)
    <2>2. k \in CallRecord
      BY <1>0, RequestType
    <2>3. /\ call' = [call EXCEPT ![c] = Dispatched(k, Workspace)]
          /\ dbName' = Loaded(dbName, k, Workspace)
          /\ loop' = c /\ deferred' = deferred
      BY <2>1 DEF Start
    <2> HIDE DEF k
    <2>4. Workspace \in Places
      BY <1>0, WorkspaceType DEF Workspace
    <2>5. /\ Dispatched(k, Workspace).pc # "deferred"
          /\ dbName' \in Databases \union {None}
      BY <1>0, <2>2, <2>3, <2>4, DispatchedType, LoadedType
    <2>6. UNCHANGED <<own, hand, synced, db, ready, aligning, changes, crossed, rootless>>
      BY <1>3 DEF ReadCall, Message, hostVars, dataVars
    <2>7. \A d \in Calls : call'[d].pc = "deferred" <=> call[d].pc = "deferred"
      BY <1>0, <1>b, <1>3, <2>3, <2>5 DEF ReadCall, Message
    <2>8. RestInv'
      BY <1>0, <2>3, <2>5, <2>6 DEF RestInv
    <2> QED
      BY <1>0, <2>3, <2>7, <2>8, SameDeferred
  <1>4. ASSUME NEW c \in Calls, DeferCall(c) PROVE RestInv' /\ DeferredInv'
    <2>1. PICK kind \in {"write", "query"}, want \in Projects \union {None} :
             call' = [call EXCEPT ![c] = [Request(kind, want) EXCEPT !.pc = "deferred",
                                                                     !.late = TRUE]]
      BY <1>4 DEF DeferCall
    <2> DEFINE k == Request(kind, want)
    <2>2. k \in CallRecord
      BY <1>0, RequestType
    <2>3. [k EXCEPT !.pc = "deferred", !.late = TRUE].pc = "deferred"
      BY <2>2 DEF CallRecord
    <2>4. \A d \in Calls : call'[d].pc = "deferred" <=> d = c \/ call[d].pc = "deferred"
      BY <1>0, <2>1, <2>3
    <2>5. deferred' = Append(deferred, c)
      BY <1>4 DEF DeferCall
    <2>6. deferred' \in Seq(Calls) /\ Range(deferred') = Range(deferred) \union {c}
      BY <1>0, <2>5, AppendRange DEF DeferredInv
    <2>7. DeferredInv'
      BY <1>0, <2>4, <2>6 DEF DeferredInv
    <2>8. UNCHANGED <<own, dbName, hand, loop, synced, db, ready, aligning, changes, crossed,
                      rootless>>
      BY <1>4 DEF DeferCall, Message, hostVars, dataVars
    <2> QED
      BY <1>0, <2>7, <2>8 DEF RestInv
  <1>5. ASSUME NEW c \in Calls, Reply(c) PROVE RestInv' /\ DeferredInv'
    <2>1. /\ call' = [call EXCEPT ![c] = Done(call[c])] /\ call[c].pc = "return"
          /\ loop' \in {None, loop}
          /\ UNCHANGED <<own, dbName, hand, deferred, synced, db, ready, aligning, changes,
                         crossed, rootless>>
      BY <1>5 DEF Reply, hostVars, dataVars
    <2>2. \A d \in Calls : call'[d].pc = "deferred" <=> call[d].pc = "deferred"
      BY <1>0, <1>a, <2>1, DoneType
    <2>3. RestInv'
      BY <1>0, <2>1 DEF RestInv
    <2> QED
      BY <1>0, <2>1, <2>2, <2>3, SameDeferred
  <1>6. CASE AskRoots
    <2>1. /\ hand' = "asked"
          /\ UNCHANGED <<own, dbName, loop, deferred, call, synced, db, ready, aligning, changes,
                         crossed, rootless>>
      BY <1>6 DEF AskRoots, hostVars, dataVars
    <2> QED
      BY <1>0, <2>1, SameDeferred DEF RestInv
  <1>7. CASE RootsAnswer \/ RootsTimer
    <2>1. PICK r \in Projects \union {None} : Settle(r) /\ rootless' \in BOOLEAN /\ changes' = changes
      BY <1>0, <1>7 DEF RootsAnswer, RootsTimer
    <2> QED
      BY <1>0, <2>1, SettleRest DEF RestInv
  <1>8. CASE RootsChanged
    <2>1. PICK r \in Projects \union {None} :
             \/ Settle(r) /\ UNCHANGED rootless
             \/ /\ call' = [c \in Calls |-> Strayed(call[c])]
                /\ rootless' = (rootless \/ r = None)
                /\ UNCHANGED <<own, dbName, hand, loop, deferred, synced, db, ready, aligning,
                               crossed>>
      BY <1>8 DEF RootsChanged, hostVars, dataVars
    <2>2. changes' \in 0..MaxChanges
      BY <1>0, <1>8, CallConstants DEF RootsChanged, RestInv
    <2>3. CASE Settle(r) /\ UNCHANGED rootless
      BY <1>0, <2>2, <2>3, SettleRest DEF RestInv
    <2>4. CASE ~(Settle(r) /\ UNCHANGED rootless)
      <3>1. \A c \in Calls : call'[c].pc = "deferred" <=> call[c].pc = "deferred"
        BY <1>a, <2>1, <2>4, StrayedType
      <3>2. RestInv'
        BY <1>0, <2>1, <2>2, <2>4 DEF RestInv
      <3> QED
        BY <1>0, <2>1, <2>4, <3>1, <3>2, SameDeferred
    <2> QED
      BY <2>3, <2>4
  <1>9. ASSUME NEW c \in Calls, CallStep(c) PROVE RestInv' /\ DeferredInv'
    <2>1. UNCHANGED <<own, dbName, hand, loop, deferred, changes, crossed, rootless>>
      BY <1>9 DEF CallStep, TakeLock, LockTimeout, Recover, Write, Refuse, AfterWrite, Check,
                  Align, Again, CallOnly, hostVars, rootVars
    <2>2. /\ call[c].pc \notin {"new", "deferred"}
          /\ \E pc, answer : /\ pc # "deferred"
                             /\ \/ call' = [call EXCEPT ![c].pc = pc]
                                \/ call' = [call EXCEPT ![c].pc = pc, ![c].answer = answer]
      BY <1>9 DEF CallStep, TakeLock, LockTimeout, Recover, Write, Refuse, AfterWrite, Check,
                  Align, Again, GoTo, Finish, Load
    <2>3. \A d \in Calls : call'[d].pc = "deferred" <=> call[d].pc = "deferred"
      BY <1>0, <2>2 DEF CallRecord
    <2>4. Project(c) /\ call[c].pc \in {"recover", "project"}
             => /\ synced' \in [Projects -> BOOLEAN]
                /\ db' \in [Databases \ {None} -> Projects \union {None}]
      <3> SUFFICES ASSUME Project(c), call[c].pc \in {"recover", "project"}
                   PROVE  /\ synced' \in [Projects -> BOOLEAN]
                          /\ db' \in [Databases \ {None} -> Projects \union {None}]
        OBVIOUS
      <3>1. call[c].root \in Projects
        BY <1>0 DEF HomeInv, Home, Placed
      <3> QED
        BY <1>0, <3>1 DEF Project, RestInv
    <2>5. CASE TakeLock(c) \/ LockTimeout(c) \/ Refuse(c) \/ Check(c) \/ Again(c)
      <3>1. UNCHANGED <<synced, db, ready, aligning>>
        BY <2>5 DEF TakeLock, LockTimeout, Refuse, Check, Again, dataVars
      <3>2. RestInv'
        BY <1>0, <2>1, <3>1 DEF RestInv
      <3> QED
        BY <1>0, <2>1, <2>3, <3>2, SameDeferred
    <2>6. CASE Recover(c)
      <3>1. RestInv'
        BY <1>0, <2>1, <2>4, <2>6 DEF RestInv, Recover
      <3> QED
        BY <1>0, <2>1, <2>3, <3>1, SameDeferred
    <2>7. CASE Write(c)
      <3>1. RestInv'
        BY <1>0, <2>1, <2>7 DEF RestInv, Write
      <3> QED
        BY <1>0, <2>1, <2>3, <3>1, SameDeferred
    <2>8. CASE AfterWrite(c)
      <3>1. PICK aligned \in BOOLEAN : ready' = [ready EXCEPT ![call[c].root] = aligned]
        BY <2>8 DEF AfterWrite
      <3>2. ready' \in [Projects -> BOOLEAN]
        BY <1>0, <3>1 DEF RestInv
      <3>3. RestInv'
        BY <1>0, <2>1, <2>4, <2>8, <3>2 DEF RestInv, AfterWrite
      <3> QED
        BY <1>0, <2>1, <2>3, <3>3, SameDeferred
    <2>9. CASE Align(c)
      <3>1. Workspace \in Places
        BY <1>0, WorkspaceType DEF Workspace
      <3>2. RestInv'
        BY <1>0, <2>1, <2>9, <3>1 DEF RestInv, Align
      <3> QED
        BY <1>0, <2>1, <2>3, <3>2, SameDeferred
    <2> QED
      BY <1>9, <2>5, <2>6, <2>7, <2>8, <2>9 DEF CallStep
  <1>10. CASE AlignEnds
    <2>1. \A c \in Calls : \/ call'[c] = call[c]
                           \/ call[c].pc = "wait" /\ call'[c] = [call[c] EXCEPT !.pc = "again"]
                           \/ /\ call[c].pc = "wait"
                              /\ call'[c] = [call[c] EXCEPT !.pc = "return", !.answer = "refused"]
      BY <1>10 DEF AlignEnds
    <2>2. \A c \in Calls : call'[c].pc = "deferred" <=> call[c].pc = "deferred"
      BY <1>a, <2>1 DEF CallRecord
    <2>3. PICK ok \in BOOLEAN : ready' = [p \in Projects |-> ready[p] \/ (ok /\ p = aligning)]
      BY <1>10 DEF AlignEnds
    <2>4. ready' \in [Projects -> BOOLEAN]
      BY <2>3
    <2>5. /\ aligning' = None
          /\ UNCHANGED <<own, dbName, hand, loop, deferred, synced, db, changes, crossed, rootless>>
      BY <1>10 DEF AlignEnds, CallOnly, hostVars, rootVars
    <2>6. RestInv'
      BY <1>0, <2>4, <2>5 DEF RestInv
    <2> QED
      BY <1>0, <2>2, <2>5, <2>6, SameDeferred
  <1>11. CASE UNCHANGED vars
    <2>1. UNCHANGED <<own, dbName, hand, loop, deferred, call, synced, db, ready, aligning,
                      changes, crossed, rootless>>
      BY <1>11 DEF vars, hostVars, rootVars, dataVars
    <2> QED
      BY <1>0, <2>1, SameDeferred DEF RestInv
  <1> QED
    BY <1>1, <1>2, <1>3, <1>4, <1>5, <1>6, <1>7, <1>8, <1>9, <1>10, <1>11 DEF Next, Return

LEMMA FullAlways == Spec => []FullInv
  BY FullInit, HomeStep, RestStep, PTL DEF Spec, FullInv

\* The state is well typed, and what waits in deferredToolCalls is what was deferred.
THEOREM TypeCorrect == Spec => []TypeOK
  <1>1. FullInv => TypeOK
    BY DEF FullInv, HomeInv, TypeInv, RestInv, DeferredInv, TypeOK, CallRecord
  <1> QED
    BY <1>1, FullAlways, PTL

-----------------------------------------------------------------------------
(* A projection that counts as current is in its project's database        *)

LEMMA ApartInit == Init => ProjectionsApart
  BY DEF Init, ProjectionsApart

\* Projecting a call's project replaces the graph in its own database only.
LEMMA ProjectApart ==
    ASSUME FullInv, ProjectionsApart, NEW c \in Calls, call[c].root \in Projects, Project(c),
           dbName' = dbName
    PROVE  ProjectionsApart'
  <1> SUFFICES ASSUME dbName = None, NEW p \in Projects, synced'[p]
               PROVE  db'[DefaultDb[p]] = p
    BY DEF ProjectionsApart
  <1> DEFINE q == call[c].root
  <1>1. db' = [db EXCEPT ![DefaultDb[q]] = q] /\ synced' = [synced EXCEPT ![q] = TRUE]
    BY DEF Project, Database
  <1>2. \A x \in Projects : DefaultDb[x] \in DOMAIN db
    BY CallConstants DEF FullInv, RestInv, Databases
  <1>3. CASE p = q
    BY <1>1, <1>2, <1>3
  <1>4. CASE p # q
    <2>1. DefaultDb[p] # DefaultDb[q]
      BY <1>4, CallConstants
    <2>2. synced[p]
      BY <1>1, <1>4 DEF FullInv, RestInv
    <2>3. db[DefaultDb[p]] = p
      BY <2>2 DEF ProjectionsApart
    <2> QED
      BY <1>1, <1>2, <2>1, <2>3
  <1> QED
    BY <1>3, <1>4

LEMMA ApartStep == FullInv /\ ProjectionsApart /\ [Next]_vars => ProjectionsApart'
  <1> SUFFICES ASSUME FullInv, ProjectionsApart, [Next]_vars PROVE ProjectionsApart'
    OBVIOUS
  \* A setting that is loaded stays loaded.
  <1>1. dbName # None => dbName' # None
    <2> SUFFICES ASSUME dbName # None PROVE dbName' = dbName
      OBVIOUS
    <2>1. CASE \E r \in Projects \union {None} : Settle(r)
      BY <2>1, SettleRest
    <2>2. CASE ~\E r \in Projects \union {None} : Settle(r)
      BY <2>2 DEF Next, CallStep, Return, WebCall, WebReturn, Reply, ReadCall, DeferCall, Message,
                  Start, Loaded, AskRoots, RootsAnswer, RootsTimer, RootsChanged, AlignEnds,
                  TakeLock, LockTimeout, Recover, Write, Refuse, AfterWrite, Check, Align, Again,
                  CallOnly, vars, FullInv, HomeInv, TypeInv
    <2> QED
      BY <2>1, <2>2
  <1>2. ASSUME NEW c \in Calls, Recover(c) \/ AfterWrite(c) PROVE ProjectionsApart'
    <2>1. call[c].root \in Projects
      BY <1>2 DEF Recover, AfterWrite, FullInv, HomeInv, Home, Placed
    <2>2. Project(c) /\ dbName' = dbName
      BY <1>2 DEF Recover, AfterWrite, CallOnly
    <2> QED
      BY <2>1, <2>2, ProjectApart
  <1>3. ASSUME NEW c \in Calls, Write(c) PROVE ProjectionsApart'
    <2>1. db' = db /\ dbName' = dbName /\ synced' = [synced EXCEPT ![call[c].root] = FALSE]
      BY <1>3 DEF Write, CallOnly
    <2>2. \A p \in Projects : synced'[p] => synced[p]
      BY <2>1 DEF FullInv, RestInv
    <2> QED
      BY <2>1, <2>2 DEF ProjectionsApart
  <1>4. CASE ~\E c \in Calls : Recover(c) \/ AfterWrite(c) \/ Write(c)
    <2>1. UNCHANGED <<db, synced>>
      BY <1>4 DEF Next, CallStep, Return, WebCall, WebReturn, Reply, ReadCall, DeferCall, Message,
                  Start, AskRoots, RootsAnswer, RootsTimer, RootsChanged, Settle, AlignEnds,
                  TakeLock, LockTimeout, Refuse, Check, Align, Again, vars, dataVars
    <2> QED
      BY <1>1, <2>1 DEF ProjectionsApart
  <1> QED
    BY <1>2, <1>3, <1>4

\* As long as no project's own setting names a database for the process, the graph
\* that a project's sync state calls projected is in that project's database.
THEOREM Apart == Spec => []ProjectionsApart
  BY FullAlways, ApartInit, ApartStep, PTL DEF Spec

-----------------------------------------------------------------------------
(* An alignment is for the project of the query that starts it             *)

\* A query that is on its way to an alignment, and for which the process-wide
\* root has not moved, is about that root's project.
Aimed(k, home) ==
    k.kind = "query" /\ k.pc \in {"recover", "check", "align"} /\ ~k.strayed => k.root = home

\* Only a query goes that way.
OfKind(k) ==
    /\ k.pc = "lock" => k.kind = "write"
    /\ k.pc \in {"check", "align"} => k.kind = "query"

AimInv == \A c \in Calls : Aimed(call[c], Workspace) /\ OfKind(call[c])

LEMMA AimInit == Init => AimInv
  BY DEF Init, AimInv, Aimed, OfKind, Active, NewCall

LEMMA StrayedAims ==
    ASSUME NEW k \in CallRecord, OfKind(k), NEW home
    PROVE  Aimed(Strayed(k), home) /\ OfKind(Strayed(k))
  <1>1. Strayed(k).strayed = (k.strayed \/ (k.kind = "query" /\ k.pc \in {"recover", "check", "align"}))
    BY DEF Strayed, CallRecord
  <1> QED
    BY <1>1, StrayedType DEF Aimed, OfKind

LEMMA DispatchedAims ==
    ASSUME NEW k \in CallRecord, NEW home \in Places
    PROVE  Aimed(Dispatched(k, home), home) /\ OfKind(Dispatched(k, home))
  <1> DEFINE root == Target(k, home)
             pc == IF ~Allowed(k, home) \/ root = Cwd THEN "return"
                   ELSE IF k.kind = "write" THEN "lock" ELSE Load(k, root)
             answer == IF ~Allowed(k, home) THEN "denied"
                       ELSE IF root = Cwd THEN "failed" ELSE "none"
             d == [k EXCEPT !.root = root, !.aim = root, !.strayed = root # home,
                            !.pc = pc, !.answer = answer]
  <1>1. Dispatched(k, home) = d
    BY DEF Dispatched
  <1>2. pc = "lock" => k.kind = "write"
    BY DEF Load
  <1>3. pc \in {"check", "align"} => k.kind = "query"
    BY DEF Load, CallRecord
  <1> HIDE DEF root, pc, answer
  <1>4. d.root = root /\ d.strayed = (root # home) /\ d.pc = pc /\ d.kind = k.kind
    BY DEF CallRecord
  <1> QED
    BY <1>1, <1>2, <1>3, <1>4 DEF Aimed, OfKind

\* A step that leaves the workspace where it is.
LEMMA AimKept ==
    ASSUME AimInv, UNCHANGED <<host, env, roots>>,
           \A c \in Calls : \/ call'[c] = call[c]
                            \/ Aimed(call'[c], Workspace) /\ OfKind(call'[c])
    PROVE  AimInv'
  BY DEF AimInv, Workspace, RootOf

\* The handshake is over: whoever waited for it starts at the workspace that is now
\* known, and the root has moved under everybody else.
LEMMA SettleAims ==
    ASSUME FullInv, AimInv, NEW r \in Projects \union {None}, Settle(r)
    PROVE  AimInv'
  <1> DEFINE home == RootOf(env, r)
  <1>1. home \in Places
    BY WorkspaceType DEF FullInv, HomeInv, TypeInv
  <1>2. /\ \A c \in Calls : call'[c] = IF call[c].pc = "deferred" THEN Dispatched(call[c], home)
                                       ELSE Strayed(call[c])
        /\ Workspace' = home
    BY DEF Settle, Workspace, RootOf, hostVars
  <1> HIDE DEF home
  <1>3. ASSUME NEW c \in Calls PROVE Aimed(call'[c], home) /\ OfKind(call'[c])
    <2>1. call[c] \in CallRecord /\ OfKind(call[c])
      BY DEF FullInv, HomeInv, TypeInv, AimInv
    <2>2. Aimed(Strayed(call[c]), home) /\ OfKind(Strayed(call[c]))
      BY <2>1, StrayedAims
    <2>3. Aimed(Dispatched(call[c], home), home) /\ OfKind(Dispatched(call[c], home))
      BY <1>1, <2>1, DispatchedAims
    <2> QED
      BY <1>2, <2>2, <2>3
  <1> QED
    BY <1>2, <1>3 DEF AimInv

LEMMA AimStep == FullInv /\ AimInv /\ [Next]_vars => AimInv'
  <1> SUFFICES ASSUME FullInv, AimInv, [Next]_vars PROVE AimInv'
    OBVIOUS
  <1>0. /\ call \in [Calls -> CallRecord] /\ HomeInv
        /\ env \in Projects \union {None} /\ roots \in Projects \union {None}
    BY DEF FullInv, HomeInv, TypeInv
  <1>a. \A c \in Calls : call[c] \in CallRecord
    BY <1>0
  <1>b. \A c \in Calls : \A home : Aimed(Strayed(call[c]), home) /\ OfKind(Strayed(call[c]))
    BY <1>a, StrayedAims DEF AimInv
  <1>c. \A c \in Calls : \A home : Aimed(Done(call[c]), home) /\ OfKind(Done(call[c]))
    BY <1>a, DoneType DEF Aimed, OfKind
  <1>1. ASSUME NEW c \in Calls, WebCall(c) PROVE AimInv'
    <2>1. PICK p \in Projects, kind \in {"write", "query"} :
             LET k == [NewCall EXCEPT !.kind = kind, !.saved = env]
             IN  /\ env' = p
                 /\ call' = [d \in Calls |->
                               IF d = c THEN Dispatched(k, p) ELSE Strayed(call[d])]
      BY <1>1 DEF WebCall
    <2> DEFINE k == [NewCall EXCEPT !.kind = kind, !.saved = env]
    <2>2. k \in CallRecord
      BY <1>0, NewType DEF CallRecord, NewCall
    <2>3. /\ call' = [d \in Calls |-> IF d = c THEN Dispatched(k, p) ELSE Strayed(call[d])]
          /\ env' = p
      BY <2>1
    <2> HIDE DEF k
    <2>4. Workspace' = p
      BY <2>3, Constants DEF Workspace, RootOf
    <2>5. \A d \in Calls : Aimed(call'[d], p) /\ OfKind(call'[d])
      BY <1>b, <2>2, <2>3, Constants, DispatchedAims
    <2> QED
      BY <2>4, <2>5 DEF AimInv
  <1>2. ASSUME NEW c \in Calls, WebReturn(c) PROVE AimInv'
    <2>1. \A d \in Calls : call'[d] = IF d = c THEN Done(call[c]) ELSE Strayed(call[d])
      BY <1>2 DEF WebReturn
    <2>2. \A d \in Calls : Aimed(call'[d], Workspace') /\ OfKind(call'[d])
      BY <1>b, <1>c, <2>1
    <2> QED
      BY <2>2 DEF AimInv
  <1>3. ASSUME NEW c \in Calls, ReadCall(c) PROVE AimInv'
    <2>1. PICK kind \in {"write", "query"}, want \in Projects \union {None} :
             call' = [call EXCEPT ![c] = Dispatched(Request(kind, want), Workspace)]
      BY <1>3 DEF ReadCall, Start
    <2> DEFINE k == Request(kind, want)
    <2>2. k \in CallRecord /\ Workspace \in Places
      BY <1>0, RequestType, WorkspaceType DEF Workspace
    <2>3. call' = [call EXCEPT ![c] = Dispatched(k, Workspace)]
      BY <2>1
    <2> HIDE DEF k
    <2>4. \A d \in Calls : \/ call'[d] = call[d]
                           \/ Aimed(call'[d], Workspace) /\ OfKind(call'[d])
      BY <1>0, <2>2, <2>3, DispatchedAims
    <2>5. UNCHANGED <<host, env, roots>>
      BY <1>3 DEF ReadCall, Message, hostVars
    <2> QED
      BY <2>4, <2>5, AimKept
  <1>4. ASSUME NEW c \in Calls, DeferCall(c) PROVE AimInv'
    <2>1. PICK kind \in {"write", "query"}, want \in Projects \union {None} :
             call' = [call EXCEPT ![c] = [Request(kind, want) EXCEPT !.pc = "deferred",
                                                                     !.late = TRUE]]
      BY <1>4 DEF DeferCall
    <2> DEFINE k == Request(kind, want)
    <2>2. [k EXCEPT !.pc = "deferred", !.late = TRUE].pc = "deferred"
      BY <1>0, RequestType DEF CallRecord
    <2>3. \A d \in Calls : call'[d] = call[d] \/ call'[d].pc = "deferred"
      BY <1>0, <2>1, <2>2
    <2>4. \A d \in Calls : \/ call'[d] = call[d]
                           \/ Aimed(call'[d], Workspace) /\ OfKind(call'[d])
      BY <2>3 DEF Aimed, OfKind
    <2>5. UNCHANGED <<host, env, roots>>
      BY <1>4 DEF DeferCall, Message, hostVars
    <2> QED
      BY <2>4, <2>5, AimKept
  <1>5. ASSUME NEW c \in Calls, Reply(c) PROVE AimInv'
    <2>1. /\ call' = [call EXCEPT ![c] = Done(call[c])]
          /\ UNCHANGED <<host, env, roots>>
      BY <1>5 DEF Reply, hostVars
    <2>2. \A d \in Calls : \/ call'[d] = call[d]
                           \/ Aimed(call'[d], Workspace) /\ OfKind(call'[d])
      BY <1>0, <1>c, <2>1
    <2> QED
      BY <2>1, <2>2, AimKept
  <1>6. CASE AskRoots
    BY <1>6, AimKept DEF AskRoots, hostVars
  <1>7. CASE RootsAnswer \/ RootsTimer
    BY <1>0, <1>7, SettleAims DEF RootsAnswer, RootsTimer
  <1>8. CASE RootsChanged
    <2>1. PICK r \in Projects \union {None} :
             Settle(r) \/ call' = [c \in Calls |-> Strayed(call[c])]
      BY <1>8 DEF RootsChanged
    <2>2. CASE call' = [c \in Calls |-> Strayed(call[c])]
      BY <1>b, <2>2 DEF AimInv
    <2> QED
      BY <2>1, <2>2, SettleAims
  <1>9. ASSUME NEW c \in Calls, CallStep(c) PROVE AimInv'
    <2>1. UNCHANGED <<host, env, roots>>
      BY <1>9 DEF CallStep, TakeLock, LockTimeout, Recover, Write, Refuse, AfterWrite, Check,
                  Align, Again, CallOnly, hostVars, rootVars
    <2>2. \A d \in Calls \ {c} : call'[d] = call[d]
      BY <1>0, <1>9 DEF CallStep, TakeLock, LockTimeout, Recover, Write, Refuse, AfterWrite, Check,
                        Align, Again, GoTo, Finish
    <2>3. ASSUME NEW pc, GoTo(c, pc)
          PROVE  /\ call'[c].pc = pc /\ call'[c].kind = call[c].kind
                 /\ call'[c].root = call[c].root /\ call'[c].strayed = call[c].strayed
      <3>1. call' = [call EXCEPT ![c] = [call[c] EXCEPT !.pc = pc]]
        BY <1>0, <2>3 DEF GoTo
      <3>2. call'[c] = [call[c] EXCEPT !.pc = pc]
        BY <1>0, <3>1
      <3> QED
        BY <1>a, <3>2 DEF CallRecord
    <2>4. ASSUME NEW answer, Finish(c, answer) PROVE call'[c].pc = "return"
      <3>1. call' = [call EXCEPT ![c] = [call[c] EXCEPT !.pc = "return", !.answer = answer]]
        BY <1>0, <2>4 DEF Finish
      <3>2. call'[c] = [call[c] EXCEPT !.pc = "return", !.answer = answer]
        BY <1>0, <3>1
      <3> QED
        BY <1>a, <3>2 DEF CallRecord
    <2>5. Aimed(call[c], Workspace) /\ OfKind(call[c])
      BY DEF AimInv
    <2>6. Aimed(call'[c], Workspace) /\ OfKind(call'[c])
      <3>1. CASE TakeLock(c)
        <4>1. GoTo(c, Load(call[c], call[c].root)) /\ call[c].kind = "write"
          BY <2>5, <3>1 DEF TakeLock, OfKind
        <4>2. call'[c].pc \in {"recover", "write"} /\ call'[c].kind = "write"
          BY <2>3, <4>1 DEF Load
        <4> QED
          BY <4>2 DEF Aimed, OfKind
      <3>2. CASE LockTimeout(c) \/ Refuse(c) \/ Again(c)
        <4>1. call'[c].pc = "return"
          BY <2>4, <3>2 DEF LockTimeout, Refuse, Again
        <4> QED
          BY <4>1 DEF Aimed, OfKind
      <3>3. CASE Recover(c)
        <4>1. GoTo(c, IF call[c].kind = "write" THEN "write" ELSE "check") /\ call[c].pc = "recover"
          BY <3>3 DEF Recover
        <4>2. call[c].kind \in {"write", "query"}
          BY <1>a DEF CallRecord
        <4> QED
          BY <2>3, <2>5, <4>1, <4>2 DEF Aimed, OfKind
      <3>4. CASE Write(c)
        <4>1. call'[c] = [call[c] EXCEPT !.pc = "project", !.answer = "written"]
          BY <1>0, <3>4 DEF Write
        <4>2. call'[c].pc = "project"
          BY <1>a, <4>1 DEF CallRecord
        <4> QED
          BY <4>2 DEF Aimed, OfKind
      <3>5. CASE AfterWrite(c)
        BY <2>3, <3>5 DEF AfterWrite, Aimed, OfKind
      <3>6. CASE Check(c)
        BY <2>3, <2>4, <2>5, <3>6 DEF Check, Aimed, OfKind
      <3>7. CASE Align(c)
        BY <2>3, <3>7 DEF Align, Aimed, OfKind
      <3> QED
        BY <1>9, <3>1, <3>2, <3>3, <3>4, <3>5, <3>6, <3>7 DEF CallStep
    <2> QED
      BY <2>1, <2>2, <2>6, AimKept
  <1>10. CASE AlignEnds
    <2>1. \A c \in Calls : \/ call'[c] = call[c]
                           \/ call[c].pc = "wait" /\ call'[c] = [call[c] EXCEPT !.pc = "again"]
                           \/ /\ call[c].pc = "wait"
                              /\ call'[c] = [call[c] EXCEPT !.pc = "return", !.answer = "refused"]
      BY <1>10 DEF AlignEnds
    <2>2. \A c \in Calls : call'[c] = call[c] \/ (call[c].pc = "wait" /\ call'[c].pc \in {"again", "return"})
      BY <1>a, <2>1 DEF CallRecord
    <2>3. \A c \in Calls : \/ call'[c] = call[c]
                           \/ Aimed(call'[c], Workspace) /\ OfKind(call'[c])
      BY <2>2 DEF Aimed, OfKind
    <2>4. UNCHANGED <<host, env, roots>>
      BY <1>10 DEF AlignEnds, CallOnly, hostVars, rootVars
    <2> QED
      BY <2>3, <2>4, AimKept
  <1>11. CASE UNCHANGED vars
    <2>1. UNCHANGED <<host, env, roots, call>>
      BY <1>11 DEF vars, hostVars, rootVars
    <2> QED
      BY <2>1, AimKept
  <1> QED
    BY <1>1, <1>2, <1>3, <1>4, <1>5, <1>6, <1>7, <1>8, <1>9, <1>10, <1>11 DEF Next, Return

LEMMA AimAlways == Spec => []AimInv
  BY FullAlways, AimInit, AimStep, PTL DEF Spec

\* Only the query itself goes from its decision to an alignment.
LEMMA WhoeverAligns ==
    ASSUME FullInv, [Next]_vars, NEW c \in Calls, call[c].pc = "align", call'[c].pc = "wait"
    PROVE  Align(c)
  <1>0. call \in [Calls -> CallRecord] /\ call[c] \in CallRecord /\ HomeInv
    BY DEF FullInv, HomeInv, TypeInv
  <1>1. ASSUME NEW d \in Calls, WebCall(d) \/ WebReturn(d) PROVE FALSE
    <2>1. c # d
      <3>1. CASE WebCall(d)
        <4>1. d <= d
          BY Constants
        <4>2. call[d].pc = "new"
          BY <3>1, <4>1 DEF WebCall, Comes
        <4> QED
          BY <4>2
      <3> QED
        BY <1>1, <3>1 DEF WebReturn
    <2>2. call'[c] = Strayed(call[c])
      BY <1>1, <2>1 DEF WebCall, WebReturn
    <2> QED
      BY <1>0, <2>2, StrayedType
  <1>2. ASSUME NEW d \in Calls, ReadCall(d) \/ DeferCall(d) \/ Reply(d) PROVE FALSE
    <2>1. c # d
      <3>1. CASE ReadCall(d) \/ DeferCall(d)
        <4>1. d <= d
          BY Constants
        <4>2. call[d].pc = "new"
          BY <3>1, <4>1 DEF ReadCall, DeferCall, Message, Comes
        <4> QED
          BY <4>2
      <3> QED
        BY <1>2, <3>1 DEF Reply
    <2>2. call'[c] = call[c]
      BY <1>0, <1>2, <2>1 DEF ReadCall, DeferCall, Start, Reply
    <2> QED
      BY <2>2
  <1>3. CASE RootsAnswer \/ RootsTimer \/ RootsChanged \/ AskRoots
    <2>1. call'[c] = call[c] \/ call'[c] = Strayed(call[c])
      BY <1>0, <1>3 DEF RootsAnswer, RootsTimer, RootsChanged, AskRoots, Settle
    <2> QED
      BY <1>0, <2>1, StrayedType
  <1>4. CASE AlignEnds
    <2>1. call'[c] = call[c]
      BY <1>4 DEF AlignEnds
    <2> QED
      BY <2>1
  <1>5. ASSUME NEW d \in Calls, CallStep(d) PROVE Align(c)
    <2>1. d = c
      <3> SUFFICES ASSUME d # c PROVE FALSE
        OBVIOUS
      <3>1. call'[c] = call[c]
        BY <1>0, <1>5 DEF CallStep, TakeLock, LockTimeout, Recover, Write, Refuse, AfterWrite, Check,
                          Align, Again, GoTo, Finish
      <3> QED
        BY <3>1
    <2> QED
      BY <1>5, <2>1 DEF CallStep, TakeLock, LockTimeout, Recover, Write, Refuse, AfterWrite, Check,
                        Align, Again
  <1>6. CASE UNCHANGED vars
    BY <1>6 DEF vars
  <1> QED
    BY <1>1, <1>2, <1>3, <1>4, <1>5, <1>6 DEF Next, Return

\* An alignment is for the project of the query that starts it, unless the query
\* named a workspace of its own, or the process-wide root may have moved since.
THEOREM AlignsItsProjectAlways == Spec => AlignsItsProject
  <1> DEFINE Aims ==
        \A c \in Calls :
           call[c].pc = "align" /\ call'[c].pc = "wait" /\ aligning = None =>
              aligning' = call[c].root \/ call[c].strayed
  <1>1. FullInv /\ AimInv /\ [Next]_vars => [Aims]_vars
    <2> SUFFICES ASSUME FullInv, AimInv, [Next]_vars, NEW c \in Calls,
                        call[c].pc = "align", call'[c].pc = "wait", aligning = None,
                        ~call[c].strayed
                 PROVE  aligning' = call[c].root
      OBVIOUS
    <2>1. aligning' = Workspace
      BY WhoeverAligns DEF Align
    <2>2. call[c].root = Workspace
      BY DEF AimInv, Aimed, OfKind
    <2> QED
      BY <2>1, <2>2
  <1>2. AlignsItsProject <=> [][Aims]_vars
    BY DEF AlignsItsProject
  <1> HIDE DEF Aims
  <1> QED
    BY FullAlways, AimAlways, <1>1, <1>2, PTL DEF Spec
=============================================================================
