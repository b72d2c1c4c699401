----------------------- MODULE Neo4jProjectionProofs -----------------------
(***************************************************************************)
(* A projection that is behind is noticed, for any number of servers, any  *)
(* contents and any bounds: until a file is replaced under a call that has *)
(* read it, or a process dies with its projection unrecorded.              *)
(***************************************************************************)
EXTENDS Neo4jProjection, TLAPS

\* The marks are no contents, and differ.
LEMMA Marks ==
    /\ None \notin Contents /\ NoDigest \notin Contents /\ Never \notin Contents
    /\ Free \notin Servers
    /\ MaxChanges \in Nat /\ MaxCalls \in Nat /\ MaxCrashes \in Nat
  BY ProjectionConstants

\* A call that goes to another place keeps the lock until it is over.
LEMMA GotoType ==
    ASSUME TypeOK, NEW p \in Servers, NEW at \in Pcs, NEW content \in Contents \union {None},
           GotoWith(p, at, content), pc[p] # "idle",
           \/ kind' = kind
           \/ kind[p] = "write" /\ kind' = [kind EXCEPT ![p] = "written"]
    PROVE  /\ pc' \in [Servers -> Pcs]
           /\ holder' \in Servers \union {Free}
           /\ document' \in [Servers -> Contents \union {None}]
           /\ kind' \in [Servers -> {"read", "query", "write", "written"}]
           /\ \A q \in Servers :
                 (kind'[q] \in {"write", "written"} /\ pc'[q] # "idle") <=> holder' = q
  <1>1. /\ pc' = [pc EXCEPT ![p] = at] /\ document' \in [Servers -> Contents \union {None}]
        /\ holder' = IF at = "idle" /\ holder = p THEN Free ELSE holder
    BY DEF GotoWith, TypeOK
  <1>2. kind[p] \in {"write", "written"} <=> holder = p
    BY DEF TypeOK
  <1>3. ASSUME NEW q \in Servers
        PROVE  (kind'[q] \in {"write", "written"} /\ pc'[q] # "idle") <=> holder' = q
    <2>1. CASE q = p
      <3>1. kind'[p] \in {"write", "written"} <=> kind[p] \in {"write", "written"}
        BY DEF TypeOK
      <3>2. pc'[p] = at
        BY <1>1 DEF TypeOK
      <3> QED
        BY <1>1, <1>2, <2>1, <3>1, <3>2, Marks
    <2>2. CASE q # p
      <3>1. kind'[q] = kind[q] /\ pc'[q] = pc[q]
        BY <1>1, <2>2 DEF TypeOK
      <3>2. (kind[q] \in {"write", "written"} /\ pc[q] # "idle") <=> holder = q
        BY DEF TypeOK
      <3> QED
        BY <1>1, <2>2, <3>1, <3>2, Marks
    <2> QED
      BY <2>1, <2>2
  <1> QED
    BY <1>1, <1>3 DEF TypeOK

\* Only those who write hold the lock, and the graph is written by them alone.
WritersWrite == \A p \in Servers : pc[p] = "write" => kind[p] = "write"

TypeInv == TypeOK /\ WritersWrite

LEMMA AfterSyncType == ASSUME NEW p PROVE AfterSync(p) \in Pcs
  BY DEF AfterSync, Pcs

LEMMA EntryType ==
    ASSUME NEW b \in BOOLEAN, NEW d \in Contents \union {NoDigest, Never}
    PROVE  [dirty |-> b, digest |-> d] \in Entries
  BY DEF Entries

LEMMA TypeInit == Init => TypeInv
  <1> SUFFICES ASSUME Init PROVE TypeInv
    OBVIOUS
  <1>1. Empty \in Entries
    BY EntryType DEF Empty
  <1>2. sync \in Entries
    BY <1>1, EntryType DEF Init
  <1>3. entry \in [Servers -> Entries]
    BY <1>1 DEF Init
  <1>4. 0 \in 0..MaxChanges /\ 0 \in 0..MaxCalls /\ 0 \in 0..MaxCrashes
    BY Marks
  <1>5. /\ file \in Contents /\ projection \in Contents \union {None}
        /\ holder = Free /\ raced \in BOOLEAN /\ unmarked \in BOOLEAN
        /\ pc \in [Servers -> Pcs] /\ calls \in [Servers -> 0..MaxCalls]
        /\ kind \in [Servers -> {"read", "query", "write", "written"}]
        /\ document \in [Servers -> Contents \union {None}]
        /\ changes \in 0..MaxChanges /\ crashes \in 0..MaxCrashes
    BY <1>4 DEF Init, Pcs
  <1>6. \A p \in Servers : pc[p] = "idle" /\ holder # p
    BY Marks DEF Init
  <1> QED
    BY <1>2, <1>3, <1>5, <1>6 DEF TypeInv, TypeOK, WritersWrite

LEMMA TypeStep == TypeInv /\ [Next]_vars => TypeInv'
  <1> SUFFICES ASSUME TypeInv, [Next]_vars PROVE TypeInv'
    OBVIOUS
  <1>0. TypeOK /\ Empty \in Entries
    BY DEF TypeInv, Entries, Empty
  <1>a. ASSUME NEW p \in Servers, NEW at \in Pcs, NEW content \in Contents \union {None},
               GotoWith(p, at, content), pc[p] # "idle", kind' = kind,
               at = "write" => kind[p] = "write",
               file' = file, projection' \in Contents \union {None}, sync' \in Entries,
               entry' \in [Servers -> Entries], raced' = raced, unmarked' \in BOOLEAN,
               changes' = changes, crashes' \in 0..MaxCrashes, calls' = calls
        PROVE  TypeInv'
    <2>1. pc' = [pc EXCEPT ![p] = at]
      BY <1>a DEF GotoWith
    <2>2. WritersWrite'
      BY <1>0, <1>a, <2>1 DEF TypeInv, TypeOK, WritersWrite
    <2>3. /\ pc' \in [Servers -> Pcs]
          /\ holder' \in Servers \union {Free}
          /\ document' \in [Servers -> Contents \union {None}]
          /\ kind' \in [Servers -> {"read", "query", "write", "written"}]
          /\ \A q \in Servers :
                (kind'[q] \in {"write", "written"} /\ pc'[q] # "idle") <=> holder' = q
      BY <1>0, <1>a, GotoType
    <2> QED
      BY <1>0, <1>a, <2>2, <2>3 DEF TypeInv, TypeOK
  <1>b. \A p \in Servers : document[p] \in Contents \union {None} /\ kind[p] \in {"read", "query", "write", "written"}
    BY <1>0 DEF TypeOK
  <1>c. \A p \in Servers : AfterSync(p) \in Pcs /\ (AfterSync(p) = "write" => kind[p] = "write")
    BY AfterSyncType DEF AfterSync
  <1>d. {"open", "project", "verify", "digest", "dirty", "mark", "record", "idle", "write"} \subseteq Pcs
    BY DEF Pcs
  <1>1. ASSUME NEW p \in Servers, NEW k \in {"read", "query", "write"}, NEW at \in {"check", "open"},
               NEW loaded \in Contents \union {None}, Start(p, k, at, loaded),
               k = "write" => holder = Free /\ holder' = p,
               k # "write" => holder' = holder
        PROVE  TypeInv'
    <2>1. /\ pc[p] = "idle" /\ calls' \in [Servers -> 0..MaxCalls]
          /\ kind' = [kind EXCEPT ![p] = k] /\ pc' = [pc EXCEPT ![p] = at]
          /\ document' = [document EXCEPT ![p] = loaded]
          /\ UNCHANGED <<file, projection, sync, entry, raced, unmarked, changes, crashes>>
      BY <1>0, <1>1, Marks DEF Start, TypeOK
    <2>2. pc' \in [Servers -> Pcs] /\ kind' \in [Servers -> {"read", "query", "write", "written"}]
          /\ document' \in [Servers -> Contents \union {None}]
      BY <1>0, <2>1 DEF TypeOK, Pcs
    <2>3. ASSUME NEW q \in Servers
          PROVE  (kind'[q] \in {"write", "written"} /\ pc'[q] # "idle") <=> holder' = q
      BY <1>0, <1>1, <2>1, Marks DEF TypeOK
    <2>4. WritersWrite'
      BY <1>0, <2>1 DEF TypeInv, TypeOK, WritersWrite
    <2> QED
      BY <1>0, <1>1, <2>1, <2>2, <2>3, <2>4 DEF TypeInv, TypeOK
  <1>2. ASSUME NEW p \in Servers, StartRead(p) \/ StartQuery(p) \/ StartRebuild(p) \/ StartWrite(p)
        PROVE  TypeInv'
    <2>1. file \in Contents
      BY <1>0 DEF TypeOK
    <2> QED
      BY <1>1, <1>2, <2>1 DEF StartRead, StartQuery, StartRebuild, StartWrite
  <1>3. ASSUME NEW p \in Servers, Check(p) PROVE TypeInv'
    BY <1>0, <1>3, <1>a, <1>b, <1>c, <1>d DEF Check, Goto, counts, TypeOK
  <1>4. ASSUME NEW p \in Servers, Open(p) PROVE TypeInv'
    <2>1. (IF document[p] = None THEN file ELSE document[p]) \in Contents \union {None}
      BY <1>0, <1>b DEF TypeOK
    <2> QED
      BY <1>0, <1>4, <2>1, <1>a, <1>c, <1>d DEF Open, counts, TypeOK
  <1>5. ASSUME NEW p \in Servers, Project(p) PROVE TypeInv'
    <2>1. projection' \in Contents \union {None}
      BY <1>0, <1>5, <1>b DEF Project, TypeOK
    <2> QED
      BY <1>0, <1>5, <2>1, <1>a, <1>b, <1>d DEF Project, Goto, counts, TypeOK
  <1>6. ASSUME NEW p \in Servers, Verify(p) PROVE TypeInv'
    BY <1>0, <1>6, <1>a, <1>b, <1>d DEF Verify, Goto, counts, TypeOK
  <1>7. ASSUME NEW p \in Servers, Digest(p) \/ Dirty(p) PROVE TypeInv'
    <2>a. file \in Contents /\ sync.digest \in Contents \union {NoDigest, Never}
      BY <1>0 DEF TypeOK, Entries
    <2>b. [dirty |-> FALSE, digest |-> file] \in Entries
      BY <2>a, EntryType
    <2>c. [dirty |-> TRUE, digest |-> sync.digest] \in Entries
      BY <2>a, EntryType
    <2>1. entry' \in [Servers -> Entries]
      BY <1>0, <1>7, <2>b, <2>c DEF Digest, Dirty, TypeOK
    <2> QED
      BY <1>0, <1>7, <2>1, <1>a, <1>b, <1>d DEF Digest, Dirty, Goto, counts, TypeOK
  <1>8. ASSUME NEW p \in Servers, Truncate(p) PROVE TypeInv'
    BY <1>0, <1>8, <1>a, <1>b, <1>d DEF Truncate, Goto, counts, TypeOK
  <1>9. ASSUME NEW p \in Servers, Record(p) PROVE TypeInv'
    <2>1. entry' \in [Servers -> Entries] /\ sync' \in Entries
      BY <1>0, <1>9 DEF Record, TypeOK
    <2> QED
      BY <1>0, <1>9, <2>1, <1>a, <1>b, <1>c DEF Record, Goto, counts, TypeOK
  <1>10. ASSUME NEW p \in Servers, Write(p) PROVE TypeInv'
    <2>1. PICK c \in Contents : Replace(c) /\ GotoWith(p, "open", c)
      BY <1>10 DEF Write
    <2>2. pc[p] = "write" /\ kind[p] = "write" /\ kind' = [kind EXCEPT ![p] = "written"]
      BY <1>10 DEF Write, TypeInv, WritersWrite
    <2>3. /\ pc' \in [Servers -> Pcs]
          /\ holder' \in Servers \union {Free}
          /\ document' \in [Servers -> Contents \union {None}]
          /\ kind' \in [Servers -> {"read", "query", "write", "written"}]
          /\ \A q \in Servers :
                (kind'[q] \in {"write", "written"} /\ pc'[q] # "idle") <=> holder' = q
      BY <1>0, <1>d, <2>1, <2>2, GotoType
    <2>4. file' \in Contents /\ raced' \in BOOLEAN /\ changes' \in 0..MaxChanges
      BY <1>0, <2>1, Marks DEF Replace, TypeOK
    <2>5. WritersWrite'
      BY <1>0, <2>1, <2>2 DEF GotoWith, TypeInv, TypeOK, WritersWrite
    <2> QED
      BY <1>0, <1>10, <2>3, <2>4, <2>5 DEF Write, TypeInv, TypeOK
  <1>11. ASSUME NEW p \in Servers, Refuse(p) PROVE TypeInv'
    BY <1>0, <1>11, <1>a, <1>b, <1>d DEF Refuse, Goto, counts, TypeOK
  <1>12. CASE Import
    <2>1. PICK c \in Contents : Replace(c)
      BY <1>12 DEF Import
    <2>2. file' \in Contents /\ raced' \in BOOLEAN /\ changes' \in 0..MaxChanges
      BY <1>0, <2>1, Marks DEF Replace, TypeOK
    <2> QED
      BY <1>0, <1>12, <2>2 DEF Import, TypeInv, TypeOK, WritersWrite
  <1>13. ASSUME NEW p \in Servers, Crash(p) PROVE TypeInv'
    <2>1. /\ entry' \in [Servers -> Entries] /\ unmarked' \in BOOLEAN
          /\ crashes' \in 0..MaxCrashes
      BY <1>0, <1>13, Marks DEF Crash, TypeOK
    <2> QED
      BY <1>0, <1>13, <2>1, <1>a, <1>b, <1>d DEF Crash, Goto, counts, TypeOK
  <1>14. CASE UNCHANGED vars
    BY <1>14 DEF vars, counts, TypeInv, TypeOK, WritersWrite
  <1> QED
    BY <1>2, <1>3, <1>4, <1>5, <1>6, <1>7, <1>8, <1>9, <1>10, <1>11, <1>12, <1>13, <1>14
       DEF Next, CallStep

\* Type correctness, and that the lock's holder is the writing call.
THEOREM TypeCorrect == Spec => []TypeOK
  <1>1. TypeInv => TypeOK
    BY DEF TypeInv
  <1> QED
    BY TypeInit, TypeStep, <1>1, PTL DEF Spec

-----------------------------------------------------------------------------
(* The invariant                                                            *)

\* Between a call's transaction and the end of its record.
Marking == {"verify", "digest", "dirty", "mark", "record"}

\* A call that works has a document, one that is over has none.
Documented == \A p \in Servers :
    /\ pc[p] = "idle" => document[p] = None
    /\ pc[p] \in Marking \union {"project"} => document[p] # None

\* It is the file, unless the file was replaced under it.
Current == ~raced => \A p \in Servers : document[p] \in {None, file}

\* What is about to be recorded as projected is projected, and is the file.
Marked == ~raced => \A p \in Servers :
    /\ pc[p] \in {"verify", "digest"} => projection = file
    /\ pc[p] \in {"mark", "record"} /\ ~entry[p].dirty =>
          entry[p].digest = file /\ projection = file

\* What is on record as projected is projected, or a call is about to record
\* something else.
Recorded == ~raced /\ ~unmarked =>
    \/ sync.dirty
    \/ sync.digest \notin Contents
    \/ projection = sync.digest
    \/ \E p \in Servers : pc[p] \in Marking

IInv == TypeInv /\ Documented /\ Current /\ Marked /\ Recorded

LEMMA IInvInit == Init => IInv
  <1> SUFFICES ASSUME Init PROVE IInv
    OBVIOUS
  <1>1. \A p \in Servers : pc[p] = "idle" /\ document[p] = None
    BY DEF Init
  <1>2. Recorded
    BY Marks DEF Init, Recorded, Empty
  <1> QED
    BY <1>1, <1>2, TypeInit DEF IInv, Documented, Current, Marked, Marking

\* A step of p on one and the same file.  What the projection becomes is the
\* file, or it stays; what is recorded is p's entry, or nothing.
LEMMA SameFile ==
    ASSUME IInv, TypeInv', NEW p \in Servers, NEW at, NEW content,
           GotoWith(p, at, content),
           file' = file, raced' = raced, unmarked => unmarked',
           at \in Marking \union {"project"} => content # None,
           content \in {document[p], file},
           projection' \in {projection, document[p]},
           projection' # projection => at \in Marking /\ document[p] # None,
           at \in {"verify", "digest"} =>
              (projection' = document[p] /\ document[p] # None) \/ pc[p] \in {"verify", "digest"},
           \A q \in Servers \ {p} : entry'[q] = entry[q],
           at \in {"mark", "record"} /\ ~entry'[p].dirty =>
              \/ entry'[p].digest = file /\ pc[p] = "digest"
              \/ entry'[p] = entry[p] /\ pc[p] \in {"mark", "record"},
           \/ sync' = sync /\ (pc[p] \in Marking => at \in Marking \/ unmarked')
           \/ sync' = Empty
           \/ sync' = entry[p] /\ pc[p] = "record"
    PROVE  IInv'
  <1>0. /\ pc \in [Servers -> Pcs] /\ document \in [Servers -> Contents \union {None}]
        /\ file \in Contents /\ entry \in [Servers -> Entries]
    BY DEF IInv, TypeInv, TypeOK
  <1>1. /\ pc' = [pc EXCEPT ![p] = at]
        /\ document' = [document EXCEPT ![p] = IF at = "idle" THEN None ELSE content]
    BY DEF GotoWith
  <1>2. /\ pc'[p] = at /\ document'[p] = IF at = "idle" THEN None ELSE content
        /\ \A q \in Servers \ {p} : pc'[q] = pc[q] /\ document'[q] = document[q]
    BY <1>0, <1>1
  <1>3. Documented'
    <2>1. ASSUME NEW q \in Servers
          PROVE  /\ pc'[q] = "idle" => document'[q] = None
                 /\ pc'[q] \in Marking \union {"project"} => document'[q] # None
      <3>1. CASE q = p
        BY <1>2, <3>1 DEF Marking
      <3>2. CASE q # p
        BY <1>2, <3>2 DEF IInv, Documented
      <3> QED
        BY <3>1, <3>2
    <2> QED
      BY <2>1 DEF Documented, Marking
  <1>4. Current'
    BY <1>2 DEF IInv, Current
  <1>5. ~raced => projection' \in {projection, file}
    BY DEF IInv, Current
  <1>6. Marked'
    <2> SUFFICES ASSUME ~raced, NEW q \in Servers
                 PROVE  /\ pc'[q] \in {"verify", "digest"} => projection' = file
                        /\ pc'[q] \in {"mark", "record"} /\ ~entry'[q].dirty =>
                              entry'[q].digest = file /\ projection' = file
      BY DEF Marked
    <2>1. /\ pc[q] \in {"verify", "digest"} => projection' = file
          /\ pc[q] \in {"mark", "record"} /\ ~entry[q].dirty =>
                entry[q].digest = file /\ projection' = file
      BY <1>5 DEF IInv, Marked
    <2>2. CASE q = p
      <3>1. at \in {"verify", "digest"} => projection' = file
        BY <2>1, <2>2 DEF IInv, Current
      <3>2. at \in {"mark", "record"} /\ ~entry'[p].dirty =>
               entry'[p].digest = file /\ projection' = file
        BY <2>1, <2>2
      <3> QED
        BY <1>2, <2>2, <3>1, <3>2
    <2>3. CASE q # p
      BY <1>2, <2>1, <2>3
    <2> QED
      BY <2>2, <2>3
  <1>7. Recorded'
    <2> SUFFICES ASSUME ~raced, ~unmarked', ~sync'.dirty, sync'.digest \in Contents,
                        \A q \in Servers : pc'[q] \notin Marking
                 PROVE  projection' = sync'.digest
      BY DEF Recorded, Marking
    <2>1. projection' = projection
      BY <1>2
    <2>2. \A q \in Servers \ {p} : pc[q] \notin Marking
      BY <1>2
    <2>3. CASE sync' = sync /\ (pc[p] \in Marking => at \in Marking \/ unmarked')
      BY <1>2, <2>1, <2>2, <2>3 DEF IInv, Recorded
    <2>4. CASE sync' = Empty
      BY <2>4, Marks DEF Empty
    <2>5. CASE sync' = entry[p] /\ pc[p] = "record"
      BY <2>1, <2>5 DEF IInv, Marked
    <2> QED
      BY <2>3, <2>4, <2>5
  <1> QED
    BY <1>3, <1>4, <1>6, <1>7 DEF IInv

\* A replacement that races with nobody finds no call at work on the old file
\* but the one that makes it.
LEMMA Undisturbed ==
    ASSUME IInv, NEW c \in Contents, Replace(c), ~raced', NEW q \in Servers,
           holder # q
    PROVE  document[q] = None /\ pc[q] \notin Marking \union {"project"} /\ ~raced
  <1>1. ~raced /\ ~HasDocument(q)
    BY Zenon DEF Replace
  <1>2. kind[q] \in {"read", "query"} \/ pc[q] = "idle"
    BY DEF IInv, TypeInv, TypeOK
  <1>3. document[q] = None
    BY <1>1, <1>2 DEF HasDocument, IInv, Documented
  <1> QED
    BY <1>1, <1>3 DEF IInv, Documented

LEMMA Step == IInv /\ TypeInv' /\ [Next]_vars => IInv'
  <1> SUFFICES ASSUME IInv, TypeInv', [Next]_vars PROVE IInv'
    OBVIOUS
  <1>0. /\ pc \in [Servers -> Pcs] /\ document \in [Servers -> Contents \union {None}]
        /\ file \in Contents /\ entry \in [Servers -> Entries]
    BY DEF IInv, TypeInv, TypeOK
  <1>a. \A p \in Servers : AfterSync(p) \in {"write", "idle"}
    BY DEF AfterSync
  <1>b. \A p \in Servers : pc[p] \in Marking \union {"project"} => document[p] # None
    BY DEF IInv, Documented
  <1>1. ASSUME NEW p \in Servers, NEW k, NEW at \in {"check", "open"}, NEW loaded \in {None, file},
               Start(p, k, at, loaded)
        PROVE  IInv'
    <2>1. /\ pc[p] = "idle" /\ pc' = [pc EXCEPT ![p] = at]
          /\ document' = [document EXCEPT ![p] = loaded]
          /\ UNCHANGED <<file, projection, sync, entry, raced, unmarked>>
      BY <1>1 DEF Start
    <2>2. /\ pc'[p] = at /\ document'[p] = loaded /\ at \notin Marking \union {"project", "idle"}
          /\ \A q \in Servers \ {p} : pc'[q] = pc[q] /\ document'[q] = document[q]
      BY <1>0, <2>1 DEF Marking
    <2>3. Documented' /\ Current'
      BY <2>1, <2>2 DEF IInv, Documented, Current, Marking
    <2>4. Marked' /\ Recorded'
      BY <2>1, <2>2 DEF IInv, Marked, Recorded, Marking
    <2> QED
      BY <2>3, <2>4 DEF IInv
  <1>2. ASSUME NEW p \in Servers, StartRead(p) \/ StartQuery(p) \/ StartRebuild(p) \/ StartWrite(p)
        PROVE  IInv'
    BY <1>1, <1>2 DEF StartRead, StartQuery, StartRebuild, StartWrite
  <1>3. ASSUME NEW p \in Servers, Check(p) \/ Refuse(p) PROVE IInv'
    <2>1. PICK at \in {"open", "write", "idle"} : GotoWith(p, at, document[p])
      BY <1>3, <1>a DEF Check, Refuse, Goto
    <2>2. /\ UNCHANGED <<file, projection, sync, entry, raced, unmarked>>
          /\ pc[p] \notin Marking
      BY <1>3 DEF Check, Refuse, Marking
    <2> QED
      BY <2>1, <2>2, SameFile DEF Marking
  <1>4. ASSUME NEW p \in Servers, Open(p) PROVE IInv'
    <2> DEFINE content == IF document[p] = None THEN file ELSE document[p]
    <2>1. PICK at \in {"project", "write", "idle"} : GotoWith(p, at, content)
      BY <1>4, <1>a DEF Open
    <2>2. /\ UNCHANGED <<file, projection, sync, entry, raced, unmarked>>
          /\ pc[p] \notin Marking
      BY <1>4 DEF Open, Marking
    <2>3. content # None /\ content \in {document[p], file}
      BY <1>0, Marks
    <2> HIDE DEF content
    <2> QED
      BY <2>1, <2>2, <2>3, SameFile DEF Marking
  <1>5. ASSUME NEW p \in Servers, Project(p) PROVE IInv'
    <2>1. /\ UNCHANGED <<file, sync, entry, raced, unmarked>>
          /\ pc[p] = "project" /\ document[p] # None
      BY <1>5, <1>b DEF Project
    <2>2. CASE projection' = document[p] /\ Goto(p, "verify")
      BY <2>1, <2>2, SameFile DEF Goto, Marking
    <2>3. CASE projection' \in {projection, document[p]} /\ Goto(p, "dirty")
      BY <2>1, <2>3, SameFile DEF Goto, Marking
    <2> QED
      BY <1>5, <2>2, <2>3 DEF Project
  <1>6. ASSUME NEW p \in Servers, Verify(p) PROVE IInv'
    <2>1. /\ UNCHANGED <<file, projection, sync, entry, raced, unmarked>>
          /\ pc[p] = "verify" /\ document[p] # None
      BY <1>6, <1>b DEF Verify, Marking
    <2>2. PICK at \in {"digest", "dirty"} : GotoWith(p, at, document[p])
      BY <1>6 DEF Verify, Goto
    <2> QED
      BY <2>1, <2>2, SameFile DEF Marking
  <1>7. ASSUME NEW p \in Servers, Digest(p) PROVE IInv'
    <2>1. /\ UNCHANGED <<file, projection, sync, raced, unmarked>>
          /\ pc[p] = "digest" /\ document[p] # None
          /\ GotoWith(p, "mark", document[p])
      BY <1>7, <1>b DEF Digest, Goto, Marking
    <2>2. entry'[p].digest = file /\ \A q \in Servers \ {p} : entry'[q] = entry[q]
      BY <1>0, <1>7 DEF Digest
    <2> QED
      BY <2>1, <2>2, SameFile DEF Marking
  <1>8. ASSUME NEW p \in Servers, Dirty(p) PROVE IInv'
    <2>1. /\ UNCHANGED <<file, projection, sync, raced, unmarked>>
          /\ pc[p] = "dirty" /\ document[p] # None
          /\ GotoWith(p, "mark", document[p])
      BY <1>8, <1>b DEF Dirty, Goto, Marking
    <2>2. entry'[p].dirty /\ \A q \in Servers \ {p} : entry'[q] = entry[q]
      BY <1>0, <1>8 DEF Dirty
    <2> QED
      BY <2>1, <2>2, SameFile DEF Marking
  <1>9. ASSUME NEW p \in Servers, Truncate(p) PROVE IInv'
    <2>1. /\ UNCHANGED <<file, projection, entry, raced, unmarked>> /\ sync' = Empty
          /\ pc[p] = "mark" /\ document[p] # None
          /\ GotoWith(p, "record", document[p])
      BY <1>9, <1>b DEF Truncate, Goto, Marking
    <2> QED
      BY <2>1, SameFile DEF Marking
  <1>10. ASSUME NEW p \in Servers, Record(p) PROVE IInv'
    <2>1. PICK at \in {"write", "idle"} : GotoWith(p, at, document[p])
      BY <1>10, <1>a DEF Record, Goto
    <2>2. /\ UNCHANGED <<file, projection, raced, unmarked>> /\ sync' = entry[p]
          /\ pc[p] = "record" /\ \A q \in Servers \ {p} : entry'[q] = entry[q]
      BY <1>0, <1>10 DEF Record
    <2> QED
      BY <2>1, <2>2, SameFile DEF Marking
  <1>11. ASSUME NEW p \in Servers, Crash(p) PROVE IInv'
    <2>1. /\ UNCHANGED <<file, projection, sync, raced>> /\ GotoWith(p, "idle", document[p])
          /\ \A q \in Servers \ {p} : entry'[q] = entry[q]
      BY <1>0, <1>11 DEF Crash, Goto
    <2>2. (unmarked => unmarked') /\ (pc[p] \in Marking => unmarked')
      BY <1>11 DEF Crash, Marking
    <2> QED
      BY <2>1, <2>2, SameFile DEF Marking
  <1>12. ASSUME NEW p \in Servers, Write(p) PROVE IInv'
    <2>1. PICK c \in Contents : Replace(c) /\ GotoWith(p, "open", c)
      BY <1>12 DEF Write
    <2>2. pc[p] = "write" /\ UNCHANGED <<projection, sync, entry, unmarked>>
      BY <1>12 DEF Write
    <2>3. holder = p
      BY <2>2 DEF IInv, TypeInv, TypeOK, WritersWrite
    <2>4. /\ pc'[p] = "open" /\ document'[p] = c /\ file' = c
          /\ \A q \in Servers \ {p} : pc'[q] = pc[q] /\ document'[q] = document[q]
      BY <1>0, <2>1 DEF GotoWith, Replace
    <2>5. ~raced' => /\ ~raced
                     /\ \A q \in Servers \ {p} : document[q] = None
                            /\ pc[q] \notin Marking \union {"project"}
      <3>1. ~raced' => ~raced
        BY Zenon, <2>1 DEF Replace
      <3> QED
        BY <2>1, <2>3, <3>1, Undisturbed
    <2>6. Documented' /\ Current'
      BY <2>1, <2>4, <2>5, Marks DEF IInv, Documented, Current, Marking
    <2>7. Marked'
      BY <2>4, <2>5 DEF Marked, Marking
    <2>8. Recorded'
      BY <2>2, <2>4, <2>5 DEF IInv, Recorded, Marking
    <2> QED
      BY <2>6, <2>7, <2>8 DEF IInv
  <1>13. CASE Import
    <2>1. PICK c \in Contents : Replace(c)
      BY <1>13 DEF Import
    <2>2. /\ UNCHANGED <<projection, sync, entry, unmarked, pc, document>>
          /\ \A q \in Servers : holder # q
      BY <1>13, Marks DEF Import
    <2>3. ~raced' => \A q \in Servers : document[q] = None /\ pc[q] \notin Marking \union {"project"}
      BY <2>1, <2>2, Undisturbed
    <2>4. ~raced' => ~raced
      BY Zenon, <2>1 DEF Replace
    <2>5. Documented' /\ Current'
      BY <2>2, <2>3 DEF IInv, Documented, Current
    <2>6. Marked' /\ Recorded'
      BY <2>2, <2>3, <2>4 DEF IInv, Marked, Recorded, Marking
    <2> QED
      BY <2>5, <2>6 DEF IInv
  <1>14. CASE UNCHANGED vars
    BY <1>14 DEF vars, IInv, Documented, Current, Marked, Recorded
  <1> QED
    BY <1>2, <1>3, <1>4, <1>5, <1>6, <1>7, <1>8, <1>9, <1>10, <1>11, <1>12, <1>13, <1>14
       DEF Next, CallStep

LEMMA IInvAlways == Spec => []IInv
  <1>1. IInv /\ [Next]_vars => TypeInv'
    BY TypeStep DEF IInv
  <1> QED
    BY IInvInit, Step, <1>1, PTL DEF Spec

\* With nobody at work, a projection that differs from the graph is one that
\* the next reading call rebuilds, until a file is replaced under a call
\* without the lock or somebody dies with the projection unrecorded.
THEOREM Noticed == Spec => []BehindIsNoticedUntilRaced
  <1>1. IInv => BehindIsNoticedUntilRaced
    <2> SUFFICES ASSUME IInv, ~raced, ~unmarked, Quiet, sync # Empty, ~NeedsSync(sync, file)
                 PROVE  projection = file
      BY DEF BehindIsNoticedUntilRaced, BehindIsNoticed
    <2>1. ~sync.dirty /\ sync.digest \in {Never, file}
      BY DEF NeedsSync
    <2>2. sync \in Entries /\ file \in Contents
      BY DEF IInv, TypeInv, TypeOK
    <2>3. sync.digest = file
      <3>1. sync.digest = Never => sync = Empty
        BY <2>1, <2>2 DEF Entries, Empty
      <3> QED
        BY <2>1, <3>1
    <2>4. \A p \in Servers : pc[p] \notin Marking
      BY DEF Quiet, Marking
    <2> QED
      BY <2>1, <2>2, <2>3, <2>4 DEF IInv, Recorded
  <1> QED
    BY IInvAlways, <1>1, PTL
=============================================================================
