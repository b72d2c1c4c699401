------------------------ MODULE SemanticIndexProofs ------------------------
(***************************************************************************)
(* What an accepted index and a checkpoint promise, for any graph, any     *)
(* channels, batches of any size and any number of writes, failures and    *)
(* crashes of the two processes.                                           *)
(***************************************************************************)
EXTENDS SemanticIndex, TLAPS, FiniteSetTheorems

-----------------------------------------------------------------------------
(* Types                                                                   *)

InitRecord ==
    [pc : InitPc, version : SUBSET Ids, snapshot : Graphs, channel : 1..Len(Channels),
     done : SUBSET Ids, attempts : [Ids -> 0..2], batch : SUBSET Ids,
     complete : BOOLEAN, alone : BOOLEAN, believed : SUBSET Range(Channels)]

EditRecord ==
    [pc : EditPc, upserts : SUBSET Ids, left : SUBSET Ids, tombstones : SUBSET Ids]

RecordsType == records \in [Ids -> Records \union {NoRecord}]

TypeInv ==
    /\ graph \in Graphs
    /\ RecordsType
    /\ checkpoint \in [Range(Channels) -> Checkpoints \union {NoCheckpoint}]
    /\ readiness \in [state : States, version : SUBSET Ids]
    /\ init \in InitRecord
    /\ edit \in EditRecord
    /\ trusted \subseteq Range(Channels)
    /\ caveat \in {"none", "behind", "mixed"}
    /\ budget \in [writes : 0..MaxWrites, faults : 0..MaxFaults]

LEMMA ChannelFacts ==
    /\ Len(Channels) \in Nat /\ 1 \in 1..Len(Channels)
    /\ \A n \in 1..Len(Channels) : Channels[n] \in Range(Channels)
    /\ \A c \in Range(Channels) : \E n \in 1..Len(Channels) : Channels[n] = c
    /\ \A id \in Ids : ChannelOf[id] \in Range(Channels)
  <1>1. Channels \in Seq(Range(Channels)) /\ Channels # <<>>
    BY IndexConstants
  <1>2. Len(Channels) \in Nat /\ Len(Channels) # 0 /\ DOMAIN Channels = 1..Len(Channels)
    BY <1>1
  <1> QED
    BY <1>2, IndexConstants DEF Range

LEMMA VersionType == \A g \in Graphs : Version(g) \in SUBSET Ids
  BY DEF Version

LEMMA ObjectsType == \A g, c : Objects(g, c) \subseteq Version(g) /\ Objects(g, c) \subseteq Ids
  BY DEF Objects, Version

LEMMA Present ==
    \A g \in Graphs : \A id \in Ids : (id \in Version(g) <=> g[id] \in Texts) /\ (id \notin Version(g) <=> g[id] = Absent)
  BY IndexConstants DEF Version, Graphs

LEMMA RecordType ==
    \A text \in Texts, version \in SUBSET Ids, by \in {"init", "edit"} :
       /\ Record(text, version, by) \in Records
       /\ Record(text, version, by) # NoRecord
       /\ Record(text, version, by).text = text
  BY IndexConstants DEF Record, Records

LEMMA NoInitType == NoInit \in InitRecord
  <1>1. [id \in Ids |-> Absent] \in Graphs /\ [id \in Ids |-> 0] \in [Ids -> 0..2]
    BY DEF Graphs
  <1> QED
    BY <1>1, ChannelFacts DEF NoInit, InitRecord, InitPc

LEMMA NoEditType == NoEdit \in EditRecord
  BY DEF NoEdit, EditRecord, EditPc

\* The loop of a channel goes on in one of three ways.
LEMMA AfterBatchEffect ==
    ASSUME NEW s \in InitRecord, NEW t, t = AfterBatch(s)
    PROVE  /\ t \in InitRecord
           /\ t.version = s.version /\ t.snapshot = s.snapshot
           /\ t.alone = s.alone /\ t.believed = s.believed
           /\ t.batch = {}
           /\ \/ /\ t.pc = "embed"
                 /\ t.done = s.done /\ t.channel = s.channel /\ t.complete = s.complete
              \/ /\ t.done = {}
                 /\ t.complete => s.complete /\ s.done = Objects(s.snapshot, Channels[s.channel])
                 /\ \/ t.pc = "seed" /\ s.channel < Len(Channels) /\ t.channel = s.channel + 1
                    \/ t.pc = "sweep" /\ s.channel = Len(Channels) /\ t.channel = s.channel
  <1> DEFINE objects == Objects(s.snapshot, Channels[s.channel])
             none == [id \in Ids |-> 0]
             full == s.complete /\ s.done = objects
  <1>0. /\ none \in [Ids -> 0..2] /\ full \in BOOLEAN /\ "embed" \in InitPc
        /\ "seed" \in InitPc /\ "sweep" \in InitPc
    BY DEF InitPc
  <1>1. CASE \E id \in objects \ s.done : s.attempts[id] < 2
    <2>1. t = [s EXCEPT !.pc = "embed", !.batch = {}]
      BY <1>1 DEF AfterBatch
    <2> QED
      BY <1>0, <2>1 DEF InitRecord
  <1>2. CASE ~\E id \in objects \ s.done : s.attempts[id] < 2
    <2>1. t = [s EXCEPT !.batch = {}, !.done = {}, !.complete = full, !.attempts = none,
                        !.channel = IF s.channel < Len(Channels) THEN s.channel + 1 ELSE s.channel,
                        !.pc = IF s.channel < Len(Channels) THEN "seed" ELSE "sweep"]
      BY <1>2 DEF AfterBatch, InitRecord
    <2>2. t.complete = full
      BY <2>1 DEF InitRecord
    <2>3. t.complete => s.complete /\ s.done = objects
      BY Zenon, <2>2
    <2> HIDE DEF full, none
    <2>4. s.channel \in 1..Len(Channels) /\ Len(Channels) \in Nat
      BY ChannelFacts DEF InitRecord
    <2>5. CASE s.channel < Len(Channels)
      <3>1. s.channel + 1 \in 1..Len(Channels)
        BY <2>4, <2>5
      <3>2. t = [s EXCEPT !.batch = {}, !.done = {}, !.complete = full, !.attempts = none,
                          !.channel = s.channel + 1, !.pc = "seed"]
        BY <2>1, <2>5
      <3> QED
        BY <1>0, <2>3, <2>5, <3>1, <3>2 DEF InitRecord
    <2>6. CASE ~(s.channel < Len(Channels))
      <3>1. s.channel = Len(Channels)
        BY <2>4, <2>6
      <3>2. t = [s EXCEPT !.batch = {}, !.done = {}, !.complete = full, !.attempts = none,
                          !.channel = s.channel, !.pc = "sweep"]
        BY <2>1, <2>6
      <3> QED
        BY <1>0, <2>3, <3>1, <3>2 DEF InitRecord
    <2> QED
      BY <2>5, <2>6
  <1> QED
    BY <1>1, <1>2

LEMMA FaultType ==
    ASSUME TypeInv, Fault
    PROVE  budget' \in [writes : 0..MaxWrites, faults : 0..MaxFaults]
  BY IndexConstants DEF TypeInv, Fault

LEMMA ChangeType ==
    ASSUME TypeInv, Change
    PROVE  budget' \in [writes : 0..MaxWrites, faults : 0..MaxFaults]
  BY IndexConstants DEF TypeInv, Change

LEMMA SpoilType ==
    ASSUME TypeInv, NEW ids, Spoil(ids)
    PROVE  /\ init' \in InitRecord
           /\ trusted' \subseteq trusted /\ \A id \in ids : ChannelOf[id] \notin trusted'
           /\ init' = init \/ (Aligning /\ init' = [init EXCEPT !.alone = FALSE])
           /\ Aligning => ~init'.alone
  BY DEF TypeInv, Spoil, InitRecord

LEMMA FinishType ==
    ASSUME TypeInv, NEW state \in States, Finish(state)
    PROVE  readiness' \in [state : States, version : SUBSET Ids] /\ edit' \in EditRecord
  BY VersionType, NoEditType DEF TypeInv, Finish

LEMMA Storing ==
    ASSUME TypeInv, NEW by \in {"init", "edit"}, NEW ids, NEW g \in Graphs,
           ids \subseteq Version(g),
           records' = [id \in Ids |-> IF id \in ids THEN Record(g[id], Version(g), by) ELSE records[id]]
    PROVE  /\ RecordsType'
           /\ \A id \in Ids \ ids : records'[id] = records[id]
           /\ \A id \in Ids : id \in ids => records'[id] # NoRecord /\ records'[id].text = g[id]
  <1>1. Version(g) \in SUBSET Ids
    BY VersionType
  <1>2. \A id \in Ids : id \in ids => g[id] \in Texts
    BY Present
  <1>3. \A id \in Ids : id \in ids =>
           LET r == Record(g[id], Version(g), by) IN r \in Records /\ r # NoRecord /\ r.text = g[id]
    BY <1>1, <1>2, RecordType
  <1> QED
    BY <1>3 DEF TypeInv, RecordsType

LEMMA Removing ==
    ASSUME TypeInv, NEW ids, records' = Without(ids)
    PROVE  /\ RecordsType'
           /\ \A id \in Ids \ ids : records'[id] = records[id]
           /\ \A id \in Ids : id \in ids => records'[id] = NoRecord
  BY DEF TypeInv, RecordsType, Without

LEMMA TypeInit == Init => TypeInv
  <1> SUFFICES ASSUME Init PROVE TypeInv
    OBVIOUS
  <1>1. graph \in Graphs
    BY IndexConstants DEF Init, Graphs
  <1>2. budget \in [writes : 0..MaxWrites, faults : 0..MaxFaults]
    BY IndexConstants DEF Init
  <1>3. RecordsType /\ checkpoint \in [Range(Channels) -> Checkpoints \union {NoCheckpoint}]
    BY DEF Init, RecordsType
  <1> QED
    BY <1>1, <1>2, <1>3, NoInitType, NoEditType DEF Init, TypeInv, States

-----------------------------------------------------------------------------
(* What the processes have done so far                                     *)

\* The identities an alignment names belong to the channel it is at.
Work ==
    /\ init.done \subseteq InChannel
    /\ init.pc \in {"idle", "invalidate", "snapshot"} => init.channel = 1 /\ init.done = {}
    /\ init.pc \in {"upsert", "checkpoint"} => init.batch \subseteq InChannel
    /\ init.pc = "delete" => init.batch \intersect Version(init.snapshot) = {}
    /\ init.pc = "align" => init.complete

\* So do those a checkpoint names.
Own ==
    \A c \in Range(Channels) : checkpoint[c] # NoCheckpoint =>
       \A id \in checkpoint[c].done : id \in checkpoint[c].version /\ ChannelOf[id] = c

EditWork ==
    /\ edit.left \subseteq edit.upserts
    /\ edit.upserts \intersect edit.tombstones = {}
    /\ edit.pc \notin {"idle"} => edit.upserts \subseteq Version(graph)
    /\ edit.pc \in {"tombstone", "verify", "cohere", "align"} => edit.left = {}

Basics == TypeInv /\ Work /\ Own /\ EditWork

LEMMA BasicsImplyTypeOK == Basics => TypeOK
  BY DEF Basics, TypeInv, RecordsType, Work, EditWork, TypeOK, InChannel, InitRecord, EditRecord

LEMMA BasicsInit == Init => Basics
  <1> SUFFICES ASSUME Init PROVE Basics
    OBVIOUS
  <1>1. TypeInv
    BY TypeInit
  <1>2. Work
    BY DEF Init, NoInit, Work
  <1>3. Own
    BY DEF Init, Own
  <1>4. EditWork
    BY DEF Init, NoEdit, EditWork
  <1> QED
    BY <1>1, <1>2, <1>3, <1>4 DEF Basics

LEMMA InChannelType ==
    ASSUME TypeInv
    PROVE  /\ init.channel \in 1..Len(Channels) /\ Channels[init.channel] \in Range(Channels)
           /\ init.snapshot \in Graphs
           /\ InChannel \subseteq Version(init.snapshot) /\ InChannel \subseteq Ids
           /\ InChannel = {id \in Version(init.snapshot) : ChannelOf[id] = Channels[init.channel]}
  BY ChannelFacts, ObjectsType DEF TypeInv, InitRecord, InChannel, Objects

\* The next state of a channel's loop satisfies what the present one does.
LEMMA WorkAfterBatch ==
    ASSUME NEW s \in InitRecord, init' = AfterBatch(s),
           s.done \subseteq Objects(s.snapshot, Channels[s.channel])
    PROVE  init' \in InitRecord /\ Work'
  <1>1. /\ init' \in InitRecord /\ init'.snapshot = s.snapshot
        /\ \/ init'.pc = "embed" /\ init'.done = s.done /\ init'.channel = s.channel
           \/ init'.pc \in {"seed", "sweep"} /\ init'.done = {}
    BY AfterBatchEffect
  <1>2. (InChannel)' = Objects(init'.snapshot, Channels[init'.channel])
    BY DEF InChannel
  <1>3. init'.done \subseteq (InChannel)'
    BY <1>1, <1>2
  <1>4. init'.pc \in {"embed", "seed", "sweep"}
    BY <1>1
  <1> QED
    BY <1>1, <1>3, <1>4 DEF Work

LEMMA BasicsInitSeed == Basics /\ InitSeed => Basics'
  <1> SUFFICES ASSUME Basics, InitSeed PROVE Basics'
    OBVIOUS
  <1> DEFINE c == Channels[init.channel]
             same == checkpoint[c] # NoCheckpoint /\ checkpoint[c].version = Version(init.snapshot)
             believed == [init EXCEPT !.done = checkpoint[c].done, !.believed = @ \union ({c} \ trusted)]
             matched == [init EXCEPT !.done = {id \in InChannel : Matches(id)}]
             unread == [init EXCEPT !.done = {}]
  <1>1. TypeInv /\ Work /\ Own
    BY DEF Basics
  <1>2. c \in Range(Channels) /\ InChannel = {id \in Version(init.snapshot) : ChannelOf[id] = c}
    BY <1>1, InChannelType
  <1>3. init' \in InitRecord /\ Work'
    <2>1. CASE same /\ init' = AfterBatch(believed)
      <3>1. checkpoint[c].done \subseteq Ids
        BY <1>1, <1>2, <2>1 DEF TypeInv, Checkpoints
      <3>2. checkpoint[c].done \subseteq InChannel
        BY <1>1, <1>2, <2>1, <3>1 DEF Own
      <3>3. believed \in InitRecord /\ believed.done = checkpoint[c].done
            /\ believed.snapshot = init.snapshot /\ believed.channel = init.channel
        BY <1>1, <1>2, <3>1 DEF TypeInv, InitRecord
      <3> QED
        BY <2>1, <3>2, <3>3, WorkAfterBatch DEF InChannel
    <2>2. CASE init' = AfterBatch(matched)
      <3>1. matched \in InitRecord /\ matched.done \subseteq InChannel
            /\ matched.snapshot = init.snapshot /\ matched.channel = init.channel
        BY <1>1, InChannelType DEF TypeInv, InitRecord
      <3> QED
        BY <2>2, <3>1, WorkAfterBatch DEF InChannel
    <2>3. CASE init' = AfterBatch(unread)
      <3>1. unread \in InitRecord /\ unread.done = {}
        BY <1>1 DEF TypeInv, InitRecord
      <3> QED
        BY <2>3, <3>1, WorkAfterBatch
    <2> QED
      BY <2>1, <2>2, <2>3 DEF InitSeed
  <1>4. caveat' \in {"none", "behind", "mixed"}
    BY <1>1 DEF InitSeed, TypeInv
  <1>5. budget' \in [writes : 0..MaxWrites, faults : 0..MaxFaults]
    BY <1>1, FaultType DEF InitSeed, TypeInv
  <1>6. UNCHANGED <<graph, edit, records, checkpoint, readiness, trusted>>
    BY DEF InitSeed, InitOnly
  <1>7. TypeInv'
    BY <1>1, <1>3, <1>4, <1>5, <1>6 DEF TypeInv, RecordsType
  <1>8. Own' /\ EditWork'
    BY <1>6 DEF Basics, Own, EditWork
  <1> QED
    BY <1>3, <1>7, <1>8 DEF Basics

LEMMA BasicsInitEmbed == Basics /\ InitEmbed => Basics'
  <1> SUFFICES ASSUME Basics, InitEmbed PROVE Basics'
    OBVIOUS
  <1>1. TypeInv /\ Work
    BY DEF Basics
  <1>2. PICK batch \in SUBSET Pending, failed \in SUBSET Pending :
           /\ failed \subseteq batch
           /\ LET new == Cardinality({id \in failed : init.attempts[id] = 0})
              IN /\ budget.faults + new <= MaxFaults
                 /\ budget' = [budget EXCEPT !.faults = @ + new]
           /\ init' = [init EXCEPT
                         !.pc = IF failed = batch THEN "checkpoint" ELSE "upsert",
                         !.batch = batch \ failed,
                         !.attempts = [id \in Ids |-> @[id] + IF id \in batch THEN 1 ELSE 0]]
    BY DEF InitEmbed
  <1> DEFINE first == {id \in failed : init.attempts[id] = 0}
             tried == [id \in Ids |-> init.attempts[id] + IF id \in batch THEN 1 ELSE 0]
             at == IF failed = batch THEN "checkpoint" ELSE "upsert"
             taken == batch \ failed
  <1>3. Pending \subseteq InChannel /\ Pending \subseteq Ids
    BY <1>1, InChannelType DEF Pending
  <1>4. Cardinality(first) \in Nat
    <2>1. first \in SUBSET Ids
      BY <1>3
    <2>2. IsFiniteSet(first)
      BY <2>1, FS_Subset, IndexConstants
    <2> QED
      BY <2>2, FS_CardinalityType
  <1>5. budget' \in [writes : 0..MaxWrites, faults : 0..MaxFaults]
    <2> HIDE DEF first
    <2>1. budget.faults + Cardinality(first) <= MaxFaults
          /\ budget' = [budget EXCEPT !.faults = @ + Cardinality(first)]
      BY <1>2 DEF first
    <2> QED
      BY <1>1, <1>4, <2>1, IndexConstants DEF TypeInv
  <1>6. tried \in [Ids -> 0..2]
    <2>1. \A id \in Ids : init.attempts[id] \in 0..2
      BY <1>1 DEF TypeInv, InitRecord
    <2>2. \A id \in batch : init.attempts[id] < 2
      BY DEF Pending
    <2>3. \A id \in Ids : init.attempts[id] + (IF id \in batch THEN 1 ELSE 0) \in 0..2
      BY <2>1, <2>2
    <2> QED
      BY <2>3
  <1>7. init' = [init EXCEPT !.pc = at, !.batch = taken, !.attempts = tried]
    BY <1>1, <1>2 DEF TypeInv, InitRecord
  <1>8. at \in InitPc /\ at \in {"checkpoint", "upsert"} /\ taken \subseteq InChannel /\ taken \subseteq Ids
    BY <1>3 DEF InitPc
  <1> HIDE DEF tried, at, taken
  <1>9. init' \in InitRecord
    BY <1>1, <1>6, <1>7, <1>8 DEF TypeInv, InitRecord
  <1>10. init'.pc = at /\ init'.batch = taken /\ init'.done = init.done
         /\ init'.snapshot = init.snapshot /\ init'.channel = init.channel
    BY <1>1, <1>7 DEF TypeInv, InitRecord
  <1>11. (InChannel)' = InChannel
    BY <1>10 DEF InChannel
  <1>12. Work'
    BY <1>1, <1>8, <1>10, <1>11 DEF Work
  <1>13. UNCHANGED <<graph, edit, records, checkpoint, readiness, trusted, caveat>>
    BY DEF InitEmbed, InitOnly
  <1>14. TypeInv' /\ Own' /\ EditWork'
    BY <1>5, <1>9, <1>13 DEF Basics, TypeInv, RecordsType, Own, EditWork
  <1> QED
    BY <1>12, <1>14 DEF Basics

LEMMA BasicsInitCheckpoint == Basics /\ InitCheckpoint => Basics'
  <1> SUFFICES ASSUME Basics, InitCheckpoint PROVE Basics'
    OBVIOUS
  <1> DEFINE c == Channels[init.channel]
             done == init.done \union init.batch
             new == [version |-> Version(init.snapshot), done |-> done]
             named == [init EXCEPT !.done = done]
  <1>1. TypeInv /\ Work /\ Own
    BY DEF Basics
  <1>2. done \subseteq InChannel /\ InChannel \subseteq Ids /\ c \in Range(Channels)
    BY <1>1, InChannelType DEF Work, InitCheckpoint
  <1>3. Version(init.snapshot) \in SUBSET Ids
    BY <1>1, InChannelType, VersionType
  <1> HIDE DEF done
  <1>4. new \in Checkpoints /\ new.done = done /\ new.version = Version(init.snapshot)
    BY <1>2, <1>3 DEF Checkpoints
  <1>5. named \in InitRecord /\ named.done = done
        /\ named.snapshot = init.snapshot /\ named.channel = init.channel
    BY <1>1, <1>2 DEF TypeInv, InitRecord
  <1>6. init' = AfterBatch(named)
    BY DEF InitCheckpoint, done
  <1>7. init' \in InitRecord /\ Work'
    BY <1>2, <1>5, <1>6, WorkAfterBatch DEF InChannel
  <1> HIDE DEF new
  <1>8. checkpoint' = [checkpoint EXCEPT ![c] = new]
    BY DEF InitCheckpoint, new, done
  <1>9. checkpoint' \in [Range(Channels) -> Checkpoints \union {NoCheckpoint}]
    BY <1>1, <1>4, <1>8 DEF TypeInv
  <1>10. Own'
    <2> SUFFICES ASSUME NEW d \in Range(Channels), checkpoint'[d] # NoCheckpoint,
                        NEW id \in checkpoint'[d].done
                 PROVE  id \in checkpoint'[d].version /\ ChannelOf[id] = d
      BY DEF Own
    <2>1. CASE d = c
      <3>1. checkpoint'[d] = new
        BY <1>1, <1>8, <2>1 DEF TypeInv
      <3>2. id \in InChannel
        BY <1>2, <1>4, <3>1
      <3> QED
        BY <1>1, <1>4, <2>1, <3>1, <3>2, InChannelType
    <2>2. CASE d # c
      <3>1. checkpoint'[d] = checkpoint[d]
        BY <1>1, <1>8, <2>2 DEF TypeInv
      <3> QED
        BY <1>1, <3>1 DEF Own
    <2> QED
      BY <2>1, <2>2
  <1>11. trusted' \subseteq Range(Channels)
    BY <1>1, <1>2 DEF InitCheckpoint, TypeInv
  <1>12. UNCHANGED <<graph, edit, records, readiness, caveat, budget>>
    BY DEF InitCheckpoint, InitOnly
  <1>13. TypeInv' /\ EditWork'
    BY <1>7, <1>9, <1>11, <1>12 DEF Basics, TypeInv, RecordsType, EditWork
  <1> QED
    BY <1>7, <1>10, <1>13 DEF Basics

\* The other steps of an alignment.
LEMMA BasicsAlignment ==
    ASSUME Basics,
           \/ InitStart \/ InitDisabled \/ InitInvalidate \/ InitSnapshot \/ InitUpsert
           \/ InitSweep \/ InitDelete \/ InitAlign \/ InitFail \/ InitCrash
    PROVE  Basics'
  <1>1. TypeInv /\ Work
    BY DEF Basics
  <1>2. UNCHANGED <<graph, edit, checkpoint, trusted>>
    BY DEF InitOnly, InitStart, InitDisabled, InitInvalidate, InitSnapshot, InitUpsert,
           InitSweep, InitDelete, InitAlign, InitFail, InitCrash
  <1>3. Own' /\ EditWork'
    BY <1>2 DEF Basics, Own, EditWork
  <1>4. caveat' \in {"none", "behind", "mixed"}
    BY <1>1 DEF TypeInv, InitStart, InitDisabled, InitInvalidate, InitSnapshot, InitUpsert,
           InitSweep, InitDelete, InitAlign, InitFail, InitCrash
  <1>5. budget' \in [writes : 0..MaxWrites, faults : 0..MaxFaults]
    BY <1>1, FaultType DEF TypeInv, InitStart, InitDisabled, InitInvalidate, InitSnapshot,
           InitUpsert, InitSweep, InitDelete, InitAlign, InitFail, InitCrash
  <1>6. init.version \in SUBSET Ids
    BY <1>1 DEF TypeInv, InitRecord
  <1>7. readiness' \in [state : States, version : SUBSET Ids]
    BY <1>1, <1>6 DEF TypeInv, States, InitStart, InitDisabled, InitInvalidate, InitSnapshot,
           InitUpsert, InitSweep, InitDelete, InitAlign, InitFail, InitCrash
  <1>8. ASSUME init' = NoInit PROVE init' \in InitRecord /\ Work'
    <2>1. init'.pc = "idle" /\ init'.channel = 1 /\ init'.done = {}
      BY <1>8 DEF NoInit
    <2> QED
      BY <1>8, <2>1, NoInitType DEF Work
  <1>9. ASSUME init'.done = init.done, init'.channel = init.channel,
               init'.snapshot = init.snapshot,
               init'.pc # "upsert",
               init'.pc \in {"idle", "invalidate", "snapshot"}
                  => init.pc \in {"idle", "invalidate", "snapshot"},
               init'.pc = "checkpoint" => init'.batch \subseteq InChannel,
               init'.pc = "delete" => init'.batch \intersect Version(init.snapshot) = {},
               init'.pc = "align" => init'.complete
        PROVE  Work'
    <2>1. (InChannel)' = InChannel
      BY <1>9 DEF InChannel
    <2> QED
      BY <1>1, <1>9, <2>1 DEF Work
  <1>10. CASE InitStart
    <2> DEFINE v == Version(graph)
               a == ~Running
    <2>1. v \in SUBSET Ids /\ a \in BOOLEAN
      BY <1>1, VersionType DEF TypeInv
    <2>2. init' = [NoInit EXCEPT !.pc = "invalidate", !.version = v, !.alone = a]
      BY <1>10 DEF InitStart
    <2> HIDE DEF v, a
    <2>3. init' \in InitRecord /\ init'.pc = "invalidate"
      BY <2>1, <2>2, NoInitType DEF InitRecord, InitPc
    <2>4. init'.channel = 1 /\ init'.done = {}
      BY <2>2 DEF NoInit
    <2>5. Work'
      BY <2>3, <2>4 DEF Work
    <2>6. RecordsType'
      BY <1>1, <1>10 DEF TypeInv, RecordsType, InitStart
    <2> QED
      BY <1>1, <1>2, <1>3, <1>4, <1>5, <1>7, <2>3, <2>5, <2>6 DEF Basics, TypeInv
  <1>11. (init' \in InitRecord /\ Work') \/ InitStart
    <2>1. CASE InitDisabled \/ InitAlign \/ InitFail \/ InitCrash \/ (InitDelete /\ ~init.complete)
      BY <1>8, <2>1 DEF InitDisabled, InitAlign, InitFail, InitCrash, InitDelete
    <2>2. CASE InitInvalidate
      <3>1. /\ init' \in InitRecord /\ init'.pc = "snapshot" /\ init.pc = "invalidate"
            /\ init'.done = init.done /\ init'.channel = init.channel
            /\ init'.snapshot = init.snapshot
        BY <1>1, <2>2 DEF InitInvalidate, TypeInv, InitRecord, InitPc
      <3> QED
        BY <1>9, <3>1
    <2>3. CASE InitSnapshot
      <3>1. init' = [init EXCEPT !.pc = "seed", !.snapshot = graph]
        BY <2>3 DEF InitSnapshot
      <3>2. init' \in InitRecord /\ init'.pc = "seed" /\ init'.done = init.done
        BY <1>1, <3>1 DEF TypeInv, InitRecord, InitPc
      <3>3. init.done = {}
        BY <1>1, <2>3 DEF Work, InitSnapshot
      <3> QED
        BY <3>2, <3>3 DEF Work
    <2>4. CASE InitUpsert
      <3>1. /\ init' \in InitRecord /\ init'.pc = "checkpoint" /\ init'.batch = init.batch
            /\ init'.done = init.done /\ init'.channel = init.channel
            /\ init'.snapshot = init.snapshot
        BY <1>1, <2>4 DEF InitUpsert, TypeInv, InitRecord, InitPc
      <3>2. init.batch \subseteq InChannel
        BY <1>1, <2>4 DEF Work, InitUpsert
      <3> QED
        BY <1>9, <3>1, <3>2
    <2>5. CASE InitSweep
      <3> DEFINE batch == {id \in Ids : Stored(id)} \ Version(init.snapshot)
      <3>1. init' = [init EXCEPT !.pc = "delete", !.batch = batch]
        BY <2>5 DEF InitSweep
      <3>2. batch \in SUBSET Ids /\ batch \intersect Version(init.snapshot) = {}
        OBVIOUS
      <3> HIDE DEF batch
      <3>3. /\ init' \in InitRecord /\ init'.pc = "delete" /\ init'.batch = batch
            /\ init'.done = init.done /\ init'.channel = init.channel
            /\ init'.snapshot = init.snapshot
        BY <1>1, <3>1, <3>2 DEF TypeInv, InitRecord, InitPc
      <3> QED
        BY <1>9, <3>2, <3>3
    <2>6. CASE InitDelete /\ init.complete
      <3>1. init' = [init EXCEPT !.pc = "align", !.batch = {}]
        BY <2>6 DEF InitDelete
      <3>2. /\ init' \in InitRecord /\ init'.pc = "align"
            /\ init'.done = init.done /\ init'.channel = init.channel
            /\ init'.snapshot = init.snapshot /\ init'.complete = init.complete
        BY <1>1, <3>1 DEF TypeInv, InitRecord, InitPc
      <3>3. init'.complete
        BY <2>6, <3>2
      <3> QED
        BY <1>9, <3>2, <3>3
    <2>7. \/ InitStart \/ InitDisabled \/ InitInvalidate \/ InitSnapshot \/ InitUpsert
          \/ InitSweep \/ InitDelete \/ InitAlign \/ InitFail \/ InitCrash
      OBVIOUS
    <2> QED
      BY <2>1, <2>2, <2>3, <2>4, <2>5, <2>6, <2>7
  <1>12. RecordsType'
    <2>1. CASE InitUpsert
      <3>1. init.batch \subseteq Version(init.snapshot) /\ init.snapshot \in Graphs
        BY <1>1, <2>1, InChannelType DEF Work, InitUpsert
      <3> QED
        BY <1>1, <2>1, <3>1, Storing DEF InitUpsert
    <2>2. CASE InitDelete
      BY <1>1, <2>2, Removing DEF InitDelete
    <2>3. CASE ~InitUpsert /\ ~InitDelete
      <3>1. records' = records
        BY <2>3 DEF InitStart, InitDisabled, InitInvalidate, InitSnapshot, InitSweep, InitAlign,
                    InitFail, InitCrash
      <3> QED
        BY <1>1, <3>1 DEF TypeInv, RecordsType
    <2> QED
      BY <2>1, <2>2, <2>3
  <1> QED
    BY <1>1, <1>2, <1>3, <1>4, <1>5, <1>7, <1>10, <1>11, <1>12 DEF Basics, TypeInv

\* A write of the graph, by whichever hand.
LEMMA GraphWritten ==
    ASSUME Basics, EditWrite \/ OutsideWrite
    PROVE  /\ edit.pc = "idle"
           /\ UNCHANGED <<records, checkpoint, readiness>>
           /\ trusted' \subseteq trusted
           /\ \E id \in Ids :
                 /\ graph' \in Graphs /\ \A other \in Ids : other # id => graph'[other] = graph[other]
                 /\ ChannelOf[id] \notin trusted'
                 /\ \/ OutsideWrite /\ edit' = edit
                    \/ /\ EditWrite
                       /\ edit' \in EditRecord
                       /\ edit'.pc = "invalidate" /\ edit'.upserts \union edit'.tombstones = {id}
                       /\ edit'.upserts \intersect edit'.tombstones = {}
                       /\ edit'.left = edit'.upserts /\ edit'.upserts \subseteq Version(graph')
           /\ init' \in InitRecord
           /\ init' = init \/ (Aligning /\ init' = [init EXCEPT !.alone = FALSE])
           /\ Aligning => ~init'.alone
  <1>1. TypeInv
    BY DEF Basics
  <1>2. CASE EditWrite
    <2>1. PICK id \in Ids, new \in Texts \union {Absent}, removeOnly \in BOOLEAN :
             /\ new = Absent => removeOnly
             /\ graph' = [graph EXCEPT ![id] = new]
             /\ LET upserts == IF removeOnly THEN {} ELSE {id}
                IN edit' = [pc |-> "invalidate", upserts |-> upserts, left |-> upserts,
                            tombstones |-> {id} \ upserts]
             /\ Spoil({id})
      BY <1>2 DEF EditWrite
    <2> DEFINE upserts == IF removeOnly THEN {} ELSE {id}
    <2>2. graph' \in Graphs /\ graph'[id] = new /\ \A other \in Ids : other # id => graph'[other] = graph[other]
      BY <1>1, <2>1 DEF TypeInv, Graphs
    <2>3. upserts \subseteq Version(graph')
      BY <2>1, <2>2 DEF Version
    <2>4. upserts \in SUBSET Ids /\ upserts \subseteq {id}
      OBVIOUS
    <2>5. edit' = [pc |-> "invalidate", upserts |-> upserts, left |-> upserts,
                   tombstones |-> {id} \ upserts]
      BY <2>1
    <2> HIDE DEF upserts
    <2>6. /\ edit' \in EditRecord
          /\ edit'.pc = "invalidate" /\ edit'.upserts \union edit'.tombstones = {id}
          /\ edit'.upserts \intersect edit'.tombstones = {}
          /\ edit'.left = edit'.upserts /\ edit'.upserts = upserts
      BY <2>4, <2>5 DEF EditRecord, EditPc
    <2>7. ChannelOf[id] \notin trusted' /\ trusted' \subseteq trusted /\ init' \in InitRecord
          /\ (init' = init \/ (Aligning /\ init' = [init EXCEPT !.alone = FALSE]))
          /\ (Aligning => ~init'.alone)
      BY <1>1, <2>1, SpoilType
    <2> QED
      BY <1>2, <2>2, <2>3, <2>6, <2>7 DEF EditWrite, EditOnly
  <1>3. CASE OutsideWrite
    <2>1. PICK id \in Ids, new \in Texts \union {Absent} :
             graph' = [graph EXCEPT ![id] = new] /\ Spoil({id})
      BY <1>3 DEF OutsideWrite
    <2>2. graph' \in Graphs /\ \A other \in Ids : other # id => graph'[other] = graph[other]
      BY <1>1, <2>1 DEF TypeInv, Graphs
    <2>3. ChannelOf[id] \notin trusted' /\ trusted' \subseteq trusted /\ init' \in InitRecord
          /\ (init' = init \/ (Aligning /\ init' = [init EXCEPT !.alone = FALSE]))
          /\ (Aligning => ~init'.alone)
      BY <1>1, <2>1, SpoilType
    <2> QED
      BY <1>3, <2>2, <2>3 DEF OutsideWrite
  <1> QED
    BY <1>2, <1>3

LEMMA BasicsGraphWritten == Basics /\ (EditWrite \/ OutsideWrite) => Basics'
  <1> SUFFICES ASSUME Basics, EditWrite \/ OutsideWrite PROVE Basics'
    OBVIOUS
  <1>1. TypeInv /\ Work /\ EditWork
    BY DEF Basics
  <1>2. caveat' \in {"none", "behind", "mixed"}
    BY <1>1 DEF EditWrite, OutsideWrite, Behind, TypeInv
  <1>3. budget' \in [writes : 0..MaxWrites, faults : 0..MaxFaults]
    BY <1>1, ChangeType DEF EditWrite, OutsideWrite
  <1>4. init' \in InitRecord /\ init'.pc = init.pc /\ init'.done = init.done
        /\ init'.channel = init.channel /\ init'.snapshot = init.snapshot
        /\ init'.batch = init.batch /\ init'.complete = init.complete
    <2>1. init \in InitRecord
      BY <1>1 DEF TypeInv
    <2>2. init' = init \/ init' = [init EXCEPT !.alone = FALSE]
      BY GraphWritten
    <2> QED
      BY <2>1, <2>2, GraphWritten DEF InitRecord
  <1>5. Work'
    <2>1. (InChannel)' = InChannel
      BY <1>4 DEF InChannel
    <2> QED
      BY <1>1, <1>4, <2>1 DEF Work
  <1>6. Own' /\ RecordsType'
    BY <1>1, GraphWritten DEF Basics, Own, TypeInv, RecordsType
  <1>7. /\ graph' \in Graphs /\ trusted' \subseteq Range(Channels)
        /\ checkpoint' = checkpoint /\ readiness' = readiness
    BY <1>1, GraphWritten DEF TypeInv
  <1>8. edit' \in EditRecord /\ EditWork'
    <2>1. CASE edit' = edit
      BY <1>1, <2>1, GraphWritten DEF EditWork, TypeInv
    <2>2. CASE edit' # edit
      BY <2>2, GraphWritten DEF EditWork
    <2> QED
      BY <2>1, <2>2
  <1> QED
    BY <1>1, <1>2, <1>3, <1>4, <1>5, <1>6, <1>7, <1>8 DEF Basics, TypeInv

\* The steps of the lifecycle after the write.
LifecycleStep ==
    \/ EditInvalidate \/ EditPending \/ EditUpsert \/ EditTombstone \/ EditVerify
    \/ EditCohere \/ EditAlign \/ EditFail \/ EditCrash

\* What they have in common: the call goes on, or ends and forgets its work.
LEMMA Lifecycle ==
    ASSUME Basics, LifecycleStep
    PROVE  /\ Running
           /\ UNCHANGED <<graph, checkpoint, init, trusted>>
           /\ edit' \in EditRecord
           /\ \/ edit' = NoEdit
              \/ /\ edit'.upserts = edit.upserts /\ edit'.tombstones = edit.tombstones
                 /\ edit'.left \subseteq edit.left
                 /\ edit'.pc \in {"tombstone", "verify", "cohere", "align"} => edit'.left = {}
                 /\ edit'.pc # "idle"
           /\ caveat' = caveat \/ caveat' = Behind
           /\ readiness' \in [state : States, version : SUBSET Ids]
           /\ budget' \in [writes : 0..MaxWrites, faults : 0..MaxFaults]
  <1>1. TypeInv /\ EditWork
    BY DEF Basics
  <1>2. Running
    BY DEF LifecycleStep, Running, EditInvalidate, EditPending, EditUpsert, EditTombstone,
           EditVerify, EditCohere, EditCheck, EditAlign, EditFail, EditCrash
  <1>3. UNCHANGED <<graph, checkpoint, init, trusted>>
    BY DEF LifecycleStep, EditOnly, EditInvalidate, EditPending, EditUpsert, EditTombstone,
           EditVerify, EditCohere, EditCheck, EditAlign, EditFail, EditCrash
  <1>4. caveat' = caveat \/ caveat' = Behind
    BY DEF LifecycleStep, EditInvalidate, EditPending, EditUpsert, EditTombstone,
           EditVerify, EditCohere, EditCheck, EditAlign, EditFail, EditCrash
  <1>5. budget' \in [writes : 0..MaxWrites, faults : 0..MaxFaults]
    BY <1>1, FaultType DEF LifecycleStep, EditInvalidate, EditPending, EditUpsert, EditTombstone,
           EditVerify, EditCohere, EditCheck, EditAlign, EditFail, EditCrash, TypeInv
  <1>6. readiness' \in [state : States, version : SUBSET Ids]
    <2>1. Version(graph) \in SUBSET Ids
      BY <1>1, VersionType DEF TypeInv
    <2>2. \/ readiness' = readiness
          \/ \E state \in States : readiness' = [state |-> state, version |-> Version(graph)]
      <3>1. {"Stale", "SemanticIndexPending", "Failed", "Aligned"} \subseteq States
        BY DEF States
      <3>2. CASE EditInvalidate \/ EditPending \/ EditAlign \/ EditFail
        BY <3>1, <3>2 DEF EditInvalidate, EditPending, EditAlign, EditFail, Finish
      <3>3. CASE EditVerify \/ EditCohere
        BY <3>1, <3>3 DEF EditVerify, EditCohere, EditCheck, Finish
      <3>4. CASE EditUpsert \/ EditTombstone \/ EditCrash
        BY <3>4 DEF EditUpsert, EditTombstone, EditCrash
      <3> QED
        BY <3>2, <3>3, <3>4 DEF LifecycleStep
    <2> QED
      BY <1>1, <2>1, <2>2 DEF TypeInv
  <1>7. \/ edit' = NoEdit
        \/ /\ edit' \in EditRecord
           /\ edit'.upserts = edit.upserts /\ edit'.tombstones = edit.tombstones
           /\ edit'.left \subseteq edit.left
           /\ edit'.pc \in {"tombstone", "verify", "cohere", "align"} => edit'.left = {}
           /\ edit'.pc # "idle"
    <2>1. CASE EditInvalidate
      <3>1. PICK at \in {"tombstone", "upsert", "pending"} :
               edit' = [edit EXCEPT !.pc = at] /\ (at = "tombstone" => edit.upserts = {})
        BY <2>1 DEF EditInvalidate
      <3> QED
        BY <1>1, <3>1 DEF TypeInv, EditRecord, EditPc, EditWork
    <2>2. CASE EditUpsert
      <3>1. PICK mine \in SUBSET edit.left :
               edit' = [edit EXCEPT !.left = @ \ mine,
                                    !.pc = IF edit.left = mine THEN "tombstone" ELSE @]
        BY <2>2 DEF EditUpsert
      <3> DEFINE left == edit.left \ mine
                 at == IF edit.left = mine THEN "tombstone" ELSE "upsert"
      <3>2. at \in EditPc /\ at \in {"tombstone", "upsert"} /\ (at = "tombstone" => left = {})
            /\ left \subseteq edit.left /\ left \in SUBSET Ids
        BY <1>1 DEF EditPc, TypeInv, EditRecord
      <3>3. edit' = [edit EXCEPT !.left = left, !.pc = at]
        BY <1>1, <2>2, <3>1 DEF EditUpsert, TypeInv, EditRecord
      <3> HIDE DEF left, at
      <3> QED
        BY <1>1, <3>2, <3>3 DEF TypeInv, EditRecord
    <2>3. CASE EditTombstone
      BY <1>1, <2>3 DEF EditTombstone, TypeInv, EditRecord, EditPc, EditWork
    <2>4. CASE EditVerify \/ EditCohere
      <3>1. \/ edit' = NoEdit
            \/ /\ edit.pc \in {"verify", "cohere"}
               /\ \E at \in {"cohere", "align"} : edit' = [edit EXCEPT !.pc = at]
        BY <2>4 DEF EditVerify, EditCohere, EditCheck, Finish
      <3> QED
        BY <1>1, <3>1 DEF TypeInv, EditRecord, EditPc, EditWork
    <2>5. CASE EditPending \/ EditAlign \/ EditFail \/ EditCrash
      BY <2>5 DEF EditPending, EditAlign, EditFail, EditCrash, Finish
    <2> QED
      BY <2>1, <2>2, <2>3, <2>4, <2>5 DEF LifecycleStep
  <1> QED
    BY <1>2, <1>3, <1>4, <1>5, <1>6, <1>7, NoEditType

LEMMA BasicsLifecycle == Basics /\ LifecycleStep => Basics'
  <1> SUFFICES ASSUME Basics, LifecycleStep PROVE Basics'
    OBVIOUS
  <1>1. TypeInv /\ Work /\ Own /\ EditWork
    BY DEF Basics
  <1>2. UNCHANGED <<graph, checkpoint, init, trusted>>
    BY Lifecycle
  <1>3. Work' /\ Own'
    BY <1>1, <1>2 DEF Work, Own, InChannel
  <1>4. EditWork'
    <2>1. CASE edit' = NoEdit
      BY <2>1 DEF EditWork, NoEdit
    <2>2. CASE edit' # NoEdit
      BY <1>1, <1>2, <2>2, Lifecycle DEF EditWork, Running
    <2> QED
      BY <2>1, <2>2
  <1>5. caveat' \in {"none", "behind", "mixed"}
    BY <1>1, Lifecycle DEF Behind, TypeInv
  <1>6. RecordsType'
    <2>1. CASE EditUpsert
      <3>1. PICK mine \in SUBSET edit.left :
               records' = [id \in Ids |-> IF id \in mine
                                          THEN Record(graph[id], Version(graph), "edit")
                                          ELSE records[id]]
        BY <2>1 DEF EditUpsert
      <3>2. mine \subseteq Version(graph) /\ graph \in Graphs
        BY <1>1, <2>1 DEF EditWork, EditUpsert, TypeInv
      <3> QED
        BY <1>1, <3>1, <3>2, Storing
    <2>2. CASE EditTombstone
      BY <1>1, <2>2, Removing DEF EditTombstone
    <2>3. CASE ~EditUpsert /\ ~EditTombstone
      <3>1. records' = records
        BY <2>3 DEF LifecycleStep, EditInvalidate, EditPending, EditVerify, EditCohere, EditCheck,
                    EditAlign, EditFail, EditCrash
      <3> QED
        BY <1>1, <3>1 DEF TypeInv, RecordsType
    <2> QED
      BY <2>1, <2>2, <2>3
  <1> QED
    BY <1>1, <1>2, <1>3, <1>4, <1>5, <1>6, Lifecycle DEF Basics, TypeInv

\* Every step is one of these.
AlignmentStep ==
    \/ InitStart \/ InitDisabled \/ InitInvalidate \/ InitSnapshot \/ InitUpsert
    \/ InitSweep \/ InitDelete \/ InitAlign \/ InitFail \/ InitCrash

LEMMA Steps ==
    [Next]_vars =>
       \/ InitSeed \/ InitEmbed \/ InitCheckpoint \/ AlignmentStep
       \/ EditWrite \/ OutsideWrite \/ LifecycleStep
       \/ UNCHANGED vars
  BY DEF Next, InitStep, EditStep, AlignmentStep, LifecycleStep

LEMMA BasicsStep == Basics /\ [Next]_vars => Basics'
  <1> SUFFICES ASSUME Basics, [Next]_vars PROVE Basics'
    OBVIOUS
  <1>1. CASE AlignmentStep
    BY <1>1, BasicsAlignment DEF AlignmentStep
  <1>2. CASE UNCHANGED vars
    BY <1>2 DEF vars, Basics, TypeInv, RecordsType, Work, InChannel, Own, EditWork
  <1> QED
    BY <1>1, <1>2, Steps, BasicsInitSeed, BasicsInitEmbed, BasicsInitCheckpoint,
       BasicsGraphWritten, BasicsLifecycle

\* Every state variable keeps its type, an alignment is never past the objects
\* of its channel, and an edit never has more left than it began with.
THEOREM TypeCorrect == Spec => []TypeOK
  <1>1. Spec => []Basics
    BY BasicsInit, BasicsStep, PTL DEF Spec
  <1> QED
    BY <1>1, BasicsImplyTypeOK, PTL

-----------------------------------------------------------------------------
(* Overlaps are noted                                                      *)

\* The alignment has taken its snapshot.
Past == init.pc \in {"seed", "embed", "upsert", "checkpoint", "sweep", "delete", "align"}

\* It has been through all channels.
Swept == init.pc \in {"sweep", "delete", "align"}

\* An alignment that no write overlapped has the graph as it is.
Alone ==
    Aligning /\ init.alone =>
       /\ ~Running
       /\ init.version = Version(graph)
       /\ Past => init.snapshot = graph

\* All others are in the caveat.
Caveats == Aligning => Sound \/ caveat = "mixed"

Overlaps == Alone /\ Caveats

\* A batch goes on to the database, unless all of it failed.
LEMMA EmbedEffect ==
    ASSUME TypeInv, InitEmbed
    PROVE  \E at, taken, tried :
              /\ init' = [init EXCEPT !.pc = at, !.batch = taken, !.attempts = tried]
              /\ at \in {"checkpoint", "upsert"}
              /\ at = "checkpoint" => taken = {}
  <1>1. PICK batch \in SUBSET Pending, failed \in SUBSET Pending :
           /\ failed \subseteq batch
           /\ init' = [init EXCEPT
                         !.pc = IF failed = batch THEN "checkpoint" ELSE "upsert",
                         !.batch = batch \ failed,
                         !.attempts = [id \in Ids |-> @[id] + IF id \in batch THEN 1 ELSE 0]]
    BY DEF InitEmbed
  <1> DEFINE at == IF failed = batch THEN "checkpoint" ELSE "upsert"
             taken == batch \ failed
             tried == [id \in Ids |-> init.attempts[id] + IF id \in batch THEN 1 ELSE 0]
  <1>2. init' = [init EXCEPT !.pc = at, !.batch = taken, !.attempts = tried]
    BY <1>1 DEF TypeInv, InitRecord
  <1>3. at \in {"checkpoint", "upsert"} /\ (at = "checkpoint" => taken = {})
    OBVIOUS
  <1> HIDE DEF at, taken, tried
  <1> QED
    BY <1>2, <1>3

\* An alignment starts, ends or goes on.
LEMMA Moves ==
    ASSUME Basics, InitSeed \/ InitEmbed \/ InitCheckpoint \/ AlignmentStep
    PROVE  /\ UNCHANGED <<graph, edit>>
           /\ \/ /\ InitStart
                 /\ init'.pc = "invalidate" /\ init'.version = Version(graph) /\ init'.believed = {}
                 /\ IF Running THEN ~init'.alone /\ caveat' = "mixed" ELSE init'.alone
              \/ init'.pc = "idle"
              \/ /\ Aligning
                 /\ init'.version = init.version /\ init'.alone = init.alone
                 /\ \/ init'.believed = init.believed /\ caveat' = caveat
                    \/ init'.believed # {} /\ caveat' = "mixed"
                 /\ \/ Past /\ Past' /\ init'.snapshot = init.snapshot
                    \/ InitSnapshot /\ Past' /\ init'.snapshot = graph
                    \/ ~Past'
  <1>0. TypeInv /\ init \in InitRecord
    BY DEF Basics, TypeInv
  <1>1. UNCHANGED <<graph, edit>>
    BY DEF AlignmentStep, InitOnly, InitSeed, InitEmbed, InitCheckpoint, InitStart, InitDisabled,
           InitInvalidate, InitSnapshot, InitUpsert, InitSweep, InitDelete, InitAlign, InitFail, InitCrash
  <1>2. CASE InitStart
    <2> DEFINE v == Version(graph)
               a == ~Running
    <2>1. init' = [NoInit EXCEPT !.pc = "invalidate", !.version = v, !.alone = a]
      BY <1>2 DEF InitStart
    <2>2. NoInit.believed = {}
      BY DEF NoInit
    <2>3. /\ init'.pc = "invalidate" /\ init'.version = v /\ init'.believed = {}
          /\ init'.alone = a
      <3> HIDE DEF v, a
      <3> QED
        BY <2>1, <2>2, NoInitType DEF InitRecord
    <2>4. IF Running THEN ~init'.alone /\ caveat' = "mixed" ELSE init'.alone
      BY <1>2, <2>3 DEF InitStart
    <2> QED
      BY <1>1, <1>2, <2>3, <2>4
  <1>3. CASE InitDisabled \/ InitAlign \/ InitFail \/ InitCrash \/ (InitDelete /\ ~init.complete)
    <2>1. init' = NoInit
      BY <1>3 DEF InitDisabled, InitAlign, InitFail, InitCrash, InitDelete
    <2> QED
      BY <1>1, <2>1 DEF NoInit
  <1>4. CASE InitSeed
    <2> DEFINE c == Channels[init.channel]
               same == checkpoint[c] # NoCheckpoint /\ checkpoint[c].version = Version(init.snapshot)
               believed == [init EXCEPT !.done = checkpoint[c].done, !.believed = @ \union ({c} \ trusted)]
               matched == [init EXCEPT !.done = {id \in InChannel : Matches(id)}]
               unread == [init EXCEPT !.done = {}]
    <2>1. Past
      BY <1>4 DEF InitSeed, Past
    <2>2. Aligning
      BY <1>4 DEF InitSeed, Aligning
    <2>3. ASSUME NEW s \in InitRecord, init' = AfterBatch(s), s.version = init.version,
                 s.alone = init.alone, s.snapshot = init.snapshot
          PROVE  /\ Past' /\ init'.version = init.version /\ init'.alone = init.alone
                 /\ init'.snapshot = init.snapshot /\ init'.believed = s.believed
      BY <2>3, AfterBatchEffect DEF Past
    <2>4. CASE same /\ init' = AfterBatch(believed) /\ caveat' = IF c \in trusted THEN caveat ELSE "mixed"
      <3>1. checkpoint[c].done \in SUBSET Ids /\ c \in Range(Channels)
        BY <1>0, <2>4, InChannelType DEF TypeInv, Checkpoints
      <3>2. believed \in InitRecord /\ believed.version = init.version
            /\ believed.alone = init.alone /\ believed.snapshot = init.snapshot
            /\ believed.believed = init.believed \union ({c} \ trusted)
        BY <1>0, <3>1 DEF InitRecord
      <3>3. IF c \in trusted THEN init'.believed = init.believed ELSE init'.believed # {}
        BY <2>3, <2>4, <3>2
      <3> QED
        BY <1>1, <2>1, <2>2, <2>3, <2>4, <3>2, <3>3
    <2>5. CASE init' = AfterBatch(matched) /\ caveat' = caveat
      <3>1. matched \in InitRecord /\ matched.version = init.version
            /\ matched.alone = init.alone /\ matched.snapshot = init.snapshot
            /\ matched.believed = init.believed
        BY <1>0, InChannelType DEF InitRecord
      <3> QED
        BY <1>1, <2>1, <2>2, <2>3, <2>5, <3>1
    <2>6. CASE init' = AfterBatch(unread) /\ caveat' = caveat
      <3>1. unread \in InitRecord /\ unread.version = init.version
            /\ unread.alone = init.alone /\ unread.snapshot = init.snapshot
            /\ unread.believed = init.believed
        BY <1>0 DEF InitRecord
      <3> QED
        BY <1>1, <2>1, <2>2, <2>3, <2>6, <3>1
    <2> QED
      BY <1>4, <2>4, <2>5, <2>6 DEF InitSeed
  <1>5. CASE InitCheckpoint
    <2> DEFINE done == init.done \union init.batch
    <2>1. done \in SUBSET Ids
      BY <1>0 DEF InitRecord
    <2>2. init' = AfterBatch([init EXCEPT !.done = done]) /\ caveat' = caveat
      BY <1>5 DEF InitCheckpoint
    <2> HIDE DEF done
    <2> DEFINE s == [init EXCEPT !.done = done]
    <2>3. s \in InitRecord /\ s.version = init.version /\ s.alone = init.alone
          /\ s.snapshot = init.snapshot /\ s.believed = init.believed
      BY <1>0, <2>1 DEF InitRecord
    <2>4. /\ Past' /\ init'.version = init.version /\ init'.alone = init.alone
          /\ init'.snapshot = init.snapshot /\ init'.believed = init.believed
      BY <2>2, <2>3, AfterBatchEffect DEF Past
    <2>5. Past /\ Aligning
      BY <1>5 DEF InitCheckpoint, Past, Aligning
    <2> QED
      BY <1>1, <2>2, <2>4, <2>5
  <1>6. CASE InitEmbed
    <2>1. PICK at, taken, tried :
             /\ init' = [init EXCEPT !.pc = at, !.batch = taken, !.attempts = tried]
             /\ at \in {"checkpoint", "upsert"}
      BY <1>0, <1>6, EmbedEffect
    <2>2. init'.pc = at /\ init'.version = init.version /\ init'.alone = init.alone
          /\ init'.snapshot = init.snapshot /\ init'.believed = init.believed
      BY <1>0, <2>1 DEF InitRecord
    <2>3. Past /\ Past' /\ Aligning /\ caveat' = caveat
      BY <1>6, <2>1, <2>2 DEF InitEmbed, Past, Aligning
    <2> QED
      BY <1>1, <2>2, <2>3
  <1>7. CASE InitSweep
    <2>1. PICK batch : init' = [init EXCEPT !.pc = "delete", !.batch = batch]
      BY <1>7 DEF InitSweep
    <2>2. init'.pc = "delete" /\ init'.version = init.version /\ init'.alone = init.alone
          /\ init'.snapshot = init.snapshot /\ init'.believed = init.believed
      BY <1>0, <2>1 DEF InitRecord
    <2>3. Past /\ Past' /\ Aligning /\ caveat' = caveat
      BY <1>7, <2>2 DEF InitSweep, Past, Aligning
    <2> QED
      BY <1>1, <2>2, <2>3
  <1>8. CASE InitInvalidate \/ InitSnapshot \/ InitUpsert \/ (InitDelete /\ init.complete)
    <2>1. Aligning /\ caveat' = caveat
      BY <1>8 DEF InitInvalidate, InitSnapshot, InitUpsert, InitDelete, Aligning
    <2>2. init'.version = init.version /\ init'.alone = init.alone /\ init'.believed = init.believed
      BY <1>0, <1>8 DEF InitRecord, InitInvalidate, InitSnapshot, InitUpsert, InitDelete
    <2>3. \/ Past /\ Past' /\ init'.snapshot = init.snapshot
          \/ InitSnapshot /\ Past' /\ init'.snapshot = graph
          \/ ~Past'
      BY <1>0, <1>8 DEF InitRecord, InitInvalidate, InitSnapshot, InitUpsert, InitDelete, Past
    <2> QED
      BY <1>1, <2>1, <2>2, <2>3
  <1> QED
    BY <1>2, <1>3, <1>4, <1>5, <1>6, <1>7, <1>8 DEF AlignmentStep

LEMMA OverlapsStep == Basics /\ Overlaps /\ [Next]_vars => Overlaps'
  <1> SUFFICES ASSUME Basics, Overlaps, [Next]_vars PROVE Overlaps'
    OBVIOUS
  <1>0. init \in InitRecord
    BY DEF Basics, TypeInv
  <1>1. CASE InitSeed \/ InitEmbed \/ InitCheckpoint \/ AlignmentStep
    <2>1. Alone'
      BY <1>1, Moves DEF Overlaps, Alone, Aligning, Running, Past
    <2>2. Caveats'
      BY <1>1, Moves DEF Overlaps, Caveats, Aligning, Sound
    <2> QED
      BY <2>1, <2>2 DEF Overlaps
  <1>2. CASE EditWrite \/ OutsideWrite
    <2>1. init'.pc = init.pc /\ (Aligning => ~init'.alone)
      BY <1>0, <1>2, GraphWritten DEF InitRecord
    <2>2. Aligning => caveat' = "mixed"
      BY <1>2 DEF EditWrite, OutsideWrite
    <2> QED
      BY <2>1, <2>2 DEF Overlaps, Alone, Caveats, Aligning
  <1>3. CASE LifecycleStep
    BY <1>3, Lifecycle DEF Overlaps, Alone, Caveats, Aligning, Sound, Behind
  <1>4. CASE UNCHANGED vars
    BY <1>4 DEF vars, Overlaps, Alone, Caveats, Aligning, Running, Sound, Past
  <1> QED
    BY <1>1, <1>2, <1>3, <1>4, Steps

-----------------------------------------------------------------------------
(* What a checkpoint and the channels done say                             *)

\* The object has a vector of its present text.
Good(id) == Stored(id) /\ records[id].text = graph[id]

\* No edit has touched a trusted channel: not the objects of a snapshot taken
\* before, and not what a running call is at.
Untouched ==
    /\ Aligning /\ Past => \A id \in Ids : ChannelOf[id] \in trusted => init.snapshot[id] = graph[id]
    /\ Running => \A id \in Touched : ChannelOf[id] \notin trusted
    /\ \A c \in trusted : checkpoint[c] # NoCheckpoint

\* How far an alignment has come that nothing spoiled.
Progress ==
    Aligning /\ Sound =>
       /\ init.pc \in {"embed", "upsert", "checkpoint"} => \A id \in init.done : Good(id)
       /\ init.pc = "checkpoint" => \A id \in init.batch : Good(id)
       /\ Past /\ init.complete =>
             \A n \in 1..Len(Channels) : n < init.channel \/ Swept =>
                \A id \in Objects(init.snapshot, Channels[n]) : Good(id)
       /\ init.pc = "delete" =>
             \A id \in Ids : Stored(id) => id \in Version(init.snapshot) \union init.batch
       /\ init.pc = "align" => \A id \in Ids : Stored(id) => id \in Version(init.snapshot)

Backing == Basics /\ Overlaps /\ Untouched /\ CheckpointIsBacked /\ Progress

LEMMA BackingInit == Init => Backing
  <1> SUFFICES ASSUME Init PROVE Backing
    OBVIOUS
  <1>1. ~Aligning /\ ~Running /\ trusted = {}
    BY DEF Init, NoInit, NoEdit, Aligning, Running
  <1> QED
    BY <1>1, BasicsInit DEF Backing, Overlaps, Alone, Caveats, Untouched, CheckpointIsBacked, Progress

\* A sound alignment looks at the graph as it is.
LEMMA SoundSnapshot ==
    ASSUME Backing, Aligning, init.alone
    PROVE  ~Running /\ (Past => init.snapshot = graph)
  BY DEF Backing, Overlaps, Alone

\* Naming the identities done in a channel.
LEMMA Naming ==
    ASSUME Backing, InitCheckpoint
    PROVE  LET c == Channels[init.channel]
               done == init.done \union init.batch
           IN /\ c \in Range(Channels) /\ done \subseteq InChannel /\ InChannel \subseteq Ids
              /\ checkpoint'[c] # NoCheckpoint /\ checkpoint'[c].done = done
              /\ \A d \in Range(Channels) : d # c => checkpoint'[d] = checkpoint[d]
              /\ UNCHANGED <<graph, records, edit>>
              /\ Past /\ Aligning
              /\ Sound => init.snapshot = graph /\ \A id \in done : Good(id)
  <1> DEFINE c == Channels[init.channel]
             done == init.done \union init.batch
             new == [version |-> Version(init.snapshot), done |-> done]
  <1>1. TypeInv /\ Work
    BY DEF Backing, Basics
  <1>2. c \in Range(Channels) /\ done \subseteq InChannel /\ InChannel \subseteq Ids
    BY <1>1, InChannelType DEF Work, InitCheckpoint
  <1>3. Version(init.snapshot) \in SUBSET Ids
    BY <1>1, InChannelType, VersionType
  <1>4. new \in Checkpoints /\ new.done = done
    BY <1>2, <1>3 DEF Checkpoints
  <1>5. checkpoint' = [checkpoint EXCEPT ![c] = new]
    BY DEF InitCheckpoint
  <1> HIDE DEF new, done
  <1>6. /\ checkpoint'[c] # NoCheckpoint /\ checkpoint'[c].done = done
        /\ \A d \in Range(Channels) : d # c => checkpoint'[d] = checkpoint[d]
    BY <1>1, <1>2, <1>4, <1>5, IndexConstants DEF TypeInv
  <1>7. Past /\ Aligning /\ UNCHANGED <<graph, records, edit>>
    BY DEF InitCheckpoint, InitOnly, Past, Aligning
  <1>8. Sound => init.snapshot = graph /\ \A id \in done : Good(id)
    BY <1>7, SoundSnapshot DEF Backing, Progress, InitCheckpoint, Sound, done
  <1> QED
    BY <1>2, <1>6, <1>7, <1>8 DEF done

LEMMA UntouchedStep == Backing /\ [Next]_vars => Untouched'
  <1> SUFFICES ASSUME Backing, [Next]_vars PROVE Untouched'
    OBVIOUS
  <1>0. Basics /\ TypeInv /\ init \in InitRecord /\ trusted \subseteq Range(Channels)
    BY DEF Backing, Basics, TypeInv
  <1>1. CASE InitSeed \/ InitEmbed \/ AlignmentStep
    <2>1. UNCHANGED <<trusted, checkpoint>>
      BY <1>1 DEF InitSeed, InitEmbed, AlignmentStep, InitStart, InitDisabled, InitInvalidate,
             InitSnapshot, InitUpsert, InitSweep, InitDelete, InitAlign, InitFail, InitCrash
    <2>2. UNCHANGED <<graph, edit>> /\ (Aligning' /\ Past' => (init'.snapshot = graph \/ (Aligning /\ Past /\ init'.snapshot = init.snapshot)))
      BY <1>0, <1>1, Moves DEF Aligning, Past
    <2> QED
      BY <2>1, <2>2 DEF Backing, Untouched, Running, Touched
  <1>2. CASE InitCheckpoint
    <2> DEFINE c == Channels[init.channel]
    <2>1. /\ c \in Range(Channels) /\ checkpoint'[c] # NoCheckpoint
          /\ \A d \in Range(Channels) : d # c => checkpoint'[d] = checkpoint[d]
          /\ UNCHANGED <<graph, records, edit>>
          /\ Past /\ Aligning
      BY <1>2, Naming
    <2>2. Aligning' /\ Past' => init'.snapshot = init.snapshot
      BY <1>0, <1>2, <2>1, Moves DEF Aligning, Past, InitStart, InitSnapshot, InitCheckpoint
    <2>3. CASE Sound
      <3>1. init.snapshot = graph /\ ~Running
        BY <2>1, <2>3, SoundSnapshot DEF Sound
      <3>2. trusted' = trusted \union {c}
        BY <1>2, <2>3 DEF InitCheckpoint
      <3> QED
        BY <1>0, <2>1, <2>2, <3>1, <3>2 DEF Backing, Untouched, Running
    <2>4. CASE ~Sound
      <3>1. trusted' = trusted \ {c}
        BY <1>2, <2>4 DEF InitCheckpoint
      <3> QED
        BY <1>0, <2>1, <2>2, <3>1 DEF Backing, Untouched, Running, Touched
    <2> QED
      BY <2>3, <2>4
  <1>3. CASE EditWrite \/ OutsideWrite
    <2>1. PICK id \in Ids :
             /\ \A other \in Ids : other # id => graph'[other] = graph[other]
             /\ ChannelOf[id] \notin trusted'
             /\ (Touched)' = {id} \/ edit' = edit
      BY <1>0, <1>3, GraphWritten DEF Touched
    <2>2. init'.pc = init.pc /\ init'.snapshot = init.snapshot
      BY <1>0, <1>3, GraphWritten DEF InitRecord
    <2>3. ~Running /\ trusted' \subseteq trusted /\ checkpoint' = checkpoint
      BY <1>0, <1>3, GraphWritten DEF Running
    <2>4. Aligning' /\ Past' => \A other \in Ids : ChannelOf[other] \in trusted' => init'.snapshot[other] = graph'[other]
      BY <2>1, <2>2, <2>3 DEF Backing, Untouched, Aligning, Past
    <2>5. Running' => \A other \in (Touched)' : ChannelOf[other] \notin trusted'
      BY <2>1, <2>3 DEF Running
    <2> QED
      BY <2>3, <2>4, <2>5 DEF Backing, Untouched
  <1>4. CASE LifecycleStep
    <2>1. Running' => (Touched)' = Touched
      BY <1>0, <1>4, Lifecycle DEF Running, Touched, NoEdit
    <2> QED
      BY <1>0, <1>4, <2>1, Lifecycle DEF Backing, Untouched, Aligning, Past
  <1>5. CASE UNCHANGED vars
    BY <1>5 DEF vars, Backing, Untouched, Aligning, Past, Running, Touched
  <1> QED
    BY <1>1, <1>2, <1>3, <1>4, <1>5, Steps

LEMMA BackedStep == Backing /\ [Next]_vars => CheckpointIsBacked'
  <1> SUFFICES ASSUME Backing, [Next]_vars PROVE CheckpointIsBacked'
    OBVIOUS
  <1>0. Basics /\ TypeInv /\ Work /\ Own /\ trusted \subseteq Range(Channels)
    BY DEF Backing, Basics, TypeInv
  <1>a. ASSUME NEW c \in trusted, NEW id \in checkpoint[c].done
        PROVE  /\ id \in Ids /\ ChannelOf[id] = c /\ Good(id)
               /\ records[id].text \in Texts /\ id \in Version(graph)
    <2>1. checkpoint[c] # NoCheckpoint /\ c \in Range(Channels)
      BY <1>0 DEF Backing, Untouched
    <2>2. id \in Ids /\ ChannelOf[id] = c
      BY <1>0, <2>1 DEF TypeInv, Checkpoints, Own
    <2>3. Good(id)
      BY DEF Backing, CheckpointIsBacked, Good
    <2>4. records[id].text \in Texts
      BY <1>0, <2>2, <2>3 DEF TypeInv, RecordsType, Records, Good, Stored
    <2> QED
      BY <1>0, <2>2, <2>3, <2>4, Present DEF Good, TypeInv
  <1>b. ASSUME trusted' \subseteq trusted, checkpoint' = checkpoint,
               \A c \in trusted' : \A id \in checkpoint[c].done : Good(id)'
        PROVE  CheckpointIsBacked'
    BY <1>b DEF CheckpointIsBacked, Good, Stored
  <1>1. CASE InitUpsert
    <2>1. init.batch \subseteq Version(init.snapshot) /\ init.snapshot \in Graphs
      BY <1>0, <1>1, InChannelType DEF Work, InitUpsert
    <2>2. /\ \A id \in Ids \ init.batch : records'[id] = records[id]
          /\ \A id \in Ids : id \in init.batch => records'[id] # NoRecord /\ records'[id].text = init.snapshot[id]
      BY <1>0, <1>1, <2>1, Storing DEF InitUpsert
    <2>3. UNCHANGED <<graph, trusted, checkpoint>> /\ Aligning /\ Past
      BY <1>1 DEF InitUpsert, InitOnly, Aligning, Past
    <2>4. ASSUME NEW c \in trusted, NEW id \in checkpoint[c].done PROVE Good(id)'
      <3>1. init.snapshot[id] = graph[id]
        BY <1>a, <2>3, <2>4 DEF Backing, Untouched
      <3> QED
        BY <1>a, <2>2, <2>3, <2>4, <3>1 DEF Good, Stored
    <2> QED
      BY <1>b, <2>3, <2>4
  <1>2. CASE InitDelete
    <2>1. UNCHANGED <<graph, trusted, checkpoint>> /\ Aligning /\ Past
      BY <1>2 DEF InitDelete, InitOnly, Aligning, Past
    <2>2. \A id \in Ids \ init.batch : records'[id] = records[id]
      BY <1>0, <1>2, Removing DEF InitDelete
    <2>3. init.batch \intersect Version(init.snapshot) = {}
      BY <1>0, <1>2 DEF Work, InitDelete
    <2>4. ASSUME NEW c \in trusted, NEW id \in checkpoint[c].done PROVE Good(id)'
      <3>1. init.snapshot[id] = graph[id]
        BY <1>a, <2>1, <2>4 DEF Backing, Untouched
      <3>2. id \in Version(init.snapshot)
        BY <1>a, <2>4, <3>1 DEF Version
      <3> QED
        BY <1>a, <2>1, <2>2, <2>3, <2>4, <3>2 DEF Good, Stored
    <2> QED
      BY <1>b, <2>1, <2>4
  <1>3. CASE InitCheckpoint
    <2> DEFINE c == Channels[init.channel]
               done == init.done \union init.batch
    <2>1. /\ c \in Range(Channels) /\ checkpoint'[c].done = done
          /\ \A d \in Range(Channels) : d # c => checkpoint'[d] = checkpoint[d]
          /\ UNCHANGED <<graph, records>>
          /\ Sound => \A id \in done : Good(id)
      BY <1>3, Naming
    <2>2. trusted' = IF Sound THEN trusted \union {c} ELSE trusted \ {c}
      BY <1>3 DEF InitCheckpoint
    <2> HIDE DEF done
    <2>3. ASSUME NEW d \in trusted', NEW id \in checkpoint'[d].done PROVE Good(id)
      <3>1. CASE d = c
        BY <2>1, <2>2, <2>3, <3>1
      <3>2. CASE d # c
        BY <1>0, <1>a, <2>1, <2>2, <2>3, <3>2
      <3> QED
        BY <3>1, <3>2
    <2> QED
      BY <2>1, <2>3 DEF CheckpointIsBacked, Good, Stored
  <1>4. CASE EditWrite \/ OutsideWrite
    <2>1. PICK id \in Ids :
             /\ \A other \in Ids : other # id => graph'[other] = graph[other]
             /\ ChannelOf[id] \notin trusted'
      BY <1>0, <1>4, GraphWritten
    <2>2. trusted' \subseteq trusted /\ UNCHANGED <<records, checkpoint>>
      BY <1>0, <1>4, GraphWritten
    <2>3. ASSUME NEW c \in trusted', NEW other \in checkpoint[c].done PROVE Good(other)'
      BY <1>a, <2>1, <2>2, <2>3 DEF Good, Stored
    <2> QED
      BY <1>b, <2>2, <2>3
  <1>5. CASE LifecycleStep
    <2>1. Running /\ UNCHANGED <<graph, checkpoint, trusted>>
      BY <1>0, <1>5, Lifecycle
    <2>2. \A id \in Ids : id \notin Touched => records'[id] = records[id]
      <3>1. CASE EditUpsert
        <4>1. PICK mine \in SUBSET edit.left :
                 records' = [id \in Ids |-> IF id \in mine
                                            THEN Record(graph[id], Version(graph), "edit")
                                            ELSE records[id]]
          BY <3>1 DEF EditUpsert
        <4>2. edit.left \subseteq Touched
          BY <1>0 DEF Basics, EditWork, Touched
        <4> QED
          BY <4>1, <4>2
      <3>2. CASE EditTombstone
        BY <1>0, <3>2, Removing DEF EditTombstone, Touched
      <3>3. CASE ~EditUpsert /\ ~EditTombstone
        BY <1>5, <3>3 DEF LifecycleStep, EditInvalidate, EditPending, EditVerify, EditCohere,
                    EditCheck, EditAlign, EditFail, EditCrash
      <3> QED
        BY <3>1, <3>2, <3>3
    <2>3. ASSUME NEW c \in trusted, NEW id \in checkpoint[c].done PROVE Good(id)'
      <3>1. id \notin Touched
        BY <1>a, <2>1, <2>3 DEF Backing, Untouched
      <3> QED
        BY <1>a, <2>1, <2>2, <2>3, <3>1 DEF Good, Stored
    <2> QED
      BY <1>b, <2>1, <2>3
  <1>6. CASE InitSeed \/ InitEmbed \/ (AlignmentStep /\ ~InitUpsert /\ ~InitDelete) \/ UNCHANGED vars
    <2>1. UNCHANGED <<graph, records, checkpoint, trusted>>
      BY <1>6 DEF vars, InitOnly, InitSeed, InitEmbed, AlignmentStep, InitStart, InitDisabled,
             InitInvalidate, InitSnapshot, InitSweep, InitAlign, InitFail, InitCrash
    <2> QED
      BY <2>1 DEF Backing, CheckpointIsBacked, Stored
  <1> QED
    BY <1>1, <1>2, <1>3, <1>4, <1>5, <1>6, Steps

\* The loop goes on after the identities done were named or taken over.
LEMMA ProgressAfterBatch ==
    ASSUME Backing, Aligning, Sound, init.pc \in {"seed", "checkpoint"},
           NEW s \in InitRecord, init' = AfterBatch(s),
           s.snapshot = init.snapshot, s.channel = init.channel, s.complete = init.complete,
           \A id \in s.done : Good(id),
           UNCHANGED <<graph, records>>
    PROVE  Progress'
  <1>0. init.channel \in 1..Len(Channels) /\ Len(Channels) \in Nat
    BY ChannelFacts DEF Backing, Basics, TypeInv, InitRecord
  <1>1. \A id : Good(id)' <=> Good(id)
    BY DEF Good, Stored
  <1>2. Past /\ ~Swept
    BY DEF Past, Swept
  <1>3. init.complete => \A n \in 1..Len(Channels) : n < init.channel =>
           \A id \in Objects(init.snapshot, Channels[n]) : Good(id)
    BY <1>2 DEF Backing, Progress
  <1>4. /\ init'.snapshot = init.snapshot /\ init'.batch = {}
        /\ \/ /\ init'.pc = "embed"
              /\ init'.done = s.done /\ init'.channel = init.channel
              /\ init'.complete = init.complete
           \/ /\ init'.done = {}
              /\ init'.complete =>
                    init.complete /\ s.done = Objects(init.snapshot, Channels[init.channel])
              /\ \/ init'.pc = "seed" /\ init'.channel = init.channel + 1
                 \/ init'.pc = "sweep" /\ init.channel = Len(Channels)
    BY AfterBatchEffect
  <1>5. ASSUME init'.complete, NEW n \in 1..Len(Channels), n < init'.channel \/ Swept',
               NEW id \in Objects(init.snapshot, Channels[n])
        PROVE  Good(id)
    <2>1. CASE init'.pc = "embed"
      <3>1. n < init.channel /\ init.complete
        BY <1>4, <1>5, <2>1 DEF Swept
      <3> QED
        BY <1>3, <1>5, <3>1
    <2>2. CASE init'.pc # "embed"
      <3>1. init.complete /\ s.done = Objects(init.snapshot, Channels[init.channel])
        BY <1>4, <1>5, <2>2
      <3>2. n < init.channel \/ n = init.channel
        <4>1. CASE init'.pc = "seed" /\ init'.channel = init.channel + 1
          <5>1. n < init.channel + 1
            BY <1>5, <4>1 DEF Swept
          <5> QED
            BY <1>0, <5>1
        <4>2. CASE init'.pc = "sweep" /\ init.channel = Len(Channels)
          BY <1>0, <4>2
        <4> QED
          BY <1>4, <2>2, <4>1, <4>2
      <3> QED
        BY <1>3, <1>5, <3>1, <3>2
    <2> QED
      BY <2>1, <2>2
  <1>6. init'.pc \in {"embed", "seed", "sweep"} /\ (init'.pc = "embed" => init'.done = s.done)
    BY <1>4
  <1> QED
    BY <1>1, <1>4, <1>5, <1>6 DEF Progress

LEMMA ProgressStep == Backing /\ [Next]_vars => Progress'
  <1> SUFFICES ASSUME Backing, [Next]_vars, Aligning', Sound' PROVE Progress'
    BY DEF Progress
  <1>0. Basics /\ TypeInv /\ Work /\ init \in InitRecord
    BY DEF Backing, Basics, TypeInv
  <1>a. ASSUME ~Past' PROVE Progress'
    BY <1>a DEF Progress, Past
  <1>1. CASE InitStart \/ InitInvalidate
    <2>1. init'.pc \in {"invalidate", "snapshot"}
      BY <1>0, <1>1, NoInitType DEF InitStart, InitInvalidate, InitRecord
    <2> QED
      BY <1>a, <2>1 DEF Past
  <1>2. CASE InitDisabled \/ InitAlign \/ InitFail \/ InitCrash \/ (InitDelete /\ ~init.complete)
    <2>1. init' = NoInit
      BY <1>2 DEF InitDisabled, InitAlign, InitFail, InitCrash, InitDelete
    <2> QED
      BY <2>1 DEF NoInit, Aligning
  <1>3. CASE InitSnapshot
    <2>1. init'.pc = "seed" /\ init'.channel = init.channel /\ init.channel = 1
      BY <1>0, <1>3 DEF InitSnapshot, InitRecord, Work
    <2> QED
      BY <2>1, ChannelFacts DEF Progress, Swept
  <1>b. ASSUME InitSeed \/ InitEmbed \/ InitCheckpoint \/ InitUpsert \/ InitSweep \/ InitDelete
        PROVE  Aligning /\ Sound /\ Past /\ init.snapshot = graph /\ graph' = graph
    <2>1. Past /\ Aligning /\ ~InitStart
      BY <1>b DEF Past, Aligning, InitStart, InitSeed, InitEmbed, InitCheckpoint, InitUpsert, InitSweep, InitDelete
    <2>2. Sound /\ graph' = graph
      BY <1>0, <1>b, <2>1, Moves DEF AlignmentStep, Aligning, Sound
    <2> QED
      BY <2>1, <2>2, SoundSnapshot DEF Sound
  <1>4. CASE InitSeed
    <2> DEFINE c == Channels[init.channel]
               same == checkpoint[c] # NoCheckpoint /\ checkpoint[c].version = Version(init.snapshot)
               believed == [init EXCEPT !.done = checkpoint[c].done, !.believed = @ \union ({c} \ trusted)]
               matched == [init EXCEPT !.done = {id \in InChannel : Matches(id)}]
               unread == [init EXCEPT !.done = {}]
    <2>1. UNCHANGED <<graph, records>> /\ init.pc = "seed"
      BY <1>4 DEF InitSeed, InitOnly
    <2>2. CASE same /\ init' = AfterBatch(believed)
      <3>1. checkpoint[c].done \in SUBSET Ids /\ c \in Range(Channels)
        BY <1>0, <2>2, InChannelType DEF TypeInv, Checkpoints
      <3>2. believed \in InitRecord /\ believed.done = checkpoint[c].done
            /\ believed.snapshot = init.snapshot /\ believed.channel = init.channel
            /\ believed.complete = init.complete
            /\ believed.believed = init.believed \union ({c} \ trusted)
        BY <1>0, <3>1 DEF InitRecord
      <3> HIDE DEF c, believed
      <3>3. init'.believed = believed.believed
        BY <2>2, <3>2, AfterBatchEffect
      <3>4. c \in trusted
        BY <3>2, <3>3 DEF Sound
      <3>5. \A id \in checkpoint[c].done : Good(id)
        BY <3>4 DEF Backing, CheckpointIsBacked, Good
      <3> QED
        BY <1>4, <1>b, <2>1, <2>2, <3>2, <3>5, ProgressAfterBatch
    <2>3. CASE init' = AfterBatch(matched)
      <3>1. matched \in InitRecord /\ matched.done = {id \in InChannel : Matches(id)}
            /\ matched.snapshot = init.snapshot /\ matched.channel = init.channel
            /\ matched.complete = init.complete
        BY <1>0, InChannelType DEF InitRecord
      <3>2. \A id \in matched.done : Good(id)
        BY <1>4, <1>b, <3>1 DEF Matches, Good
      <3> HIDE DEF matched
      <3> QED
        BY <1>4, <1>b, <2>1, <2>3, <3>1, <3>2, ProgressAfterBatch
    <2>4. CASE init' = AfterBatch(unread)
      <3>1. unread \in InitRecord /\ unread.done = {}
            /\ unread.snapshot = init.snapshot /\ unread.channel = init.channel
            /\ unread.complete = init.complete
        BY <1>0 DEF InitRecord
      <3>2. \A id \in unread.done : Good(id)
        BY <3>1
      <3> HIDE DEF unread
      <3> QED
        BY <1>4, <1>b, <2>1, <2>4, <3>1, <3>2, ProgressAfterBatch
    <2> QED
      BY <1>4, <2>2, <2>3, <2>4 DEF InitSeed
  <1>5. CASE InitEmbed
    <2>1. PICK at, taken, tried :
             /\ init' = [init EXCEPT !.pc = at, !.batch = taken, !.attempts = tried]
             /\ at \in {"checkpoint", "upsert"} /\ (at = "checkpoint" => taken = {})
      BY <1>0, <1>5, EmbedEffect
    <2>2. /\ init'.pc = at /\ init'.batch = taken /\ init'.done = init.done
          /\ init'.snapshot = init.snapshot /\ init'.channel = init.channel
          /\ init'.complete = init.complete
      BY <1>0, <2>1 DEF InitRecord
    <2>3. \A id : Good(id)' <=> Good(id)
      BY <1>5 DEF InitEmbed, InitOnly, Good, Stored
    <2>4. ~Swept /\ ~Swept' /\ init.pc = "embed" /\ init'.pc \in {"checkpoint", "upsert"}
      BY <1>5, <2>1, <2>2 DEF InitEmbed, Swept
    <2> QED
      BY <1>5, <1>b, <2>1, <2>2, <2>3, <2>4 DEF Backing, Progress
  <1>6. CASE InitCheckpoint
    <2> DEFINE done == init.done \union init.batch
    <2>1. done \in SUBSET Ids
      BY <1>0 DEF InitRecord
    <2>2. init' = AfterBatch([init EXCEPT !.done = done]) /\ init.pc = "checkpoint"
      BY <1>6 DEF InitCheckpoint
    <2>3. UNCHANGED <<graph, records>> /\ \A id \in done : Good(id)
      BY <1>6, <1>b, Naming
    <2> HIDE DEF done
    <2> DEFINE s == [init EXCEPT !.done = done]
    <2>4. s \in InitRecord /\ s.done = done /\ s.snapshot = init.snapshot
          /\ s.channel = init.channel /\ s.complete = init.complete
      BY <1>0, <2>1 DEF InitRecord
    <2> HIDE DEF s
    <2>5. init' = AfterBatch(s)
      BY <2>2 DEF s
    <2> QED
      BY <1>6, <1>b, <2>2, <2>3, <2>4, <2>5, ProgressAfterBatch
  <1>7. CASE InitUpsert
    <2>1. init.batch \subseteq Version(init.snapshot) /\ init.snapshot \in Graphs /\ init.batch \subseteq Ids
      BY <1>0, <1>7, InChannelType DEF Work, InitUpsert
    <2>2. /\ \A id \in Ids \ init.batch : records'[id] = records[id]
          /\ \A id \in Ids : id \in init.batch => records'[id] # NoRecord /\ records'[id].text = init.snapshot[id]
      BY <1>0, <1>7, <2>1, Storing DEF InitUpsert
    <2>3. /\ init'.pc = "checkpoint" /\ init'.batch = init.batch /\ init'.done = init.done
          /\ init'.snapshot = init.snapshot /\ init'.channel = init.channel
          /\ init'.complete = init.complete /\ init.pc = "upsert"
      BY <1>0, <1>7 DEF InitUpsert, InitRecord
    <2>4. \A id \in Ids : Good(id) \/ id \in init.batch => Good(id)'
      BY <1>7, <1>b, <2>2 DEF Good, Stored
    <2>5. init.done \subseteq Ids
      BY <1>0 DEF InitRecord
    <2>6. ~Swept /\ ~Swept'
      BY <2>3 DEF Swept
    <2> QED
      BY <1>7, <1>b, <2>1, <2>3, <2>4, <2>5, <2>6, ObjectsType DEF Backing, Progress
  <1>8. CASE InitSweep
    <2> DEFINE batch == {id \in Ids : Stored(id)} \ Version(init.snapshot)
    <2>1. init' = [init EXCEPT !.pc = "delete", !.batch = batch]
      BY <1>8 DEF InitSweep
    <2>2. UNCHANGED <<graph, records>> /\ init.pc = "sweep"
      BY <1>8 DEF InitSweep, InitOnly
    <2>3. /\ init'.pc = "delete" /\ init'.batch = batch
          /\ init'.snapshot = init.snapshot /\ init'.complete = init.complete
      BY <1>0, <2>1 DEF InitRecord
    <2>4. \A id : (Good(id)' <=> Good(id)) /\ (Stored(id)' <=> Stored(id))
      BY <2>2 DEF Good, Stored
    <2>5. Swept
      BY <2>2 DEF Swept
    <2> QED
      BY <1>8, <1>b, <2>3, <2>4, <2>5 DEF Backing, Progress
  <1>9. CASE InitDelete /\ init.complete
    <2>1. init' = [init EXCEPT !.pc = "align", !.batch = {}] /\ init.pc = "delete"
      BY <1>9 DEF InitDelete
    <2>2. /\ init'.pc = "align" /\ init'.snapshot = init.snapshot
      BY <1>0, <2>1 DEF InitRecord
    <2>3. /\ \A id \in Ids \ init.batch : records'[id] = records[id]
          /\ \A id \in Ids : id \in init.batch => records'[id] = NoRecord
      BY <1>0, <1>9, Removing DEF InitDelete
    <2>4. init.batch \intersect Version(init.snapshot) = {}
      BY <1>0, <2>1 DEF Work
    <2>5. \A id \in Ids : (Stored(id)' => Stored(id) /\ id \notin init.batch)
                       /\ (Good(id) /\ id \in Version(init.snapshot) => Good(id)')
      BY <1>9, <1>b, <2>3, <2>4 DEF Good, Stored
    <2>6. Swept
      BY <2>1 DEF Swept
    <2>7. \A n \in 1..Len(Channels) : \A id \in Objects(init.snapshot, Channels[n]) : Good(id)
      BY <1>9, <1>b, <2>6 DEF Backing, Progress
    <2>8. \A id \in Ids : Stored(id) => id \in Version(init.snapshot) \union init.batch
      BY <1>9, <1>b, <2>1 DEF Backing, Progress
    <2> QED
      BY <2>2, <2>5, <2>7, <2>8, ObjectsType DEF Progress
  <1>10. CASE EditWrite \/ OutsideWrite
    <2>1. init'.pc = init.pc /\ (Aligning => ~init'.alone)
      BY <1>0, <1>10, GraphWritten DEF InitRecord
    <2> QED
      BY <2>1 DEF Aligning, Sound
  <1>11. CASE LifecycleStep
    <2>1. Running /\ init' = init
      BY <1>0, <1>11, Lifecycle
    <2> QED
      BY <2>1, SoundSnapshot DEF Aligning, Sound
  <1>12. CASE UNCHANGED vars
    <2>1. UNCHANGED <<graph, records, init>>
      BY <1>12 DEF vars
    <2> QED
      BY <2>1 DEF Backing, Progress, Aligning, Sound, Past, Swept, Good, Stored
  <1> QED
    BY <1>1, <1>2, <1>3, <1>4, <1>5, <1>6, <1>7, <1>8, <1>9, <1>10, <1>11, <1>12, Steps DEF AlignmentStep

LEMMA BackingStep == Backing /\ [Next]_vars => Backing'
  <1> SUFFICES ASSUME Backing, [Next]_vars PROVE Backing'
    OBVIOUS
  <1>1. Basics' /\ Overlaps'
    BY BasicsStep, OverlapsStep DEF Backing
  <1> QED
    BY <1>1, UntouchedStep, BackedStep, ProgressStep DEF Backing

\* Whatever dies between the vectors of a batch and the checkpoint that names
\* them: a channel that no edit touched since its checkpoint was written has a
\* vector of the present text for every object that the checkpoint names.
THEOREM CheckpointBacked == Spec => []CheckpointIsBacked
  <1>1. Spec => []Backing
    BY BackingInit, BackingStep, PTL DEF Spec
  <1>2. Backing => CheckpointIsBacked
    BY DEF Backing
  <1> QED
    BY <1>1, <1>2, PTL

-----------------------------------------------------------------------------
(* What an accepted index promises                                         *)

\* What the running call has still to store or to remove.
Due ==
    IF Running
    THEN edit.left \union (IF edit.pc \in {"verify", "cohere", "align"} THEN {} ELSE edit.tombstones)
    ELSE {}

\* Without one of the known exceptions no other vector is old.
NothingOld ==
    caveat = "none" => \A id \in Ids \ Due : Stored(id) => records[id].text = graph[id]

\* Nobody works on an accepted index, and it has all the objects of its version.
Ready ==
    /\ readiness.state = "Aligned" /\ caveat # "mixed" =>
          /\ edit.pc \in {"idle", "invalidate"} /\ init.pc \in {"idle", "invalidate"}
          /\ \A id \in readiness.version : Stored(id)
    /\ edit.pc = "align" /\ caveat # "mixed" => \A id \in Version(graph) : Stored(id)

IInv == Backing /\ NothingOld /\ Ready

LEMMA IInvInit == Init => IInv
  <1> SUFFICES ASSUME Init PROVE IInv
    OBVIOUS
  <1>1. \A id \in Ids : ~Stored(id)
    BY DEF Init, Stored
  <1>2. NothingOld /\ Ready
    BY <1>1 DEF Init, NoEdit, NothingOld, Ready
  <1> QED
    BY <1>2, BackingInit DEF IInv

\* An alignment that nothing spoiled ends with an exact index.
LEMMA SoundEnd ==
    ASSUME Backing, InitAlign, Sound
    PROVE  /\ ~Running /\ init.version = Version(graph)
           /\ \A id \in Version(graph) : Good(id)
           /\ \A id \in Ids : Stored(id) => id \in Version(graph)
  <1>1. Aligning /\ Past /\ Swept /\ init.complete
    BY DEF InitAlign, Aligning, Past, Swept, Backing, Basics, Work
  <1>2. ~Running /\ init.snapshot = graph
    BY <1>1, SoundSnapshot DEF Sound
  <1>3. init.version = Version(graph)
    BY <1>1 DEF Backing, Overlaps, Alone, Sound
  <1>4. \A n \in 1..Len(Channels) : \A id \in Objects(graph, Channels[n]) : Good(id)
    BY <1>1, <1>2 DEF Backing, Progress
  <1>5. ASSUME NEW id \in Version(graph) PROVE Good(id)
    <2>1. id \in Ids
      BY DEF Version
    <2>2. PICK n \in 1..Len(Channels) : Channels[n] = ChannelOf[id]
      BY <2>1, ChannelFacts
    <2>3. id \in Objects(graph, Channels[n])
      BY <2>2 DEF Objects
    <2> QED
      BY <1>4, <2>3
  <1>6. \A id \in Ids : Stored(id) => id \in Version(graph)
    BY <1>1, <1>2 DEF Backing, Progress, InitAlign
  <1> QED
    BY <1>2, <1>3, <1>5, <1>6

\* Without a caveat an alignment stores what the graph says.
LEMMA CaveatOrSound ==
    ASSUME Backing, Aligning, caveat # "mixed"
    PROVE  Sound /\ ~Running /\ (Past => init.snapshot = graph)
  BY SoundSnapshot DEF Backing, Overlaps, Caveats, Sound

\* What the steps of a lifecycle do to the records.
LEMMA LifecycleRecords ==
    ASSUME Backing, LifecycleStep
    PROVE  /\ edit' # NoEdit /\ caveat' = caveat =>
                 \A id \in Ids \ (Due)' :
                    Stored(id)' => \/ records'[id].text = graph[id]
                                   \/ id \notin Due /\ records'[id] = records[id]
           /\ edit' = NoEdit => records' = records
           /\ edit' = NoEdit /\ caveat' = caveat => EditAlign \/ caveat' # "none"
  <1>0. Basics /\ TypeInv /\ EditWork /\ edit \in EditRecord /\ graph \in Graphs
    BY DEF Backing, Basics, TypeInv
  <1>1. Running
    BY <1>0, Lifecycle
  <1>2. CASE EditUpsert
    <2>1. PICK mine \in SUBSET edit.left :
             /\ records' = [id \in Ids |-> IF id \in mine
                                           THEN Record(graph[id], Version(graph), "edit")
                                           ELSE records[id]]
             /\ edit' = [edit EXCEPT !.left = @ \ mine,
                                     !.pc = IF edit.left = mine THEN "tombstone" ELSE @]
      BY <1>2 DEF EditUpsert
    <2>2. mine \subseteq Version(graph)
      BY <1>0, <1>2 DEF EditWork, EditUpsert
    <2>3. /\ \A id \in Ids \ mine : records'[id] = records[id]
          /\ \A id \in Ids : id \in mine => records'[id] # NoRecord /\ records'[id].text = graph[id]
      BY <1>0, <2>1, <2>2, Storing
    <2> DEFINE left == edit.left \ mine
               at == IF edit.left = mine THEN "tombstone" ELSE "upsert"
    <2>4. at \in {"tombstone", "upsert"} /\ edit' = [edit EXCEPT !.left = left, !.pc = at]
      BY <1>0, <1>2, <2>1 DEF EditRecord, EditUpsert
    <2>5. edit'.left = left /\ edit'.pc = at /\ edit'.tombstones = edit.tombstones
      <3> HIDE DEF left, at
      <3> QED
        BY <1>0, <2>4 DEF EditRecord
    <2>6. (Due)' = left \union edit.tombstones /\ Due = edit.left \union edit.tombstones
      BY <1>1, <1>2, <2>4, <2>5 DEF Due, Running, EditUpsert
    <2>7. edit' # NoEdit
      BY <2>4, <2>5 DEF NoEdit
    <2> QED
      BY <2>3, <2>6, <2>7
  <1>3. CASE EditTombstone
    <2>1. /\ \A id \in Ids \ edit.tombstones : records'[id] = records[id]
          /\ \A id \in Ids : id \in edit.tombstones => records'[id] = NoRecord
      BY <1>0, <1>3, Removing DEF EditTombstone
    <2>2. edit'.pc = "verify" /\ edit'.left = edit.left /\ edit.pc = "tombstone"
      BY <1>0, <1>3 DEF EditTombstone, EditRecord
    <2>3. (Due)' = edit.left /\ Due = edit.left \union edit.tombstones
      BY <2>2 DEF Due, Running
    <2>4. edit' # NoEdit
      BY <2>2 DEF NoEdit
    <2> QED
      BY <2>1, <2>3, <2>4 DEF Stored
  <1>4. CASE EditInvalidate
    <2>1. PICK at \in {"tombstone", "upsert", "pending"} : edit' = [edit EXCEPT !.pc = at]
      BY <1>4 DEF EditInvalidate
    <2>2. edit'.pc = at /\ edit'.left = edit.left /\ edit'.tombstones = edit.tombstones
      BY <1>0, <2>1 DEF EditRecord
    <2>3. (Due)' = Due /\ records' = records
      BY <1>4, <2>2 DEF Due, Running, EditInvalidate
    <2>4. edit' # NoEdit
      BY <2>2 DEF NoEdit
    <2> QED
      BY <2>3, <2>4
  <1>5. CASE EditVerify \/ EditCohere
    <2>1. records' = records
      BY <1>5 DEF EditVerify, EditCohere, EditCheck
    <2>2. CASE edit' = NoEdit
      <3>1. caveat' = Behind
        <4>1. NoEdit.pc = "idle"
          BY DEF NoEdit
        <4>2. CASE EditVerify
          <5>1. ~(edit' = [edit EXCEPT !.pc = "cohere"])
            BY <1>0, <2>2, <4>1 DEF EditRecord
          <5> QED
            BY <4>2, <5>1 DEF EditVerify, EditCheck
        <4>3. CASE EditCohere
          <5>1. ~(edit' = [edit EXCEPT !.pc = "align"])
            BY <1>0, <2>2, <4>1 DEF EditRecord
          <5> QED
            BY <4>3, <5>1 DEF EditCohere, EditCheck
        <4> QED
          BY <1>5, <4>2, <4>3
      <3> QED
        BY <2>1, <2>2, <3>1 DEF Behind
    <2>3. CASE edit' # NoEdit
      <3>1. PICK at \in {"cohere", "align"} : edit' = [edit EXCEPT !.pc = at]
        BY <1>5, <2>3 DEF EditVerify, EditCohere, EditCheck, Finish
      <3>2. edit'.pc = at /\ edit'.left = edit.left /\ edit'.tombstones = edit.tombstones
        BY <1>0, <3>1 DEF EditRecord
      <3>3. (Due)' = Due
        BY <1>5, <3>2 DEF Due, Running, EditVerify, EditCohere, EditCheck
      <3> QED
        BY <2>1, <2>3, <3>3
    <2> QED
      BY <2>2, <2>3
  <1>6. CASE EditPending \/ EditFail \/ EditCrash
    BY <1>6 DEF EditPending, EditFail, EditCrash, Finish, Behind
  <1>7. CASE EditAlign
    BY <1>7 DEF EditAlign, Finish
  <1> QED
    BY <1>2, <1>3, <1>4, <1>5, <1>6, <1>7 DEF LifecycleStep

LEMMA NothingOldStep == IInv /\ [Next]_vars => NothingOld'
  <1> SUFFICES ASSUME IInv, [Next]_vars, caveat' = "none",
                      NEW id \in Ids \ (Due)', Stored(id)'
               PROVE  records'[id].text = graph'[id]
    BY DEF NothingOld
  <1>0. Backing /\ Basics /\ TypeInv /\ Work
    BY DEF IInv, Backing, Basics
  <1>1. CASE InitSeed \/ InitEmbed \/ InitCheckpoint \/ AlignmentStep
    <2>1. UNCHANGED <<graph, edit>> /\ (Due)' = Due
      BY <1>0, <1>1, Moves DEF Due, Running
    <2>2. CASE InitAlign
      <3>1. Aligning /\ records' = records
        BY <2>2 DEF InitAlign, Aligning
      <3>2. Sound
        BY <1>0, <2>2, <3>1, CaveatOrSound DEF InitAlign
      <3>3. Good(id)
        BY <1>0, <2>2, <3>1, <3>2, SoundEnd DEF Stored
      <3> QED
        BY <2>1, <3>1, <3>3 DEF Good
    <2>3. CASE ~InitAlign
      <3>1. caveat = "none"
        BY <1>0, <1>1, <2>3, Moves DEF AlignmentStep, InitStart, InitDisabled, InitFail, InitCrash,
              InitDelete, InitSeed, InitEmbed, InitCheckpoint, InitInvalidate, InitSnapshot,
              InitUpsert, InitSweep
      <3>2. Stored(id) => records[id].text = graph[id]
        BY <2>1, <3>1 DEF IInv, NothingOld
      <3>3. CASE InitUpsert
        <4>1. init.batch \subseteq Version(init.snapshot) /\ init.snapshot \in Graphs
          BY <1>0, <3>3, InChannelType DEF Work, InitUpsert
        <4>2. /\ \A other \in Ids \ init.batch : records'[other] = records[other]
              /\ \A other \in Ids : other \in init.batch => records'[other].text = init.snapshot[other]
          BY <1>0, <3>3, <4>1, Storing DEF InitUpsert
        <4>3. Aligning /\ Past
          BY <3>3 DEF InitUpsert, Aligning, Past
        <4>4. init.snapshot = graph
          BY <1>0, <3>1, <4>3, CaveatOrSound
        <4> QED
          BY <2>1, <3>2, <4>2, <4>4 DEF Stored
      <3>4. CASE InitDelete
        <4>1. /\ \A other \in Ids \ init.batch : records'[other] = records[other]
              /\ \A other \in Ids : other \in init.batch => records'[other] = NoRecord
          BY <1>0, <3>4, Removing DEF InitDelete
        <4> QED
          BY <2>1, <3>2, <4>1 DEF Stored
      <3>5. CASE ~InitUpsert /\ ~InitDelete
        <4>1. records' = records
          BY <1>1, <2>3, <3>5 DEF AlignmentStep, InitStart, InitDisabled, InitFail, InitCrash, InitSeed,
             InitEmbed, InitCheckpoint, InitInvalidate, InitSnapshot, InitSweep
        <4> QED
          BY <2>1, <3>2, <4>1 DEF Stored
      <3> QED
        BY <3>3, <3>4, <3>5
    <2> QED
      BY <2>2, <2>3
  <1>2. CASE OutsideWrite
    BY <1>2 DEF OutsideWrite, Behind
  <1>3. CASE EditWrite
    <2>1. ~Running /\ records' = records
      BY <1>0, <1>3, GraphWritten DEF Running
    <2>2. edit'.pc = "invalidate" \/ edit' = edit
      BY <1>0, <1>3, GraphWritten
    <2>3. PICK other \in Ids :
             /\ \A any \in Ids : any # other => graph'[any] = graph[any]
             /\ edit'.pc = "invalidate" /\ edit'.left = edit'.upserts
             /\ edit'.upserts \union edit'.tombstones = {other}
      <3>1. PICK other \in Ids, new \in Texts \union {Absent}, removeOnly \in BOOLEAN :
               /\ graph' = [graph EXCEPT ![other] = new]
               /\ LET upserts == IF removeOnly THEN {} ELSE {other}
                  IN edit' = [pc |-> "invalidate", upserts |-> upserts, left |-> upserts,
                              tombstones |-> {other} \ upserts]
        BY <1>3 DEF EditWrite
      <3>2. \A any \in Ids : any # other => graph'[any] = graph[any]
        BY <1>0, <3>1 DEF TypeInv, Graphs
      <3>3. edit'.pc = "invalidate" /\ edit'.left = edit'.upserts
            /\ edit'.upserts \union edit'.tombstones = {other}
        BY <3>1
      <3> QED
        BY <3>2, <3>3
    <2>4. (Due)' = {other}
      BY <2>3 DEF Due, Running
    <2>5. caveat = "none" /\ Due = {}
      BY <1>3, <2>1 DEF EditWrite, Due
    <2> QED
      BY <2>1, <2>3, <2>4, <2>5 DEF IInv, NothingOld, Stored
  <1>4. CASE LifecycleStep
    <2>1. graph' = graph /\ caveat' = caveat /\ caveat = "none"
      BY <1>0, <1>4, Lifecycle DEF Behind
    <2>2. CASE edit' # NoEdit
      BY <1>0, <1>4, <2>1, <2>2, LifecycleRecords DEF IInv, NothingOld, Stored
    <2>3. CASE edit' = NoEdit
      <3>1. EditAlign /\ records' = records
        BY <1>0, <1>4, <2>1, <2>3, LifecycleRecords
      <3>2. Due = {}
        BY <1>0, <3>1 DEF Due, EditAlign, Basics, EditWork
      <3> QED
        BY <2>1, <3>1, <3>2 DEF IInv, NothingOld, Stored
    <2> QED
      BY <2>2, <2>3
  <1>5. CASE UNCHANGED vars
    BY <1>5 DEF vars, IInv, NothingOld, Due, Running, Stored
  <1> QED
    BY <1>1, <1>2, <1>3, <1>4, <1>5, Steps

LEMMA ReadyStep == IInv /\ [Next]_vars => Ready'
  <1> SUFFICES ASSUME IInv, [Next]_vars, caveat' # "mixed" PROVE Ready'
    BY DEF Ready
  <1> DEFINE Accepted ==
                readiness.state = "Aligned" =>
                   /\ edit.pc \in {"idle", "invalidate"} /\ init.pc \in {"idle", "invalidate"}
                   /\ \A id \in readiness.version : Stored(id)
             Verified == edit.pc = "align" => \A id \in Version(graph) : Stored(id)
  <1>0. Backing /\ Basics /\ TypeInv /\ init \in InitRecord
    BY DEF IInv, Backing, Basics, TypeInv
  <1>1. caveat # "mixed" => Accepted /\ Verified
    BY DEF IInv, Ready
  <1>2. SUFFICES (Accepted)' /\ (Verified)'
    BY DEF Ready
  <1> HIDE DEF Verified
  <1>3. CASE InitSeed \/ InitEmbed \/ InitCheckpoint \/ AlignmentStep
    <2>1. UNCHANGED <<graph, edit>>
      BY <1>0, <1>3, Moves
    <2>2. CASE InitStart
      <3>1. ~Running /\ init'.pc = "invalidate"
        BY <1>0, <2>2, Moves DEF InitStart, AlignmentStep
      <3>2. UNCHANGED <<readiness, records>> /\ caveat # "mixed"
        BY <2>2, <3>1 DEF InitStart
      <3> QED
        BY <1>1, <2>1, <3>1, <3>2 DEF Verified, Stored, Running
    <2>3. CASE InitAlign
      <3>1. Aligning
        BY <2>3 DEF InitAlign, Aligning
      <3>2. Sound
        BY <1>0, <2>3, <3>1, CaveatOrSound DEF InitAlign
      <3>3. /\ ~Running /\ init.version = Version(graph) /\ \A id \in Version(graph) : Good(id)
        BY <1>0, <2>3, <3>2, SoundEnd
      <3>4. /\ init'.pc = "idle" /\ records' = records /\ readiness'.version = init.version
        BY <2>3 DEF InitAlign, NoInit
      <3> QED
        BY <2>1, <3>3, <3>4 DEF Verified, Good, Stored, Running
    <2>4. CASE ~InitStart /\ ~InitAlign
      <3>1. Aligning /\ caveat = caveat'
        BY <1>0, <1>3, <2>4, Moves DEF AlignmentStep, Aligning, InitDisabled, InitFail, InitCrash,
              InitDelete, InitSeed, InitEmbed, InitCheckpoint, InitInvalidate, InitSnapshot,
              InitUpsert, InitSweep
      <3>2. ~Running
        BY <1>0, <3>1, CaveatOrSound
      <3>3. (Verified)'
        BY <2>1, <3>2 DEF Verified, Running
      <3>4. CASE InitDisabled \/ InitInvalidate \/ InitFail \/ (InitDelete /\ ~init.complete)
        <4>1. readiness'.state # "Aligned"
          BY <3>4 DEF InitDisabled, InitInvalidate, InitFail, InitDelete
        <4> QED
          BY <3>3, <4>1
      <3>5. CASE InitCrash
        <4>1. UNCHANGED <<readiness, records>> /\ init'.pc = "idle"
          BY <3>5 DEF InitCrash, NoInit
        <4> QED
          BY <1>1, <2>1, <3>1, <3>3, <4>1 DEF Stored
      <3>6. CASE \/ InitSnapshot \/ InitSeed \/ InitEmbed \/ InitUpsert \/ InitCheckpoint
                 \/ InitSweep \/ (InitDelete /\ init.complete)
        <4>1. readiness' = readiness /\ init.pc \notin {"idle", "invalidate"}
          BY <3>6 DEF InitSnapshot, InitSeed, InitEmbed, InitUpsert, InitCheckpoint, InitSweep, InitDelete
        <4>2. readiness.state # "Aligned"
          BY <1>1, <3>1, <4>1
        <4> QED
          BY <3>3, <4>1, <4>2
      <3> QED
        BY <1>3, <2>4, <3>4, <3>5, <3>6 DEF AlignmentStep
    <2> QED
      BY <2>2, <2>3, <2>4
  <1>4. CASE EditWrite \/ OutsideWrite
    <2>1. /\ edit.pc = "idle" /\ UNCHANGED <<records, readiness>>
          /\ edit'.pc \in {"idle", "invalidate"}
      BY <1>0, <1>4, GraphWritten
    <2>2. init'.pc = init.pc
      BY <1>0, <1>4, GraphWritten DEF InitRecord
    <2>3. caveat # "mixed"
      BY <1>4 DEF EditWrite, OutsideWrite, Behind
    <2> QED
      BY <1>1, <2>1, <2>2, <2>3 DEF Verified, Stored
  <1>5. CASE LifecycleStep
    <2>1. Running /\ UNCHANGED <<graph, init>> /\ caveat # "mixed"
      BY <1>0, <1>5, Lifecycle DEF Behind
    <2>2. init.pc = "idle"
      BY <1>0, <2>1, CaveatOrSound DEF Aligning
    <2>3. Accepted /\ Verified
      BY <1>1, <2>1
    <2>4. CASE EditAlign
      <3>1. edit'.pc = "idle" /\ readiness'.version = Version(graph) /\ records' = records
        BY <2>4 DEF EditAlign, Finish, NoEdit
      <3>2. edit.pc = "align"
        BY <2>4 DEF EditAlign
      <3> QED
        BY <2>1, <2>2, <2>3, <3>1, <3>2 DEF Verified, Stored
    <2>5. CASE EditCrash
      <3>1. edit'.pc = "idle" /\ UNCHANGED <<readiness, records>>
        BY <2>5 DEF EditCrash, NoEdit
      <3> QED
        BY <2>1, <2>2, <2>3, <3>1 DEF Verified, Stored
    <2>6. CASE EditPending \/ EditFail
      <3>1. edit'.pc = "idle" /\ readiness'.state # "Aligned"
        BY <2>6 DEF EditPending, EditFail, Finish, NoEdit
      <3> QED
        BY <3>1 DEF Verified
    <2>7. CASE EditInvalidate
      <3>1. PICK at \in {"tombstone", "upsert", "pending"} : edit' = [edit EXCEPT !.pc = at]
        BY <2>7 DEF EditInvalidate
      <3>2. edit'.pc = at /\ readiness'.state # "Aligned"
        BY <1>0, <2>7, <3>1 DEF EditInvalidate, TypeInv, EditRecord
      <3> QED
        BY <3>2 DEF Verified
    <2>8. CASE EditUpsert \/ EditTombstone
      <3>1. readiness' = readiness /\ edit.pc \in {"upsert", "tombstone"}
        BY <2>8 DEF EditUpsert, EditTombstone
      <3>2. edit'.pc # "align"
        BY <1>0, <2>8 DEF EditUpsert, EditTombstone, TypeInv, EditRecord
      <3> QED
        BY <2>3, <3>1, <3>2 DEF Verified
    <2>9. CASE EditVerify \/ EditCohere
      <3>1. edit.pc \in {"verify", "cohere"} /\ records' = records
        BY <2>9 DEF EditVerify, EditCohere, EditCheck
      <3>2. \/ edit' = NoEdit /\ readiness'.state = "Stale"
            \/ /\ readiness' = readiness
               /\ edit'.pc = "align" => Coherent
        BY <1>0, <2>9 DEF EditVerify, EditCohere, EditCheck, Finish, TypeInv, EditRecord
      <3>3. (Verified)'
        BY <2>1, <3>1, <3>2 DEF Verified, Coherent, Stored, NoEdit
      <3> QED
        BY <2>3, <3>1, <3>2, <3>3
    <2> QED
      BY <1>5, <2>4, <2>5, <2>6, <2>7, <2>8, <2>9 DEF LifecycleStep
  <1>6. CASE UNCHANGED vars
    <2>1. UNCHANGED <<graph, records, readiness, init, edit, caveat>>
      BY <1>6 DEF vars
    <2> QED
      BY <1>1, <2>1 DEF Verified, Stored
  <1> QED
    BY <1>3, <1>4, <1>5, <1>6, Steps

LEMMA IInvAlways == Spec => []IInv
  <1>1. IInv /\ [Next]_vars => IInv'
    BY BackingStep, NothingOldStep, ReadyStep DEF IInv
  <1> QED
    BY <1>1, IInvInit, PTL DEF Spec

\* An index that queries accept has a vector of the present text for every
\* object and no others, unless a named exception happened since the last
\* alignment free of them, whatever was interrupted, resumed or failed.
THEOREM AcceptedIsExact == Spec => []AlignedIsExact
  <1>1. ASSUME IInv, ReadyFor(graph), caveat = "none", ~Unannounced PROVE Exact
    <2>0. TypeInv /\ graph \in Graphs
      BY <1>1 DEF IInv, Backing, Basics, TypeInv
    <2>1. readiness.state = "Aligned" /\ readiness.version = Version(graph)
      BY <1>1 DEF ReadyFor
    <2>2. ~Running /\ \A id \in Version(graph) : Stored(id)
      BY <1>1, <2>1 DEF IInv, Ready, Unannounced, Running
    <2>3. \A id \in Ids : Stored(id) => records[id].text = graph[id]
      BY <1>1, <2>2 DEF IInv, NothingOld, Due
    <2>4. \A id \in Ids : Stored(id) => records[id].text \in Texts
      BY <2>0 DEF TypeInv, RecordsType, Records, Stored
    <2> QED
      BY <2>0, <2>2, <2>3, <2>4, Present DEF Exact
  <1>2. IInv => AlignedIsExact
    BY <1>1 DEF AlignedIsExact
  <1> QED
    BY <1>2, IInvAlways, PTL

\* Edits that failed and writes that no lifecycle followed leave no object of
\* an accepted index without a vector.
THEOREM AcceptedIsComplete == Spec => []AlignedIsComplete
  <1>1. IInv => AlignedIsComplete
    BY DEF IInv, Ready, ReadyFor, AlignedIsComplete
  <1> QED
    BY <1>1, IInvAlways, PTL

=============================================================================
