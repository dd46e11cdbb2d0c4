------------------------- MODULE IndexHandleProofs -------------------------
(***************************************************************************)
(* Theorems about module IndexHandle, for every set of documents and       *)
(* values and every merge threshold, with any number of operations,        *)
(* flushes, merges, failures and crashes.  The first part holds whatever   *)
(* current.json the first open finds: what the WAL and the segments owe    *)
(* each other.  The second part is about what reads and restarts return,   *)
(* and ends with the proof that the module implements DocStore.            *)
(***************************************************************************)
EXTENDS IndexHandle, StoreFacts

-----------------------------------------------------------------------------
\* The type of what the operators on segments and on the log return.

\* The WAL of a well-typed state is a log in the sense of StoreFacts.
LEMMA TypeOKLog ==
    ASSUME TypeOK
    PROVE  LogType(logs, current, Record) /\ current \in Nat /\ current >= 1
BY DEF TypeOK, LogType

\* Both manifests of a well-typed state are finite sets of SegmentMeta.
LEMMA TypeOKManifest ==
    ASSUME TypeOK
    PROVE  ManifestType(manifest) /\ ManifestType(memManifest)
BY DEF TypeOK, ManifestType, Meta

\* The SegmentMeta that describes a segment is one.
LEMMA MetaOfType ==
    ASSUME NEW n \in Nat, NEW s \in Snapshot
    PROVE  MetaOf(n, s, Absent) \in Meta
<1>1. s.docs \in DocMaps /\ s.last \in Nat
  BY DEF Snapshot
<1>2. Present(s.docs, Absent) \subseteq Docs
  BY <1>1 DEF Present, DocMaps
<1>3. Cardinality(Present(s.docs, Absent)) \in Nat
  BY <1>2, DocsAssumption, FS_Subset, FS_CardinalityType
<1> QED BY <1>1, <1>3 DEF MetaOf, Meta

\* Reading the segments of a manifest gives a document map.
LEMMA LoadSegmentsType ==
    ASSUME NEW M, ManifestType(M), NEW files,
           \A n \in DOMAIN files : files[n] \in Snapshot
    PROVE  LoadSegments(M, files, Docs, Absent) \in DocMaps
<1> DEFINE H(d) == Holders(M, files, d, Absent)
<1>1. ASSUME NEW d \in Docs, H(d) # {}
      PROVE  files[LastMeta(H(d)).num].docs[d] \in Contents
  <2>1. H(d) \subseteq M /\ \A m \in H(d) : m.num \in DOMAIN files
    BY DEF Holders, Readable
  <2>2. ManifestType(H(d))
    BY <2>1, FS_Subset DEF ManifestType
  <2>3. LastMeta(H(d)) \in H(d)
    BY <1>1, <2>2, LastMetaExists
  <2>4. files[LastMeta(H(d)).num] \in Snapshot
    BY <2>1, <2>3
  <2> QED BY <2>4 DEF Snapshot, DocMaps
<1>2. \A d \in Docs : (IF H(d) = {} THEN Absent ELSE files[LastMeta(H(d)).num].docs[d]) \in Contents
  <2>1. Absent \in Contents
    BY DEF Contents
  <2> HIDE DEF H
  <2> QED BY <1>1, <2>1
<1> QED BY <1>2 DEF LoadSegments, DocMaps

\* What a replay reads are records at positions of the log.
LEMMA ReplayFromType ==
    ASSUME TypeOK, NEW s \in Nat
    PROVE  /\ ReplayFrom(logs, s) \subseteq Position(logs)
           /\ \A p \in Position(logs) : EntryAt(logs, p) \in Record
BY TypeOKLog, PositionPair DEF ReplayFrom

\* Replaying the WAL over a document map gives a document map.
LEMMA ApplyReplayType ==
    ASSUME TypeOK, NEW base \in DocMaps, NEW s \in Nat
    PROVE  ApplyReplay(base, logs, s) \in DocMaps
<1> DEFINE hits(d) == {p \in ReplayFrom(logs, s) : EntryAt(logs, p).doc = d}
<1>1. ASSUME NEW d \in Docs, hits(d) # {}
      PROVE  EntryAt(logs, LastOf(hits(d))).val \in Contents
  <2>1. hits(d) \subseteq Position(logs)
    BY ReplayFromType
  <2>2. LastOf(hits(d)) \in hits(d)
    <3> HIDE DEF hits
    <3> QED BY <1>1, <2>1, TypeOKLog, LastOfExists
  <2>3. EntryAt(logs, LastOf(hits(d))) \in Record
    BY <2>1, <2>2, ReplayFromType
  <2> QED BY <2>3 DEF Record
<1>2. \A d \in Docs : (IF hits(d) = {} THEN base[d] ELSE EntryAt(logs, LastOf(hits(d))).val)
                          \in Contents
  <2>1. \A d \in Docs : base[d] \in Contents
    BY DEF DocMaps
  <2> HIDE DEF hits
  <2> QED BY <1>1, <2>1
<1>3. DOMAIN base = Docs
  BY DEF DocMaps
<1> QED BY <1>2, <1>3 DEF ApplyReplay, DocMaps

\* Replay moves the sequence number on, never back.
LEMMA LastReplayedType ==
    ASSUME TypeOK, NEW s \in Nat
    PROVE  LastReplayed(logs, s) \in Nat /\ LastReplayed(logs, s) >= s
<1>1. CASE ReplayFrom(logs, s) = {}
  BY <1>1 DEF LastReplayed
<1>2. CASE ReplayFrom(logs, s) # {}
  <2> DEFINE p == LastOf(ReplayFrom(logs, s))
  <2>1. p \in ReplayFrom(logs, s)
    BY <1>2, ReplayFromType, TypeOKLog, LastOfExists
  <2>2. EntryAt(logs, p) \in Record /\ EntryAt(logs, p).seq > s
    BY <2>1, ReplayFromType DEF ReplayFrom
  <2> QED BY <1>2, <2>2 DEF LastReplayed, Record
<1> QED BY <1>1, <1>2

\* What open_index makes of a well-typed directory is well-typed.
LEMMA OpenType ==
    ASSUME TypeOK
    PROVE  /\ DOMAIN OpenSegs \subseteq Nat
           /\ \A n \in DOMAIN OpenSegs : OpenSegs[n] \in Snapshot
           /\ OpenManifest \subseteq Meta /\ ManifestType(OpenManifest)
           /\ OpenDurableSeq \in Nat
           /\ Recovered \in DocMaps
<1>1. /\ DOMAIN OpenSegs \subseteq Nat
      /\ \A n \in DOMAIN OpenSegs : OpenSegs[n] \in Snapshot
  BY DEF TypeOK, OpenSegs, Migrating
<1>2. OpenManifest \subseteq Meta /\ ManifestType(OpenManifest)
  <2>1. CASE Migrating
    <3>1. MetaOf(1, currentJson, Absent) \in Meta
      BY <2>1, MetaOfType DEF TypeOK, Migrating
    <3> QED BY <2>1, <3>1, FS_Singleton DEF OpenManifest, ManifestType, Meta
  <2>2. CASE ~Migrating
    BY <2>2, TypeOKManifest DEF OpenManifest, TypeOK
  <2> QED BY <2>1, <2>2
<1>3. OpenDurableSeq \in Nat
  BY <1>2, DurableSeqFacts DEF OpenDurableSeq
<1>4. Recovered \in DocMaps
  BY <1>1, <1>2, <1>3, LoadSegmentsType, ApplyReplayType DEF Recovered
<1> QED BY <1>1, <1>2, <1>3, <1>4

\* The document map seen through the pending operations is one.
LEMMA OverlayType ==
    ASSUME TypeOK, NEW docs \in DocMaps
    PROVE  Overlay(docs) \in DocMaps
BY DEF TypeOK, Overlay, DocMaps

\* A segment that a flush or a merge writes is a snapshot, and so is its meta.
LEMMA SegmentType ==
    ASSUME TypeOK, NEW docs \in DocMaps
    PROVE  /\ Segment(docs) \in Snapshot
           /\ NewMeta(docs) \in Meta
           /\ NextNum(memManifest) \in Nat
<1>1. Segment(docs) \in Snapshot
  BY DEF TypeOK, Segment, Snapshot
<1>2. NextNum(memManifest) \in Nat
  BY TypeOKManifest, NextNumFacts
<1> QED BY <1>1, <1>2, MetaOfType DEF NewMeta

\* plan_merge selects segments of the manifest, and merging them gives a document map.
LEMMA PlanType ==
    ASSUME TypeOK
    PROVE  /\ Plan \subseteq memManifest
           /\ ManifestType(Plan)
           /\ MergedDocs \in DocMaps
<1>1. Plan \subseteq memManifest
  BY TypeOKManifest, LastMetaExists DEF Plan, PlanMerge, Small
<1>2. ManifestType(Plan)
  BY <1>1, TypeOKManifest, FS_Subset DEF ManifestType
<1>3. LoadSegments(Plan, segs, Docs, Absent) \in DocMaps
  BY <1>2, LoadSegmentsType DEF TypeOK
<1> QED BY <1>1, <1>2, <1>3, OverlayType DEF MergedDocs

\* A segment file is written under the next number of the handle's manifest.
LEMMA PutSegmentType ==
    ASSUME TypeOK, NEW docs \in DocMaps, PutSegment(NextNum(memManifest), docs)
    PROVE  /\ DOMAIN segs' = DOMAIN segs \cup {NextNum(memManifest)}
           /\ DOMAIN segs' \subseteq Nat
           /\ \A n \in DOMAIN segs' : segs'[n] \in Snapshot
BY SegmentType DEF PutSegment, TypeOK

\* Appending a record keeps the log well-typed.
LEMMA AppendType ==
    ASSUME TypeOK, NEW d \in Docs, NEW v \in Contents,
           logs' = AppendTo(logs, current, [seq |-> lastSeq + 1, doc |-> d, val |-> v])
    PROVE  /\ DOMAIN logs' \subseteq 1..current
           /\ \A g \in DOMAIN logs' : logs'[g] \in Seq(Record) /\ logs'[g] # <<>>
<1>1. [seq |-> lastSeq + 1, doc |-> d, val |-> v] \in Record
  BY DEF TypeOK, Record
<1>2. LogType(logs', current, Record)
  BY <1>1, TypeOKLog, AppendToFacts
<1> QED BY <1>2 DEF LogType

-----------------------------------------------------------------------------
\* TypeOK holds initially and is preserved by every step.

\* TypeOK holds in the directory of a new or a legacy index.
LEMMA InitTypeOK == Init => TypeOK
<1> SUFFICES ASSUME Init PROVE TypeOK
  OBVIOUS
<1>1. currentJson \in Snapshot \cup {NoFile}
  BY LegacyAssumption DEF Init
<1>2. Nothing \in DocMaps /\ NoPending \in [Docs -> Contents \cup {NoOp}]
  BY DEF Nothing, NoPending, DocMaps, Contents
<1>3. committed \in DocMaps
  BY <1>1, <1>2 DEF Init, Snapshot
<1>4. IsFiniteSet({})
  BY FS_EmptySet
<1>5. DOMAIN logs = {} /\ DOMAIN segs = {}
  BY DEF Init
<1>6. ackedSeq \in [Docs -> Nat]
  BY DEF Init
<1>7. /\ current = 1 /\ manifest = {} /\ memManifest = {} /\ up = FALSE /\ pc = "idle"
      /\ searchable = Nothing /\ pending = NoPending /\ lastSeq = 0
      /\ indoubt = {} /\ swallowed = {} /\ damaged = {} /\ crashes = 0 /\ faults = 0
  BY DEF Init
<1>8. current \in Nat \ {0} /\ lastSeq \in Nat /\ crashes \in Nat /\ faults \in Nat
  BY <1>7
<1>9. /\ DOMAIN logs \subseteq 1..current
      /\ \A g \in DOMAIN logs : logs[g] \in Seq(Record) /\ logs[g] # <<>>
      /\ DOMAIN segs \subseteq Nat
      /\ \A n \in DOMAIN segs : segs[n] \in Snapshot
  BY <1>5
<1>10. /\ manifest \subseteq Meta /\ IsFiniteSet(manifest)
       /\ memManifest \subseteq Meta /\ IsFiniteSet(memManifest)
       /\ indoubt \subseteq Docs /\ swallowed \subseteq Docs /\ damaged \subseteq Docs
  BY <1>4, <1>7
<1>11. /\ up \in BOOLEAN
       /\ pc \in {"idle", "rolled", "written", "trim", "merge", "merged"}
       /\ up \/ pc = "idle"
  BY <1>7
<1>12. searchable \in DocMaps /\ pending \in [Docs -> Contents \cup {NoOp}]
  BY <1>2, <1>7
<1>13. hasManifest \in BOOLEAN /\ (hasManifest \/ manifest = {})
  BY DEF Init
<1> QED BY <1>1, <1>3, <1>6, <1>8, <1>9, <1>10, <1>11, <1>12, <1>13 DEF TypeOK

\* No step breaks TypeOK.
LEMMA NextTypeOK == TypeOK /\ [Next]_vars => TypeOK'
<1> SUFFICES ASSUME TypeOK, [Next]_vars PROVE TypeOK'
  OBVIOUS
<1> USE DEF disk, memory, history, budget, wal, store
<1>1. CASE Recover
  <2>1. NoPending \in [Docs -> Contents \cup {NoOp}]
    BY DEF NoPending
  <2>2. LastReplayed(logs, OpenDurableSeq) \in Nat
    BY OpenType, LastReplayedType
  <2>3. IsFiniteSet(OpenManifest)
    BY OpenType DEF ManifestType
  <2> QED BY <1>1, <2>1, <2>2, <2>3, OpenType DEF Recover, TypeOK
<1>2. ASSUME NEW d \in Docs, NEW v \in Contents, Write(d, v) PROVE TypeOK'
  <2>1. /\ DOMAIN logs' \subseteq 1..current
        /\ \A g \in DOMAIN logs' : logs'[g] \in Seq(Record) /\ logs'[g] # <<>>
    BY <1>2, AppendType DEF Write
  <2>2. committed' \in DocMaps
    BY <1>2 DEF Write, TypeOK, DocMaps
  <2> QED BY <1>2, <2>1, <2>2 DEF Write, Idle, TypeOK
<1>3. ASSUME NEW d \in Docs, NEW v \in Contents, WriteFault(d, v) PROVE TypeOK'
  <2>1. /\ DOMAIN logs' \subseteq 1..current
        /\ \A g \in DOMAIN logs' : logs'[g] \in Seq(Record) /\ logs'[g] # <<>>
    BY <1>3, AppendType DEF WriteFault
  <2> QED BY <1>3, <2>1 DEF WriteFault, Idle, TypeOK
<1>4. CASE Refresh
  <2>1. View \in DocMaps
    BY OverlayType DEF TypeOK, View
  <2>2. NoPending \in [Docs -> Contents \cup {NoOp}]
    BY DEF NoPending
  <2> QED BY <1>4, <2>1, <2>2 DEF Refresh, Idle, TypeOK
<1>5. CASE Merge
  <2>1. View \in DocMaps
    BY OverlayType DEF TypeOK, View
  <2>2. currentJson' \in Snapshot
    BY <1>5, <2>1 DEF Merge, TypeOK, Snapshot
  <2> QED BY <1>5, <2>1, <2>2 DEF Merge, Idle, TypeOK
<1>6. CASE MergeFault
  <2>1. View \in DocMaps
    BY OverlayType DEF TypeOK, View
  <2>2. currentJson' \in Snapshot
    BY <1>6, <2>1 DEF MergeFault, TypeOK, Snapshot
  <2> QED BY <1>6, <2>2 DEF MergeFault, Idle, TypeOK
<1>7. CASE FlushRollover
  <2>1. current' \in Nat \ {0} /\ DOMAIN logs \subseteq 1..current'
    BY <1>7 DEF FlushRollover, TypeOK
  <2> QED BY <1>7, <2>1 DEF FlushRollover, Idle, TypeOK
<1>8. CASE FlushSegment
  <2>1. /\ DOMAIN segs' \subseteq Nat
        /\ \A n \in DOMAIN segs' : segs'[n] \in Snapshot
    BY <1>8, PutSegmentType DEF FlushSegment, TypeOK
  <2>2. swallowed' \subseteq Docs
    BY <1>8 DEF FlushSegment, TypeOK, Pending
  <2> QED BY <1>8, <2>1, <2>2 DEF FlushSegment, TypeOK
<1>9. ASSUME PublishFlushed
      PROVE  /\ hasManifest' /\ manifest' \subseteq Meta /\ IsFiniteSet(manifest')
             /\ swallowed' \subseteq Docs
  <2>1. NewMeta(searchable) \in Meta
    BY SegmentType DEF TypeOK
  <2> QED BY <1>9, <2>1, FS_AddElement DEF PublishFlushed, TypeOK, Pending
<1>10. CASE FlushManifest
  BY <1>9, <1>10 DEF FlushManifest, TypeOK
<1>11. CASE FlushManifestFault
  BY <1>9, <1>11 DEF FlushManifestFault, TypeOK
<1>12. CASE TrimGeneration
  <2>1. /\ DOMAIN logs' \subseteq 1..current
        /\ \A g \in DOMAIN logs' : logs'[g] \in Seq(Record) /\ logs'[g] # <<>>
    <3> DEFINE g == CHOOSE g \in Covered : \A h \in Covered : g <= h
    <3>1. logs' = RemoveGeneration(logs, g)
      BY <1>12 DEF TrimGeneration
    <3> HIDE DEF g
    <3>2. LogType(logs', current, Record)
      BY <3>1, TypeOKLog, RemoveGenerationFacts
    <3> QED BY <3>2 DEF LogType
  <2> QED BY <1>12, <2>1 DEF TrimGeneration, TypeOK
<1>13. CASE FlushTrimmed
  BY <1>13 DEF FlushTrimmed, TypeOK
<1>14. CASE MergeSegment
  <2>1. /\ DOMAIN segs' \subseteq Nat
        /\ \A n \in DOMAIN segs' : segs'[n] \in Snapshot
    BY <1>14, PlanType, PutSegmentType DEF MergeSegment
  <2> QED BY <1>14, <2>1 DEF MergeSegment, TypeOK
<1>15. ASSUME PublishMerged
       PROVE  /\ hasManifest' /\ manifest' \subseteq Meta /\ IsFiniteSet(manifest')
              /\ swallowed' \subseteq Docs /\ damaged' \subseteq Docs
  <2>1. NewMeta(MergedDocs) \in Meta
    BY PlanType, SegmentType
  <2>2. IsFiniteSet(memManifest \ Plan)
    BY FS_Subset DEF TypeOK
  <2> QED BY <1>15, <2>1, <2>2, FS_AddElement DEF PublishMerged, TypeOK
<1>16. CASE MergePublish
  BY <1>15, <1>16, PlanType DEF MergePublish, TypeOK
<1>17. CASE MergePublishFault
  BY <1>15, <1>17 DEF MergePublishFault, TypeOK
<1>18. CASE FlushFault
  BY <1>18 DEF FlushFault, TypeOK
<1>19. CASE Crash
  <2>1. Nothing \in DocMaps /\ NoPending \in [Docs -> Contents \cup {NoOp}]
    BY DEF Nothing, NoPending, DocMaps, Contents
  <2>2. IsFiniteSet({})
    BY FS_EmptySet
  <2>3. /\ up' = FALSE /\ pc' = "idle" /\ lastSeq' = 0 /\ memManifest' = {}
        /\ searchable' = Nothing /\ pending' = NoPending
        /\ swallowed' = {} /\ damaged' \subseteq Docs
        /\ crashes' \in Nat /\ faults' \in Nat
        /\ UNCHANGED <<disk, committed, ackedSeq, indoubt>>
    BY <1>19 DEF Crash, TypeOK
  <2> QED BY <2>1, <2>2, <2>3 DEF TypeOK
<1>20. CASE UNCHANGED vars
  BY <1>20 DEF vars, TypeOK
<1> QED
  BY <1>1, <1>2, <1>3, <1>4, <1>5, <1>7, <1>8, <1>10, <1>11, <1>12, <1>13, <1>14,
     <1>16, <1>17, <1>18, <1>19, <1>20, <1>6 DEF Next, Client, FlushStep, Failure

\* The variables keep their types: WAL files are non-empty and none is newer than
\* CURRENT, the manifests stay finite, and only an open index runs a flush.
THEOREM TypeCorrect == Spec => []TypeOK
BY InitTypeOK, NextTypeOK, PTL DEF Spec

-----------------------------------------------------------------------------
(***************************************************************************)
(* The strengthening.  A record may leave the WAL only when the manifest   *)
(* covers it; that this is so at the moment of the trim follows from what  *)
(* the handle's lastSeq is known to bound while the index is open.         *)
(***************************************************************************)

\* lastSeq bounds what the manifests claim to cover, and the records of the WAL
\* but for one whose append failed after writing.
LastsBelow == up => \A m \in manifest \cup memManifest : m.last <= lastSeq
LogBelow   == up => \A p \in Position(logs) : EntryAt(logs, p).seq <= lastSeq + 1

\* A segment that is about to be published is on disk.
Staged ==
    pc \in {"written", "merged"} =>
        /\ NextNum(memManifest) \in DOMAIN segs
        /\ segs[NextNum(memManifest)].last = lastSeq

\* The trim starts only when the manifest on disk covers what it may remove.
TrimCovered == pc = "trim" => lastSeq <= DurableSeq(manifest, segs)

\* p holds the last acknowledged operation on d, and nothing for d comes later
\* unless an operation on d is in doubt.
IsTail(d, p) ==
    /\ EntryAt(logs, p).seq = ackedSeq[d]
    /\ EntryAt(logs, p).doc = d
    /\ EntryAt(logs, p).val = committed[d]
    /\ d \notin indoubt =>
          \A q \in Position(logs) : EntryAt(logs, q).doc = d => q = p \/ Before(q, p)

Witnessed ==
    \A d \in Docs :
        ackedSeq[d] > DurableSeq(manifest, segs) => \E p \in Position(logs) : IsTail(d, p)

IInv ==
    /\ TypeOK /\ ManifestBacked /\ LogOrdered /\ SequencesFresh
    /\ LastsBelow /\ LogBelow /\ Staged /\ TrimCovered /\ Witnessed

-----------------------------------------------------------------------------
\* Replay goes through every record, so the number it ends with bounds them all.
LEMMA ReplayCovers ==
    ASSUME TypeOK, LogOrdered, NEW s \in Nat, NEW p \in Position(logs)
    PROVE  EntryAt(logs, p).seq <= LastReplayed(logs, s)
<1>1. EntryAt(logs, p) \in Record
  BY ReplayFromType
<1>2. EntryAt(logs, p).seq \in Nat
  BY <1>1 DEF Record
<1>3. CASE EntryAt(logs, p).seq <= s
  BY <1>2, <1>3, LastReplayedType
<1>4. CASE EntryAt(logs, p).seq > s
  <2> DEFINE l == LastOf(ReplayFrom(logs, s))
  <2>1. p \in ReplayFrom(logs, s)
    BY <1>4 DEF ReplayFrom
  <2>2. l \in ReplayFrom(logs, s) /\ (p = l \/ Before(p, l))
    BY <2>1, ReplayFromType, TypeOKLog, LastOfExists
  <2>3. EntryAt(logs, p).seq <= EntryAt(logs, l).seq
    BY <1>2, <2>2, ReplayFromType DEF LogOrdered
  <2> QED BY <2>1, <2>3 DEF LastReplayed
<1> QED BY <1>2, <1>3, <1>4

\* open_index never starts its replay before what the manifest covers.
LEMMA OpenCoversManifest ==
    ASSUME TypeOK
    PROVE  DurableSeq(manifest, segs) \in Nat /\ DurableSeq(manifest, segs) <= OpenDurableSeq
<1>1. DurableSeq(manifest, segs) \in Nat
  BY TypeOKManifest, DurableSeqFacts
<1>2. CASE Migrating
  <2>1. manifest = {}
    BY <1>2 DEF TypeOK, Migrating
  <2>2. DurableSeq(manifest, segs) = 0
    BY <2>1, TypeOKManifest, DurableSeqFacts DEF Readable
  <2> QED BY <1>1, <2>2, OpenType
<1>3. CASE ~Migrating
  BY <1>1, <1>3 DEF OpenDurableSeq, OpenManifest, OpenSegs
<1> QED BY <1>1, <1>2, <1>3

\* The property that the inductive invariant is for.
LEMMA IInvTailWins == IInv => TailWins
<1> SUFFICES ASSUME IInv, NEW d \in Docs \ indoubt, ackedSeq[d] > OpenDurableSeq
             PROVE  Recovered[d] = committed[d]
  BY DEF TailWins
<1>1. TypeOK /\ Witnessed
  BY DEF IInv
<1>2. ackedSeq[d] \in Nat /\ OpenDurableSeq \in Nat
  BY <1>1, OpenType DEF TypeOK
<1>3. ackedSeq[d] > DurableSeq(manifest, segs)
  BY <1>1, <1>2, OpenCoversManifest
<1>4. PICK p \in Position(logs) : IsTail(d, p)
  BY <1>1, <1>3 DEF Witnessed
<1> DEFINE hits == {q \in ReplayFrom(logs, OpenDurableSeq) : EntryAt(logs, q).doc = d}
<1>5. p \in hits /\ \A q \in hits : q = p \/ Before(q, p)
  BY <1>4 DEF IsTail, ReplayFrom
<1>6. hits \subseteq Position(logs)
  BY DEF ReplayFrom
<1>7. LastOf(hits) = p
  <2> HIDE DEF hits
  <2> QED BY <1>1, <1>5, <1>6, TypeOKLog, LastOfUnique
<1>8. LoadSegments(OpenManifest, OpenSegs, Docs, Absent) \in DocMaps
  BY <1>1, OpenType, LoadSegmentsType
<1>9. Recovered[d] = EntryAt(logs, LastOf(hits)).val
  BY <1>5, <1>8 DEF Recovered, ApplyReplay, DocMaps
<1> QED BY <1>4, <1>7, <1>9 DEF IsTail

-----------------------------------------------------------------------------
\* The steps, by what they change.

\* The inductive invariant holds before the first open.
LEMMA InitIInv == Init => IInv
<1> SUFFICES ASSUME Init PROVE IInv
  OBVIOUS
<1>1. TypeOK
  BY InitTypeOK
<1>2. Position(logs) = {}
  BY DEF Init, Position
<1>3. Witnessed
  BY <1>1, OpenCoversManifest DEF Init, Witnessed
<1> QED BY <1>1, <1>2, <1>3
        DEF Init, IInv, ManifestBacked, LogOrdered, SequencesFresh, LastsBelow, LogBelow,
            Staged, TrimCovered

\* Neither the log, nor the segments, nor what the handle knows of them.
LEMMA QuietStep ==
    ASSUME IInv, TypeOK',
           UNCHANGED <<logs, segs, manifest, memManifest, up, lastSeq,
                       committed, ackedSeq, indoubt>>,
           pc' \in {"idle", "rolled", "merge"} \/ pc' = pc
    PROVE  IInv'
BY DEF IInv, ManifestBacked, LogOrdered, SequencesFresh, LastsBelow, LogBelow,
       Staged, TrimCovered, Witnessed, IsTail

\* A record is appended under the next sequence number.
LEMMA AppendStep ==
    ASSUME IInv, TypeOK', Idle, NEW d \in Docs, NEW v \in Contents,
           logs' = AppendTo(logs, current, [seq |-> lastSeq + 1, doc |-> d, val |-> v]),
           UNCHANGED <<segs, manifest, memManifest, up, pc>>,
           \/ /\ lastSeq' = lastSeq + 1
              /\ committed' = [committed EXCEPT ![d] = v]
              /\ ackedSeq' = [ackedSeq EXCEPT ![d] = lastSeq + 1]
              /\ indoubt' = indoubt \ {d}
           \/ /\ UNCHANGED <<lastSeq, committed, ackedSeq>>
              /\ indoubt' = indoubt \cup {d}
    PROVE  IInv'
<1> DEFINE e == [seq |-> lastSeq + 1, doc |-> d, val |-> v]
<1>1. TypeOK /\ up /\ pc = "idle" /\ lastSeq \in Nat /\ lastSeq' \in Nat /\ lastSeq <= lastSeq'
  BY DEF IInv, TypeOK, Idle
<1>2. e \in Record
  BY <1>1 DEF Record
<1>3. PICK q \in Position(logs') :
          /\ Position(logs') = Position(logs) \cup {q}
          /\ EntryAt(logs', q) = e
          /\ q \notin Position(logs)
          /\ \A p \in Position(logs) : Before(p, q) /\ EntryAt(logs', p) = EntryAt(logs, p)
  BY <1>1, <1>2, TypeOKLog, AppendToFacts
<1>4. \A p \in Position(logs) : EntryAt(logs, p).seq \in Nat /\ EntryAt(logs, p).seq <= lastSeq + 1
  BY <1>1, ReplayFromType DEF IInv, LogBelow, Record
<1>5. LogOrdered'
  <2> SUFFICES ASSUME NEW p \in Position(logs'), NEW r \in Position(logs'), Before(p, r)
               PROVE  EntryAt(logs', p).seq <= EntryAt(logs', r).seq
    BY DEF LogOrdered
  <2>1. CASE r = q
    BY <1>1, <1>3, <1>4, <2>1
  <2>2. CASE r # q
    <3>1. r \in Position(logs) /\ Before(r, q)
      BY <1>3, <2>2
    <3>2. LogType(logs', current, Record)
      BY <1>1, <1>2, TypeOKLog, AppendToFacts
    <3>3. p # q
      BY <1>3, <3>1, <3>2, BeforeTotal
    <3> QED BY <1>3, <3>1, <3>3 DEF IInv, LogOrdered
  <2> QED BY <2>1, <2>2
<1>6. LogBelow'
  BY <1>1, <1>3, <1>4 DEF LogBelow
<1>7. LastsBelow'
  BY <1>1 DEF IInv, LastsBelow, TypeOK, Meta
<1>8. SequencesFresh'
  <2>1. ackedSeq \in [Docs -> Nat] /\ \A c \in Docs : ackedSeq[c] <= lastSeq
    BY <1>1 DEF IInv, SequencesFresh, TypeOK
  <2>2. \A c \in Docs : ackedSeq'[c] \in {ackedSeq[c], lastSeq'}
    BY <2>1
  <2> QED BY <1>1, <2>1, <2>2 DEF SequencesFresh
<1>9. Witnessed'
  <2> SUFFICES ASSUME NEW c \in Docs, ackedSeq'[c] > DurableSeq(manifest, segs)
               PROVE  \E p \in Position(logs') : IsTail(c, p)'
    BY DEF Witnessed
  <2>1. CASE c = d /\ lastSeq' = lastSeq + 1
    <3>1. /\ committed'[d] = v /\ ackedSeq'[d] = lastSeq + 1
      BY <1>1, <2>1 DEF TypeOK, DocMaps
    <3>2. IsTail(d, q)'
      BY <1>3, <3>1 DEF IsTail
    <3> QED BY <2>1, <3>2
  <2>2. CASE c # d \/ lastSeq' # lastSeq + 1
    <3>1. committed'[c] = committed[c] /\ ackedSeq'[c] = ackedSeq[c]
      BY <1>1, <2>2 DEF TypeOK, DocMaps
    <3>2. PICK p \in Position(logs) : IsTail(c, p)
      BY <3>1 DEF IInv, Witnessed
    <3>3. c \notin indoubt' => c \notin indoubt /\ c # d
      BY <1>1, <2>2
    <3>4. EntryAt(logs', q).doc = d
      BY <1>3
    <3>5. IsTail(c, p)'
      BY <1>3, <3>1, <3>2, <3>3, <3>4 DEF IsTail
    <3> QED BY <1>3, <3>5
  <2> QED BY <2>1, <2>2
<1>10. ManifestBacked' /\ Staged' /\ TrimCovered'
  BY <1>1 DEF IInv, ManifestBacked, Staged, TrimCovered
<1> QED BY <1>5, <1>6, <1>7, <1>8, <1>9, <1>10 DEF IInv

\* A segment file is renamed into place under the next number.
LEMMA PutSegmentStep ==
    ASSUME IInv, TypeOK', up, NEW docs \in DocMaps,
           PutSegment(NextNum(memManifest), docs),
           UNCHANGED <<logs, manifest, memManifest, up, lastSeq, committed, ackedSeq, indoubt>>,
           pc' \in {"written", "merged"}
    PROVE  IInv'
<1> DEFINE n == NextNum(memManifest)
<1>1. TypeOK
  BY DEF IInv
<1>2. /\ DOMAIN segs' = DOMAIN segs \cup {n}
      /\ segs'[n].last = lastSeq
      /\ \A k \in DOMAIN segs \ {n} : segs'[k] = segs[k]
  BY DEF PutSegment, Segment
<1>3. ManifestBacked'
  BY <1>2 DEF IInv, ManifestBacked, LastsBelow
<1>4. Staged'
  BY <1>2 DEF Staged
<1>5. Witnessed'
  <2>1. DurableSeq(manifest, segs) <= DurableSeq(manifest, segs')
    BY <1>1, <1>2, TypeOKManifest, DurableSeqMonotonic
  <2>2. DurableSeq(manifest, segs) \in Nat /\ DurableSeq(manifest, segs') \in Nat
    BY <1>1, TypeOKManifest, DurableSeqFacts
  <2>3. \A d \in Docs : ackedSeq[d] \in Nat
    BY <1>1 DEF TypeOK
  <2> QED BY <2>1, <2>2, <2>3 DEF IInv, Witnessed, IsTail
<1>6. LogOrdered' /\ SequencesFresh' /\ LastsBelow' /\ LogBelow' /\ TrimCovered'
  BY DEF IInv, LogOrdered, SequencesFresh, LastsBelow, LogBelow, TrimCovered
<1> QED BY <1>3, <1>4, <1>5, <1>6 DEF IInv

\* A manifest that names the staged segment is renamed into place.  From here on
\* the manifest covers every acknowledged sequence number.
LEMMA PublishStep ==
    ASSUME IInv, TypeOK', pc \in {"written", "merged"}, NEW docs \in DocMaps,
           NEW kept \in SUBSET memManifest,
           manifest' = kept \cup {NewMeta(docs)},
           memManifest' = memManifest \/ memManifest' = manifest',
           UNCHANGED <<logs, segs, up, lastSeq, committed, ackedSeq, indoubt>>,
           pc' \in {"idle", "trim"}
    PROVE  IInv'
<1>1. TypeOK /\ up /\ lastSeq \in Nat
  BY DEF IInv, TypeOK
<1>2. NewMeta(docs).num = NextNum(memManifest) /\ NewMeta(docs).last = lastSeq
  BY DEF NewMeta, MetaOf, Segment
<1>3. ManifestBacked'
  BY <1>1, <1>2 DEF IInv, ManifestBacked, Staged
<1>4. LastsBelow'
  BY <1>1, <1>2 DEF IInv, LastsBelow
<1>5. DurableSeq(manifest', segs) \in Nat /\ lastSeq <= DurableSeq(manifest', segs)
  <2>1. ManifestType(manifest')
    BY DEF TypeOK, ManifestType, Meta
  <2>2. NewMeta(docs) \in Readable(manifest', segs)
    BY <1>2 DEF IInv, Staged, Readable
  <2> QED BY <1>2, <2>1, <2>2, DurableSeqFacts
<1>6. TrimCovered'
  BY <1>5 DEF TrimCovered
<1>7. Witnessed'
  <2>1. \A d \in Docs : ackedSeq[d] \in Nat /\ ackedSeq[d] <= lastSeq
    BY <1>1 DEF IInv, SequencesFresh, TypeOK
  <2> QED BY <1>1, <1>5, <2>1 DEF Witnessed
<1>8. Staged' /\ LogOrdered' /\ SequencesFresh' /\ LogBelow'
  BY DEF IInv, Staged, LogOrdered, SequencesFresh, LogBelow
<1> QED BY <1>3, <1>4, <1>6, <1>7, <1>8 DEF IInv

\* A trim removes one generation, and no record in it is above lastSeq.
LEMMA TrimmedBelow ==
    ASSUME IInv, TrimGeneration
    PROVE  \E g : /\ \A p : p \in Position(logs') <=> p \in Position(logs) /\ p[1] # g
                  /\ \A p \in Position(logs') : EntryAt(logs', p) = EntryAt(logs, p)
                  /\ \A p \in Position(logs) : p[1] = g => EntryAt(logs, p).seq <= lastSeq
<1> DEFINE g == CHOOSE g \in Covered : \A h \in Covered : g <= h
<1>1. TypeOK /\ lastSeq \in Nat
  BY DEF IInv, TypeOK
<1>2. g \in Covered
  <2>1. Covered \subseteq DOMAIN logs /\ DOMAIN logs \subseteq Nat
    BY <1>1 DEF Covered, Trimmable, TypeOK
  <2>2. \E m \in Covered : \A h \in Covered : m <= h
    BY <2>1, LeastNat DEF TrimGeneration
  <2> QED BY <2>2
<1>3. logs' = RemoveGeneration(logs, g)
  BY DEF TrimGeneration
<1> HIDE DEF g
<1>4. /\ \A p : p \in Position(logs') <=> p \in Position(logs) /\ p[1] # g
      /\ \A p \in Position(logs') : EntryAt(logs', p) = EntryAt(logs, p)
  BY <1>1, <1>3, TypeOKLog, RemoveGenerationFacts
<1>5. ASSUME NEW p \in Position(logs), p[1] = g
      PROVE  EntryAt(logs, p).seq <= lastSeq
  <2>1. g \in DOMAIN logs /\ MaxSequenceIn(logs[g]) <= lastSeq
    BY <1>2 DEF Covered, Trimmable
  <2>2. p = <<g, p[2]>> /\ p[2] \in 1..Len(logs[g]) /\ p[2] \in Nat /\ Len(logs[g]) \in Nat
        /\ g \in Nat
    BY <1>1, <1>5, TypeOKLog, PositionPair
  <2> DEFINE l == <<g, Len(logs[g])>>
  <2>3. l \in Position(logs)
    BY <1>1, <2>1, <2>2, TypeOKLog, PositionMember
  <2>4. EntryAt(logs, l).seq <= lastSeq
    BY <2>1 DEF EntryAt, MaxSequenceIn
  <2>5. p = l \/ Before(p, l)
    BY <2>2 DEF Before
  <2>6. EntryAt(logs, p).seq \in Nat /\ EntryAt(logs, l).seq \in Nat
    BY <1>1, <2>3, ReplayFromType DEF Record
  <2>7. EntryAt(logs, p).seq <= EntryAt(logs, l).seq
    BY <2>3, <2>5, <2>6 DEF IInv, LogOrdered
  <2> QED BY <1>1, <2>4, <2>6, <2>7
<1> QED BY <1>4, <1>5

\* A generation that is trimmed holds no record above what the manifest covers.
LEMMA TrimStep ==
    ASSUME IInv, TypeOK', TrimGeneration
    PROVE  IInv'
<1>1. TypeOK /\ lastSeq \in Nat
  BY DEF IInv, TypeOK
<1>2. PICK g : /\ \A p : p \in Position(logs') <=> p \in Position(logs) /\ p[1] # g
               /\ \A p \in Position(logs') : EntryAt(logs', p) = EntryAt(logs, p)
               /\ \A p \in Position(logs) : p[1] = g => EntryAt(logs, p).seq <= lastSeq
  BY TrimmedBelow
<1>6. UNCHANGED <<segs, manifest, memManifest, up, pc, lastSeq, committed, ackedSeq, indoubt>>
  BY DEF TrimGeneration, store, memory, history
<1>7. Witnessed'
  <2> SUFFICES ASSUME NEW d \in Docs, ackedSeq[d] > DurableSeq(manifest, segs)
               PROVE  \E p \in Position(logs') : IsTail(d, p)'
    BY <1>6 DEF Witnessed
  <2>1. PICK p \in Position(logs) : IsTail(d, p)
    BY DEF IInv, Witnessed
  <2>2. ackedSeq[d] > lastSeq
    <3>1. lastSeq <= DurableSeq(manifest, segs)
      BY DEF IInv, TrimCovered, TrimGeneration
    <3>2. DurableSeq(manifest, segs) \in Nat /\ ackedSeq[d] \in Nat
      BY <1>1, OpenCoversManifest DEF TypeOK
    <3> QED BY <1>1, <3>1, <3>2
  <2>3. p[1] # g
    BY <1>1, <1>2, <2>1, <2>2 DEF IsTail, TypeOK
  <2>4. p \in Position(logs')
    BY <1>2, <2>3
  <2>5. IsTail(d, p)'
    BY <1>2, <1>6, <2>1, <2>4 DEF IsTail
  <2> QED BY <2>4, <2>5
<1>8. LogOrdered' /\ LogBelow'
  BY <1>2, <1>6 DEF IInv, LogOrdered, LogBelow
<1>9. ManifestBacked' /\ SequencesFresh' /\ LastsBelow' /\ Staged' /\ TrimCovered'
  BY <1>6 DEF IInv, ManifestBacked, SequencesFresh, LastsBelow, Staged, TrimCovered
<1> QED BY <1>7, <1>8, <1>9 DEF IInv

\* open_index starts above every number in the WAL and in the manifest.
LEMMA RecoverStep ==
    ASSUME IInv, TypeOK', Recover
    PROVE  IInv'
<1>1. TypeOK /\ LogOrdered
  BY DEF IInv
<1>2. /\ lastSeq' = LastReplayed(logs, OpenDurableSeq) /\ memManifest' = OpenManifest
      /\ segs' = OpenSegs /\ up' /\ pc' = "idle"
      /\ UNCHANGED <<logs, manifest, committed, ackedSeq, indoubt>>
  BY <1>1 DEF Recover, wal, history, TypeOK
<1>3. OpenDurableSeq \in Nat /\ lastSeq' \in Nat /\ lastSeq' >= OpenDurableSeq
  BY <1>1, <1>2, OpenType, LastReplayedType
<1>4. ManifestBacked'
  <2>1. CASE Migrating
    <3>1. \A m \in OpenManifest : m.num = 1 /\ m.last = currentJson.last
      BY <2>1 DEF OpenManifest, MetaOf
    <3>2. 1 \in DOMAIN OpenSegs /\ OpenSegs[1] = currentJson
      BY <2>1 DEF OpenSegs
    <3>3. currentJson.last \in Nat
      BY <1>1, <2>1 DEF TypeOK, Migrating, Snapshot
    <3>4. manifest = {}
      BY <1>1, <2>1 DEF TypeOK, Migrating
    <3> QED BY <1>2, <3>1, <3>2, <3>3, <3>4 DEF ManifestBacked
  <2>2. CASE ~Migrating
    BY <1>2, <2>2 DEF IInv, ManifestBacked, OpenManifest, OpenSegs
  <2> QED BY <2>1, <2>2
<1>5. LastsBelow'
  <2>1. \A m \in OpenManifest : m \in Readable(OpenManifest, OpenSegs)
    BY <1>2, <1>4 DEF ManifestBacked, Readable
  <2>2. \A m \in OpenManifest : m.last \in Nat /\ m.last <= OpenDurableSeq
    BY <1>1, <2>1, OpenType, DurableSeqFacts DEF OpenDurableSeq, Meta
  <2>3. manifest \subseteq OpenManifest
    BY <1>1 DEF OpenManifest, Migrating, TypeOK
  <2> QED BY <1>2, <1>3, <2>2, <2>3 DEF LastsBelow
<1>6. \A p \in Position(logs) : EntryAt(logs, p).seq \in Nat /\ EntryAt(logs, p).seq <= lastSeq'
  BY <1>1, <1>2, <1>3, ReplayCovers, ReplayFromType DEF Record
<1>7. LogBelow'
  BY <1>2, <1>3, <1>6 DEF LogBelow
<1>8. SequencesFresh'
  <2> SUFFICES ASSUME NEW d \in Docs PROVE ackedSeq[d] <= lastSeq'
    BY <1>2 DEF SequencesFresh
  <2>1. ackedSeq[d] \in Nat
    BY <1>1 DEF TypeOK
  <2>2. DurableSeq(manifest, segs) \in Nat /\ DurableSeq(manifest, segs) <= OpenDurableSeq
    BY <1>1, OpenCoversManifest
  <2>3. CASE ackedSeq[d] <= DurableSeq(manifest, segs)
    BY <1>3, <2>1, <2>2, <2>3
  <2>4. CASE ackedSeq[d] > DurableSeq(manifest, segs)
    BY <1>6, <2>4 DEF IInv, Witnessed, IsTail
  <2> QED BY <2>1, <2>2, <2>3, <2>4
<1>9. Witnessed'
  <2>1. DOMAIN segs \subseteq DOMAIN OpenSegs
    BY DEF OpenSegs
  <2>2. DurableSeq(manifest, segs) <= DurableSeq(manifest, OpenSegs)
    BY <1>1, <2>1, TypeOKManifest, DurableSeqMonotonic
  <2>3. DurableSeq(manifest, segs) \in Nat /\ DurableSeq(manifest, OpenSegs) \in Nat
    BY <1>1, TypeOKManifest, DurableSeqFacts
  <2>4. \A d \in Docs : ackedSeq[d] \in Nat
    BY <1>1 DEF TypeOK
  <2> QED BY <1>2, <2>2, <2>3, <2>4 DEF IInv, Witnessed, IsTail
<1>10. LogOrdered' /\ Staged' /\ TrimCovered'
  BY <1>1, <1>2 DEF LogOrdered, Staged, TrimCovered
<1> QED BY <1>4, <1>5, <1>7, <1>8, <1>9, <1>10 DEF IInv

\* The end of the process leaves the directory as it is.
LEMMA CrashStep ==
    ASSUME IInv, TypeOK', Crash
    PROVE  IInv'
<1>1. /\ ~up' /\ pc' = "idle" /\ memManifest' = {}
      /\ UNCHANGED <<logs, segs, manifest, committed, ackedSeq, indoubt>>
  BY DEF Crash, disk
<1> QED BY <1>1 DEF IInv, ManifestBacked, LogOrdered, SequencesFresh, LastsBelow, LogBelow,
                    Staged, TrimCovered, Witnessed, IsTail

-----------------------------------------------------------------------------
\* Every step preserves the inductive invariant.
LEMMA NextIInv == IInv /\ [Next]_vars => IInv'
<1> SUFFICES ASSUME IInv, [Next]_vars PROVE IInv'
  OBVIOUS
<1>0. TypeOK /\ TypeOK'
  BY NextTypeOK DEF IInv
<1> USE DEF disk, memory, history, budget, wal, store
<1>1. CASE Recover
  BY <1>0, <1>1, RecoverStep
<1>2. ASSUME NEW d \in Docs, NEW v \in Contents, Write(d, v) PROVE IInv'
  BY <1>0, <1>2, AppendStep DEF Write
<1>3. ASSUME NEW d \in Docs, NEW v \in Contents, WriteFault(d, v) PROVE IInv'
  BY <1>0, <1>3, AppendStep DEF WriteFault
<1>4. CASE Refresh \/ Merge \/ MergeFault \/ FlushRollover \/ FlushTrimmed \/ FlushFault
  BY <1>0, <1>4, QuietStep DEF Refresh, Merge, MergeFault, FlushRollover, FlushTrimmed, FlushFault
<1>5. CASE FlushSegment
  BY <1>0, <1>5, PutSegmentStep DEF FlushSegment, TypeOK
<1>6. CASE FlushManifest \/ FlushManifestFault
  BY <1>0, <1>6, PublishStep DEF FlushManifest, FlushManifestFault, PublishFlushed, TypeOK
<1>7. CASE TrimGeneration
  BY <1>0, <1>7, TrimStep
<1>8. CASE MergeSegment
  BY <1>0, <1>8, PlanType, PutSegmentStep DEF MergeSegment, TypeOK
<1>9. CASE MergePublish \/ MergePublishFault
  BY <1>0, <1>9, PlanType, PublishStep DEF MergePublish, MergePublishFault, PublishMerged
<1>10. CASE Crash
  BY <1>0, <1>10, CrashStep
<1>11. CASE UNCHANGED vars
  BY <1>0, <1>11, QuietStep DEF vars
<1> QED
  BY <1>1, <1>2, <1>3, <1>4, <1>5, <1>6, <1>7, <1>8, <1>9, <1>10, <1>11
     DEF Next, Client, FlushStep, Failure

\* The inductive invariant holds always: what the WAL, the two manifests, the
\* segment files and the handle's sequence number owe each other at every step.
THEOREM Invariance == Spec => []IInv
BY InitIInv, NextIInv, PTL DEF Spec

\* The records after the manifest's sequence number are all in the WAL, and replay
\* ends with the last acknowledged operation of every document among them.
THEOREM TailRecovered == Spec => []TailWins
<1>1. IInv => TailWins
  BY IInvTailWins
<1> QED BY <1>1, Invariance, PTL

\* The sequence numbers in the WAL never go back.
THEOREM WalOrdered == Spec => []LogOrdered
<1>1. IInv => LogOrdered
  BY DEF IInv
<1> QED BY <1>1, Invariance, PTL

\* An open index numbers its next operation above every acknowledged one.
THEOREM NumbersFresh == Spec => []SequencesFresh
<1>1. IInv => SequencesFresh
  BY DEF IInv
<1> QED BY <1>1, Invariance, PTL

\* Neither manifest ever names a missing segment file or one that is too old.
THEOREM SegmentsBacked == Spec => []ManifestBacked
<1>1. IInv => ManifestBacked
  BY DEF IInv
<1> QED BY <1>1, Invariance, PTL

-----------------------------------------------------------------------------
\* What reading segments returns.

\* Only the files that the manifest names matter.
LEMMA LoadSame ==
    ASSUME NEW M, ManifestType(M), NEW f, NEW g,
           \A m \in M : m.num \in DOMAIN f /\ m.num \in DOMAIN g /\ f[m.num] = g[m.num]
    PROVE  /\ \A d \in Docs : Holders(M, f, d, Absent) = Holders(M, g, d, Absent)
           /\ LoadSegments(M, f, Docs, Absent) = LoadSegments(M, g, Docs, Absent)
           /\ DurableSeq(M, f) = DurableSeq(M, g)
<1>1. Readable(M, f) = Readable(M, g)
  BY DEF Readable
<1>2. \A d \in Docs : Holders(M, f, d, Absent) = Holders(M, g, d, Absent)
  BY <1>1 DEF Holders, Readable
<1>3. ASSUME NEW d \in Docs, Holders(M, f, d, Absent) # {}
      PROVE  f[LastMeta(Holders(M, f, d, Absent)).num] = g[LastMeta(Holders(M, f, d, Absent)).num]
  <2>1. Holders(M, f, d, Absent) \subseteq M
    BY DEF Holders, Readable
  <2>2. ManifestType(Holders(M, f, d, Absent))
    BY <1>3, <2>1, FS_Subset DEF ManifestType
  <2> QED BY <1>3, <2>1, <2>2, LastMetaExists
<1> QED BY <1>1, <1>2, <1>3 DEF LoadSegments, DurableSeq

\* The document of the last segment stays.
LEMMA LoadTop ==
    ASSUME NEW M, ManifestType(M), NEW f, NEW d \in Docs, NEW m \in Holders(M, f, d, Absent),
           \A k \in M : k.num <= m.num
    PROVE  LoadSegments(M, f, Docs, Absent)[d] = f[m.num].docs[d]
<1> DEFINE H == Holders(M, f, d, Absent)
<1>1. H \subseteq M /\ m \in H
  BY DEF Holders, Readable
<1>2. ManifestType(H)
  BY <1>1, FS_Subset DEF ManifestType
<1>3. LastMeta(H) \in H /\ m.num <= LastMeta(H).num
  BY <1>1, <1>2, LastMetaExists
<1>4. LastMeta(H).num = m.num
  BY <1>1, <1>3 DEF ManifestType
<1> QED BY <1>1, <1>4 DEF LoadSegments

\* A document is read exactly when some segment holds it.
LEMMA LoadHeld ==
    ASSUME NEW M, ManifestType(M), NEW f, NEW d \in Docs
    PROVE  Holders(M, f, d, Absent) = {} <=> LoadSegments(M, f, Docs, Absent)[d] = Absent
<1> DEFINE H == Holders(M, f, d, Absent)
<1>1. CASE H = {}
  BY <1>1 DEF LoadSegments
<1>2. CASE H # {}
  <2>1. H \subseteq M /\ \A m \in H : f[m.num].docs[d] # Absent
    BY DEF Holders, Readable
  <2>2. ManifestType(H)
    BY <2>1, FS_Subset DEF ManifestType
  <2>3. LastMeta(H) \in H
    BY <1>2, <2>2, LastMetaExists
  <2> QED BY <1>2, <2>1, <2>3 DEF LoadSegments
<1> QED BY <1>1, <1>2

\* The segment that is pushed last is the last one.
LEMMA PushedIsLast ==
    ASSUME NEW M, ManifestType(M), NEW K \in SUBSET M, NEW m, m.num = NextNum(M), m.last \in Nat
    PROVE  /\ ManifestType(K \cup {m})
           /\ \A k \in K \cup {m} : k.num <= m.num
           /\ LastMeta(K \cup {m}).num = m.num
<1>1. /\ NextNum(M) \in Nat
      /\ \A k \in K : k.num < NextNum(M) /\ k.num \in Nat
  BY NextNumFacts DEF ManifestType
<1>2. ManifestType(K \cup {m})
  <2>1. IsFiniteSet(K)
    BY FS_Subset DEF ManifestType
  <2> QED BY <1>1, <2>1, FS_AddElement DEF ManifestType
<1>3. \A k \in K \cup {m} : k.num <= m.num /\ k.num \in Nat
  BY <1>1
<1>4. LastMeta(K \cup {m}) \in K \cup {m} /\ m.num <= LastMeta(K \cup {m}).num
  BY <1>2, LastMetaExists
<1> QED BY <1>2, <1>3, <1>4

-----------------------------------------------------------------------------
(***************************************************************************)
(* The strengthening.  First what is known of documents that have been     *)
(* deleted, then what is known of those that are there.                    *)
(***************************************************************************)

\* What the next open_index reads before it replays the WAL.
Loaded == LoadSegments(OpenManifest, OpenSegs, Docs, Absent)

Certain == Docs \ indoubt

\* No record of a document is younger than its last acknowledged operation.
AckedLast ==
    \A d \in Certain, p \in Position(logs) :
        EntryAt(logs, p).doc = d => EntryAt(logs, p).seq <= ackedSeq[d]

\* A pending operation is the last acknowledged one.
PendingKnown == \A d \in Docs : pending[d] # NoOp => pending[d] = committed[d]

\* A current.json that would be migrated is not ahead of the open index.
MigratesBelow == up /\ Migrating => currentJson.last <= lastSeq

\* While a flush is under way, the segment it has written last holds what it took
\* from memory, and once published it is the last of the manifest.
FlushHolds ==
    /\ pc = "written" => segs[NextNum(memManifest)].docs = searchable
    /\ pc = "merged" => segs[NextNum(memManifest)].docs = MergedDocs
    /\ pc \in {"trim", "merge", "merged"} =>
           /\ hasManifest /\ manifest = memManifest /\ memManifest # {}
           /\ segs[LastMeta(memManifest).num].docs = searchable

\* As long as there is no manifest, a deleted document is gone from current.json ...
LoadedGone ==
    ~hasManifest =>
        \A d \in Certain :
            committed[d] = Absent /\ ackedSeq[d] <= OpenDurableSeq => Loaded[d] = Absent

\* ... and from memory,
SearchableGone ==
    up /\ ~hasManifest =>
        \A d \in Certain :
            committed[d] = Absent /\ pending[d] = NoOp => searchable[d] = Absent

\* and afterwards it is in memory only if a segment of the manifest holds it.
ShownIsHeld ==
    up /\ hasManifest =>
        \A d \in Certain :
            committed[d] = Absent /\ pending[d] = NoOp /\ searchable[d] # Absent =>
                Holders(manifest, segs, d, Absent) # {}

DeletedInv ==
    /\ IInv
    /\ AckedLast /\ PendingKnown /\ MigratesBelow /\ FlushHolds
    /\ LoadedGone /\ SearchableGone /\ ShownIsHeld

\* A document that has never been acknowledged is not there.
NeverWritten == \A d \in Docs : ackedSeq[d] = 0 => committed[d] = Absent

\* Nothing is covered by mistake while the index is closed: Crash makes it damage.
DownIsClean == ~up => swallowed = {}

\* The manifest on disk is ahead of the handle's by one segment at most.
NumbersAgree == up => \A m \in manifest : m.num <= NextNum(memManifest)

\* What is in memory is the last acknowledged content ...
SearchableExact ==
    up => \A d \in Docs \ (indoubt \cup damaged) :
              committed[d] # Absent /\ pending[d] = NoOp => searchable[d] = committed[d]

\* ... and so is what the manifest claims to cover.
LoadedExact ==
    \A d \in Docs \ (indoubt \cup swallowed \cup damaged) :
        committed[d] # Absent /\ ackedSeq[d] <= OpenDurableSeq => Loaded[d] = committed[d]

StoreInv ==
    /\ DeletedInv
    /\ NeverWritten /\ DownIsClean /\ NumbersAgree /\ SearchableExact /\ LoadedExact

\* What a flush and a merge rely on, whatever the sequence numbers are: the segments
\* that the manifests name, and the one about to be published, are on disk.
Ready ==
    /\ TypeOK /\ FlushHolds
    /\ \A m \in manifest \cup memManifest : m.num \in DOMAIN segs
    /\ pc \in {"written", "merged"} => NextNum(memManifest) \in DOMAIN segs

\* It is a part of what is known of deleted documents.
LEMMA DeletedInvReady == DeletedInv => Ready
BY DEF DeletedInv, IInv, ManifestBacked, Staged, Ready

-----------------------------------------------------------------------------
\* What the invariants say of a restart and of a read.

\* What the next open_index would read is well-typed, and there.
LEMMA OpenFacts ==
    ASSUME IInv
    PROVE  /\ TypeOK /\ ManifestBacked
           /\ ManifestType(OpenManifest) /\ Loaded \in DocMaps /\ OpenDurableSeq \in Nat
           /\ \A m \in OpenManifest : m.num \in DOMAIN OpenSegs
           /\ hasManifest => OpenManifest = manifest /\ OpenSegs = segs
           /\ ~Migrating => OpenManifest = manifest /\ OpenSegs = segs
           /\ ~hasManifest => manifest = {}
<1>1. TypeOK /\ ManifestBacked
  BY DEF IInv
<1>2. ~Migrating => OpenManifest = manifest /\ OpenSegs = segs
  BY DEF OpenManifest, OpenSegs
<1>3. hasManifest => ~Migrating
  BY DEF Migrating
<1>4. \A m \in OpenManifest : m.num \in DOMAIN OpenSegs
  <2>1. CASE Migrating
    BY <2>1 DEF OpenManifest, OpenSegs, MetaOf
  <2>2. CASE ~Migrating
    BY <1>1, <1>2, <2>2 DEF ManifestBacked
  <2> QED BY <2>1, <2>2
<1>5. ManifestType(OpenManifest) /\ Loaded \in DocMaps /\ OpenDurableSeq \in Nat
  BY <1>1, OpenType, LoadSegmentsType DEF Loaded
<1> QED BY <1>1, <1>2, <1>3, <1>4, <1>5 DEF TypeOK

\* When the manifest covers the last operation on a document, replay leaves the
\* document alone.
LEMMA CoveredIsLoaded ==
    ASSUME IInv, AckedLast, NEW d \in Certain, ackedSeq[d] <= OpenDurableSeq
    PROVE  Recovered[d] = Loaded[d]
<1> DEFINE hits == {p \in ReplayFrom(logs, OpenDurableSeq) : EntryAt(logs, p).doc = d}
<1>1. TypeOK /\ OpenDurableSeq \in Nat /\ Loaded \in DocMaps
  BY OpenFacts
<1>2. hits = {}
  <2> SUFFICES ASSUME NEW p \in hits PROVE FALSE
    OBVIOUS
  <2>1. /\ p \in Position(logs) /\ EntryAt(logs, p).doc = d
        /\ EntryAt(logs, p).seq > OpenDurableSeq
    BY DEF ReplayFrom
  <2>2. EntryAt(logs, p).seq \in Nat
    BY <1>1, <2>1, ReplayFromType DEF Record
  <2>3. ackedSeq[d] \in Nat
    BY <1>1 DEF TypeOK, Certain
  <2> QED BY <1>1, <2>1, <2>2, <2>3 DEF AckedLast
<1> QED BY <1>1, <1>2 DEF Recovered, Loaded, ApplyReplay, DocMaps, Certain

\* A restart brings back what the last operation left, or what is in the segments.
LEMMA RecoveredFrom ==
    ASSUME IInv, AckedLast, NEW d \in Certain
    PROVE  \/ Recovered[d] = committed[d]
           \/ ackedSeq[d] <= OpenDurableSeq /\ Recovered[d] = Loaded[d]
<1>1. TypeOK /\ OpenDurableSeq \in Nat
  BY OpenFacts
<1>2. ackedSeq[d] \in Nat
  BY <1>1 DEF TypeOK, Certain
<1>3. CASE ackedSeq[d] <= OpenDurableSeq
  BY <1>3, CoveredIsLoaded
<1>4. CASE ackedSeq[d] > OpenDurableSeq
  BY <1>4, IInvTailWins DEF TailWins, Certain
<1> QED BY <1>1, <1>2, <1>3, <1>4

\* A deleted document that no segment holds is neither recovered nor served.
LEMMA DeletedInvNoPhantom == DeletedInv => NoPhantom
<1> SUFFICES ASSUME DeletedInv, NEW d \in Certain, committed[d] = Absent,
                    Holders(OpenManifest \cup memManifest, OpenSegs, d, Absent) = {}
             PROVE  Recovered[d] = Absent /\ (up => View[d] = Absent)
  BY DEF NoPhantom, Certain
<1>1. IInv /\ d \in Docs
  BY DEF DeletedInv, Certain
<1>2. Holders(OpenManifest, OpenSegs, d, Absent) = {}
  BY DEF Holders, Readable
<1>3. Recovered[d] = Absent
  BY <1>1, <1>2, OpenFacts, LoadHeld, RecoveredFrom DEF DeletedInv, Loaded
<1>4. up /\ pending[d] = NoOp => searchable[d] = Absent
  BY <1>1, <1>2, OpenFacts DEF DeletedInv, SearchableGone, ShownIsHeld
<1>5. pending[d] # NoOp => pending[d] = Absent
  BY <1>1 DEF DeletedInv, PendingKnown
<1> QED BY <1>1, <1>3, <1>4, <1>5 DEF View, Overlay

\* A document that is there is recovered ...
LEMMA StoreInvRecoveryExact == StoreInv => RecoveryExact
<1> SUFFICES ASSUME StoreInv, NEW d \in Docs \ (indoubt \cup swallowed \cup damaged),
                    committed[d] # Absent
             PROVE  Recovered[d] = committed[d]
  BY DEF RecoveryExact
<1> QED BY RecoveredFrom DEF StoreInv, DeletedInv, LoadedExact, Certain

\* ... and served.
LEMMA StoreInvReadYourWrites == StoreInv => ReadYourWrites
BY DEF StoreInv, DeletedInv, PendingKnown, SearchableExact, ReadYourWrites, View, Overlay

-----------------------------------------------------------------------------
\* The steps, and what they leave of deleted documents.

\* What the next open_index reads depends on four variables only.
LEMMA SameDirectory ==
    ASSUME UNCHANGED store
    PROVE  /\ Loaded' = Loaded /\ OpenDurableSeq' = OpenDurableSeq
           /\ OpenManifest' = OpenManifest /\ OpenSegs' = OpenSegs
           /\ Migrating' = Migrating
BY DEF store, Loaded, OpenDurableSeq, OpenManifest, OpenSegs, Migrating

\* The invariant holds in a new, an old and a legacy directory.
LEMMA InitDeletedInv == Init => DeletedInv
<1> SUFFICES ASSUME Init PROVE DeletedInv
  OBVIOUS
<1>1. IInv /\ TypeOK
  BY InitIInv DEF IInv
<1>2. Position(logs) = {} /\ manifest = {} /\ ~up /\ pc = "idle" /\ pending = NoPending
  BY DEF Init, Position
<1>3. LoadedGone
  <2> SUFFICES ASSUME NEW d \in Docs, committed[d] = Absent PROVE Loaded[d] = Absent
    BY DEF LoadedGone, Certain
  <2>1. CASE Migrating
    <3>1. currentJson.docs[d] = Absent
      BY <2>1 DEF Init, Migrating
    <3>2. \A m \in OpenManifest : m.num = 1 /\ OpenSegs[1] = currentJson
      BY <2>1 DEF OpenManifest, OpenSegs, MetaOf
    <3>3. Holders(OpenManifest, OpenSegs, d, Absent) = {}
      BY <3>1, <3>2 DEF Holders, Readable
    <3> QED BY <1>1, <3>3, OpenFacts, LoadHeld DEF Loaded
  <2>2. CASE ~Migrating
    <3>1. Holders(OpenManifest, OpenSegs, d, Absent) = {}
      BY <1>2, <2>2 DEF OpenManifest, Holders, Readable
    <3> QED BY <1>1, <3>1, OpenFacts, LoadHeld DEF Loaded
  <2> QED BY <2>1, <2>2
<1> QED BY <1>1, <1>2, <1>3
        DEF DeletedInv, AckedLast, PendingKnown, NoPending, MigratesBelow, FlushHolds,
            SearchableGone, ShownIsHeld

\* Steps that change nothing but how far a flush has come, and which records are left.
LEMMA QuietDeleted ==
    ASSUME DeletedInv, IInv', UNCHANGED store,
           UNCHANGED <<up, searchable, pending, lastSeq, memManifest, committed, ackedSeq, indoubt>>,
           AckedLast', pc' \in {"idle", "rolled"} \/ pc' = pc \/ (pc = "trim" /\ pc' = "merge")
    PROVE  DeletedInv'
<1> USE DEF store
<1>1. PendingKnown' /\ MigratesBelow' /\ LoadedGone' /\ SearchableGone' /\ ShownIsHeld'
  BY SameDirectory DEF DeletedInv, PendingKnown, MigratesBelow, LoadedGone, SearchableGone,
                       ShownIsHeld, Certain
<1>2. FlushHolds'
  BY DEF DeletedInv, FlushHolds, MergedDocs, Overlay, Plan
<1> QED BY <1>1, <1>2 DEF DeletedInv

\* A trim takes records away.
LEMMA TrimDeleted ==
    ASSUME DeletedInv, IInv', TrimGeneration
    PROVE  DeletedInv'
<1>1. /\ UNCHANGED store
      /\ UNCHANGED <<up, pc, searchable, pending, lastSeq, memManifest, committed, ackedSeq, indoubt>>
  BY DEF TrimGeneration, memory, history
<1>2. PICK g : logs' = RemoveGeneration(logs, g)
  BY DEF TrimGeneration
<1>3. TypeOK
  BY DEF DeletedInv, IInv
<1>4. /\ \A p : p \in Position(logs') <=> p \in Position(logs) /\ p[1] # g
      /\ \A p \in Position(logs') : EntryAt(logs', p) = EntryAt(logs, p)
  BY <1>2, <1>3, TypeOKLog, RemoveGenerationFacts
<1>5. AckedLast'
  BY <1>1, <1>4 DEF DeletedInv, AckedLast, Certain
<1> QED BY <1>1, <1>5, QuietDeleted

\* What the directory covers is not ahead of the open index.
LEMMA OpenBelow ==
    ASSUME DeletedInv, up
    PROVE  OpenDurableSeq \in Nat /\ lastSeq \in Nat /\ OpenDurableSeq <= lastSeq
<1>1. IInv /\ TypeOK /\ lastSeq \in Nat
  BY DEF DeletedInv, IInv, TypeOK
<1>2. ManifestType(OpenManifest) /\ OpenDurableSeq \in Nat
  BY <1>1, OpenFacts
<1>3. \A m \in OpenManifest : m.last <= lastSeq
  <2>1. CASE Migrating
    BY <1>1, <2>1 DEF OpenManifest, MetaOf, DeletedInv, MigratesBelow
  <2>2. CASE ~Migrating
    BY <1>1, <2>2 DEF OpenManifest, IInv, LastsBelow
  <2> QED BY <2>1, <2>2
<1>4. \/ OpenDurableSeq = 0
      \/ \E m \in OpenManifest : m.last = OpenDurableSeq
  BY <1>2, DurableSeqFacts DEF OpenDurableSeq, Readable
<1> QED BY <1>1, <1>2, <1>3, <1>4

\* An operation is younger than everything, and pending; one in doubt is excepted.
LEMMA AppendDeleted ==
    ASSUME DeletedInv, IInv', Idle, NEW d \in Docs, NEW v \in Contents,
           logs' = AppendTo(logs, current, [seq |-> lastSeq + 1, doc |-> d, val |-> v]),
           UNCHANGED store, UNCHANGED <<up, pc, searchable, memManifest>>,
           \/ /\ lastSeq' = lastSeq + 1
              /\ pending' = [pending EXCEPT ![d] = v]
              /\ committed' = [committed EXCEPT ![d] = v]
              /\ ackedSeq' = [ackedSeq EXCEPT ![d] = lastSeq + 1]
              /\ indoubt' = indoubt \ {d}
           \/ /\ UNCHANGED <<lastSeq, pending, committed, ackedSeq>>
              /\ indoubt' = indoubt \cup {d}
    PROVE  DeletedInv'
<1> DEFINE e == [seq |-> lastSeq + 1, doc |-> d, val |-> v]
<1>1. TypeOK /\ up /\ pc = "idle" /\ lastSeq \in Nat /\ lastSeq' \in Nat /\ lastSeq <= lastSeq'
  BY DEF DeletedInv, IInv, TypeOK, Idle
<1>2. /\ \A c \in Certain' \ {d} : /\ c \in Certain /\ ackedSeq'[c] = ackedSeq[c]
                                   /\ committed'[c] = committed[c] /\ pending'[c] = pending[c]
      /\ d \in Certain' => /\ ackedSeq'[d] = lastSeq + 1 /\ lastSeq' = lastSeq + 1
                           /\ committed'[d] = v /\ pending'[d] = v
      /\ v # NoOp
  BY <1>1, NoOpAssumption DEF TypeOK, Certain, DocMaps
<1>3. AckedLast'
  <2>1. e \in Record
    BY <1>1 DEF Record
  <2>2. PICK q \in Position(logs') :
            /\ Position(logs') = Position(logs) \cup {q}
            /\ EntryAt(logs', q) = e
            /\ \A p \in Position(logs) : Before(p, q) /\ EntryAt(logs', p) = EntryAt(logs, p)
    BY <1>1, <2>1, TypeOKLog, AppendToFacts
  <2>3. \A p \in Position(logs) : EntryAt(logs, p).seq \in Nat /\ EntryAt(logs, p).seq <= lastSeq + 1
    BY <1>1, ReplayFromType DEF DeletedInv, IInv, LogBelow, Record
  <2> SUFFICES ASSUME NEW c \in Certain', NEW p \in Position(logs'), EntryAt(logs', p).doc = c
               PROVE  EntryAt(logs', p).seq <= ackedSeq'[c]
    BY DEF AckedLast
  <2>4. CASE c = d
    BY <1>1, <1>2, <2>2, <2>3, <2>4
  <2>5. CASE c # d
    BY <1>2, <2>2, <2>5 DEF DeletedInv, AckedLast
  <2> QED BY <2>4, <2>5
<1>4. PendingKnown'
  BY <1>1 DEF DeletedInv, PendingKnown, TypeOK, DocMaps
<1>5. MigratesBelow'
  <2>1. Migrating => currentJson.last \in Nat
    BY <1>1 DEF TypeOK, Migrating, Snapshot
  <2>2. currentJson' = currentJson /\ (Migrating' => Migrating)
    BY DEF store, Migrating
  <2> QED BY <1>1, <2>1, <2>2 DEF DeletedInv, MigratesBelow
<1>6. FlushHolds'
  BY <1>1 DEF FlushHolds
<1>7. LoadedGone'
  <2>1. d \in Certain' => ~ (ackedSeq'[d] <= OpenDurableSeq)
    BY <1>1, <1>2, OpenBelow
  <2> QED BY <1>2, <2>1, SameDirectory DEF DeletedInv, LoadedGone, store
<1>8. SearchableGone' /\ ShownIsHeld'
  BY <1>2 DEF DeletedInv, SearchableGone, ShownIsHeld, store
<1> QED BY <1>3, <1>4, <1>5, <1>6, <1>7, <1>8 DEF DeletedInv

\* What clients are served of a deleted document comes from a segment.
LEMMA ViewGone ==
    ASSUME DeletedInv, up, NEW d \in Certain, committed[d] = Absent
    PROVE  /\ ~hasManifest => View[d] = Absent
           /\ hasManifest /\ View[d] # Absent => Holders(manifest, segs, d, Absent) # {}
<1>1. d \in Docs /\ (pending[d] # NoOp => pending[d] = Absent)
  BY DEF DeletedInv, PendingKnown, Certain
<1> QED BY <1>1 DEF DeletedInv, SearchableGone, ShownIsHeld, View, Overlay

\* A current.json that is migrated is all that is read.
LEMMA MigratedLoad ==
    ASSUME NEW j \in Snapshot, NEW f
    PROVE  LET M == {MetaOf(1, j, Absent)}
               g == [n \in DOMAIN f \cup {1} |-> IF n = 1 THEN j ELSE f[n]]
           IN  LoadSegments(M, g, Docs, Absent) = j.docs /\ DurableSeq(M, g) = j.last
<1> DEFINE m == MetaOf(1, j, Absent)
           M == {m}
           g == [n \in DOMAIN f \cup {1} |-> IF n = 1 THEN j ELSE f[n]]
<1>1. m.num = 1 /\ m.last = j.last /\ g[1] = j /\ 1 \in DOMAIN g
  BY DEF MetaOf
<1>2. j.last \in Nat /\ j.docs \in DocMaps
  BY DEF Snapshot
<1> HIDE DEF m, g
<1>3. ManifestType(M)
  <2>1. IsFiniteSet(M)
    BY FS_Singleton
  <2> QED BY <1>1, <1>2, <2>1 DEF ManifestType
<1>4. Readable(M, g) = {m}
  BY <1>1 DEF Readable
<1>5. ASSUME NEW d \in Docs PROVE LoadSegments(M, g, Docs, Absent)[d] = j.docs[d]
  <2>1. CASE j.docs[d] = Absent
    <3>1. Holders(M, g, d, Absent) = {}
      BY <1>1, <1>4, <2>1 DEF Holders
    <3> QED BY <1>3, <2>1, <3>1, LoadHeld
  <2>2. CASE j.docs[d] # Absent
    <3>1. m \in Holders(M, g, d, Absent)
      BY <1>1, <1>4, <2>2 DEF Holders
    <3> QED BY <1>1, <1>3, <3>1, LoadTop
  <2> QED BY <2>1, <2>2
<1>6. LoadSegments(M, g, Docs, Absent) = [d \in Docs |-> LoadSegments(M, g, Docs, Absent)[d]]
  BY DEF LoadSegments
<1>7. LoadSegments(M, g, Docs, Absent) = j.docs
  BY <1>2, <1>5, <1>6 DEF DocMaps
<1>8. DurableSeq(M, g) = j.last
  <2>1. DurableSeq(M, g) \in Nat /\ m.last <= DurableSeq(M, g)
    BY <1>3, <1>4, DurableSeqFacts
  <2>2. DurableSeq(M, g) = 0 \/ DurableSeq(M, g) = m.last
    BY <1>3, <1>4, DurableSeqFacts
  <2> QED BY <1>1, <1>2, <2>1, <2>2
<1> QED BY <1>7, <1>8 DEF m, g

\* A refresh shows what clients are served already.
LEMMA RefreshDeleted ==
    ASSUME DeletedInv, IInv', Refresh
    PROVE  DeletedInv'
<1>1. /\ up /\ pc = "idle" /\ searchable' = View /\ pending' = NoPending
      /\ UNCHANGED store /\ UNCHANGED <<logs, up, pc, lastSeq, memManifest, committed, ackedSeq, indoubt>>
  BY DEF Refresh, Idle, disk, history, store
<1>2. \A d \in Certain : committed[d] = Absent =>
          /\ ~hasManifest => searchable'[d] = Absent
          /\ hasManifest /\ searchable'[d] # Absent => Holders(manifest, segs, d, Absent) # {}
  BY <1>1, ViewGone
<1>3. SearchableGone' /\ ShownIsHeld'
  BY <1>1, <1>2 DEF SearchableGone, ShownIsHeld, Certain, store
<1>4. AckedLast' /\ PendingKnown' /\ MigratesBelow' /\ LoadedGone' /\ FlushHolds'
  BY <1>1, SameDirectory
     DEF DeletedInv, AckedLast, PendingKnown, NoPending, MigratesBelow, LoadedGone, FlushHolds,
         Certain, store
<1> QED BY <1>3, <1>4 DEF DeletedInv

\* merge() shows it too, and leaves it in current.json.
LEMMA MergeDeleted ==
    ASSUME DeletedInv, IInv', Merge \/ MergeFault
    PROVE  DeletedInv'
<1>1. /\ up /\ pc = "idle" /\ searchable' \in {View, searchable}
      /\ currentJson' = [last |-> lastSeq, docs |-> View]
      /\ UNCHANGED <<logs, segs, hasManifest, manifest, up, pc, pending, lastSeq, memManifest,
                     committed, ackedSeq, indoubt>>
  BY DEF Merge, MergeFault, Idle, wal, memory, history
<1>2. TypeOK /\ View \in DocMaps /\ lastSeq \in Nat
  BY OverlayType DEF DeletedInv, IInv, TypeOK, View
<1>3. currentJson' \in Snapshot
  BY <1>1, <1>2 DEF Snapshot
<1>4. \A d \in Certain : committed[d] = Absent =>
          /\ ~hasManifest => View[d] = Absent
          /\ hasManifest /\ View[d] # Absent => Holders(manifest, segs, d, Absent) # {}
  BY <1>1, ViewGone
<1>5. SearchableGone' /\ ShownIsHeld'
  BY <1>1, <1>4 DEF DeletedInv, SearchableGone, ShownIsHeld, Certain
<1>6. LoadedGone'
  <2> SUFFICES ASSUME ~hasManifest PROVE \A d \in Certain : committed[d] = Absent => Loaded'[d] = Absent
    BY <1>1 DEF LoadedGone, Certain
  <2>1. Migrating'
    BY <1>1, <1>3, NoFileAssumption DEF Migrating
  <2>2. Loaded' = currentJson'.docs
    BY <1>3, <2>1, MigratedLoad DEF Loaded, OpenManifest, OpenSegs
  <2> QED BY <1>1, <1>4, <2>2
<1>7. AckedLast' /\ PendingKnown' /\ MigratesBelow' /\ FlushHolds'
  BY <1>1, <1>2 DEF DeletedInv, AckedLast, PendingKnown, MigratesBelow, FlushHolds, Certain
<1> QED BY <1>5, <1>6, <1>7 DEF DeletedInv

\* The end of the process forgets what is in memory.
LEMMA CrashDeleted ==
    ASSUME DeletedInv, IInv', Crash
    PROVE  DeletedInv'
<1>1. /\ ~up' /\ pc' = "idle" /\ pending' = NoPending
      /\ UNCHANGED store /\ UNCHANGED <<logs, committed, ackedSeq, indoubt>>
  BY DEF Crash, disk, store
<1>2. AckedLast' /\ LoadedGone'
  BY <1>1, SameDirectory DEF DeletedInv, AckedLast, LoadedGone, Certain, store
<1>3. PendingKnown' /\ MigratesBelow' /\ FlushHolds' /\ SearchableGone' /\ ShownIsHeld'
  BY <1>1 DEF PendingKnown, NoPending, MigratesBelow, FlushHolds, SearchableGone, ShownIsHeld
<1> QED BY <1>2, <1>3 DEF DeletedInv

\* A segment file that the manifest does not name changes nothing for a restart, and
\* no segment file changes what the manifest covers.
LEMMA PutKeeps ==
    ASSUME IInv, NEW n, NEW docs, PutSegment(n, docs),
           UNCHANGED <<hasManifest, manifest, currentJson>>
    PROVE  /\ OpenManifest' = OpenManifest /\ OpenDurableSeq' = OpenDurableSeq
           /\ n \notin Nums(manifest) => Loaded' = Loaded
<1>1. /\ DOMAIN segs' = DOMAIN segs \cup {n}
      /\ \A k \in DOMAIN segs \ {n} : segs'[k] = segs[k]
  BY DEF PutSegment
<1>2. OpenManifest' = OpenManifest
  BY DEF OpenManifest, Migrating
<1>3. \A m \in OpenManifest : m.num \in DOMAIN OpenSegs /\ m.num \in DOMAIN OpenSegs'
  <2>1. \A m \in OpenManifest : m.num \in DOMAIN OpenSegs
    BY OpenFacts
  <2>2. DOMAIN OpenSegs \subseteq DOMAIN OpenSegs'
    BY <1>1 DEF OpenSegs, Migrating
  <2> QED BY <2>1, <2>2
<1>4. OpenDurableSeq' = OpenDurableSeq
  <2>1. Readable(OpenManifest, OpenSegs') = Readable(OpenManifest, OpenSegs)
    BY <1>3 DEF Readable
  <2> QED BY <1>2, <2>1 DEF OpenDurableSeq, DurableSeq
<1>5. ASSUME n \notin Nums(manifest) PROVE Loaded' = Loaded
  <2>1. ASSUME NEW m \in OpenManifest PROVE OpenSegs'[m.num] = OpenSegs[m.num]
    <3>1. CASE Migrating
      BY <3>1 DEF OpenManifest, OpenSegs, Migrating, MetaOf
    <3>2. CASE ~Migrating
      <4>1. m \in manifest /\ m.num # n /\ m.num \in DOMAIN segs
        BY <1>5, <3>2, OpenFacts DEF Nums, ManifestBacked
      <4> QED BY <1>1, <3>2, <4>1 DEF OpenSegs, Migrating
    <3> QED BY <3>1, <3>2
  <2>2. ManifestType(OpenManifest)
    BY OpenFacts
  <2> QED BY <1>2, <1>3, <2>1, <2>2, LoadSame DEF Loaded
<1> QED BY <1>2, <1>4, <1>5

\* Writing a segment under the next number changes no segment of the handle's manifest.
LEMMA PutKeepsPlan ==
    ASSUME Ready, NEW docs, PutSegment(NextNum(memManifest), docs), UNCHANGED <<memManifest, pending>>
    PROVE  /\ \A m \in memManifest : m.num # NextNum(memManifest) /\ segs'[m.num] = segs[m.num]
           /\ MergedDocs' = MergedDocs
<1>1. TypeOK /\ ManifestType(memManifest)
  BY TypeOKManifest DEF Ready
<1>2. \A m \in memManifest : m.num \in DOMAIN segs /\ m.num # NextNum(memManifest)
  BY <1>1, NextNumFacts DEF ManifestType, Ready
<1>3. \A m \in memManifest : m.num \in DOMAIN segs' /\ segs'[m.num] = segs[m.num]
  BY <1>2 DEF PutSegment
<1>4. Plan' = Plan /\ Plan \subseteq memManifest /\ ManifestType(Plan)
  BY <1>1, PlanType DEF Plan
<1>5. LoadSegments(Plan, segs', Docs, Absent) = LoadSegments(Plan, segs, Docs, Absent)
  BY <1>2, <1>3, <1>4, LoadSame
<1> QED BY <1>2, <1>3, <1>4, <1>5 DEF MergedDocs, Overlay

\* A segment file is renamed into place, maybe over one that a manifest names already.
LEMMA PutDeleted ==
    ASSUME DeletedInv, IInv', up, NEW docs \in DocMaps,
           PutSegment(NextNum(memManifest), docs),
           \/ pc = "rolled" /\ pc' = "written" /\ docs = searchable
           \/ pc = "merge" /\ pc' = "merged" /\ docs = MergedDocs,
           UNCHANGED <<logs, hasManifest, manifest, currentJson, up, searchable, pending, lastSeq,
                       memManifest, committed, ackedSeq, indoubt>>
    PROVE  DeletedInv'
<1> DEFINE n == NextNum(memManifest)
<1>1. IInv /\ TypeOK /\ ManifestType(memManifest)
  BY TypeOKManifest DEF DeletedInv, IInv
<1>2. /\ segs'[n].docs = docs
      /\ DOMAIN segs' = DOMAIN segs \cup {n}
      /\ \A k \in DOMAIN segs \ {n} : segs'[k] = segs[k]
  BY DEF PutSegment, Segment
<1>3. /\ \A m \in memManifest : m.num # n /\ segs'[m.num] = segs[m.num]
      /\ MergedDocs' = MergedDocs
  BY PutKeepsPlan, DeletedInvReady
<1>4. FlushHolds'
  <2>1. CASE pc' = "written"
    BY <1>2, <2>1 DEF FlushHolds
  <2>2. CASE pc' = "merged"
    <3>1. /\ hasManifest /\ manifest = memManifest /\ memManifest # {}
          /\ segs[LastMeta(memManifest).num].docs = searchable
      BY <2>2 DEF DeletedInv, FlushHolds
    <3>2. LastMeta(memManifest) \in memManifest
      BY <1>1, <3>1, LastMetaExists
    <3> QED BY <1>2, <1>3, <2>2, <3>1, <3>2 DEF FlushHolds
  <2> QED BY <2>1, <2>2
<1>5. ShownIsHeld'
  <2> SUFFICES ASSUME hasManifest, NEW d \in Certain, committed[d] = Absent, pending[d] = NoOp,
                      searchable[d] # Absent
               PROVE  Holders(manifest, segs', d, Absent) # {}
    BY DEF ShownIsHeld, Certain
  <2>1. PICK m \in manifest : m.num \in DOMAIN segs /\ segs[m.num].docs[d] # Absent
    BY DEF DeletedInv, ShownIsHeld, Holders, Readable
  <2>2. segs'[m.num].docs[d] # Absent
    <3>1. CASE m.num # n
      BY <1>2, <2>1, <3>1
    <3>2. CASE m.num = n
      <4>1. docs = searchable
        BY <1>3, <3>2 DEF DeletedInv, FlushHolds
      <4> QED BY <1>2, <3>2, <4>1
    <3> QED BY <3>1, <3>2
  <2> QED BY <1>2, <2>1, <2>2 DEF Holders, Readable
<1>6. LoadedGone'
  <2> SUFFICES ASSUME ~hasManifest
               PROVE  \A d \in Certain : committed[d] = Absent /\ ackedSeq[d] <= OpenDurableSeq
                                             => Loaded'[d] = Absent
    BY <1>1, PutKeeps DEF LoadedGone, Certain
  <2>1. n \notin Nums(manifest)
    BY <1>1, OpenFacts DEF Nums
  <2> QED BY <1>1, <2>1, PutKeeps DEF DeletedInv, LoadedGone
<1>7. AckedLast' /\ PendingKnown' /\ MigratesBelow' /\ SearchableGone'
  BY DEF DeletedInv, AckedLast, PendingKnown, MigratesBelow, Migrating, SearchableGone, Certain
<1> QED BY <1>4, <1>5, <1>6, <1>7 DEF DeletedInv

\* What a flush or a merge has staged is in the last segment of the manifest it publishes.
LEMMA Published ==
    ASSUME Ready,
           NEW docs, \/ pc = "written" /\ docs = searchable
                     \/ pc = "merged" /\ docs = MergedDocs,
           NEW kept \in SUBSET memManifest,
           NEW M, M = kept \cup {NewMeta(docs)}
    PROVE  /\ ManifestType(M) /\ docs \in DocMaps
           /\ NewMeta(docs).num = NextNum(memManifest)
           /\ LastMeta(M).num = NextNum(memManifest)
           /\ \A m \in M : m.num <= NextNum(memManifest)
           /\ segs[NextNum(memManifest)].docs = docs
           /\ \A d \in Docs : docs[d] # Absent => NewMeta(docs) \in Holders(M, segs, d, Absent)
<1>1. TypeOK /\ ManifestType(memManifest)
  BY TypeOKManifest DEF Ready
<1>2. NewMeta(docs).num = NextNum(memManifest) /\ NewMeta(docs).last = lastSeq /\ lastSeq \in Nat
  BY <1>1 DEF NewMeta, MetaOf, Segment, TypeOK
<1>3. /\ segs[NextNum(memManifest)].docs = docs /\ NextNum(memManifest) \in DOMAIN segs
  BY DEF Ready, FlushHolds
<1>4. docs \in DocMaps
  BY <1>1, PlanType DEF TypeOK
<1>5. /\ ManifestType(M) /\ LastMeta(M).num = NextNum(memManifest)
      /\ \A m \in M : m.num <= NextNum(memManifest)
  <2>1. NewMeta(docs).last \in Nat
    BY <1>2
  <2>2. /\ ManifestType(kept \cup {NewMeta(docs)})
        /\ \A k \in kept \cup {NewMeta(docs)} : k.num <= NewMeta(docs).num
        /\ LastMeta(kept \cup {NewMeta(docs)}).num = NewMeta(docs).num
    BY <1>1, <1>2, <2>1, PushedIsLast
  <2> QED BY <1>2, <2>2
<1>6. \A d \in Docs : docs[d] # Absent => NewMeta(docs) \in Holders(M, segs, d, Absent)
  BY <1>2, <1>3 DEF Holders, Readable
<1> QED BY <1>2, <1>3, <1>4, <1>5, <1>6

\* The manifest that a flush publishes holds all that is searchable.
LEMMA FlushManifestDeleted ==
    ASSUME DeletedInv, IInv', FlushManifest \/ FlushManifestFault
    PROVE  DeletedInv'
<1>1. /\ pc = "written" /\ hasManifest' = TRUE
      /\ manifest' = memManifest \cup {NewMeta(searchable)}
      /\ \/ memManifest' = manifest' /\ pc' = "trim"
         \/ memManifest' = memManifest /\ pc' = "idle"
      /\ UNCHANGED <<logs, segs, currentJson, up, searchable, pending, lastSeq, committed, ackedSeq, indoubt>>
  BY DEF FlushManifest, FlushManifestFault, PublishFlushed, wal
<1>2. /\ LastMeta(manifest').num = NextNum(memManifest)
      /\ segs[NextNum(memManifest)].docs = searchable
      /\ \A d \in Docs : searchable[d] # Absent => Holders(manifest', segs, d, Absent) # {}
  BY <1>1, Published, DeletedInvReady
<1>3. FlushHolds'
  BY <1>1, <1>2 DEF FlushHolds
<1>4. ShownIsHeld'
  BY <1>1, <1>2 DEF ShownIsHeld, Certain
<1>5. AckedLast' /\ PendingKnown' /\ MigratesBelow' /\ LoadedGone' /\ SearchableGone'
  BY <1>1 DEF DeletedInv, AckedLast, PendingKnown, MigratesBelow, Migrating, LoadedGone,
              SearchableGone, Certain
<1> QED BY <1>3, <1>4, <1>5 DEF DeletedInv

\* The manifest that a merge publishes holds what the merge shows, and the last
\* segment, or all of it that was searchable, also when the handle does not learn of it.
LEMMA MergePublishDeleted ==
    ASSUME DeletedInv, IInv', MergePublish \/ MergePublishFault
    PROVE  DeletedInv'
<1>1. /\ pc = "merged" /\ hasManifest' = TRUE /\ pc' = "idle"
      /\ manifest' = (memManifest \ Plan) \cup {NewMeta(MergedDocs)}
      /\ searchable' \in {searchable, MergedDocs}
      /\ UNCHANGED <<logs, segs, currentJson, up, pending, lastSeq, committed, ackedSeq, indoubt>>
  BY DEF MergePublish, MergePublishFault, PublishMerged, wal
<1>2. \A d \in Docs : MergedDocs[d] # Absent => Holders(manifest', segs, d, Absent) # {}
  BY <1>1, Published, DeletedInvReady
<1>3. /\ IInv /\ TypeOK /\ memManifest # {} /\ ManifestBacked /\ ManifestType(memManifest)
      /\ segs[LastMeta(memManifest).num].docs = searchable
  BY <1>1, TypeOKManifest DEF DeletedInv, IInv, FlushHolds
<1>4. ASSUME NEW d \in Docs, pending[d] = NoOp, searchable[d] # Absent
      PROVE  Holders(manifest', segs, d, Absent) # {}
  <2> DEFINE l == LastMeta(memManifest)
  <2>1. l \in memManifest /\ l.num \in DOMAIN segs /\ segs[l.num].docs[d] # Absent
    BY <1>3, <1>4, LastMetaExists DEF ManifestBacked
  <2> HIDE DEF l
  <2>2. CASE l \in Plan
    <3>1. Holders(Plan, segs, d, Absent) # {}
      BY <2>1, <2>2 DEF Holders, Readable
    <3>2. LoadSegments(Plan, segs, Docs, Absent)[d] # Absent
      BY <1>3, <3>1, PlanType, LoadHeld
    <3>3. MergedDocs[d] # Absent
      BY <1>4, <3>2 DEF MergedDocs, Overlay
    <3> QED BY <1>2, <3>3
  <2>3. CASE l \notin Plan
    BY <1>1, <2>1, <2>3 DEF Holders, Readable
  <2> QED BY <2>2, <2>3
<1>5. ShownIsHeld'
  BY <1>1, <1>2, <1>4 DEF ShownIsHeld, Certain
<1>6. /\ AckedLast' /\ PendingKnown' /\ MigratesBelow' /\ LoadedGone' /\ SearchableGone'
      /\ FlushHolds'
  BY <1>1 DEF DeletedInv, AckedLast, PendingKnown, MigratesBelow, Migrating, LoadedGone,
              SearchableGone, FlushHolds, Certain
<1> QED BY <1>5, <1>6 DEF DeletedInv

\* Opening shows what it recovers, and removes the current.json that it has migrated.
LEMMA RecoverDeleted ==
    ASSUME DeletedInv, IInv', Recover
    PROVE  DeletedInv'
<1>1. /\ searchable' = Recovered /\ pending' = NoPending
      /\ segs' = OpenSegs /\ pc' = pc
      /\ currentJson' = IF Migrating THEN NoFile ELSE currentJson
      /\ UNCHANGED <<logs, hasManifest, manifest, committed, ackedSeq, indoubt>>
  BY DEF Recover, wal, history
<1>2. IInv /\ IInv' /\ TypeOK /\ AckedLast /\ pc = "idle"
  BY DEF DeletedInv, IInv, TypeOK, Recover
<1>3. ~Migrating'
  BY <1>1 DEF Migrating
<1>4. MigratesBelow' /\ FlushHolds' /\ PendingKnown' /\ AckedLast'
  BY <1>1, <1>2, <1>3
     DEF MigratesBelow, FlushHolds, PendingKnown, NoPending, DeletedInv, AckedLast, Certain
<1>5. LoadedGone'
  <2> SUFFICES ASSUME ~hasManifest, NEW d \in Certain PROVE Loaded'[d] = Absent
    BY <1>1 DEF LoadedGone, Certain
  <2>1. OpenManifest' = {}
    BY <1>1, <1>2, <1>3, OpenFacts DEF OpenManifest
  <2>2. Holders({}, OpenSegs', d, Absent) = {}
    BY DEF Holders, Readable
  <2> QED BY <2>1, <2>2 DEF Loaded, LoadSegments, Certain
<1>6. SearchableGone'
  <2> SUFFICES ASSUME ~hasManifest, NEW d \in Certain, committed[d] = Absent
               PROVE  Recovered[d] = Absent
    BY <1>1 DEF SearchableGone, Certain
  <2> QED BY <1>2, RecoveredFrom DEF DeletedInv, LoadedGone
<1>7. ShownIsHeld'
  <2> SUFFICES ASSUME hasManifest, NEW d \in Certain, committed[d] = Absent, Recovered[d] # Absent
               PROVE  Holders(manifest, OpenSegs, d, Absent) # {}
    BY <1>1 DEF ShownIsHeld, Certain
  <2>1. Loaded[d] # Absent /\ d \in Docs
    BY <1>2, RecoveredFrom DEF Certain
  <2> QED BY <1>2, <2>1, OpenFacts, LoadHeld DEF Loaded
<1> QED BY <1>4, <1>5, <1>6, <1>7 DEF DeletedInv

\* Every step preserves what is known of deleted documents.
LEMMA NextDeletedInv == DeletedInv /\ [Next]_vars => DeletedInv'
<1> SUFFICES ASSUME DeletedInv, [Next]_vars PROVE DeletedInv'
  OBVIOUS
<1>0. TypeOK /\ IInv' /\ AckedLast /\ PendingKnown /\ FlushHolds
  BY NextIInv DEF DeletedInv, IInv
<1> USE DEF disk, memory, history, budget, wal, store
<1>1. CASE Recover
  BY <1>0, <1>1, RecoverDeleted
<1>2. ASSUME NEW d \in Docs, NEW v \in Contents, Write(d, v) PROVE DeletedInv'
  BY <1>0, <1>2, AppendDeleted DEF Write, Idle
<1>3. ASSUME NEW d \in Docs, NEW v \in Contents, WriteFault(d, v) PROVE DeletedInv'
  BY <1>0, <1>3, AppendDeleted DEF WriteFault, Idle
<1>4. CASE Refresh
  BY <1>0, <1>4, RefreshDeleted
<1>5. CASE Merge \/ MergeFault
  BY <1>0, <1>5, MergeDeleted
<1>6. CASE FlushRollover \/ FlushTrimmed \/ FlushFault \/ UNCHANGED vars
  <2>1. logs' = logs /\ UNCHANGED indoubt /\ UNCHANGED ackedSeq
    BY <1>6 DEF FlushRollover, FlushTrimmed, FlushFault, vars
  <2>2. AckedLast'
    BY <1>0, <2>1 DEF AckedLast, Certain
  <2> QED BY <1>0, <1>6, <2>2, QuietDeleted DEF FlushRollover, FlushTrimmed, FlushFault, vars
<1>7. CASE FlushSegment
  BY <1>0, <1>7, PutDeleted DEF FlushSegment, TypeOK
<1>8. CASE FlushManifest \/ FlushManifestFault
  BY <1>0, <1>8, FlushManifestDeleted
<1>9. CASE TrimGeneration
  BY <1>0, <1>9, TrimDeleted
<1>10. CASE MergeSegment
  BY <1>0, <1>10, PlanType, PutDeleted DEF MergeSegment, TypeOK
<1>11. CASE MergePublish \/ MergePublishFault
  BY <1>0, <1>11, MergePublishDeleted
<1>12. CASE Crash
  BY <1>0, <1>12, CrashDeleted
<1> QED
  BY <1>1, <1>2, <1>3, <1>4, <1>5, <1>6, <1>7, <1>8, <1>9, <1>10, <1>11, <1>12
     DEF Next, Client, FlushStep, Failure

\* A deleted document stays deleted, for searches and for a restart, unless a segment
\* that some manifest names still holds it.
THEOREM PhantomFree == Spec => []NoPhantom
BY InitDeletedInv, NextDeletedInv, DeletedInvNoPhantom, PTL DEF Spec

-----------------------------------------------------------------------------
\* The steps, and what they leave of documents that are there.

\* The invariant holds in a directory that has no legacy snapshot.
LEMMA InitStoreInv ==
    ASSUME Init, currentJson = NoFile
    PROVE  StoreInv
<1>1. DeletedInv
  BY InitDeletedInv
<1>2. committed = Nothing /\ ~up /\ swallowed = {}
  BY DEF Init
<1> QED BY <1>1, <1>2
        DEF StoreInv, NeverWritten, Nothing, DownIsClean, NumbersAgree, SearchableExact, LoadedExact

\* Steps that change neither documents nor segments.
LEMMA QuietStore ==
    ASSUME StoreInv, DeletedInv', UNCHANGED store,
           UNCHANGED <<up, searchable, pending, memManifest, history>>
    PROVE  StoreInv'
<1>1. NeverWritten' /\ DownIsClean' /\ NumbersAgree' /\ SearchableExact'
  BY DEF StoreInv, NeverWritten, DownIsClean, NumbersAgree, SearchableExact, history, store
<1>2. LoadedExact'
  BY SameDirectory DEF StoreInv, LoadedExact, history
<1> QED BY <1>1, <1>2 DEF StoreInv

\* An operation is pending, and not covered.
LEMMA AppendStore ==
    ASSUME StoreInv, DeletedInv', Idle, NEW d \in Docs, NEW v \in Contents,
           UNCHANGED store, UNCHANGED <<up, searchable, memManifest>>,
           \/ /\ pending' = [pending EXCEPT ![d] = v]
              /\ committed' = [committed EXCEPT ![d] = v]
              /\ ackedSeq' = [ackedSeq EXCEPT ![d] = lastSeq + 1]
              /\ indoubt' = indoubt \ {d} /\ swallowed' = swallowed \ {d} /\ damaged' = damaged \ {d}
           \/ /\ UNCHANGED <<pending, committed, ackedSeq, swallowed, damaged>>
              /\ indoubt' = indoubt \cup {d}
    PROVE  StoreInv'
<1>1. DeletedInv /\ TypeOK /\ up /\ lastSeq \in Nat
  BY DEF StoreInv, DeletedInv, IInv, TypeOK, Idle
<1>2. /\ \A c \in Docs \ {d} : /\ ackedSeq'[c] = ackedSeq[c]
                               /\ committed'[c] = committed[c] /\ pending'[c] = pending[c]
                               /\ c \in indoubt' <=> c \in indoubt
                               /\ c \in swallowed' <=> c \in swallowed
                               /\ c \in damaged' <=> c \in damaged
      /\ d \in indoubt' \/ (ackedSeq'[d] = lastSeq + 1 /\ pending'[d] = v)
      /\ v # NoOp
  BY <1>1, NoOpAssumption DEF TypeOK, DocMaps
<1>3. NeverWritten'
  BY <1>1 DEF StoreInv, NeverWritten, TypeOK, DocMaps
<1>4. DownIsClean' /\ NumbersAgree'
  BY <1>1 DEF StoreInv, DownIsClean, NumbersAgree, store
<1>5. SearchableExact'
  BY <1>2 DEF StoreInv, SearchableExact
<1>6. LoadedExact'
  <2>1. d \in indoubt' \/ ~ (ackedSeq'[d] <= OpenDurableSeq)
    BY <1>1, <1>2, OpenBelow
  <2> QED BY <1>2, <2>1, SameDirectory DEF StoreInv, LoadedExact
<1> QED BY <1>3, <1>4, <1>5, <1>6 DEF StoreInv

\* A refresh makes searchable what clients are served already.
LEMMA RefreshStore ==
    ASSUME StoreInv, DeletedInv', Refresh
    PROVE  StoreInv'
<1>1. /\ searchable' = View /\ pending' = NoPending
      /\ UNCHANGED store /\ UNCHANGED <<up, memManifest, history>>
  BY DEF Refresh, disk, store
<1>2. SearchableExact'
  BY <1>1, StoreInvReadYourWrites DEF SearchableExact, ReadYourWrites, history
<1>3. NeverWritten' /\ DownIsClean' /\ NumbersAgree'
  BY <1>1 DEF StoreInv, NeverWritten, DownIsClean, NumbersAgree, history, store
<1>4. LoadedExact'
  BY <1>1, SameDirectory DEF StoreInv, LoadedExact, history
<1> QED BY <1>2, <1>3, <1>4 DEF StoreInv

\* merge() also writes it to current.json, which counts as long as there is no manifest.
LEMMA MergeStore ==
    ASSUME StoreInv, DeletedInv', Merge \/ MergeFault
    PROVE  StoreInv'
<1>1. /\ up /\ searchable' \in {View, searchable}
      /\ currentJson' = [last |-> lastSeq, docs |-> View]
      /\ UNCHANGED <<segs, hasManifest, manifest, up, pending, memManifest, history>>
  BY DEF Merge, MergeFault, Idle, memory
<1>2. TypeOK /\ View \in DocMaps /\ lastSeq \in Nat
  BY OverlayType DEF StoreInv, DeletedInv, IInv, TypeOK, View
<1>3. currentJson' \in Snapshot
  BY <1>1, <1>2 DEF Snapshot
<1>4. \A d \in Docs \ (indoubt \cup damaged) : committed[d] # Absent => View[d] = committed[d]
  BY <1>1, StoreInvReadYourWrites DEF ReadYourWrites
<1>5. SearchableExact'
  BY <1>1, <1>4 DEF StoreInv, SearchableExact, history
<1>6. LoadedExact'
  <2>1. CASE hasManifest
    <3>1. Loaded' = Loaded /\ OpenDurableSeq' = OpenDurableSeq
      BY <1>1, <2>1 DEF Loaded, OpenDurableSeq, OpenManifest, OpenSegs, Migrating
    <3> QED BY <1>1, <3>1 DEF StoreInv, LoadedExact, history
  <2>2. CASE ~hasManifest
    <3>1. Migrating'
      BY <1>1, <1>3, <2>2, NoFileAssumption DEF Migrating
    <3>2. Loaded' = View
      BY <1>1, <1>3, <3>1, MigratedLoad DEF Loaded, OpenManifest, OpenSegs
    <3> QED BY <1>1, <1>4, <3>2 DEF LoadedExact, history
  <2> QED BY <2>1, <2>2
<1>7. NeverWritten' /\ DownIsClean' /\ NumbersAgree'
  BY <1>1 DEF StoreInv, NeverWritten, DownIsClean, NumbersAgree, history
<1> QED BY <1>5, <1>6, <1>7 DEF StoreInv

\* A segment replaces what the manifest names only if it is the last one, and then the
\* pending operations that it lacks are among the swallowed ones.
LEMMA PutStore ==
    ASSUME StoreInv, DeletedInv', FlushSegment \/ MergeSegment
    PROVE  StoreInv'
<1> DEFINE n == NextNum(memManifest)
<1>1. /\ DeletedInv /\ IInv /\ TypeOK /\ ManifestBacked /\ ManifestType(manifest) /\ ManifestType(memManifest)
      /\ LoadedExact
  BY TypeOKManifest DEF StoreInv, DeletedInv, IInv
<1>2. /\ up
      /\ UNCHANGED <<hasManifest, manifest, currentJson, up, searchable, pending, memManifest,
                     committed, ackedSeq, indoubt, damaged>>
      /\ \E docs \in DocMaps : PutSegment(n, docs)
  BY <1>1, PlanType DEF FlushSegment, MergeSegment, TypeOK, history
<1>3. NeverWritten' /\ DownIsClean' /\ NumbersAgree' /\ SearchableExact'
  BY <1>2 DEF StoreInv, NeverWritten, DownIsClean, NumbersAgree, SearchableExact
<1>4. OpenDurableSeq' = OpenDurableSeq /\ (n \notin Nums(manifest) => Loaded' = Loaded)
  BY <1>1, <1>2, PutKeeps
<1>5. CASE n \notin Nums(manifest)
  <2>1. UNCHANGED swallowed
    BY <1>5 DEF FlushSegment, MergeSegment, history
  <2>2. LoadedExact'
    BY <1>2, <1>4, <1>5, <2>1 DEF StoreInv, LoadedExact
  <2> QED BY <1>3, <2>2 DEF StoreInv
<1>6. CASE n \in Nums(manifest)
  <2>1. PICK m \in manifest : m.num = n
    BY <1>6 DEF Nums
  <2>2. pc # "merge"
    <3>1. manifest # memManifest
      BY <1>1, <2>1, NextNumFacts DEF ManifestType
    <3> QED BY <1>1, <3>1 DEF DeletedInv, FlushHolds
  <2>3. /\ PutSegment(n, searchable)
        /\ swallowed' = {d \in Pending : ackedSeq[d] <= OpenDurableSeq}
    BY <1>6, <2>2 DEF FlushSegment, MergeSegment
  <2>4. /\ segs'[n].docs = searchable /\ n \in DOMAIN segs'
        /\ \A k \in manifest : k.num <= n
    BY <1>2, <2>3 DEF PutSegment, Segment, StoreInv, NumbersAgree
  <2>5. hasManifest
    BY <1>1, <2>1 DEF TypeOK
  <2>6. Loaded' = LoadSegments(manifest, segs', Docs, Absent)
    BY <1>2, <2>5 DEF Loaded, OpenManifest, OpenSegs, Migrating
  <2>7. LoadedExact'
    <3> SUFFICES ASSUME NEW d \in Docs \ (indoubt \cup swallowed' \cup damaged), committed[d] # Absent,
                        ackedSeq[d] <= OpenDurableSeq
                 PROVE  Loaded'[d] = committed[d]
      BY <1>2, <1>4 DEF LoadedExact
    <3>1. pending[d] = NoOp
      BY <2>3 DEF Pending
    <3>2. searchable[d] = committed[d]
      BY <1>2, <3>1 DEF StoreInv, SearchableExact
    <3>3. m \in Holders(manifest, segs', d, Absent)
      BY <2>1, <2>4, <3>2 DEF Holders, Readable
    <3>4. LoadSegments(manifest, segs', Docs, Absent)[d] = segs'[m.num].docs[d]
      BY <1>1, <2>1, <2>4, <3>3, LoadTop
    <3> QED BY <2>1, <2>4, <2>6, <3>2, <3>4
  <2> QED BY <1>3, <2>7 DEF StoreInv
<1> QED BY <1>5, <1>6

\* What a manifest covers once the segment that it names last has what is served.
LEMMA PublishedExact ==
    ASSUME StoreInv, DeletedInv', NEW docs,
           \/ pc = "written" /\ docs = searchable
           \/ pc = "merged" /\ docs = MergedDocs,
           NEW kept \in SUBSET memManifest,
           manifest' = kept \cup {NewMeta(docs)}, hasManifest' = TRUE,
           memManifest' = memManifest \/ memManifest' = manifest',
           UNCHANGED <<segs, up, committed, ackedSeq, indoubt>>,
           \A d \in Docs \ (indoubt \cup swallowed' \cup damaged') :
               committed[d] # Absent => docs[d] = committed[d]
    PROVE  NumbersAgree' /\ LoadedExact'
<1>1. /\ ManifestType(manifest')
      /\ NewMeta(docs).num = NextNum(memManifest) /\ NewMeta(docs) \in manifest'
      /\ \A m \in manifest' : m.num <= NextNum(memManifest)
      /\ segs[NextNum(memManifest)].docs = docs
      /\ \A d \in Docs : docs[d] # Absent => NewMeta(docs) \in Holders(manifest', segs, d, Absent)
  BY Published, DeletedInvReady DEF StoreInv
<1>2. NumbersAgree'
  <2>1. CASE memManifest' = memManifest
    BY <1>1, <2>1 DEF NumbersAgree
  <2>2. CASE memManifest' = manifest'
    <3>1. \A m \in manifest' : m.num <= NextNum(manifest')
      BY <1>1, NextNumFacts DEF ManifestType
    <3> QED BY <2>2, <3>1 DEF NumbersAgree
  <2> QED BY <2>1, <2>2
<1>3. LoadedExact'
  <2>1. Loaded' = LoadSegments(manifest', segs, Docs, Absent)
    BY DEF Loaded, OpenManifest, OpenSegs, Migrating
  <2> SUFFICES ASSUME NEW d \in Docs \ (indoubt \cup swallowed' \cup damaged'), committed[d] # Absent
               PROVE  LoadSegments(manifest', segs, Docs, Absent)[d] = committed[d]
    BY <2>1 DEF LoadedExact
  <2>2. NewMeta(docs) \in Holders(manifest', segs, d, Absent) /\ docs[d] = committed[d]
    BY <1>1
  <2> QED BY <1>1, <2>2, LoadTop
<1> QED BY <1>2, <1>3

\* What a flush publishes lacks the pending operations, which are swallowed.
LEMMA FlushManifestStore ==
    ASSUME StoreInv, DeletedInv', FlushManifest \/ FlushManifestFault
    PROVE  StoreInv'
<1>1. /\ pc = "written" /\ hasManifest' = TRUE /\ swallowed' = Pending
      /\ manifest' = memManifest \cup {NewMeta(searchable)}
      /\ memManifest' = memManifest \/ memManifest' = manifest'
      /\ UNCHANGED <<segs, up, searchable, pending, committed, ackedSeq, indoubt, damaged>>
  BY DEF FlushManifest, FlushManifestFault, PublishFlushed
<1>2. up
  BY <1>1 DEF StoreInv, DeletedInv, IInv, TypeOK
<1>3. \A d \in Docs \ (indoubt \cup swallowed' \cup damaged') :
          committed[d] # Absent => searchable[d] = committed[d]
  BY <1>1, <1>2 DEF StoreInv, SearchableExact, Pending
<1>4. NumbersAgree' /\ LoadedExact'
  BY <1>1, <1>3, PublishedExact
<1>5. NeverWritten' /\ DownIsClean' /\ SearchableExact'
  BY <1>1, <1>2 DEF StoreInv, NeverWritten, DownIsClean, SearchableExact
<1> QED BY <1>4, <1>5 DEF StoreInv

\* Unless a merge leaves out the last segment, what it makes is what is served.
LEMMA MergedExact ==
    ASSUME Ready, pc = "merged", LastMeta(memManifest) \in Plan, NEW d \in Docs,
           searchable[d] # Absent
    PROVE  MergedDocs[d] = View[d]
<1> DEFINE l == LastMeta(memManifest)
<1>1. /\ memManifest # {} /\ TypeOK /\ ManifestType(memManifest)
      /\ segs[l.num].docs = searchable
  BY TypeOKManifest DEF Ready, FlushHolds
<1>2. /\ l \in memManifest /\ l.num \in DOMAIN segs /\ \A m \in memManifest : m.num <= l.num
  BY <1>1, LastMetaExists DEF Ready
<1> HIDE DEF l
<1>3. Plan \subseteq memManifest /\ ManifestType(Plan) /\ l \in Plan
  BY <1>1, PlanType DEF l
<1>4. l \in Holders(Plan, segs, d, Absent)
  BY <1>1, <1>2, <1>3 DEF Holders, Readable
<1>5. LoadSegments(Plan, segs, Docs, Absent)[d] = searchable[d]
  BY <1>1, <1>2, <1>3, <1>4, LoadTop
<1> QED BY <1>5 DEF MergedDocs, View, Overlay

\* So it has the last acknowledged content of whatever it does not damage.
LEMMA MergedIsShown ==
    ASSUME Ready, up, PendingKnown, SearchableExact, pc = "merged", PublishMerged,
           NEW d \in Docs \ (indoubt \cup damaged'), committed[d] # Absent
    PROVE  MergedDocs[d] = committed[d]
<1>1. LastMeta(memManifest) \in Plan /\ d \notin damaged
  BY DEF PublishMerged
<1>2. CASE pending[d] # NoOp
  BY <1>2 DEF MergedDocs, Overlay, PendingKnown
<1>3. CASE pending[d] = NoOp
  <2>1. searchable[d] = committed[d]
    BY <1>1, <1>3 DEF SearchableExact
  <2> QED BY <1>1, <1>3, <2>1, MergedExact DEF View, Overlay
<1> QED BY <1>2, <1>3

\* What a merge publishes has the pending operations too.
LEMMA MergePublishStore ==
    ASSUME StoreInv, DeletedInv', MergePublish \/ MergePublishFault
    PROVE  StoreInv'
<1>1. /\ pc = "merged" /\ hasManifest' = TRUE
      /\ manifest' = (memManifest \ Plan) \cup {NewMeta(MergedDocs)}
      /\ memManifest' = memManifest \/ memManifest' = manifest'
      /\ searchable' \in {searchable, MergedDocs}
      /\ damaged' = IF LastMeta(memManifest) \in Plan THEN damaged ELSE Docs
      /\ UNCHANGED <<segs, up, pending, committed, ackedSeq, indoubt>>
  BY DEF MergePublish, MergePublishFault, PublishMerged
<1>2. up /\ PendingKnown
  BY <1>1 DEF StoreInv, DeletedInv, IInv, TypeOK
<1>3. ASSUME NEW d \in Docs \ (indoubt \cup damaged'), committed[d] # Absent
      PROVE  MergedDocs[d] = committed[d]
  BY <1>1, <1>2, <1>3, MergedIsShown, DeletedInvReady
     DEF StoreInv, MergePublish, MergePublishFault
<1>4. NumbersAgree' /\ LoadedExact'
  BY <1>1, <1>3, PublishedExact
<1>5. SearchableExact'
  <2>1. damaged \subseteq damaged'
    BY <1>1 DEF StoreInv, DeletedInv, IInv, TypeOK
  <2> QED BY <1>1, <1>3, <2>1 DEF StoreInv, SearchableExact
<1>6. NeverWritten' /\ DownIsClean'
  BY <1>1, <1>2 DEF StoreInv, NeverWritten, DownIsClean
<1> QED BY <1>4, <1>5, <1>6 DEF StoreInv

\* Opening serves what was recovered.  Without a manifest the WAL still has everything.
LEMMA RecoverStore ==
    ASSUME StoreInv, DeletedInv', Recover
    PROVE  StoreInv'
<1>1. /\ ~up /\ up' /\ searchable' = Recovered /\ pending' = NoPending
      /\ memManifest' = OpenManifest /\ segs' = OpenSegs
      /\ currentJson' = IF Migrating THEN NoFile ELSE currentJson
      /\ UNCHANGED <<hasManifest, manifest, history>>
  BY DEF Recover
<1>2. IInv /\ TypeOK /\ ManifestType(OpenManifest)
  BY OpenFacts DEF StoreInv, DeletedInv
<1>3. SearchableExact'
  <2>1. \A d \in Docs \ (indoubt \cup damaged) : committed[d] # Absent => Recovered[d] = committed[d]
    BY <1>1, StoreInvRecoveryExact DEF StoreInv, DownIsClean, RecoveryExact
  <2> QED BY <1>1, <2>1 DEF SearchableExact, history
<1>4. NumbersAgree'
  <2>1. manifest \subseteq OpenManifest
    BY <1>2 DEF OpenManifest, Migrating, TypeOK
  <2>2. \A m \in OpenManifest : m.num <= NextNum(OpenManifest)
    BY <1>2, NextNumFacts DEF ManifestType
  <2> QED BY <1>1, <2>1, <2>2 DEF NumbersAgree
<1>5. LoadedExact'
  <2>1. CASE Migrating
    <3>1. OpenManifest' = {}
      BY <1>1, <1>2, <2>1 DEF OpenManifest, Migrating, TypeOK
    <3>2. OpenDurableSeq' = 0
      <4>1. ManifestType({}) /\ Readable({}, OpenSegs') = {}
        BY FS_EmptySet DEF ManifestType, Readable
      <4> QED BY <3>1, <4>1, DurableSeqFacts DEF OpenDurableSeq
    <3>3. \A d \in Docs : ackedSeq[d] <= 0 => committed[d] = Absent
      BY <1>2 DEF StoreInv, NeverWritten, TypeOK
    <3> QED BY <1>1, <3>2, <3>3 DEF LoadedExact, history
  <2>2. CASE ~Migrating
    <3>1. Loaded' = Loaded /\ OpenDurableSeq' = OpenDurableSeq
      BY <1>1, <2>2 DEF Loaded, OpenDurableSeq, OpenManifest, OpenSegs, Migrating
    <3> QED BY <1>1, <3>1 DEF StoreInv, LoadedExact, history
  <2> QED BY <2>1, <2>2
<1>6. NeverWritten' /\ DownIsClean'
  BY <1>1 DEF StoreInv, NeverWritten, DownIsClean, history
<1> QED BY <1>3, <1>4, <1>5, <1>6 DEF StoreInv

\* The end of the process turns what was swallowed into damage.
LEMMA CrashStore ==
    ASSUME StoreInv, DeletedInv', Crash
    PROVE  StoreInv'
<1>1. /\ ~up' /\ damaged' = damaged \cup swallowed /\ swallowed' = {}
      /\ UNCHANGED store /\ UNCHANGED <<committed, ackedSeq, indoubt>>
  BY DEF Crash, disk, store
<1>2. LoadedExact'
  BY <1>1, SameDirectory DEF StoreInv, LoadedExact
<1>3. NeverWritten' /\ DownIsClean' /\ NumbersAgree' /\ SearchableExact'
  BY <1>1 DEF StoreInv, NeverWritten, DownIsClean, NumbersAgree, SearchableExact
<1> QED BY <1>2, <1>3 DEF StoreInv

\* Every step preserves the invariant.
LEMMA NextStoreInv == StoreInv /\ [Next]_vars => StoreInv'
<1> SUFFICES ASSUME StoreInv, [Next]_vars PROVE StoreInv'
  OBVIOUS
<1>0. DeletedInv /\ DeletedInv'
  BY NextDeletedInv DEF StoreInv
<1> USE DEF disk, memory, history, budget, wal, store
<1>1. CASE Recover
  BY <1>0, <1>1, RecoverStore
<1>2. ASSUME NEW d \in Docs, NEW v \in Contents, Write(d, v) PROVE StoreInv'
  BY <1>0, <1>2, AppendStore DEF Write
<1>3. ASSUME NEW d \in Docs, NEW v \in Contents, WriteFault(d, v) PROVE StoreInv'
  BY <1>0, <1>3, AppendStore DEF WriteFault
<1>4. CASE Refresh
  BY <1>0, <1>4, RefreshStore
<1>5. CASE Merge \/ MergeFault
  BY <1>0, <1>5, MergeStore
<1>6. CASE FlushRollover \/ FlushTrimmed \/ FlushFault \/ TrimGeneration \/ UNCHANGED vars
  BY <1>0, <1>6, QuietStore DEF FlushRollover, FlushTrimmed, FlushFault, TrimGeneration, vars
<1>7. CASE FlushSegment \/ MergeSegment
  BY <1>0, <1>7, PutStore
<1>8. CASE FlushManifest \/ FlushManifestFault
  BY <1>0, <1>8, FlushManifestStore
<1>9. CASE MergePublish \/ MergePublishFault
  BY <1>0, <1>9, MergePublishStore
<1>10. CASE Crash
  BY <1>0, <1>10, CrashStore
<1> QED
  BY <1>1, <1>2, <1>3, <1>4, <1>5, <1>6, <1>7, <1>8, <1>9, <1>10
     DEF Next, Client, FlushStep, Failure

\* The invariant holds always, in an index that was not migrated from an old version.
THEOREM StoreInvariance ==
    ASSUME Legacy = {NoFile}
    PROVE  Spec => []StoreInv
<1>1. Init => StoreInv
  BY InitStoreInv DEF Init
<1> QED BY <1>1, NextStoreInv, PTL DEF Spec

\* A restart at any step of a flush or a merge brings back every acknowledged document
\* with its last content, except for those of the known gaps.
THEOREM RestartIsExact ==
    ASSUME Legacy = {NoFile}
    PROVE  Spec => []RecoveryExact
<1>1. StoreInv => RecoveryExact
  BY StoreInvRecoveryExact
<1> QED BY <1>1, StoreInvariance, PTL

\* get_document answers with the last acknowledged content, under the same exceptions.
THEOREM ReadsAreWrites ==
    ASSUME Legacy = {NoFile}
    PROVE  Spec => []ReadYourWrites
<1>1. StoreInv => ReadYourWrites
  BY StoreInvReadYourWrites
<1> QED BY <1>1, StoreInvariance, PTL

-----------------------------------------------------------------------------
(***************************************************************************)
(* The refinement: which step of DocStore a step of the index is.          *)
(***************************************************************************)

Excused == indoubt \cup damaged \cup Undead

\* What is served is a map.
LEMMA ServedType == TypeOK => Served \in DocMaps
<1> SUFFICES ASSUME TypeOK PROVE Served \in DocMaps
  OBVIOUS
<1>1. Recovered \in DocMaps /\ View \in DocMaps
  BY OpenType, OverlayType DEF View, TypeOK
<1> QED BY <1>1 DEF Served

\* The index starts as a map.
LEMMA RefineInit == Init => Store!Init
<1> SUFFICES ASSUME Init PROVE Store!Init
  OBVIOUS
<1>1. TypeOK
  BY InitTypeOK
<1>2. Served \in DocMaps
  BY <1>1, ServedType
<1>3. ackedSeq = [d \in Docs |-> 0] /\ Excused \subseteq Docs
  BY DEF Init, Excused, Undead
<1> QED BY <1>2, <1>3 DEF Store!Init, DocMaps, Excused

\* A step that acknowledges nothing and changes only excused documents is internal.
LEMMA RefineInternal ==
    ASSUME TypeOK', UNCHANGED ackedSeq, \A d \in Docs \ Excused' : Served'[d] = Served[d]
    PROVE  Store!Internal
<1>1. Served' \in DocMaps
  <2>1. TypeOK' => (Served \in DocMaps)'
    BY ServedType, PTL
  <2> QED BY <2>1
<1>2. Excused' \subseteq Docs
  BY DEF Excused, Undead, TypeOK
<1> QED BY <1>1, <1>2 DEF Store!Internal, DocMaps, Excused

\* An acknowledged operation is a put.
LEMMA RefineWrite ==
    ASSUME StoreInv, NEW d \in Docs, NEW v \in Contents, Write(d, v)
    PROVE  Store!Put(d, v)
<1>1. TypeOK /\ SequencesFresh /\ lastSeq \in Nat /\ up /\ up'
  BY DEF StoreInv, DeletedInv, IInv, TypeOK, Write, Idle
<1>2. /\ pending' = [pending EXCEPT ![d] = v] /\ committed' = [committed EXCEPT ![d] = v]
      /\ ackedSeq' = [ackedSeq EXCEPT ![d] = lastSeq + 1]
      /\ indoubt' = indoubt \ {d} /\ damaged' = damaged \ {d}
      /\ UNCHANGED store /\ UNCHANGED <<searchable, memManifest>>
  BY DEF Write
<1>3. /\ ackedSeq'[d] > ackedSeq[d]
      /\ ackedSeq' = [ackedSeq EXCEPT ![d] = ackedSeq'[d]]
  BY <1>1, <1>2 DEF SequencesFresh, TypeOK
<1>4. Served' = [Served EXCEPT ![d] = v]
  <2>1. \A c \in Docs : View'[c] = IF c = d THEN v ELSE View[c]
    BY <1>1, <1>2, NoOpAssumption DEF View, Overlay, TypeOK
  <2>2. View' = [View EXCEPT ![d] = v]
    BY <2>1 DEF View, Overlay
  <2> QED BY <1>1, <2>2 DEF Served
<1>5. Excused' \subseteq Excused \cup {d}
  <2>1. \A c \in Undead' \ {d} : c \in Undead
    BY <1>1, <1>2, SameDirectory DEF Undead, TypeOK, DocMaps
  <2> QED BY <1>2, <2>1 DEF Excused
<1> QED BY <1>3, <1>4, <1>5 DEF Store!Put, Excused

\* Whatever happens to an open index but a finished merge leaves what is served.
LEMMA RefineOpen ==
    ASSUME StoreInv, TypeOK',
           \/ \E d \in Docs, v \in Contents : WriteFault(d, v)
           \/ Refresh \/ Merge \/ MergeFault \/ FlushRollover \/ FlushSegment
           \/ FlushManifest \/ FlushManifestFault \/ TrimGeneration \/ FlushTrimmed
           \/ MergeSegment \/ MergePublishFault \/ FlushFault
    PROVE  Store!Internal
<1>1. TypeOK
  BY DEF StoreInv, DeletedInv, IInv
<1>2. /\ up /\ up' /\ UNCHANGED ackedSeq
      /\ (UNCHANGED pending /\ searchable' \in {searchable, View}) \/ Refresh
  BY <1>1 DEF WriteFault, Refresh, Merge, MergeFault, FlushRollover, FlushSegment, FlushManifest,
              FlushManifestFault, TrimGeneration, FlushTrimmed, MergeSegment, MergePublishFault,
              FlushFault, Idle, TypeOK, memory, history, store, disk
<1>3. View' = View
  <2>1. CASE UNCHANGED pending /\ searchable' \in {searchable, View}
    BY <2>1 DEF View, Overlay
  <2>2. CASE Refresh
    BY <2>2 DEF Refresh, View, Overlay, NoPending
  <2> QED BY <1>2, <2>1, <2>2
<1>4. Served' = Served
  BY <1>2, <1>3 DEF Served
<1> QED BY <1>2, <1>4, RefineInternal

\* Opening the index serves what a restart would bring back.
LEMMA RefineRecover ==
    ASSUME StoreInv, TypeOK', Recover
    PROVE  Store!Internal
<1>1. /\ ~up /\ up' /\ searchable' = Recovered /\ pending' = NoPending /\ UNCHANGED ackedSeq
  BY DEF Recover, history
<1>2. Recovered \in DocMaps
  BY OpenType DEF StoreInv, DeletedInv, IInv
<1>3. \A d \in Docs : View'[d] = Recovered[d]
  BY <1>1 DEF View, Overlay, NoPending
<1> QED BY <1>1, <1>3, RefineInternal DEF Served

\* A merge brings back documents that its new segment holds, and no others.
LEMMA RefineMerge ==
    ASSUME StoreInv, TypeOK', MergePublish
    PROVE  Store!Internal
<1>1. /\ pc = "merged" /\ hasManifest' = TRUE
      /\ manifest' = (memManifest \ Plan) \cup {NewMeta(MergedDocs)}
      /\ searchable' = MergedDocs
      /\ damaged' = IF LastMeta(memManifest) \in Plan THEN damaged ELSE Docs
      /\ UNCHANGED <<segs, up, pending, committed, ackedSeq, indoubt>>
  BY DEF MergePublish, PublishMerged
<1>2. up /\ up' /\ DeletedInv /\ PendingKnown
  BY <1>1 DEF StoreInv, DeletedInv, IInv, TypeOK
<1>3. View' = MergedDocs
  BY <1>1 DEF View, MergedDocs, Overlay
<1>4. ASSUME NEW d \in Docs \ Excused' PROVE MergedDocs[d] = View[d]
  <2>1. LastMeta(memManifest) \in Plan /\ d \notin indoubt /\ d \notin damaged
    BY <1>1 DEF Excused
  <2>2. CASE pending[d] # NoOp
    BY <2>2 DEF MergedDocs, View, Overlay
  <2>3. CASE searchable[d] # Absent
    BY <1>1, <1>2, <2>1, <2>3, MergedExact, DeletedInvReady
  <2>4. CASE pending[d] = NoOp /\ searchable[d] = Absent
    <3>1. committed[d] = Absent
      BY <1>2, <2>1, <2>4 DEF StoreInv, SearchableExact
    <3>2. Holders(manifest' \cup memManifest', segs, d, Absent) = {}
      BY <1>1, <3>1 DEF Excused, Undead, OpenManifest, OpenSegs, Migrating
    <3>3. Holders(manifest', segs, d, Absent) = {}
      BY <3>2 DEF Holders, Readable
    <3>4. MergedDocs[d] = Absent
      BY <1>1, <1>2, <3>3, Published, DeletedInvReady
    <3> QED BY <2>4, <3>4 DEF View, Overlay
  <2> QED BY <2>2, <2>3, <2>4
<1> QED BY <1>1, <1>2, <1>3, <1>4, RefineInternal DEF Served

\* The end of the process changes no document but those it damages, and deleted ones
\* that a segment holds.
LEMMA RefineCrash ==
    ASSUME StoreInv, TypeOK', Crash
    PROVE  Store!Internal
<1>1. /\ up /\ ~up' /\ memManifest' = {} /\ damaged' = damaged \cup swallowed
      /\ UNCHANGED disk /\ UNCHANGED <<committed, ackedSeq, indoubt>>
  BY DEF Crash
<1>2. DeletedInv /\ IInv /\ PendingKnown
  BY DEF StoreInv, DeletedInv
<1>3. Recovered' = Recovered /\ OpenManifest' = OpenManifest /\ OpenSegs' = OpenSegs
  BY <1>1 DEF disk, Recovered, OpenDurableSeq, OpenManifest, OpenSegs, Migrating
<1>4. ASSUME NEW d \in Docs \ Excused' PROVE Recovered[d] = View[d]
  <2>1. d \in Certain /\ d \notin damaged /\ d \notin swallowed
    BY <1>1 DEF Excused, Certain
  <2>2. CASE committed[d] # Absent
    BY <1>1, <2>1, <2>2, StoreInvRecoveryExact, StoreInvReadYourWrites
       DEF RecoveryExact, ReadYourWrites, Certain
  <2>3. CASE committed[d] = Absent
    <3>1. Holders(OpenManifest, OpenSegs, d, Absent) = {}
      BY <1>1, <1>3, <2>3 DEF Excused, Undead
    <3>2. Loaded[d] = Absent /\ (hasManifest => Holders(manifest, segs, d, Absent) = {})
      BY <1>2, <3>1, OpenFacts, LoadHeld DEF Loaded
    <3>3. Recovered[d] = Absent
      BY <1>2, <2>1, <2>3, <3>2, RecoveredFrom DEF DeletedInv
    <3>4. View[d] = Absent
      BY <1>1, <1>2, <2>1, <2>3, <3>2, ViewGone DEF StoreInv, DeletedInv, IInv, TypeOK
    <3> QED BY <3>3, <3>4
  <2> QED BY <2>2, <2>3
<1> QED BY <1>1, <1>3, <1>4, RefineInternal DEF Served

\* Every step of the index is a step of the map, or none.
LEMMA RefineNext ==
    StoreInv /\ StoreInv' /\ [Next]_vars => [Store!Next]_<<Served, ackedSeq, Excused>>
<1> SUFFICES ASSUME StoreInv, StoreInv', [Next]_vars
             PROVE  [Store!Next]_<<Served, ackedSeq, Excused>>
  OBVIOUS
<1>0. TypeOK'
  BY DEF StoreInv, DeletedInv, IInv
<1>1. CASE Recover
  BY <1>0, <1>1, RefineRecover DEF Store!Next
<1>2. ASSUME NEW d \in Docs, NEW v \in Contents, Write(d, v)
      PROVE  Store!Next
  BY <1>2, RefineWrite DEF Store!Next
<1>3. CASE \/ \E d \in Docs, v \in Contents : WriteFault(d, v)
           \/ Refresh \/ Merge \/ MergeFault \/ FlushRollover \/ FlushSegment
           \/ FlushManifest \/ FlushManifestFault \/ TrimGeneration \/ FlushTrimmed
           \/ MergeSegment \/ MergePublishFault \/ FlushFault
  BY <1>0, <1>3, RefineOpen DEF Store!Next
<1>4. CASE MergePublish
  BY <1>0, <1>4, RefineMerge DEF Store!Next
<1>5. CASE Crash
  BY <1>0, <1>5, RefineCrash DEF Store!Next
<1>6. CASE UNCHANGED vars
  <2>1. UNCHANGED <<disk, memory, history>>
    BY <1>6 DEF vars
  <2>2. Served' = Served /\ ackedSeq' = ackedSeq /\ Excused' = Excused
    BY <2>1 DEF disk, memory, history, Served, View, Overlay, Recovered, OpenDurableSeq,
                OpenManifest, OpenSegs, Migrating, Excused, Undead
  <2> QED BY <2>2
<1> QED BY <1>1, <1>2, <1>3, <1>4, <1>5, <1>6 DEF Next, Client, FlushStep, Failure

\* The index implements the map of module DocStore: no refresh, flush, merge, failure,
\* crash or restart changes what a client gets for a document that is not excused.
THEOREM Refinement ==
    ASSUME Legacy = {NoFile}
    PROVE  Spec => ImplementsStore
<1>1. Store!Spec <=> Store!Init /\ [][Store!Next]_<<Served, ackedSeq, Excused>>
  BY DEF Store!Spec, Excused
<1> QED BY RefineInit, RefineNext, StoreInvariance, <1>1, PTL DEF Spec, ImplementsStore
=============================================================================
