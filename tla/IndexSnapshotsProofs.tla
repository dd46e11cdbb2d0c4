------------------------ MODULE IndexSnapshotsProofs ------------------------
(***************************************************************************)
(* Theorems about module IndexSnapshots, for any number of names, documents*)
(* and values, crashes and failing steps: snapshots whose files do not     *)
(* overlap can be restored as long as nothing touches them, and what was   *)
(* restored is what the index goes on serving.                             *)
(***************************************************************************)
EXTENDS IndexSnapshots, IndexHandleProofs

-----------------------------------------------------------------------------
(***************************************************************************)
(* The strengthening.  First the files: which step of which operation can  *)
(* leave them in disagreement.                                             *)
(***************************************************************************)

Steps == {"meta", "drop", "currentJson", "rollover", "trim"}
Jobs  == [name : Names, data : Data \cup {NoFile}, next : Steps]

SnapTypeOK ==
    /\ job \in Jobs \cup {NoJob}
    /\ JobAt("meta") \/ JobAt("currentJson") => job.data \in Data
    /\ taken \in [Names -> Data \cup {NoFile}]
    /\ rollback \in {"none", "applied", "undone"}

\* Every file is what its name says, and one metadata file tells of one snapshot only.
FilesTyped ==
    \A n \in Names :
        /\ Has(DataFile[n]) => snapFiles[DataFile[n]] \in Data
        /\ Has(MetaFile[n]) =>
               /\ snapFiles[MetaFile[n]] \in MetaDoc
               /\ snapFiles[MetaFile[n]].last = snapFiles[MetaFile[n]].checksum.last

\* The two files of an untouched snapshot are the ones that were acknowledged.
TakenHeld ==
    \A n \in Names : taken[n] # NoFile =>
        /\ Has(DataFile[n]) /\ snapFiles[DataFile[n]] = taken[n]
        /\ Has(MetaFile[n]) /\ snapFiles[MetaFile[n]].checksum = taken[n]

\* Metadata without data is what a deletion leaves that has not ended.
OrphansAreDropped ==
    \A n \in Names : Has(MetaFile[n]) /\ ~Has(DataFile[n]) => n \in dropping

\* A create has written its data when it comes to the metadata; a deletion has
\* withdrawn what was acknowledged before it takes the first file away.
JobHolds ==
    /\ JobAt("meta") => Has(DataFile[job.name]) /\ snapFiles[DataFile[job.name]] = job.data
    /\ JobAt("drop") => taken[job.name] = NoFile

FilesInv == SnapTypeOK /\ FilesTyped /\ TakenHeld /\ OrphansAreDropped /\ JobHolds

(***************************************************************************)
(* Then the handle.  A restore breaks what StoreInv says of the WAL and of *)
(* the sequence numbers, so that after it only what is in memory counts,   *)
(* until the process ends.                                                 *)
(***************************************************************************)

HandleInv ==
    /\ Ready /\ hasManifest
    /\ job # NoJob => Idle
    /\ job.next \in {"currentJson", "rollover", "trim"} => rollback = "applied"
    /\ rollback = "none" => StoreInv
    /\ rollback = "applied" => up /\ PendingKnown /\ SearchableExact

SnapInv == FilesInv /\ HandleInv

-----------------------------------------------------------------------------
\* The files.

\* A file that is written or removed leaves the others alone.
LEMMA PutFacts ==
    ASSUME NEW file, NEW content, Put(file, content)
    PROVE  /\ Has(file)' /\ snapFiles'[file] = content
           /\ \A f : f # file => (Has(f)' <=> Has(f)) /\ (Has(f) => snapFiles'[f] = snapFiles[f])
BY DEF Put, Has

\* Removing one file leaves the others.
LEMMA RemoveFacts ==
    ASSUME NEW file, Remove(file)
    PROVE  /\ ~Has(file)'
           /\ \A f : f # file => (Has(f)' <=> Has(f)) /\ (Has(f) => snapFiles'[f] = snapFiles[f])
BY DEF Remove, Has

\* The snapshot that is about to be written is one.
LEMMA SnapshotOfType == TypeOK => SnapshotOf \in Data
<1> SUFFICES ASSUME TypeOK PROVE SnapshotOf \in Data
  OBVIOUS
<1>1. View \in DocMaps
  BY OverlayType DEF TypeOK, View
<1> QED BY <1>1 DEF SnapshotOf, Data, TypeOK

\* create_snapshot replaces the data first, and with them what was acknowledged.
LEMMA WriteDataFiles ==
    ASSUME DistinctFiles, FilesInv, TypeOK, NEW n \in Names, WriteSnapshotData(n)
    PROVE  FilesInv'
<1>1. /\ Has(DataFile[n])' /\ snapFiles'[DataFile[n]] = SnapshotOf
      /\ \A f : f # DataFile[n] => (Has(f)' <=> Has(f)) /\ (Has(f) => snapFiles'[f] = snapFiles[f])
  BY PutFacts DEF WriteSnapshotData
<1>2. \A m \in Names : MetaFile[m] # DataFile[n] /\ (m # n => DataFile[m] # DataFile[n])
  BY DEF DistinctFiles
<1>3. /\ job' = [name |-> n, data |-> SnapshotOf, next |-> "meta"]
      /\ taken' = [taken EXCEPT ![n] = NoFile]
      /\ UNCHANGED <<dropping, rollback>>
  BY DEF WriteSnapshotData, StartJob
<1>4. SnapshotOf \in Data
  BY SnapshotOfType
<1>5. SnapTypeOK'
  BY <1>3, <1>4 DEF FilesInv, SnapTypeOK, Jobs, Steps, JobAt
<1>6. FilesTyped'
  BY <1>1, <1>2, <1>4 DEF FilesInv, FilesTyped
<1>7. TakenHeld'
  BY <1>1, <1>2, <1>3 DEF FilesInv, SnapTypeOK, TakenHeld
<1>8. OrphansAreDropped'
  BY <1>1, <1>2, <1>3 DEF FilesInv, OrphansAreDropped
<1>9. JobHolds'
  BY <1>1, <1>3 DEF JobHolds, JobAt
<1> QED BY <1>5, <1>6, <1>7, <1>8, <1>9 DEF FilesInv

\* Then the metadata, and the snapshot is acknowledged.
LEMMA WriteMetaFiles ==
    ASSUME DistinctFiles, FilesInv, WriteSnapshotMeta
    PROVE  FilesInv'
<1>1. PICK n \in Names, data \in Data :
          /\ n = job.name /\ data = job.data
          /\ Has(DataFile[n]) /\ snapFiles[DataFile[n]] = data
  BY DEF WriteSnapshotMeta, FilesInv, SnapTypeOK, JobHolds, JobAt, Jobs, NoJob
<1> DEFINE meta == [kind |-> "meta", name |-> n, last |-> data.last, checksum |-> data]
<1>2. /\ Has(MetaFile[n])' /\ snapFiles'[MetaFile[n]] = meta
      /\ \A f : f # MetaFile[n] => (Has(f)' <=> Has(f)) /\ (Has(f) => snapFiles'[f] = snapFiles[f])
  BY <1>1, PutFacts DEF WriteSnapshotMeta
<1>3. \A m \in Names : DataFile[m] # MetaFile[n] /\ (m # n => MetaFile[m] # MetaFile[n])
  BY <1>1 DEF DistinctFiles
<1>4. meta \in MetaDoc /\ meta.last = meta.checksum.last /\ meta.checksum = data
  BY <1>1 DEF MetaDoc, Data
<1>5. /\ job' = NoJob /\ taken' = [taken EXCEPT ![n] = data]
      /\ dropping' = dropping \ {n} /\ rollback' = rollback
  BY <1>1 DEF WriteSnapshotMeta, EndJob
<1> HIDE DEF meta
<1>6. SnapTypeOK'
  BY <1>1, <1>5 DEF FilesInv, SnapTypeOK, JobAt, NoJob
<1>7. FilesTyped'
  BY <1>2, <1>3, <1>4 DEF FilesInv, FilesTyped
<1>8. TakenHeld'
  BY <1>1, <1>2, <1>3, <1>4, <1>5 DEF FilesInv, SnapTypeOK, TakenHeld
<1>9. OrphansAreDropped'
  BY <1>1, <1>2, <1>3, <1>5 DEF FilesInv, OrphansAreDropped
<1>10. JobHolds'
  BY <1>5 DEF JobHolds, JobAt, NoJob
<1> QED BY <1>6, <1>7, <1>8, <1>9, <1>10 DEF FilesInv

\* delete_snapshot takes the data away first.
LEMMA DropDataFiles ==
    ASSUME DistinctFiles, FilesInv, NEW n \in Names, DropSnapshotData(n)
    PROVE  FilesInv'
<1>1. /\ ~Has(DataFile[n])'
      /\ \A f : f # DataFile[n] => (Has(f)' <=> Has(f)) /\ (Has(f) => snapFiles'[f] = snapFiles[f])
  BY RemoveFacts DEF DropSnapshotData
<1>2. \A m \in Names : MetaFile[m] # DataFile[n] /\ (m # n => DataFile[m] # DataFile[n])
  BY DEF DistinctFiles
<1>3. /\ job' = [name |-> n, data |-> NoFile, next |-> "drop"]
      /\ taken' = [taken EXCEPT ![n] = NoFile]
      /\ dropping' = dropping \cup {n} /\ rollback' = rollback
  BY DEF DropSnapshotData, StartJob
<1>4. SnapTypeOK'
  BY <1>3 DEF FilesInv, SnapTypeOK, Jobs, Steps, JobAt
<1>5. FilesTyped'
  BY <1>1, <1>2 DEF FilesInv, FilesTyped
<1>6. TakenHeld'
  BY <1>1, <1>2, <1>3 DEF FilesInv, SnapTypeOK, TakenHeld
<1>7. OrphansAreDropped'
  BY <1>1, <1>2, <1>3 DEF FilesInv, OrphansAreDropped
<1>8. JobHolds'
  BY <1>3 DEF FilesInv, SnapTypeOK, JobHolds, JobAt
<1> QED BY <1>4, <1>5, <1>6, <1>7, <1>8 DEF FilesInv

\* Then the metadata.
LEMMA DropMetaFiles ==
    ASSUME DistinctFiles, FilesInv, DropSnapshotMeta
    PROVE  FilesInv'
<1>1. PICK n \in Names : n = job.name /\ taken[n] = NoFile
  BY DEF DropSnapshotMeta, FilesInv, SnapTypeOK, JobHolds, JobAt, Jobs, NoJob
<1>2. /\ ~Has(MetaFile[n])'
      /\ \A f : f # MetaFile[n] => (Has(f)' <=> Has(f)) /\ (Has(f) => snapFiles'[f] = snapFiles[f])
  BY <1>1, RemoveFacts DEF DropSnapshotMeta
<1>3. \A m \in Names : DataFile[m] # MetaFile[n] /\ (m # n => MetaFile[m] # MetaFile[n])
  BY <1>1 DEF DistinctFiles
<1>4. job' = NoJob /\ dropping' = dropping \ {n} /\ UNCHANGED <<taken, rollback>>
  BY <1>1 DEF DropSnapshotMeta, EndJob
<1>5. SnapTypeOK'
  BY <1>4 DEF FilesInv, SnapTypeOK, JobAt, NoJob
<1>6. FilesTyped'
  BY <1>2, <1>3 DEF FilesInv, FilesTyped
<1>7. TakenHeld'
  BY <1>1, <1>2, <1>3, <1>4 DEF FilesInv, SnapTypeOK, TakenHeld
<1>8. OrphansAreDropped'
  BY <1>2, <1>3, <1>4 DEF FilesInv, OrphansAreDropped
<1>9. JobHolds'
  BY <1>4 DEF JobHolds, JobAt, NoJob
<1> QED BY <1>5, <1>6, <1>7, <1>8, <1>9 DEF FilesInv

\* A restore reads the files, and everything else leaves them alone.
LEMMA QuietFiles ==
    ASSUME FilesInv, UNCHANGED <<snapFiles, taken, dropping>>,
           rollback' \in {"none", "applied", "undone"},
           \/ job' \in {NoJob, job}
           \/ \E n \in Names : Restorable(n) /\ StartJob(n, snapFiles[DataFile[n]], "currentJson")
           \/ job # NoJob /\ (GoOn("rollover") \/ GoOn("trim"))
    PROVE  FilesInv'
<1>1. FilesTyped' /\ TakenHeld' /\ OrphansAreDropped'
  BY DEF FilesInv, FilesTyped, TakenHeld, OrphansAreDropped, Has
<1>2. CASE job' \in {NoJob, job}
  BY <1>1, <1>2 DEF FilesInv, SnapTypeOK, JobHolds, JobAt, NoJob, Has
<1>3. ASSUME NEW n \in Names, Restorable(n), StartJob(n, snapFiles[DataFile[n]], "currentJson")
      PROVE  FilesInv'
  <2>1. snapFiles[DataFile[n]] \in Data
    BY <1>3 DEF FilesInv, FilesTyped, Restorable
  <2>2. job' = [name |-> n, data |-> snapFiles[DataFile[n]], next |-> "currentJson"]
    BY <1>3 DEF StartJob
  <2> QED BY <1>1, <2>1, <2>2 DEF FilesInv, SnapTypeOK, JobHolds, JobAt, Jobs, Steps
<1>4. CASE job # NoJob /\ (GoOn("rollover") \/ GoOn("trim"))
  <2>1. job' \in Jobs /\ job'.next \in {"rollover", "trim"}
    BY <1>4 DEF GoOn, FilesInv, SnapTypeOK, Jobs, Steps
  <2> QED BY <1>1, <2>1 DEF FilesInv, SnapTypeOK, JobHolds, JobAt
<1> QED BY <1>2, <1>3, <1>4

\* No step of the index or of a snapshot operation breaks the files.
LEMMA NextFilesInv ==
    ASSUME DistinctFiles, FilesInv, TypeOK, [SnapNext]_allVars
    PROVE  FilesInv'
<1>0. rollback \in {"none", "applied", "undone"}
  BY DEF FilesInv, SnapTypeOK
<1>1. ASSUME NEW n \in Names, WriteSnapshotData(n) PROVE FilesInv'
  BY <1>1, WriteDataFiles
<1>2. ASSUME NEW n \in Names, DropSnapshotData(n) PROVE FilesInv'
  BY <1>2, DropDataFiles
<1>3. ASSUME NEW n \in Names, RestoreMemory(n) PROVE FilesInv'
  BY <1>3, QuietFiles DEF RestoreMemory
<1>4. CASE WriteSnapshotMeta
  BY <1>4, WriteMetaFiles
<1>5. CASE DropSnapshotMeta
  BY <1>5, DropMetaFiles
<1>6. CASE RestoreCurrentJson \/ RestoreRollover
  <2>1. job # NoJob
    BY <1>6 DEF RestoreCurrentJson, RestoreRollover, JobAt, NoJob
  <2> QED BY <1>0, <1>6, <2>1, QuietFiles DEF RestoreCurrentJson, RestoreRollover
<1>7. CASE RestoreTrim \/ RestoreDone \/ HandleStep \/ JobFault \/ UNCHANGED allVars
  BY <1>0, <1>7, QuietFiles
     DEF RestoreTrim, RestoreDone, HandleStep, JobFault, EndJob, allVars, snapVars
<1>8. CASE SnapCrash
  BY <1>0, <1>8, QuietFiles DEF SnapCrash
<1> QED BY <1>1, <1>2, <1>3, <1>4, <1>5, <1>6, <1>7, <1>8 DEF SnapNext, SnapshotStep

-----------------------------------------------------------------------------
\* What a flush and a merge rely on.

\* Steps that leave the segments and both manifests alone.
LEMMA QuietReady ==
    ASSUME Ready, TypeOK', UNCHANGED <<segs, manifest, memManifest>>,
           \/ pc' \in {"idle", "rolled"}
           \/ /\ pc' = pc \/ (pc = "trim" /\ pc' = "merge")
              /\ UNCHANGED <<hasManifest, searchable, pending>>
    PROVE  Ready'
<1>1. FlushHolds'
  BY DEF Ready, FlushHolds, MergedDocs, Overlay, Plan
<1> QED BY <1>1 DEF Ready

\* A segment file is renamed into place.
LEMMA PutReady ==
    ASSUME Ready, TypeOK', FlushSegment \/ MergeSegment
    PROVE  Ready'
<1> DEFINE n == NextNum(memManifest)
<1>1. PICK docs : /\ PutSegment(n, docs)
                  /\ \/ pc = "rolled" /\ pc' = "written" /\ docs = searchable
                     \/ pc = "merge" /\ pc' = "merged" /\ docs = MergedDocs
  BY DEF FlushSegment, MergeSegment
<1>2. UNCHANGED <<hasManifest, manifest, memManifest, searchable, pending>>
  BY DEF FlushSegment, MergeSegment, wal
<1>3. DOMAIN segs' = DOMAIN segs \cup {n} /\ segs'[n].docs = docs
  BY <1>1 DEF PutSegment, Segment
<1>4. /\ \A m \in memManifest : m.num # n /\ segs'[m.num] = segs[m.num]
      /\ MergedDocs' = MergedDocs
  BY <1>1, <1>2, PutKeepsPlan
<1>5. FlushHolds'
  <2>1. CASE pc' = "written"
    BY <1>1, <1>2, <1>3, <2>1 DEF FlushHolds
  <2>2. CASE pc' = "merged"
    <3>1. /\ hasManifest /\ manifest = memManifest /\ memManifest # {}
          /\ segs[LastMeta(memManifest).num].docs = searchable
      BY <1>1, <2>2 DEF Ready, FlushHolds
    <3>2. LastMeta(memManifest) \in memManifest
      BY <3>1, TypeOKManifest, LastMetaExists DEF Ready
    <3> QED BY <1>1, <1>2, <1>3, <1>4, <2>2, <3>1, <3>2 DEF FlushHolds
  <2> QED BY <1>1, <2>1, <2>2
<1> QED BY <1>2, <1>3, <1>5 DEF Ready

\* A manifest is renamed into place, and the handle has it or not.
LEMMA PublishReady ==
    ASSUME Ready, TypeOK', FlushManifest \/ FlushManifestFault \/ MergePublish \/ MergePublishFault
    PROVE  Ready'
<1>1. PICK docs, kept :
          /\ \/ pc = "written" /\ docs = searchable
             \/ pc = "merged" /\ docs = MergedDocs
          /\ kept \in SUBSET memManifest
          /\ manifest' = kept \cup {NewMeta(docs)}
  <2>1. CASE FlushManifest \/ FlushManifestFault
    <3>1. pc = "written" /\ manifest' = memManifest \cup {NewMeta(searchable)}
      BY <2>1 DEF FlushManifest, FlushManifestFault, PublishFlushed
    <3> QED BY <3>1
  <2>2. CASE MergePublish \/ MergePublishFault
    <3>1. pc = "merged" /\ manifest' = (memManifest \ Plan) \cup {NewMeta(MergedDocs)}
      BY <2>2 DEF MergePublish, MergePublishFault, PublishMerged
    <3> QED BY <3>1
  <2> QED BY <2>1, <2>2
<1>2. /\ NewMeta(docs).num = NextNum(memManifest) /\ LastMeta(manifest').num = NextNum(memManifest)
      /\ segs[NextNum(memManifest)].docs = docs
  BY <1>1, Published
<1>3. /\ memManifest' \in {memManifest, manifest'} /\ segs' = segs
      /\ pc' = "idle" \/ FlushManifest
  BY DEF FlushManifest, FlushManifestFault, MergePublish, MergePublishFault, wal
<1>4. \A m \in manifest' \cup memManifest' : m.num \in DOMAIN segs'
  BY <1>1, <1>2, <1>3 DEF Ready
<1>5. FlushHolds' /\ pc' \notin {"written", "merged"}
  <2>1. CASE pc' = "idle"
    BY <2>1 DEF FlushHolds
  <2>2. CASE FlushManifest
    <3>1. /\ hasManifest' /\ memManifest' = manifest' /\ searchable' = searchable
          /\ pc' = "trim" /\ pc = "written"
      BY <2>2 DEF FlushManifest, PublishFlushed
    <3> QED BY <1>1, <1>2, <1>3, <3>1 DEF FlushHolds
  <2> QED BY <1>3, <2>1, <2>2
<1> QED BY <1>4, <1>5 DEF Ready

\* The same holds after every step of the index.
LEMMA NextReady ==
    ASSUME Ready, hasManifest, Next
    PROVE  Ready' /\ hasManifest'
<1>1. TypeOK /\ TypeOK'
  BY NextTypeOK DEF Ready
<1> USE DEF disk, memory, history, budget, wal, store
<1>2. CASE Recover
  <2>1. OpenManifest = manifest /\ OpenSegs = segs /\ pc = "idle"
    BY <1>1, <1>2 DEF OpenManifest, OpenSegs, Migrating, Recover, TypeOK
  <2>2. segs' = segs /\ UNCHANGED <<hasManifest, manifest, pc>> /\ memManifest' = manifest
    BY <1>2, <2>1 DEF Recover
  <2> QED BY <1>1, <2>1, <2>2 DEF Ready, FlushHolds
<1>3. CASE \/ \E d \in Docs, v \in Contents : Write(d, v) \/ WriteFault(d, v)
           \/ Refresh \/ Merge \/ MergeFault \/ FlushRollover \/ TrimGeneration \/ FlushTrimmed
           \/ FlushFault
  <2>1. UNCHANGED <<segs, manifest, memManifest, hasManifest>>
    BY <1>3 DEF Write, WriteFault, Refresh, Merge, MergeFault, FlushRollover, TrimGeneration,
                FlushTrimmed, FlushFault
  <2>2. \/ pc' \in {"idle", "rolled"}
        \/ /\ pc' = pc \/ (pc = "trim" /\ pc' = "merge")
           /\ UNCHANGED <<searchable, pending>>
    BY <1>3 DEF Write, WriteFault, Refresh, Merge, MergeFault, FlushRollover, TrimGeneration,
                FlushTrimmed, FlushFault, Idle
  <2> QED BY <1>1, <2>1, <2>2, QuietReady
<1>4. CASE FlushSegment \/ MergeSegment
  BY <1>1, <1>4, PutReady DEF FlushSegment, MergeSegment
<1>5. CASE FlushManifest \/ FlushManifestFault \/ MergePublish \/ MergePublishFault
  <2>1. hasManifest'
    BY <1>5 DEF FlushManifest, FlushManifestFault, MergePublish, MergePublishFault,
                PublishFlushed, PublishMerged
  <2> QED BY <1>1, <1>5, <2>1, PublishReady
<1>6. CASE Crash
  <2>1. UNCHANGED <<segs, manifest, hasManifest>> /\ memManifest' = {} /\ pc' = "idle"
    BY <1>6 DEF Crash
  <2> QED BY <1>1, <2>1 DEF Ready, FlushHolds
<1> QED BY <1>2, <1>3, <1>4, <1>5, <1>6 DEF Next, Client, FlushStep, Failure

-----------------------------------------------------------------------------
\* What is in memory.

\* Whatever the index does while it is open, the last acknowledged content stays pending
\* or searchable.
LEMMA NextShown ==
    ASSUME Ready, up, PendingKnown, SearchableExact, Next, up'
    PROVE  PendingKnown' /\ SearchableExact'
<1> USE DEF disk, memory, history, budget, wal, store
<1>0. TypeOK /\ TypeOK'
  BY NextTypeOK DEF Ready
<1>1. ~Recover /\ ~Crash
  BY DEF Recover, Crash
<1>2. ASSUME NEW d \in Docs, NEW v \in Contents, Write(d, v)
      PROVE  PendingKnown' /\ SearchableExact'
  <2>1. /\ pending' = [pending EXCEPT ![d] = v] /\ committed' = [committed EXCEPT ![d] = v]
        /\ indoubt' = indoubt \ {d} /\ damaged' = damaged \ {d} /\ searchable' = searchable
    BY <1>2 DEF Write
  <2>2. v # NoOp
    BY NoOpAssumption
  <2>3. \A c \in Docs : /\ pending'[c] = IF c = d THEN v ELSE pending[c]
                        /\ committed'[c] = IF c = d THEN v ELSE committed[c]
    BY <1>0, <2>1 DEF TypeOK, DocMaps
  <2> QED BY <2>1, <2>2, <2>3 DEF PendingKnown, SearchableExact
<1>3. ASSUME NEW d \in Docs, NEW v \in Contents, WriteFault(d, v)
      PROVE  PendingKnown' /\ SearchableExact'
  BY <1>3 DEF WriteFault, PendingKnown, SearchableExact
<1>4. CASE Refresh \/ Merge
  <2>1. /\ searchable' = View /\ UNCHANGED history
        /\ pending' = pending \/ pending' = NoPending
    BY <1>4 DEF Refresh, Merge
  <2>2. \A d \in Docs : View[d] = IF pending[d] = NoOp THEN searchable[d] ELSE pending[d]
    BY DEF View, Overlay
  <2>3. PendingKnown'
    BY <2>1 DEF PendingKnown, NoPending
  <2>4. SearchableExact'
    BY <2>1, <2>2 DEF SearchableExact, PendingKnown
  <2> QED BY <2>3, <2>4
<1>5. CASE MergePublish
  <2>1. /\ pc = "merged" /\ PublishMerged /\ searchable' = MergedDocs
        /\ UNCHANGED <<pending, committed, ackedSeq, indoubt>>
    BY <1>5 DEF MergePublish
  <2>2. \A d \in Docs \ (indoubt \cup damaged') : committed[d] # Absent => MergedDocs[d] = committed[d]
    BY <2>1, MergedIsShown
  <2> QED BY <2>1, <2>2 DEF PendingKnown, SearchableExact
<1>6. CASE \/ MergeFault \/ FlushRollover \/ FlushSegment \/ FlushManifest \/ FlushManifestFault
           \/ TrimGeneration \/ FlushTrimmed \/ MergeSegment \/ FlushFault
  <2>1. UNCHANGED <<up, searchable, pending, committed, indoubt, damaged>>
    BY <1>6 DEF MergeFault, FlushRollover, FlushSegment, FlushManifest, FlushManifestFault,
                TrimGeneration, FlushTrimmed, MergeSegment, FlushFault
  <2> QED BY <2>1 DEF PendingKnown, SearchableExact
<1>7. CASE MergePublishFault
  <2>1. UNCHANGED <<up, searchable, pending, committed, indoubt>> /\ damaged \subseteq damaged'
    BY <1>0, <1>7 DEF MergePublishFault, PublishMerged, TypeOK
  <2> QED BY <2>1 DEF PendingKnown, SearchableExact
<1> QED BY <1>1, <1>2, <1>3, <1>4, <1>5, <1>6, <1>7 DEF Next, Client, FlushStep, Failure

-----------------------------------------------------------------------------
\* The snapshot operations and the handle.

\* What the client of the index knows is part of StoreInv.
LEMMA StoreInvShown == StoreInv => PendingKnown /\ SearchableExact
BY DEF StoreInv, DeletedInv

\* Creating and deleting a snapshot changes nothing but files under snapshots/.
LEMMA FilesOnly ==
    ASSUME HandleInv, UNCHANGED <<vars, rollback>>,
           \/ job' \in {NoJob, job}
           \/ Idle /\ job'.next \in {"meta", "drop"}
    PROVE  HandleInv'
<1>1. Ready' /\ hasManifest' /\ (rollback' = "none" => StoreInv')
  <2>1. [Next]_vars
    BY DEF vars
  <2>2. rollback = "none" => StoreInv'
    BY <2>1, NextStoreInv DEF HandleInv
  <2>3. TypeOK'
    BY <2>1, NextTypeOK DEF HandleInv, Ready
  <2>4. Ready' /\ hasManifest'
    BY <2>3, QuietReady DEF vars, disk, memory, HandleInv
  <2> QED BY <2>2, <2>4
<1>2. rollback' = "applied" => up' /\ PendingKnown' /\ SearchableExact'
  BY DEF vars, disk, memory, history, HandleInv, PendingKnown, SearchableExact
<1>3. /\ job' # NoJob => Idle'
      /\ job'.next \in {"currentJson", "rollover", "trim"} => rollback' = "applied"
  BY DEF vars, disk, memory, HandleInv, Idle, NoJob
<1> QED BY <1>1, <1>2, <1>3 DEF HandleInv

\* A restore replaces what is in memory, and what the client expects.
LEMMA RestoreMemoryHandle ==
    ASSUME FilesInv, HandleInv, NEW n \in Names, RestoreMemory(n)
    PROVE  HandleInv'
<1>1. /\ snapFiles[DataFile[n]] \in Data /\ snapFiles[MetaFile[n]] \in MetaDoc
  BY DEF RestoreMemory, FilesInv, FilesTyped, Restorable
<1>2. /\ searchable' = snapFiles[DataFile[n]].docs /\ searchable' \in DocMaps
      /\ committed' = searchable' /\ lastSeq' \in Nat
      /\ pending' = NoPending /\ NoPending \in [Docs -> Contents \cup {NoOp}]
      /\ ackedSeq' = [d \in Docs |-> 0]
      /\ indoubt' = {} /\ swallowed' = {} /\ damaged' = {}
  BY <1>1 DEF RestoreMemory, Data, MetaDoc, NoPending
<1>3. /\ Idle /\ Idle' /\ pc' = "idle"
      /\ UNCHANGED <<disk, up, pc, memManifest, budget>>
      /\ rollback' = "applied" /\ job'.next = "currentJson"
  BY DEF RestoreMemory, Free, Idle, StartJob
<1>4. TypeOK'
  <2>1. TypeOK /\ ackedSeq' \in [Docs -> Nat]
    BY <1>2 DEF HandleInv, Ready
  <2> QED BY <1>2, <1>3, <2>1 DEF TypeOK, disk, budget
<1>5. Ready' /\ hasManifest'
  BY <1>3, <1>4, QuietReady DEF HandleInv, disk
<1>6. up' /\ PendingKnown' /\ SearchableExact'
  BY <1>2, <1>3 DEF PendingKnown, SearchableExact, NoPending, Idle
<1> QED BY <1>3, <1>5, <1>6 DEF HandleInv

\* What a restore writes afterwards changes the directory, and a step that fails nothing
\* but the count of failures.
LEMMA RestoreWritesHandle ==
    ASSUME FilesInv, HandleInv,
           RestoreCurrentJson \/ RestoreRollover \/ RestoreTrim
    PROVE  HandleInv'
<1>1. rollback = "applied" /\ rollback' = "applied" /\ Idle
  <2>1. job.next \in {"currentJson", "rollover", "trim"}
    BY DEF RestoreCurrentJson, RestoreRollover, RestoreTrim, JobAt
  <2>2. UNCHANGED rollback
    BY DEF RestoreCurrentJson, RestoreRollover, RestoreTrim, snapVars
  <2> QED BY <2>1, <2>2 DEF HandleInv, FilesInv, SnapTypeOK, NoJob
<1>2. /\ UNCHANGED <<memory, history, budget>> /\ UNCHANGED <<segs, manifest, hasManifest>>
      /\ job' = job \/ job'.next \in {"rollover", "trim"}
  <2>1. job \in Jobs
    BY DEF RestoreCurrentJson, RestoreRollover, RestoreTrim, JobAt, NoJob, FilesInv, SnapTypeOK
  <2> QED BY <2>1 DEF RestoreCurrentJson, RestoreRollover, RestoreTrim, snapVars, GoOn, store, Jobs
<1>3. TypeOK
  BY DEF HandleInv, Ready
<1>4. TypeOK'
  <2>1. CASE RestoreCurrentJson
    <3>1. job.data \in Data
      BY <2>1 DEF RestoreCurrentJson, FilesInv, SnapTypeOK
    <3>2. currentJson' \in Snapshot /\ UNCHANGED wal
      BY <2>1, <3>1 DEF RestoreCurrentJson, Data, Snapshot
    <3> QED BY <1>2, <1>3, <3>2 DEF TypeOK, memory, history, budget, wal
  <2>2. CASE RestoreRollover
    <3>1. current' = current + 1 /\ UNCHANGED <<logs, currentJson>>
      BY <2>2 DEF RestoreRollover, store
    <3>2. current' \in Nat \ {0} /\ DOMAIN logs \subseteq 1..current'
      BY <1>3, <3>1 DEF TypeOK
    <3> QED BY <1>2, <1>3, <3>1, <3>2 DEF TypeOK, memory, history, budget
  <2>3. CASE RestoreTrim
    <3>1. PICK g : logs' = RemoveGeneration(logs, g)
      BY <2>3 DEF RestoreTrim
    <3>2. LogType(logs', current, Record)
      BY <1>3, <3>1, TypeOKLog, RemoveGenerationFacts
    <3>3. UNCHANGED <<current, currentJson>>
      BY <2>3 DEF RestoreTrim, store
    <3> QED BY <1>2, <1>3, <3>2, <3>3 DEF TypeOK, LogType, memory, history, budget
  <2> QED BY <2>1, <2>2, <2>3
<1>5. Ready' /\ hasManifest'
  BY <1>2, <1>4, QuietReady DEF HandleInv, memory
<1>6. up' /\ PendingKnown' /\ SearchableExact' /\ Idle'
  BY <1>1, <1>2 DEF HandleInv, PendingKnown, SearchableExact, memory, history, Idle
<1> QED BY <1>1, <1>5, <1>6 DEF HandleInv

\* A failing step changes nothing but the count of failures.
LEMMA JobFaultHandle ==
    ASSUME HandleInv, JobFault
    PROVE  HandleInv'
<1>1. /\ UNCHANGED <<disk, memory, history, crashes, rollback>> /\ faults' = faults + 1
      /\ job' = NoJob
  BY DEF JobFault, EndJob
<1>2. TypeOK'
  BY <1>1 DEF HandleInv, Ready, TypeOK, disk, memory, history
<1>3. Ready' /\ hasManifest'
  BY <1>1, <1>2, QuietReady DEF HandleInv, disk, memory
<1>4. ASSUME StoreInv PROVE StoreInv'
  <2>1. IInv'
    BY <1>1, <1>2, <1>4, QuietStep DEF StoreInv, DeletedInv, disk, memory, history
  <2>2. AckedLast'
    BY <1>1, <1>4 DEF StoreInv, DeletedInv, AckedLast, Certain, disk, history
  <2>3. DeletedInv'
    BY <1>1, <1>4, <2>1, <2>2, QuietDeleted DEF StoreInv, disk, memory, history, store
  <2> QED BY <1>1, <1>4, <2>3, QuietStore DEF disk, memory, store
<1>5. rollback' = "applied" => up' /\ PendingKnown' /\ SearchableExact'
  BY <1>1 DEF HandleInv, PendingKnown, SearchableExact, memory, history
<1> QED BY <1>1, <1>3, <1>4, <1>5 DEF HandleInv, NoJob

\* The index goes on, from whatever the last restore has left.
LEMMA HandleStepHandle ==
    ASSUME HandleInv, HandleStep
    PROVE  HandleInv'
<1>1. Next /\ job = NoJob /\ UNCHANGED snapVars
  BY DEF HandleStep, Next, Failure
<1>2. Ready' /\ hasManifest'
  BY <1>1, NextReady DEF HandleInv
<1>3. rollback = "none" => StoreInv'
  BY <1>1, NextStoreInv DEF HandleInv
<1>4. ASSUME up PROVE up'
  BY <1>4 DEF HandleStep, Recover, Client, Refresh, Merge, FlushRollover, FlushStep, MergeFault,
              FlushFault, FlushManifestFault, MergePublishFault, Write, WriteFault, FlushSegment,
              FlushManifest, TrimGeneration, FlushTrimmed, MergeSegment, MergePublish, memory
<1>5. rollback = "applied" => up' /\ PendingKnown' /\ SearchableExact'
  BY <1>1, <1>4, NextShown DEF HandleInv
<1> QED BY <1>1, <1>2, <1>3, <1>5 DEF HandleInv, snapVars, NoJob

\* The end of the process undoes a restore, or leaves StoreInv.
LEMMA CrashHandle ==
    ASSUME FilesInv, HandleInv, SnapCrash
    PROVE  HandleInv'
<1>1. /\ Next /\ job' = NoJob
      /\ rollback' = IF rollback = "applied" THEN "undone" ELSE rollback
  BY DEF SnapCrash, Next, Failure
<1>2. Ready' /\ hasManifest'
  BY <1>1, NextReady DEF HandleInv
<1>3. rollback' = "none" => StoreInv'
  BY <1>1, NextStoreInv DEF HandleInv
<1> QED BY <1>1, <1>2, <1>3 DEF HandleInv, NoJob

\* No step breaks what is known of the handle.
LEMMA NextHandleInv ==
    ASSUME FilesInv, HandleInv, [SnapNext]_allVars
    PROVE  HandleInv'
<1>1. ASSUME NEW n \in Names, WriteSnapshotData(n) \/ DropSnapshotData(n) PROVE HandleInv'
  BY <1>1, FilesOnly DEF WriteSnapshotData, DropSnapshotData, StartJob, Free
<1>2. ASSUME NEW n \in Names, RestoreMemory(n) PROVE HandleInv'
  BY <1>2, RestoreMemoryHandle
<1>3. CASE WriteSnapshotMeta \/ DropSnapshotMeta \/ RestoreDone \/ UNCHANGED allVars
  BY <1>3, FilesOnly
     DEF WriteSnapshotMeta, DropSnapshotMeta, RestoreDone, EndJob, allVars, snapVars
<1>4. CASE RestoreCurrentJson \/ RestoreRollover \/ RestoreTrim
  BY <1>4, RestoreWritesHandle
<1>5. CASE HandleStep
  BY <1>5, HandleStepHandle
<1>6. CASE JobFault
  BY <1>6, JobFaultHandle
<1>7. CASE SnapCrash
  BY <1>7, CrashHandle
<1> QED BY <1>1, <1>2, <1>3, <1>4, <1>5, <1>6, <1>7 DEF SnapNext, SnapshotStep

-----------------------------------------------------------------------------
\* The invariant, and what it says.

\* It holds in an index that create_index has made.
LEMMA SnapInitInv == SnapInit => SnapInv
<1> SUFFICES ASSUME SnapInit PROVE SnapInv
  OBVIOUS
<1>1. Init /\ hasManifest /\ currentJson = NoFile
  BY DEF SnapInit, Init
<1>2. StoreInv
  BY <1>1, InitStoreInv
<1>3. Ready
  BY <1>2, DeletedInvReady DEF StoreInv
<1>4. FilesInv
  BY DEF SnapInit, FilesInv, SnapTypeOK, JobAt, NoJob, FilesTyped, TakenHeld, OrphansAreDropped,
         JobHolds, Has
<1>5. HandleInv
  BY <1>1, <1>2, <1>3 DEF SnapInit, HandleInv, NoJob
<1> QED BY <1>4, <1>5 DEF SnapInv

\* Every step keeps it, when the files of different snapshots are different.
LEMMA NextSnapInv ==
    ASSUME DistinctFiles
    PROVE  SnapInv /\ [SnapNext]_allVars => SnapInv'
BY NextFilesInv, NextHandleInv DEF SnapInv, HandleInv, Ready

\* Nothing that happens to the index or to other snapshots breaks a snapshot: while it
\* is neither overwritten nor deleted it can be restored.
THEOREM SnapshotsStayRestorable ==
    ASSUME DistinctFiles
    PROVE  SnapSpec => []AckedIsRestorable
<1>1. SnapInv => AckedIsRestorable
  BY DEF SnapInv, FilesInv, SnapTypeOK, FilesTyped, TakenHeld, AckedIsRestorable, Restorable,
         Data, MetaDoc
<1> QED BY <1>1, SnapInitInv, NextSnapInv, PTL DEF SnapSpec

\* list_snapshots fails only after a deletion that was interrupted.
THEOREM ListingWorks ==
    ASSUME DistinctFiles
    PROVE  SnapSpec => []ListingSurvivesCreates
<1>1. SnapInv => ListingSurvivesCreates
  BY DEF SnapInv, FilesInv, FilesTyped, OrphansAreDropped, ListingSurvivesCreates,
         BreaksListing, MetaDoc
<1> QED BY <1>1, SnapInitInv, NextSnapInv, PTL DEF SnapSpec

\* A restore takes documents and sequence number from one snapshot, and drops what was
\* pending.
THEOREM RestoresAreWhole ==
    ASSUME DistinctFiles
    PROVE  SnapSpec => RestoreIsWhole
<1>1. ASSUME SnapInv, NEW n \in Names, RestoreMemory(n)
      PROVE  /\ View' = committed'
             /\ taken[n] # NoFile => View' = taken[n].docs /\ lastSeq' = taken[n].last
             /\ lastSeq' = snapFiles[DataFile[n]].last
  <2>1. /\ searchable' = snapFiles[DataFile[n]].docs /\ committed' = searchable'
        /\ pending' = NoPending /\ lastSeq' = snapFiles[MetaFile[n]].last
        /\ Has(DataFile[n]) /\ Has(MetaFile[n])
        /\ snapFiles[MetaFile[n]].checksum = snapFiles[DataFile[n]]
    BY <1>1 DEF RestoreMemory, Restorable
  <2>2. /\ snapFiles[MetaFile[n]].last = snapFiles[DataFile[n]].last
        /\ snapFiles[DataFile[n]].docs \in DocMaps
    BY <1>1, <2>1 DEF SnapInv, FilesInv, FilesTyped, Data
  <2>3. View' = snapFiles[DataFile[n]].docs
    BY <2>1, <2>2 DEF View, Overlay, NoPending, DocMaps
  <2>4. taken[n] # NoFile => snapFiles[DataFile[n]] = taken[n]
    BY <1>1 DEF SnapInv, FilesInv, TakenHeld
  <2> QED BY <2>1, <2>2, <2>3, <2>4
<1>2. SnapInv /\ [SnapNext]_allVars =>
          [\A n \in Names : RestoreMemory(n) =>
               /\ View' = committed'
               /\ taken[n] # NoFile => View' = taken[n].docs /\ lastSeq' = taken[n].last
               /\ lastSeq' = snapFiles[DataFile[n]].last]_allVars
  BY <1>1
<1> QED BY <1>2, SnapInitInv, NextSnapInv, PTL DEF SnapSpec, RestoreIsWhole

\* After a restore, and before any, the index answers with the restored content and what
\* was written since, through flushes and merges of segments from before the restore.
THEOREM RestoredIsServed ==
    ASSUME DistinctFiles
    PROVE  SnapSpec => []ReadAfterRestore
<1>1. SnapInv => ReadAfterRestore
  <2> SUFFICES ASSUME SnapInv, rollback # "undone" PROVE ReadYourWrites
    BY DEF ReadAfterRestore
  <2>1. PendingKnown /\ SearchableExact
    BY StoreInvShown DEF SnapInv, FilesInv, SnapTypeOK, HandleInv
  <2> QED BY <2>1 DEF PendingKnown, SearchableExact, ReadYourWrites, View, Overlay
<1> QED BY <1>1, SnapInitInv, NextSnapInv, PTL DEF SnapSpec
=============================================================================
