--------------------------- MODULE IndexSnapshots ---------------------------
(***************************************************************************)
(* Named snapshots of one index, on top of IndexHandle: two files for each *)
(* name under segments/snapshots/, written and removed one after the other *)
(* while the handle's mutex is held, and the restore that replaces the     *)
(* state of the handle.  job says which snapshot operation holds the       *)
(* handle and how far it is, so that a crash or a failing step can end it  *)
(* there; pc stays idle meanwhile.                                         *)
(*                                                                         *)
(* The checksum of a data file is the content itself: collisions of CRC32C *)
(* are left out.  Names that validate_snapshot_name refuses never get as   *)
(* far as a file.                                                          *)
(***************************************************************************)
EXTENDS IndexHandle

CONSTANTS
    Names,         \* snapshot names
    NoName,        \* no snapshot operation is running
    DataFile,      \* name |-> its file "{name}.json"
    MetaFile       \* name |-> its file "{name}.meta.json"

ASSUME NamesAssumption == NoName \notin Names

\* The files of different snapshots are different.  A name such as "x.meta" next
\* to "x" breaks this: its data file is the metadata file of the other.
DistinctFiles ==
    \A m, n \in Names : /\ DataFile[m] # MetaFile[n]
                        /\ m # n => DataFile[m] # DataFile[n] /\ MetaFile[m] # MetaFile[n]

VARIABLES
    snapFiles,  \* file name |-> content, for the files under snapshots/
    job,        \* the snapshot operation that holds the handle: name, data, the step it takes next
    taken,      \* history: the data of each acknowledged snapshot that nothing has touched since
    dropping,   \* history: names whose deletion has begun and not ended
    rollback    \* history: "applied" after a restore, "undone" once a restart has followed

snapVars == <<snapFiles, job, taken, dropping, rollback>>
allVars  == <<vars, snapVars>>

NoJob   == [name |-> NoName, data |-> NoFile, next |-> "none"]
Data    == [kind : {"data"}, last : Nat, docs : DocMaps]
MetaDoc == [kind : {"meta"}, name : Names, last : Nat, checksum : Data]
Files   == {DataFile[n] : n \in Names} \cup {MetaFile[n] : n \in Names}

Has(file) == file \in DOMAIN snapFiles
Put(file, content) ==
    snapFiles' = [f \in DOMAIN snapFiles \cup {file} |-> IF f = file THEN content ELSE snapFiles[f]]
Remove(file) == snapFiles' = [f \in DOMAIN snapFiles \ {file} |-> snapFiles[f]]

\* The handle is free.
Free == Idle /\ job = NoJob

\* A snapshot operation starts, goes on, or returns.
StartJob(n, data, step) == job' = [name |-> n, data |-> data, next |-> step]
JobAt(step)   == job.next = step
GoOn(step)    == job' = [job EXCEPT !.next = step]
EndJob        == job' = NoJob

\* An index that create_index has made, with its manifest.json.
SnapInit ==
    /\ Init /\ hasManifest
    /\ snapFiles = [f \in {} |-> NoFile]
    /\ job = NoJob
    /\ taken = [n \in Names |-> NoFile]
    /\ dropping = {}
    /\ rollback = "none"

-----------------------------------------------------------------------------
\* create_snapshot

\* The snapshot that create_snapshot builds: pending operations are applied.
SnapshotOf == [kind |-> "data", last |-> lastSeq, docs |-> View]

\* Mutant: the metadata is written first, the data last.
WriteSnapshotMetaFirst(n) ==
    /\ Free
    /\ Put(MetaFile[n], [kind |-> "meta", name |-> n, last |-> lastSeq, checksum |-> SnapshotOf])
    /\ StartJob(n, SnapshotOf, "meta")
    /\ taken' = [taken EXCEPT ![n] = NoFile]
    /\ UNCHANGED <<vars, dropping, rollback>>

\* {name}.json is renamed into place, over the data of an older snapshot.
WriteSnapshotData(n) ==
    /\ Free
    /\ Put(DataFile[n], SnapshotOf)
    /\ StartJob(n, SnapshotOf, "meta")
    /\ taken' = [taken EXCEPT ![n] = NoFile]
    /\ UNCHANGED <<vars, dropping, rollback>>

\* {name}.meta.json follows, and the call returns.
WriteSnapshotMeta ==
    /\ JobAt("meta")
    /\ Put(MetaFile[job.name],
           [kind |-> "meta", name |-> job.name, last |-> job.data.last, checksum |-> job.data])
    /\ taken' = [taken EXCEPT ![job.name] = job.data]
    /\ dropping' = dropping \ {job.name}
    /\ EndJob
    /\ UNCHANGED <<vars, rollback>>

-----------------------------------------------------------------------------
\* delete_snapshot; a missing file is no error.

DropSnapshotData(n) ==
    /\ Free
    /\ Has(DataFile[n]) \/ Has(MetaFile[n])
    /\ Remove(DataFile[n])
    /\ StartJob(n, NoFile, "drop")
    /\ taken' = [taken EXCEPT ![n] = NoFile]
    /\ dropping' = dropping \cup {n}
    /\ UNCHANGED <<vars, rollback>>

DropSnapshotMeta ==
    /\ JobAt("drop")
    /\ Remove(MetaFile[job.name])
    /\ dropping' = dropping \ {job.name}
    /\ EndJob
    /\ UNCHANGED <<vars, taken, rollback>>

-----------------------------------------------------------------------------
\* list_snapshots gives up with an error as soon as one file with the name of a
\* metadata file does not parse or has lost its data file: the names that break it.

BreaksListing ==
    {n \in Names : Has(MetaFile[n]) /\ (snapFiles[MetaFile[n]].kind # "meta" \/ ~Has(DataFile[n]))}

-----------------------------------------------------------------------------
\* restore_snapshot

\* Mutant: the checksum is not compared.
RestorableUnchecked(n) ==
    /\ Has(DataFile[n]) /\ snapFiles[DataFile[n]].kind = "data"
    /\ Has(MetaFile[n]) /\ snapFiles[MetaFile[n]].kind = "meta"

\* Both files are there, parse, and the checksum of the data is the one recorded.
Restorable(n) ==
    /\ Has(DataFile[n]) /\ snapFiles[DataFile[n]].kind = "data"
    /\ Has(MetaFile[n]) /\ snapFiles[MetaFile[n]].kind = "meta"
    /\ snapFiles[MetaFile[n]].checksum = snapFiles[DataFile[n]]

\* Mutant: the pending operations are kept.
RestoreKeepsPending(n) ==
    /\ Free /\ Restorable(n) /\ current < MaxGen
    /\ searchable' = snapFiles[DataFile[n]].docs
    /\ lastSeq' = snapFiles[MetaFile[n]].last
    /\ StartJob(n, snapFiles[DataFile[n]], "currentJson")
    /\ committed' = snapFiles[DataFile[n]].docs
    /\ ackedSeq' = [d \in Docs |-> 0]
    /\ indoubt' = {} /\ swallowed' = {} /\ damaged' = {}
    /\ rollback' = "applied"
    /\ UNCHANGED <<disk, up, pc, pending, memManifest, budget, snapFiles, taken, dropping>>

\* The handle is replaced before anything is written.
RestoreMemory(n) ==
    /\ Free /\ Restorable(n) /\ current < MaxGen
    /\ searchable' = snapFiles[DataFile[n]].docs
    /\ pending' = NoPending
    /\ lastSeq' = snapFiles[MetaFile[n]].last
    /\ StartJob(n, snapFiles[DataFile[n]], "currentJson")
    /\ committed' = snapFiles[DataFile[n]].docs
    /\ ackedSeq' = [d \in Docs |-> 0]
    /\ indoubt' = {} /\ swallowed' = {} /\ damaged' = {}
    /\ rollback' = "applied"
    /\ UNCHANGED <<disk, up, pc, memManifest, budget, snapFiles, taken, dropping>>

RestoreCurrentJson ==
    /\ JobAt("currentJson")
    /\ currentJson' = [last |-> job.data.last, docs |-> job.data.docs]
    /\ GoOn("rollover")
    /\ UNCHANGED <<wal, segs, hasManifest, manifest, memory, history, budget,
                   snapFiles, taken, dropping, rollback>>

RestoreRollover ==
    /\ JobAt("rollover")
    /\ current' = current + 1
    /\ GoOn("trim")
    /\ UNCHANGED <<logs, store, memory, history, budget, snapFiles, taken, dropping, rollback>>

\* trim_through, one generation after the other.
RestoreTrims == Trimmable(logs, current, job.data.last)

RestoreTrim ==
    /\ JobAt("trim") /\ RestoreTrims # {}
    /\ logs' = RemoveGeneration(logs, CHOOSE g \in RestoreTrims : \A h \in RestoreTrims : g <= h)
    /\ UNCHANGED <<current, store, memory, history, budget, snapVars>>

RestoreDone ==
    /\ JobAt("trim") /\ RestoreTrims = {}
    /\ EndJob
    /\ UNCHANGED <<vars, snapFiles, taken, dropping, rollback>>

-----------------------------------------------------------------------------
\* What the index does when no snapshot operation holds the handle.
HandleStep ==
    /\ job = NoJob
    /\ \/ Recover \/ Client \/ Refresh \/ Merge \/ FlushRollover \/ FlushStep
       \/ MergeFault \/ FlushFault \/ FlushManifestFault \/ MergePublishFault
    /\ UNCHANGED snapVars

\* A step fails: the call returns early and what it did so far stays.
JobFault ==
    /\ job # NoJob /\ faults < MaxFaults
    /\ EndJob
    /\ faults' = faults + 1
    /\ UNCHANGED <<disk, memory, history, crashes, snapFiles, taken, dropping, rollback>>

SnapCrash ==
    /\ Crash
    /\ job' = NoJob
    /\ rollback' = IF rollback = "applied" THEN "undone" ELSE rollback
    /\ UNCHANGED <<snapFiles, taken, dropping>>

SnapshotStep ==
    \/ \E n \in Names : WriteSnapshotData(n) \/ DropSnapshotData(n) \/ RestoreMemory(n)
    \/ WriteSnapshotMeta \/ DropSnapshotMeta
    \/ RestoreCurrentJson \/ RestoreRollover \/ RestoreTrim \/ RestoreDone

SnapNext == HandleStep \/ SnapshotStep \/ JobFault \/ SnapCrash

SnapSpec == SnapInit /\ [][SnapNext]_allVars

-----------------------------------------------------------------------------
(***************************************************************************)
(* Properties.                                                             *)
(***************************************************************************)

\* An acknowledged snapshot can be restored until it is overwritten or deleted,
\* whatever happens to the index in between: crashes, flushes, merges, restores,
\* and operations on other snapshots that are interrupted.
AckedIsRestorable == \A n \in Names : taken[n] # NoFile => Restorable(n)

\* Interrupted creates never break the listing: only a deletion that has begun
\* and not ended leaves metadata without data.
ListingSurvivesCreates == BreaksListing \subseteq dropping

\* A restore brings the index to one state it had when a snapshot was taken: the
\* documents of one snapshot with the sequence number of the same one, never the
\* data of an interrupted overwrite under the metadata of the snapshot before it,
\* and nothing that was pending.
RestoreIsWhole ==
    [][\A n \in Names : RestoreMemory(n) =>
           /\ View' = committed'
           /\ taken[n] # NoFile => View' = taken[n].docs /\ lastSeq' = taken[n].last
           /\ lastSeq' = snapFiles[DataFile[n]].last]_allVars

\* As long as the process lives, what was restored and what was written since is
\* what the index answers, through refreshes, flushes and merges that read segments
\* from before the restore.
ReadAfterRestore == rollback # "undone" => ReadYourWrites
=============================================================================
