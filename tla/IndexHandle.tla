---------------------------- MODULE IndexHandle ----------------------------
(***************************************************************************)
(* One index of cloudSearch: the durable state under its directory (WAL,   *)
(* segments, manifest.json, current.json) and the IndexHandle that the     *)
(* server keeps in memory for it.  The handle sits behind one async mutex, *)
(* so reads and writes never run inside a flush; what can happen between   *)
(* two steps of a flush is the end of the process (Crash) or an early      *)
(* return of the flush itself (a failing file operation, or a request      *)
(* future that the HTTP server drops at an await).                         *)
(*                                                                         *)
(* The variables committed, ackedSeq, indoubt, swallowed and damaged       *)
(* belong to no part of the program: they remember what clients were told, *)
(* and which documents the known gaps of the design have touched, so that  *)
(* the properties can be exact about all the others.                       *)
(***************************************************************************)
EXTENDS WalLog, SegmentSet

CONSTANTS
    Docs,        \* document ids
    Values,      \* document sources
    Absent,      \* no document
    NoOp,        \* no pending operation
    NoFile,      \* current.json does not exist
    Threshold,   \* merge_threshold_docs
    Legacy,      \* what current.json may hold before the first open
    MaxSeq,      \* bound: sequence numbers handed out
    MaxGen,      \* bound: WAL generations, hence flushes
    MaxCrashes,  \* bound: ends of the process
    MaxFaults    \* bound: operations that fail half way

Contents == Values \cup {Absent}
DocMaps  == [Docs -> Contents]
Snapshot == [last : Nat, docs : DocMaps]
Meta     == [num : Nat, last : Nat, count : Nat]
Record   == [seq : Nat, doc : Docs, val : Contents]

ASSUME DocsAssumption      == IsFiniteSet(Docs)
ASSUME AbsentAssumption    == Absent \notin Values
ASSUME NoOpAssumption      == NoOp \notin Contents
ASSUME ThresholdAssumption == Threshold \in Nat \ {0}
ASSUME LegacyAssumption    == Legacy \subseteq Snapshot \cup {NoFile}
ASSUME NoFileAssumption    == NoFile \notin Snapshot
ASSUME BoundsAssumption    == /\ MaxSeq \in Nat /\ MaxGen \in Nat
                              /\ MaxCrashes \in Nat /\ MaxFaults \in Nat

VARIABLES
    \* on disk
    logs,        \* the WAL generations (module WalLog)
    current,     \* the generation named by CURRENT
    segs,        \* segment files (module SegmentSet)
    hasManifest, \* manifest.json exists
    manifest,    \* the segments that it lists
    currentJson, \* current.json: the legacy snapshot, rewritten by merge()
    \* in memory
    up,          \* the index is open
    pc,          \* how far the flush that holds the handle has come
    searchable,  \* searchable_documents
    pending,     \* pending_operations
    lastSeq,     \* last_sequence_number
    memManifest, \* the handle's copy of the manifest
    \* what clients know, and what has gone wrong
    committed,   \* the content after the last acknowledged operation
    ackedSeq,    \* its sequence number, 0 before the first one
    indoubt,     \* documents whose last operation failed after its record was written
    swallowed,   \* pending operations that the manifest claims to cover
    damaged,     \* documents hit by a lost swallowed operation or a late merge
    crashes, faults

disk    == <<logs, current, segs, hasManifest, manifest, currentJson>>
memory  == <<up, pc, searchable, pending, lastSeq, memManifest>>
history == <<committed, ackedSeq, indoubt, swallowed, damaged>>
budget  == <<crashes, faults>>
vars    == <<disk, memory, history, budget>>
wal     == <<logs, current>>
store   == <<segs, hasManifest, manifest, currentJson>>

NoPending == [d \in Docs |-> NoOp]
Nothing   == [d \in Docs |-> Absent]

-----------------------------------------------------------------------------
\* What open_index makes of the directory.  create_index leaves a manifest.json
\* that lists no segment; directories of older versions have none.

\* A directory without manifest.json but with a current.json is migrated.
Migrating == ~hasManifest /\ currentJson # NoFile

OpenSegs ==
    IF Migrating
    THEN [n \in DOMAIN segs \cup {1} |-> IF n = 1 THEN currentJson ELSE segs[n]]
    ELSE segs

OpenManifest == IF Migrating THEN {MetaOf(1, currentJson, Absent)} ELSE manifest

OpenDurableSeq == DurableSeq(OpenManifest, OpenSegs)

\* The document map that open_index would publish if the process ended now.
Recovered ==
    ApplyReplay(LoadSegments(OpenManifest, OpenSegs, Docs, Absent), logs, OpenDurableSeq)

\* IndexHandle::get_document: pending operations hide searchable documents.
Overlay(docs) == [d \in Docs |-> IF pending[d] = NoOp THEN docs[d] ELSE pending[d]]
View == Overlay(searchable)

-----------------------------------------------------------------------------
Init ==
    /\ logs = [g \in {} |-> <<>>] /\ current = 1
    /\ segs = [n \in {} |-> NoFile] /\ manifest = {}
    /\ currentJson \in Legacy
    /\ hasManifest \in BOOLEAN
    /\ hasManifest => currentJson = NoFile
    /\ up = FALSE /\ pc = "idle"
    /\ searchable = Nothing /\ pending = NoPending /\ lastSeq = 0 /\ memManifest = {}
    /\ committed = IF currentJson = NoFile THEN Nothing ELSE currentJson.docs
    /\ ackedSeq = [d \in Docs |-> 0]
    /\ indoubt = {} /\ swallowed = {} /\ damaged = {}
    /\ crashes = 0 /\ faults = 0

Idle == up /\ pc = "idle"

\* IndexCatalog::open_index
Recover ==
    /\ ~up
    /\ up' = TRUE
    /\ searchable' = Recovered
    /\ pending' = NoPending
    /\ lastSeq' = LastReplayed(logs, OpenDurableSeq)
    /\ memManifest' = OpenManifest
    /\ segs' = OpenSegs
    /\ currentJson' = IF Migrating THEN NoFile ELSE currentJson
    /\ UNCHANGED <<wal, hasManifest, manifest, pc, history, budget>>

\* index_document when v is a value, delete_document when v is Absent.
Write(d, v) ==
    /\ Idle /\ lastSeq < MaxSeq
    /\ logs' = AppendTo(logs, current, [seq |-> lastSeq + 1, doc |-> d, val |-> v])
    /\ pending' = [pending EXCEPT ![d] = v]
    /\ lastSeq' = lastSeq + 1
    /\ committed' = [committed EXCEPT ![d] = v]
    /\ ackedSeq' = [ackedSeq EXCEPT ![d] = lastSeq + 1]
    /\ indoubt' = indoubt \ {d}
    /\ swallowed' = swallowed \ {d}
    /\ damaged' = damaged \ {d}
    /\ UNCHANGED <<current, store, up, pc, searchable, memManifest, budget>>

\* The record reaches the file, but the call ends before it updates the handle:
\* sync_all failed, or the request was dropped while append was writing.
WriteFault(d, v) ==
    /\ Idle /\ lastSeq < MaxSeq /\ faults < MaxFaults
    /\ logs' = AppendTo(logs, current, [seq |-> lastSeq + 1, doc |-> d, val |-> v])
    /\ indoubt' = indoubt \cup {d}
    /\ faults' = faults + 1
    /\ UNCHANGED <<current, store, memory, committed, ackedSeq, swallowed, damaged, crashes>>

\* Mutant: refresh drops the pending deletes instead of applying them.
RefreshKeepsDeleted ==
    /\ Idle
    /\ searchable' = [d \in Docs |-> IF pending[d] \in Values THEN pending[d] ELSE searchable[d]]
    /\ pending' = NoPending
    /\ UNCHANGED <<disk, up, pc, lastSeq, memManifest, history, budget>>

\* Mutant: refresh does not replace a document that is searchable already.
RefreshKeepsOld ==
    /\ Idle
    /\ searchable' = [d \in Docs |-> IF searchable[d] # Absent /\ pending[d] # Absent
                                     THEN searchable[d] ELSE View[d]]
    /\ pending' = NoPending
    /\ UNCHANGED <<disk, up, pc, lastSeq, memManifest, history, budget>>

\* refresh
Refresh ==
    /\ Idle
    /\ searchable' = View
    /\ pending' = NoPending
    /\ UNCHANGED <<disk, up, pc, lastSeq, memManifest, history, budget>>

\* merge(), the explicit and the background one: current.json is all it writes.
Merge ==
    /\ Idle
    /\ currentJson' = [last |-> lastSeq, docs |-> View]
    /\ searchable' = View
    /\ UNCHANGED <<wal, segs, hasManifest, manifest, up, pc, pending, lastSeq, memManifest,
                   history, budget>>

\* It fails, or its request is dropped, after current.json was renamed into place.
MergeFault ==
    /\ Idle /\ faults < MaxFaults
    /\ currentJson' = [last |-> lastSeq, docs |-> View]
    /\ faults' = faults + 1
    /\ UNCHANGED <<wal, segs, hasManifest, manifest, memory, history, crashes>>

-----------------------------------------------------------------------------
\* flush, up to the point where it trims the WAL.

FlushRollover ==
    /\ Idle /\ current < MaxGen
    /\ current' = current + 1
    /\ pc' = "rolled"
    /\ UNCHANGED <<logs, store, up, searchable, pending, lastSeq, memManifest, history, budget>>

Segment(docs) == [last |-> lastSeq, docs |-> docs]

PutSegment(n, docs) ==
    segs' = [k \in DOMAIN segs \cup {n} |-> IF k = n THEN Segment(docs) ELSE segs[k]]

NewMeta(docs) == MetaOf(NextNum(memManifest), Segment(docs), Absent)

Pending == {d \in Docs : pending[d] # NoOp}

\* Mutant: a segment without documents is not written.
FlushSegmentUnlessEmpty ==
    /\ pc = "rolled"
    /\ IF searchable = Nothing THEN segs' = segs
       ELSE PutSegment(NextNum(memManifest), searchable)
    /\ pc' = "written"
    /\ swallowed' = IF NextNum(memManifest) \in Nums(manifest)
                    THEN {d \in Pending : ackedSeq[d] <= OpenDurableSeq}
                    ELSE swallowed
    /\ UNCHANGED <<wal, hasManifest, manifest, currentJson, up, searchable, pending, lastSeq, memManifest,
                   committed, ackedSeq, indoubt, damaged, budget>>

\* seg_n.json is renamed into place.  When the manifest on disk already names n
\* (its writer failed after the rename), the new file replaces what it named.
FlushSegment ==
    /\ pc = "rolled"
    /\ PutSegment(NextNum(memManifest), searchable)
    /\ pc' = "written"
    /\ swallowed' = IF NextNum(memManifest) \in Nums(manifest)
                    THEN {d \in Pending : ackedSeq[d] <= OpenDurableSeq}
                    ELSE swallowed
    /\ UNCHANGED <<wal, hasManifest, manifest, currentJson, up, searchable, pending, lastSeq, memManifest,
                   committed, ackedSeq, indoubt, damaged, budget>>

PublishFlushed ==
    /\ hasManifest' = TRUE
    /\ manifest' = memManifest \cup {NewMeta(searchable)}
    /\ swallowed' = Pending

FlushManifest ==
    /\ pc = "written"
    /\ PublishFlushed
    /\ memManifest' = manifest'
    /\ pc' = "trim"
    /\ UNCHANGED <<wal, segs, currentJson, up, searchable, pending, lastSeq,
                   committed, ackedSeq, indoubt, damaged, budget>>

\* write_index_manifest fails after its rename: the handle keeps the old manifest.
FlushManifestFault ==
    /\ pc = "written" /\ faults < MaxFaults
    /\ PublishFlushed
    /\ pc' = "idle"
    /\ faults' = faults + 1
    /\ UNCHANGED <<wal, segs, currentJson, up, searchable, pending, lastSeq, memManifest,
                   committed, ackedSeq, indoubt, damaged, crashes>>

\* trim_through, one file at a time in ascending generation number.
Covered == Trimmable(logs, current, lastSeq)

TrimGeneration ==
    /\ pc = "trim" /\ Covered # {}
    /\ logs' = RemoveGeneration(logs, CHOOSE g \in Covered : \A h \in Covered : g <= h)
    /\ UNCHANGED <<current, store, memory, history, budget>>

\* plan_merge decides whether the flush ends here.
FlushTrimmed ==
    /\ pc = "trim" /\ Covered = {}
    /\ pc' = IF PlanMerge(memManifest, Threshold) = {} THEN "idle" ELSE "merge"
    /\ UNCHANGED <<disk, up, searchable, pending, lastSeq, memManifest, history, budget>>

-----------------------------------------------------------------------------
\* apply_merge_plan, the last part of the flush.

Plan == PlanMerge(memManifest, Threshold)

MergedDocs == Overlay(LoadSegments(Plan, segs, Docs, Absent))

MergeSegment ==
    /\ pc = "merge"
    /\ PutSegment(NextNum(memManifest), MergedDocs)
    /\ pc' = "merged"
    /\ UNCHANGED <<wal, hasManifest, manifest, currentJson, up, searchable, pending, lastSeq, memManifest,
                   history, budget>>

\* The merged segment holds the pending operations too.  When the plan leaves
\* out the newest segment, documents of older ones come back as the newest.
PublishMerged ==
    /\ hasManifest' = TRUE
    /\ manifest' = (memManifest \ Plan) \cup {NewMeta(MergedDocs)}
    /\ swallowed' = {}
    /\ damaged' = IF LastMeta(memManifest) \in Plan THEN damaged ELSE Docs

MergePublish ==
    /\ pc = "merged"
    /\ PublishMerged
    /\ memManifest' = manifest'
    /\ searchable' = MergedDocs
    /\ pc' = "idle"
    /\ UNCHANGED <<wal, segs, currentJson, up, pending, lastSeq,
                   committed, ackedSeq, indoubt, budget>>

\* Its manifest write fails after the rename.
MergePublishFault ==
    /\ pc = "merged" /\ faults < MaxFaults
    /\ PublishMerged
    /\ pc' = "idle"
    /\ faults' = faults + 1
    /\ UNCHANGED <<wal, segs, currentJson, up, searchable, pending, lastSeq, memManifest,
                   committed, ackedSeq, indoubt, crashes>>

-----------------------------------------------------------------------------
\* A step of the flush or of its merge fails, or its future is dropped.
FlushFault ==
    /\ pc # "idle" /\ faults < MaxFaults
    /\ pc' = "idle"
    /\ faults' = faults + 1
    /\ UNCHANGED <<disk, up, searchable, pending, lastSeq, memManifest, history, crashes>>

\* The process ends: kill, panic, or the normal shutdown, which flushes nothing.
Crash ==
    /\ up /\ crashes < MaxCrashes
    /\ up' = FALSE
    /\ pc' = "idle"
    /\ searchable' = Nothing /\ pending' = NoPending /\ lastSeq' = 0 /\ memManifest' = {}
    /\ damaged' = damaged \cup swallowed
    /\ swallowed' = {}
    /\ crashes' = crashes + 1
    /\ UNCHANGED <<disk, committed, ackedSeq, indoubt, faults>>

Client == \E d \in Docs, v \in Contents : Write(d, v) \/ WriteFault(d, v)

FlushStep ==
    \/ FlushSegment \/ FlushManifest \/ TrimGeneration \/ FlushTrimmed
    \/ MergeSegment \/ MergePublish

Failure == MergeFault \/ FlushFault \/ FlushManifestFault \/ MergePublishFault \/ Crash

Next == Recover \/ Client \/ Refresh \/ Merge \/ FlushRollover \/ FlushStep \/ Failure

Spec == Init /\ [][Next]_vars

\* The refresh loop of the node runs for ever and the handle's mutex is fair, so
\* refresh gets the handle again and again; a flush that runs takes its next step.
FairSpec == Spec /\ WF_vars(Recover) /\ SF_vars(Refresh) /\ WF_vars(FlushStep)

-----------------------------------------------------------------------------
(***************************************************************************)
(* What the index must get right.                                          *)
(***************************************************************************)

\* The variables have their types, and only an open index runs a flush.
TypeOK ==
    /\ current \in Nat \ {0}
    /\ DOMAIN logs \subseteq 1..current
    /\ \A g \in DOMAIN logs : logs[g] \in Seq(Record) /\ logs[g] # <<>>
    /\ DOMAIN segs \subseteq Nat
    /\ \A n \in DOMAIN segs : segs[n] \in Snapshot
    /\ hasManifest \in BOOLEAN /\ (hasManifest \/ manifest = {})
    /\ manifest \subseteq Meta /\ IsFiniteSet(manifest)
    /\ memManifest \subseteq Meta /\ IsFiniteSet(memManifest)
    /\ currentJson \in Snapshot \cup {NoFile}
    /\ up \in BOOLEAN
    /\ pc \in {"idle", "rolled", "written", "trim", "merge", "merged"}
    /\ up \/ pc = "idle"
    /\ searchable \in DocMaps
    /\ pending \in [Docs -> Contents \cup {NoOp}]
    /\ lastSeq \in Nat
    /\ committed \in DocMaps
    /\ ackedSeq \in [Docs -> Nat]
    /\ indoubt \subseteq Docs /\ swallowed \subseteq Docs /\ damaged \subseteq Docs
    /\ crashes \in Nat /\ faults \in Nat

\* Whatever a crash interrupts, an acknowledged operation that no segment covers
\* yet decides what its document is after the restart: the records after the
\* manifest's sequence number are all still in the WAL, and replay ends with it.
TailWins ==
    \A d \in Docs \ indoubt :
        ackedSeq[d] > OpenDurableSeq => Recovered[d] = committed[d]

\* Replay reads the records in the order in which they were written: neither a
\* rollover nor a restart ever lets the sequence numbers in the WAL go back.
LogOrdered ==
    \A p, q \in Position(logs) :
        Before(p, q) => EntryAt(logs, p).seq <= EntryAt(logs, q).seq

\* After any restart the handle goes on above every acknowledged sequence number,
\* so no later operation can be taken for one that a segment covers already.
SequencesFresh == up => \A d \in Docs : ackedSeq[d] <= lastSeq

\* The manifest on disk, and the handle's copy, name only segment files that
\* exist, and none older than the manifest says.  (open_index skips a missing
\* file without a word, so a violation would lose documents silently.)
ManifestBacked ==
    \A m \in manifest \cup memManifest : m.num \in DOMAIN segs /\ segs[m.num].last >= m.last

\* A restart at this very moment brings back every acknowledged document with its
\* last content, at any step of a flush or a merge, unless a known gap touched it:
\* an operation left in doubt, a pending one that a flush claimed to have covered
\* (AckedUpsertsSurvive), or a late merge (PublishMerged).
RecoveryExact ==
    \A d \in Docs \ (indoubt \cup swallowed \cup damaged) :
        committed[d] # Absent => Recovered[d] = committed[d]

\* get_document answers every acknowledged document with its last content, before
\* and after refresh, flush, merge and restart, under the same exceptions.
ReadYourWrites ==
    up => \A d \in Docs \ (indoubt \cup damaged) :
              committed[d] # Absent => View[d] = committed[d]

\* A deleted document that no segment of a manifest holds stays deleted: searches
\* do not see it, and a restart does not bring it back although older records that
\* index it may still be in the WAL.
NoPhantom ==
    \A d \in Docs \ indoubt :
        committed[d] = Absent /\ Holders(OpenManifest \cup memManifest, OpenSegs, d, Absent) = {}
            => Recovered[d] = Absent /\ (up => View[d] = Absent)

\* What clients get from the index now, or would get if it were opened now.
Served == IF up THEN View ELSE Recovered

\* Deleted documents that a segment still holds: no segment records a deletion.
Undead ==
    {d \in Docs : committed[d] = Absent /\
                      Holders(OpenManifest \cup memManifest, OpenSegs, d, Absent) # {}}

Store ==
    INSTANCE DocStore
        WITH content <- Served, version <- ackedSeq, excused <- indoubt \cup damaged \cup Undead

\* The index is a map that only clients change: no refresh, flush, merge, failure,
\* crash or restart, whichever way they interleave, changes what a client gets for
\* a document, except for the documents of the known gaps.
ImplementsStore == Store!Spec

\* An acknowledged index operation becomes visible to searches, unless a later
\* operation, a restart or a known gap gets in between.
SearchCatchesUp ==
    \A d \in Docs, v \in Values :
        up /\ committed[d] = v
            ~> \/ searchable[d] = v \/ committed[d] # v
               \/ ~up \/ d \in indoubt \cup damaged

(***************************************************************************)
(* What the documentation says and the code does not do.                   *)
(***************************************************************************)

\* The WAL protects acknowledged writes until segments hold them: an acknowledged
\* document would come back if the process ended now.  (flush publishes the
\* searchable documents under a sequence number that covers the pending ones.)
AckedUpsertsSurvive ==
    \A d \in Docs \ indoubt : committed[d] # Absent => Recovered[d] = committed[d]

\* A directory of an older version is migrated when it is opened: a document that
\* came in its current.json, and that nobody has written since, would come back if
\* the process ended now.  (The manifest of the migration is kept in memory until
\* the first flush, and the next opening finds neither it nor current.json.)
LegacySurvives ==
    \A d \in Docs \ indoubt :
        ackedSeq[d] = 0 /\ committed[d] # Absent => Recovered[d] = committed[d]
=============================================================================
