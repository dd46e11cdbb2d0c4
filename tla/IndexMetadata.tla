--------------------------- MODULE IndexMetadata ---------------------------
(***************************************************************************)
(* The metadata of one index: its mappings, which index_document extends   *)
(* from what it receives, and its retention, which the settings route      *)
(* changes.  metadata.json has two writers that know nothing of each       *)
(* other: the open handle writes its own copy back whole, and              *)
(* IndexCatalog::update_index_settings reads, changes and writes the file  *)
(* under a lock that the handle never takes.  fs::write truncates first.   *)
(*                                                                         *)
(* The retention of documents is built on it: expiry times live in memory  *)
(* only and come back from the part of the WAL that is replayed.  How      *)
(* documents reach segments is IndexHandle's subject; here flush stands    *)
(* for a refresh and a flush that succeed.                                 *)
(***************************************************************************)
EXTENDS Naturals, FiniteSets

CONSTANTS
    Docs,       \* document ids
    Fields,     \* field names
    TimeField,  \* primary_time_field
    Sources,    \* the document sources that clients send
    Retentions, \* the values of retention_secs that the settings route receives
    Strict,     \* mapping_mode is strict
    Absent,     \* no document, no value, no type, no expiry, no retention
    Torn,       \* metadata.json does not parse
    NoJob,      \* nothing under way
    MaxFields,  \* MAX_FIELDS_PER_INDEX
    MaxTime,    \* bound: the clock
    MaxFaults   \* bound: failed operations and restarts

\* JSON values, as far as infer_field_type and extract_document_timestamp tell
\* them apart; "at" is the time that a timestamp or an integer stands for.
Classes == {"null", "bool", "int32", "int64", "uint64", "float", "string", "rfc3339",
            "array", "object"}
JsonValue == [class : Classes, at : Nat]
Types == {"keyword", "boolean", "integer", "long", "double", "timestamp", "object"}
Mappings == [Fields -> Types \cup {Absent}]
Content == [maps : Mappings, ret : Nat \cup {Absent}]

ASSUME SourcesAssumption    == Sources \subseteq [Fields -> JsonValue \cup {Absent}]
ASSUME TimeFieldAssumption  == TimeField \in Fields
ASSUME RetentionsAssumption == Retentions \subseteq Nat \cup {Absent}
ASSUME StrictAssumption     == Strict \in BOOLEAN
ASSUME AbsentAssumption     ==
    Absent \notin Nat /\ Absent \notin Types /\ Absent \notin Sources /\ Absent \notin JsonValue
ASSUME TornAssumption       == Torn \notin Content
ASSUME BoundsAssumption     == MaxFields \in Nat /\ MaxTime \in Nat /\ MaxFaults \in Nat
ASSUME DocsAssumption       == IsFiniteSet(Docs) /\ IsFiniteSet(Fields)

VARIABLES
    file,      \* metadata.json
    open,      \* the index is open
    mem,       \* the handle's copy of the metadata
    job,       \* the index_document that holds the handle
    update,    \* the update_index_settings that holds the catalog's lock
    raced,     \* the other writer wrote while this one had the file open
    docs,      \* what get_document answers
    tail,      \* documents whose last record a restart would replay
    timed,     \* the time that this replay finds last for a document: of its last version
               \* with a time, since the last delete record
    expiry,    \* document_timestamps
    now,       \* the clock
    unsaved,   \* fields with a mapping that the file may lack: a known gap
    lost,      \* such fields after a restart
    stale,     \* documents whose expiry is that of another version: a known gap
    faults

vars == <<file, open, mem, job, update, raced, docs, tail, timed, expiry, now, unsaved, lost, stale,
          faults>>
ghosts == <<unsaved, lost, stale>>

NoFields == [f \in Fields |-> Absent]

-----------------------------------------------------------------------------
\* infer_field_type

InferFieldType(value) ==
    CASE value.class = "bool" -> "boolean"
      [] value.class = "int32" -> "integer"
      [] value.class = "int64" -> "long"
      [] value.class \in {"uint64", "float"} -> "double"
      [] value.class = "string" -> "keyword"
      [] value.class = "rfc3339" -> "timestamp"
      [] value.class = "object" -> "object"

\* The fields that get a type: null leaves a field as it is.
Typed(source) == {f \in Fields : source[f] # Absent /\ source[f].class \notin {"null", "array"}}
Arrays(source) == {f \in Fields : source[f] # Absent /\ source[f].class = "array"}

Mapped(maps) == {f \in Fields : maps[f] # Absent}
NewFields(maps, source) == Typed(source) \ Mapped(maps)

\* Mutant: the type of a field is not compared with the one it has.
AcceptsAnyType(maps, source) ==
    /\ Arrays(source) = {}
    /\ Strict => NewFields(maps, source) = {}
    /\ Cardinality(Mapped(maps) \cup Typed(source)) <= MaxFields

\* validate_and_update_mappings, up to the point where it changes anything.
Accepts(maps, source) ==
    /\ Arrays(source) = {}
    /\ \A f \in Typed(source) \cap Mapped(maps) : maps[f] = InferFieldType(source[f])
    /\ Strict => NewFields(maps, source) = {}
    /\ Cardinality(Mapped(maps) \cup Typed(source)) <= MaxFields

\* Mutant: the mapping is the JSON class of the value.
ExtendByClass(maps, source) ==
    [f \in Fields |-> IF f \in NewFields(maps, source) THEN source[f].class ELSE maps[f]]

Extend(maps, source) ==
    [f \in Fields |-> IF f \in NewFields(maps, source) THEN InferFieldType(source[f]) ELSE maps[f]]

\* extract_document_timestamp
TimeOf(source) ==
    IF source[TimeField] # Absent /\ source[TimeField].class \in {"rfc3339", "int32", "int64"}
    THEN source[TimeField].at ELSE Absent

\* Added to the time of a document even when there is no retention.
Retention(meta) == IF meta.ret = Absent THEN 0 ELSE meta.ret

\* has_retention_policy; the primary time field is set here.
HasRetentionPolicy == mem.ret # Absent

-----------------------------------------------------------------------------
Init ==
    /\ file \in [maps : {NoFields}, ret : Retentions]
    /\ open = FALSE /\ mem = file
    /\ job = NoJob /\ update = NoJob /\ raced = FALSE
    /\ docs = [d \in Docs |-> Absent] /\ tail = {} /\ timed = [d \in Docs |-> Absent]
    /\ expiry = [d \in Docs |-> Absent]
    /\ now = 0
    /\ unsaved = {} /\ lost = {} /\ stale = {}
    /\ faults = 0

Idle == open /\ job = NoJob

\* Mutant: a restart counts the retention of a replayed document from now on.
ReplayedToday(d, meta) ==
    IF timed[d] # Absent /\ meta.ret # Absent THEN now + meta.ret ELSE Absent

\* Mutant: replay does not compute expiry times.
ReplayedNever(d, meta) == Absent

\* The expiry that replay computes, record by record: one with a time replaces it, one
\* without leaves it, a delete record takes it away.
Replayed(d, meta) ==
    IF timed[d] # Absent /\ meta.ret # Absent THEN timed[d] + meta.ret ELSE Absent

\* open_index, which takes the catalog's lock.
OpenIndex ==
    /\ ~open /\ file # Torn /\ update = NoJob
    /\ open' = TRUE
    /\ mem' = file
    /\ expiry' = [d \in Docs |-> Replayed(d, file)]
    /\ lost' = lost \cup unsaved
    /\ unsaved' = {}
    /\ stale' = {d \in Docs : docs[d] # Absent /\ timed[d] # Absent /\ TimeOf(docs[d]) = Absent}
    /\ UNCHANGED <<file, job, update, raced, docs, tail, timed, now, faults>>

-----------------------------------------------------------------------------
\* index_document

\* The mapping is in memory before the file is opened for writing.
ExtendMappings(d, s) ==
    /\ Idle /\ Accepts(mem.maps, s) /\ NewFields(mem.maps, s) # {}
    /\ mem' = [mem EXCEPT !.maps = Extend(@, s)]
    /\ file' = Torn
    /\ raced' = FALSE
    /\ job' = [doc |-> d, source |-> s, phase |-> "persist"]
    /\ UNCHANGED <<open, update, docs, tail, timed, expiry, now, ghosts, faults>>

\* What is in the file when a writer that truncated it has written: its own
\* content, or two of them mixed when the other one wrote in between.
Written(content) == IF raced THEN {content, Torn} ELSE {content}

\* Mutant: the time field is left out of what the handle writes.
PersistStale ==
    /\ job # NoJob /\ job.phase = "persist"
    /\ file' = [mem EXCEPT !.maps[TimeField] = Absent]
    /\ raced' = (update # NoJob /\ update.phase = "write")
    /\ unsaved' = {}
    /\ job' = [job EXCEPT !.phase = "append"]
    /\ UNCHANGED <<open, mem, update, docs, tail, timed, expiry, now, lost, stale, faults>>

PersistMetadata ==
    /\ job # NoJob /\ job.phase = "persist"
    /\ file' \in Written(mem)
    /\ raced' = (update # NoJob /\ update.phase = "write")
    /\ unsaved' = {}
    /\ job' = [job EXCEPT !.phase = "append"]
    /\ UNCHANGED <<open, mem, update, docs, tail, timed, expiry, now, lost, stale, faults>>

\* The disk is full: the request fails, the mapping stays in memory, and no later
\* document with the same fields writes it again.
PersistFails ==
    /\ job # NoJob /\ job.phase = "persist" /\ faults < MaxFaults
    /\ unsaved' = unsaved \cup Typed(job.source)
    /\ job' = NoJob
    /\ faults' = faults + 1
    /\ UNCHANGED <<file, open, mem, update, raced, docs, tail, timed, expiry, now, lost, stale>>

\* No field is new, so there is nothing to persist.
SkipMappings(d, s) ==
    /\ Idle /\ Accepts(mem.maps, s) /\ NewFields(mem.maps, s) = {}
    /\ job' = [doc |-> d, source |-> s, phase |-> "append"]
    /\ UNCHANGED <<file, open, mem, update, raced, docs, tail, timed, expiry, now, ghosts, faults>>

\* The expiry is noted before the record is written, and left alone when the
\* document has no time.
NoteExpiry(d, s) ==
    expiry' = IF TimeOf(s) = Absent THEN expiry
              ELSE [expiry EXCEPT ![d] = TimeOf(s) + Retention(mem)]

Append ==
    /\ job # NoJob /\ job.phase = "append"
    /\ LET d == job.doc s == job.source
       IN /\ NoteExpiry(d, s)
          /\ docs' = [docs EXCEPT ![d] = s]
          /\ tail' = tail \cup {d}
          /\ timed' = [timed EXCEPT ![d] = IF TimeOf(s) = Absent THEN @ ELSE TimeOf(s)]
          /\ stale' = IF TimeOf(s) = Absent /\ expiry[d] # Absent THEN stale \cup {d} ELSE stale \ {d}
    /\ job' = NoJob
    /\ UNCHANGED <<file, open, mem, update, raced, now, unsaved, lost, faults>>

AppendFails ==
    /\ job # NoJob /\ job.phase = "append" /\ faults < MaxFaults
    /\ NoteExpiry(job.doc, job.source)
    /\ stale' = IF TimeOf(job.source) = Absent THEN stale ELSE stale \cup {job.doc}
    /\ job' = NoJob
    /\ faults' = faults + 1
    /\ UNCHANGED <<file, open, mem, update, raced, docs, tail, timed, now, unsaved, lost>>

\* delete_document leaves the expiry where it is.
DeleteDocument(d) ==
    /\ Idle /\ docs[d] # Absent
    /\ docs' = [docs EXCEPT ![d] = Absent]
    /\ tail' = tail \cup {d} /\ timed' = [timed EXCEPT ![d] = Absent]
    /\ UNCHANGED <<file, open, mem, job, update, raced, expiry, now, ghosts, faults>>

\* flush: segments hold the documents, and replay starts after them.
Flush ==
    /\ Idle /\ tail # {}
    /\ tail' = {} /\ timed' = [d \in Docs |-> Absent]
    /\ UNCHANGED <<file, open, mem, job, update, raced, docs, expiry, now, ghosts, faults>>

\* restore_snapshot of the documents as they are: the expiry times are computed afresh.
Restore ==
    /\ Idle
    /\ expiry' = [d \in Docs |->
          IF docs[d] # Absent /\ HasRetentionPolicy /\ TimeOf(docs[d]) # Absent
          THEN TimeOf(docs[d]) + mem.ret ELSE Absent]
    /\ stale' = {}
    /\ UNCHANGED <<file, open, mem, job, update, raced, docs, tail, timed, now, unsaved, lost, faults>>

-----------------------------------------------------------------------------
\* Retention

Expired == {d \in Docs : expiry[d] # Absent /\ expiry[d] <= now}

Evicted(gone) ==
    /\ docs' = [d \in Docs |-> IF d \in gone THEN Absent ELSE docs[d]]
    /\ expiry' = [d \in Docs |-> IF d \in gone THEN Absent ELSE expiry[d]]
    /\ tail' = tail \cup gone
    /\ timed' = [d \in Docs |-> IF d \in gone THEN Absent ELSE timed[d]]
    /\ stale' = stale \ gone
    /\ UNCHANGED <<file, open, mem, job, update, raced, now, unsaved, lost>>

\* evict_expired_documents
Evict ==
    /\ Idle /\ HasRetentionPolicy /\ Expired # {}
    /\ Evicted(Expired)
    /\ UNCHANGED faults

\* Writing one of the delete records fails.
EvictFails ==
    /\ Idle /\ HasRetentionPolicy /\ faults < MaxFaults
    /\ \E gone \in SUBSET Expired : gone # Expired /\ Evicted(gone)
    /\ faults' = faults + 1

Tick ==
    /\ now < MaxTime
    /\ now' = now + 1
    /\ UNCHANGED <<file, open, mem, job, update, raced, docs, tail, timed, expiry, ghosts, faults>>

-----------------------------------------------------------------------------
\* IndexCatalog::update_index_settings: read, truncate, write.

ReadSettings(r) ==
    /\ update = NoJob /\ file # Torn
    /\ update' = [content |-> [file EXCEPT !.ret = r], phase |-> "truncate"]
    /\ UNCHANGED <<file, open, mem, job, raced, docs, tail, timed, expiry, now, ghosts, faults>>

TruncateSettings ==
    /\ update # NoJob /\ update.phase = "truncate"
    /\ file' = Torn
    /\ raced' = FALSE
    /\ update' = [update EXCEPT !.phase = "write"]
    /\ UNCHANGED <<open, mem, job, docs, tail, timed, expiry, now, ghosts, faults>>

\* Mappings that the handle has persisted since the read are overwritten.
WriteSettings ==
    /\ update # NoJob /\ update.phase = "write"
    /\ file' \in Written(update.content)
    /\ raced' = (job # NoJob /\ job.phase = "persist")
    /\ unsaved' = unsaved \cup {f \in Fields : open /\ mem.maps[f] # update.content.maps[f]}
    /\ update' = NoJob
    /\ UNCHANGED <<open, mem, job, docs, tail, timed, expiry, now, lost, stale, faults>>

\* The process ends and what was being written stays as it is.
Restart ==
    /\ open /\ faults < MaxFaults
    /\ open' = FALSE
    /\ job' = NoJob /\ update' = NoJob /\ raced' = FALSE
    /\ expiry' = [d \in Docs |-> Absent]
    /\ stale' = {}
    /\ faults' = faults + 1
    /\ UNCHANGED <<file, mem, docs, tail, timed, now, unsaved, lost>>

IndexDocument ==
    \/ \E d \in Docs, s \in Sources : ExtendMappings(d, s) \/ SkipMappings(d, s)
    \/ PersistMetadata \/ PersistFails \/ Append \/ AppendFails

UpdateSettings == (\E r \in Retentions : ReadSettings(r)) \/ TruncateSettings \/ WriteSettings

Next ==
    \/ OpenIndex \/ IndexDocument \/ (\E d \in Docs : DeleteDocument(d)) \/ Flush \/ Restore
    \/ Evict \/ EvictFails \/ Tick \/ UpdateSettings \/ Restart

Spec == Init /\ [][Next]_vars

-----------------------------------------------------------------------------
(***************************************************************************)
(* What the metadata and the retention must get right.                     *)
(***************************************************************************)

\* The variables have their types.
TypeOK ==
    /\ file \in Content \cup {Torn}
    /\ open \in BOOLEAN /\ mem \in Content /\ raced \in BOOLEAN
    /\ job # NoJob => open /\ job \in [doc : Docs, source : Sources, phase : {"persist", "append"}]
    /\ update # NoJob => update \in [content : Content, phase : {"truncate", "write"}]
    /\ docs \in [Docs -> Sources \cup {Absent}] /\ tail \subseteq Docs
    /\ timed \in [Docs -> Nat \cup {Absent}]
    /\ expiry \in [Docs -> Nat \cup {Absent}] /\ now \in Nat
    /\ unsaved \subseteq Fields /\ lost \subseteq Fields /\ stale \subseteq Docs
    /\ faults \in Nat

\* The mappings have the type of every field of the documents, but for the gaps.
Agrees(maps, documents, gaps) ==
    \A d \in Docs : documents[d] # Absent =>
        \A f \in Typed(documents[d]) \ gaps : maps[f] = InferFieldType(documents[d][f])

\* A field has one type in all the documents of an open index, the one in its
\* mapping, also after restarts, unless a restart lost the mapping: queries and
\* aggregations read the documents by that type.
DocsMatchMappings == open => Agrees(mem.maps, docs, lost)

\* Whenever metadata.json can be read it has the type of every field of every
\* document, whatever the other writer of the file does in between, but for the
\* two known gaps: a settings update that had read the file before the mapping
\* was added, and a mapping whose write failed.
MappingsSurvive == file # Torn => Agrees(file.maps, docs, unsaved \cup lost)

\* A document is evicted by its own time: the expiry that the handle keeps for it
\* is the one of the version that it stores, through rewrites, deletes, failed
\* writes, restores and restarts.  The known gap, where the
\* documentation says that documents without a timestamp field are never evicted: a
\* version without a time leaves an older one's expiry in place, when it is written
\* and again when it is replayed.  A record that was never written leaves its own.
ExpiryIsOwn ==
    open => \A d \in Docs \ stale : docs[d] # Absent /\ expiry[d] # Absent =>
                TimeOf(docs[d]) # Absent /\ expiry[d] = TimeOf(docs[d]) + Retention(mem)

\* A document with a time that a restart would replay is one that eviction knows
\* of, before and after the restart.  (One that only segments hold is forgotten.)
TailRemembers ==
    open /\ HasRetentionPolicy =>
        \A d \in tail : docs[d] # Absent /\ TimeOf(docs[d]) # Absent => expiry[d] # Absent
=============================================================================
