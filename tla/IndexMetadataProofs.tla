------------------------ MODULE IndexMetadataProofs ------------------------
(***************************************************************************)
(* Theorems about module IndexMetadata, for every set of documents, fields *)
(* and sources, every retention and either mapping mode.                   *)
(***************************************************************************)
EXTENDS IndexMetadata, TLAPS

-----------------------------------------------------------------------------
\* The type of what the helpers return.

\* A source has JSON values in its fields.
LEMMA SourceValue ==
    ASSUME NEW s \in Sources, NEW f \in Fields, s[f] # Absent
    PROVE  s[f] \in JsonValue
BY SourcesAssumption

\* A field that gets a type gets one of the field types.
LEMMA InferType ==
    ASSUME NEW s \in Sources, NEW f \in Typed(s)
    PROVE  f \in Fields /\ InferFieldType(s[f]) \in Types
<1>1. f \in Fields /\ s[f] # Absent /\ s[f].class \notin {"null", "array"}
  BY DEF Typed
<1>2. s[f].class \in Classes
  BY <1>1, SourceValue DEF JsonValue
<1>3. s[f].class \in {"bool", "int32", "int64", "uint64", "float", "string", "rfc3339", "object"}
  BY <1>1, <1>2 DEF Classes
<1> QED BY <1>1, <1>3 DEF InferFieldType, Types

\* The time of a document is a natural number when there is one.
LEMMA TimeType ==
    ASSUME NEW s \in Sources
    PROVE  TimeOf(s) \in Nat \cup {Absent}
<1>1. s[TimeField] # Absent => s[TimeField].at \in Nat
  BY SourceValue, TimeFieldAssumption DEF JsonValue
<1> QED BY <1>1 DEF TimeOf

\* Extending mappings gives mappings.
LEMMA ExtendType ==
    ASSUME NEW maps \in Mappings, NEW s \in Sources
    PROVE  Extend(maps, s) \in Mappings
<1>1. ASSUME NEW f \in Fields
      PROVE  (IF f \in NewFields(maps, s) THEN InferFieldType(s[f]) ELSE maps[f])
                 \in Types \cup {Absent}
  BY <1>1, InferType DEF NewFields, Mappings
<1> QED BY <1>1 DEF Extend, Mappings

\* The retention that is added to the time of a document is a number.
LEMMA RetentionType ==
    ASSUME NEW meta \in Content
    PROVE  Retention(meta) \in Nat
BY DEF Retention, Content

\* Noting the expiry of a document keeps the table of expiry times well typed.
LEMMA NoteExpiryType ==
    ASSUME expiry \in [Docs -> Nat \cup {Absent}], mem \in Content,
           NEW d \in Docs, NEW s \in Sources, NoteExpiry(d, s)
    PROVE  expiry' \in [Docs -> Nat \cup {Absent}]
<1>1. TimeOf(s) # Absent => TimeOf(s) + Retention(mem) \in Nat
  BY TimeType, RetentionType
<1> QED BY <1>1 DEF NoteExpiry

\* So does replaying the tail.
LEMMA ReplayedType ==
    ASSUME timed \in [Docs -> Nat \cup {Absent}], NEW meta \in Content, NEW d \in Docs
    PROVE  Replayed(d, meta) \in Nat \cup {Absent}
<1>1. timed[d] # Absent /\ meta.ret # Absent => timed[d] + meta.ret \in Nat
  BY DEF Content
<1> QED BY <1>1 DEF Replayed

-----------------------------------------------------------------------------
\* Type correctness.

\* The first state has its type.
LEMMA TypeInit == Init => TypeOK
<1> SUFFICES ASSUME Init PROVE TypeOK
  OBVIOUS
<1>1. file \in Content /\ mem \in Content
  BY RetentionsAssumption DEF Init, Content, Mappings, NoFields
<1> QED BY <1>1 DEF Init, TypeOK

\* Every step keeps it.
LEMMA TypeStep ==
    ASSUME TypeOK, [Next]_vars
    PROVE  TypeOK'
<1> USE DEF TypeOK
<1>1. CASE OpenIndex
  BY <1>1, ReplayedType, TornAssumption DEF OpenIndex
<1>2. ASSUME NEW d \in Docs, NEW s \in Sources, ExtendMappings(d, s)
      PROVE  TypeOK'
  <2>1. mem' \in Content
    BY <1>2, ExtendType DEF ExtendMappings, Content
  <2> QED BY <1>2, <2>1 DEF ExtendMappings, Idle, ghosts
<1>3. ASSUME NEW d \in Docs, NEW s \in Sources, SkipMappings(d, s)
      PROVE  TypeOK'
  BY <1>3 DEF SkipMappings, Idle, ghosts
<1>4. CASE PersistMetadata
  BY <1>4 DEF PersistMetadata, Written
<1>5. CASE PersistFails
  BY <1>5 DEF PersistFails, Typed
<1>6. CASE Append
  <2>1. expiry' \in [Docs -> Nat \cup {Absent}]
    BY <1>6, NoteExpiryType DEF Append
  <2>2. job.source \in Sources
    BY <1>6 DEF Append
  <2>3. timed' \in [Docs -> Nat \cup {Absent}]
    BY <1>6, <2>2, TimeType DEF Append
  <2> QED BY <1>6, <2>1, <2>3 DEF Append
<1>7. CASE AppendFails
  <2>1. expiry' \in [Docs -> Nat \cup {Absent}]
    BY <1>7, NoteExpiryType DEF AppendFails
  <2> QED BY <1>7, <2>1 DEF AppendFails
<1>8. ASSUME NEW d \in Docs, DeleteDocument(d)
      PROVE  TypeOK'
  BY <1>8 DEF DeleteDocument, ghosts
<1>9. CASE Flush
  BY <1>9 DEF Flush, ghosts
<1>10. CASE Restore
  <2>1. ASSUME NEW d \in Docs
        PROVE  (IF docs[d] # Absent /\ HasRetentionPolicy /\ TimeOf(docs[d]) # Absent
                THEN TimeOf(docs[d]) + mem.ret ELSE Absent) \in Nat \cup {Absent}
    BY <2>1, TimeType DEF HasRetentionPolicy, Content
  <2>2. expiry' \in [Docs -> Nat \cup {Absent}]
    BY <1>10, <2>1 DEF Restore
  <2> QED BY <1>10, <2>2 DEF Restore
<1>11. ASSUME NEW gone \in SUBSET Docs, Evicted(gone), faults' \in Nat
       PROVE  TypeOK'
  <2>1. docs' \in [Docs -> Sources \cup {Absent}]
    BY <1>11 DEF Evicted
  <2>2. expiry' \in [Docs -> Nat \cup {Absent}]
    BY <1>11 DEF Evicted
  <2>3. UNCHANGED <<file, open, mem, job, update, raced, now, unsaved, lost>>
    BY <1>11 DEF Evicted
  <2>4. /\ stale' \subseteq Docs /\ tail' \subseteq Docs
        /\ timed' \in [Docs -> Nat \cup {Absent}]
    BY <1>11 DEF Evicted
  <2> QED BY <1>11, <2>1, <2>2, <2>3, <2>4
<1>12. CASE Evict
  BY <1>12, <1>11 DEF Evict, Expired
<1>13. CASE EvictFails
  <2>1. PICK gone \in SUBSET Expired : Evicted(gone)
    BY <1>13 DEF EvictFails
  <2>2. gone \subseteq Docs /\ faults' \in Nat
    BY <1>13, <2>1 DEF EvictFails, Expired
  <2> QED BY <2>1, <2>2, <1>11
<1>14. CASE Tick
  BY <1>14 DEF Tick, ghosts
<1>15. ASSUME NEW r \in Retentions, ReadSettings(r)
       PROVE  TypeOK'
  BY <1>15, RetentionsAssumption DEF ReadSettings, Content, ghosts
<1>16. CASE TruncateSettings
  BY <1>16 DEF TruncateSettings, ghosts
<1>17. CASE WriteSettings
  BY <1>17 DEF WriteSettings, Written
<1>18. CASE Restart
  <2>1. expiry' \in [Docs -> Nat \cup {Absent}]
    BY <1>18 DEF Restart
  <2>2. UNCHANGED <<file, mem, docs, tail, timed, now, unsaved, lost>>
    BY <1>18 DEF Restart
  <2>3. open' = FALSE /\ job' = NoJob /\ update' = NoJob /\ raced' = FALSE /\ stale' = {}
    BY <1>18 DEF Restart
  <2>4. faults' \in Nat
    BY <1>18 DEF Restart
  <2> QED BY <2>1, <2>2, <2>3, <2>4
<1>19. CASE UNCHANGED vars
  BY <1>19 DEF vars, ghosts
<1> QED
  BY <1>1, <1>2, <1>3, <1>4, <1>5, <1>6, <1>7, <1>8, <1>9, <1>10, <1>12, <1>13, <1>14,
     <1>15, <1>16, <1>17, <1>18, <1>19 DEF Next, IndexDocument, UpdateSettings

\* The metadata, the documents and the expiry times keep their types.
THEOREM Typing == Spec => []TypeOK
BY TypeInit, TypeStep, PTL DEF Spec

-----------------------------------------------------------------------------
(***************************************************************************)
(* The types of fields.  That the documents agree with the mappings is not *)
(* inductive: a document is stored two steps after its mapping has been    *)
(* settled, and the file is written by two writers.  The invariant adds    *)
(* what holds in between.                                                  *)
(***************************************************************************)

\* The document that is being indexed agrees with the mappings in memory.
JobMatches ==
    job # NoJob => \A f \in Typed(job.source) : mem.maps[f] = InferFieldType(job.source[f])

\* The file has the handle's mappings, but for the fields recorded as unsaved or lost.
FileHasMappings ==
    open /\ file # Torn => \A f \in Fields \ (unsaved \cup lost) : file.maps[f] = mem.maps[f]

\* A settings update of an index that is not open writes back mappings as good as those it read.
UpdateMatches ==
    update # NoJob /\ ~open => Agrees(update.content.maps, docs, unsaved \cup lost)

MappingInv ==
    /\ TypeOK /\ DocsMatchMappings /\ MappingsSurvive
    /\ JobMatches /\ FileHasMappings /\ UpdateMatches

\* Mappings that agree with the documents still do when documents disappear, when
\* more fields are excused, and when every field that is mapped keeps its type.
LEMMA AgreesMonotone ==
    ASSUME NEW old \in [Docs -> Sources \cup {Absent}], NEW new,
           NEW maps, NEW gaps, Agrees(maps, old, gaps),
           NEW others, NEW excused, gaps \subseteq excused,
           \A f \in Fields \ excused : maps[f] \in Types => others[f] = maps[f],
           \A d \in Docs : new[d] # Absent => new[d] = old[d]
    PROVE  Agrees(others, new, excused)
<1> SUFFICES ASSUME NEW d \in Docs, new[d] # Absent,
                    NEW f \in Typed(new[d]) \ excused
             PROVE  others[f] = InferFieldType(new[d][f])
  BY DEF Agrees
<1>1. new[d] = old[d] /\ old[d] \in Sources
  OBVIOUS
<1>2. maps[f] = InferFieldType(old[d][f])
  BY <1>1 DEF Agrees
<1>3. maps[f] \in Types /\ f \in Fields
  BY <1>1, <1>2, InferType
<1> QED BY <1>1, <1>2, <1>3

\* Storing a document keeps mappings that agree with it in agreement.
LEMMA AgreesStore ==
    ASSUME NEW old \in [Docs -> Sources \cup {Absent}], NEW e \in Docs, NEW s \in Sources,
           NEW maps, NEW gaps, Agrees(maps, old, gaps),
           \A f \in Typed(s) \ gaps : maps[f] = InferFieldType(s[f])
    PROVE  Agrees(maps, [old EXCEPT ![e] = s], gaps)
BY DEF Agrees

\* The same for what a document that is being indexed contains.
LEMMA ExtendAgrees ==
    ASSUME NEW maps \in Mappings, NEW s \in Sources, Accepts(maps, s)
    PROVE  /\ \A f \in Typed(s) : Extend(maps, s)[f] = InferFieldType(s[f])
           /\ \A f \in Fields : maps[f] \in Types => Extend(maps, s)[f] = maps[f]
<1>1. ASSUME NEW f \in Fields, maps[f] \in Types
      PROVE  Extend(maps, s)[f] = maps[f]
  BY <1>1, AbsentAssumption DEF Extend, NewFields, Mapped
<1>2. ASSUME NEW f \in Typed(s)
      PROVE  Extend(maps, s)[f] = InferFieldType(s[f])
  <2>1. f \in Fields
    BY DEF Typed
  <2>2. CASE f \in Mapped(maps)
    BY <2>1, <2>2 DEF Accepts, Extend, NewFields
  <2>3. CASE f \notin Mapped(maps)
    BY <2>1, <2>3 DEF Extend, NewFields
  <2> QED BY <2>2, <2>3
<1> QED BY <1>1, <1>2

\* The first state has no documents.
LEMMA MappingInit == Init => MappingInv
<1> SUFFICES ASSUME Init PROVE MappingInv
  OBVIOUS
<1>1. TypeOK
  BY TypeInit
<1>2. \A maps, gaps : Agrees(maps, docs, gaps)
  BY DEF Init, Agrees
<1> QED BY <1>1, <1>2 DEF Init, MappingInv, DocsMatchMappings, MappingsSurvive, JobMatches,
           FileHasMappings, UpdateMatches

\* Every step keeps the invariant.
LEMMA MappingStep ==
    ASSUME MappingInv, [Next]_vars
    PROVE  MappingInv'
<1>0. TypeOK /\ TypeOK'
  BY TypeStep DEF MappingInv
<1>a. docs \in [Docs -> Sources \cup {Absent}] /\ docs' \in [Docs -> Sources \cup {Absent}]
  BY <1>0 DEF TypeOK
<1>1. CASE OpenIndex
  <2>1. Agrees(file.maps, docs, unsaved \cup lost)
    BY <1>1 DEF MappingInv, MappingsSurvive, OpenIndex
  <2> QED BY <1>0, <1>1, <2>1
          DEF MappingInv, DocsMatchMappings, MappingsSurvive, JobMatches, FileHasMappings,
              UpdateMatches, OpenIndex, TypeOK
<1>2. ASSUME NEW d \in Docs, NEW s \in Sources, ExtendMappings(d, s)
      PROVE  MappingInv'
  <2>1. mem \in Content /\ mem' = [mem EXCEPT !.maps = Extend(mem.maps, s)]
    BY <1>0, <1>2 DEF TypeOK, ExtendMappings
  <2>2. mem.maps \in Mappings /\ mem'.maps = Extend(mem.maps, s)
    BY <2>1 DEF Content
  <2>3. Accepts(mem.maps, s)
    BY <1>2 DEF ExtendMappings
  <2>4. /\ \A f \in Typed(s) : mem'.maps[f] = InferFieldType(s[f])
        /\ \A f \in Fields : mem.maps[f] \in Types => mem'.maps[f] = mem.maps[f]
    BY <2>2, <2>3, ExtendAgrees
  <2>5. Agrees(mem.maps, docs, lost)
    BY <1>2 DEF MappingInv, DocsMatchMappings, ExtendMappings, Idle
  <2>6. Agrees(mem'.maps, docs, lost)
    BY <1>a, <2>4, <2>5, AgreesMonotone
  <2> QED BY <1>0, <1>2, <2>4, <2>6
          DEF MappingInv, DocsMatchMappings, MappingsSurvive, JobMatches, FileHasMappings,
              UpdateMatches, ExtendMappings, Idle, ghosts
<1>3. ASSUME NEW d \in Docs, NEW s \in Sources, SkipMappings(d, s)
      PROVE  MappingInv'
  <2>1. \A f \in Typed(s) : mem.maps[f] = InferFieldType(s[f])
    BY <1>3 DEF SkipMappings, Accepts, NewFields
  <2> QED BY <1>0, <1>3, <2>1
          DEF MappingInv, DocsMatchMappings, MappingsSurvive, JobMatches, FileHasMappings,
              UpdateMatches, SkipMappings, Idle, ghosts
<1>4. CASE PersistMetadata
  <2>1. open /\ Agrees(mem.maps, docs, lost)
    BY <1>4 DEF MappingInv, DocsMatchMappings, PersistMetadata, TypeOK
  <2>2. job'.source = job.source /\ (file' = mem \/ file' = Torn) /\ unsaved' = {}
    BY <1>0, <1>4 DEF PersistMetadata, Written, TypeOK
  <2>3. UNCHANGED <<open, mem, update, docs, lost>>
    BY <1>4 DEF PersistMetadata
  <2>4. JobMatches'
    BY <1>4, <2>2, <2>3 DEF MappingInv, JobMatches, PersistMetadata
  <2> QED BY <1>0, <2>1, <2>2, <2>3, <2>4
          DEF MappingInv, DocsMatchMappings, MappingsSurvive, FileHasMappings, UpdateMatches
<1>5. CASE PersistFails
  <2>1. UNCHANGED <<file, open, mem, update, docs, lost>> /\ job' = NoJob
    BY <1>5 DEF PersistFails
  <2>2. unsaved \cup lost \subseteq unsaved' \cup lost' /\ open
    BY <1>5, <1>0 DEF PersistFails, TypeOK
  <2>3. file # Torn => Agrees(file.maps, docs, unsaved' \cup lost')
    BY <1>a, <2>2, AgreesMonotone DEF MappingInv, MappingsSurvive
  <2> QED BY <1>0, <2>1, <2>2, <2>3
          DEF MappingInv, DocsMatchMappings, MappingsSurvive, JobMatches, FileHasMappings,
              UpdateMatches
<1>6. CASE Append
  <2> DEFINE e == job.doc
             s == job.source
  <2>1. open /\ e \in Docs /\ s \in Sources /\ docs' = [docs EXCEPT ![e] = s]
    BY <1>0, <1>6 DEF TypeOK, Append
  <2>2. UNCHANGED <<file, open, mem, update, unsaved, lost>> /\ job' = NoJob
    BY <1>6 DEF Append
  <2>3. \A f \in Typed(s) : f \in Fields /\ mem.maps[f] = InferFieldType(s[f])
    BY <1>6 DEF Append, MappingInv, JobMatches, Typed
  <2>4. Agrees(mem.maps, docs', lost)
    <3>1. Agrees(mem.maps, docs, lost)
      BY <2>1 DEF MappingInv, DocsMatchMappings
    <3> HIDE DEF e, s
    <3> QED BY <1>a, <2>1, <2>3, <3>1, AgreesStore
  <2>5. ASSUME file # Torn PROVE Agrees(file.maps, docs', unsaved \cup lost)
    <3>1. Agrees(file.maps, docs, unsaved \cup lost)
      BY <2>5 DEF MappingInv, MappingsSurvive
    <3>2. \A f \in Typed(s) \ (unsaved \cup lost) : file.maps[f] = InferFieldType(s[f])
      BY <2>1, <2>3, <2>5 DEF MappingInv, FileHasMappings
    <3> HIDE DEF e, s
    <3> QED BY <1>a, <2>1, <3>1, <3>2, AgreesStore
  <2> QED BY <1>0, <2>1, <2>2, <2>4, <2>5
          DEF MappingInv, DocsMatchMappings, MappingsSurvive, JobMatches, FileHasMappings,
              UpdateMatches
\* Steps that only take documents away, or nothing that the invariant is about.
<1>7. ASSUME UNCHANGED <<file, open, mem, unsaved, lost>>,
             job' \in {job, NoJob}, update' = update,
             \A d \in Docs : docs'[d] # Absent => docs'[d] = docs[d]
      PROVE  MappingInv'
  <2>1. ASSUME NEW maps, NEW gaps, Agrees(maps, docs, gaps)
        PROVE  Agrees(maps, docs', gaps)
    BY <1>7, <1>a, <2>1, AgreesMonotone
  <2> QED BY <1>0, <1>7, <2>1
          DEF MappingInv, DocsMatchMappings, MappingsSurvive, JobMatches, FileHasMappings,
              UpdateMatches
<1>8. CASE AppendFails
  BY <1>7, <1>8 DEF AppendFails
<1>9. ASSUME NEW d \in Docs, DeleteDocument(d)
      PROVE  MappingInv'
  BY <1>0, <1>7, <1>9 DEF DeleteDocument, ghosts, TypeOK
<1>10. CASE Flush
  BY <1>7, <1>10 DEF Flush, ghosts
<1>11. CASE Restore
  BY <1>7, <1>11 DEF Restore
<1>12. ASSUME NEW gone, Evicted(gone)
       PROVE  MappingInv'
  BY <1>7, <1>12 DEF Evicted
<1>13. CASE Evict
  BY <1>12, <1>13 DEF Evict
<1>14. CASE EvictFails
  BY <1>12, <1>14 DEF EvictFails
<1>15. CASE Tick
  BY <1>7, <1>15 DEF Tick, ghosts
<1>16. ASSUME NEW r \in Retentions, ReadSettings(r)
       PROVE  MappingInv'
  <2>1. file \in Content /\ file # Torn /\ update'.content = [file EXCEPT !.ret = r]
    BY <1>0, <1>16, TornAssumption DEF ReadSettings, TypeOK
  <2>2. update'.content.maps = file.maps
    BY <2>1 DEF Content
  <2>3. UNCHANGED <<file, open, mem, job, docs, unsaved, lost>>
    BY <1>16 DEF ReadSettings, ghosts
  <2> QED BY <1>0, <2>1, <2>2, <2>3
          DEF MappingInv, DocsMatchMappings, MappingsSurvive, JobMatches, FileHasMappings,
              UpdateMatches
<1>17. CASE TruncateSettings
  <2>1. update # NoJob /\ update'.content = update.content /\ file' = Torn
    BY <1>0, <1>17 DEF TruncateSettings, TypeOK
  <2>2. UNCHANGED <<open, mem, job, docs, unsaved, lost>>
    BY <1>17 DEF TruncateSettings, ghosts
  <2> QED BY <1>0, <2>1, <2>2
          DEF MappingInv, DocsMatchMappings, MappingsSurvive, JobMatches, FileHasMappings,
              UpdateMatches
<1>18. CASE WriteSettings
  <2>1. /\ file' = update.content \/ file' = Torn
        /\ update # NoJob /\ update' = NoJob
        /\ unsaved' = unsaved \cup {f \in Fields : open /\ mem.maps[f] # update.content.maps[f]}
    BY <1>18 DEF WriteSettings, Written
  <2>2. UNCHANGED <<open, mem, job, docs, lost>>
    BY <1>18 DEF WriteSettings
  <2>3. Agrees(update.content.maps, docs, unsaved' \cup lost)
    <3>1. CASE open
      <4>1. Agrees(mem.maps, docs, lost)
        BY <3>1 DEF MappingInv, DocsMatchMappings
      <4>2. \A f \in Fields \ (unsaved' \cup lost) : update.content.maps[f] = mem.maps[f]
        BY <2>1, <3>1
      <4> QED BY <1>a, <4>1, <4>2, AgreesMonotone
    <3>2. CASE ~open
      <4>1. Agrees(update.content.maps, docs, unsaved \cup lost)
        BY <2>1, <3>2 DEF MappingInv, UpdateMatches
      <4> QED BY <2>1, <3>2, <4>1
    <3> QED BY <3>1, <3>2
  <2> QED BY <1>0, <2>1, <2>2, <2>3
          DEF MappingInv, DocsMatchMappings, MappingsSurvive, JobMatches, FileHasMappings,
              UpdateMatches
<1>19. CASE Restart
  BY <1>0, <1>19 DEF MappingInv, DocsMatchMappings, MappingsSurvive, JobMatches,
                     FileHasMappings, UpdateMatches, Restart
<1>20. CASE UNCHANGED vars
  BY <1>7, <1>20 DEF vars, ghosts
<1> QED
  BY <1>1, <1>2, <1>3, <1>4, <1>5, <1>6, <1>8, <1>9, <1>10, <1>11, <1>13, <1>14, <1>15,
     <1>16, <1>17, <1>18, <1>19, <1>20 DEF Next, IndexDocument, UpdateSettings

\* A field has one type in all the documents of an open index, the one in its mapping.
THEOREM OneTypePerField == Spec => []DocsMatchMappings
<1>1. MappingInv => DocsMatchMappings
  BY DEF MappingInv
<1> QED BY <1>1, MappingInit, MappingStep, PTL DEF Spec

\* A readable metadata.json has the mapping of every field of every document, but
\* for the fields whose mapping a failed write or a settings update has left out.
THEOREM FileHasTypes == Spec => []MappingsSurvive
<1>1. MappingInv => MappingsSurvive
  BY DEF MappingInv
<1> QED BY <1>1, MappingInit, MappingStep, PTL DEF Spec

-----------------------------------------------------------------------------
(***************************************************************************)
(* Expiry times, and the times in the records that a restart replays.      *)
(***************************************************************************)

\* The time that replay finds for a document is that of its last version, if that
\* version has one, and it finds it when the record is one that it replays.
TailTimes ==
    \A d \in Docs :
        /\ timed[d] # Absent /\ docs[d] # Absent /\ TimeOf(docs[d]) # Absent
              => timed[d] = TimeOf(docs[d])
        /\ d \in tail /\ docs[d] # Absent /\ TimeOf(docs[d]) # Absent
              => timed[d] = TimeOf(docs[d])

ExpiryInv == TypeOK /\ ExpiryIsOwn /\ TailRemembers /\ TailTimes

\* What noting an expiry does to the table.
LEMMA NotedExpiry ==
    ASSUME expiry \in [Docs -> Nat \cup {Absent}], mem \in Content,
           NEW e \in Docs, NEW s \in Sources, NoteExpiry(e, s)
    PROVE  /\ \A d \in Docs : d # e => expiry'[d] = expiry[d]
           /\ TimeOf(s) = Absent => expiry'[e] = expiry[e]
           /\ TimeOf(s) # Absent => expiry'[e] = TimeOf(s) + Retention(mem) /\ expiry'[e] # Absent
<1>1. TimeOf(s) # Absent => TimeOf(s) + Retention(mem) \in Nat
  BY TimeType, RetentionType
<1> QED BY <1>1, AbsentAssumption DEF NoteExpiry

\* What a replay makes of a document.
LEMMA ReplayedExpiry ==
    ASSUME timed \in [Docs -> Nat \cup {Absent}], NEW meta \in Content, NEW d \in Docs
    PROVE  /\ Replayed(d, meta) # Absent =>
                 timed[d] # Absent /\ Replayed(d, meta) = timed[d] + Retention(meta)
           /\ timed[d] # Absent /\ meta.ret # Absent => Replayed(d, meta) # Absent
<1>1. timed[d] # Absent /\ meta.ret # Absent => timed[d] + meta.ret \in Nat
  BY DEF Content
<1> QED BY <1>1, AbsentAssumption DEF Replayed, Retention

\* Every step keeps the invariant.
LEMMA ExpiryStep ==
    ASSUME ExpiryInv, [Next]_vars
    PROVE  ExpiryInv'
<1>0. TypeOK /\ TypeOK'
  BY TypeStep DEF ExpiryInv
<1>a. /\ docs \in [Docs -> Sources \cup {Absent}]
      /\ expiry \in [Docs -> Nat \cup {Absent}]
      /\ timed \in [Docs -> Nat \cup {Absent}]
      /\ mem \in Content
  BY <1>0 DEF TypeOK
<1>1. CASE OpenIndex
  <2>1. UNCHANGED <<docs, tail, timed>> /\ mem' = file /\ file \in Content
    BY <1>0, <1>1 DEF OpenIndex, TypeOK
  <2>2. \A d \in Docs : /\ expiry'[d] = Replayed(d, file)
                        /\ d \in stale' <=> /\ docs[d] # Absent /\ timed[d] # Absent
                                           /\ TimeOf(docs[d]) = Absent
    BY <1>1 DEF OpenIndex
  <2>3. TailTimes'
    BY <2>1 DEF ExpiryInv, TailTimes
  <2>4. ExpiryIsOwn'
    <3> SUFFICES ASSUME NEW d \in Docs, d \notin stale', docs[d] # Absent, expiry'[d] # Absent
                 PROVE  TimeOf(docs[d]) # Absent /\ expiry'[d] = TimeOf(docs[d]) + Retention(file)
      BY <2>1 DEF ExpiryIsOwn, Retention
    <3>1. timed[d] # Absent /\ expiry'[d] = timed[d] + Retention(file)
      BY <1>a, <2>1, <2>2, ReplayedExpiry
    <3>2. TimeOf(docs[d]) # Absent
      BY <2>2, <3>1
    <3> QED BY <3>1, <3>2 DEF ExpiryInv, TailTimes
  <2>5. TailRemembers'
    <3> SUFFICES ASSUME NEW d \in tail, file.ret # Absent, docs[d] # Absent,
                        TimeOf(docs[d]) # Absent
                 PROVE  expiry'[d] # Absent
      BY <2>1 DEF TailRemembers, HasRetentionPolicy
    <3>1. d \in Docs /\ TimeOf(docs[d]) = timed[d]
      BY <1>0 DEF ExpiryInv, TailTimes, TypeOK
    <3> QED BY <1>a, <2>1, <2>2, <3>1, ReplayedExpiry
  <2> QED BY <1>0, <2>3, <2>4, <2>5 DEF ExpiryInv
<1>2. ASSUME NEW d \in Docs, NEW s \in Sources, ExtendMappings(d, s)
      PROVE  ExpiryInv'
  <2>1. mem'.ret = mem.ret
    BY <1>a, <1>2 DEF ExtendMappings, Content
  <2>2. UNCHANGED <<open, docs, tail, timed, expiry, stale>>
    BY <1>2 DEF ExtendMappings, ghosts
  <2> QED BY <1>0, <2>1, <2>2
          DEF ExpiryInv, ExpiryIsOwn, TailRemembers, TailTimes, Retention, HasRetentionPolicy
<1>3. CASE Append
  <2> DEFINE e == job.doc
             s == job.source
  <2>1. e \in Docs /\ s \in Sources /\ NoteExpiry(e, s) /\ docs' = [docs EXCEPT ![e] = s]
    BY <1>0, <1>3 DEF TypeOK, Append
  <2>2. /\ UNCHANGED <<open, mem>> /\ tail' = tail \cup {e}
        /\ stale' = IF TimeOf(s) = Absent /\ expiry[e] # Absent THEN stale \cup {e} ELSE stale \ {e}
    BY <1>3 DEF Append
  <2> HIDE DEF e, s
  <2>3. s # Absent /\ docs'[e] = s /\ \A d \in Docs : d # e => docs'[d] = docs[d]
    BY <1>a, <2>1, AbsentAssumption
  <2>4. /\ \A d \in Docs : d # e => expiry'[d] = expiry[d]
        /\ TimeOf(s) = Absent => expiry'[e] = expiry[e]
        /\ TimeOf(s) # Absent => expiry'[e] = TimeOf(s) + Retention(mem) /\ expiry'[e] # Absent
    BY <1>a, <2>1, NotedExpiry
  <2>5. ExpiryIsOwn'
    BY <2>2, <2>3, <2>4 DEF ExpiryInv, ExpiryIsOwn
  <2>6. TailRemembers'
    BY <1>0, <2>2, <2>3, <2>4 DEF ExpiryInv, TailRemembers, TypeOK, HasRetentionPolicy
  <2>7. TailTimes'
    <3>1. /\ timed'[e] = IF TimeOf(s) = Absent THEN timed[e] ELSE TimeOf(s)
          /\ \A d \in Docs : d # e => timed'[d] = timed[d]
      BY <1>3, <1>a, <2>1 DEF Append, e, s
    <3> QED BY <2>2, <2>3, <3>1 DEF ExpiryInv, TailTimes
  <2> QED BY <1>0, <2>5, <2>6, <2>7 DEF ExpiryInv
<1>4. CASE AppendFails
  <2> DEFINE e == job.doc
             s == job.source
  <2>1. e \in Docs /\ s \in Sources /\ NoteExpiry(e, s)
    BY <1>0, <1>4 DEF TypeOK, AppendFails
  <2>2. /\ UNCHANGED <<open, mem, docs, tail, timed>>
        /\ stale' = IF TimeOf(s) = Absent THEN stale ELSE stale \cup {e}
    BY <1>4 DEF AppendFails
  <2> HIDE DEF e, s
  <2>3. /\ \A d \in Docs : d # e => expiry'[d] = expiry[d]
        /\ TimeOf(s) = Absent => expiry'[e] = expiry[e]
        /\ TimeOf(s) # Absent => expiry'[e] # Absent
    BY <1>a, <2>1, NotedExpiry
  <2>4. ExpiryIsOwn'
    BY <2>2, <2>3 DEF ExpiryInv, ExpiryIsOwn
  <2>5. TailRemembers'
    BY <1>0, <2>2, <2>3 DEF ExpiryInv, TailRemembers, TypeOK, HasRetentionPolicy
  <2>6. TailTimes'
    BY <2>2 DEF ExpiryInv, TailTimes
  <2> QED BY <1>0, <2>4, <2>5, <2>6 DEF ExpiryInv
<1>5. ASSUME NEW d \in Docs, DeleteDocument(d)
      PROVE  ExpiryInv'
  <2>1. docs'[d] = Absent /\ \A e \in Docs : e # d => docs'[e] = docs[e]
    BY <1>a, <1>5 DEF DeleteDocument
  <2>2. /\ UNCHANGED <<open, mem, expiry, stale>> /\ tail' = tail \cup {d}
        /\ \A e \in Docs : e # d => timed'[e] = timed[e]
    BY <1>a, <1>5 DEF DeleteDocument, ghosts
  <2> QED BY <1>0, <2>1, <2>2
          DEF ExpiryInv, ExpiryIsOwn, TailRemembers, TailTimes, TypeOK, HasRetentionPolicy
<1>6. CASE Flush
  BY <1>0, <1>6
     DEF Flush, ghosts, ExpiryInv, ExpiryIsOwn, TailRemembers, TailTimes, HasRetentionPolicy
<1>7. CASE Restore
  <2>1. UNCHANGED <<open, mem, docs, tail, timed>>
    BY <1>7 DEF Restore
  <2>2. ASSUME NEW d \in Docs
        PROVE  expiry'[d] = IF docs[d] # Absent /\ HasRetentionPolicy /\ TimeOf(docs[d]) # Absent
                            THEN TimeOf(docs[d]) + mem.ret ELSE Absent
    BY <1>7 DEF Restore
  <2>3. ASSUME NEW d \in Docs, docs[d] # Absent, HasRetentionPolicy, TimeOf(docs[d]) # Absent
        PROVE  TimeOf(docs[d]) + mem.ret \in Nat /\ Retention(mem) = mem.ret
    BY <1>a, <2>3, TimeType DEF HasRetentionPolicy, Content, Retention
  <2>4. ExpiryIsOwn'
    BY <2>1, <2>2, <2>3 DEF ExpiryIsOwn
  <2>5. TailRemembers'
    BY <1>0, <2>1, <2>2, <2>3, AbsentAssumption DEF TailRemembers, TypeOK, HasRetentionPolicy
  <2>6. TailTimes'
    BY <2>1 DEF ExpiryInv, TailTimes
  <2> QED BY <1>0, <2>4, <2>5, <2>6 DEF ExpiryInv
<1>8. ASSUME NEW gone, Evicted(gone)
      PROVE  ExpiryInv'
  <2>1. \A d \in Docs : /\ d \in gone => docs'[d] = Absent /\ expiry'[d] = Absent
                        /\ d \notin gone => /\ docs'[d] = docs[d] /\ expiry'[d] = expiry[d]
                                           /\ timed'[d] = timed[d]
    BY <1>8 DEF Evicted
  <2>2. UNCHANGED <<open, mem>> /\ tail' = tail \cup gone /\ stale' = stale \ gone
    BY <1>8 DEF Evicted
  <2>3. ExpiryIsOwn'
    BY <2>1, <2>2 DEF ExpiryInv, ExpiryIsOwn
  <2>4. TailRemembers'
    BY <1>0, <2>1, <2>2 DEF ExpiryInv, TailRemembers, TypeOK, HasRetentionPolicy
  <2>5. TailTimes'
    BY <2>1, <2>2 DEF ExpiryInv, TailTimes
  <2> QED BY <1>0, <2>3, <2>4, <2>5 DEF ExpiryInv
<1>9. Evict \/ EvictFails => ExpiryInv'
  BY <1>8 DEF Evict, EvictFails
<1>10. CASE Restart
  BY <1>0, <1>10 DEF Restart, ExpiryInv, ExpiryIsOwn, TailRemembers, TailTimes
\* Steps that the expiry times do not depend on.
<1>11. ASSUME UNCHANGED <<open, mem, docs, tail, timed, expiry, stale>>
       PROVE  ExpiryInv'
  BY <1>0, <1>11 DEF ExpiryInv, ExpiryIsOwn, TailRemembers, TailTimes, HasRetentionPolicy
<1>12. ASSUME NEW d \in Docs, NEW s \in Sources, SkipMappings(d, s)
       PROVE  ExpiryInv'
  BY <1>11, <1>12 DEF SkipMappings, ghosts
<1>13. PersistMetadata \/ PersistFails \/ Tick => ExpiryInv'
  BY <1>11 DEF PersistMetadata, PersistFails, Tick, ghosts
<1>14. UpdateSettings => ExpiryInv'
  BY <1>11 DEF UpdateSettings, ReadSettings, TruncateSettings, WriteSettings, ghosts
<1>15. CASE UNCHANGED vars
  BY <1>11, <1>15 DEF vars, ghosts
<1> QED
  BY <1>1, <1>2, <1>3, <1>4, <1>5, <1>6, <1>7, <1>9, <1>10, <1>12, <1>13, <1>14, <1>15
     DEF Next, IndexDocument

\* In the first state no document has an expiry.
LEMMA ExpiryInit == Init => ExpiryInv
BY TypeInit DEF Init, ExpiryInv, ExpiryIsOwn, TailRemembers, TailTimes

\* The expiry that is kept for a document is the one of the version that is stored,
\* but for the documents whose expiry is known to be that of another version.
THEOREM ExpiryOfVersion == Spec => []ExpiryIsOwn
<1>1. ExpiryInv => ExpiryIsOwn
  BY DEF ExpiryInv
<1> QED BY <1>1, ExpiryInit, ExpiryStep, PTL DEF Spec

\* Eviction knows of every document with a time that a restart would replay.
THEOREM EvictionKnowsTail == Spec => []TailRemembers
<1>1. ExpiryInv => TailRemembers
  BY DEF ExpiryInv
<1> QED BY <1>1, ExpiryInit, ExpiryStep, PTL DEF Spec

=============================================================================
