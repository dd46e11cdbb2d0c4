------------------------ MODULE IndexSidecarsProofs ------------------------
(***************************************************************************)
(* Theorems about module IndexSidecars, for any documents, values, crashes *)
(* and failures, of an index that was made with a manifest.json (as        *)
(* create_index does): the words and suggestions of its documents are      *)
(* where queries look for them, and old ones are not.                      *)
(***************************************************************************)
EXTENDS IndexSidecars, IndexHandleProofs

-----------------------------------------------------------------------------
(***************************************************************************)
(* The strengthening.  Numbers: which files the next opening reads, and    *)
(* which ones a later flush or merge may write again.                      *)
(***************************************************************************)

FileType(files) == DOMAIN files \subseteq Nat /\ \A n \in DOMAIN files : files[n] \in DocMaps

SideTypeOK ==
    /\ perDoc \in DocMaps
    /\ FileType(posFiles) /\ posReaders \subseteq DocMaps
    /\ FileType(sugFiles) /\ sugReaders \subseteq DocMaps
    /\ stage \in {"none", "positions", "suggest"}
    /\ gap \subseteq Docs /\ missing \subseteq Docs /\ stale \subseteq Docs

\* The manifest that numbers the next segment.
Base == IF up THEN memManifest ELSE manifest

\* A flush writes its sidecars after its manifest, and the merge comes last.
StageInv ==
    /\ stage # "none" => pc = "trim"
    /\ stage = "none" /\ pc \in {"trim", "merge", "merged"} => perDoc = Nothing
    /\ up => NextNum(memManifest) <= NextNum(manifest)

-----------------------------------------------------------------------------
\* Suggestions.

\* A suggest file is made from the segment with its number, which no flush writes again.
SuggestFiles ==
    \A n \in DOMAIN sugFiles :
        n < NextNum(Base) /\ n \in DOMAIN segs /\ segs[n].docs = sugFiles[n]

\* The last segment of the manifest on disk has one, if it was ever written ...
LastSuggested ==
    manifest # {} /\ ~(up /\ stage # "none") =>
        LET n == LastMeta(manifest).num
        IN  n \in unsuggested \/ segs[n].docs = Nothing \/ n \in DOMAIN sugFiles

\* ... which it was not when the manifest is ahead of the handle's.
AheadUnsuggested ==
    up /\ NextNum(memManifest) \in Nums(manifest) => NextNum(memManifest) \in unsuggested

ReadersHeld ==
    up /\ ~outdated => \A r \in sugReaders : \E n \in Nums(memManifest) : r = segs[n].docs

LastRead ==
    up /\ stage = "none" /\ memManifest # {} =>
        LET n == LastMeta(memManifest).num
        IN  n \in unsuggested \cup unread \/ segs[n].docs = Nothing \/ segs[n].docs \in sugReaders

SuggestInv == SuggestFiles /\ LastSuggested /\ AheadUnsuggested /\ ReadersHeld /\ LastRead

-----------------------------------------------------------------------------
\* Positions: that none is missing.

\* A positions file of the manifest that no step writes again before it leaves it.
Witness(d) ==
    \E n \in Nums(manifest) \cap DOMAIN posFiles :
        /\ posFiles[n][d] = committed[d]
        /\ up => n \in Nums(memManifest)
        /\ stage = "positions" => n # NewestNum

FilesCover ==
    \A d \in Docs \ (gap \cup indoubt \cup damaged) :
        committed[d] # Absent => perDoc[d] = committed[d] \/ Witness(d)

ReadersCover ==
    up => \A d \in Docs \ (gap \cup missing \cup indoubt \cup damaged) :
              committed[d] # Absent =>
                  perDoc[d] = committed[d] \/ \E r \in posReaders : r[d] = committed[d]

\* What the flush has extracted is in the new file, and read unless that failed.
ExtractedKept ==
    stage = "suggest" /\ Extracted # Nothing =>
        /\ NewestNum \in DOMAIN posFiles /\ posFiles[NewestNum] = Extracted
        /\ Extracted \in posReaders \/ Shown(Extracted) \subseteq missing

PhraseInv == FilesCover /\ ReadersCover /\ ExtractedKept

-----------------------------------------------------------------------------
\* Positions: that none is stale.

\* merge() writes under the number of the next segment, and nothing beyond it.
FilesBelow == \A n \in DOMAIN posFiles : n <= NextNum(Base)

\* The files that are read by the next opening, or whose number may come into a manifest.
LiveFiles ==
    {n \in DOMAIN posFiles : n \in Nums(manifest \cup memManifest) \/ n >= NextNum(Base)}

\* What replay makes of the records of a document, Absent if it finds none.
Hits(l, s, d) == {p \in ReplayFrom(l, s) : EntryAt(l, p).doc = d}

ReplayOf(l, s, d) ==
    IF Hits(l, s, d) = {} THEN Absent ELSE EntryAt(l, LastOf(Hits(l, s, d))).val

TailOf(d) == ReplayOf(logs, OpenDurableSeq, d)

\* Every content of a document that a query, or a query after some steps, can meet.
Alive(d) ==
    {r[d] : r \in posReaders} \cup {posFiles[n][d] : n \in LiveFiles}
        \cup {perDoc[d], searchable[d], View[d], TailOf(d)} \cup Held(d)

\* There is one at most, unless the document is stale.
Agreed(d) == \E v \in Contents : Alive(d) \subseteq {v, Absent}
Agree     == \A d \in Docs \ stale : Agreed(d)

StaleInv == FilesBelow /\ Agree

SideInv == SideTypeOK /\ StageInv /\ SuggestInv /\ PhraseInv /\ StaleInv

-----------------------------------------------------------------------------
\* What the steps have in common.

\* The index has a manifest, and is what module IndexHandleProofs says.
Sound == StoreInv /\ hasManifest

\* Every step is one of the index, and a manifest stays.
LEMMA NextSound ==
    ASSUME Sound, [SideNext]_<<vars, sideVars>>
    PROVE  Sound'
<1>1. [Next]_vars
  BY DEF SideNext, SideRecover, SidePlain, SideWrite, SideWriteFault, SideMerge, SideMergeFault,
         SideMergeDropped, SideFlushManifest, FlushPositions, FlushSuggest, SideTrim,
         SideMergePublish, SideMergePublishCut, SideMergePublishFault, SideFlushManifestFault, SideFlushFault, SideCrash,
         Next, Client, FlushStep, Failure
<1>2. hasManifest'
  BY <1>1 DEF Sound, vars, disk, Next, Client, FlushStep, Failure, Recover, Write, WriteFault, Refresh,
              Merge, MergeFault, FlushRollover, FlushSegment, FlushManifest, FlushManifestFault,
              PublishFlushed, TrimGeneration, FlushTrimmed, MergeSegment, MergePublish,
              MergePublishFault, PublishMerged, FlushFault, Crash, store
<1> QED BY <1>1, <1>2, NextStoreInv DEF Sound

\* What a sound state says of its types and of the directory.
LEMMA SoundFacts ==
    ASSUME Sound
    PROVE  /\ TypeOK /\ IInv /\ DeletedInv /\ Ready /\ FlushHolds
           /\ OpenManifest = manifest /\ OpenSegs = segs /\ ~Migrating
           /\ ManifestType(manifest) /\ ManifestType(memManifest)
           /\ View \in DocMaps /\ MergedDocs \in DocMaps /\ searchable \in DocMaps
<1>1. TypeOK /\ IInv /\ DeletedInv /\ Ready /\ FlushHolds
  BY DeletedInvReady DEF Sound, StoreInv, DeletedInv, IInv
<1>2. searchable \in DocMaps
  BY <1>1 DEF TypeOK
<1> QED BY <1>1, <1>2, OpenFacts, TypeOKManifest, OverlayType, PlanType DEF Sound, View, Migrating

\* The numbers of a manifest lie below the next one, and the last is one below it.
LEMMA NumsBelow ==
    ASSUME NEW M, ManifestType(M)
    PROVE  /\ NextNum(M) \in Nat /\ NextNum(M) >= 1 /\ NextNum(M) - 1 \in Nat
           /\ Nums(M) \subseteq Nat
           /\ \A n \in Nums(M) : n < NextNum(M)
           /\ M = {} => NextNum(M) = 1
           /\ M # {} => /\ LastMeta(M) \in M /\ LastMeta(M).num = NextNum(M) - 1
                        /\ LastMeta(M).num \in Nums(M)
<1>1. \A m \in M : m.num \in Nat
  BY DEF ManifestType
<1> QED BY <1>1, NextNumFacts, LastMetaExists DEF Nums, NextNum

\* Adding a file to some, and reading some.
LEMMA PutType ==
    ASSUME NEW files, FileType(files), NEW n \in Nat, NEW docs \in DocMaps
    PROVE  /\ FileType(Put(files, n, docs))
           /\ DOMAIN Put(files, n, docs) = DOMAIN files \cup {n}
           /\ Put(files, n, docs)[n] = docs
           /\ \A k \in DOMAIN files : k # n => Put(files, n, docs)[k] = files[k]
BY DEF FileType, Put

\* Readers are made from files.
LEMMA ReadersType ==
    ASSUME NEW files, FileType(files)
    PROVE  \A ns : ReadersOf(ns, files) \subseteq DocMaps
BY DEF FileType, ReadersOf

\* The one file that a merge reads back.
LEMMA OneReader ==
    ASSUME NEW files, NEW n
    PROVE  /\ \A r \in ReadersOf({n}, files) : n \in DOMAIN files /\ r = files[n]
           /\ n \in DOMAIN files => files[n] \in ReadersOf({n}, files)
BY DEF ReadersOf

\* Every manifest that is published ends with the number it was written for.
LEMMA Publishes ==
    ASSUME Sound, (PublishFlushed /\ pc = "written") \/ (PublishMerged /\ pc = "merged")
    PROVE  /\ NextNum(manifest') = NextNum(memManifest) + 1
           /\ manifest' # {} /\ LastMeta(manifest').num = NextNum(memManifest)
           /\ Nums(manifest') \subseteq Nums(memManifest) \cup {NextNum(memManifest)}
<1>1. ManifestType(memManifest) /\ Ready /\ Plan \subseteq memManifest
  BY SoundFacts, PlanType
<1>2. ASSUME NEW docs, NEW kept \in SUBSET memManifest, manifest' = kept \cup {NewMeta(docs)},
             \/ pc = "written" /\ docs = searchable
             \/ pc = "merged" /\ docs = MergedDocs
      PROVE  /\ NextNum(manifest') = NextNum(memManifest) + 1
             /\ manifest' # {} /\ LastMeta(manifest').num = NextNum(memManifest)
             /\ Nums(manifest') \subseteq Nums(memManifest) \cup {NextNum(memManifest)}
  <2>1. NewMeta(docs).num = NextNum(memManifest) /\ LastMeta(manifest').num = NextNum(memManifest)
    BY <1>1, <1>2, Published
  <2> QED BY <1>2, <2>1 DEF Nums, NextNum
<1>3. CASE PublishFlushed /\ pc = "written"
  BY <1>2, <1>3 DEF PublishFlushed
<1>4. CASE PublishMerged /\ pc = "merged"
  BY <1>1, <1>2, <1>4 DEF PublishMerged
<1> QED BY <1>3, <1>4

-----------------------------------------------------------------------------
\* Types, and the order of a flush's steps.

\* A new index has no sidecars.
LEMMA InitSide == SideInit => SideTypeOK /\ StageInv
<1> SUFFICES ASSUME SideInit PROVE SideTypeOK /\ StageInv
  OBVIOUS
<1>1. Nothing \in DocMaps
  BY DEF Nothing, DocMaps, Contents
<1>2. SideTypeOK
  BY <1>1 DEF SideInit, SideTypeOK, FileType, NoFiles
<1>3. StageInv
  BY DEF SideInit, Init, StageInv
<1> QED BY <1>2, <1>3

\* The newest segment, and what a flush writes for it.
LEMMA NewestFacts ==
    ASSUME Sound, SideTypeOK
    PROVE  /\ NewestNum \in Nat /\ NextNum(memManifest) \in Nat
           /\ Extracted \in DocMaps /\ Nothing \in DocMaps
BY SoundFacts, NumsBelow DEF NewestNum, Extracted, SideTypeOK, DocMaps, Contents, Nothing

\* Every step leaves document maps, under natural numbers.
LEMMA NextSideType ==
    ASSUME Sound, SideTypeOK, SideNext
    PROVE  SideTypeOK'
<1>0. /\ NewestNum \in Nat /\ NextNum(memManifest) \in Nat
      /\ View \in DocMaps /\ MergedDocs \in DocMaps /\ searchable \in DocMaps
      /\ Extracted \in DocMaps /\ Nothing \in DocMaps
  BY NewestFacts, SoundFacts
<1>p. /\ FileType(Put(posFiles, NextNum(memManifest), View))
      /\ FileType(Put(posFiles, NextNum(memManifest), MergedDocs))
      /\ FileType(Put(posFiles, NewestNum, Extracted))
      /\ FileType(Put(sugFiles, NewestNum, searchable))
      /\ FileType(posFiles) /\ FileType(sugFiles)
  BY <1>0, PutType DEF SideTypeOK
<1>s. \A docs : Shown(docs) \subseteq Docs
  BY DEF Shown
<1> USE DEF SideTypeOK, sideVars, sidecars, sideHistory, positions, suggestions, reading
<1>1. CASE SideRecover
  <2>1. posReaders' \subseteq DocMaps /\ missing' \subseteq Docs
    BY <1>1, ReadersType DEF SideRecover, LoadPositions
  <2>2. sugReaders' \subseteq DocMaps
    BY <1>1, ReadersType DEF SideRecover, LoadSuggest
  <2> QED BY <1>1, <2>1, <2>2 DEF SideRecover
<1>2. ASSUME NEW d \in Docs, NEW v \in Contents, SideWrite(d, v) PROVE SideTypeOK'
  <2>1. perDoc' \in DocMaps
    BY <1>2 DEF SideWrite, DocMaps
  <2> QED BY <1>2, <2>1 DEF SideWrite, Rewritten
<1>3. ASSUME NEW d \in Docs, NEW v \in Contents, SideWriteFault(d, v) PROVE SideTypeOK'
  BY <1>3 DEF SideWriteFault, Rewritten
<1>4. CASE SideMerge
  <2>1. FileType(posFiles')
    <3>1. posFiles' \in {posFiles, Put(posFiles, NextNum(memManifest), View)}
      BY <1>4 DEF SideMerge, MergePositions
    <3> QED BY <1>p, <3>1
  <2>2. missing' \subseteq Docs
    BY <1>4, <1>s DEF SideMerge
  <2>3. posReaders' \subseteq DocMaps
    BY <1>4, <2>1, ReadersType DEF SideMerge
  <2> QED BY <1>4, <2>1, <2>2, <2>3 DEF SideMerge
<1>5. CASE SideMergeFault \/ SideMergeDropped
  <2>1. posFiles' \in {posFiles, Put(posFiles, NextNum(memManifest), View)}
    BY <1>5 DEF SideMergeFault, SideMergeDropped, MergePositions
  <2> QED BY <1>5, <1>p, <2>1 DEF SideMergeFault, SideMergeDropped
<1>6. CASE SideFlushManifest
  BY <1>6 DEF SideFlushManifest
<1>7. CASE FlushPositions
  <2>1. FileType(posFiles')
    <3>1. posFiles' \in {posFiles, Put(posFiles, NewestNum, Extracted)}
      BY <1>7 DEF FlushPositions
    <3> QED BY <1>p, <3>1
  <2>2. posReaders' \subseteq DocMaps /\ missing' \subseteq Docs
    BY <1>0, <1>7, <1>s DEF FlushPositions
  <2> QED BY <1>7, <2>1, <2>2 DEF FlushPositions
<1>8. CASE FlushSuggest
  <2>1. FileType(sugFiles')
    <3>1. sugFiles' \in {sugFiles, Put(sugFiles, NewestNum, searchable)}
      BY <1>8 DEF FlushSuggest
    <3> QED BY <1>p, <3>1
  <2>2. sugReaders' \subseteq DocMaps
    BY <1>8, <2>1, ReadersType DEF FlushSuggest, LoadSuggest
  <2> QED BY <1>0, <1>8, <2>1, <2>2 DEF FlushSuggest
<1>9. CASE SideTrim \/ SidePlain
  BY <1>9 DEF SideTrim, SidePlain
<1>10. CASE SideMergePublish \/ SideMergePublishCut \/ SideMergePublishFault
  <2>1. FileType(posFiles')
    <3>1. posFiles' \in {posFiles, Put(posFiles, NextNum(memManifest), MergedDocs)}
      BY <1>10 DEF SideMergePublish, SideMergePublishCut, SideMergePublishFault, MergePositionsRead,
                   RebuildPositions
    <3> QED BY <1>p, <3>1
  <2>2. posReaders' \subseteq DocMaps
    BY <1>10, <2>1, ReadersType
       DEF SideMergePublish, SideMergePublishCut, SideMergePublishFault, MergePositionsRead
  <2>3. sugReaders' \subseteq DocMaps
    BY <1>10, ReadersType DEF SideMergePublish, SideMergePublishCut, SideMergePublishFault, LoadSuggest
  <2>4. gap' \subseteq Docs /\ missing' \subseteq Docs /\ stale' \subseteq Docs
    BY <1>10, <1>s DEF SideMergePublish, SideMergePublishCut, SideMergePublishFault, MergePositionsRead,
                       MergeGap
  <2> QED BY <1>10, <2>1, <2>2, <2>3, <2>4
          DEF SideMergePublish, SideMergePublishCut, SideMergePublishFault
<1>11. CASE SideFlushManifestFault
  BY <1>11 DEF SideFlushManifestFault
<1>12. CASE SideFlushFault
  <2>1. /\ posFiles' \in {posFiles, Put(posFiles, NewestNum, Extracted)}
        /\ sugFiles' \in {sugFiles, Put(sugFiles, NewestNum, searchable)}
    BY <1>12 DEF SideFlushFault
  <2> QED BY <1>12, <1>p, <2>1 DEF SideFlushFault
<1>13. CASE SideCrash
  BY <1>0, <1>13, <1>s DEF SideCrash
<1> QED BY <1>1, <1>2, <1>3, <1>4, <1>5, <1>6, <1>7, <1>8, <1>9, <1>10, <1>11, <1>12, <1>13 DEF SideNext

\* Nothing comes between the manifest of a flush and its sidecars.
LEMMA NextStage ==
    ASSUME Sound, SideTypeOK, StageInv, SideNext
    PROVE  StageInv'
<1>0. TypeOK /\ OpenManifest = manifest
  BY SoundFacts
<1> USE DEF sideVars, sidecars, sideHistory, positions, suggestions, disk, memory, store, vars
<1>1. CASE SideRecover
  BY <1>0, <1>1, NumsBelow, SoundFacts DEF SideRecover, Recover, StageInv, TypeOK
<1>2. ASSUME NEW d \in Docs, NEW v \in Contents, SideWrite(d, v) PROVE StageInv'
  BY <1>2 DEF SideWrite, Write, Idle, StageInv
<1>3. ASSUME NEW d \in Docs, NEW v \in Contents, SideWriteFault(d, v) PROVE StageInv'
  BY <1>3 DEF SideWriteFault, WriteFault, StageInv
<1>4. CASE SideMerge
  BY <1>4 DEF SideMerge, Merge, StageInv
<1>5. CASE SideMergeFault \/ SideMergeDropped
  <2>1. UNCHANGED <<pc, up, manifest, memManifest, stage, perDoc>>
    BY <1>5 DEF SideMergeFault, SideMergeDropped, MergeFault
  <2> QED BY <2>1 DEF StageInv
<1>6. CASE SideFlushManifest
  <2>1. NextNum(manifest') \in Nat
    BY <1>6, Publishes, SoundFacts, NumsBelow DEF SideFlushManifest, FlushManifest
  <2> QED BY <1>6, <2>1 DEF SideFlushManifest, FlushManifest, StageInv, Sound
<1>7. CASE FlushPositions
  BY <1>7 DEF FlushPositions, StageInv
<1>8. CASE FlushSuggest
  BY <1>8 DEF FlushSuggest, StageInv
<1>9. CASE SideTrim
  BY <1>9 DEF SideTrim, TrimGeneration, FlushTrimmed, StageInv
<1>10. CASE SidePlain
  BY <1>10 DEF SidePlain, Refresh, FlushRollover, FlushSegment, MergeSegment, Idle, StageInv
<1>11. CASE SideMergePublish \/ SideMergePublishCut
  <2>1. NextNum(manifest') \in Nat
    BY <1>11, Publishes, SoundFacts, NumsBelow DEF SideMergePublish, SideMergePublishCut, MergePublish
  <2> QED BY <1>11, <2>1 DEF SideMergePublish, SideMergePublishCut, MergePublish, StageInv
<1>12. CASE SideMergePublishFault \/ SideFlushManifestFault
  <2>1. NextNum(memManifest) \in Nat
    BY SoundFacts, NumsBelow
  <2>2. NextNum(manifest') = NextNum(memManifest) + 1
    BY <1>12, Publishes DEF SideMergePublishFault, SideFlushManifestFault, MergePublishFault, FlushManifestFault
  <2> QED BY <1>12, <2>1, <2>2
          DEF SideMergePublishFault, SideFlushManifestFault, MergePublishFault, FlushManifestFault, StageInv
<1>13. CASE SideFlushFault
  BY <1>13 DEF SideFlushFault, FlushFault, StageInv
<1>14. CASE SideCrash
  BY <1>14 DEF SideCrash, Crash, StageInv
<1> QED BY <1>1, <1>2, <1>3, <1>4, <1>5, <1>6, <1>7, <1>8, <1>9, <1>10, <1>11, <1>12, <1>13, <1>14 DEF SideNext

-----------------------------------------------------------------------------
\* Suggestions.

\* What is read of files that were made from segments.
LEMMA SuggestLoaded ==
    ASSUME NEW M, NEW files, NEW s, \A n \in DOMAIN files : s[n].docs = files[n],
           LoadSuggest(M, files)
    PROVE  /\ \A r \in sugReaders' : \E n \in Nums(M) : r = s[n].docs
           /\ \A n \in Nums(M) \cap DOMAIN files : n \in unread' \/ s[n].docs \in sugReaders'
BY DEF LoadSuggest, ReadersOf

\* While the flush writes its sidecars, the newest segment is the last of both
\* manifests and holds the searchable documents.
LEMMA TrimFacts ==
    ASSUME Sound, pc = "trim"
    PROVE  /\ up /\ manifest = memManifest /\ memManifest # {}
           /\ LastMeta(memManifest).num = NewestNum /\ NewestNum \in Nums(memManifest)
           /\ NewestNum < NextNum(memManifest) /\ NewestNum \in DOMAIN segs
           /\ segs[NewestNum].docs = searchable
<1>1. TypeOK /\ Ready /\ FlushHolds /\ ManifestType(memManifest)
  BY SoundFacts
<1> QED BY <1>1, NumsBelow DEF FlushHolds, Ready, TypeOK, NewestNum, Nums

\* There is nothing to suggest at first.
LEMMA InitSuggest == SideInit => SuggestInv
BY DEF SideInit, Init, SuggestInv, SuggestFiles, LastSuggested, AheadUnsuggested, ReadersHeld, LastRead, NoFiles

\* A step that touches neither segments, manifests nor suggestions; or the flush is still
\* busy with its sidecars.
LEMMA QuietSuggest ==
    ASSUME SuggestInv,
           UNCHANGED <<segs, manifest, memManifest, up, sugFiles, sugReaders>>,
           UNCHANGED <<unsuggested, unread, outdated>>,
           stage' = stage \/ (stage' # "none" /\ stage # "none")
    PROVE  SuggestInv'
BY DEF SuggestInv, SuggestFiles, LastSuggested, AheadUnsuggested, ReadersHeld, LastRead, Base

\* A segment is written only over one that has no suggest file.
LEMMA PutSuggest ==
    ASSUME Sound, SuggestInv, up, NEW docs, PutSegment(NextNum(memManifest), docs),
           UNCHANGED <<manifest, memManifest, up, suggestions, stage, unsuggested, unread, outdated>>
    PROVE  SuggestInv'
<1> DEFINE n == NextNum(memManifest)
<1>1. /\ Ready /\ ManifestType(manifest) /\ ManifestType(memManifest)
  BY SoundFacts
<1>2. \A k \in DOMAIN segs : k \in DOMAIN segs' /\ (k # n => segs'[k] = segs[k])
  BY DEF PutSegment
<1>3. \A k \in Nums(memManifest) : k < n /\ k \in DOMAIN segs /\ segs'[k] = segs[k]
  BY <1>1, <1>2, NumsBelow DEF Ready, Nums
<1>4. n \in Nat /\ Nums(memManifest) \subseteq Nat
  BY <1>1, NumsBelow
<1> HIDE DEF n
<1>5. SuggestFiles'
  BY <1>2, <1>4 DEF SuggestInv, SuggestFiles, Base, suggestions, n
<1>6. LastSuggested'
  <2> SUFFICES ASSUME manifest # {}, stage = "none"
               PROVE  LET k == LastMeta(manifest).num
                      IN  k \in unsuggested \/ segs'[k].docs = Nothing \/ k \in DOMAIN sugFiles
    BY DEF LastSuggested, suggestions
  <2>1. LastMeta(manifest).num \in Nums(manifest) /\ LastMeta(manifest).num \in DOMAIN segs
    BY <1>1, NumsBelow DEF Ready
  <2>2. CASE LastMeta(manifest).num = n
    BY <2>1, <2>2 DEF SuggestInv, AheadUnsuggested, n
  <2>3. CASE LastMeta(manifest).num # n
    BY <1>2, <2>1, <2>3 DEF SuggestInv, LastSuggested
  <2> QED BY <2>2, <2>3
<1>7. AheadUnsuggested'
  BY DEF SuggestInv, AheadUnsuggested
<1>8. ReadersHeld'
  BY <1>3 DEF SuggestInv, ReadersHeld, suggestions
<1>9. LastRead'
  BY <1>1, <1>3, NumsBelow DEF SuggestInv, LastRead, suggestions
<1> QED BY <1>5, <1>6, <1>7, <1>8, <1>9 DEF SuggestInv

\* The last segment of a manifest that is published will get its suggest file from the
\* flush, or is known to go without.
LEMMA PublishSuggest ==
    ASSUME Sound, SideTypeOK, StageInv, SuggestInv,
           \/ SideFlushManifest \/ SideFlushManifestFault
           \/ SideMergePublish \/ SideMergePublishCut \/ SideMergePublishFault
    PROVE  SuggestInv'
<1> DEFINE n == NextNum(memManifest)
<1>1. /\ pc \in {"written", "merged"} /\ up /\ up' /\ stage = "none"
      /\ UNCHANGED <<segs, sugFiles>>
      /\ (PublishFlushed /\ pc = "written") \/ (PublishMerged /\ pc = "merged")
  BY SoundFacts DEF SideFlushManifest, SideMergePublish, SideMergePublishCut, SideMergePublishFault,
         SideFlushManifestFault, FlushManifest, MergePublish, MergePublishFault, FlushManifestFault, TypeOK, StageInv,
         suggestions, sidecars
<1>2. /\ NextNum(manifest') = n + 1 /\ n \in Nat
      /\ manifest' # {} /\ LastMeta(manifest').num = n
      /\ Nums(manifest') \subseteq Nums(memManifest) \cup {n}
      /\ \A k \in Nums(memManifest) : k \in Nat /\ k < n
  BY <1>1, Publishes, SoundFacts, NumsBelow
<1>3. memManifest' = memManifest \/ memManifest' = manifest'
  BY DEF SideFlushManifest, SideMergePublish, SideMergePublishCut, SideMergePublishFault,
         SideFlushManifestFault, FlushManifest, MergePublish, MergePublishFault, FlushManifestFault
<1> HIDE DEF n
<1>4. SuggestFiles'
  <2>1. NextNum(Base') \in {n, n + 1}
    BY <1>1, <1>2, <1>3 DEF Base, n
  <2>2. \A k \in DOMAIN sugFiles : k \in Nat /\ k < n
    BY <1>1 DEF SuggestInv, SuggestFiles, Base, n, SideTypeOK, FileType
  <2>3. \A k \in DOMAIN sugFiles : k < NextNum(Base')
    BY <1>2, <2>1, <2>2
  <2>4. \A k \in DOMAIN sugFiles : k \in DOMAIN segs /\ segs[k].docs = sugFiles[k]
    BY DEF SuggestInv, SuggestFiles
  <2> QED BY <1>1, <2>3, <2>4 DEF SuggestFiles
<1>5. CASE SideFlushManifest
  <2>1. /\ manifest' = memManifest' /\ memManifest \subseteq memManifest' /\ stage' # "none"
        /\ UNCHANGED <<sugReaders, outdated>>
    BY <1>5 DEF SideFlushManifest, FlushManifest, PublishFlushed, suggestions, sideHistory
  <2>2. LastSuggested' /\ LastRead'
    BY <1>1, <2>1 DEF LastSuggested, LastRead
  <2>3. AheadUnsuggested'
    BY <1>2, <2>1 DEF AheadUnsuggested
  <2>4. ReadersHeld'
    BY <1>1, <2>1 DEF SuggestInv, ReadersHeld, Nums
  <2> QED BY <1>4, <2>2, <2>3, <2>4 DEF SuggestInv
<1>6. CASE SideMergePublish \/ SideMergePublishCut
  <2>1. /\ manifest' = memManifest' /\ n \in unsuggested'
        /\ outdated' \/ LoadSuggest(memManifest', sugFiles)
    BY <1>6 DEF SideMergePublish, SideMergePublishCut, MergePublish, NumberUnsuggested, n
  <2>2. LastSuggested' /\ LastRead'
    BY <1>2, <2>1 DEF LastSuggested, LastRead
  <2>3. AheadUnsuggested'
    BY <1>2, <2>1 DEF AheadUnsuggested
  <2>4. ReadersHeld'
    BY <1>1, <2>1, SuggestLoaded DEF SuggestInv, SuggestFiles, ReadersHeld
  <2> QED BY <1>4, <2>2, <2>3, <2>4 DEF SuggestInv
<1>7. CASE SideMergePublishFault \/ SideFlushManifestFault
  <2>1. /\ memManifest' = memManifest /\ stage' = stage /\ sugReaders' = sugReaders
        /\ unsuggested' = unsuggested \cup {n} /\ UNCHANGED <<unread, outdated>>
    BY <1>7 DEF SideMergePublishFault, SideFlushManifestFault, MergePublishFault, FlushManifestFault,
                sidecars, suggestions, reading, NumberUnsuggested, n
  <2>2. LastSuggested' /\ LastRead'
    BY <1>1, <1>2, <2>1 DEF LastSuggested, LastRead, SuggestInv
  <2>3. AheadUnsuggested'
    BY <1>2, <2>1 DEF AheadUnsuggested, n
  <2>4. ReadersHeld'
    BY <1>1, <2>1 DEF SuggestInv, ReadersHeld
  <2> QED BY <1>4, <2>2, <2>3, <2>4 DEF SuggestInv
<1> QED BY <1>5, <1>6, <1>7

\* The flush writes the suggest file of the newest segment, and reads all files again.
LEMMA FlushSuggestSuggest ==
    ASSUME Sound, SideTypeOK, StageInv, SuggestInv, FlushSuggest
    PROVE  SuggestInv'
<1>1. /\ UNCHANGED <<segs, manifest, memManifest, up, unsuggested>> /\ stage' = "none"
      /\ pc = "trim"
  BY DEF FlushSuggest, StageInv, vars, disk, memory
<1>2. /\ up /\ manifest = memManifest /\ memManifest # {}
      /\ LastMeta(memManifest).num = NewestNum /\ NewestNum \in Nums(memManifest)
      /\ NewestNum < NextNum(memManifest) /\ NewestNum \in DOMAIN segs
      /\ segs[NewestNum].docs = searchable
  BY <1>1, TrimFacts
<1>3. CASE searchable = Nothing
  <2>1. UNCHANGED <<suggestions, unread, outdated>>
    BY <1>3 DEF FlushSuggest
  <2> QED BY <1>1, <1>2, <1>3, <2>1
          DEF SuggestInv, SuggestFiles, LastSuggested, AheadUnsuggested, ReadersHeld, LastRead, Base, suggestions
<1>4. CASE searchable # Nothing
  <2>1. /\ sugFiles' = Put(sugFiles, NewestNum, searchable)
        /\ LoadSuggest(memManifest, sugFiles')
    BY <1>4 DEF FlushSuggest
  <2>2. SuggestFiles'
    BY <1>1, <1>2, <2>1 DEF SuggestInv, SuggestFiles, Base, Put
  <2>3. NewestNum \in DOMAIN sugFiles'
    BY <2>1 DEF Put
  <2>4. LastSuggested' /\ AheadUnsuggested'
    BY <1>1, <1>2, <2>3 DEF SuggestInv, LastSuggested, AheadUnsuggested
  <2>5. /\ \A r \in sugReaders' : \E n \in Nums(memManifest) : r = segs'[n].docs
        /\ \A n \in Nums(memManifest) \cap DOMAIN sugFiles' :
              n \in unread' \/ segs'[n].docs \in sugReaders'
    BY <2>1, <2>2, SuggestLoaded DEF SuggestFiles
  <2> QED BY <1>1, <1>2, <2>2, <2>3, <2>4, <2>5 DEF SuggestInv, ReadersHeld, LastRead
<1> QED BY <1>3, <1>4

\* open_index reads the files of the manifest.
LEMMA RecoverSuggest ==
    ASSUME Sound, StageInv, SuggestInv, SideRecover
    PROVE  SuggestInv'
<1>1. /\ ~up /\ up' /\ memManifest' = manifest /\ stage = "none"
      /\ UNCHANGED <<segs, manifest, sugFiles, stage, unsuggested>>
      /\ LoadSuggest(manifest, sugFiles)
  BY SoundFacts DEF SideRecover, Recover, StageInv, TypeOK
<1>2. /\ \A n \in Nums(manifest) : n < NextNum(manifest)
      /\ NextNum(manifest) \in Nat /\ Nums(manifest) \subseteq Nat
      /\ manifest # {} => LastMeta(manifest).num \in Nums(manifest)
  BY SoundFacts, NumsBelow
<1>3. SuggestFiles' /\ LastSuggested'
  BY <1>1 DEF SuggestInv, SuggestFiles, LastSuggested, Base
<1>4. AheadUnsuggested'
  BY <1>1, <1>2 DEF AheadUnsuggested
<1>5. /\ \A r \in sugReaders' : \E n \in Nums(manifest) : r = segs[n].docs
      /\ \A n \in Nums(manifest) \cap DOMAIN sugFiles :
            n \in unread' \/ segs[n].docs \in sugReaders'
  BY <1>1, SuggestLoaded DEF SuggestInv, SuggestFiles
<1>6. ReadersHeld'
  BY <1>1, <1>5 DEF ReadersHeld
<1>7. LastRead'
  BY <1>1, <1>2, <1>5 DEF SuggestInv, LastSuggested, LastRead
<1> QED BY <1>3, <1>4, <1>6, <1>7 DEF SuggestInv

\* Every step keeps suggestions and segments together.
LEMMA NextSuggest ==
    ASSUME Sound, SideTypeOK, StageInv, SuggestInv, SideNext
    PROVE  SuggestInv'
<1> USE DEF sideVars, sidecars, sideHistory, positions, suggestions, reading, disk, memory, store, vars
<1>1. CASE SideRecover
  BY <1>1, RecoverSuggest
<1>2. ASSUME NEW d \in Docs, NEW v \in Contents, SideWrite(d, v) \/ SideWriteFault(d, v)
      PROVE  SuggestInv'
  BY <1>2, QuietSuggest DEF SideWrite, SideWriteFault, Write, WriteFault
<1>3. CASE SideMerge \/ SideMergeFault \/ SideMergeDropped
  BY <1>3, QuietSuggest DEF SideMerge, SideMergeFault, SideMergeDropped, Merge, MergeFault
<1>4. CASE FlushPositions
  BY <1>4, QuietSuggest DEF FlushPositions
<1>5. CASE SideTrim
  BY <1>5, QuietSuggest DEF SideTrim, TrimGeneration, FlushTrimmed
<1>6. CASE (Refresh \/ FlushRollover) /\ UNCHANGED sideVars
  BY <1>6, QuietSuggest DEF Refresh, FlushRollover
<1>7. CASE (FlushSegment \/ MergeSegment) /\ UNCHANGED sideVars
  BY <1>7, PutSuggest, SoundFacts DEF FlushSegment, MergeSegment, TypeOK
<1>8. CASE \/ SideFlushManifest \/ SideFlushManifestFault
           \/ SideMergePublish \/ SideMergePublishCut \/ SideMergePublishFault
  BY <1>8, PublishSuggest
<1>9. CASE FlushSuggest
  BY <1>9, FlushSuggestSuggest
<1>10. CASE SideFlushFault
  <2>1. UNCHANGED <<segs, manifest, memManifest, up, sugReaders, outdated>> /\ stage' = "none"
    BY <1>10 DEF SideFlushFault, FlushFault
  <2>2. CASE stage = "none"
    BY <1>10, <2>1, <2>2, QuietSuggest DEF SideFlushFault
  <2>3. CASE stage # "none"
    <3>1. /\ up /\ manifest = memManifest /\ memManifest # {}
          /\ LastMeta(memManifest).num = NewestNum /\ NewestNum \in DOMAIN segs
          /\ NewestNum < NextNum(memManifest) /\ segs[NewestNum].docs = searchable
      BY <2>3, TrimFacts DEF StageInv
    <3>2. CASE sugFiles' = sugFiles /\ unsuggested' = unsuggested \cup {NewestNum}
      BY <2>1, <3>1, <3>2
         DEF SuggestInv, SuggestFiles, LastSuggested, AheadUnsuggested, ReadersHeld, LastRead, Base
    <3>3. CASE /\ sugFiles' = IF searchable # Nothing THEN Put(sugFiles, NewestNum, searchable) ELSE sugFiles
               /\ unsuggested' = unsuggested /\ NewestNum \in unread'
      <4>1. SuggestFiles'
        BY <2>1, <3>1, <3>3 DEF SuggestInv, SuggestFiles, Base, Put
      <4>2. searchable = Nothing \/ NewestNum \in DOMAIN sugFiles'
        BY <3>3 DEF Put
      <4> QED BY <2>1, <3>1, <3>3, <4>1, <4>2
              DEF SuggestInv, LastSuggested, AheadUnsuggested, ReadersHeld, LastRead
    <3> QED BY <1>10, <2>3, <3>2, <3>3 DEF SideFlushFault
  <2> QED BY <2>2, <2>3
<1>11. CASE SideCrash
  <2>1. UNCHANGED <<segs, manifest, sugFiles>> /\ stage' = "none" /\ up /\ ~up'
    BY <1>11 DEF SideCrash, Crash
  <2>2. NextNum(memManifest) <= NextNum(manifest) /\ NextNum(memManifest) \in Nat /\ NextNum(manifest) \in Nat
    BY <2>1, SoundFacts, NumsBelow DEF StageInv
  <2>3. SuggestFiles'
    BY <2>1, <2>2 DEF SuggestInv, SuggestFiles, Base, SideTypeOK, FileType
  <2>4. LastSuggested'
    <3>1. CASE stage = "none"
      BY <1>11, <2>1, <3>1 DEF SuggestInv, LastSuggested, SideCrash
    <3>2. CASE stage # "none"
      <4>1. manifest = memManifest /\ LastMeta(memManifest).num = NewestNum
        BY <3>2, TrimFacts DEF StageInv
      <4> QED BY <1>11, <2>1, <3>2, <4>1 DEF LastSuggested, SideCrash
    <3> QED BY <3>1, <3>2
  <2>5. AheadUnsuggested' /\ ReadersHeld' /\ LastRead'
    BY <2>1 DEF AheadUnsuggested, ReadersHeld, LastRead
  <2> QED BY <2>3, <2>4, <2>5 DEF SuggestInv
<1> QED BY <1>1, <1>2, <1>3, <1>4, <1>5, <1>6, <1>7, <1>8, <1>9, <1>10, <1>11 DEF SideNext, SidePlain

-----------------------------------------------------------------------------
\* Positions: that none is missing.

\* No document is there at first.
LEMMA InitPhrase == SideInit /\ hasManifest => PhraseInv
<1> SUFFICES ASSUME SideInit, hasManifest PROVE PhraseInv
  OBVIOUS
<1>1. committed = Nothing /\ ~up /\ stage = "none"
  BY DEF SideInit, Init
<1> QED BY <1>1 DEF PhraseInv, FilesCover, ReadersCover, ExtractedKept, Nothing

\* The documents whose words must be found.
Fine == Docs \ (gap \cup indoubt \cup damaged)

\* A step that touches no file that is a witness keeps all witnesses.
LEMMA WitnessStays ==
    ASSUME NEW d \in Docs, Witness(d), committed'[d] = committed[d],
           \A n \in DOMAIN posFiles :
               n \in DOMAIN posFiles' /\
                   (n \in Nums(memManifest) \/ ~up => posFiles'[n] = posFiles[n]),
           Nums(memManifest) \cap Nums(manifest) \subseteq Nums(manifest'),
           ~up => Nums(manifest) \subseteq Nums(manifest'),
           up' => \/ up /\ Nums(memManifest) \subseteq Nums(memManifest')
                  \/ ~up /\ Nums(manifest) \subseteq Nums(memManifest'),
           stage' = "positions" =>
               \/ stage = "positions" /\ NewestNum' = NewestNum
               \/ up /\ NewestNum' \notin Nums(memManifest)
    PROVE  Witness(d)'
BY DEF Witness

\* A step that leaves the files, the readers and the manifests alone.
LEMMA QuietPhrase ==
    ASSUME PhraseInv, UNCHANGED <<positions, up, manifest, memManifest, committed, missing>>,
           Fine' \subseteq Fine,
           \/ stage' = "none"
           \/ stage' = stage /\ Extracted' = Extracted
    PROVE  PhraseInv'
<1>1. UNCHANGED <<perDoc, posFiles, posReaders, NewestNum>>
  BY DEF positions, NewestNum
<1>2. ASSUME NEW d \in Docs, Witness(d) PROVE Witness(d)'
  BY <1>1, <1>2 DEF Witness
<1>3. FilesCover'
  BY <1>1, <1>2 DEF PhraseInv, FilesCover, Fine
<1>4. ReadersCover'
  BY <1>1 DEF PhraseInv, ReadersCover, Fine
<1>5. ExtractedKept'
  BY <1>1 DEF PhraseInv, ExtractedKept
<1> QED BY <1>3, <1>4, <1>5 DEF PhraseInv

\* What is written is extracted at once.
LEMMA WritePhrase ==
    ASSUME Sound, SideTypeOK, StageInv, PhraseInv, NEW d \in Docs, NEW v \in Contents, SideWrite(d, v)
    PROVE  PhraseInv'
<1>1. /\ UNCHANGED <<posFiles, posReaders, up, manifest, memManifest, stage, NewestNum>>
      /\ committed' = [committed EXCEPT ![d] = v] /\ committed \in DocMaps
      /\ perDoc' = IF v = Absent THEN perDoc ELSE [perDoc EXCEPT ![d] = v]
      /\ perDoc \in DocMaps
      /\ stage = "none"
  BY SoundFacts DEF SideWrite, Write, Idle, StageInv, SideTypeOK, TypeOK, store, NewestNum
<1>2. \A e \in Fine' : e # d => e \in Fine /\ (e \notin missing' => e \notin missing)
  BY DEF SideWrite, Write, Fine
<1>3. committed'[d] = v /\ \A e \in Docs \ {d} : committed'[e] = committed[e] /\ perDoc'[e] = perDoc[e]
  BY <1>1 DEF DocMaps
<1>4. v # Absent => perDoc'[d] = v
  BY <1>1 DEF DocMaps
<1>5. ASSUME NEW e \in Docs \ {d}, Witness(e) PROVE Witness(e)'
  BY <1>1, <1>3, <1>5 DEF Witness
<1>6. FilesCover'
  BY <1>2, <1>3, <1>4, <1>5 DEF PhraseInv, FilesCover, Fine
<1>7. ReadersCover'
  BY <1>1, <1>2, <1>3, <1>4 DEF PhraseInv, ReadersCover, Fine
<1>8. ExtractedKept'
  BY <1>1 DEF ExtractedKept
<1> QED BY <1>6, <1>7, <1>8 DEF PhraseInv

\* merge() writes under a number that no manifest of the handle names, and its
\* reader finds every acknowledged document, unless it could not be read.
LEMMA MergePhrase ==
    ASSUME Sound, SideTypeOK, StageInv, PhraseInv, SideMerge \/ SideMergeFault \/ SideMergeDropped
    PROVE  PhraseInv'
<1> DEFINE n == NextNum(memManifest)
<1>1. /\ UNCHANGED <<perDoc, up, manifest, memManifest, stage, committed, indoubt, damaged, gap>>
      /\ up /\ stage = "none"
      /\ SideMerge \/ UNCHANGED <<posReaders, missing>>
  BY DEF SideMerge, SideMergeFault, SideMergeDropped, Merge, MergeFault, Idle, StageInv, history,
         memory, store, disk, vars, sideHistory
<1>2. n \notin Nums(memManifest)
  BY SoundFacts, NumsBelow
<1>3. posFiles' \in {posFiles, Put(posFiles, n, View)}
  BY DEF SideMerge, SideMergeFault, SideMergeDropped, MergePositions
<1>4. \A k \in DOMAIN posFiles : k \in DOMAIN posFiles' /\ (k # n => posFiles'[k] = posFiles[k])
  BY <1>3 DEF Put
<1>5. ASSUME NEW d \in Docs, Witness(d) PROVE Witness(d)'
  BY <1>1, <1>2, <1>4, <1>5, WitnessStays
<1>6. Fine' = Fine
  BY <1>1 DEF Fine
<1>7. FilesCover'
  BY <1>1, <1>5, <1>6 DEF PhraseInv, FilesCover, Fine
<1>8. ExtractedKept'
  BY <1>1 DEF ExtractedKept
<1>9. ReadersCover'
  <2>1. CASE UNCHANGED <<posReaders, missing>>
    BY <1>1, <1>6, <2>1 DEF PhraseInv, ReadersCover, Fine
  <2>2. CASE SideMerge
    <3> SUFFICES ASSUME NEW d \in Fine \ missing', committed[d] # Absent
                 PROVE  \E r \in posReaders' : r[d] = committed[d]
      BY <1>1, <1>6 DEF ReadersCover, Fine
    <3>1. View[d] = committed[d]
      BY <1>1, StoreInvReadYourWrites DEF ReadYourWrites, Sound, Fine
    <3>2. View # Nothing /\ d \in Shown(View)
      BY <3>1 DEF Nothing, Fine, Shown
    <3>3. posFiles' = Put(posFiles, n, View) /\ posReaders' = ReadersOf({n}, posFiles')
      BY <2>2, <3>2 DEF SideMerge, MergePositions
    <3>4. View \in posReaders'
      BY <3>3, OneReader DEF Put
    <3> QED BY <3>1, <3>4
  <2> QED BY <1>1, <2>1, <2>2
<1> QED BY <1>7, <1>8, <1>9 DEF PhraseInv

\* The new segment of a flush comes after those whose files are witnesses.
LEMMA FlushManifestPhrase ==
    ASSUME Sound, StageInv, PhraseInv, SideFlushManifest \/ SideFlushManifestFault
    PROVE  PhraseInv'
<1>1. /\ pc = "written" /\ up /\ up' /\ stage = "none" /\ PublishFlushed
      /\ UNCHANGED <<perDoc, posFiles, posReaders, committed, indoubt, damaged, gap, missing>>
      /\ \/ memManifest' = manifest' /\ stage' = "positions"
         \/ memManifest' = memManifest /\ stage' = "none"
  BY SoundFacts DEF SideFlushManifest, SideFlushManifestFault, FlushManifest, FlushManifestFault,
                    StageInv, TypeOK, positions, sidecars, sideHistory, reading
<1>2. memManifest \subseteq manifest' /\ NextNum(manifest') = NextNum(memManifest) + 1
  BY <1>1, Publishes DEF PublishFlushed
<1>3. NextNum(memManifest) \notin Nums(memManifest) /\ NextNum(memManifest) \in Nat
  BY SoundFacts, NumsBelow
<1>4. /\ Nums(memManifest) \subseteq Nums(manifest')
      /\ Nums(memManifest) \subseteq Nums(memManifest')
      /\ stage' = "positions" => NewestNum' \notin Nums(memManifest)
  BY <1>1, <1>2, <1>3 DEF Nums, NewestNum
<1>5. ASSUME NEW d \in Docs, Witness(d) PROVE Witness(d)'
  BY <1>1, <1>4, <1>5, WitnessStays
<1>6. FilesCover' /\ ReadersCover'
  BY <1>1, <1>5 DEF PhraseInv, FilesCover, ReadersCover
<1>7. ExtractedKept'
  BY <1>1 DEF ExtractedKept
<1> QED BY <1>6, <1>7 DEF PhraseInv

\* The new positions file has a number of its own.
LEMMA FlushPositionsPhrase ==
    ASSUME Sound, StageInv, PhraseInv, FlushPositions
    PROVE  PhraseInv'
<1>1. /\ UNCHANGED <<perDoc, up, manifest, memManifest, committed, indoubt, damaged, gap>>
      /\ UNCHANGED <<NewestNum, Extracted>>
      /\ stage = "positions" /\ stage' = "suggest"
  BY DEF FlushPositions, vars, disk, memory, history, store, NewestNum, Extracted, sideHistory
<1>2. CASE Extracted = Nothing
  <2>1. UNCHANGED <<posFiles, posReaders, missing>>
    BY <1>2 DEF FlushPositions
  <2>2. ASSUME NEW d \in Docs, Witness(d) PROVE Witness(d)'
    BY <1>1, <2>1, <2>2 DEF Witness
  <2> QED BY <1>1, <1>2, <2>1, <2>2 DEF PhraseInv, FilesCover, ReadersCover, ExtractedKept
<1>3. CASE Extracted # Nothing
  <2>1. /\ posFiles' = Put(posFiles, NewestNum, Extracted)
        /\ posReaders \subseteq posReaders' /\ missing \subseteq missing'
        /\ Extracted \in posReaders' \/ Shown(Extracted) \subseteq missing'
    BY <1>3 DEF FlushPositions
  <2>2. \A k \in DOMAIN posFiles : k \in DOMAIN posFiles' /\ (k # NewestNum => posFiles'[k] = posFiles[k])
    BY <2>1 DEF Put
  <2>3. ASSUME NEW d \in Docs, Witness(d) PROVE Witness(d)'
    BY <1>1, <2>2, <2>3 DEF Witness
  <2>4. FilesCover' /\ ReadersCover'
    BY <1>1, <2>1, <2>3 DEF PhraseInv, FilesCover, ReadersCover
  <2>5. ExtractedKept'
    BY <1>1, <2>1 DEF ExtractedKept, Put, Shown
  <2> QED BY <2>4, <2>5 DEF PhraseInv
<1> QED BY <1>2, <1>3

\* What the flush forgets is in the file that it has written.
LEMMA FlushSuggestPhrase ==
    ASSUME Sound, SideTypeOK, StageInv, PhraseInv, FlushSuggest
    PROVE  PhraseInv'
<1>1. /\ UNCHANGED <<posFiles, posReaders, missing, up, manifest, memManifest>>
      /\ UNCHANGED <<committed, indoubt, damaged>>
      /\ stage = "suggest" /\ stage' = "none" /\ perDoc' = Nothing
      /\ gap' = gap \cup {d \in Docs : perDoc[d] # Absent /\ Extracted[d] = Absent}
  BY DEF FlushSuggest, vars, disk, memory, history, store
<1>2. manifest = memManifest /\ NewestNum \in Nums(memManifest)
  BY <1>1, TrimFacts DEF StageInv
<1>3. ASSUME NEW d \in Fine', committed[d] # Absent, perDoc[d] = committed[d]
      PROVE  /\ Extracted # Nothing /\ Extracted[d] = committed[d]
             /\ NewestNum \in DOMAIN posFiles /\ posFiles[NewestNum] = Extracted
             /\ d \in missing \/ Extracted \in posReaders
  <2>1. Extracted[d] # Absent /\ d \in Docs
    BY <1>1, <1>3 DEF Fine
  <2>2. Extracted[d] = perDoc[d]
    BY <2>1 DEF Extracted
  <2>3. Extracted # Nothing
    BY <2>1 DEF Nothing
  <2> QED BY <1>1, <1>3, <2>1, <2>2, <2>3 DEF PhraseInv, ExtractedKept, Shown
<1>4. ASSUME NEW d \in Docs, Witness(d) PROVE Witness(d)'
  BY <1>1, <1>4 DEF Witness
<1>5. ASSUME NEW d \in Fine', committed[d] # Absent PROVE Witness(d)'
  <2>1. CASE perDoc[d] = committed[d]
    BY <1>1, <1>2, <1>3, <1>5, <2>1 DEF Witness
  <2>2. CASE perDoc[d] # committed[d]
    BY <1>1, <1>4, <1>5, <2>2 DEF PhraseInv, FilesCover, Fine
  <2> QED BY <2>1, <2>2
<1>6. FilesCover'
  BY <1>1, <1>5 DEF FilesCover, Fine
<1>7. ReadersCover'
  <2> SUFFICES ASSUME up, NEW d \in Fine' \ missing, committed[d] # Absent
               PROVE  \E r \in posReaders : r[d] = committed[d]
    BY <1>1 DEF ReadersCover, Fine
  <2>1. CASE perDoc[d] = committed[d]
    BY <1>3, <2>1
  <2>2. CASE perDoc[d] # committed[d]
    BY <1>1, <2>2 DEF PhraseInv, ReadersCover, Fine
  <2> QED BY <2>1, <2>2
<1>8. ExtractedKept'
  BY <1>1 DEF ExtractedKept
<1> QED BY <1>6, <1>7, <1>8 DEF PhraseInv

\* The merged segment holds every acknowledged document, and so does its positions
\* file, which the handle has read unless the merge was cut or the read failed.
LEMMA MergePublishPhrase ==
    ASSUME Sound, SideTypeOK, StageInv, PhraseInv, SideMergePublish \/ SideMergePublishCut
    PROVE  PhraseInv'
<1> DEFINE n == NextNum(memManifest)
<1>1. /\ pc = "merged" /\ up /\ up' /\ stage = "none" /\ stage' = "none" /\ PublishMerged
      /\ perDoc = Nothing /\ perDoc' = Nothing /\ memManifest' = manifest'
      /\ UNCHANGED <<committed, indoubt>>
  BY SoundFacts DEF SideMergePublish, SideMergePublishCut, MergePublish, StageInv, TypeOK
<1>2. manifest' # {} /\ n \in Nums(manifest')
  <2>1. manifest' # {} /\ LastMeta(manifest').num = n
    BY <1>1, Publishes
  <2>2. NewMeta(MergedDocs) \in manifest' /\ NewMeta(MergedDocs).num = n
    BY <1>1 DEF PublishMerged, NewMeta, MetaOf
  <2> QED BY <2>2 DEF Nums
<1>3. PICK written \in BOOLEAN :
          /\ posFiles' = IF written /\ MergedDocs # Nothing THEN Put(posFiles, n, MergedDocs) ELSE posFiles
          /\ gap' = IF written THEN gap \ Shown(MergedDocs) ELSE Docs
          /\ posReaders' = ReadersOf({n}, posFiles') \/ missing' = Shown(MergedDocs)
  BY DEF SideMergePublish, SideMergePublishCut, MergePositionsRead, RebuildPositions, MergeGap, Outcomes
<1> HIDE DEF n
<1>4. ASSUME NEW d \in Fine', committed[d] # Absent
      PROVE  Witness(d)' /\ (d \in missing' \/ \E r \in posReaders' : r[d] = committed[d])
  <2>1. d \in Docs \ (indoubt \cup damaged')
    BY <1>1, <1>4 DEF Fine
  <2>2. MergedDocs[d] = committed[d] /\ d \in Shown(MergedDocs)
    BY <1>1, <1>4, <2>1, SoundFacts, MergedIsShown DEF Sound, StoreInv, DeletedInv, Shown
  <2>3. posFiles' = Put(posFiles, n, MergedDocs)
    BY <1>3, <1>4, <2>1, <2>2 DEF Fine, Nothing
  <2>4. n \in DOMAIN posFiles' /\ posFiles'[n] = MergedDocs
    BY <2>3 DEF Put
  <2>5. Witness(d)'
    BY <1>1, <1>2, <2>2, <2>4 DEF Witness
  <2>6. d \in missing' \/ MergedDocs \in posReaders'
    BY <1>3, <2>2, <2>4, OneReader
  <2> QED BY <2>2, <2>5, <2>6
<1>5. FilesCover' /\ ReadersCover'
  BY <1>1, <1>4 DEF FilesCover, ReadersCover, Fine
<1>6. ExtractedKept'
  BY <1>1 DEF ExtractedKept
<1> QED BY <1>5, <1>6 DEF PhraseInv

\* A crash forgets what was extracted, and a restart reads the witnesses.
LEMMA RestartPhrase ==
    ASSUME Sound, SideTypeOK, StageInv, PhraseInv, SideRecover \/ SideCrash
    PROVE  PhraseInv'
<1>1. /\ UNCHANGED <<posFiles, manifest, committed, indoubt>> /\ stage' = "none" /\ damaged \subseteq damaged'
      /\ gap' = gap \cup {d \in Docs : perDoc[d] # Absent /\ perDoc'[d] # perDoc[d]}
      /\ up' => ~up /\ memManifest' = manifest /\ LoadPositions(manifest) /\ perDoc' = perDoc
      /\ perDoc' \in {perDoc, Nothing}
  <2>1. CASE SideRecover
    <3>1. gap' = gap /\ perDoc' = perDoc
      BY <2>1 DEF SideRecover
    <3> QED BY <2>1, <3>1, SoundFacts DEF SideRecover, Recover, StageInv, TypeOK, history, wal, SideTypeOK
  <2>2. CASE SideCrash
    <3>1. gap' = gap \cup {d \in Docs : perDoc[d] # Absent} /\ perDoc' = Nothing
      BY <2>2 DEF SideCrash, Shown
    <3>2. \A d \in Docs : Nothing[d] = Absent
      BY DEF Nothing
    <3> QED BY <2>2, <3>1, <3>2 DEF SideCrash, Crash, disk, store
  <2> QED BY <2>1, <2>2
<1>2. ASSUME NEW d \in Docs, Witness(d) PROVE Witness(d)'
  BY <1>1, <1>2 DEF Witness
<1>3. Fine' \subseteq Fine
  BY <1>1 DEF Fine
<1>4. ASSUME NEW d \in Fine', perDoc[d] # Absent PROVE perDoc'[d] = perDoc[d]
  BY <1>1, <1>4 DEF Fine
<1>5. FilesCover'
  BY <1>1, <1>2, <1>3, <1>4 DEF PhraseInv, FilesCover, Fine
<1>6. ReadersCover'
  <2> SUFFICES ASSUME up', NEW d \in Fine' \ missing', committed[d] # Absent, perDoc[d] # committed[d]
               PROVE  \E r \in posReaders' : r[d] = committed[d]
    BY <1>1 DEF ReadersCover, Fine
  <2>1. PICK n \in Nums(manifest) \cap DOMAIN posFiles : posFiles[n][d] = committed[d]
    BY <1>3 DEF PhraseInv, FilesCover, Fine, Witness
  <2>2. PICK bad : /\ posReaders' = ReadersOf(Nums(manifest) \ bad, posFiles)
                   /\ missing' = {e \in Docs : \E k \in bad : posFiles[k][e] # Absent}
    BY <1>1 DEF LoadPositions
  <2>3. n \notin bad
    BY <2>1, <2>2 DEF Fine
  <2> QED BY <2>1, <2>2, <2>3 DEF ReadersOf
<1>7. ExtractedKept'
  BY <1>1 DEF ExtractedKept
<1> QED BY <1>5, <1>6, <1>7 DEF PhraseInv

\* A flush that ends early keeps what it has extracted.
LEMMA FlushFaultPhrase ==
    ASSUME Sound, StageInv, PhraseInv, SideFlushFault
    PROVE  PhraseInv'
<1>1. /\ UNCHANGED <<perDoc, posReaders, up, manifest, memManifest, committed, indoubt, damaged, gap, missing>>
      /\ stage' = "none"
      /\ posFiles' = posFiles \/ (stage = "positions" /\ posFiles' = Put(posFiles, NewestNum, Extracted))
  BY DEF SideFlushFault, FlushFault, disk, store, history
<1>2. ASSUME NEW d \in Docs, Witness(d) PROVE Witness(d)'
  BY <1>1, <1>2 DEF Witness, Put
<1>3. FilesCover' /\ ReadersCover'
  BY <1>1, <1>2 DEF PhraseInv, FilesCover, ReadersCover
<1> QED BY <1>1, <1>3 DEF PhraseInv, ExtractedKept

\* Every step keeps the words of the documents.
LEMMA NextPhrase ==
    ASSUME Sound, SideTypeOK, StageInv, PhraseInv, SideNext
    PROVE  PhraseInv'
<1>1. CASE SideRecover \/ SideCrash
  BY <1>1, RestartPhrase
<1>2. ASSUME NEW d \in Docs, NEW v \in Contents, SideWrite(d, v) PROVE PhraseInv'
  BY <1>2, WritePhrase
<1>3. ASSUME NEW d \in Docs, NEW v \in Contents, SideWriteFault(d, v) PROVE PhraseInv'
  <2>1. /\ UNCHANGED <<positions, up, manifest, memManifest, committed, stage, Extracted, missing>>
        /\ Fine' \subseteq Fine
    BY <1>3 DEF SideWriteFault, WriteFault, sidecars, positions, memory, store, Fine, Extracted, reading
  <2> QED BY <2>1, QuietPhrase
<1>4. CASE SideMerge \/ SideMergeFault \/ SideMergeDropped
  BY <1>4, MergePhrase
<1>5. CASE SideFlushManifest \/ SideFlushManifestFault
  BY <1>5, FlushManifestPhrase
<1>6. CASE FlushPositions
  BY <1>6, FlushPositionsPhrase
<1>7. CASE FlushSuggest
  BY <1>7, FlushSuggestPhrase
<1>8. CASE SideTrim
  <2>1. /\ UNCHANGED <<positions, up, manifest, memManifest, committed, stage, missing>>
        /\ Fine' \subseteq Fine /\ stage = "none"
    BY <1>8 DEF SideTrim, TrimGeneration, FlushTrimmed, sideVars, sidecars, sideHistory, positions,
                memory, store, history, disk, Fine
  <2> QED BY <2>1, QuietPhrase
<1>9. CASE SidePlain
  <2>1. /\ UNCHANGED <<positions, up, manifest, memManifest, committed, stage, missing>>
        /\ Fine' \subseteq Fine
    BY <1>9 DEF SidePlain, Refresh, FlushRollover, FlushSegment, MergeSegment, sideVars, sidecars,
                sideHistory, positions, memory, store, history, disk, Fine
  <2>2. stage = "none"
    BY <1>9 DEF SidePlain, Refresh, FlushRollover, FlushSegment, MergeSegment, Idle, StageInv
  <2> QED BY <2>1, <2>2, QuietPhrase
<1>10. CASE SideMergePublish \/ SideMergePublishCut
  BY <1>10, MergePublishPhrase
<1>11. CASE SideMergePublishFault
  <2>1. Fine' = {} /\ stage' = "none"
    BY <1>11 DEF SideMergePublishFault, MergePublishFault, Fine, sidecars, StageInv
  <2> QED BY <2>1 DEF PhraseInv, FilesCover, ReadersCover, ExtractedKept, Fine
<1>12. CASE SideFlushFault
  BY <1>12, FlushFaultPhrase
<1> QED BY <1>1, <1>2, <1>3, <1>4, <1>5, <1>6, <1>7, <1>8, <1>9, <1>10, <1>11, <1>12 DEF SideNext

-----------------------------------------------------------------------------
\* What replay finds of a document.

\* A restart serves what replay finds, or what it has loaded.
LEMMA RecoveredIs ==
    ASSUME Sound, NEW d \in Docs
    PROVE  Recovered[d] \in {TailOf(d), Loaded[d]}
<1>1. Loaded \in DocMaps
  BY SoundFacts, OpenFacts
<1>2. Recovered[d] = IF Hits(logs, OpenDurableSeq, d) = {} THEN Loaded[d]
                     ELSE EntryAt(logs, LastOf(Hits(logs, OpenDurableSeq, d))).val
  BY <1>1 DEF Recovered, ApplyReplay, Loaded, DocMaps, Hits
<1> QED BY <1>2 DEF TailOf, ReplayOf

\* When the manifest covers more, replay finds the same or nothing.
LEMMA TailShrinks ==
    ASSUME Sound, NEW s \in Nat, OpenDurableSeq <= s, NEW d
    PROVE  ReplayOf(logs, s, d) \in {TailOf(d), Absent}
<1> DEFINE h == Hits(logs, OpenDurableSeq, d)
           k == Hits(logs, s, d)
<1>1. TypeOK /\ LogOrdered /\ OpenDurableSeq \in Nat /\ LogType(logs, current, Record)
  BY SoundFacts, OpenFacts, TypeOKLog DEF IInv
<1>2. \A p \in Position(logs) : EntryAt(logs, p).seq \in Nat
  BY <1>1, ReplayFromType DEF Record
<1>3. k \subseteq h /\ h \subseteq Position(logs)
  BY <1>1, <1>2 DEF Hits, ReplayFrom
<1>4. CASE k = {}
  BY <1>4 DEF ReplayOf
<1>5. CASE k # {}
  <2>1. LastOf(h) \in h /\ \A q \in h : q = LastOf(h) \/ Before(q, LastOf(h))
    BY <1>1, <1>3, <1>5, LastOfExists
  <2>2. PICK q \in k : TRUE
    BY <1>5
  <2>3. EntryAt(logs, q).seq <= EntryAt(logs, LastOf(h)).seq
    BY <1>1, <1>2, <1>3, <2>1, <2>2 DEF LogOrdered
  <2>4. EntryAt(logs, q).seq > s
    BY <2>2 DEF Hits, ReplayFrom
  <2>5. EntryAt(logs, LastOf(h)).seq > s
    BY <1>2, <1>3, <2>1, <2>2, <2>3, <2>4
  <2>6. LastOf(h) \in k
    BY <2>1, <2>5 DEF Hits, ReplayFrom
  <2>7. LastOf(k) = LastOf(h)
    BY <1>1, <1>3, <2>1, <2>6, LastOfUnique
  <2>8. h # {}
    BY <1>3, <1>5
  <2> QED BY <1>5, <2>7, <2>8 DEF ReplayOf, TailOf
<1> QED BY <1>4, <1>5

\* An appended record is the last of its document, and concerns no other.
LEMMA TailAppends ==
    ASSUME Sound, Idle, NEW d \in Docs, NEW v \in Contents, UNCHANGED store,
           logs' = AppendTo(logs, current, [seq |-> lastSeq + 1, doc |-> d, val |-> v])
    PROVE  TailOf(d)' = v /\ \A c \in Docs \ {d} : TailOf(c)' = TailOf(c)
<1> DEFINE e == [seq |-> lastSeq + 1, doc |-> d, val |-> v]
           s == OpenDurableSeq
<1>1. /\ TypeOK /\ LogType(logs, current, Record)
      /\ s \in Nat /\ lastSeq \in Nat /\ s <= lastSeq /\ OpenDurableSeq' = s
  BY SoundFacts, OpenBelow, TypeOKLog, SameDirectory DEF Idle
<1>2. e \in Record
  BY <1>1 DEF Record
<1>3. PICK q \in Position(logs') :
          /\ Position(logs') = Position(logs) \cup {q}
          /\ EntryAt(logs', q) = e
          /\ q \notin Position(logs)
          /\ \A p \in Position(logs) : Before(p, q) /\ EntryAt(logs', p) = EntryAt(logs, p)
  BY <1>1, <1>2, TypeOKLog, AppendToFacts
<1>4. LogType(logs', current, Record)
  BY <1>1, <1>2, TypeOKLog, AppendToFacts
<1> HIDE DEF s
<1>5. \A c \in Docs : Hits(logs', s, c) \subseteq Position(logs') /\ Hits(logs, s, c) \subseteq Position(logs)
  BY DEF Hits, ReplayFrom
<1>6. q \in Hits(logs', s, d)
  BY <1>1, <1>3 DEF Hits, ReplayFrom
<1>7. LastOf(Hits(logs', s, d)) = q
  BY <1>3, <1>4, <1>5, <1>6, LastOfUnique
<1>8. ReplayOf(logs', s, d) = v
  BY <1>3, <1>6, <1>7 DEF ReplayOf
<1>9. ASSUME NEW c \in Docs \ {d} PROVE ReplayOf(logs', s, c) = ReplayOf(logs, s, c)
  <2>1. Hits(logs', s, c) = Hits(logs, s, c)
    BY <1>3 DEF Hits, ReplayFrom
  <2>2. Hits(logs, s, c) # {} => LastOf(Hits(logs, s, c)) \in Position(logs)
    BY <1>1, <1>5, LastOfExists
  <2> QED BY <1>3, <2>1, <2>2 DEF ReplayOf
<1> QED BY <1>1, <1>8, <1>9 DEF TailOf, s

\* A trim removes nothing that replay would find.
LEMMA TailTrims ==
    ASSUME Sound, TrimGeneration, NEW d
    PROVE  TailOf(d)' = TailOf(d)
<1> DEFINE s == OpenDurableSeq
<1>1. /\ TypeOK /\ LogType(logs, current, Record) /\ lastSeq \in Nat
      /\ s \in Nat /\ lastSeq <= s /\ OpenDurableSeq' = s
  BY SoundFacts, OpenFacts, TypeOKLog, SameDirectory
     DEF IInv, TrimCovered, TrimGeneration, OpenDurableSeq, TypeOK
<1>2. PICK g : /\ \A p : p \in Position(logs') <=> p \in Position(logs) /\ p[1] # g
               /\ \A p \in Position(logs') : EntryAt(logs', p) = EntryAt(logs, p)
               /\ \A p \in Position(logs) : p[1] = g => EntryAt(logs, p).seq <= lastSeq
  BY SoundFacts, TrimmedBelow
<1>3. \A p \in Position(logs) : EntryAt(logs, p).seq \in Nat
  BY <1>1, ReplayFromType DEF Record
<1> HIDE DEF s
<1>4. Hits(logs', s, d) = Hits(logs, s, d)
  BY <1>1, <1>2, <1>3 DEF Hits, ReplayFrom
<1>5. Hits(logs', s, d) # {} => LastOf(Hits(logs', s, d)) \in Position(logs')
  <2>1. Hits(logs, s, d) \subseteq Position(logs)
    BY DEF Hits, ReplayFrom
  <2>2. Hits(logs', s, d) \subseteq Position(logs')
    BY DEF Hits, ReplayFrom
  <2> QED BY <1>1, <1>4, <2>1, <2>2, LastOfExists
<1> QED BY <1>1, <1>2, <1>4, <1>5 DEF TailOf, ReplayOf, s

-----------------------------------------------------------------------------
\* Positions: that none is stale.

\* A new index has no content at all.
LEMMA InitStale == SideInit /\ hasManifest => StaleInv
<1> SUFFICES ASSUME SideInit, hasManifest PROVE StaleInv
  OBVIOUS
<1>1. FilesBelow
  BY DEF SideInit, NoFiles, FilesBelow
<1>2. ASSUME NEW d \in Docs PROVE Alive(d) \subseteq {Absent}
  <2>1. Position(logs) = {}
    BY DEF SideInit, Init, Position
  <2>2. TailOf(d) = Absent
    BY <2>1 DEF TailOf, ReplayOf, Hits, ReplayFrom
  <2>3. Held(d) = {}
    BY DEF SideInit, Init, Held, OpenManifest, Migrating, Nums
  <2>4. LiveFiles = {} /\ posReaders = {} /\ perDoc[d] = Absent /\ searchable[d] = Absent
    BY DEF SideInit, Init, LiveFiles, NoFiles, Nothing
  <2>5. View[d] = Absent
    BY <2>4 DEF SideInit, Init, View, Overlay, NoPending
  <2> QED BY <2>2, <2>3, <2>4, <2>5 DEF Alive
<1>3. Agree
  BY <1>2 DEF Agree, Agreed, Contents
<1> QED BY <1>1, <1>3 DEF StaleInv

\* What a document may be found with after a step that writes no new content of it.
Spread(d) == Alive(d) \cup {Absent}

\* What is alive, seen from either end.
LEMMA SpreadHolds ==
    ASSUME Sound, NEW d \in Docs
    PROVE  /\ \A r \in posReaders : r[d] \in Spread(d)
           /\ \A n \in LiveFiles : posFiles[n][d] \in Spread(d)
           /\ perDoc[d] \in Spread(d) /\ searchable[d] \in Spread(d)
           /\ View[d] \in Spread(d) /\ TailOf(d) \in Spread(d) /\ Absent \in Spread(d)
           /\ \A n \in Nums(manifest) \cup Nums(memManifest) : segs[n].docs[d] \in Spread(d)
BY SoundFacts DEF Spread, Alive, Held

LEMMA AliveWithin ==
    ASSUME Sound', NEW d \in Docs, NEW S,
           \A r \in posReaders' : r[d] \in S,
           \A n \in LiveFiles' : posFiles'[n][d] \in S,
           perDoc'[d] \in S, searchable'[d] \in S, View'[d] \in S, TailOf(d)' \in S,
           \A n \in Nums(manifest') \cup Nums(memManifest') : segs'[n].docs[d] \in S
    PROVE  Alive(d)' \subseteq S
<1>1. OpenManifest' = manifest' /\ OpenSegs' = segs'
  BY DEF Sound, OpenManifest, OpenSegs, Migrating
<1> QED BY <1>1 DEF Alive, Held

\* A document that gets no new content stays agreed.
LEMMA StaysAgreed ==
    ASSUME NEW d, Agreed(d), Alive(d)' \subseteq Spread(d)
    PROVE  Agreed(d)'
BY DEF Agreed, Spread

\* What the segments of a manifest load to is in one of them.
LEMMA LoadedFrom ==
    ASSUME NEW M, ManifestType(M), NEW f, NEW d \in Docs
    PROVE  LoadSegments(M, f, Docs, Absent)[d] \in {f[n].docs[d] : n \in Nums(M)} \cup {Absent}
<1> DEFINE H == Holders(M, f, d, Absent)
<1>1. H \subseteq M
  BY DEF Holders, Readable
<1>2. CASE H = {}
  BY <1>2 DEF LoadSegments
<1>3. CASE H # {}
  <2>1. LastMeta(H) \in H
    BY <1>1, <1>3, FS_Subset, LastMetaExists DEF ManifestType
  <2> QED BY <1>1, <1>3, <2>1 DEF LoadSegments, Nums
<1> QED BY <1>2, <1>3

\* So is what a restart serves, and what a merge puts into its segment.
LEMMA RecoveredAlive ==
    ASSUME Sound, NEW d \in Docs
    PROVE  Recovered[d] \in Spread(d)
<1>1. Loaded[d] \in Spread(d)
  BY SoundFacts, LoadedFrom, SpreadHolds DEF Loaded
<1> QED BY <1>1, RecoveredIs, SpreadHolds

LEMMA MergedAlive ==
    ASSUME Sound, NEW d \in Docs
    PROVE  MergedDocs[d] \in Spread(d)
<1>1. Plan \subseteq memManifest /\ ManifestType(Plan)
  BY SoundFacts, PlanType
<1>2. LoadSegments(Plan, segs, Docs, Absent)[d] \in Spread(d)
  BY <1>1, LoadedFrom, SpreadHolds DEF Nums
<1>3. pending[d] # NoOp => MergedDocs[d] = View[d]
  BY DEF MergedDocs, View, Overlay
<1>4. pending[d] = NoOp => MergedDocs[d] = LoadSegments(Plan, segs, Docs, Absent)[d]
  BY DEF MergedDocs, Overlay
<1> QED BY <1>2, <1>3, <1>4, SpreadHolds

\* Replay depends on the WAL and on what the directory covers only.
LEMMA TailStays ==
    ASSUME Sound, Sound', UNCHANGED <<logs, manifest, segs>>, NEW d
    PROVE  TailOf(d)' = TailOf(d)
BY DEF TailOf, Sound, OpenDurableSeq, OpenManifest, OpenSegs, Migrating

\* Which files are live depends on the manifests.
LEMMA LiveStays ==
    ASSUME UNCHANGED <<posFiles, manifest, memManifest, up>>
    PROVE  LiveFiles' = LiveFiles
BY DEF LiveFiles, Base

\* A step that changes what is searchable, or forgets, but writes nothing.
LEMMA QuietAlive ==
    ASSUME Sound, Sound', NEW d \in Docs,
           UNCHANGED <<posFiles, posReaders, manifest, memManifest, up, segs>>,
           perDoc'[d] \in {perDoc[d], Absent}, TailOf(d)' = TailOf(d),
           searchable'[d] \in {searchable[d], View[d]}, View'[d] = View[d]
    PROVE  Alive(d)' \subseteq Spread(d)
BY AliveWithin, SpreadHolds, LiveStays

\* A segment is written, over one that the manifest on disk may name.
LEMMA PutAlive ==
    ASSUME Sound, Sound', UNCHANGED sideVars, FlushSegment \/ MergeSegment, NEW d \in Docs
    PROVE  Alive(d)' \subseteq Spread(d)
<1>1. /\ UNCHANGED <<posFiles, posReaders, perDoc, manifest, memManifest, up, searchable, pending, logs>>
      /\ UNCHANGED <<hasManifest, currentJson>>
      /\ View' = View
  BY DEF sideVars, sidecars, FlushSegment, MergeSegment, wal, View, Overlay
<1>2. PICK docs : PutSegment(NextNum(memManifest), docs) /\ docs[d] \in Spread(d)
  BY SpreadHolds, MergedAlive DEF FlushSegment, MergeSegment
<1>3. \A n \in Nums(manifest) \cup Nums(memManifest) : segs'[n].docs[d] \in Spread(d)
  <2>1. \A n \in Nums(manifest) \cup Nums(memManifest) : n \in DOMAIN segs
    BY SoundFacts DEF Ready, Nums
  <2> QED BY <1>2, <2>1, SpreadHolds DEF PutSegment, Segment
<1>4. TailOf(d)' = TailOf(d)
  <2>1. OpenDurableSeq' = OpenDurableSeq
    BY <1>1, <1>2, SoundFacts, PutKeeps
  <2> QED BY <1>1, <2>1 DEF TailOf
<1> QED BY <1>1, <1>3, <1>4, SpreadHolds, LiveStays, AliveWithin

\* What the manifest covers after a publication.
LEMMA PublishCovers ==
    ASSUME Sound, Sound', pc \in {"written", "merged"}, NEW docs, NewMeta(docs) \in manifest',
           UNCHANGED segs
    PROVE  OpenDurableSeq' \in Nat /\ lastSeq <= OpenDurableSeq'
<1>1. ManifestType(manifest') /\ lastSeq \in Nat
  BY SoundFacts, TypeOKManifest DEF Sound, StoreInv, DeletedInv, IInv, TypeOK, ManifestType, Meta
<1>2. NewMeta(docs).num \in DOMAIN segs /\ NewMeta(docs).last = lastSeq
  BY SoundFacts DEF IInv, Staged, NewMeta, MetaOf, Segment
<1>3. OpenDurableSeq' = DurableSeq(manifest', segs')
  BY DEF Sound, OpenDurableSeq, OpenManifest, OpenSegs, Migrating
<1>4. NewMeta(docs) \in Readable(manifest', segs')
  BY <1>2 DEF Readable
<1> QED BY <1>1, <1>2, <1>3, <1>4, DurableSeqFacts

\* So that replay finds the same as before, or nothing.
LEMMA TailAfterPublish ==
    ASSUME Sound, Sound', pc \in {"written", "merged"}, NEW docs, NewMeta(docs) \in manifest',
           UNCHANGED <<logs, segs>>, NEW d \in Docs
    PROVE  TailOf(d)' \in Spread(d)
<1>1. OpenDurableSeq' \in Nat /\ lastSeq <= OpenDurableSeq'
  BY PublishCovers
<1>2. OpenDurableSeq \in Nat /\ lastSeq \in Nat /\ OpenDurableSeq <= lastSeq
  BY SoundFacts, OpenBelow DEF TypeOK
<1>3. TailOf(d)' = ReplayOf(logs, OpenDurableSeq', d)
  BY DEF TailOf
<1> QED BY <1>1, <1>2, <1>3, TailShrinks, SpreadHolds

\* A manifest is published; its new segment holds nothing that was not alive.
LEMMA PublishAlive ==
    ASSUME Sound, Sound', SideTypeOK, pc \in {"written", "merged"}, up, up', NEW d \in Docs,
           NEW docs, segs[NextNum(memManifest)].docs = docs, docs[d] \in Spread(d),
           NEW kept \in SUBSET memManifest, manifest' = kept \cup {NewMeta(docs)},
           memManifest' \in {memManifest, manifest'}, UNCHANGED <<logs, segs, perDoc>>,
           searchable'[d] \in Spread(d), View'[d] \in Spread(d),
           posFiles' \in {posFiles, Put(posFiles, NextNum(memManifest), docs)},
           posReaders' \subseteq posReaders \cup ReadersOf({NextNum(memManifest)}, posFiles')
    PROVE  Alive(d)' \subseteq Spread(d)
<1> DEFINE n == NextNum(memManifest)
<1>1. /\ NewMeta(docs).num = n /\ n \in Nat
      /\ NextNum(manifest') = n + 1
  <2>1. ManifestType(memManifest) /\ ManifestType(manifest')
    BY SoundFacts DEF Sound, StoreInv, DeletedInv, IInv, TypeOK, ManifestType, Meta
  <2>2. NewMeta(docs).num = n /\ NewMeta(docs).last \in Nat
    BY SoundFacts DEF NewMeta, MetaOf, Segment, TypeOK
  <2>3. LastMeta(manifest').num = n
    BY <2>1, <2>2, PushedIsLast
  <2> QED BY <2>1, <2>2, <2>3, NumsBelow DEF NextNum
<1>2. Nums(manifest') \cup Nums(memManifest') \subseteq Nums(memManifest) \cup {n}
  BY <1>1 DEF Nums
<1>3. NextNum(Base') \in {n, n + 1} /\ NextNum(Base) = n
  BY <1>1 DEF Base
<1>4. LiveFiles' \subseteq {k \in DOMAIN posFiles' : k \in Nums(memManifest) \/ k = n \/ k >= n}
  <2>1. Nums((manifest \cup memManifest)') \subseteq Nums(memManifest) \cup {n}
    BY <1>2 DEF Nums
  <2> SUFFICES ASSUME NEW k \in LiveFiles'
               PROVE  k \in DOMAIN posFiles' /\ (k \in Nums(memManifest) \/ k = n \/ k >= n)
    OBVIOUS
  <2>2. k \in DOMAIN posFiles' /\ (k \in Nums((manifest \cup memManifest)') \/ k >= NextNum(Base'))
    BY DEF LiveFiles
  <2>3. CASE k \in Nums((manifest \cup memManifest)')
    BY <2>1, <2>2, <2>3
  <2>4. CASE k >= NextNum(Base') /\ k \notin Nums((manifest \cup memManifest)')
    <3>1. k \in Nat
      BY <1>1, <2>2 DEF SideTypeOK, FileType, Put
    <3> QED BY <1>1, <1>3, <2>2, <2>4, <3>1
  <2> QED BY <2>2, <2>3, <2>4
<1>5. \A k \in DOMAIN posFiles : k \in Nums(memManifest) \/ k = n \/ k >= n => k \in LiveFiles
  BY <1>1, <1>3 DEF LiveFiles, Nums
<1> HIDE DEF n
<1>6. \A k \in DOMAIN posFiles' : posFiles'[k] = docs \/ (k \in DOMAIN posFiles /\ posFiles'[k] = posFiles[k])
  BY DEF Put, n
<1>7. \A k \in DOMAIN posFiles' : k \in Nums(memManifest) \/ k = n \/ k >= n => posFiles'[k][d] \in Spread(d)
  BY <1>5, <1>6, SpreadHolds
<1>8. \A k \in LiveFiles' : posFiles'[k][d] \in Spread(d)
  BY <1>4, <1>7
<1>9. \A r \in posReaders' : r[d] \in Spread(d)
  BY <1>1, <1>7, SpreadHolds DEF ReadersOf, n
<1>10. \A k \in Nums(manifest') \cup Nums(memManifest') : segs'[k].docs[d] \in Spread(d)
  BY <1>2, SpreadHolds DEF n
<1>11. TailOf(d)' \in Spread(d)
  BY TailAfterPublish
<1> QED BY <1>8, <1>9, <1>10, <1>11, SpreadHolds, AliveWithin

\* A flush publishes what is searchable ...
LEMMA FlushManifestAlive ==
    ASSUME Sound, Sound', SideTypeOK, SideFlushManifest \/ SideFlushManifestFault, NEW d \in Docs
    PROVE  Alive(d)' \subseteq Spread(d)
<1>1. /\ pc = "written" /\ up /\ up'
      /\ segs[NextNum(memManifest)].docs = searchable
      /\ manifest' = memManifest \cup {NewMeta(searchable)}
      /\ memManifest' \in {memManifest, manifest'}
      /\ UNCHANGED <<logs, segs, perDoc, posFiles, posReaders, searchable, pending>>
  BY SoundFacts DEF SideFlushManifest, SideFlushManifestFault, FlushManifest, FlushManifestFault,
         PublishFlushed, FlushHolds, TypeOK, wal, positions, sidecars
<1>2. View' = View
  BY <1>1 DEF View, Overlay
<1> QED BY <1>1, <1>2, SpreadHolds, PublishAlive

\* ... and a merge what it has merged.
LEMMA MergePublishAlive ==
    ASSUME Sound, Sound', SideTypeOK, NEW d \in Docs,
           SideMergePublish \/ SideMergePublishCut \/ SideMergePublishFault
    PROVE  Alive(d)' \subseteq Spread(d)
<1>1. /\ pc = "merged" /\ up /\ up'
      /\ segs[NextNum(memManifest)].docs = MergedDocs
      /\ manifest' = (memManifest \ Plan) \cup {NewMeta(MergedDocs)}
      /\ memManifest' \in {memManifest, manifest'}
      /\ UNCHANGED <<logs, segs, perDoc, pending>>
      /\ searchable' \in {searchable, MergedDocs}
  BY SoundFacts DEF SideMergePublish, SideMergePublishCut, SideMergePublishFault, MergePublish,
         MergePublishFault, PublishMerged, FlushHolds, TypeOK, wal, memory
<1>f. /\ posFiles' \in {posFiles, Put(posFiles, NextNum(memManifest), MergedDocs)}
      /\ posReaders' \subseteq posReaders \cup ReadersOf({NextNum(memManifest)}, posFiles')
  BY DEF SideMergePublish, SideMergePublishCut, SideMergePublishFault, MergePositionsRead, RebuildPositions
<1>2. View' \in {View, MergedDocs}
  BY <1>1 DEF View, Overlay, MergedDocs
<1>3. MergedDocs[d] \in Spread(d) /\ searchable[d] \in Spread(d) /\ View[d] \in Spread(d)
  BY MergedAlive, SpreadHolds
<1>4. searchable'[d] \in Spread(d) /\ View'[d] \in Spread(d)
  BY <1>1, <1>2, <1>3
<1> QED BY <1>1, <1>f, <1>3, <1>4, PublishAlive

\* merge() makes the view searchable, and writes it under the next number.
LEMMA MergeAlive ==
    ASSUME Sound, Sound', SideMerge \/ SideMergeFault \/ SideMergeDropped, NEW d \in Docs
    PROVE  Alive(d)' \subseteq Spread(d)
<1> DEFINE n == NextNum(memManifest)
<1>1. /\ up /\ up' /\ UNCHANGED <<logs, segs, manifest, memManifest, perDoc, pending>>
      /\ searchable' \in {searchable, View}
      /\ posFiles' \in {posFiles, Put(posFiles, n, View)}
      /\ posReaders' \subseteq posReaders \cup ReadersOf({n}, posFiles')
  BY DEF SideMerge, SideMergeFault, SideMergeDropped, MergePositions, Merge, MergeFault, Idle, wal,
         memory, vars, disk, store
<1>2. View' = View
  BY <1>1 DEF View, Overlay
<1>3. Base' = Base /\ NextNum(Base) = n /\ n \in Nat
  BY <1>1, SoundFacts, NumsBelow DEF Base
<1>4. LiveFiles' \subseteq LiveFiles \cup {n} /\ (n \in DOMAIN posFiles => n \in LiveFiles)
  BY <1>1, <1>3 DEF LiveFiles, Put
<1>5. \A k \in DOMAIN posFiles' : posFiles'[k] = View \/ (k \in DOMAIN posFiles /\ posFiles'[k] = posFiles[k])
  BY <1>1 DEF Put
<1>6. LiveFiles' \subseteq DOMAIN posFiles'
  BY DEF LiveFiles
<1> HIDE DEF n
<1>7. \A k \in DOMAIN posFiles' : k \in LiveFiles \/ k = n => posFiles'[k][d] \in Spread(d)
  BY <1>4, <1>5, SpreadHolds
<1>8. \A r \in posReaders' : r[d] \in Spread(d)
  BY <1>1, <1>7, SpreadHolds DEF ReadersOf
<1>9. TailOf(d)' = TailOf(d)
  BY <1>1, TailStays
<1>10. searchable'[d] \in Spread(d)
  BY <1>1, SpreadHolds
<1>11. \A k \in LiveFiles' : posFiles'[k][d] \in Spread(d)
  BY <1>4, <1>6, <1>7
<1> QED BY <1>1, <1>2, <1>8, <1>9, <1>10, <1>11, SpreadHolds, AliveWithin

\* What a flush writes for the words was extracted from the document.
LEMMA FlushPositionsAlive ==
    ASSUME Sound, Sound', StageInv, FlushPositions \/ SideFlushFault, NEW d \in Docs
    PROVE  Alive(d)' \subseteq Spread(d)
<1>1. /\ UNCHANGED <<logs, segs, manifest, memManifest, up, perDoc, searchable, pending>>
      /\ \/ posFiles' = posFiles
         \/ pc = "trim" /\ posFiles' = Put(posFiles, NewestNum, Extracted)
      /\ posReaders' \subseteq posReaders \cup {Extracted}
  BY DEF FlushPositions, SideFlushFault, FlushFault, StageInv, vars, disk, wal, store, memory
<1>2. View' = View
  BY <1>1 DEF View, Overlay
<1>3. Extracted[d] \in Spread(d)
  BY SpreadHolds DEF Extracted
<1>4. Base' = Base /\ (pc = "trim" => NewestNum \in Nums(memManifest))
  BY <1>1, TrimFacts DEF Base
<1>5. \A k \in DOMAIN posFiles' : posFiles'[k] = Extracted \/ (k \in DOMAIN posFiles /\ posFiles'[k] = posFiles[k])
  BY <1>1 DEF Put
<1>6. \A k \in LiveFiles' : k \in DOMAIN posFiles' /\ (k \in DOMAIN posFiles => k \in LiveFiles)
  BY <1>1, <1>4 DEF LiveFiles, Nums, Put
<1>7. \A k \in LiveFiles' : posFiles'[k][d] \in Spread(d)
  BY <1>3, <1>5, <1>6, SpreadHolds
<1>8. \A r \in posReaders' : r[d] \in Spread(d)
  BY <1>1, <1>3, SpreadHolds
<1>9. TailOf(d)' = TailOf(d)
  BY <1>1, TailStays
<1> QED BY <1>1, <1>2, <1>7, <1>8, <1>9, SpreadHolds, AliveWithin

\* A restart reads files of the manifest, and serves what it recovers.
LEMMA RestartAlive ==
    ASSUME Sound, Sound', SideTypeOK, StageInv, SideRecover \/ SideCrash, NEW d \in Docs
    PROVE  Alive(d)' \subseteq Spread(d)
<1>1. UNCHANGED <<logs, segs, manifest, posFiles>>
  BY SoundFacts DEF SideRecover, SideCrash, Recover, Crash, wal, disk, store
<1>2. TailOf(d)' = TailOf(d)
  BY <1>1, TailStays
<1>3. /\ NextNum(memManifest) \in Nat /\ NextNum(manifest) \in Nat
      /\ up => NextNum(memManifest) <= NextNum(manifest)
      /\ Nums(memManifest') \subseteq Nums(manifest) /\ Base' = manifest
      /\ manifest \cup memManifest' = manifest
  BY SoundFacts, NumsBelow DEF StageInv, SideRecover, SideCrash, Recover, Crash, disk, store, Base, Nums
<1>4. LiveFiles' \subseteq LiveFiles
  <2> SUFFICES ASSUME NEW k \in DOMAIN posFiles, k \in Nums(manifest) \/ k >= NextNum(manifest)
               PROVE  k \in Nums(manifest \cup memManifest) \/ k >= NextNum(Base)
    BY <1>1, <1>3 DEF LiveFiles
  <2>1. k \in Nat
    BY DEF SideTypeOK, FileType
  <2>2. CASE k \in Nums(manifest)
    BY <2>2 DEF Nums
  <2>3. CASE k >= NextNum(manifest)
    BY <1>3, <2>1, <2>3 DEF Base
  <2> QED BY <2>2, <2>3
<1>5. CASE SideRecover
  <2>1. /\ LoadPositions(manifest) /\ perDoc' = perDoc
        /\ searchable' = Recovered /\ pending' = NoPending
    BY <1>5, SoundFacts DEF SideRecover, Recover
  <2>2. View'[d] = Recovered[d]
    BY <2>1 DEF View, Overlay, NoPending
  <2>3. \A n \in Nums(manifest) \cap DOMAIN posFiles : n \in LiveFiles
    BY DEF LiveFiles, Nums
  <2>4. \A r \in posReaders' : r[d] \in Spread(d)
    BY <2>1, <2>3, SpreadHolds DEF LoadPositions, ReadersOf
  <2> QED BY <1>1, <1>2, <1>3, <1>4, <2>1, <2>2, <2>4, SpreadHolds, RecoveredAlive, AliveWithin
<1>6. CASE SideCrash
  <2>1. posReaders' = {} /\ perDoc' = Nothing /\ searchable' = Nothing /\ pending' = NoPending
    BY <1>6 DEF SideCrash, Crash
  <2>2. View'[d] = Absent /\ perDoc'[d] = Absent /\ searchable'[d] = Absent
    BY <2>1 DEF View, Overlay, NoPending, Nothing
  <2> QED BY <1>1, <1>2, <1>3, <1>4, <2>1, <2>2, SpreadHolds, AliveWithin
<1> QED BY <1>5, <1>6

\* A document that is written becomes stale, or every known content of it is the
\* one that is written; the others stay as they are.
LEMMA WriteAgreed ==
    ASSUME Sound, Sound', SideTypeOK, StaleInv, NEW d \in Docs, NEW v \in Contents,
           SideWrite(d, v) \/ SideWriteFault(d, v), NEW c \in Docs \ stale'
    PROVE  Agreed(c)'
<1>1. /\ UNCHANGED <<posFiles, posReaders, manifest, memManifest, up, segs, searchable>>
      /\ UNCHANGED store /\ Idle
      /\ logs' = AppendTo(logs, current, [seq |-> lastSeq + 1, doc |-> d, val |-> v])
      /\ \/ perDoc' = perDoc
         \/ v # Absent /\ perDoc' = [perDoc EXCEPT ![d] = v]
      /\ pending' \in {pending, [pending EXCEPT ![d] = v]}
      /\ Rewritten(d, v)
  BY DEF SideWrite, SideWriteFault, Write, WriteFault, suggestions, sidecars, store, memory
<1>2. TailOf(d)' = v /\ \A e \in Docs \ {d} : TailOf(e)' = TailOf(e)
  BY <1>1, TailAppends
<1>3. c \in Docs \ stale /\ Agreed(c)
  BY <1>1 DEF Rewritten, StaleInv, Agree
<1>4. pending \in [Docs -> Contents \cup {NoOp}] /\ perDoc \in [Docs -> Contents] /\ v # NoOp
  BY SoundFacts, NoOpAssumption DEF TypeOK, SideTypeOK, DocMaps
<1>5. CASE c # d
  <2>1. perDoc'[c] = perDoc[c] /\ View'[c] = View[c]
    <3>1. pending'[c] = pending[c] /\ perDoc'[c] = perDoc[c]
      BY <1>1, <1>4, <1>5
    <3> QED BY <1>1, <3>1 DEF View, Overlay
  <2>2. TailOf(c)' = TailOf(c)
    BY <1>2, <1>5
  <2>3. Alive(c)' \subseteq Spread(c)
    BY <1>1, <2>1, <2>2, QuietAlive
  <2> QED BY <1>3, <2>3, StaysAgreed
<1>6. ASSUME c = d PROVE perDoc'[d] \in {perDoc[d], v} /\ (v = Absent => perDoc'[d] = perDoc[d])
                         /\ View'[d] \in {View[d], v}
  <2>1. pending'[d] \in {pending[d], v} /\ perDoc'[d] \in {perDoc[d], v}
    BY <1>1, <1>4
  <2>2. v = Absent => perDoc'[d] = perDoc[d]
    BY <1>1
  <2>3. View'[d] \in {View[d], v}
    BY <1>1, <1>4, <2>1 DEF View, Overlay
  <2> QED BY <2>1, <2>2, <2>3
<1>7. CASE c = d /\ v = Absent
  <2>1. perDoc'[d] = perDoc[d] /\ View'[d] \in {View[d], Absent} /\ TailOf(d)' = Absent
    BY <1>2, <1>6, <1>7
  <2>2. Alive(d)' \subseteq Spread(d)
    BY <1>1, <2>1, SpreadHolds, LiveStays, AliveWithin
  <2> QED BY <1>3, <1>7, <2>2, StaysAgreed
<1>8. CASE c = d /\ v # Absent
  <2>1. Known(d) \subseteq {v, Absent}
    BY <1>1, <1>8 DEF Rewritten
  <2> DEFINE S == {v, Absent}
  <2>2. /\ \A r \in posReaders : r[d] \in S
        /\ \A n \in DOMAIN posFiles : posFiles[n][d] \in S
        /\ perDoc[d] \in S /\ searchable[d] \in S /\ View[d] \in S /\ v \in S
    BY <2>1 DEF Known, Indexed
  <2>3. \A n \in Nums(manifest) \cup Nums(memManifest) : segs[n].docs[d] \in S
    BY <2>1, SoundFacts DEF Known, Held
  <2>4. perDoc'[d] \in S /\ View'[d] \in S /\ TailOf(d)' \in S
    BY <1>2, <1>6, <1>8, <2>2
  <2>5. LiveFiles \subseteq DOMAIN posFiles
    BY DEF LiveFiles
  <2> HIDE DEF S
  <2>6. Alive(d)' \subseteq S
    BY <1>1, <2>2, <2>3, <2>4, <2>5, LiveStays, AliveWithin
  <2> QED BY <1>8, <2>6 DEF Agreed, S
<1> QED BY <1>5, <1>7, <1>8

\* After a merge of all segments there is one content of each document: that of the
\* merged segment.  (When that is empty, a file under its number may be left over.)
LEMMA FullMergeAgreed ==
    ASSUME Sound, Sound', SideTypeOK, StageInv, FilesBelow, SideMergePublish,
           posFiles' = IF MergedDocs # Nothing THEN Put(posFiles, NextNum(memManifest), MergedDocs)
                       ELSE posFiles,
           Plan = memManifest, NEW d \in Docs \ indoubt
    PROVE  Agreed(d)'
<1> DEFINE n == NextNum(memManifest)
<1>1. /\ pc = "merged" /\ up /\ stage = "none" /\ perDoc' = Nothing
      /\ segs'[n].docs = MergedDocs
      /\ manifest' = {NewMeta(MergedDocs)} /\ memManifest' = manifest'
      /\ UNCHANGED <<logs, segs, pending>>
      /\ searchable' = MergedDocs
      /\ posReaders' \subseteq ReadersOf({n}, posFiles')
      /\ MergedDocs \in DocMaps /\ n \in Nat
      /\ NewMeta(MergedDocs).num = n
  BY SoundFacts, NumsBelow DEF SideMergePublish, MergePublish, PublishMerged, MergePositionsRead,
         FlushHolds, TypeOK, wal, StageInv, NewMeta, MetaOf
<1>2. View' = MergedDocs
  BY <1>1 DEF View, Overlay, MergedDocs
<1>3. TailOf(d)' = Absent
  <2>1. OpenDurableSeq' \in Nat /\ lastSeq <= OpenDurableSeq'
    BY <1>1, PublishCovers
  <2>2. \A p \in Position(logs) : EntryAt(logs, p).seq \in Nat /\
            (EntryAt(logs, p).doc = d => EntryAt(logs, p).seq <= ackedSeq[d])
    BY SoundFacts, OpenFacts, ReplayFromType DEF DeletedInv, AckedLast, Certain, Record
  <2>3. ackedSeq[d] \in Nat /\ lastSeq \in Nat /\ ackedSeq[d] <= lastSeq
    BY <1>1, SoundFacts DEF IInv, SequencesFresh, TypeOK
  <2>4. Hits(logs, OpenDurableSeq', d) = {}
    BY <2>1, <2>2, <2>3 DEF Hits, ReplayFrom
  <2> QED BY <1>1, <2>4 DEF TailOf, ReplayOf
<1>4. LiveFiles' \subseteq {n} \cap DOMAIN posFiles'
  <2>1. NextNum(manifest') = n + 1
    BY <1>1, Publishes DEF SideMergePublish, MergePublish
  <2>2. Nums((manifest \cup memManifest)') = {n}
    BY <1>1 DEF Nums
  <2>3. NextNum(Base') = n + 1
    BY <1>1, <2>1 DEF Base
  <2>4. \A k \in DOMAIN posFiles' : k \in Nat /\ k <= n
    BY <1>1 DEF FilesBelow, SideTypeOK, FileType, Put, Base
  <2>5. \A k \in LiveFiles' : k \in DOMAIN posFiles' /\ (k \in {n} \/ k >= n + 1)
    BY <2>2, <2>3 DEF LiveFiles
  <2> QED BY <1>1, <2>4, <2>5
<1>5. \A k \in Nums(manifest') \cup Nums(memManifest') : segs'[k].docs = MergedDocs
  BY <1>1 DEF Nums
<1> HIDE DEF n
<1>6. CASE MergedDocs # Nothing
  <2> DEFINE S == {MergedDocs[d], Absent}
  <2>1. posFiles'[n] = MergedDocs
    BY <1>6 DEF Put, n
  <2>2. (\A r \in posReaders' : r[d] \in S) /\ \A k \in LiveFiles' : posFiles'[k][d] \in S
    BY <1>1, <1>4, <2>1 DEF ReadersOf
  <2>3. Nothing[d] = Absent /\ MergedDocs[d] \in Contents
    BY <1>1 DEF Nothing, DocMaps
  <2>4. perDoc'[d] \in S /\ searchable'[d] \in S /\ View'[d] \in S /\ TailOf(d)' \in S
    BY <1>1, <1>2, <1>3, <2>3
  <2>5. \A k \in Nums(manifest') \cup Nums(memManifest') : segs'[k].docs[d] \in S
    BY <1>5
  <2> HIDE DEF S
  <2>6. Alive(d)' \subseteq S
    BY <2>2, <2>4, <2>5, AliveWithin
  <2> QED BY <2>3, <2>6 DEF Agreed, S
<1>7. CASE MergedDocs = Nothing
  <2>1. posFiles' = posFiles /\ Nothing[d] = Absent
    BY <1>7 DEF Nothing
  <2>2. PICK w \in Contents : n \in DOMAIN posFiles' => posFiles'[n][d] = w
    <3>1. n \in DOMAIN posFiles => posFiles[n][d] \in Contents
      BY DEF SideTypeOK, FileType, DocMaps
    <3>2. Absent \in Contents
      BY DEF Contents
    <3> QED BY <2>1, <3>1, <3>2
  <2> DEFINE S == {w, Absent}
  <2>3. (\A r \in posReaders' : r[d] \in S) /\ \A k \in LiveFiles' : posFiles'[k][d] \in S
    BY <1>1, <1>4, <2>2 DEF ReadersOf
  <2>4. perDoc'[d] \in S /\ searchable'[d] \in S /\ View'[d] \in S /\ TailOf(d)' \in S
    BY <1>1, <1>2, <1>3, <1>7, <2>1
  <2>5. \A k \in Nums(manifest') \cup Nums(memManifest') : segs'[k].docs[d] \in S
    BY <1>5, <1>7, <2>1
  <2> HIDE DEF S
  <2>6. Alive(d)' \subseteq S
    BY <2>3, <2>4, <2>5, AliveWithin
  <2> QED BY <2>6 DEF Agreed, S
<1> QED BY <1>6, <1>7

\* No step writes a positions file beyond the next number.
LEMMA NextBelow ==
    ASSUME Sound, SideTypeOK, StageInv, FilesBelow, SideNext
    PROVE  FilesBelow'
<1> DEFINE n == NextNum(memManifest)
<1>1. /\ n \in Nat /\ NextNum(manifest) \in Nat /\ (up => n <= NextNum(manifest))
      /\ \A k \in DOMAIN posFiles : k \in Nat
  BY SoundFacts, NumsBelow DEF StageInv, SideTypeOK, FileType
<1> USE DEF sideVars, sidecars, positions, disk, memory, store, vars, FilesBelow, Base
<1>2. CASE UNCHANGED <<posFiles, manifest, memManifest, up>>
  BY <1>2
<1>3. CASE SideRecover
  BY <1>3, SoundFacts DEF SideRecover, Recover
<1>4. CASE SideCrash
  BY <1>1, <1>4 DEF SideCrash, Crash
<1>5. CASE SideMerge \/ SideMergeFault \/ SideMergeDropped
  <2>1. UNCHANGED <<manifest, memManifest, up>> /\ up
    BY <1>5 DEF SideMerge, SideMergeFault, SideMergeDropped, Merge, MergeFault, Idle
  <2>2. \A k \in DOMAIN posFiles' : k \in DOMAIN posFiles \/ k = n
    BY <1>5 DEF SideMerge, SideMergeFault, SideMergeDropped, MergePositions, Put
  <2> QED BY <1>1, <2>1, <2>2
<1>6. CASE FlushPositions \/ (SideFlushFault /\ stage = "positions")
  <2>1. UNCHANGED <<manifest, memManifest, up>> /\ up /\ NewestNum < n /\ NewestNum \in Nat
    BY <1>6, TrimFacts, NewestFacts DEF FlushPositions, SideFlushFault, FlushFault, StageInv
  <2>2. \A k \in DOMAIN posFiles' : k \in DOMAIN posFiles \/ k = NewestNum
    BY <1>6 DEF FlushPositions, SideFlushFault, Put
  <2> QED BY <1>1, <2>1, <2>2
<1>7. CASE \/ SideFlushManifest \/ SideFlushManifestFault
           \/ SideMergePublish \/ SideMergePublishCut \/ SideMergePublishFault
  <2>1. /\ up /\ up' /\ memManifest' \in {memManifest, manifest'}
        /\ (PublishFlushed /\ pc = "written") \/ (PublishMerged /\ pc = "merged")
    BY <1>7, SoundFacts DEF SideFlushManifest, SideFlushManifestFault, SideMergePublish,
           SideMergePublishCut, SideMergePublishFault, FlushManifest, FlushManifestFault, MergePublish, MergePublishFault, TypeOK
  <2>2. NextNum(manifest') = n + 1
    BY <2>1, Publishes
  <2>3. \A k \in DOMAIN posFiles' : k \in DOMAIN posFiles \/ k = n
    BY <1>7 DEF SideFlushManifest, SideFlushManifestFault, SideMergePublish, SideMergePublishCut,
                SideMergePublishFault, MergePositionsRead, RebuildPositions, Put
  <2>4. NextNum(memManifest') \in {n, n + 1}
    BY <2>1, <2>2
  <2> HIDE DEF n
  <2>5. \A k \in DOMAIN posFiles' : k \in Nat /\ k <= n
    BY <1>1, <2>1, <2>3 DEF n
  <2> QED BY <1>1, <2>1, <2>4, <2>5
<1>8. CASE SidePlain \/ FlushSuggest \/ SideTrim \/ (SideFlushFault /\ stage # "positions")
  <2>1. UNCHANGED <<posFiles, manifest, memManifest, up>>
    BY <1>8 DEF SidePlain, FlushSuggest, SideTrim, SideFlushFault, Refresh, FlushRollover, FlushSegment,
                MergeSegment, TrimGeneration, FlushTrimmed, FlushFault
  <2> QED BY <1>2, <2>1
<1>9. ASSUME NEW d \in Docs, NEW v \in Contents, SideWrite(d, v) \/ SideWriteFault(d, v)
      PROVE  FilesBelow'
  <2>1. UNCHANGED <<posFiles, manifest, memManifest, up>>
    BY <1>9 DEF SideWrite, SideWriteFault, Write, WriteFault
  <2> QED BY <1>2, <2>1
<1> QED BY <1>3, <1>4, <1>5, <1>6, <1>7, <1>8, <1>9 DEF SideNext

\* Every step keeps the contents of a document agreed, or makes it stale.
LEMMA NextAgreed ==
    ASSUME Sound, Sound', SideTypeOK, StageInv, StaleInv, SideNext, NEW d \in Docs \ stale'
    PROVE  Agreed(d)'
<1> USE DEF sideVars, sidecars, sideHistory, positions, suggestions, disk, memory, store, wal, vars
<1>1. ASSUME d \notin stale, Alive(d)' \subseteq Spread(d) PROVE Agreed(d)'
  BY <1>1, StaysAgreed DEF StaleInv, Agree
<1>2. ASSUME NEW c \in Docs, NEW v \in Contents, SideWrite(c, v) \/ SideWriteFault(c, v)
      PROVE  Agreed(d)'
  BY <1>2, WriteAgreed
<1>3. CASE SideRecover \/ SideCrash
  <2>1. stale' = stale
    BY <1>3 DEF SideRecover, SideCrash
  <2> QED BY <1>1, <1>3, <2>1, RestartAlive
<1>4. CASE SideMerge \/ SideMergeFault \/ SideMergeDropped
  <2>1. stale' = stale
    BY <1>4 DEF SideMerge, SideMergeFault, SideMergeDropped
  <2> QED BY <1>1, <1>4, <2>1, MergeAlive
<1>5. CASE SideFlushManifest \/ SideFlushManifestFault
  <2>1. stale' = stale
    BY <1>5 DEF SideFlushManifest, SideFlushManifestFault
  <2> QED BY <1>1, <1>5, <2>1, FlushManifestAlive
<1>6. CASE FlushPositions \/ SideFlushFault
  <2>1. stale' = stale
    BY <1>6 DEF FlushPositions, SideFlushFault
  <2> QED BY <1>1, <1>6, <2>1, FlushPositionsAlive
<1>7. CASE FlushSuggest
  <2>1. /\ stale' = stale /\ UNCHANGED <<posFiles, posReaders, manifest, memManifest, up, segs, logs>>
        /\ UNCHANGED <<searchable, pending>> /\ perDoc' \in {perDoc, Nothing}
    BY <1>7 DEF FlushSuggest
  <2>2. View' = View /\ Nothing[d] = Absent /\ TailOf(d)' = TailOf(d)
    BY <2>1, TailStays DEF View, Overlay, Nothing
  <2>3. Alive(d)' \subseteq Spread(d)
    BY <2>1, <2>2, QuietAlive
  <2> QED BY <1>1, <2>1, <2>3
<1>8. CASE SideTrim
  <2>1. /\ stale' = stale /\ UNCHANGED <<posFiles, posReaders, manifest, memManifest, up, segs, perDoc>>
        /\ UNCHANGED <<searchable, pending>>
    BY <1>8 DEF SideTrim, TrimGeneration, FlushTrimmed
  <2>2. View' = View
    BY <2>1 DEF View, Overlay
  <2>3. TailOf(d)' = TailOf(d)
    BY <1>8, <2>1, TailTrims, TailStays DEF SideTrim, FlushTrimmed
  <2>4. Alive(d)' \subseteq Spread(d)
    BY <2>1, <2>2, <2>3, QuietAlive
  <2> QED BY <1>1, <2>1, <2>4
<1>9. CASE (Refresh \/ FlushRollover) /\ UNCHANGED sideVars
  <2>1. /\ stale' = stale /\ UNCHANGED <<posFiles, posReaders, manifest, memManifest, up, segs, perDoc, logs>>
        /\ searchable' \in {searchable, View}
    BY <1>9 DEF Refresh, FlushRollover
  <2>2. View' = View
    BY <1>9 DEF Refresh, FlushRollover, View, Overlay, NoPending
  <2>3. Alive(d)' \subseteq Spread(d)
    BY <2>1, <2>2, TailStays, QuietAlive
  <2> QED BY <1>1, <2>1, <2>3
<1>10. CASE (FlushSegment \/ MergeSegment) /\ UNCHANGED sideVars
  <2>1. stale' = stale
    BY <1>10
  <2> QED BY <1>1, <1>10, <2>1, PutAlive
<1>11. CASE SideMergePublishCut \/ SideMergePublishFault
  <2>1. stale' = stale
    BY <1>11 DEF SideMergePublishCut, SideMergePublishFault
  <2> QED BY <1>1, <1>11, <2>1, MergePublishAlive
<1>12. CASE SideMergePublish
  <2>1. CASE d \notin stale
    BY <1>1, <1>12, <2>1, MergePublishAlive
  <2>2. CASE d \in stale
    <3>1. /\ d \notin indoubt /\ Plan = memManifest
          /\ posFiles' = IF MergedDocs # Nothing THEN Put(posFiles, NextNum(memManifest), MergedDocs)
                         ELSE posFiles
      BY <1>12, <2>2 DEF SideMergePublish, MergePositionsRead, RebuildPositions
    <3> QED BY <1>12, <3>1, FullMergeAgreed DEF StaleInv
  <2> QED BY <2>1, <2>2
<1> QED BY <1>2, <1>3, <1>4, <1>5, <1>6, <1>7, <1>8, <1>9, <1>10, <1>11, <1>12 DEF SideNext, SidePlain

-----------------------------------------------------------------------------
\* The three properties.

\* A step that changes nothing keeps everything.
LEMMA SideStutter ==
    ASSUME UNCHANGED <<vars, sideVars>>
    PROVE  /\ SideTypeOK => SideTypeOK'
           /\ StageInv => StageInv'
           /\ SuggestInv => SuggestInv'
           /\ PhraseInv => PhraseInv'
           /\ StaleInv => StaleInv'
<1> USE DEF vars, disk, memory, history, sideVars, sidecars, sideHistory
<1>1. SideTypeOK => SideTypeOK'
  BY DEF SideTypeOK
<1>2. StageInv => StageInv'
  BY DEF StageInv
<1>3. SuggestInv => SuggestInv'
  BY QuietSuggest
<1>4. PhraseInv => PhraseInv'
  BY QuietPhrase DEF positions, Fine, Extracted
<1>5. StaleInv => StaleInv'
  <2>1. FilesBelow => FilesBelow'
    BY DEF FilesBelow, Base
  <2>2. ASSUME NEW d \in Docs PROVE Alive(d)' = Alive(d)
    BY LiveStays DEF Alive, View, Overlay, TailOf, ReplayOf, Hits, Held, OpenSegs, OpenManifest,
                     Migrating, OpenDurableSeq
  <2>3. Agree => Agree'
    BY <2>2 DEF Agree, Agreed
  <2> QED BY <2>1, <2>3 DEF StaleInv
<1> QED BY <1>1, <1>2, <1>3, <1>4, <1>5

\* The inductive invariant: that of the index, and that of the sidecars.
Invariant == Sound /\ SideInv

\* The invariant holds of a new index ...
LEMMA InitInvariant == SideInit /\ hasManifest => Invariant
<1> SUFFICES ASSUME SideInit, hasManifest PROVE Invariant
  OBVIOUS
<1>1. Sound
  BY InitStoreInv DEF SideInit, Init, Sound
<1> QED BY <1>1, InitSide, InitSuggest, InitPhrase, InitStale DEF Invariant, SideInv

\* ... and is kept by every step.
LEMMA NextInvariant == Invariant /\ [SideNext]_<<vars, sideVars>> => Invariant'
<1> SUFFICES ASSUME Invariant, [SideNext]_<<vars, sideVars>> PROVE Invariant'
  OBVIOUS
<1>1. Sound /\ Sound' /\ SideTypeOK /\ StageInv /\ SuggestInv /\ PhraseInv /\ StaleInv
  BY NextSound DEF Invariant, SideInv
<1>2. CASE SideNext
  <2>1. SideTypeOK' /\ StageInv' /\ SuggestInv' /\ PhraseInv'
    BY <1>1, <1>2, NextSideType, NextStage, NextSuggest, NextPhrase
  <2>2. FilesBelow'
    BY <1>1, <1>2, NextBelow DEF StaleInv
  <2>3. Agree'
    BY <1>1, <1>2, NextAgreed DEF Agree
  <2> QED BY <1>1, <2>1, <2>2, <2>3 DEF Invariant, SideInv, StaleInv
<1>3. CASE UNCHANGED <<vars, sideVars>>
  BY <1>1, <1>3, SideStutter DEF Invariant, SideInv
<1> QED BY <1>2, <1>3

\* The words of a searchable document are in a reader, or extracted for the next
\* flush, unless they were dropped unwritten, or written and not read back.
THEOREM WordsAreIndexed == SideSpec /\ hasManifest => []PhrasesFound
<1>1. Invariant => PhrasesFound
  BY DEF Invariant, SideInv, PhraseInv, ReadersCover, PhrasesFound, Closed
<1> QED BY <1>1, InitInvariant, NextInvariant, PTL DEF SideSpec

\* A query meets no word of a content that a document no longer has, unless the
\* document was rewritten while an older content was around.
THEOREM WordsAreCurrent == SideSpec /\ hasManifest => []NoStalePostings
<1>1. Invariant => NoStalePostings
  <2> SUFFICES ASSUME Invariant, up, NEW d \in Docs \ stale, NEW r \in posReaders,
                      searchable[d] # Absent, r[d] # Absent
               PROVE  r[d] = searchable[d]
    BY DEF NoStalePostings
  <2>1. PICK v \in Contents : Alive(d) \subseteq {v, Absent}
    BY DEF Invariant, SideInv, StaleInv, Agree, Agreed
  <2> QED BY <2>1 DEF Alive
<1> QED BY <1>1, InitInvariant, NextInvariant, PTL DEF SideSpec

\* The suggest readers are those of the manifest's segments, unless a merge was
\* dropped before it loaded them again, and the newest segment has its own if the
\* file was ever written and could be read.
THEOREM SuggestionsAreCurrent == SideSpec /\ hasManifest => []SuggestionsFollow
<1>1. Invariant => SuggestionsFollow
  <2> SUFFICES ASSUME Invariant, Closed PROVE SuggestionsFollow
    BY DEF SuggestionsFollow
  <2>1. /\ up /\ stage = "none" /\ ReadersHeld /\ LastRead /\ ManifestType(memManifest)
    BY SoundFacts DEF Invariant, SideInv, SuggestInv, Closed
  <2>2. \/ memManifest = {} /\ NewestNum = 0
        \/ memManifest # {} /\ NewestNum = LastMeta(memManifest).num
    BY <2>1, NumsBelow DEF NewestNum
  <2> QED BY <2>1, <2>2 DEF SuggestionsFollow, ReadersHeld, LastRead
<1> QED BY <1>1, InitInvariant, NextInvariant, PTL DEF SideSpec
=============================================================================
