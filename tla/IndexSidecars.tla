--------------------------- MODULE IndexSidecars ---------------------------
(***************************************************************************)
(* The files that a flush and a merge write beside a segment, and what the *)
(* open index keeps of them: the positions of the words of a document      *)
(* (phrase queries, highlights and scores are made from them) and the      *)
(* suggest file (autocomplete).  Composed with IndexHandle: every action   *)
(* of the index is taken together with what it does to the sidecars.       *)
(*                                                                         *)
(* What is extracted from a document is identified with the document's     *)
(* content: a reader is a document map that says which content of each     *)
(* document it was built from.  Every source has some text.                *)
(*                                                                         *)
(* The request awaits every file that it writes or reads.  It holds the    *)
(* handle meanwhile, so nobody sees the state in between unless it ends    *)
(* there: each such state is an outcome of the action, or an action of its *)
(* own.  A failing read, and some failing writes, are ignored.  While      *)
(* MaxFaults leaves some failure to come, any of them may fail.            *)
(***************************************************************************)
EXTENDS IndexHandle

VARIABLES
    perDoc,      \* per_doc_inverted_index: extracted, not yet in any file
    posFiles,    \* positions_N.bin
    posReaders,  \* positions_readers (equal ones are one)
    sugFiles,    \* suggest_N.bin
    sugReaders,  \* suggest_readers
    stage,       \* the sidecar that the flush has to write next
    \* what has gone wrong
    gap,         \* documents whose postings were dropped unwritten
    missing,     \* documents whose postings are in a file that was not read
    stale,       \* documents rewritten while an older content is searchable or indexed
    unsuggested, \* segments whose suggest file was never written
    unread,      \* segments whose suggest file was written, and not read
    outdated     \* the suggest readers were not loaded again after a merge

sidecars     == <<perDoc, posFiles, posReaders, sugFiles, sugReaders, stage>>
sideHistory  == <<gap, missing, stale, unsuggested, unread, outdated>>
sideVars     == <<sidecars, sideHistory>>
positions    == <<perDoc, posFiles, posReaders>>
suggestions  == <<sugFiles, sugReaders>>
reading      == <<missing, unread, outdated>>

NoFiles == [n \in {} |-> Nothing]

Put(files, n, docs) == [k \in DOMAIN files \cup {n} |-> IF k = n THEN docs ELSE files[k]]

\* The readers of the files with these numbers: a missing file is skipped.
ReadersOf(ns, files) == {files[n] : n \in ns \cap DOMAIN files}

\* Whether a read or write whose failure is ignored works, and which of several do not.
Outcomes       == IF faults < MaxFaults THEN BOOLEAN ELSE {TRUE}
Unreadable(ns) == IF faults < MaxFaults THEN SUBSET ns ELSE {{}}

\* load_all_positions_readers, load_all_suggest_readers: a file that cannot be read
\* is skipped as well.
LoadPositions(ms) ==
    \E bad \in Unreadable(Nums(ms) \cap DOMAIN posFiles) :
        /\ posReaders' = ReadersOf(Nums(ms) \ bad, posFiles)
        /\ missing' = {d \in Docs : \E n \in bad : posFiles[n][d] # Absent}

LoadSuggest(ms, files) ==
    \E bad \in Unreadable(Nums(ms) \cap DOMAIN files) :
        /\ sugReaders' = ReadersOf(Nums(ms) \ bad, files)
        /\ unread' = bad
        /\ outdated' = FALSE

Shown(docs) == {d \in Docs : docs[d] # Absent}

\* The contents of d that some posting was made from, that searches serve, or that a
\* segment holds and a restart may serve again.
Indexed(d) == {r[d] : r \in posReaders} \cup {posFiles[n][d] : n \in DOMAIN posFiles} \cup {perDoc[d]}
Held(d)    == {OpenSegs[n].docs[d] : n \in Nums(OpenManifest)} \cup {segs[n].docs[d] : n \in Nums(memManifest)}
Known(d)   == Indexed(d) \cup {searchable[d], View[d]} \cup Held(d)

NewestNum == NextNum(memManifest) - 1

-----------------------------------------------------------------------------
SideInit ==
    /\ Init
    /\ perDoc = Nothing
    /\ posFiles = NoFiles /\ posReaders = {}
    /\ sugFiles = NoFiles /\ sugReaders = {}
    /\ stage = "none"
    /\ gap = {} /\ missing = {} /\ stale = {}
    /\ unsuggested = {} /\ unread = {} /\ outdated = FALSE

SideRecover ==
    /\ Recover
    /\ LoadPositions(OpenManifest)
    /\ LoadSuggest(OpenManifest, sugFiles)
    /\ unsuggested' = IF Migrating THEN unsuggested \cup {1} ELSE unsuggested
    /\ UNCHANGED <<perDoc, posFiles, sugFiles, stage, gap, stale>>

Rewritten(d, v) ==
    stale' = IF v = Absent \/ Known(d) \subseteq {v, Absent} THEN stale ELSE stale \cup {d}

\* index_document extracts the positions; delete_document leaves them alone.
SideWrite(d, v) ==
    /\ Write(d, v)
    /\ perDoc' = IF v = Absent THEN perDoc ELSE [perDoc EXCEPT ![d] = v]
    /\ Rewritten(d, v)
    /\ gap' = IF v = Absent THEN gap ELSE gap \ {d}
    /\ missing' = IF v = Absent THEN missing ELSE missing \ {d}
    /\ UNCHANGED <<posFiles, posReaders, suggestions, stage, unsuggested, unread, outdated>>

\* The record is written and nothing is extracted.
SideWriteFault(d, v) ==
    /\ WriteFault(d, v)
    /\ Rewritten(d, v)
    /\ UNCHANGED <<sidecars, gap, unsuggested, reading>>

\* merge() writes the positions of all documents under the next segment's number,
\* though no segment has it yet.
MergePositions(written) ==
    posFiles' = IF written /\ View # Nothing THEN Put(posFiles, NextNum(memManifest), View)
                ELSE posFiles

\* It shows the documents, drops all readers, and reads that file back.  A failing
\* write or read is ignored; a request dropped while it reads leaves no reader.
SideMerge ==
    /\ Merge
    /\ \E written, read \in Outcomes :
          /\ MergePositions(written)
          /\ posReaders' = IF read THEN ReadersOf({NextNum(memManifest)}, posFiles') ELSE {}
          /\ missing' = IF written /\ read THEN {} ELSE Shown(View)
    /\ UNCHANGED <<perDoc, suggestions, stage, gap, stale, unsuggested, unread, outdated>>

SideMergeFault ==
    /\ MergeFault
    /\ \E written \in BOOLEAN : MergePositions(written)
    /\ UNCHANGED <<perDoc, posReaders, suggestions, stage, sideHistory>>

\* It ends between the positions and current.json.
SideMergeDropped ==
    /\ Idle /\ faults < MaxFaults
    /\ MergePositions(TRUE)
    /\ UNCHANGED <<vars, perDoc, posReaders, suggestions, stage, sideHistory>>

SideFlushManifest ==
    /\ FlushManifest
    /\ stage' = "positions"
    /\ UNCHANGED <<positions, suggestions, sideHistory>>

\* What the flush writes for the words: the extracted documents that are in the
\* segment, with the content that was extracted last.
Extracted == [d \in Docs |-> IF searchable[d] = Absent THEN Absent ELSE perDoc[d]]

\* Mutant: the file is written, but its reader is loaded only by the next opening.
FlushPositionsUnread ==
    /\ stage = "positions"
    /\ posFiles' = IF Extracted = Nothing THEN posFiles ELSE Put(posFiles, NewestNum, Extracted)
    /\ stage' = "suggest"
    /\ UNCHANGED <<vars, perDoc, posReaders, suggestions, sideHistory>>

\* The positions file, and its reader: the flush goes on without it if it cannot be read.
FlushPositions ==
    /\ stage = "positions"
    /\ IF Extracted = Nothing THEN UNCHANGED <<posFiles, posReaders, missing>>
       ELSE /\ posFiles' = Put(posFiles, NewestNum, Extracted)
            /\ \E read \in Outcomes :
                  /\ posReaders' = IF read THEN posReaders \cup {Extracted} ELSE posReaders
                  /\ missing' = IF read THEN missing ELSE missing \cup Shown(Extracted)
    /\ stage' = "suggest"
    /\ UNCHANGED <<vars, perDoc, suggestions, gap, stale, unsuggested, unread, outdated>>

\* The suggest file, the reload of all its readers, and the reset of the extracted
\* positions: those of documents that are not searchable yet are in no file.
FlushSuggest ==
    /\ stage = "suggest"
    /\ IF searchable = Nothing THEN UNCHANGED <<suggestions, unread, outdated>>
       ELSE /\ sugFiles' = Put(sugFiles, NewestNum, searchable)
            /\ LoadSuggest(memManifest, sugFiles')
    /\ perDoc' = Nothing
    /\ gap' = gap \cup {d \in Docs : perDoc[d] # Absent /\ Extracted[d] = Absent}
    /\ stage' = "none"
    /\ UNCHANGED <<vars, posFiles, posReaders, missing, stale, unsuggested>>

SideTrim ==
    /\ stage = "none"
    /\ TrimGeneration \/ FlushTrimmed
    /\ UNCHANGED sideVars

\* The positions of the merged documents, under the merged segment's number.
RebuildPositions(written) ==
    posFiles' = IF written /\ MergedDocs # Nothing
                THEN Put(posFiles, NextNum(memManifest), MergedDocs) ELSE posFiles

\* A failing write is ignored: the postings are in no file any more.
MergeGap(written) == gap' = IF written THEN gap \ Shown(MergedDocs) ELSE Docs

\* The next segment gets its number, and no suggest file.
NumberUnsuggested == unsuggested' = unsuggested \cup {NextNum(memManifest)}

\* The last thing that the merge does is to drop all readers of positions and to
\* read the merged ones back.  A failing read is ignored; a request dropped while it
\* reads leaves no reader.
MergePositionsRead ==
    \E written, read \in Outcomes :
        /\ RebuildPositions(written) /\ MergeGap(written)
        /\ posReaders' = IF read THEN ReadersOf({NextNum(memManifest)}, posFiles') ELSE {}
        /\ missing' = IF read THEN {} ELSE Shown(MergedDocs)
        /\ stale' = IF written /\ Plan = memManifest THEN stale \cap indoubt ELSE stale

\* Mutant: the merge at the end of a flush leaves the suggest readers alone.
MergeForgetsSuggest ==
    /\ MergePublish
    /\ MergePositionsRead
    /\ NumberUnsuggested
    /\ UNCHANGED <<perDoc, suggestions, stage, unread, outdated>>

\* Mutant: it adds the reader of the merged segment to those of the merged ones.
MergeAddsReader ==
    /\ MergePublish
    /\ RebuildPositions(TRUE) /\ MergeGap(TRUE)
    /\ posReaders' = posReaders \cup ReadersOf({NextNum(memManifest)}, posFiles')
    /\ stale' = IF Plan = memManifest THEN stale \cap indoubt ELSE stale
    /\ LoadSuggest(memManifest', sugFiles)
    /\ NumberUnsuggested
    /\ UNCHANGED <<perDoc, sugFiles, stage, missing>>

\* apply_merge_plan rebuilds the positions from the merged documents, writes no
\* suggest file, and reloads the readers.
SideMergePublish ==
    /\ MergePublish
    /\ MergePositionsRead
    /\ LoadSuggest(memManifest', sugFiles)
    /\ NumberUnsuggested
    /\ UNCHANGED <<perDoc, sugFiles, stage>>

\* It is dropped while it loads the suggest readers: the handle has the new manifest
\* and documents, and the readers of the segments that were merged.
SideMergePublishCut ==
    /\ MergePublish /\ faults < MaxFaults
    /\ \E written \in BOOLEAN : RebuildPositions(written) /\ MergeGap(written)
    /\ missing' = Shown(MergedDocs)
    /\ outdated' = TRUE
    /\ NumberUnsuggested
    /\ UNCHANGED <<perDoc, posReaders, suggestions, stage, stale, unread>>

\* The manifest on disk names a segment that the handle does not know.
SideMergePublishFault ==
    /\ MergePublishFault
    /\ \E written \in BOOLEAN : RebuildPositions(written)
    /\ gap' = Docs
    /\ NumberUnsuggested
    /\ UNCHANGED <<perDoc, posReaders, suggestions, stage, stale, reading>>

SideFlushManifestFault ==
    /\ FlushManifestFault
    /\ NumberUnsuggested
    /\ UNCHANGED <<sidecars, gap, stale, reading>>

\* The flush ends early: the sidecars not written yet are skipped for good, and one
\* that was just written is not read.
SideFlushFault ==
    /\ FlushFault
    /\ \E written \in BOOLEAN :
          /\ posFiles' = IF stage = "positions" /\ written /\ Extracted # Nothing
                         THEN Put(posFiles, NewestNum, Extracted) ELSE posFiles
          /\ sugFiles' = IF stage = "suggest" /\ written /\ searchable # Nothing
                         THEN Put(sugFiles, NewestNum, searchable) ELSE sugFiles
          /\ unsuggested' = IF stage = "none" \/ (stage = "suggest" /\ written) THEN unsuggested
                            ELSE unsuggested \cup {NewestNum}
          /\ unread' = IF stage = "suggest" /\ written THEN unread \cup {NewestNum} ELSE unread
    /\ stage' = "none"
    /\ UNCHANGED <<perDoc, posReaders, sugReaders, gap, missing, stale, outdated>>

\* The extracted positions are lost, and replay extracts none.
SideCrash ==
    /\ Crash
    /\ perDoc' = Nothing /\ posReaders' = {} /\ sugReaders' = {} /\ stage' = "none"
    /\ gap' = gap \cup Shown(perDoc)
    /\ unsuggested' = IF stage = "none" THEN unsuggested ELSE unsuggested \cup {NewestNum}
    /\ missing' = {} /\ unread' = {} /\ outdated' = FALSE
    /\ UNCHANGED <<posFiles, sugFiles, stale>>

SidePlain ==
    /\ Refresh \/ FlushRollover \/ FlushSegment \/ MergeSegment
    /\ UNCHANGED sideVars

SideNext ==
    \/ SideRecover \/ SidePlain
    \/ \E d \in Docs, v \in Contents : SideWrite(d, v) \/ SideWriteFault(d, v)
    \/ SideMerge \/ SideMergeFault \/ SideMergeDropped
    \/ SideFlushManifest \/ FlushPositions \/ FlushSuggest \/ SideTrim
    \/ SideMergePublish \/ SideMergePublishCut \/ SideMergePublishFault
    \/ SideFlushManifestFault \/ SideFlushFault \/ SideCrash

SideSpec == SideInit /\ [][SideNext]_<<vars, sideVars>>

-----------------------------------------------------------------------------
(***************************************************************************)
(* What the sidecars must get right.                                       *)
(***************************************************************************)

Closed == up /\ stage = "none"

\* The words of a searchable document stay indexed: the postings of its content are
\* in a reader or wait for the next flush, through any sequence of refreshes,
\* flushes, merges and restarts, unless they were dropped unwritten, or were written
\* and not read back since.
PhrasesFound ==
    Closed =>
        \A d \in Docs \ (gap \cup missing \cup indoubt \cup damaged) :
            searchable[d] = committed[d] /\ committed[d] # Absent =>
                perDoc[d] = searchable[d] \/ \E r \in posReaders : r[d] = searchable[d]

\* Queries never meet the words of a content that the document no longer has, whatever
\* else has gone wrong with it: unless it was rewritten since the last merge of all
\* segments, while an older content was still served, indexed or in a segment.
NoStalePostings ==
    up => \A d \in Docs \ stale, r \in posReaders :
              searchable[d] # Absent /\ r[d] # Absent => r[d] = searchable[d]

\* Autocomplete reads the segments of the manifest: every suggest reader was built
\* from the documents of one of them, unless a merge was dropped before it loaded
\* them again, and the newest segment has one if its suggest file was ever written
\* and could be read.
SuggestionsFollow ==
    Closed =>
        /\ \A r \in sugReaders : outdated \/ \E n \in Nums(memManifest) : r = segs[n].docs
        /\ \A n \in {NewestNum} \ (unsuggested \cup unread \cup {0}) :
              segs[n].docs = Nothing \/ segs[n].docs \in sugReaders
=============================================================================
