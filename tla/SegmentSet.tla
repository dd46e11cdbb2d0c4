----------------------------- MODULE SegmentSet -----------------------------
(***************************************************************************)
(* The immutable segments of one index and the manifest that names them.   *)
(*                                                                         *)
(* files     a function from segment number n to the content of            *)
(*           seg_n.json: [last |-> sequence number, docs |-> document map] *)
(* manifest  the set of SegmentMeta records [num, last, count] listed in   *)
(*           manifest.json.  The code keeps a Vec, but every push appends  *)
(*           the number of the last element plus one and every filter keeps*)
(*           the order, so the Vec is the set in ascending number.         *)
(*                                                                         *)
(* A document map is a total function on the document ids, Absent where    *)
(* the BTreeMap has no entry.  Checksums and the sidecar files (doc values,*)
(* positions, suggestions) are not kept: open_index verifies no checksum   *)
(* and rebuilds nothing a document's presence or value depends on.         *)
(***************************************************************************)
EXTENDS Integers, FiniteSets

Nums(manifest) == {m.num : m \in manifest}

\* segments.last() of a non-empty manifest.
LastMeta(manifest) == CHOOSE m \in manifest : \A n \in manifest : n.num <= m.num

\* IndexManifest::next_segment_number.
NextNum(manifest) == IF manifest = {} THEN 1 ELSE LastMeta(manifest).num + 1

Present(docs, absent) == {d \in DOMAIN docs : docs[d] # absent}

\* The SegmentMeta of a snapshot about to be published under a number.
MetaOf(num, snapshot, absent) ==
    [num |-> num, last |-> snapshot.last, count |-> Cardinality(Present(snapshot.docs, absent))]

\* A segment is readable when its file exists; read_segment_file skips the others.
Readable(manifest, files) == {m \in manifest : m.num \in DOMAIN files}

Holders(manifest, files, d, absent) ==
    {m \in Readable(manifest, files) : files[m.num].docs[d] # absent}

\* Mutant: the segments are read newest first, so the oldest value wins.
LoadOldestWins(manifest, files, docs, absent) ==
    [d \in docs |->
        LET H == Holders(manifest, files, d, absent)
        IN  IF H = {} THEN absent
            ELSE files[(CHOOSE m \in H : \A n \in H : m.num <= n.num).num].docs[d]]

\* Reading the segments one after the other into one BTreeMap: the entry of the
\* highest numbered segment stays, and a segment that lacks a document leaves
\* the older entry alone (there is no tombstone in a segment).
LoadSegments(manifest, files, docs, absent) ==
    [d \in docs |->
        LET H == Holders(manifest, files, d, absent)
        IN  IF H = {} THEN absent ELSE files[LastMeta(H).num].docs[d]]

\* max_seq of open_index: the sequence number up to which segments cover the WAL.
DurableSeq(manifest, files) ==
    LET lasts == {m.last : m \in Readable(manifest, files)} \cup {0}
    IN  CHOOSE s \in lasts : \A t \in lasts : t <= s

Small(manifest, threshold) == {m \in manifest : m.count > 0 /\ m.count < threshold}

\* IndexHandle::plan_merge: the segments to merge, {} when there is nothing to do.
PlanMerge(manifest, threshold) ==
    IF Cardinality(Small(manifest, threshold)) >= 2
    THEN Small(manifest, threshold)
    ELSE IF manifest # {} /\ LastMeta(manifest).count >= threshold
    THEN {LastMeta(manifest)}
    ELSE {}
=============================================================================
