------------------------------- MODULE WalLog -------------------------------
(***************************************************************************)
(* The write-ahead log of one index as cloudsearch-storage's WalManager    *)
(* keeps it on disk, at the granularity of whole records: a function from  *)
(* generation numbers (the files 000001.log, 000002.log, ...) to the       *)
(* sequence of records appended to that generation.  A generation's file   *)
(* comes into being with the first append to it, so no log here is empty.  *)
(* Torn records are the business of module WalFile, not of this one.       *)
(*                                                                         *)
(* A record is [seq, doc, val]: an IndexDocument when val is a value, a    *)
(* DeleteDocument when val is Absent.  (MappingUpdate records exist in the *)
(* format, but nothing under src/ appends one and replay ignores them.)    *)
(***************************************************************************)
EXTENDS Integers, Sequences

Position(logs) == UNION {{g} \X DOMAIN logs[g] : g \in DOMAIN logs}

EntryAt(logs, p) == logs[p[1]][p[2]]

\* Replay reads the generations in ascending number and each file front to back.
Before(p, q) == \/ p[1] < q[1]
                \/ p[1] = q[1] /\ p[2] < q[2]

LastOf(P) == CHOOSE p \in P : \A q \in P : q = p \/ Before(q, p)

\* Mutant: append opens the file of the next generation.
AppendToNext(logs, current, entry) ==
    [g \in DOMAIN logs \cup {current + 1} |->
        IF g # current + 1 THEN logs[g]
        ELSE IF g \in DOMAIN logs THEN Append(logs[g], entry)
        ELSE <<entry>>]

\* WalManager::append to the generation that CURRENT names.
AppendTo(logs, current, entry) ==
    [g \in DOMAIN logs \cup {current} |->
        IF g # current THEN logs[g]
        ELSE IF g \in DOMAIN logs THEN Append(logs[g], entry)
        ELSE <<entry>>]

\* Mutant: off by one, the boundary record is dropped.
ReplayFromOffByOne(logs, seqExclusive) ==
    {p \in Position(logs) : EntryAt(logs, p).seq > seqExclusive + 1}

\* WalManager::replay_from: the records after the given sequence number.
ReplayFrom(logs, seqExclusive) ==
    {p \in Position(logs) : EntryAt(logs, p).seq > seqExclusive}

\* The replay loop of open_index over a document map: last record wins.
ApplyReplay(base, logs, seqExclusive) ==
    [d \in DOMAIN base |->
        LET hits == {p \in ReplayFrom(logs, seqExclusive) : EntryAt(logs, p).doc = d}
        IN  IF hits = {} THEN base[d] ELSE EntryAt(logs, LastOf(hits)).val]

\* Mutant: the sequence number is not moved on by the records that are replayed.
LastReplayedStale(logs, seqExclusive) == seqExclusive

\* Mutant: the first record that is replayed decides.
LastReplayedFirst(logs, seqExclusive) ==
    LET tail == ReplayFrom(logs, seqExclusive)
    IN  IF tail = {} THEN seqExclusive
        ELSE EntryAt(logs, CHOOSE p \in tail : \A q \in tail : q = p \/ Before(p, q)).seq

\* last_sequence_number after the replay loop: the last record read sets it.
LastReplayed(logs, seqExclusive) ==
    LET tail == ReplayFrom(logs, seqExclusive)
    IN  IF tail = {} THEN seqExclusive ELSE EntryAt(logs, LastOf(tail)).seq

\* WalManager::max_sequence_in_generation: the sequence number read last.
MaxSequenceIn(log) == log[Len(log)].seq

\* WalManager::trim_through: the inactive generations it removes.
Trimmable(logs, current, seqInclusive) ==
    {g \in DOMAIN logs : g # current /\ MaxSequenceIn(logs[g]) <= seqInclusive}

RemoveGeneration(logs, g) == [h \in DOMAIN logs \ {g} |-> logs[h]]
=============================================================================
