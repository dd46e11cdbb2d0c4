------------------------------ MODULE WalFile ------------------------------
(***************************************************************************)
(* WalManager at the granularity at which its files can be torn: what the  *)
(* generation files and CURRENT hold when an append or a rollover stops    *)
(* half way, what the next replay makes of it, and what later appends,     *)
(* rollovers and trims do to it.  Module IndexHandle uses the same log as  *)
(* a sequence of whole records.                                            *)
(*                                                                         *)
(* A file is a sequence of chunks.  A "record" chunk is a whole record.    *)
(* An append writes the 26 header bytes and then the payload; a "header"   *)
(* chunk is one that stopped inside the header, a "payload" chunk one that *)
(* stopped behind it.  Replay takes the bytes that follow such a chunk for *)
(* the missing ones: need is the number of chunks that it takes until the  *)
(* length in the torn header is reached, and then the checksum fails.      *)
(***************************************************************************)
EXTENDS Integers, Sequences, FiniteSets

CONSTANTS
    Garbled,     \* CURRENT is truncated: fs::write empties it before it writes
    MaxSeq,      \* bound: sequence numbers
    MaxGen,      \* bound: generations
    MaxNeed,     \* bound: chunks that a torn header can swallow
    MaxCrashes,  \* bound: ends of the process
    MaxErrors    \* bound: failing writes that the process survives

ASSUME GarbledAssumption == Garbled \notin Nat
ASSUME FileBounds == /\ MaxSeq \in Nat /\ MaxGen \in Nat \ {0} /\ MaxNeed \in Nat \ {0}
                     /\ MaxCrashes \in Nat /\ MaxErrors \in Nat

VARIABLES
    files,     \* the generation files that exist
    current,   \* the content of CURRENT
    phase,     \* where the process is
    lastSeq,   \* last_sequence_number of the handle
    covered,   \* the sequence number up to which the manifest covers the WAL
    acked,     \* the acknowledged sequence numbers
    buried,    \* whether a record was ever written behind a torn one
    crashes, errors

vars == <<files, current, phase, lastSeq, covered, acked, buried, crashes, errors>>

Record(seq) == [kind |-> "record", seq |-> seq, need |-> 0]
TornChunks(seq) == [kind : {"header", "payload"}, seq : {seq}, need : 1..MaxNeed]
Chunks == UNION {TornChunks(s) \cup {Record(s)} : s \in 1..MaxSeq}

-----------------------------------------------------------------------------
\* How replay_from scans one file.

Torn(file) == {i \in DOMAIN file : file[i].kind # "record"}

FirstTorn(file) == CHOOSE i \in Torn(file) : \A j \in Torn(file) : i <= j

\* The chunks that follow the first torn one.
Behind(file) == Len(file) - FirstTorn(file)

\* The records in front of it.
Prefix(file) == IF Torn(file) = {} THEN file ELSE SubSeq(file, 1, FirstTorn(file) - 1)

\* "clean": the scan reaches the end of the file.  A header that the file ends in
\* is shorter than HEADER_LEN, and the loop ends without looking at it.
\* "partial": the payload would end behind the end of the file.
\* "mismatch": the payload is complete with foreign bytes, its checksum is wrong.
Outcome(file) ==
    IF Torn(file) = {} THEN "clean"
    ELSE LET t == file[FirstTorn(file)]
         IN  IF t.kind = "header" /\ Behind(file) = 0 THEN "clean"
             ELSE IF Behind(file) < t.need THEN "partial"
             ELSE "mismatch"

Seqs(file) == {file[i].seq : i \in DOMAIN file}

\* A partial record ends the replay of the current generation and is an error in
\* every other one; a checksum mismatch is an error everywhere.
OpenFails ==
    \/ current = Garbled
    \/ \E g \in DOMAIN files :
          \/ Outcome(files[g]) = "mismatch"
          \/ Outcome(files[g]) = "partial" /\ g # current

\* Mutant: off by one, the first record behind the covered ones is skipped.
ReplayedOffByOne ==
    {s \in UNION {Seqs(Prefix(files[g])) : g \in DOMAIN files} : s > covered + 1}

\* The sequence numbers that replay_from returns when it does not fail.
Replayed == {s \in UNION {Seqs(Prefix(files[g])) : g \in DOMAIN files} : s > covered}

Greatest(S) == CHOOSE s \in S : \A t \in S : t <= s

\* Mutant: a log without a record behind the covered ones starts again at 1.
LastNumberRestarts ==
    LET gens == {g \in DOMAIN files : \E s \in Seqs(Prefix(files[g])) : s > covered}
    IN  IF gens = {} THEN 0
        ELSE LET prefix == Prefix(files[Greatest(gens)])
             IN  prefix[Greatest({i \in DOMAIN prefix : prefix[i].seq > covered})].seq

\* Mutant: the handle starts with the next free number instead of the last one.
LastNumberNext == 1 + LastNumberRestarts

\* The number of the last entry of the replay, or what the manifest covers.
LastNumber ==
    LET gens == {g \in DOMAIN files : \E s \in Seqs(Prefix(files[g])) : s > covered}
    IN  IF gens = {} THEN covered
        ELSE LET prefix == Prefix(files[Greatest(gens)])
             IN  prefix[Greatest({i \in DOMAIN prefix : prefix[i].seq > covered})].seq

-----------------------------------------------------------------------------
\* WalManager::open has created CURRENT, or has been cut while it wrote it.
Init ==
    /\ files = [g \in {} |-> <<>>] /\ current \in {1, Garbled}
    /\ phase = "closed" /\ lastSeq = 0 /\ covered = 0 /\ acked = {} /\ buried = FALSE
    /\ crashes = 0 /\ errors = 0

\* open_index, as far as it concerns the WAL.  A failing open changes no file, so
\* that the next request fails again.
Open ==
    /\ phase \in {"closed", "failed"}
    /\ IF OpenFails
       THEN phase' = "failed" /\ UNCHANGED lastSeq
       ELSE phase' = "open" /\ lastSeq' = LastNumber
    /\ UNCHANGED <<files, current, covered, acked, buried, crashes, errors>>

CanAppend == phase = "open" /\ current # Garbled /\ lastSeq < MaxSeq

\* The file is opened in append mode: new bytes follow whatever is there.
Put(chunk) ==
    LET old == IF current \in DOMAIN files THEN files[current] ELSE <<>>
    IN  /\ files' = [g \in DOMAIN files \cup {current} |->
                        IF g = current THEN Append(old, chunk) ELSE files[g]]
        /\ buried' = (buried \/ Torn(old) # {})

\* A successful append: the caller moves lastSeq and acknowledges the operation.
AppendRecord ==
    /\ CanAppend
    /\ Put(Record(lastSeq + 1))
    /\ lastSeq' = lastSeq + 1
    /\ acked' = acked \cup {lastSeq + 1}
    /\ UNCHANGED <<current, phase, covered, crashes, errors>>

\* What an append that does not succeed leaves: a torn record, or all of it.
Leftovers == TornChunks(lastSeq + 1) \cup {Record(lastSeq + 1)}

Die == phase' = "closed" /\ lastSeq' = 0 /\ crashes < MaxCrashes /\ crashes' = crashes + 1

Survive == UNCHANGED <<phase, lastSeq>> /\ errors < MaxErrors /\ errors' = errors + 1

\* The process ends while it writes a record, or before it acknowledges it.
AppendCut ==
    /\ CanAppend /\ Die
    /\ \E c \in Leftovers : Put(c)
    /\ UNCHANGED <<current, covered, acked, errors>>

\* write_all or sync_all fails, as on a full disk, and the caller gets an error.
\* Nothing removes the bytes, and the next record gets the same number.
AppendFails ==
    /\ CanAppend /\ Survive
    /\ \E c \in Leftovers : Put(c)
    /\ UNCHANGED <<current, covered, acked, crashes>>

\* flush, as far as it concerns the WAL: rollover, publish, trim.
Rollover ==
    /\ phase = "open" /\ current # Garbled /\ current < MaxGen
    /\ current' = current + 1
    /\ phase' = "rolled"
    /\ UNCHANGED <<files, lastSeq, covered, acked, buried, crashes, errors>>

\* The process ends, or the write fails, after CURRENT was truncated.
RolloverCut ==
    /\ phase = "open" /\ current # Garbled /\ current < MaxGen
    /\ current' = Garbled
    /\ \/ Die /\ UNCHANGED errors
       \/ Survive /\ UNCHANGED crashes
    /\ UNCHANGED <<files, covered, acked, buried>>

\* The manifest is renamed into place: it covers what the handle has numbered.
Publish ==
    /\ phase = "rolled"
    /\ covered' = lastSeq
    /\ phase' = "published"
    /\ UNCHANGED <<files, current, lastSeq, acked, buried, crashes, errors>>

\* max_sequence_in_generation stops at a partial record but checks no checksum:
\* behind a complete torn record it goes on through misaligned bytes, and what it
\* takes for the last sequence number may be covered or not.
SurelyCovered ==
    {g \in DOMAIN files \ {current} :
        LET prefix == Prefix(files[g])
        IN  /\ Outcome(files[g]) # "mismatch"
            /\ prefix # <<>> /\ prefix[Len(prefix)].seq <= covered}

PerhapsCovered == {g \in DOMAIN files \ {current} : Outcome(files[g]) = "mismatch"}

\* Mutant: a generation is trimmed when its first record is covered.
TrimByFirst ==
    /\ phase = "published"
    /\ files' = [g \in {h \in DOMAIN files : h = current \/ Prefix(files[h]) = <<>>
                                                \/ Prefix(files[h])[1].seq > covered} |-> files[g]]
    /\ phase' = "open"
    /\ UNCHANGED <<current, lastSeq, covered, acked, buried, crashes, errors>>

Trim ==
    /\ phase = "published"
    /\ \E S \in SUBSET PerhapsCovered :
          files' = [g \in DOMAIN files \ (SurelyCovered \cup S) |-> files[g]]
    /\ phase' = "open"
    /\ UNCHANGED <<current, lastSeq, covered, acked, buried, crashes, errors>>

\* A step of the flush fails and flush returns its error.
FlushFails ==
    /\ phase \in {"rolled", "published"}
    /\ errors < MaxErrors /\ errors' = errors + 1
    /\ phase' = "open"
    /\ UNCHANGED <<files, current, lastSeq, covered, acked, buried, crashes>>

\* The process ends between two writes.  It costs nothing and needs no bound.
Crash ==
    /\ phase \in {"open", "rolled", "published"}
    /\ phase' = "closed" /\ lastSeq' = 0
    /\ UNCHANGED <<files, current, covered, acked, buried, crashes, errors>>

Next ==
    \/ Open \/ AppendRecord \/ AppendCut \/ AppendFails
    \/ Rollover \/ RolloverCut \/ Publish \/ Trim \/ FlushFails \/ Crash

Spec == Init /\ [][Next]_vars

-----------------------------------------------------------------------------
\* Every variable has its type: the files hold chunks, CURRENT a generation or
\* nothing that can be parsed, the handle a number that WalManager can reach.
TypeOK ==
    /\ DOMAIN files \subseteq 1..MaxGen
    /\ \A g \in DOMAIN files : \A i \in DOMAIN files[g] : files[g][i] \in Chunks
    /\ current \in 1..MaxGen \cup {Garbled}
    /\ phase \in {"closed", "open", "rolled", "published", "failed"}
    /\ lastSeq \in 0..MaxSeq /\ covered \in 0..MaxSeq
    /\ acked \subseteq 1..MaxSeq
    /\ buried \in BOOLEAN
    /\ crashes \in 0..MaxCrashes /\ errors \in 0..MaxErrors

NotCovered == {s \in acked : s > covered}

\* As long as no record was written behind a torn one, a restart loses nothing:
\* whenever the log can be opened, replay_from returns every acknowledged record
\* that the manifest does not cover, whatever was cut, rolled over and trimmed.
AckedReplayed == ~buried /\ ~OpenFails => NotCovered \subseteq Replayed

\* As long as no record was written behind a torn one, a handle never gives a new
\* operation the number of an acknowledged one, also right after a flush that
\* has left the log empty.
NumbersFresh ==
    ~buried /\ phase \in {"open", "rolled", "published"} => \A s \in acked : s <= lastSeq

\* trim_through is invisible: it changes neither what the next replay returns nor
\* turns a log that can be opened into one that cannot.
TrimIsInvisible ==
    [][phase = "published" /\ phase' = "open" /\ ~buried
          => Replayed' = Replayed /\ (OpenFails' => OpenFails)]_vars
=============================================================================
