--------------------------- MODULE WalFileProofs ---------------------------
(***************************************************************************)
(* Theorems about module WalFile: for every number of records, generations,*)
(* crashes and errors, and torn records that swallow any number of chunks. *)
(***************************************************************************)
EXTENDS WalFile, StoreFacts

-----------------------------------------------------------------------------
(***************************************************************************)
(* The inductive invariant.                                                *)
(***************************************************************************)

Running == phase \in {"open", "rolled", "published"}

IsRecord(g, i) == g \in DOMAIN files /\ i \in DOMAIN files[g] /\ files[g][i].kind = "record"

FilesTyped == \A g \in DOMAIN files : files[g] \in Seq(Chunks)

\* Nobody has written to a generation above the one that CURRENT names.
Newest == current # Garbled => \A g \in DOMAIN files : g <= current

\* A torn chunk is the last one of its file.
TornIsLast == \A g \in DOMAIN files : \A i \in Torn(files[g]) : i = Len(files[g])

\* In the order of replay, the numbers of the records do not decrease.
Sorted ==
    \A g, h \in DOMAIN files : \A i \in DOMAIN files[g], j \in DOMAIN files[h] :
        IsRecord(g, i) /\ IsRecord(h, j) /\ (g < h \/ (g = h /\ i < j))
            => files[g][i].seq <= files[h][j].seq

\* The handle has counted every record, but for the one whose append failed last.
Counted ==
    Running =>
        /\ covered <= lastSeq
        /\ \A s \in acked : s <= lastSeq
        /\ \A g \in DOMAIN files : \A i \in DOMAIN files[g] :
              IsRecord(g, i) => files[g][i].seq <= lastSeq + 1

\* What was acknowledged and is not covered is in the log.
AckedKept ==
    \A s \in acked : s > covered =>
        \E g \in DOMAIN files : \E i \in DOMAIN files[g] :
            IsRecord(g, i) /\ files[g][i].seq = s

\* The log as it is as long as no record was written behind a torn one.
LogIntact == TornIsLast /\ Sorted /\ Counted /\ AckedKept

FileInv == TypeOK /\ FilesTyped /\ Newest /\ (buried \/ LogIntact)
-----------------------------------------------------------------------------
\* Chunks and files.

\* What a chunk of a file is made of.
LEMMA ChunkFacts ==
    ASSUME NEW c \in Chunks
    PROVE  /\ c.seq \in 1..MaxSeq /\ c.seq \in Nat
           /\ c.kind # "record" => c.need \in Nat /\ c.need >= 1
<1>1. PICK s \in 1..MaxSeq : c \in TornChunks(s) \cup {Record(s)}
  BY DEF Chunks
<1>2. s \in Nat /\ MaxNeed \in Nat
  BY FileBounds
<1>3. CASE c \in TornChunks(s)
  BY <1>2, <1>3 DEF TornChunks
<1>4. CASE c = Record(s)
  BY <1>2, <1>4 DEF Record
<1> QED BY <1>1, <1>3, <1>4

\* What an append can leave is a chunk, and a record is one.
LEMMA LeftoverFacts ==
    ASSUME TypeOK, CanAppend, NEW c \in Leftovers
    PROVE  /\ c \in Chunks /\ c.seq = lastSeq + 1
           /\ Record(lastSeq + 1) \in Leftovers
<1>1. lastSeq + 1 \in 1..MaxSeq
  BY FileBounds DEF TypeOK, CanAppend
<1>2. Leftovers \subseteq Chunks /\ Record(lastSeq + 1) \in Leftovers
  BY <1>1 DEF Leftovers, Chunks
<1>3. c.seq = lastSeq + 1
  BY DEF Leftovers, TornChunks, Record
<1> QED BY <1>2, <1>3

\* The first torn chunk is one.
LEMMA FirstTornFacts ==
    ASSUME NEW file \in Seq(Chunks), Torn(file) # {}
    PROVE  /\ FirstTorn(file) \in Torn(file) /\ FirstTorn(file) \in 1..Len(file)
           /\ \A j \in Torn(file) : FirstTorn(file) <= j
<1>1. Torn(file) \in SUBSET Nat /\ Torn(file) \subseteq 1..Len(file)
  BY DEF Torn
<1>2. \E i \in Torn(file) : \A j \in Torn(file) : i <= j
  BY <1>1, LeastNat
<1>3. FirstTorn(file) \in Torn(file) /\ \A j \in Torn(file) : FirstTorn(file) <= j
  BY <1>2 DEF FirstTorn
<1> QED BY <1>1, <1>3

\* What a scan returns are the records in front of the first torn chunk.
LEMMA PrefixFacts ==
    ASSUME NEW file \in Seq(Chunks)
    PROVE  /\ Prefix(file) \in Seq(Chunks) /\ Len(Prefix(file)) <= Len(file)
           /\ \A i \in 1..Len(Prefix(file)) : Prefix(file)[i] = file[i] /\ file[i].kind = "record"
           /\ Torn(file) = {} => Len(Prefix(file)) = Len(file)
           /\ Torn(file) # {} => Len(Prefix(file)) = FirstTorn(file) - 1
<1>1. CASE Torn(file) = {}
  BY <1>1 DEF Prefix, Torn
<1>2. CASE Torn(file) # {}
  <2> DEFINE t == FirstTorn(file)
             p == Prefix(file)
  <2>1. t \in 1..Len(file) /\ \A j \in Torn(file) : t <= j
    BY <1>2, FirstTornFacts
  <2>2. p = SubSeq(file, 1, t - 1)
    BY <1>2 DEF Prefix
  <2> HIDE DEF t, p
  <2>3. 1 \in Int /\ t - 1 \in Int /\ \A i \in 1..t - 1 : file[i] \in Chunks
    BY <2>1
  <2>4. /\ p \in Seq(Chunks) /\ Len(p) = IF 1 <= t - 1 THEN (t - 1) - 1 + 1 ELSE 0
        /\ \A i \in 1..(t - 1) - 1 + 1 : p[i] = file[1 + i - 1]
    BY <2>2, <2>3, SubSeqProperties
  <2>5. Len(p) = t - 1 /\ \A i \in 1..t - 1 : p[i] = file[i]
    BY <2>1, <2>4
  <2>6. \A i \in 1..t - 1 : file[i].kind = "record"
    BY <2>1 DEF Torn
  <2> QED BY <1>2, <2>1, <2>4, <2>5, <2>6 DEF t, p
<1> QED BY <1>1, <1>2

\* When only the last chunk can be torn, these are all the records of the file, and
\* no checksum is found to be wrong.
LEMMA IntactFile ==
    ASSUME NEW file \in Seq(Chunks), \A i \in Torn(file) : i = Len(file)
    PROVE  /\ \A i \in DOMAIN file : file[i].kind = "record" => i \in 1..Len(Prefix(file))
           /\ Outcome(file) # "mismatch"
<1>1. CASE Torn(file) = {}
  BY <1>1, PrefixFacts DEF Outcome
<1>2. CASE Torn(file) # {}
  <2>1. /\ FirstTorn(file) = Len(file) /\ Len(file) \in Nat
        /\ FirstTorn(file) \in Torn(file) /\ FirstTorn(file) \in 1..Len(file)
    BY <1>2, FirstTornFacts
  <2>2. file[Len(file)].kind # "record" /\ file[Len(file)] \in Chunks
    BY <2>1 DEF Torn
  <2>3. Len(Prefix(file)) = Len(file) - 1
    BY <1>2, <2>1, PrefixFacts
  <2>4. \A i \in DOMAIN file : file[i].kind = "record" => i \in 1..Len(Prefix(file))
    <3> SUFFICES ASSUME NEW i \in 1..Len(file), file[i].kind = "record"
                 PROVE  i \in 1..Len(file) - 1
      BY <2>3
    <3>1. i # Len(file)
      BY <2>2
    <3> QED BY <2>1, <3>1
  <2>5. file[FirstTorn(file)].need \in Nat /\ file[FirstTorn(file)].need >= 1
    BY <2>1, <2>2, ChunkFacts
  <2>6. Behind(file) = 0
    BY <2>1 DEF Behind
  <2>7. Outcome(file) # "mismatch"
    BY <1>2, <2>5, <2>6 DEF Outcome
  <2> QED BY <2>4, <2>7
<1> QED BY <1>1, <1>2

-----------------------------------------------------------------------------
\* The number with which an open handle begins.

\* It covers everything that replay can read.
LEMMA LastNumberFacts ==
    ASSUME TypeOK, FilesTyped
    PROVE  /\ LastNumber \in 0..MaxSeq /\ covered <= LastNumber
           /\ TornIsLast /\ Sorted =>
                 \A g \in DOMAIN files : \A i \in DOMAIN files[g] :
                    IsRecord(g, i) => files[g][i].seq <= LastNumber
<1> DEFINE gens == {g \in DOMAIN files : \E s \in Seqs(Prefix(files[g])) : s > covered}
           top  == Greatest(gens)
           prefix == Prefix(files[top])
           late == {i \in DOMAIN prefix : prefix[i].seq > covered}
           last == Greatest(late)
<1>1. covered \in Nat /\ covered \in 0..MaxSeq /\ MaxSeq \in Nat /\ MaxGen \in Nat
  BY FileBounds DEF TypeOK
<1>2. LastNumber = IF gens = {} THEN covered ELSE prefix[last].seq
  BY DEF LastNumber
<1>3. ASSUME NEW g \in DOMAIN files, NEW i \in DOMAIN files[g], TornIsLast, IsRecord(g, i)
      PROVE  /\ files[g][i].seq \in Nat
             /\ i \in DOMAIN Prefix(files[g]) /\ Prefix(files[g])[i] = files[g][i]
             /\ files[g][i].seq > covered => g \in gens
  <2>1. files[g] \in Seq(Chunks) /\ files[g][i] \in Chunks /\ \A j \in Torn(files[g]) : j = Len(files[g])
    BY <1>3 DEF FilesTyped, TornIsLast
  <2>2. /\ i \in 1..Len(Prefix(files[g])) /\ Prefix(files[g])[i] = files[g][i]
        /\ Prefix(files[g]) \in Seq(Chunks)
    BY <1>3, <2>1, IntactFile, PrefixFacts DEF IsRecord
  <2>3. i \in DOMAIN Prefix(files[g])
    BY <2>2
  <2>4. files[g][i].seq \in Seqs(Prefix(files[g]))
    BY <2>2, <2>3 DEF Seqs
  <2> QED BY <2>1, <2>2, <2>3, <2>4, ChunkFacts
<1>4. CASE gens = {}
  <2>1. LastNumber = covered
    BY <1>2, <1>4
  <2>2. ASSUME TornIsLast, NEW g \in DOMAIN files, NEW i \in DOMAIN files[g], IsRecord(g, i)
        PROVE  files[g][i].seq <= LastNumber
    <3>1. files[g][i].seq \in Nat /\ ~(files[g][i].seq > covered)
      BY <1>3, <1>4, <2>2
    <3> QED BY <1>1, <2>1, <3>1
  <2> QED BY <1>1, <2>1, <2>2
<1>5. CASE gens # {}
  <2>1. top \in gens /\ \A g \in gens : g <= top
    <3>1. gens \in SUBSET Nat /\ \A g \in gens : g <= MaxGen
      BY DEF TypeOK
    <3> HIDE DEF gens
    <3>2. \E g \in gens : \A h \in gens : h <= g
      BY <1>1, <1>5, <3>1, GreatestNat
    <3> QED BY <3>2 DEF Greatest
  <2>2. top \in DOMAIN files /\ files[top] \in Seq(Chunks) /\ \E s \in Seqs(prefix) : s > covered
    BY <2>1 DEF FilesTyped
  <2> HIDE DEF gens, top
  <2>3. prefix \in Seq(Chunks) /\ Len(prefix) \in Nat /\ DOMAIN prefix = 1..Len(prefix)
    BY <2>2, PrefixFacts
  <2>4. last \in late /\ \A i \in late : i <= last
    <3>1. late \in SUBSET Nat /\ (\A i \in late : i <= Len(prefix)) /\ late # {}
      BY <2>2, <2>3 DEF Seqs
    <3> HIDE DEF late, prefix
    <3>2. \E i \in late : \A j \in late : j <= i
      BY <2>3, <3>1, GreatestNat
    <3> QED BY <3>2 DEF Greatest
  <2>5. /\ last \in 1..Len(prefix) /\ prefix[last].seq > covered
        /\ prefix[last] \in Chunks /\ prefix[last].seq \in 1..MaxSeq /\ prefix[last].seq \in Nat
    BY <2>3, <2>4, ChunkFacts
  <2>6. LastNumber = prefix[last].seq
    BY <1>2, <1>5
  <2>7. ASSUME TornIsLast, Sorted, NEW g \in DOMAIN files, NEW i \in DOMAIN files[g], IsRecord(g, i)
        PROVE  files[g][i].seq <= LastNumber
    <3>1. IsRecord(top, last) /\ prefix[last] = files[top][last] /\ last \in DOMAIN files[top]
      BY <2>2, <2>3, <2>5, PrefixFacts DEF IsRecord
    <3>2. g \in Nat /\ top \in Nat /\ i \in Nat /\ last \in Nat /\ files[g][i].seq \in Nat
      BY <1>3, <2>2, <2>3, <2>5, <2>7 DEF TypeOK, FilesTyped
    <3>3. CASE files[g][i].seq <= covered
      BY <1>1, <2>5, <2>6, <3>2, <3>3
    <3>4. CASE files[g][i].seq > covered
      <4>1. g <= top
        BY <1>3, <2>1, <2>7, <3>4
      <4>2. CASE g < top
        BY <2>2, <2>6, <2>7, <3>1, <4>2 DEF Sorted
      <4>3. CASE g = top
        <5>1. i \in late
          BY <1>3, <2>7, <3>4, <4>3
        <5>2. i <= last
          BY <2>4, <5>1
        <5>3. CASE i = last
          BY <2>5, <2>6, <3>1, <4>3, <5>3
        <5>4. CASE i < last
          BY <2>2, <2>6, <2>7, <3>1, <4>3, <5>4 DEF Sorted
        <5> HIDE DEF last
        <5> QED BY <3>2, <5>2, <5>3, <5>4
      <4> HIDE DEF top
      <4> QED BY <3>2, <4>1, <4>2, <4>3
    <3> QED BY <1>1, <3>2, <3>3, <3>4
  <2> HIDE DEF prefix, last
  <2> QED BY <1>1, <2>5, <2>6, <2>7
<1> QED BY <1>4, <1>5
-----------------------------------------------------------------------------
\* The steps.

\* The invariant holds of an empty directory ...
LEMMA InitFileInv == Init => FileInv
<1> SUFFICES ASSUME Init PROVE FileInv
  OBVIOUS
<1>1. DOMAIN files = {} /\ ~Running /\ acked = {} /\ phase = "closed"
  BY DEF Init, Running
<1>2. TypeOK
  <2>1. 1 \in 1..MaxGen /\ 0 \in 0..MaxSeq /\ 0 \in 0..MaxCrashes /\ 0 \in 0..MaxErrors
    BY FileBounds
  <2>2. current \in 1..MaxGen \cup {Garbled} /\ buried \in BOOLEAN
    BY <2>1 DEF Init
  <2> QED BY <1>1, <2>1, <2>2 DEF Init, TypeOK
<1> QED BY <1>1, <1>2
        DEF FileInv, FilesTyped, Newest, LogIntact, TornIsLast, Sorted, Counted, AckedKept

\* What an append does to the files.
LEMMA PutFacts ==
    ASSUME TypeOK, FilesTyped, CanAppend, NEW c \in Chunks, Put(c)
    PROVE  /\ DOMAIN files' = DOMAIN files \cup {current}
           /\ \A g \in DOMAIN files \ {current} : files'[g] = files[g]
           /\ \E n \in Nat :
                /\ n = IF current \in DOMAIN files THEN Len(files[current]) ELSE 0
                /\ files'[current] \in Seq(Chunks) /\ Len(files'[current]) = n + 1
                /\ files'[current][n + 1] = c
                /\ \A i \in 1..n : files'[current][i] = files[current][i]
                /\ ~buried' => \A i \in 1..n : files[current][i].kind = "record"
           /\ ~buried' => ~buried
<1> DEFINE old == IF current \in DOMAIN files THEN files[current] ELSE <<>>
<1>1. old \in Seq(Chunks)
  BY DEF FilesTyped
<1>2. /\ DOMAIN files' = DOMAIN files \cup {current}
      /\ \A g \in DOMAIN files \ {current} : files'[g] = files[g]
      /\ files'[current] = Append(old, c)
      /\ buried' = (buried \/ Torn(old) # {})
  BY DEF Put
<1>3. current \in DOMAIN files => old = files[current]
  OBVIOUS
<1>4. Len(old) = IF current \in DOMAIN files THEN Len(files[current]) ELSE 0
  OBVIOUS
<1>5. \A i \in 1..Len(old) : old[i] = files[current][i]
  <2> SUFFICES ASSUME NEW i \in 1..Len(old) PROVE old[i] = files[current][i]
    OBVIOUS
  <2>1. current \in DOMAIN files
    BY <1>4
  <2> QED BY <1>3, <2>1
<1> HIDE DEF old
<1>6. /\ files'[current] \in Seq(Chunks) /\ Len(files'[current]) = Len(old) + 1
      /\ files'[current][Len(old) + 1] = c
      /\ \A i \in 1..Len(old) : files'[current][i] = old[i]
  BY <1>1, <1>2, AppendProperties
<1>7. ~buried' => \A i \in 1..Len(old) : old[i].kind = "record"
  <2> SUFFICES ASSUME ~buried', NEW i \in 1..Len(old) PROVE old[i].kind = "record"
    OBVIOUS
  <2>1. DOMAIN old = 1..Len(old)
    BY <1>1
  <2>2. Torn(old) = {}
    BY <1>2, Zenon
  <2> QED BY <2>1, <2>2 DEF Torn
<1>8. Len(old) \in Nat
  BY <1>1
<1> QED BY <1>2, <1>4, <1>5, <1>6, <1>7, <1>8

\* Every record afterwards was there before, or is the new one, behind all others.
LEMMA PutRecords ==
    ASSUME FileInv, CanAppend, NEW c \in Leftovers, Put(c), ~buried'
    PROVE  /\ \A g \in DOMAIN files : \A i \in DOMAIN files[g] :
                /\ g \in DOMAIN files' /\ i \in DOMAIN files'[g]
                /\ files'[g][i] = files[g][i]
           /\ current \in DOMAIN files'
           /\ \E n \in Nat :
                /\ n + 1 \in DOMAIN files'[current] /\ files'[current][n + 1] = c
                /\ Len(files'[current]) = n + 1
                /\ \A g \in DOMAIN files' : \A i \in DOMAIN files'[g] :
                     \/ g = current /\ i = n + 1
                     \/ /\ g \in DOMAIN files /\ i \in DOMAIN files[g]
                        /\ files'[g][i] = files[g][i]
                        /\ g < current \/ (g = current /\ i < n + 1 /\ files[g][i].kind = "record")
<1>1. /\ TypeOK /\ FilesTyped /\ Newest /\ c \in Chunks
      /\ current # Garbled /\ current \in Nat
  BY LeftoverFacts DEF FileInv, CanAppend, TypeOK
<1>2. PICK n \in Nat :
          /\ n = IF current \in DOMAIN files THEN Len(files[current]) ELSE 0
          /\ files'[current] \in Seq(Chunks) /\ Len(files'[current]) = n + 1
          /\ files'[current][n + 1] = c
          /\ \A i \in 1..n : files'[current][i] = files[current][i]
          /\ \A i \in 1..n : files[current][i].kind = "record"
  BY <1>1, PutFacts
<1>3. /\ DOMAIN files' = DOMAIN files \cup {current}
      /\ \A g \in DOMAIN files \ {current} : files'[g] = files[g]
  BY <1>1, PutFacts
<1>4. DOMAIN files'[current] = 1..(n + 1)
  BY <1>2
<1>5. current \in DOMAIN files => DOMAIN files[current] = 1..n
  BY <1>1, <1>2 DEF FilesTyped
<1>6. current \notin DOMAIN files => n = 0
  BY <1>2
<1>7. ASSUME NEW g \in DOMAIN files, NEW i \in DOMAIN files[g]
      PROVE  g \in DOMAIN files' /\ i \in DOMAIN files'[g] /\ files'[g][i] = files[g][i]
  <2>1. CASE g = current
    <3>1. i \in 1..n /\ i \in 1..(n + 1)
      BY <1>2, <1>5, <2>1
    <3> QED BY <1>2, <1>3, <1>4, <2>1, <3>1
  <2>2. CASE g # current
    BY <1>3, <2>2
  <2> QED BY <2>1, <2>2
<1>8. ASSUME NEW g \in DOMAIN files', NEW i \in DOMAIN files'[g], ~(g = current /\ i = n + 1)
      PROVE  /\ g \in DOMAIN files /\ i \in DOMAIN files[g] /\ files'[g][i] = files[g][i]
             /\ g < current \/ (g = current /\ i < n + 1 /\ files[g][i].kind = "record")
  <2>1. CASE g = current
    <3>1. i \in 1..n /\ i < n + 1
      BY <1>2, <1>4, <1>8, <2>1
    <3>2. current \in DOMAIN files
      BY <1>2, <1>6, <3>1
    <3> QED BY <1>2, <1>5, <2>1, <3>1, <3>2
  <2>2. CASE g # current
    <3>1. g \in DOMAIN files /\ files'[g] = files[g]
      BY <1>3, <2>2
    <3>2. g <= current /\ g \in Nat
      BY <1>1, <3>1 DEF Newest, TypeOK
    <3> QED BY <1>1, <1>8, <2>2, <3>1, <3>2
  <2> QED BY <2>1, <2>2
<1>9. n + 1 \in DOMAIN files'[current]
  BY <1>2, <1>4
<1> QED BY <1>2, <1>3, <1>7, <1>8, <1>9

\* An append, whatever becomes of it: the caller sees to lastSeq and acked.
LEMMA PutStep ==
    ASSUME FileInv, CanAppend, NEW c \in Leftovers, Put(c),
           UNCHANGED <<current, covered>>,
           phase' \in {phase, "closed"}, TypeOK',
           \/ UNCHANGED acked
           \/ acked' = acked \cup {lastSeq + 1} /\ c = Record(lastSeq + 1),
           Running' => \/ lastSeq' = lastSeq /\ UNCHANGED acked
                       \/ lastSeq' = lastSeq + 1
    PROVE  FileInv'
<1>1. /\ TypeOK /\ FilesTyped /\ Newest /\ c \in Chunks /\ c.seq = lastSeq + 1
      /\ current # Garbled /\ current \in Nat /\ lastSeq \in Nat /\ covered \in Nat /\ Running
      /\ DOMAIN files \subseteq Nat
  BY LeftoverFacts DEF FileInv, CanAppend, TypeOK, Running
<1>2. FilesTyped' /\ Newest'
  <2>1. \E n \in Nat : files'[current] \in Seq(Chunks)
    BY <1>1, PutFacts
  <2>2. /\ DOMAIN files' = DOMAIN files \cup {current}
        /\ \A g \in DOMAIN files \ {current} : files'[g] = files[g]
    BY <1>1, PutFacts
  <2> QED BY <1>1, <2>1, <2>2 DEF FilesTyped, Newest
<1>3. ASSUME ~buried' PROVE LogIntact'
  <2>1. /\ \A g \in DOMAIN files : \A i \in DOMAIN files[g] :
             g \in DOMAIN files' /\ i \in DOMAIN files'[g] /\ files'[g][i] = files[g][i]
        /\ current \in DOMAIN files'
    BY <1>3, PutRecords
  <2>2. PICK n \in Nat :
             /\ n + 1 \in DOMAIN files'[current] /\ files'[current][n + 1] = c
             /\ Len(files'[current]) = n + 1
             /\ \A g \in DOMAIN files' : \A i \in DOMAIN files'[g] :
                  \/ g = current /\ i = n + 1
                  \/ /\ g \in DOMAIN files /\ i \in DOMAIN files[g]
                     /\ files'[g][i] = files[g][i]
                     /\ g < current \/ (g = current /\ i < n + 1 /\ files[g][i].kind = "record")
    BY <1>3, PutRecords
  <2>3. ~buried /\ \A g \in DOMAIN files \ {current} : files'[g] = files[g]
    BY <1>1, <1>3, PutFacts
  <2>4. TornIsLast /\ Sorted /\ Counted /\ AckedKept
    BY <2>3 DEF FileInv, LogIntact
  <2>5. \A g \in DOMAIN files' : files'[g] \in Seq(Chunks)
    BY <1>2 DEF FilesTyped
  <2>6. \A g \in DOMAIN files' : \A i \in DOMAIN files'[g] :
            i \in Nat /\ files'[g][i].seq \in Nat /\ g \in Nat
    <3> SUFFICES ASSUME NEW g \in DOMAIN files', NEW i \in DOMAIN files'[g]
                 PROVE  i \in Nat /\ files'[g][i].seq \in Nat /\ g \in Nat
      OBVIOUS
    <3>1. files'[g][i] \in Chunks /\ i \in Nat
      BY <2>5
    <3> QED BY <1>1, <2>2, <3>1, ChunkFacts
  <2>7. TornIsLast'
    <3> SUFFICES ASSUME NEW g \in DOMAIN files', NEW i \in DOMAIN files'[g],
                        files'[g][i].kind # "record"
                 PROVE  i = Len(files'[g])
      BY DEF TornIsLast, Torn
    <3>1. CASE g = current /\ i = n + 1
      BY <2>2, <3>1
    <3>2. CASE ~(g = current /\ i = n + 1)
      <4>1. g \in DOMAIN files /\ i \in DOMAIN files[g] /\ files'[g][i] = files[g][i] /\ g # current
        BY <1>1, <2>2, <2>6, <3>2
      <4>2. files'[g] = files[g]
        BY <2>3, <4>1
      <4> QED BY <2>4, <4>1, <4>2 DEF TornIsLast, Torn
    <3> QED BY <3>1, <3>2
  <2>8. \A g \in DOMAIN files' : \A i \in DOMAIN files'[g] :
            files'[g][i].kind = "record" => files'[g][i].seq <= lastSeq + 1
    <3> SUFFICES ASSUME NEW g \in DOMAIN files', NEW i \in DOMAIN files'[g],
                        files'[g][i].kind = "record"
                 PROVE  files'[g][i].seq <= lastSeq + 1
      OBVIOUS
    <3>1. CASE g = current /\ i = n + 1
      BY <1>1, <2>2, <3>1
    <3>2. CASE ~(g = current /\ i = n + 1)
      <4>1. IsRecord(g, i) /\ g \in DOMAIN files /\ i \in DOMAIN files[g]
            /\ files'[g][i] = files[g][i]
        BY <2>2, <3>2 DEF IsRecord
      <4> QED BY <1>1, <2>4, <4>1 DEF Counted
    <3> QED BY <3>1, <3>2
  <2>9. Sorted'
    <3> SUFFICES ASSUME NEW g \in DOMAIN files', NEW h \in DOMAIN files',
                        NEW i \in DOMAIN files'[g], NEW j \in DOMAIN files'[h],
                        files'[g][i].kind = "record", files'[h][j].kind = "record",
                        g < h \/ (g = h /\ i < j)
                 PROVE  files'[g][i].seq <= files'[h][j].seq
      BY DEF Sorted, IsRecord
    <3>1. CASE h = current /\ j = n + 1
      BY <1>1, <2>2, <2>8, <3>1
    <3>2. CASE ~(h = current /\ j = n + 1)
      <4>1. /\ h \in DOMAIN files /\ j \in DOMAIN files[h] /\ files'[h][j] = files[h][j]
            /\ h < current \/ (h = current /\ j < n + 1)
        BY <2>2, <3>2
      <4>2. ~(g = current /\ i = n + 1)
        BY <1>1, <2>6, <4>1
      <4>3. g \in DOMAIN files /\ i \in DOMAIN files[g] /\ files'[g][i] = files[g][i]
        BY <2>2, <4>2
      <4> QED BY <2>4, <4>1, <4>3 DEF Sorted, IsRecord
    <3> QED BY <3>1, <3>2
  <2>10. Counted'
    <3> SUFFICES ASSUME Running'
                 PROVE  /\ covered' <= lastSeq'
                        /\ \A s \in acked' : s <= lastSeq'
                        /\ \A g \in DOMAIN files' : \A i \in DOMAIN files'[g] :
                              files'[g][i].kind = "record" => files'[g][i].seq <= lastSeq' + 1
      BY DEF Counted, IsRecord
    <3>1. covered <= lastSeq /\ (\A s \in acked : s <= lastSeq /\ s \in Nat)
      BY <1>1, <2>4 DEF Counted, TypeOK
    <3>2. \A g \in DOMAIN files' : \A i \in DOMAIN files'[g] :
             files'[g][i].kind = "record" => files'[g][i].seq <= lastSeq + 1 + 1
      BY <1>1, <2>6, <2>8
    <3> QED BY <1>1, <2>8, <3>1, <3>2
  <2>11. AckedKept'
    <3> SUFFICES ASSUME NEW s \in acked', s > covered
                 PROVE  \E g \in DOMAIN files' : \E i \in DOMAIN files'[g] :
                            files'[g][i].kind = "record" /\ files'[g][i].seq = s
      BY DEF AckedKept, IsRecord
    <3>1. CASE s \in acked
      <4>1. PICK g \in DOMAIN files : \E i \in DOMAIN files[g] :
                files[g][i].kind = "record" /\ files[g][i].seq = s
        BY <2>4, <3>1 DEF AckedKept, IsRecord
      <4> QED BY <2>1, <4>1
    <3>2. CASE s \notin acked
      <4>1. s = lastSeq + 1 /\ c = Record(s)
        BY <3>2
      <4> QED BY <2>1, <2>2, <4>1 DEF Record
    <3> QED BY <3>1, <3>2
  <2> QED BY <2>7, <2>9, <2>10, <2>11 DEF LogIntact
<1> QED BY <1>2, <1>3 DEF FileInv

\* Steps that leave the files alone.
LEMMA SameFiles ==
    ASSUME FileInv, TypeOK', UNCHANGED <<files, acked, buried>>, Newest',
           covered <= covered', buried \/ Counted'
    PROVE  FileInv'
<1>1. FilesTyped'
  BY DEF FileInv, FilesTyped
<1>2. ASSUME ~buried PROVE LogIntact'
  <2>1. TornIsLast' /\ Sorted'
    BY <1>2 DEF FileInv, LogIntact, TornIsLast, Sorted, IsRecord
  <2>2. AckedKept'
    <3> SUFFICES ASSUME NEW s \in acked, s > covered'
                 PROVE  \E g \in DOMAIN files : \E i \in DOMAIN files[g] :
                            IsRecord(g, i) /\ files[g][i].seq = s
      BY DEF AckedKept, IsRecord
    <3>1. s \in Nat /\ covered \in Nat /\ covered' \in Nat
      BY DEF FileInv, TypeOK
    <3>2. s > covered
      BY <3>1
    <3> QED BY <1>2, <3>2 DEF FileInv, LogIntact, AckedKept
  <2> QED BY <1>2, <2>1, <2>2 DEF LogIntact
<1> QED BY <1>1, <1>2 DEF FileInv

\* Opening takes the number of the last record, or fails.
LEMMA OpenStep ==
    ASSUME FileInv, Open
    PROVE  FileInv'
<1>1. /\ TypeOK /\ FilesTyped /\ Newest /\ UNCHANGED <<files, current, covered, acked, buried, crashes, errors>>
      /\ \/ phase' = "failed" /\ UNCHANGED lastSeq
         \/ phase' = "open" /\ lastSeq' = LastNumber
  BY DEF Open, FileInv
<1>2. TypeOK'
  <2>1. LastNumber \in 0..MaxSeq
    BY <1>1, LastNumberFacts
  <2> QED BY <1>1, <2>1 DEF TypeOK
<1>3. Newest' /\ covered <= covered'
  BY <1>1 DEF Newest, TypeOK
<1>4. ASSUME ~buried PROVE Counted'
  <2>1. TornIsLast /\ Sorted /\ AckedKept
    BY <1>4 DEF FileInv, LogIntact
  <2>2. CASE phase' = "failed"
    BY <2>2 DEF Counted, Running
  <2>3. CASE phase' = "open" /\ lastSeq' = LastNumber
    <3>1. /\ LastNumber \in Nat /\ covered <= LastNumber /\ covered \in Nat
          /\ \A g \in DOMAIN files : \A i \in DOMAIN files[g] :
                IsRecord(g, i) => files[g][i].seq <= LastNumber
      BY <1>1, <2>1, LastNumberFacts DEF TypeOK
    <3>2. \A s \in acked : s <= LastNumber
      <4> SUFFICES ASSUME NEW s \in acked PROVE s <= LastNumber
        OBVIOUS
      <4>1. s \in Nat
        BY <1>1 DEF TypeOK
      <4>2. CASE s > covered
        <5>1. PICK g \in DOMAIN files : \E i \in DOMAIN files[g] :
                  IsRecord(g, i) /\ files[g][i].seq = s
          BY <2>1, <4>2 DEF AckedKept
        <5> QED BY <3>1, <5>1
      <4> QED BY <3>1, <4>1, <4>2
    <3>3. ASSUME NEW g \in DOMAIN files, NEW i \in DOMAIN files[g], IsRecord(g, i)
          PROVE  files[g][i].seq <= LastNumber + 1
      <4>1. files[g][i] \in Chunks
        BY <1>1 DEF FilesTyped
      <4>2. files[g][i].seq \in Nat /\ files[g][i].seq <= LastNumber
        BY <3>1, <3>3, <4>1, ChunkFacts
      <4> QED BY <3>1, <4>2
    <3> QED BY <1>1, <2>3, <3>1, <3>2, <3>3 DEF Counted, IsRecord
  <2> QED BY <1>1, <2>2, <2>3
<1> QED BY <1>1, <1>2, <1>3, <1>4, SameFiles

\* An append that succeeds, is cut, or fails.
LEMMA AppendSteps ==
    ASSUME FileInv, AppendRecord \/ AppendCut \/ AppendFails
    PROVE  FileInv'
<1>1. PICK c \in Leftovers : Put(c) /\ (AppendRecord => c = Record(lastSeq + 1))
  <2>1. CanAppend /\ TypeOK
    BY DEF AppendRecord, AppendCut, AppendFails, FileInv
  <2>2. Record(lastSeq + 1) \in Leftovers
    BY DEF Leftovers
  <2>3. CASE AppendRecord
    BY <2>2, <2>3 DEF AppendRecord
  <2>4. CASE AppendCut \/ AppendFails
    <3>1. ~AppendRecord
      <4>1. MaxCrashes \in Nat /\ crashes \in Nat /\ errors \in Nat
        BY <2>1, FileBounds DEF TypeOK
      <4> QED BY <2>4, <4>1 DEF AppendRecord, AppendCut, AppendFails, Die, Survive
    <3> QED BY <2>4, <3>1 DEF AppendCut, AppendFails
  <2> QED BY <2>3, <2>4
<1>2. /\ CanAppend /\ UNCHANGED <<current, covered>> /\ TypeOK /\ FilesTyped
      /\ c \in Chunks /\ lastSeq \in Nat /\ lastSeq + 1 \in 1..MaxSeq
      /\ MaxSeq \in Nat /\ MaxCrashes \in Nat /\ MaxErrors \in Nat
  <2>1. CanAppend /\ UNCHANGED <<current, covered>> /\ TypeOK /\ FilesTyped
    BY DEF AppendRecord, AppendCut, AppendFails, FileInv
  <2>2. c \in Chunks /\ lastSeq \in Nat /\ lastSeq + 1 \in 1..MaxSeq
    BY <2>1, FileBounds, LeftoverFacts DEF TypeOK, CanAppend
  <2> QED BY <2>1, <2>2, FileBounds
<1>3. /\ phase' \in {phase, "closed"}
      /\ \/ UNCHANGED acked
         \/ acked' = acked \cup {lastSeq + 1} /\ c = Record(lastSeq + 1)
      /\ Running' => \/ lastSeq' = lastSeq /\ UNCHANGED acked
                     \/ lastSeq' = lastSeq + 1
      /\ lastSeq' \in {0, lastSeq, lastSeq + 1}
      /\ crashes' \in 0..MaxCrashes /\ errors' \in 0..MaxErrors
  <2>1. CASE AppendRecord
    BY <1>1, <1>2, <2>1 DEF AppendRecord, TypeOK
  <2>2. CASE AppendCut
    BY <1>2, <2>2 DEF AppendCut, Die, Running, TypeOK
  <2>3. CASE AppendFails
    BY <1>2, <2>3 DEF AppendFails, Survive, TypeOK
  <2> QED BY <2>1, <2>2, <2>3
<1>4. TypeOK'
  <2>1. /\ DOMAIN files' \subseteq 1..MaxGen
        /\ \A g \in DOMAIN files' : \A i \in DOMAIN files'[g] : files'[g][i] \in Chunks
    <3>1. /\ DOMAIN files' = DOMAIN files \cup {current}
          /\ \A g \in DOMAIN files \ {current} : files'[g] = files[g]
          /\ \E n \in Nat : files'[current] \in Seq(Chunks)
      BY <1>1, <1>2, PutFacts
    <3>2. current \in 1..MaxGen
      BY <1>2 DEF TypeOK, CanAppend
    <3> QED BY <1>2, <3>1, <3>2 DEF TypeOK
  <2>2. buried' \in BOOLEAN
    BY <1>1 DEF Put
  <2>3. acked' \subseteq 1..MaxSeq
    BY <1>2, <1>3 DEF TypeOK
  <2>4. lastSeq' \in 0..MaxSeq
    BY <1>2, <1>3
  <2> QED BY <1>2, <1>3, <2>1, <2>2, <2>3, <2>4 DEF TypeOK
<1> QED BY <1>1, <1>2, <1>3, <1>4, PutStep

\* A rollover, whole or cut, the publication of the manifest, and the ends of a flush.
LEMMA FlushSteps ==
    ASSUME FileInv, Rollover \/ RolloverCut \/ Publish \/ FlushFails \/ Crash
    PROVE  FileInv'
<1>1. TypeOK /\ Newest /\ UNCHANGED <<files, acked, buried>>
  BY DEF FileInv, Rollover, RolloverCut, Publish, FlushFails, Crash
<1>2. MaxGen \in Nat /\ MaxCrashes \in Nat /\ MaxErrors \in Nat /\ MaxSeq \in Nat
  BY FileBounds
<1>3. TypeOK'
  <2>1. CASE Rollover
    <3>1. current + 1 \in 1..MaxGen
      BY <1>1, <1>2, <2>1 DEF Rollover, TypeOK
    <3> QED BY <1>1, <2>1, <3>1 DEF Rollover, TypeOK
  <2>2. CASE RolloverCut
    BY <1>1, <1>2, <2>2 DEF RolloverCut, Die, Survive, TypeOK
  <2>3. CASE Publish \/ FlushFails \/ Crash
    BY <1>1, <1>2, <2>3 DEF Publish, FlushFails, Crash, TypeOK
  <2> QED BY <2>1, <2>2, <2>3
<1>4. Newest'
  <2>1. CASE Rollover
    BY <1>1, <2>1, GarbledAssumption DEF Rollover, Newest, TypeOK
  <2>2. CASE ~Rollover
    BY <1>1, <2>2 DEF RolloverCut, Publish, FlushFails, Crash, Newest
  <2> QED BY <2>1, <2>2
<1>5. ASSUME ~buried PROVE Counted' /\ covered <= covered'
  <2>1. Counted /\ covered \in Nat /\ lastSeq \in Nat
    BY <1>1, <1>5 DEF FileInv, LogIntact, TypeOK
  <2>2. CASE Running' /\ ~Publish
    BY <1>1, <2>1, <2>2
       DEF Rollover, RolloverCut, FlushFails, Crash, Die, Survive, Counted, Running, IsRecord
  <2>3. CASE Publish
    BY <1>1, <2>1, <2>3 DEF Publish, Counted, Running, IsRecord
  <2>4. CASE ~Running'
    <3>1. covered' = covered
      BY <2>4 DEF Rollover, RolloverCut, Publish, FlushFails, Crash, Running
    <3> QED BY <2>1, <2>4, <3>1 DEF Counted
  <2> QED BY <2>2, <2>3, <2>4
<1>6. CASE ~buried
  BY <1>1, <1>3, <1>4, <1>5, <1>6, SameFiles
<1>7. CASE buried
  BY <1>1, <1>3, <1>4, <1>7 DEF FileInv, FilesTyped
<1> QED BY <1>6, <1>7

\* What a trim removes from a log that is intact are records that the manifest covers.
LEMMA TrimFacts ==
    ASSUME FileInv, Trim, ~buried
    PROVE  /\ DOMAIN files' \subseteq DOMAIN files
           /\ \A g \in DOMAIN files' : files'[g] = files[g]
           /\ \A g \in DOMAIN files \ DOMAIN files' : \A i \in DOMAIN files[g] :
                 IsRecord(g, i) => files[g][i].seq <= covered
<1>1. TypeOK /\ FilesTyped /\ TornIsLast /\ Sorted
  BY DEF FileInv, LogIntact
<1>2. PICK S \in SUBSET PerhapsCovered :
          files' = [g \in DOMAIN files \ (SurelyCovered \cup S) |-> files[g]]
  BY DEF Trim
<1>3. PerhapsCovered = {}
  BY <1>1, IntactFile DEF PerhapsCovered, FilesTyped, TornIsLast
<1>4. /\ DOMAIN files' = DOMAIN files \ SurelyCovered
      /\ \A g \in DOMAIN files' : files'[g] = files[g]
  BY <1>2, <1>3
<1>5. ASSUME NEW g \in DOMAIN files \cap SurelyCovered, NEW i \in DOMAIN files[g], IsRecord(g, i)
      PROVE  files[g][i].seq <= covered
  <2> DEFINE p == Prefix(files[g])
  <2>1. p # <<>> /\ p[Len(p)].seq <= covered
    BY DEF SurelyCovered
  <2>2. /\ files[g] \in Seq(Chunks) /\ p \in Seq(Chunks) /\ Len(p) <= Len(files[g])
        /\ \A k \in 1..Len(p) : p[k] = files[g][k] /\ files[g][k].kind = "record"
        /\ i \in 1..Len(p)
    BY <1>1, <1>5, PrefixFacts, IntactFile DEF FilesTyped, TornIsLast, IsRecord
  <2> HIDE DEF p
  <2>3. Len(p) \in 1..Len(p) /\ Len(p) \in DOMAIN files[g] /\ i <= Len(p) /\ i \in Nat /\ Len(p) \in Nat
    BY <2>1, <2>2
  <2>4. p[Len(p)] = files[g][Len(p)] /\ IsRecord(g, Len(p))
    BY <2>2, <2>3 DEF IsRecord
  <2>5. CASE i = Len(p)
    BY <2>1, <2>4, <2>5
  <2>6. CASE i < Len(p)
    <3>1. files[g][i].seq <= files[g][Len(p)].seq
      BY <1>1, <1>5, <2>3, <2>4, <2>6 DEF Sorted
    <3>2. files[g][i].seq \in Nat /\ files[g][Len(p)].seq \in Nat /\ covered \in Nat
      BY <1>1, <2>2, <2>3, ChunkFacts DEF TypeOK
    <3> QED BY <2>1, <2>4, <3>1, <3>2
  <2> QED BY <2>3, <2>5, <2>6
<1> QED BY <1>4, <1>5

\* A trim removes only generations that the segments cover.
LEMMA TrimStep ==
    ASSUME FileInv, Trim
    PROVE  FileInv'
<1>1. /\ TypeOK /\ FilesTyped /\ Newest /\ phase = "published" /\ phase' = "open"
      /\ UNCHANGED <<current, lastSeq, covered, acked, buried, crashes, errors>>
      /\ DOMAIN files' \subseteq DOMAIN files /\ \A g \in DOMAIN files' : files'[g] = files[g]
  BY DEF FileInv, Trim
<1>2. TypeOK' /\ FilesTyped' /\ Newest'
  BY <1>1 DEF TypeOK, FilesTyped, Newest
<1>3. ASSUME ~buried PROVE LogIntact'
  <2>1. TornIsLast /\ Sorted /\ Counted /\ AckedKept
    BY <1>3 DEF FileInv, LogIntact
  <2>2. TornIsLast' /\ Sorted' /\ Counted'
    BY <1>1, <2>1 DEF TornIsLast, Sorted, Counted, Running, IsRecord
  <2>3. AckedKept'
    <3> SUFFICES ASSUME NEW s \in acked, s > covered
                 PROVE  \E g \in DOMAIN files' : \E i \in DOMAIN files'[g] :
                            files'[g][i].kind = "record" /\ files'[g][i].seq = s
      BY <1>1 DEF AckedKept, IsRecord
    <3>1. PICK g \in DOMAIN files : \E i \in DOMAIN files[g] :
              IsRecord(g, i) /\ files[g][i].seq = s
      BY <2>1 DEF AckedKept
    <3>2. s \in Nat /\ covered \in Nat
      BY <1>1 DEF TypeOK
    <3>3. g \in DOMAIN files'
      BY <1>3, <3>1, <3>2, TrimFacts
    <3> QED BY <1>1, <3>1, <3>3 DEF IsRecord
  <2> QED BY <2>2, <2>3 DEF LogIntact
<1> QED BY <1>1, <1>2, <1>3 DEF FileInv

\* ... and is kept by every step.
LEMMA NextFileInv == FileInv /\ [Next]_vars => FileInv'
<1> SUFFICES ASSUME FileInv, [Next]_vars PROVE FileInv'
  OBVIOUS
<1>1. CASE UNCHANGED vars
  BY <1>1 DEF vars, FileInv, TypeOK, FilesTyped, Newest, LogIntact, TornIsLast, Sorted, Counted,
              Running, AckedKept, IsRecord
<1> QED BY <1>1, OpenStep, AppendSteps, FlushSteps, TrimStep DEF Next

\* So it holds always.
LEMMA FileInvariance == Spec => []FileInv
BY InitFileInv, NextFileInv, PTL DEF Spec

-----------------------------------------------------------------------------
(***************************************************************************)
(* The theorems.                                                           *)
(***************************************************************************)

\* The files hold chunks, and no generation or number is beyond its bound.
THEOREM FileTyping == Spec => []TypeOK
<1>1. FileInv => TypeOK
  BY DEF FileInv
<1> QED BY <1>1, FileInvariance, PTL

\* What replay_from returns of an intact log are the records that are not covered.
LEMMA ReplayedRecords ==
    ASSUME FileInv, ~buried, NEW s
    PROVE  s \in Replayed <=>
              s > covered /\ \E g \in DOMAIN files : \E i \in DOMAIN files[g] :
                                 IsRecord(g, i) /\ files[g][i].seq = s
<1>1. FilesTyped /\ TornIsLast
  BY DEF FileInv, LogIntact
<1>2. ASSUME NEW g \in DOMAIN files
      PROVE  s \in Seqs(Prefix(files[g])) <=>
                \E i \in DOMAIN files[g] : IsRecord(g, i) /\ files[g][i].seq = s
  <2> DEFINE p == Prefix(files[g])
  <2>1. /\ files[g] \in Seq(Chunks) /\ p \in Seq(Chunks) /\ Len(p) <= Len(files[g])
        /\ \A k \in 1..Len(p) : p[k] = files[g][k] /\ files[g][k].kind = "record"
        /\ \A i \in DOMAIN files[g] : IsRecord(g, i) => i \in 1..Len(p)
    BY <1>1, PrefixFacts, IntactFile DEF FilesTyped, TornIsLast, IsRecord
  <2> HIDE DEF p
  <2>2. DOMAIN p = 1..Len(p) /\ DOMAIN p \subseteq DOMAIN files[g]
    BY <2>1
  <2>3. s \in Seqs(p) <=> \E k \in DOMAIN p : p[k].seq = s
    BY DEF Seqs
  <2> QED BY <2>1, <2>2, <2>3 DEF IsRecord, p
<1> QED BY <1>2 DEF Replayed

\* Whenever the log can be opened, replay_from returns every acknowledged record that
\* the manifest does not cover, as long as none was written behind a torn one.
THEOREM AckedSurviveTearing == Spec => []AckedReplayed
<1>1. FileInv => AckedReplayed
  <2> SUFFICES ASSUME FileInv, ~buried, NEW s \in NotCovered PROVE s \in Replayed
    BY DEF AckedReplayed
  <2> QED BY ReplayedRecords DEF FileInv, LogIntact, AckedKept, NotCovered
<1> QED BY <1>1, FileInvariance, PTL

\* No operation is given the number of one that was acknowledged before.
THEOREM NumbersGoOn == Spec => []NumbersFresh
<1>1. FileInv => NumbersFresh
  BY DEF FileInv, LogIntact, Counted, Running, NumbersFresh
<1> QED BY <1>1, FileInvariance, PTL

\* trim_through changes neither what the next replay returns nor whether it fails.
THEOREM TrimsAreInvisible == Spec => TrimIsInvisible
<1>1. FileInv /\ FileInv' /\ [Next]_vars =>
          [phase = "published" /\ phase' = "open" /\ ~buried
              => Replayed' = Replayed /\ (OpenFails' => OpenFails)]_vars
  <2> SUFFICES ASSUME FileInv, FileInv', Next, phase = "published", phase' = "open", ~buried
               PROVE  Replayed' = Replayed /\ (OpenFails' => OpenFails)
    OBVIOUS
  <2>1. CASE FlushFails
    BY <2>1 DEF FlushFails, Replayed, OpenFails
  <2>2. CASE Trim
    <3>1. /\ UNCHANGED <<current, covered, buried>>
          /\ DOMAIN files' \subseteq DOMAIN files
          /\ \A g \in DOMAIN files' : files'[g] = files[g]
          /\ \A g \in DOMAIN files \ DOMAIN files' : \A i \in DOMAIN files[g] :
                IsRecord(g, i) => files[g][i].seq <= covered
      BY <2>2, TrimFacts DEF Trim
    <3>2. ASSUME NEW g \in DOMAIN files \ DOMAIN files', NEW s \in Seqs(Prefix(files[g])), s > covered
          PROVE  FALSE
      <4>1. files[g] \in Seq(Chunks)
        BY DEF FileInv, FilesTyped
      <4>2. PICK k \in 1..Len(Prefix(files[g])) :
                /\ Prefix(files[g])[k].seq = s
                /\ Prefix(files[g])[k] = files[g][k] /\ IsRecord(g, k) /\ k \in DOMAIN files[g]
        BY <4>1, PrefixFacts DEF Seqs, IsRecord
      <4>3. s <= covered /\ s \in Nat /\ covered \in Nat
        BY <3>1, <4>1, <4>2, ChunkFacts DEF FileInv, TypeOK
      <4> QED BY <3>2, <4>3
    <3>3. Replayed' = Replayed
      BY <3>1, <3>2 DEF Replayed
    <3>4. OpenFails' => OpenFails
      BY <3>1 DEF OpenFails
    <3> QED BY <3>3, <3>4
  <2>3. CASE ~(Trim \/ FlushFails)
    BY <2>3 DEF Next, Open, AppendRecord, AppendCut, AppendFails, CanAppend, Rollover, RolloverCut,
                Publish, Crash
  <2> QED BY <2>1, <2>2, <2>3
<1> QED BY <1>1, FileInvariance, NextFileInv, PTL DEF Spec, TrimIsInvisible
=============================================================================
