----------------------------- MODULE StoreFacts -----------------------------
(***************************************************************************)
(* Lemmas that the proofs about the index and its log share.               *)
(*                                                                         *)
(* First, least and greatest elements of sets of natural numbers: the last *)
(* segment, the last record and the highest covered sequence number are    *)
(* chosen by CHOOSE, and these lemmas show that there is something to      *)
(* choose.  Then the operators of modules SegmentSet and WalLog.           *)
(***************************************************************************)
EXTENDS WalLog, SegmentSet, SequenceTheorems, FiniteSetTheorems, WellFoundedInduction, TLAPS

\* The strict order of the naturals, as a set of pairs, is well founded.
LEMMA NatLessWellFounded == IsWellFoundedOn({p \in Nat \X Nat : p[1] < p[2]}, Nat)
<1> DEFINE R == OpToRel(<, Nat)
<1>1. IsWellFoundedOn(R, Nat)
  BY NatLessThanWellFounded
<1>2. R = {p \in Nat \X Nat : p[1] < p[2]}
  BY DEF OpToRel
<1> HIDE DEF R
<1> QED BY <1>1, <1>2

\* A non-empty set of naturals has a least element.
LEMMA LeastNat ==
    ASSUME NEW S \in SUBSET Nat, S # {}
    PROVE  \E m \in S : \A n \in S : m <= n
<1> DEFINE R == {p \in Nat \X Nat : p[1] < p[2]}
<1>1. \E m \in S : \A n \in S : ~ (<<n, m>> \in R)
  <2> HIDE DEF R
  <2> QED BY NatLessWellFounded, WFMin DEF R
<1>2. PICK m \in S : \A n \in S : ~ (<<n, m>> \in R)
  BY <1>1
<1>3. ASSUME NEW n \in S PROVE m <= n
  <2>1. m \in Nat /\ n \in Nat
    OBVIOUS
  <2>2. ~ (n < m)
    BY <1>2, <2>1
  <2> QED BY <2>1, <2>2
<1> QED BY <1>2, <1>3

\* A non-empty set of naturals with an upper bound has a greatest element.
LEMMA GreatestNat ==
    ASSUME NEW S \in SUBSET Nat, S # {},
           NEW k \in Nat, \A n \in S : n <= k
    PROVE  \E m \in S : \A n \in S : n <= m
<1> DEFINE T == {k - n : n \in S}
<1>1. T \subseteq Nat /\ T # {}
  <2>1. \A n \in S : k - n \in Nat
    OBVIOUS
  <2>2. T \subseteq Nat
    BY <2>1
  <2>3. PICK n \in S : TRUE
    OBVIOUS
  <2>4. k - n \in T
    BY <2>3
  <2> QED BY <2>2, <2>4
<1>2. PICK t \in T : \A u \in T : t <= u
  <2> HIDE DEF T
  <2> QED BY <1>1, LeastNat
<1>3. PICK m \in S : t = k - m
  BY <1>2
<1>4. ASSUME NEW n \in S PROVE n <= m
  <2>1. k - n \in T
    OBVIOUS
  <2>2. k - m <= k - n
    BY <1>2, <1>3, <2>1
  <2>3. m \in Nat /\ n \in Nat
    OBVIOUS
  <2> QED BY <2>2, <2>3
<1> QED BY <1>3, <1>4

\* So does every finite one.
LEMMA GreatestOfFinite ==
    ASSUME NEW S \in SUBSET Nat, S # {}, IsFiniteSet(S)
    PROVE  \E m \in S : \A n \in S : n <= m
<1> DEFINE NoMax(X) == /\ X \in SUBSET Nat /\ X # {} /\ IsFiniteSet(X)
                       /\ ~ \E m \in X : \A n \in X : n <= m
           Bad == {c \in Nat : \E X \in SUBSET Nat : NoMax(X) /\ Cardinality(X) = c}
<1>1. SUFFICES ASSUME NoMax(S) PROVE FALSE
  OBVIOUS
<1>2. Cardinality(S) \in Bad
  BY <1>1, FS_CardinalityType
<1>3. PICK c \in Bad : \A e \in Bad : c <= e
  <2>1. Bad \in SUBSET Nat /\ Bad # {}
    BY <1>2
  <2> HIDE DEF Bad
  <2> QED BY <2>1, LeastNat
<1>4. PICK X \in SUBSET Nat : NoMax(X) /\ Cardinality(X) = c
  BY <1>3
<1>5. PICK x \in X : TRUE
  BY <1>4
<1> DEFINE Y == X \ {x}
<1>6. IsFiniteSet(Y) /\ Cardinality(Y) = c - 1
  BY <1>4, <1>5, FS_RemoveElement
<1>7. Y # {}
  <2>1. SUFFICES ASSUME X = {x} PROVE FALSE
    BY <1>5
  <2> QED BY <1>4, <1>5, <2>1
<1>8. PICK m \in Y : \A n \in Y : n <= m
  <2>1. c - 1 \in Nat
    BY <1>6, FS_CardinalityType
  <2>2. c - 1 \notin Bad
    <3>1. c \in Nat
      BY <1>3
    <3> HIDE DEF Bad
    <3> QED BY <1>3, <2>1, <3>1
  <2>3. ~ NoMax(Y)
    BY <1>6, <2>1, <2>2
  <2> QED BY <1>6, <1>7, <2>3
<1>9. m \in Nat /\ x \in Nat /\ m \in X
  BY <1>5, <1>8
<1>10. CASE x <= m
  BY <1>4, <1>8, <1>9, <1>10
<1>11. CASE m <= x
  <2>1. \A n \in X : n <= x
    <3> TAKE n \in X
    <3>1. n \in Nat
      OBVIOUS
    <3> QED BY <1>8, <1>9, <1>11, <3>1
  <2> QED BY <1>4, <1>5, <2>1
<1> QED BY <1>9, <1>10, <1>11

-----------------------------------------------------------------------------
\* Segments and manifests.

ManifestType(manifest) ==
    /\ IsFiniteSet(manifest)
    /\ \A m \in manifest : m.num \in Nat /\ m.last \in Nat

\* A non-empty manifest has a last segment, and LastMeta chooses it.
LEMMA LastMetaExists ==
    ASSUME NEW manifest, ManifestType(manifest), manifest # {}
    PROVE  /\ LastMeta(manifest) \in manifest
           /\ \A m \in manifest : m.num <= LastMeta(manifest).num
<1> DEFINE S == {m.num : m \in manifest}
<1>1. IsFiniteSet(S)
  <2> DEFINE f == [m \in manifest |-> m.num]
  <2>1. f \in Surjection(manifest, S)
    BY DEF Surjection
  <2> HIDE DEF f, S
  <2> QED BY <2>1, FS_Surjection DEF ManifestType
<1>2. PICK s \in S : \A t \in S : t <= s
  <2>1. S \in SUBSET Nat /\ S # {}
    BY DEF ManifestType
  <2> HIDE DEF S
  <2> QED BY <1>1, <2>1, GreatestOfFinite
<1>3. PICK m \in manifest : m.num = s
  BY <1>2
<1>4. \A n \in manifest : n.num <= m.num
  BY <1>2, <1>3
<1> QED BY <1>3, <1>4 DEF LastMeta

\* next_segment_number is above every number that the manifest names.
LEMMA NextNumFacts ==
    ASSUME NEW manifest, ManifestType(manifest)
    PROVE  /\ NextNum(manifest) \in Nat
           /\ NextNum(manifest) >= 1
           /\ \A m \in manifest : m.num < NextNum(manifest)
<1>1. CASE manifest = {}
  BY <1>1 DEF NextNum
<1>2. CASE manifest # {}
  <2>1. /\ LastMeta(manifest).num \in Nat
        /\ \A m \in manifest : m.num \in Nat /\ m.num <= LastMeta(manifest).num
    BY <1>2, LastMetaExists DEF ManifestType
  <2> QED BY <1>2, <2>1 DEF NextNum
<1> QED BY <1>1, <1>2

\* The covered sequence number is the greatest one of a readable segment, or 0.
LEMMA DurableSeqFacts ==
    ASSUME NEW manifest, NEW files, ManifestType(manifest)
    PROVE  /\ DurableSeq(manifest, files) \in Nat
           /\ \A m \in Readable(manifest, files) : m.last <= DurableSeq(manifest, files)
           /\ \/ DurableSeq(manifest, files) = 0
              \/ \E m \in Readable(manifest, files) : m.last = DurableSeq(manifest, files)
<1> DEFINE M == Readable(manifest, files)
           L == {m.last : m \in M}
           S == L \cup {0}
<1>1. IsFiniteSet(S)
  <2>1. IsFiniteSet(M)
    BY FS_Subset DEF Readable, ManifestType
  <2> DEFINE f == [m \in M |-> m.last]
  <2>2. f \in Surjection(M, L)
    BY DEF Surjection
  <2>3. IsFiniteSet(L)
    <3> HIDE DEF f, L, M
    <3> QED BY <2>1, <2>2, FS_Surjection
  <2> HIDE DEF L
  <2> QED BY <2>3, FS_AddElement
<1>2. S \in SUBSET Nat /\ S # {}
  BY DEF Readable, ManifestType
<1>3. PICK s \in S : \A t \in S : t <= s
  <2> HIDE DEF S
  <2> QED BY <1>1, <1>2, GreatestOfFinite
<1>4. DurableSeq(manifest, files) \in S /\ \A t \in S : t <= DurableSeq(manifest, files)
  <2>1. DurableSeq(manifest, files) = CHOOSE x \in S : \A t \in S : t <= x
    BY DEF DurableSeq
  <2> HIDE DEF S
  <2> QED BY <1>3, <2>1
<1> QED BY <1>2, <1>4

\* More files never cover less.
LEMMA DurableSeqMonotonic ==
    ASSUME NEW manifest, NEW files, NEW more, ManifestType(manifest),
           DOMAIN files \subseteq DOMAIN more
    PROVE  DurableSeq(manifest, files) <= DurableSeq(manifest, more)
<1>1. Readable(manifest, files) \subseteq Readable(manifest, more)
  BY DEF Readable
<1> QED BY <1>1, DurableSeqFacts

-----------------------------------------------------------------------------
\* Logs.  LogType is the shape that every log has: finitely many generations up to
\* the current one, each a non-empty sequence of records.

LogType(logs, current, R) ==
    /\ current \in Nat
    /\ DOMAIN logs \subseteq 1..current
    /\ \A g \in DOMAIN logs : logs[g] \in Seq(R) /\ logs[g] # <<>>

\* A position is a pair of a generation and an index into it.
LEMMA PositionPair ==
    ASSUME NEW logs, NEW current, NEW R, LogType(logs, current, R),
           NEW p \in Position(logs)
    PROVE  /\ p = <<p[1], p[2]>>
           /\ p[1] \in DOMAIN logs /\ p[1] \in Nat /\ p[1] <= current
           /\ p[2] \in 1..Len(logs[p[1]]) /\ p[2] \in Nat
           /\ Len(logs[p[1]]) \in Nat
           /\ EntryAt(logs, p) \in R
<1>1. PICK g \in DOMAIN logs : p \in {g} \X DOMAIN logs[g]
  BY DEF Position
<1> DEFINE i == p[2]
<1>2. logs[g] \in Seq(R)
  BY DEF LogType
<1>3. DOMAIN logs[g] = 1..Len(logs[g]) /\ Len(logs[g]) \in Nat
  BY <1>2, LenProperties
<1>4. logs[g][i] \in R
  BY <1>1, <1>2, <1>3, ElementOfSeq
<1>5. g \in Nat /\ g <= current
  BY DEF LogType
<1> QED BY <1>1, <1>3, <1>4, <1>5 DEF EntryAt

\* Conversely, every generation and index make a position.
LEMMA PositionMember ==
    ASSUME NEW logs, NEW current, NEW R, LogType(logs, current, R),
           NEW g \in DOMAIN logs, NEW i \in 1..Len(logs[g])
    PROVE  <<g, i>> \in Position(logs)
<1>1. DOMAIN logs[g] = 1..Len(logs[g])
  BY LenProperties DEF LogType
<1> QED BY <1>1 DEF Position

\* Before is a strict total order on positions.
LEMMA BeforeTotal ==
    ASSUME NEW logs, NEW current, NEW R, LogType(logs, current, R),
           NEW p \in Position(logs), NEW q \in Position(logs)
    PROVE  /\ p = q \/ Before(p, q) \/ Before(q, p)
           /\ ~ (Before(p, q) /\ Before(q, p))
           /\ ~ Before(p, p)
<1>1. p = <<p[1], p[2]>> /\ p[1] \in Nat /\ p[2] \in Nat
  BY PositionPair
<1>2. q = <<q[1], q[2]>> /\ q[1] \in Nat /\ q[2] \in Nat
  BY PositionPair
<1> QED BY <1>1, <1>2 DEF Before

\* A non-empty set of positions has a last one, and LastOf chooses it.
LEMMA LastOfExists ==
    ASSUME NEW logs, NEW current, NEW R, LogType(logs, current, R),
           NEW P \in SUBSET Position(logs), P # {}
    PROVE  /\ LastOf(P) \in P
           /\ \A q \in P : q = LastOf(P) \/ Before(q, LastOf(P))
<1> DEFINE G == {p[1] : p \in P}
<1>1. PICK g \in G : \A h \in G : h <= g
  <2>1. G \in SUBSET Nat /\ G # {}
    BY PositionPair
  <2>2. \A h \in G : h <= current
    BY PositionPair
  <2>3. current \in Nat
    BY DEF LogType
  <2> HIDE DEF G
  <2> QED BY <2>1, <2>2, <2>3, GreatestNat
<1> DEFINE I == {i \in Nat : <<g, i>> \in P}
<1>2. PICK i \in I : \A j \in I : j <= i
  <2>1. PICK p \in P : p[1] = g
    BY <1>1
  <2>2. p[2] \in I
    BY <2>1, PositionPair
  <2>3. \A j \in I : j <= Len(logs[g])
    <3> TAKE j \in I
    <3>1. <<g, j>> \in Position(logs)
      OBVIOUS
    <3>2. j \in 1..Len(logs[g]) /\ Len(logs[g]) \in Nat
      BY <3>1, PositionPair
    <3> QED BY <3>2
  <2>4. Len(logs[g]) \in Nat
    BY <2>1, PositionPair
  <2>5. I \in SUBSET Nat /\ I # {}
    BY <2>2
  <2> HIDE DEF I
  <2> QED BY <2>3, <2>4, <2>5, GreatestNat
<1>3. <<g, i>> \in P
  BY <1>2
<1>4. \A q \in P : q = <<g, i>> \/ Before(q, <<g, i>>)
  <2> TAKE q \in P
  <2>1. q = <<q[1], q[2]>> /\ q[1] \in Nat /\ q[2] \in Nat
    BY PositionPair
  <2>2. q[1] \in G
    OBVIOUS
  <2>3. q[1] <= g /\ g \in Nat
    BY <1>1, <2>2, PositionPair
  <2>4. CASE q[1] = g
    <3>1. q[2] <= i /\ i \in Nat
      BY <1>2, <2>1, <2>4
    <3> QED BY <2>1, <2>4, <3>1 DEF Before
  <2>5. CASE q[1] < g
    BY <2>5 DEF Before
  <2> QED BY <2>1, <2>3, <2>4, <2>5
<1> QED BY <1>3, <1>4 DEF LastOf

\* LastOf is the only position that comes after all others.
LEMMA LastOfUnique ==
    ASSUME NEW logs, NEW current, NEW R, LogType(logs, current, R),
           NEW P \in SUBSET Position(logs), NEW p \in P,
           \A q \in P : q = p \/ Before(q, p)
    PROVE  LastOf(P) = p
<1>1. LastOf(P) \in P /\ (p = LastOf(P) \/ Before(p, LastOf(P)))
  BY LastOfExists
<1>2. LastOf(P) = p \/ Before(LastOf(P), p)
  BY <1>1
<1> QED BY <1>1, <1>2, BeforeTotal

\* append adds one position behind all the others and changes no other record.
LEMMA AppendToFacts ==
    ASSUME NEW logs, NEW current, NEW R, LogType(logs, current, R), current >= 1,
           NEW e \in R
    PROVE  /\ LogType(AppendTo(logs, current, e), current, R)
           /\ \E q \in Position(AppendTo(logs, current, e)) :
                /\ Position(AppendTo(logs, current, e)) = Position(logs) \cup {q}
                /\ EntryAt(AppendTo(logs, current, e), q) = e
                /\ q \notin Position(logs)
                /\ \A p \in Position(logs) :
                      /\ Before(p, q)
                      /\ EntryAt(AppendTo(logs, current, e), p) = EntryAt(logs, p)
<1> DEFINE new == AppendTo(logs, current, e)
           n == IF current \in DOMAIN logs THEN Len(logs[current]) ELSE 0
           q == <<current, n + 1>>
<1>1. /\ DOMAIN new = DOMAIN logs \cup {current}
      /\ \A g \in DOMAIN logs \ {current} : new[g] = logs[g]
  BY DEF AppendTo
<1>2. /\ new[current] \in Seq(R) /\ new[current] # <<>>
      /\ Len(new[current]) = n + 1 /\ n \in Nat
      /\ new[current][n + 1] = e
      /\ \A i \in 1..n : new[current][i] = logs[current][i]
  <2>1. CASE current \in DOMAIN logs
    <3>1. new[current] = Append(logs[current], e)
      BY <2>1 DEF AppendTo
    <3>2. logs[current] \in Seq(R)
      BY <2>1 DEF LogType
    <3>3. Len(logs[current]) \in Nat
      BY <3>2, LenProperties
    <3> QED BY <2>1, <3>1, <3>2, <3>3, AppendProperties
  <2>2. CASE current \notin DOMAIN logs
    <3>1. new[current] = <<e>>
      BY <2>2 DEF AppendTo
    <3> QED BY <2>2, <3>1
  <2> QED BY <2>1, <2>2
<1>3. LogType(new, current, R)
  <2>1. current \in Nat /\ current \in 1..current
    BY DEF LogType
  <2> QED BY <1>1, <1>2, <2>1 DEF LogType
<1>4. q \in Position(new)
  BY <1>1, <1>2, <1>3, PositionMember
<1>5. ASSUME NEW p \in Position(logs)
      PROVE  /\ p \in Position(new) /\ Before(p, q)
             /\ EntryAt(new, p) = EntryAt(logs, p) /\ p # q
  <2>1. /\ p = <<p[1], p[2]>> /\ p[1] \in DOMAIN logs /\ p[1] \in Nat /\ p[1] <= current
        /\ p[2] \in 1..Len(logs[p[1]]) /\ p[2] \in Nat /\ Len(logs[p[1]]) \in Nat
    BY PositionPair
  <2>2. CASE p[1] = current
    <3>1. n = Len(logs[current]) /\ p[2] \in 1..n
      BY <2>1, <2>2
    <3>2. p[2] \in 1..Len(new[current]) /\ p[2] < n + 1
      BY <1>2, <3>1
    <3>3. p \in Position(new)
      BY <1>1, <1>3, <2>1, <2>2, <3>2, PositionMember
    <3>4. EntryAt(new, p) = EntryAt(logs, p)
      BY <1>2, <2>2, <3>1 DEF EntryAt
    <3>5. Before(p, q)
      BY <2>2, <3>2 DEF Before
    <3> QED BY <2>1, <3>2, <3>3, <3>4, <3>5
  <2>3. CASE p[1] # current
    <3>1. new[p[1]] = logs[p[1]]
      BY <1>1, <2>1, <2>3
    <3>2. p \in Position(new)
      BY <1>1, <1>3, <2>1, <3>1, PositionMember
    <3>3. p[1] < current
      BY <2>1, <2>3 DEF LogType
    <3> QED BY <2>3, <3>1, <3>2, <3>3 DEF EntryAt, Before
  <2> QED BY <2>2, <2>3
<1>6. ASSUME NEW p \in Position(new), p # q PROVE p \in Position(logs)
  <2>1. /\ p = <<p[1], p[2]>> /\ p[1] \in DOMAIN new
        /\ p[2] \in 1..Len(new[p[1]])
    BY <1>3, PositionPair
  <2>2. CASE p[1] = current
    <3>1. p[2] \in 1..n
      <4>1. p[2] # n + 1
        BY <1>6, <2>1, <2>2
      <4>2. p[2] \in 1..(n + 1)
        BY <1>2, <2>1, <2>2
      <4> HIDE DEF n
      <4> QED BY <1>2, <4>1, <4>2
    <3>2. current \in DOMAIN logs /\ n = Len(logs[current])
      BY <3>1
    <3> QED BY <2>1, <2>2, <3>1, <3>2, PositionMember
  <2>3. CASE p[1] # current
    <3>1. p[1] \in DOMAIN logs /\ new[p[1]] = logs[p[1]]
      BY <1>1, <2>1, <2>3
    <3> QED BY <2>1, <3>1, PositionMember
  <2> QED BY <2>2, <2>3
<1>7. EntryAt(new, q) = e
  BY <1>2 DEF EntryAt
<1>8. q \notin Position(logs)
  BY <1>5
<1>9. Position(new) = Position(logs) \cup {q}
  <2> HIDE DEF new, q
  <2> QED BY <1>4, <1>5, <1>6
<1> QED BY <1>3, <1>4, <1>5, <1>7, <1>8, <1>9

\* Removing a generation removes its positions and changes no other record.
LEMMA RemoveGenerationFacts ==
    ASSUME NEW logs, NEW current, NEW R, LogType(logs, current, R), NEW g
    PROVE  /\ LogType(RemoveGeneration(logs, g), current, R)
           /\ \A p : p \in Position(RemoveGeneration(logs, g)) <=>
                        p \in Position(logs) /\ p[1] # g
           /\ \A p \in Position(RemoveGeneration(logs, g)) :
                 EntryAt(RemoveGeneration(logs, g), p) = EntryAt(logs, p)
<1> DEFINE new == RemoveGeneration(logs, g)
<1>1. DOMAIN new = DOMAIN logs \ {g} /\ \A h \in DOMAIN new : new[h] = logs[h]
  BY DEF RemoveGeneration
<1>2. LogType(new, current, R)
  BY <1>1 DEF LogType
<1>3. ASSUME NEW p \in Position(new)
      PROVE  p \in Position(logs) /\ p[1] # g /\ EntryAt(new, p) = EntryAt(logs, p)
  <2>1. /\ p = <<p[1], p[2]>> /\ p[1] \in DOMAIN new
        /\ p[2] \in 1..Len(new[p[1]])
    BY <1>2, PositionPair
  <2>2. p[1] \in DOMAIN logs /\ p[1] # g /\ new[p[1]] = logs[p[1]]
    BY <1>1, <2>1
  <2> QED BY <2>1, <2>2, PositionMember DEF EntryAt
<1>4. ASSUME NEW p \in Position(logs), p[1] # g PROVE p \in Position(new)
  <2>1. p = <<p[1], p[2]>> /\ p[1] \in DOMAIN logs /\ p[2] \in 1..Len(logs[p[1]])
    BY PositionPair
  <2>2. p[1] \in DOMAIN new /\ new[p[1]] = logs[p[1]]
    BY <1>1, <1>4, <2>1
  <2> QED BY <1>2, <2>1, <2>2, PositionMember
<1> QED BY <1>2, <1>3, <1>4
=============================================================================
