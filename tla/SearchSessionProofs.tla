------------------------ MODULE SearchSessionProofs ------------------------
(***************************************************************************)
(* Theorems about module SearchSession.                                    *)
(*                                                                         *)
(* First about the pages of module Paging: whatever the client asks for,   *)
(* page after page, and whatever changes between its pages, for every      *)
(* finite set of documents, all keys and scores and every page size.       *)
(* Then about what is answered at once: clauses that two routes read       *)
(* (QueryDsl), and aggregations from documents and from columns            *)
(* (DocValues).                                                            *)
(***************************************************************************)
EXTENDS StoreFacts, SearchSession

\* A client that reads any number of times, whatever its queries match.
PagingNext == NextPaging \/ \E matched \in SUBSET Docs : Begin(matched)
PagingSpec == NoSession /\ [][PagingNext]_pvars

-----------------------------------------------------------------------------
\* The type invariant.

\* Before the first search.
LEMMA InitTypes == NoSession => PagingTypeOK
<1> SUFFICES ASSUME NoSession PROVE PagingTypeOK
  OBVIOUS
<1>1. docs \in [Docs -> Sortable \cup {Absent}]
  BY DEF NoSession
<1>2. score \in [Docs -> Scores]
  BY ScoresAssumption DEF NoSession
<1> QED BY <1>1, <1>2 DEF NoSession, PagingTypeOK

\* The documents on a page are documents.
LEMMA PageType ==
    ASSUME NEW size
    PROVE  /\ FromCursor \subseteq Matching /\ FromOffset \subseteq Matching
           /\ Rest \subseteq Matching /\ PageOf(Rest, size) \subseteq Rest
           /\ Matching \subseteq Docs
BY DEF Matching, FromCursor, FromOffset, Rest, PageOf

\* The hits come in a strict total order.
LEMMA PrecedesOrder ==
    ASSUME PagingTypeOK, NEW d \in Matching, NEW e \in Matching
    PROVE  /\ d = e \/ Precedes(d, e) \/ Precedes(e, d)
           /\ ~ Precedes(d, d)
           /\ \A f \in Matching : Precedes(d, e) /\ Precedes(e, f) => Precedes(d, f)
<1>1. \A x \in Matching : x \in Nat /\ (docs[x] # Missing => docs[x] \in Nat)
  BY DocsAssumption, KeysAssumption DEF PagingTypeOK, Matching, Sortable
<1>2. d = e \/ Precedes(d, e) \/ Precedes(e, d)
  BY <1>1 DEF Precedes, KeyBefore
<1>3. ~ Precedes(d, d)
  BY <1>1 DEF Precedes, KeyBefore
<1>4. ASSUME NEW f \in Matching, Precedes(d, e), Precedes(e, f) PROVE Precedes(d, f)
  BY <1>1, <1>4 DEF Precedes, KeyBefore
<1> QED BY <1>2, <1>3, <1>4

\* The hits that come before one of them.
Preceding(hits, d) == {e \in hits : Precedes(e, d)}

Rank(hits, d) == Cardinality(Preceding(hits, d))

\* Only finitely many hits precede one.
LEMMA RankType ==
    ASSUME PagingTypeOK, NEW hits \in SUBSET Matching, NEW d
    PROVE  /\ IsFiniteSet(hits) /\ Cardinality(hits) \in Nat
           /\ IsFiniteSet(Preceding(hits, d)) /\ Rank(hits, d) \in Nat
<1>1. IsFiniteSet(hits)
  BY DocsAssumption, FS_Subset DEF Matching
<1>2. IsFiniteSet(Preceding(hits, d))
  BY <1>1, FS_Subset DEF Preceding
<1> QED BY <1>1, <1>2, FS_CardinalityType DEF Rank

\* What comes later has more hits before it.
LEMMA RankGrows ==
    ASSUME PagingTypeOK, NEW hits \in SUBSET Matching, NEW e \in hits, NEW d \in Matching,
           Precedes(e, d)
    PROVE  Rank(hits, e) < Rank(hits, d)
<1>1. Preceding(hits, e) \subseteq Preceding(hits, d)
  BY PrecedesOrder DEF Preceding
<1>2. e \in Preceding(hits, d) /\ e \notin Preceding(hits, e)
  BY PrecedesOrder DEF Preceding
<1>3. Preceding(hits, e) # Preceding(hits, d)
  BY <1>2
<1>4. IsFiniteSet(Preceding(hits, d)) /\ Rank(hits, d) \in Nat /\ Rank(hits, e) \in Nat
  BY RankType
<1>5. Rank(hits, e) <= Rank(hits, d) /\ Rank(hits, e) # Rank(hits, d)
  BY <1>1, <1>3, <1>4, FS_Subset DEF Rank
<1> QED BY <1>4, <1>5

\* Among any hits there is a first and a last one.
LEMMA FirstAndLast ==
    ASSUME PagingTypeOK, NEW hits \in SUBSET Matching, hits # {}
    PROVE  /\ \E b \in hits : \A d \in hits : d = b \/ Precedes(b, d)
           /\ \E b \in hits : \A d \in hits : d = b \/ Precedes(d, b)
<1> DEFINE ranks == {Rank(hits, d) : d \in hits}
<1>1. ranks \in SUBSET Nat /\ ranks # {}
  BY RankType
<1>2. IsFiniteSet(ranks)
  <2> DEFINE f == [d \in hits |-> Rank(hits, d)]
  <2>1. f \in Surjection(hits, ranks)
    BY DEF Surjection
  <2>2. IsFiniteSet(hits)
    BY RankType
  <2> HIDE DEF f, ranks
  <2> QED BY <2>1, <2>2, FS_Surjection
<1>3. PICK l \in ranks : \A n \in ranks : l <= n
  <2> HIDE DEF ranks
  <2> QED BY <1>1, LeastNat
<1>4. PICK g \in ranks : \A n \in ranks : n <= g
  <2> HIDE DEF ranks
  <2> QED BY <1>1, <1>2, GreatestOfFinite
<1>5. \E b \in hits : \A d \in hits : d = b \/ Precedes(b, d)
  <2>1. PICK b \in hits : Rank(hits, b) = l
    BY <1>3
  <2>2. ASSUME NEW d \in hits PROVE d = b \/ Precedes(b, d)
    <3>1. Rank(hits, b) <= Rank(hits, d) /\ Rank(hits, b) \in Nat /\ Rank(hits, d) \in Nat
      BY <1>3, <2>1, RankType
    <3>2. ~ Precedes(d, b)
      BY <3>1, RankGrows
    <3> QED BY <3>2, PrecedesOrder
  <2> QED BY <2>2
<1>6. \E b \in hits : \A d \in hits : d = b \/ Precedes(d, b)
  <2>1. PICK b \in hits : Rank(hits, b) = g
    BY <1>4
  <2>2. ASSUME NEW d \in hits PROVE d = b \/ Precedes(d, b)
    <3>1. Rank(hits, d) <= Rank(hits, b) /\ Rank(hits, b) \in Nat /\ Rank(hits, d) \in Nat
      BY <1>4, <2>1, RankType
    <3>2. ~ Precedes(b, d)
      BY <3>1, RankGrows
    <3> QED BY <3>2, PrecedesOrder
  <2> QED BY <2>2
<1> QED BY <1>5, <1>6

\* The last hit of a page is on it, and behind the others.
LEMMA BottomOfPage ==
    ASSUME PagingTypeOK, NEW page \in SUBSET Matching, page # {}
    PROVE  /\ Bottom(page) \in page
           /\ \A d \in page : d = Bottom(page) \/ Precedes(d, Bottom(page))
<1>1. \E b \in page : \A d \in page : d = b \/ Precedes(d, b)
  BY FirstAndLast
<1>2. \E b \in page : \A d \in page : b = d \/ Precedes(d, b)
  BY <1>1
<1>3. /\ Bottom(page) \in page
      /\ \A d \in page : Bottom(page) = d \/ Precedes(d, Bottom(page))
  <2>1. Bottom(page) = CHOOSE b \in page : \A d \in page : d = b \/ Precedes(d, b)
    BY DEF Bottom
  <2> QED BY <1>1, <2>1
<1> QED BY <1>3

\* A page is the beginning of the hits, all of them when it is not full.
LEMMA PageFacts ==
    ASSUME PagingTypeOK, NEW hits \in SUBSET Matching, NEW size \in Nat \ {0}
    PROVE  /\ \A b \in PageOf(hits, size), e \in hits :
                  Precedes(e, b) => e \in PageOf(hits, size)
           /\ \A b \in PageOf(hits, size), d \in hits \ PageOf(hits, size) : Precedes(b, d)
           /\ Cardinality(PageOf(hits, size)) < size => PageOf(hits, size) = hits
<1> DEFINE page == PageOf(hits, size)
<1>1. \A d : d \in page <=> d \in hits /\ Rank(hits, d) < size
  BY DEF PageOf, Rank, Preceding
<1>2. \A b \in page, e \in hits : Precedes(e, b) => e \in page
  BY <1>1, RankGrows, RankType
<1>3. \A b \in page, d \in hits \ page : Precedes(b, d)
  BY <1>1, <1>2, PrecedesOrder
<1>4. ASSUME Cardinality(page) < size, page # hits PROVE FALSE
  <2>1. page \subseteq hits /\ hits \ page # {} /\ page \in SUBSET Matching
    BY <1>1, <1>4
  <2>2. PICK d \in hits \ page : TRUE
    BY <2>1
  <2>3. PICK b \in hits \ page : \A e \in hits \ page : e = b \/ Precedes(b, e)
    BY <2>1, FirstAndLast
  <2>4. Preceding(hits, b) \subseteq page
    BY <2>3, PrecedesOrder DEF Preceding
  <2>5. Rank(hits, b) <= Cardinality(page)
    BY <2>1, <2>4, RankType, FS_Subset DEF Rank
  <2>6. Rank(hits, b) \in Nat /\ Cardinality(page) \in Nat /\ ~ (Rank(hits, b) < size)
    BY <1>1, <2>1, <2>3, RankType
  <2> QED BY <1>4, <2>5, <2>6
<1> QED BY <1>2, <1>3, <1>4

\* A page, its size and what the client keeps of it are well-typed.
LEMMA PageTypes ==
    ASSUME PagingTypeOK, NEW size \in Nat \ {0}
    PROVE  LET page == PageOf(Rest, size)
           IN  /\ page \in SUBSET Matching /\ page \subseteq Docs
               /\ Cardinality(page) \in Nat
               /\ page # {} => /\ Bottom(page) \in Docs /\ docs[Bottom(page)] \in Sortable
                               /\ score[Bottom(page)] \in Scores
<1> DEFINE page == PageOf(Rest, size)
<1>1. page \in SUBSET Matching /\ page \subseteq Docs
  BY PageType
<1>2. Cardinality(page) \in Nat
  BY <1>1, RankType
<1>3. ASSUME page # {} PROVE Bottom(page) \in Matching
  BY <1>1, <1>3, BottomOfPage
<1> QED BY <1>1, <1>2, <1>3 DEF Matching, PagingTypeOK

\* Every step keeps the types.
LEMMA NextTypes == PagingTypeOK /\ [PagingNext]_pvars => PagingTypeOK'
<1> SUFFICES ASSUME PagingTypeOK, [PagingNext]_pvars PROVE PagingTypeOK'
  OBVIOUS
<1>1. ASSUME NEW matched \in SUBSET Docs, Begin(matched) PROVE PagingTypeOK'
  <2>1. score' \in [Docs -> Scores]
    BY <1>1, ScoresAssumption DEF Begin, ScoresFor
  <2>2. clear' \in BOOLEAN
    BY <1>1 DEF Begin, Agree, Unique
  <2> QED BY <1>1, <2>1, <2>2 DEF Begin, PagingTypeOK
<1>2. ASSUME NEW size \in 1..MaxSize, NextPage(size) PROVE PagingTypeOK'
  <2> DEFINE page == PageOf(Rest, size)
  <2>1. size \in Nat \ {0}
    BY PagingBounds
  <2>2. /\ page \subseteq Docs /\ Cardinality(page) \in Nat
        /\ page # {} => /\ Bottom(page) \in Docs /\ docs[Bottom(page)] \in Sortable
                        /\ score[Bottom(page)] \in Scores
    BY <2>1, PageTypes
  <2>3. /\ served' = served \cup page /\ repeated' = repeated \cup (served \cap page)
        /\ offset' = IF byCursor THEN 0 ELSE offset + Cardinality(page)
        /\ ended' = (Cardinality(page) < size)
        /\ cursor' = IF page = {} THEN cursor
                     ELSE [key |-> docs[Bottom(page)], score |-> score[Bottom(page)],
                           id |-> Bottom(page)]
        /\ UNCHANGED <<docs, score, session, touched, clear, changes>>
    BY <1>2 DEF NextPage
  <2> HIDE DEF page
  <2>4. cursor' \in Cursor \cup {NoCursor}
    BY <2>2, <2>3 DEF PagingTypeOK, Cursor
  <2>5. offset' \in Nat /\ ended' \in BOOLEAN
    BY <2>2, <2>3 DEF PagingTypeOK
  <2> QED BY <2>2, <2>3, <2>4, <2>5 DEF PagingTypeOK, session
<1>3. ASSUME NEW d \in Docs, NEW k \in Sortable \cup {Absent}, Change(d, k) PROVE PagingTypeOK'
  <2>1. clear' \in BOOLEAN
    BY <1>3 DEF Change, PagingTypeOK, Agree, Unique
  <2> QED BY <1>3, <2>1 DEF Change, PagingTypeOK, session, pages
<1>4. CASE UNCHANGED pvars
  BY <1>4 DEF pvars, session, pages, PagingTypeOK
<1> QED BY <1>1, <1>2, <1>3, <1>4 DEF PagingNext, NextPaging

\* The variables keep their types.
THEOREM PagingTyping == PagingSpec => []PagingTypeOK
BY InitTypes, NextTypes, PTL DEF PagingSpec

-----------------------------------------------------------------------------
(***************************************************************************)
(* Where a document is, seen from a cursor.  When ids tell equal sort      *)
(* values apart in the same direction in hits and cursors, any document    *)
(* has a place; otherwise no two have the same value, and only the         *)
(* document of the cursor itself can be at its value, unless another one   *)
(* has been changed to it.                                                 *)
(***************************************************************************)

Straight == order = "asc" /\ ~ranked

\* d came at the cursor or before it.
Behind(c, d) ==
    IF c.key = Missing THEN docs[d] # Missing \/ d <= c.id
    ELSE /\ docs[d] # Missing
         /\ \/ KeyBefore(docs[d], c.key)
            \/ docs[d] = c.key /\ (d = c.id \/ (Straight /\ d < c.id))

\* d is still to come.
Ahead(c, d) ==
    \/ docs[d] = Missing /\ c.key # Missing
    \/ docs[d] # Missing /\ c.key # Missing /\ KeyBefore(c.key, docs[d])
    \/ Straight /\ docs[d] = c.key /\ c.id < d

\* A cursor fits when it is of a hit that had a place.
Fits(c) == Straight \/ c.key # Missing

\* Scores stay what they were, also that in the cursor.
ScoreKept ==
    /\ ~ranked => score = [d \in Docs |-> 1]
    /\ cursor # NoCursor => cursor.score = score[cursor.id]

\* As long as the session is clear, the orders agree and the cursor fits.
ClearAgrees ==
    clear => Agree(docs, order, ranked) /\ (byCursor /\ cursor # NoCursor => Fits(cursor))

\* The cursor separates what the client has been given from what is still to come.
CursorSeparates ==
    byCursor /\ clear =>
        IF cursor = NoCursor THEN served = {}
        ELSE \A d \in Docs \ touched :
                 /\ d \in served => d \in Matching /\ Behind(cursor, d)
                 /\ d \in Matching \ served => Ahead(cursor, d)

\* The offset counts what the client has been given: the first hits.
OffsetCounts ==
    ~byCursor /\ changes = 0 =>
        /\ served = {d \in Matching : Rank(Matching, d) < offset}
        /\ Cardinality(served) = offset

PagingInv ==
    /\ PagingTypeOK /\ ScoreKept /\ ClearAgrees /\ CursorSeparates /\ OffsetCounts
    /\ ServedOnce /\ ServedAll

-----------------------------------------------------------------------------
\* Cursors.

\* What is known of the values that are compared.
LEMMA Comparable ==
    ASSUME PagingTypeOK
    PROVE  /\ \A d \in Matching : d \in Nat /\ d \in Docs /\ (docs[d] # Missing => docs[d] \in Nat)
           /\ \A c \in Cursor : c.id \in Nat /\ c.id \in Docs /\ (c.key # Missing => c.key \in Nat)
BY DocsAssumption, KeysAssumption DEF PagingTypeOK, Matching, Sortable, Cursor

\* What comes before something behind a cursor is behind it.
LEMMA BehindClosed ==
    ASSUME PagingTypeOK, Agree(docs, order, ranked), NEW c \in Cursor, Fits(c),
           NEW d \in Matching, NEW e \in Matching, Behind(c, d), Precedes(e, d)
    PROVE  Behind(c, e)
<1>1. CASE Straight
  BY <1>1, Comparable DEF Straight, Behind, Precedes, KeyBefore
<1>2. CASE ~Straight
  <2>1. Unique(docs) /\ c.key # Missing
    BY <1>2 DEF Agree, Fits, Straight
  <2>2. docs[d] # Missing /\ docs[e] # Missing /\ (docs[d] = docs[e] => d = e)
    BY <2>1 DEF Unique, Matching
  <2> QED BY <1>2, <2>1, <2>2, Comparable, PrecedesOrder DEF Behind, Precedes, KeyBefore
<1> QED BY <1>1, <1>2

\* The last hit of a page has the hits before it behind it, and the others ahead.
LEMMA BottomSeparates ==
    ASSUME PagingTypeOK, Agree(docs, order, ranked), NEW b \in Matching, NEW d \in Matching,
           NEW c \in Cursor, c.key = docs[b], c.id = b
    PROVE  /\ Fits(c)
           /\ d = b \/ Precedes(d, b) => Behind(c, d)
           /\ Precedes(b, d) => Ahead(c, d)
<1>1. CASE Straight
  BY <1>1, Comparable DEF Straight, Fits, Behind, Ahead, Precedes, KeyBefore
<1>2. CASE ~Straight
  <2>1. Unique(docs)
    BY <1>2 DEF Agree, Straight
  <2>2. docs[d] # Missing /\ docs[b] # Missing /\ (docs[d] = docs[b] => d = b)
    BY <2>1 DEF Unique, Matching
  <2> QED BY <1>2, <2>2, Comparable, PrecedesOrder DEF Fits, Behind, Ahead, Precedes, KeyBefore
<1> QED BY <1>1, <1>2

\* Nothing that is behind the cursor is served again.
LEMMA BehindIsNotServed ==
    ASSUME PagingTypeOK, ScoreKept, Agree(docs, order, ranked), cursor # NoCursor, Fits(cursor),
           NEW d \in Matching, Behind(cursor, d)
    PROVE  d \notin FromCursor
<1> SUFFICES ASSUME NEW e \in Matching, After(e), e = d \/ Precedes(e, d) PROVE FALSE
  BY DEF FromCursor
<1>1. cursor \in Cursor /\ cursor.score = score[cursor.id]
  BY DEF PagingTypeOK, ScoreKept
<1>2. Behind(cursor, e)
  BY <1>1, BehindClosed
<1>3. score[e] \in Nat /\ cursor.score \in Nat
  BY <1>1, Comparable, ScoresAssumption DEF PagingTypeOK
<1>4. CASE Straight
  <2>1. score[e] = cursor.score
    BY <1>1, <1>4, Comparable DEF ScoreKept, Straight
  <2> QED BY <1>1, <1>2, <1>3, <1>4, <2>1, Comparable DEF Straight, After, Behind, KeyBefore
<1>5. CASE ~Straight
  <2>1. Unique(docs) /\ cursor.key # Missing
    BY <1>5 DEF Agree, Fits, Straight
  <2>2. docs[d] # Missing /\ docs[e] # Missing /\ (docs[d] = docs[e] => d = e)
    BY <2>1 DEF Unique, Matching
  <2> QED BY <1>1, <1>2, <1>3, <1>5, <2>1, <2>2, Comparable DEF After, Behind, KeyBefore
<1> QED BY <1>4, <1>5

\* Whatever is ahead of the cursor is served, or comes behind a hit that is.
LEMMA AheadIsServed ==
    ASSUME PagingTypeOK, ScoreKept, Agree(docs, order, ranked), cursor # NoCursor, Fits(cursor),
           NEW d \in Matching, Ahead(cursor, d)
    PROVE  d \in FromCursor
<1>1. cursor \in Cursor /\ cursor.score = score[cursor.id]
  BY DEF PagingTypeOK, ScoreKept
<1>2. After(d)
  <2>1. CASE Straight
    <3>1. score[d] = cursor.score
      BY <1>1, <2>1, Comparable DEF ScoreKept, Straight
    <3> QED BY <1>1, <2>1, <3>1, Comparable DEF Straight, After, Ahead, KeyBefore
  <2>2. CASE ~Straight
    <3>1. docs[d] # Missing
      BY <2>2 DEF Agree, Straight, Unique, Matching
    <3> QED BY <1>1, <2>2, <3>1, Comparable DEF After, Ahead, KeyBefore, PagingTypeOK
  <2> QED BY <2>1, <2>2
<1> QED BY <1>2 DEF FromCursor

-----------------------------------------------------------------------------
\* The steps.

\* Before the first search nothing matches.
LEMMA InitPagingInv == NoSession => PagingInv
<1> SUFFICES ASSUME NoSession PROVE PagingInv
  OBVIOUS
<1>1. PagingTypeOK
  BY InitTypes
<1>2. Matching = {}
  BY DEF NoSession, Matching
<1>3. \A d \in Docs : docs[d] = Absent
  BY DEF NoSession
<1>4. ScoreKept /\ CursorSeparates /\ ServedOnce /\ ServedAll
  BY <1>2 DEF NoSession, ScoreKept, CursorSeparates, ServedOnce, ServedAll
<1>5. ClearAgrees
  BY DEF NoSession, ClearAgrees, Agree
<1>6. OffsetCounts
  BY <1>2, FS_EmptySet DEF NoSession, OffsetCounts
<1> QED BY <1>1, <1>4, <1>5, <1>6 DEF PagingInv

\* A search that begins has served nothing.
LEMMA BeginInv ==
    ASSUME PagingInv, NEW matched \in SUBSET Docs, Begin(matched), PagingTypeOK'
    PROVE  PagingInv'
<1>1. /\ cursor' = NoCursor /\ offset' = 0 /\ served' = {} /\ repeated' = {} /\ touched' = {}
      /\ clear' = Agree(docs', order', ranked') /\ ended' = FALSE /\ changes' = 0
      /\ score' \in ScoresFor(ranked') /\ ranked' \in BOOLEAN
  BY DEF Begin
<1>2. ScoreKept'
  BY <1>1 DEF ScoreKept, ScoresFor
<1>3. ClearAgrees'
  BY <1>1 DEF ClearAgrees
<1>4. CursorSeparates' /\ ServedOnce' /\ ServedAll'
  BY <1>1 DEF CursorSeparates, ServedOnce, ServedAll
<1>5. OffsetCounts'
  <2>1. \A d : Rank(Matching, d)' \in Nat
    <3>1. IsFiniteSet(Matching')
      BY DocsAssumption, FS_Subset DEF Matching
    <3>2. \A d : Preceding(Matching, d)' \subseteq Matching'
      BY DEF Preceding
    <3> QED BY <3>1, <3>2, FS_Subset, FS_CardinalityType DEF Rank
  <2>2. {d \in Matching : Rank(Matching, d) < offset}' = {}
    BY <1>1, <2>1
  <2> QED BY <1>1, <2>2, FS_EmptySet DEF OffsetCounts
<1> QED BY <1>2, <1>3, <1>4, <1>5 DEF PagingInv

\* A change touches its document and leaves the others where they are.
LEMMA ChangeInv ==
    ASSUME PagingInv, NEW x \in Docs, NEW k \in Sortable \cup {Absent}, Change(x, k), PagingTypeOK'
    PROVE  PagingInv'
<1>1. /\ ~ended /\ ~ranked
      /\ docs' = [docs EXCEPT ![x] = k] /\ touched' = touched \cup {x}
      /\ clear' = (clear /\ Agree(docs', order, ranked)) /\ changes' = changes + 1
      /\ score' = score /\ order' = order /\ ranked' = ranked /\ byCursor' = byCursor
      /\ cursor' = cursor /\ offset' = offset /\ served' = served /\ repeated' = repeated
      /\ ended' = ended
  BY DEF Change, session, pages
<1>2. PagingTypeOK
  BY DEF PagingInv
<1>3. \A d \in Docs : d # x => docs'[d] = docs[d] /\ (d \in Matching' <=> d \in Matching)
  BY <1>1, <1>2 DEF PagingTypeOK, Matching
<1>4. changes' # 0
  BY <1>1, <1>2 DEF PagingTypeOK
<1>5. ScoreKept'
  BY <1>1 DEF ScoreKept, PagingInv
<1>6. ClearAgrees'
  BY <1>1 DEF ClearAgrees, PagingInv, Fits, Straight
<1>7. CursorSeparates'
  <2> SUFFICES ASSUME byCursor, clear, cursor # NoCursor, NEW d \in Docs \ touched, d # x
               PROVE  /\ (d \in served => d \in Matching /\ Behind(cursor, d))'
                      /\ (d \in Matching \ served => Ahead(cursor, d))'
    BY <1>1 DEF CursorSeparates, PagingInv
  <2>1. /\ d \in served => d \in Matching /\ Behind(cursor, d)
        /\ d \in Matching \ served => Ahead(cursor, d)
    BY DEF CursorSeparates, PagingInv
  <2>2. docs'[d] = docs[d] /\ (d \in Matching' <=> d \in Matching)
    BY <1>3
  <2>3. Behind(cursor, d)' <=> Behind(cursor, d)
    BY <1>1, <2>2 DEF Behind, KeyBefore, Straight
  <2>4. Ahead(cursor, d)' <=> Ahead(cursor, d)
    BY <1>1, <2>2 DEF Ahead, KeyBefore, Straight
  <2> QED BY <1>1, <2>1, <2>2, <2>3, <2>4
<1>8. OffsetCounts' /\ ServedAll'
  BY <1>1, <1>4 DEF OffsetCounts, ServedAll
<1>9. ServedOnce'
  BY <1>1, <1>4 DEF ServedOnce, Steady, PagingInv
<1> QED BY <1>5, <1>6, <1>7, <1>8, <1>9 DEF PagingInv

\* A page changes only what the client has seen.
LEMMA PageStep ==
    ASSUME PagingTypeOK, NEW size, NextPage(size)
    PROVE  LET page == PageOf(Rest, size)
           IN  /\ served' = served \cup page /\ repeated' = repeated \cup (served \cap page)
               /\ offset' = IF byCursor THEN 0 ELSE offset + Cardinality(page)
               /\ ended' = (Cardinality(page) < size) /\ ~ended
               /\ cursor' = IF page = {} THEN cursor
                            ELSE [key |-> docs[Bottom(page)], score |-> score[Bottom(page)],
                                  id |-> Bottom(page)]
               /\ docs' = docs /\ score' = score /\ order' = order /\ ranked' = ranked
               /\ byCursor' = byCursor /\ touched' = touched /\ clear' = clear
               /\ changes' = changes
               /\ Matching' = Matching
BY DEF NextPage, session, Matching

\* A page by cursor serves what is ahead of the old cursor up to the new one.
LEMMA CursorPage ==
    ASSUME PagingInv, byCursor, clear, NEW size \in Nat \ {0}, NextPage(size), PagingTypeOK'
    PROVE  /\ CursorSeparates' /\ (cursor # NoCursor => Fits(cursor))'
           /\ ServedOnce' /\ ServedAll'
<1> DEFINE page == PageOf(FromCursor, size)
<1>1. PagingTypeOK /\ ScoreKept /\ Agree(docs, order, ranked)
  BY DEF PagingInv, ClearAgrees
<1>2. /\ served' = served \cup page /\ repeated' = repeated \cup (served \cap page)
      /\ ended' = (Cardinality(page) < size)
      /\ cursor' = IF page = {} THEN cursor
                   ELSE [key |-> docs[Bottom(page)], score |-> score[Bottom(page)],
                         id |-> Bottom(page)]
      /\ docs' = docs /\ score' = score /\ order' = order /\ ranked' = ranked
      /\ byCursor' = byCursor /\ touched' = touched /\ clear' = clear /\ Matching' = Matching
  BY <1>1, PageStep DEF Rest
<1>3. /\ FromCursor \in SUBSET Matching /\ page \in SUBSET Matching /\ page \subseteq FromCursor
      /\ Matching \subseteq Docs
  BY PageType DEF PageOf
<1>4. /\ \A b \in page, d \in FromCursor \ page : Precedes(b, d)
      /\ Cardinality(page) < size => page = FromCursor
  BY <1>1, <1>3, PageFacts
<1> HIDE DEF page
<1>5. ASSUME cursor # NoCursor PROVE Fits(cursor) /\ cursor \in Cursor
  BY <1>1, <1>5 DEF PagingInv, ClearAgrees, PagingTypeOK
\* What the old cursor says.
<1>6. ASSUME NEW d \in Docs \ touched, d \in served
      PROVE  d \in Matching /\ d \notin FromCursor
  <2>1. cursor # NoCursor
    BY <1>6 DEF PagingInv, CursorSeparates
  <2>2. d \in Matching /\ Behind(cursor, d)
    BY <1>6, <2>1 DEF PagingInv, CursorSeparates
  <2> QED BY <1>1, <1>5, <2>1, <2>2, BehindIsNotServed
<1>7. ASSUME NEW d \in Docs \ touched, d \in Matching, d \notin served
      PROVE  d \in FromCursor
  <2>1. CASE cursor = NoCursor
    BY <1>7, <2>1 DEF FromCursor
  <2>2. CASE cursor # NoCursor
    <3>1. Ahead(cursor, d)
      BY <1>7, <2>2 DEF PagingInv, CursorSeparates
    <3> QED BY <1>1, <1>5, <1>7, <2>2, <3>1, AheadIsServed
  <2> QED BY <2>1, <2>2
<1>8. ServedOnce'
  <2>1. repeated \subseteq touched
    BY DEF PagingInv, ServedOnce, Steady
  <2>2. served \cap page \subseteq touched
    BY <1>3, <1>6
  <2> QED BY <1>2, <2>1, <2>2 DEF ServedOnce
<1>9. ServedAll'
  <2> SUFFICES ASSUME Cardinality(page) < size PROVE Matching \ touched \subseteq served \cup page
    BY <1>2 DEF ServedAll
  <2> QED BY <1>3, <1>4, <1>7
\* Where the new cursor is.
<1>10. CASE page = {}
  <2>1. cursor' = cursor /\ served' = served
    BY <1>2, <1>10
  <2>2. CursorSeparates'
    BY <1>2, <2>1 DEF PagingInv, CursorSeparates, Behind, Ahead, KeyBefore, Straight
  <2>3. (cursor # NoCursor => Fits(cursor))'
    BY <1>2, <1>5, <2>1 DEF Fits, Straight
  <2> QED BY <1>8, <1>9, <2>2, <2>3
<1>11. CASE page # {}
  <2> DEFINE b == Bottom(page)
             c == [key |-> docs[b], score |-> score[b], id |-> b]
  <2>1. b \in page /\ \A d \in page : d = b \/ Precedes(d, b)
    BY <1>1, <1>3, <1>11, BottomOfPage
  <2>2. cursor' = c
    BY <1>2, <1>11
  <2>3. c \in Cursor /\ c.key = docs[b] /\ c.id = b /\ b \in Matching
    BY <1>1, <1>3, <2>1 DEF Cursor, PagingTypeOK, Matching
  <2> HIDE DEF b, c
  <2>4. \A d \in Matching : /\ Fits(c)
                            /\ d = b \/ Precedes(d, b) => Behind(c, d)
                            /\ Precedes(b, d) => Ahead(c, d)
    BY <1>1, <2>3, BottomSeparates
  <2>5. c # NoCursor
    BY <2>3, CursorAssumption DEF Cursor, Sortable
  <2>6. \A d : /\ Behind(cursor, d)' <=> Behind(c, d)
               /\ Ahead(cursor, d)' <=> Ahead(c, d)
               /\ Fits(cursor)' <=> Fits(c)
    BY <1>2, <2>2 DEF Behind, Ahead, Fits, KeyBefore, Straight
  <2>7. ASSUME NEW d \in Docs \ touched, d \in served PROVE d \in Matching /\ Behind(c, d)
    <3>1. d \in Matching /\ d \notin FromCursor /\ cursor # NoCursor
      BY <1>6, <2>7 DEF PagingInv, CursorSeparates
    <3>2. Behind(cursor, d)
      BY <2>7, <3>1 DEF PagingInv, CursorSeparates
    <3>3. ~ Behind(cursor, b)
      BY <1>1, <1>3, <1>5, <2>1, <2>3, <3>1, BehindIsNotServed
    <3>4. ~ Precedes(b, d)
      BY <1>1, <1>5, <2>3, <3>1, <3>2, <3>3, BehindClosed
    <3>5. Precedes(d, b)
      BY <1>1, <2>3, <3>1, <3>2, <3>3, <3>4, PrecedesOrder
    <3> QED BY <2>4, <3>1, <3>5
  <2>8. ASSUME NEW d \in page PROVE d \in Matching /\ Behind(c, d)
    BY <1>3, <2>1, <2>4, <2>8
  <2>9. ASSUME NEW d \in Docs \ touched, d \in Matching, d \notin served, d \notin page
        PROVE  Ahead(c, d)
    <3>1. d \in FromCursor
      BY <1>7, <2>9
    <3>2. Precedes(b, d)
      BY <1>4, <2>1, <2>9, <3>1
    <3> QED BY <2>4, <2>9, <3>2
  <2>10. CursorSeparates'
    BY <1>2, <2>2, <2>5, <2>6, <2>7, <2>8, <2>9 DEF CursorSeparates
  <2>11. (cursor # NoCursor => Fits(cursor))'
    BY <2>3, <2>4, <2>6
  <2> QED BY <1>8, <1>9, <2>10, <2>11
<1> QED BY <1>10, <1>11

\* A page by offset, while nothing changes, serves the hits that follow the offset.
LEMMA OffsetPage ==
    ASSUME PagingInv, ~byCursor, changes = 0, NEW size \in Nat \ {0}, NextPage(size)
    PROVE  OffsetCounts' /\ ServedOnce' /\ ServedAll'
<1> DEFINE page == PageOf(FromOffset, size)
<1>1. PagingTypeOK
  BY DEF PagingInv
<1>2. /\ served' = served \cup page /\ repeated' = repeated \cup (served \cap page)
      /\ ended' = (Cardinality(page) < size) /\ offset' = offset + Cardinality(page)
      /\ docs' = docs /\ order' = order
      /\ byCursor' = byCursor /\ touched' = touched /\ changes' = changes
      /\ Matching' = Matching
  BY <1>1, PageStep DEF Rest
<1>3. /\ FromOffset \in SUBSET Matching /\ page \in SUBSET Matching /\ page \subseteq FromOffset
  BY PageType DEF PageOf
<1>4. /\ \A b \in page, e \in FromOffset : Precedes(e, b) => e \in page
      /\ \A b \in page, d \in FromOffset \ page : Precedes(b, d)
      /\ Cardinality(page) < size => page = FromOffset
  BY <1>1, <1>3, PageFacts
<1> HIDE DEF page
<1>5. /\ served = {d \in Matching : Rank(Matching, d) < offset}
      /\ Cardinality(served) = offset /\ served \in SUBSET Matching
  BY DEF PagingInv, OffsetCounts
<1>6. \A d \in Matching : Rank(Matching, d) \in Nat /\ IsFiniteSet(Preceding(Matching, d))
  BY <1>1, RankType
<1>7. offset \in Nat /\ IsFiniteSet(served) /\ IsFiniteSet(page) /\ Cardinality(page) \in Nat
  BY <1>1, <1>3, <1>5, RankType DEF PagingTypeOK
<1>8. FromOffset = Matching \ served
  BY <1>5, <1>6, <1>7 DEF FromOffset, Rank, Preceding
<1>9. served \cap page = {}
  BY <1>3, <1>8
<1>10. IsFiniteSet(served \cup page) /\ Cardinality(served \cup page) = offset'
  <2>1. /\ IsFiniteSet(served \cup page)
        /\ Cardinality(served \cup page)
              = Cardinality(served) + Cardinality(page) - Cardinality(served \cap page)
    BY <1>7, FS_Union
  <2>2. Cardinality(served \cap page) = 0
    BY <1>9, FS_EmptySet
  <2> QED BY <1>2, <1>5, <1>7, <2>1, <2>2
\* Everything before a hit that is served is served.
<1>11. ASSUME NEW d \in served \cup page, NEW e \in Matching, Precedes(e, d)
       PROVE  e \in served \cup page
  <2>1. CASE d \in served
    <3>1. Rank(Matching, e) < Rank(Matching, d)
      BY <1>1, <1>5, <1>11, <2>1, RankGrows
    <3> QED BY <1>5, <1>6, <1>7, <2>1, <3>1
  <2>2. CASE d \in page
    BY <1>4, <1>8, <1>11, <2>2
  <2> QED BY <2>1, <2>2
<1>12. ASSUME NEW d \in served \cup page PROVE Rank(Matching, d) < offset'
  <2>1. Preceding(Matching, d) \subseteq served \cup page
    BY <1>11 DEF Preceding
  <2>2. d \in Matching /\ d \notin Preceding(Matching, d)
    BY <1>1, <1>3, <1>5, PrecedesOrder DEF Preceding
  <2>3. Preceding(Matching, d) # served \cup page
    BY <1>12, <2>2
  <2>4. /\ Cardinality(Preceding(Matching, d)) <= Cardinality(served \cup page)
        /\ Cardinality(Preceding(Matching, d)) # Cardinality(served \cup page)
    BY <1>10, <2>1, <2>3, FS_Subset
  <2> QED BY <1>2, <1>6, <1>7, <1>10, <2>2, <2>4 DEF Rank
<1>13. ASSUME NEW d \in Matching, d \notin served \cup page PROVE ~ (Rank(Matching, d) < offset')
  <2>1. served \cup page \subseteq Preceding(Matching, d)
    BY <1>1, <1>3, <1>5, <1>11, <1>13, PrecedesOrder DEF Preceding
  <2>2. Cardinality(served \cup page) <= Cardinality(Preceding(Matching, d))
    BY <1>6, <2>1, FS_Subset
  <2> QED BY <1>2, <1>6, <1>7, <1>10, <2>2 DEF Rank
<1>14. OffsetCounts'
  <2>1. \A d : Rank(Matching, d)' = Rank(Matching, d)
    BY <1>2 DEF Rank, Preceding, Precedes, KeyBefore
  <2>2. served' = {d \in Matching : Rank(Matching, d) < offset'}
    BY <1>2, <1>3, <1>5, <1>12, <1>13
  <2>3. served' = {d \in Matching : Rank(Matching, d) < offset}'
    BY <1>2, <2>1, <2>2
  <2> QED BY <1>2, <1>10, <2>3 DEF OffsetCounts
<1>15. ServedOnce'
  <2>1. repeated \subseteq touched
    BY DEF PagingInv, ServedOnce, Steady
  <2> QED BY <1>2, <1>9, <2>1 DEF ServedOnce
<1>16. ServedAll'
  <2> SUFFICES ASSUME Cardinality(page) < size PROVE Matching \ touched \subseteq served \cup page
    BY <1>2 DEF ServedAll
  <2> QED BY <1>4, <1>8
<1> QED BY <1>14, <1>15, <1>16

\* A page, whichever way it is asked for.
LEMMA PageInv ==
    ASSUME PagingInv, NEW size \in Nat \ {0}, NextPage(size), PagingTypeOK'
    PROVE  PagingInv'
<1>1. /\ byCursor' = byCursor /\ clear' = clear /\ changes' = changes
      /\ docs' = docs /\ score' = score /\ order' = order /\ ranked' = ranked
  BY DEF NextPage, session
<1>2. ScoreKept'
  <2> DEFINE page == PageOf(Rest, size)
  <2>1. cursor' = IF page = {} THEN cursor
                  ELSE [key |-> docs[Bottom(page)], score |-> score[Bottom(page)],
                        id |-> Bottom(page)]
    BY DEF NextPage
  <2> HIDE DEF page
  <2> QED BY <1>1, <2>1 DEF PagingInv, ScoreKept
<1>3. CASE byCursor /\ clear
  <2>1. /\ CursorSeparates' /\ (cursor # NoCursor => Fits(cursor))'
        /\ ServedOnce' /\ ServedAll'
    BY <1>3, CursorPage
  <2>2. ClearAgrees'
    BY <1>1, <2>1 DEF PagingInv, ClearAgrees
  <2>3. OffsetCounts'
    BY <1>1, <1>3 DEF OffsetCounts
  <2> QED BY <1>2, <2>1, <2>2, <2>3 DEF PagingInv
<1>4. CASE ~byCursor /\ changes = 0
  <2>1. OffsetCounts' /\ ServedOnce' /\ ServedAll'
    BY <1>4, OffsetPage
  <2>2. CursorSeparates' /\ ClearAgrees'
    BY <1>1, <1>4 DEF PagingInv, CursorSeparates, ClearAgrees
  <2> QED BY <1>2, <2>1, <2>2 DEF PagingInv
<1>5. CASE ~Steady
  <2>1. CursorSeparates' /\ ClearAgrees' /\ OffsetCounts'
    BY <1>1, <1>5 DEF PagingInv, CursorSeparates, ClearAgrees, OffsetCounts, Steady
  <2>2. ServedOnce' /\ ServedAll'
    BY <1>1, <1>5 DEF ServedOnce, ServedAll, Steady
  <2> QED BY <1>2, <2>1, <2>2 DEF PagingInv
<1> QED BY <1>3, <1>4, <1>5 DEF Steady

\* Every step keeps the invariant.
LEMMA NextPagingInv == PagingInv /\ [PagingNext]_pvars => PagingInv'
<1> SUFFICES ASSUME PagingInv, [PagingNext]_pvars PROVE PagingInv'
  OBVIOUS
<1>1. PagingTypeOK'
  BY NextTypes DEF PagingInv
<1>2. ASSUME NEW matched \in SUBSET Docs, Begin(matched) PROVE PagingInv'
  BY <1>1, <1>2, BeginInv
<1>3. ASSUME NEW size \in 1..MaxSize, NextPage(size) PROVE PagingInv'
  <2>1. size \in Nat \ {0}
    BY PagingBounds
  <2> QED BY <1>1, <1>3, <2>1, PageInv
<1>4. ASSUME NEW d \in Docs, NEW k \in Sortable \cup {Absent}, Change(d, k) PROVE PagingInv'
  BY <1>1, <1>4, ChangeInv
<1>5. CASE UNCHANGED pvars
  <2>1. /\ docs' = docs /\ score' = score /\ order' = order /\ ranked' = ranked
        /\ byCursor' = byCursor /\ cursor' = cursor /\ offset' = offset /\ served' = served
        /\ repeated' = repeated /\ touched' = touched /\ clear' = clear /\ ended' = ended
        /\ changes' = changes
    BY <1>5 DEF pvars, session, pages
  <2>2. ScoreKept' /\ ClearAgrees' /\ ServedOnce'
    BY <2>1 DEF PagingInv, ScoreKept, ClearAgrees, ServedOnce, Steady, Fits, Straight
  <2>3. Matching' = Matching
    BY <2>1 DEF Matching
  <2>4. CursorSeparates'
    BY <2>1, <2>3 DEF PagingInv, CursorSeparates, Behind, Ahead, KeyBefore, Straight
  <2>5. \A d : Rank(Matching, d)' = Rank(Matching, d)
    BY <2>1, <2>3 DEF Rank, Preceding, Precedes, KeyBefore
  <2>6. OffsetCounts' /\ ServedAll'
    BY <2>1, <2>3, <2>5 DEF PagingInv, OffsetCounts, ServedAll, Steady
  <2> QED BY <1>1, <2>2, <2>4, <2>6 DEF PagingInv
<1> QED BY <1>2, <1>3, <1>4, <1>5 DEF PagingNext, NextPaging

\* What the client has been given is always exactly what lies behind its cursor, or
\* below its offset, apart from documents that were changed under its hands.
THEOREM PagingInvariance == PagingSpec => []PagingInv
BY InitPagingInv, NextPagingInv, PTL DEF PagingSpec

\* No document that stays as it is appears on two pages.
THEOREM PagesServeOnce == PagingSpec => []ServedOnce
<1>1. PagingInv => ServedOnce
  BY DEF PagingInv
<1> QED BY <1>1, PagingInvariance, PTL

\* When the last page has come, no document that matched all along is missing.
THEOREM PagesServeAll == PagingSpec => []ServedAll
<1>1. PagingInv => ServedAll
  BY DEF PagingInv
<1> QED BY <1>1, PagingInvariance, PTL

-----------------------------------------------------------------------------
(***************************************************************************)
(* JSON clauses: the two readers agree.                                    *)
(***************************************************************************)

\* What RoutesAgree says of one clause.
SameClause(body, one, two) ==
    /\ one.field = two.field /\ one.value = two.value
    /\ RouteSpecific \cap DOMAIN body = {} => one.options = two.options
Agreed(kind, body, one, two) ==
    /\ one # Rejected /\ two # Rejected => SameClause(body, one, two)
    /\ DOMAIN body \subseteq {"field", "value", "values"} /\ one # Rejected /\ kind # "sort"
       => two # Rejected

\* The parts of a clause that was read.
LEMMA ClauseParts ==
    ASSUME NEW field, NEW value, NEW options
    PROVE  /\ Dsl!Clause(field, value, options).field = field
           /\ Dsl!Clause(field, value, options).value = value
           /\ Dsl!Clause(field, value, options).options = options
BY DEF Dsl!Clause

\* The keys and the values of the body of a clause.
LEMMA BodyType ==
    ASSUME NEW kind \in Dsl!ClauseKinds, NEW body \in Dsl!Bodies(kind)
    PROVE  DOMAIN body \subseteq Dsl!KeysOf(kind) /\ body \in [DOMAIN body -> Dsl!Kinds]
BY DEF Dsl!Bodies

\* Without options there is nothing to keep.
LEMMA NoOptions ==
    ASSUME NEW body, NEW keys, keys \cap DOMAIN body = {}
    PROVE  Dsl!Options(body, keys) = <<>>
<1>1. {j \in keys : Dsl!Present(body, j)} = {}
  BY DEF Dsl!Present
<1>2. Dsl!Options(body, keys) = [k \in {} |-> body[k]]
  BY <1>1 DEF Dsl!Options
<1>3. \A e : [k \in {} |-> body[k]] = <<>>
  OBVIOUS
<1> QED BY <1>2, <1>3

\* An explicit clause is not taken for an error.
LEMMA ExplicitIsRead ==
    ASSUME NEW field \in {"field", "bool", "request"},
           NEW value \in {"value", "values", "bounds", "clauses", "request"}
    PROVE  Dsl!Clause(field, value, <<>>) # Rejected
BY RejectedAssumption DEF Dsl!Clause

\* A shorthand has one key.
LEMMA EmptyIsNotSingle ==
    ASSUME NEW body, DOMAIN body = {}
    PROVE  ~ Dsl!Single(body)
<1>1. Cardinality({}) = 0
  BY FS_EmptySet
<1> QED BY <1>1 DEF Dsl!Single

\* The keys of a clause in its explicit form.
LEMMA ExplicitKeys ==
    ASSUME NEW kind \in Dsl!ClauseKinds, NEW body \in Dsl!Bodies(kind),
           DOMAIN body \subseteq {"field", "value", "values"}
    PROVE  /\ kind \in {"term", "text"} => DOMAIN body \subseteq {"field", "value"}
           /\ kind = "terms" => DOMAIN body \subseteq {"field", "values"}
           /\ kind = "range" => DOMAIN body \subseteq {"field"}
           /\ kind \in {"multi_match", "bool", "request"} => DOMAIN body = {}
<1>1. DOMAIN body \subseteq Dsl!KeysOf(kind)
  BY BodyType
<1> QED BY <1>1, UserFieldAssumption DEF Dsl!KeysOf, Dsl!Bounds, Dsl!Occurs, Dsl!ClauseKinds

\* A term: what _msearch accepts has a field and a value, and then _search reads them.
LEMMA TermAgrees ==
    ASSUME NEW body \in Dsl!Bodies("term")
    PROVE  Agreed("term", body, Dsl!SearchTerm(body), Dsl!MsearchTerm(body))
<1> DEFINE one == Dsl!SearchTerm(body)
           two == Dsl!MsearchTerm(body)
<1>1. ASSUME one # Rejected, two # Rejected PROVE SameClause(body, one, two)
  <2>1. one = Dsl!Clause("field", "value", Dsl!Options(body, {"fuzziness"}))
    BY <1>1 DEF Dsl!SearchTerm, Dsl!MsearchTerm, Dsl!Has
  <2>2. two = Dsl!Clause("field", "value", Dsl!Options(body, {"fuzziness", "boost"}))
    BY <1>1 DEF Dsl!MsearchTerm
  <2>3. RouteSpecific \cap DOMAIN body = {} =>
            Dsl!Options(body, {"fuzziness"}) = Dsl!Options(body, {"fuzziness", "boost"})
    <3>1. RouteSpecific \cap DOMAIN body = {} => "boost" \notin DOMAIN body
      BY DEF RouteSpecific
    <3>2. "boost" \notin DOMAIN body =>
            {j \in {"fuzziness"} : Dsl!Present(body, j)} = {j \in {"fuzziness", "boost"} : Dsl!Present(body, j)}
      BY DEF Dsl!Present
    <3> QED BY <3>1, <3>2 DEF Dsl!Options
  <2> QED BY <2>1, <2>2, <2>3, ClauseParts DEF SameClause
<1>2. ASSUME DOMAIN body \subseteq {"field", "value", "values"}, one # Rejected
      PROVE  two # Rejected
  <2>1. DOMAIN body \subseteq {"field", "value"}
    BY <1>2, ExplicitKeys DEF Dsl!ClauseKinds
  <2>2. {"field", "value"} \cap DOMAIN body # {}
    <3>1. CASE DOMAIN body = {}
      BY <1>2, <3>1, EmptyIsNotSingle DEF Dsl!SearchTerm
    <3> QED BY <2>1, <3>1
  <2>3. Dsl!Has(body, "field", Dsl!Strings) /\ "value" \in DOMAIN body
    BY <1>2, <2>2 DEF Dsl!SearchTerm
  <2>4. two = Dsl!Clause("field", "value", <<>>)
    <3>1. Dsl!Options(body, {"fuzziness", "boost"}) = <<>>
      BY <2>1, NoOptions
    <3> QED BY <2>1, <2>3, <3>1 DEF Dsl!MsearchTerm, Dsl!Optional
  <2> QED BY <2>4, ExplicitIsRead
<1> QED BY <1>1, <1>2 DEF Agreed

\* The values of a list of terms.
LEMMA TermsAgree ==
    ASSUME NEW body \in Dsl!Bodies("terms")
    PROVE  Agreed("terms", body, Dsl!SearchTerms(body), Dsl!MsearchTerms(body))
<1> DEFINE one == Dsl!SearchTerms(body)
           two == Dsl!MsearchTerms(body)
<1>1. two # Rejected => one = two
  BY DEF Dsl!MsearchTerms, Dsl!SearchTerms, Dsl!Has
<1>2. ASSUME DOMAIN body \subseteq {"field", "value", "values"}, one # Rejected
      PROVE  two # Rejected
  <2>1. DOMAIN body \subseteq {"field", "values"}
    BY <1>2, ExplicitKeys DEF Dsl!ClauseKinds
  <2>2. {"field", "values"} \cap DOMAIN body # {}
    <3>1. CASE DOMAIN body = {}
      BY <1>2, <3>1, EmptyIsNotSingle DEF Dsl!SearchTerms
    <3> QED BY <2>1, <3>1
  <2>3. two = Dsl!Clause("field", "values", <<>>)
    BY <1>2, <2>2 DEF Dsl!SearchTerms, Dsl!MsearchTerms
  <2> QED BY <2>3, ExplicitIsRead
<1> QED BY <1>1, <1>2 DEF Agreed, SameClause

\* A range.
LEMMA RangeAgrees ==
    ASSUME NEW body \in Dsl!Bodies("range")
    PROVE  Agreed("range", body, Dsl!SearchRange(body), Dsl!MsearchRange(body))
<1> DEFINE one == Dsl!SearchRange(body)
           two == Dsl!MsearchRange(body)
<1>1. two # Rejected => one = two
  BY DEF Dsl!MsearchRange, Dsl!SearchRange, Dsl!Has
<1>2. ASSUME DOMAIN body \subseteq {"field", "value", "values"}, one # Rejected
      PROVE  two # Rejected
  <2>1. DOMAIN body \subseteq {"field"}
    BY <1>2, ExplicitKeys DEF Dsl!ClauseKinds
  <2>2. "field" \in DOMAIN body
    <3>1. CASE DOMAIN body = {}
      BY <1>2, <3>1, EmptyIsNotSingle DEF Dsl!SearchRange
    <3> QED BY <2>1, <3>1
  <2>3. Dsl!Options(body, Dsl!Bounds) = <<>>
    BY <2>1, NoOptions DEF Dsl!Bounds
  <2>4. two = Dsl!Clause("field", "bounds", <<>>)
    BY <1>2, <2>2, <2>3 DEF Dsl!SearchRange, Dsl!MsearchRange
  <2> QED BY <2>4, ExplicitIsRead
<1> QED BY <1>1, <1>2 DEF Agreed, SameClause

\* A prefix, a wildcard, a match or a phrase.
LEMMA TextAgrees ==
    ASSUME NEW body \in Dsl!Bodies("text")
    PROVE  Agreed("text", body, Dsl!SearchText(body), Dsl!MsearchText(body))
<1> DEFINE one == Dsl!SearchText(body)
           two == Dsl!MsearchText(body)
<1>1. one # Rejected /\ two # Rejected => one = two
  BY DEF Dsl!MsearchText, Dsl!SearchText, Dsl!Has
<1>2. ASSUME DOMAIN body \subseteq {"field", "value", "values"}, one # Rejected
      PROVE  two # Rejected
  <2>1. DOMAIN body \subseteq {"field", "value"}
    BY <1>2, ExplicitKeys DEF Dsl!ClauseKinds
  <2>2. {"field", "value"} \cap DOMAIN body # {}
    <3>1. CASE DOMAIN body = {}
      BY <1>2, <3>1, EmptyIsNotSingle DEF Dsl!SearchText
    <3> QED BY <2>1, <3>1
  <2>3. two = Dsl!Clause("field", "value", <<>>)
    BY <1>2, <2>2 DEF Dsl!SearchText, Dsl!MsearchText
  <2> QED BY <2>3, ExplicitIsRead
<1> QED BY <1>1, <1>2 DEF Agreed, SameClause

\* A multi_match, but for the key of its type.
LEMMA MultiMatchAgrees ==
    ASSUME NEW body \in Dsl!Bodies("multi_match")
    PROVE  Agreed("multi_match", body, Dsl!SearchMultiMatch(body), Dsl!MsearchMultiMatch(body))
<1> DEFINE one == Dsl!SearchMultiMatch(body)
           two == Dsl!MsearchMultiMatch(body)
<1>1. ASSUME one # Rejected, two # Rejected PROVE SameClause(body, one, two)
  <2> DEFINE type  == [type |-> IF Dsl!Has(body, "type", Dsl!Strings) THEN "type" ELSE "default"]
             other == [type |-> IF "multi_match_type" \in DOMAIN body THEN "multi_match_type" ELSE "default"]
  <2>1. one = Dsl!Clause("fields", "query", type) /\ two = Dsl!Clause("fields", "query", other)
    BY <1>1 DEF Dsl!SearchMultiMatch, Dsl!MsearchMultiMatch
  <2>2. RouteSpecific \cap DOMAIN body = {} => type = other
    BY DEF RouteSpecific, Dsl!Has
  <2> HIDE DEF type, other
  <2> QED BY <2>1, <2>2, ClauseParts DEF SameClause
<1>2. DOMAIN body \subseteq {"field", "value", "values"} => one = Rejected
  <2>1. DOMAIN body \subseteq {"field", "value", "values"} => DOMAIN body = {}
    BY ExplicitKeys DEF Dsl!ClauseKinds
  <2> QED BY <2>1 DEF Dsl!SearchMultiMatch, Dsl!Has
<1> QED BY <1>1, <1>2 DEF Agreed

\* A bool query.
LEMMA BoolAgrees ==
    ASSUME NEW body \in Dsl!Bodies("bool")
    PROVE  Agreed("bool", body, Dsl!SearchBool(body), Dsl!MsearchBool(body))
<1> DEFINE one  == Dsl!SearchBool(body)
           two  == Dsl!MsearchBool(body)
           few  == Dsl!Occurs \cup {j \in {"minimum_should_match"} : Dsl!Has(body, j, {"number"})}
           many == Dsl!Occurs \cup {"minimum_should_match"}
<1>1. ASSUME one # Rejected, two # Rejected PROVE SameClause(body, one, two)
  <2>1. one = Dsl!Clause("bool", "clauses", Dsl!Options(body, few))
    BY <1>1 DEF Dsl!SearchBool
  <2>2. /\ two = Dsl!Clause("bool", "clauses", Dsl!Options(body, many))
        /\ Dsl!Optional(body, "minimum_should_match", {"number"})
    BY <1>1 DEF Dsl!MsearchBool
  <2>3. {j \in few : Dsl!Present(body, j)} = {j \in many : Dsl!Present(body, j)}
    BY <2>2 DEF Dsl!Present, Dsl!Optional, Dsl!Has
  <2>4. Dsl!Options(body, few) = Dsl!Options(body, many)
    BY <2>3 DEF Dsl!Options
  <2> QED BY <2>1, <2>2, <2>4, ClauseParts DEF SameClause
<1>2. ASSUME DOMAIN body \subseteq {"field", "value", "values"} PROVE two # Rejected
  <2>1. DOMAIN body = {}
    BY <1>2, ExplicitKeys DEF Dsl!ClauseKinds
  <2>2. Dsl!Options(body, many) = <<>>
    BY <2>1, NoOptions
  <2>3. two = Dsl!Clause("bool", "clauses", <<>>)
    BY <2>1, <2>2 DEF Dsl!MsearchBool, Dsl!Optional
  <2> QED BY <2>3, ExplicitIsRead
<1> QED BY <1>1, <1>2 DEF Agreed

\* A sort that has a field and an order.
LEMMA SortAgrees ==
    ASSUME NEW body
    PROVE  Agreed("sort", body, Dsl!SearchSort(body), Dsl!MsearchSort(body))
<1>1. Dsl!MsearchSort(body) # Rejected => Dsl!SearchSort(body) = Dsl!MsearchSort(body)
  BY DEF Dsl!SearchSort
<1> QED BY <1>1 DEF Agreed, SameClause

\* A request, but for the other name of aggs, and search_after.
LEMMA RequestAgrees ==
    ASSUME NEW body \in Dsl!Bodies("request")
    PROVE  Agreed("request", body, Dsl!SearchRequest(body), Dsl!MsearchRequest(body))
<1> DEFINE one  == Dsl!SearchRequest(body)
           two  == Dsl!MsearchRequest(body)
           aggs == IF "aggs" \in DOMAIN body THEN "aggs" ELSE "aggregations"
           few  == {"query", "from", aggs}
           many == {"query", "from", "aggs", "search_after"}
<1>1. ASSUME one # Rejected, two # Rejected PROVE SameClause(body, one, two)
  <2>1. one = Dsl!Clause("request", "request", Dsl!Options(body, few))
    BY <1>1 DEF Dsl!SearchRequest
  <2>2. two = Dsl!Clause("request", "request", Dsl!Options(body, many))
    BY <1>1 DEF Dsl!MsearchRequest
  <2>3. RouteSpecific \cap DOMAIN body = {} =>
            {j \in few : Dsl!Present(body, j)} = {j \in many : Dsl!Present(body, j)}
    BY DEF RouteSpecific, Dsl!Present
  <2>4. RouteSpecific \cap DOMAIN body = {} => Dsl!Options(body, few) = Dsl!Options(body, many)
    BY <2>3 DEF Dsl!Options
  <2> QED BY <2>1, <2>2, <2>4, ClauseParts DEF SameClause
<1>2. ASSUME DOMAIN body \subseteq {"field", "value", "values"} PROVE two # Rejected
  <2>1. DOMAIN body = {}
    BY <1>2, ExplicitKeys DEF Dsl!ClauseKinds
  <2>2. Dsl!Options(body, many) = <<>>
    BY <2>1, NoOptions
  <2>3. two = Dsl!Clause("request", "request", <<>>)
    BY <2>1, <2>2 DEF Dsl!MsearchRequest, Dsl!Optional
  <2> QED BY <2>3, ExplicitIsRead
<1> QED BY <1>1, <1>2 DEF Agreed

\* Every clause, sort and request means the same to both routes.
LEMMA ClausesAgree ==
    ASSUME NEW kind \in Dsl!ClauseKinds, NEW body \in Dsl!Bodies(kind)
    PROVE  Agreed(kind, body, Dsl!Search(kind, body), Dsl!Msearch(kind, body))
<1>1. CASE kind = "term"
  BY <1>1, TermAgrees DEF Dsl!Search, Dsl!Msearch
<1>2. CASE kind = "terms"
  BY <1>2, TermsAgree DEF Dsl!Search, Dsl!Msearch
<1>3. CASE kind = "range"
  BY <1>3, RangeAgrees DEF Dsl!Search, Dsl!Msearch
<1>4. CASE kind = "text"
  BY <1>4, TextAgrees DEF Dsl!Search, Dsl!Msearch
<1>5. CASE kind = "multi_match"
  BY <1>5, MultiMatchAgrees DEF Dsl!Search, Dsl!Msearch
<1>6. CASE kind = "bool"
  BY <1>6, BoolAgrees DEF Dsl!Search, Dsl!Msearch
<1>7. CASE kind = "sort"
  BY <1>7, SortAgrees DEF Dsl!Search, Dsl!Msearch
<1>8. CASE kind = "request"
  BY <1>8, RequestAgrees DEF Dsl!Search, Dsl!Msearch
<1> QED BY <1>1, <1>2, <1>3, <1>4, <1>5, <1>6, <1>7, <1>8 DEF Dsl!ClauseKinds

-----------------------------------------------------------------------------
(***************************************************************************)
(* Aggregations: columns agree with documents.                             *)
(***************************************************************************)

\* A set of naturals that has zero, and with each number the next, has them all.
LEMMA AllNaturals ==
    ASSUME NEW S, 0 \in S, \A n \in S \cap Nat : n + 1 \in S
    PROVE  Nat \subseteq S
<1> SUFFICES ASSUME Nat \ S # {} PROVE FALSE
  OBVIOUS
<1>1. PICK m \in Nat \ S : \A n \in Nat \ S : m <= n
  <2> DEFINE T == Nat \ S
  <2>1. T \in SUBSET Nat /\ T # {}
    OBVIOUS
  <2> HIDE DEF T
  <2>2. \E m \in T : \A n \in T : m <= n
    BY <2>1, LeastNat
  <2> QED BY <2>2 DEF T
<1>2. m # 0 /\ m - 1 \in Nat /\ m - 1 \notin Nat \ S
  BY <1>1
<1>3. (m - 1) + 1 \in S
  BY <1>2
<1> QED BY <1>1, <1>3

\* One document's text behind those of the documents before it.
Extended(column, n, before) == IF column[n] = Missing THEN before ELSE before \o column[n]

\* The pool is filled document by document.
LEMMA PoolDef ==
    ASSUME NEW column, Len(column) \in Nat
    PROVE  Agg!Pool(column) =
               [n \in 0..Len(column) |->
                   IF n = 0 THEN <<Nul>> ELSE Extended(column, n, Agg!Pool(column)[n - 1])]
<1> DEFINE Fills(f, m) == f = [n \in 0..m |-> IF n = 0 THEN <<Nul>> ELSE Extended(column, n, f[n - 1])]
           S == {m \in Nat : \E f : Fills(f, m)}
<1>1. 0 \in S
  <2>1. Fills([n \in 0..0 |-> <<Nul>>], 0)
    OBVIOUS
  <2> QED BY <2>1
<1>2. ASSUME NEW m \in S \cap Nat PROVE m + 1 \in S
  <2>1. PICK f : Fills(f, m)
    BY <1>2
  <2> DEFINE g == [n \in 0..m + 1 |-> IF n \in 0..m THEN f[n] ELSE Extended(column, n, f[n - 1])]
  <2>2. ASSUME NEW n \in 0..m + 1
        PROVE  g[n] = IF n = 0 THEN <<Nul>> ELSE Extended(column, n, g[n - 1])
    <3>1. n \in 0..m => f[n] = IF n = 0 THEN <<Nul>> ELSE Extended(column, n, f[n - 1])
      BY <2>1
    <3>2. n # 0 => n - 1 \in 0..m /\ g[n - 1] = f[n - 1]
      OBVIOUS
    <3> QED BY <3>1, <3>2
  <2>3. Fills(g, m + 1)
    BY <2>2
  <2> HIDE DEF g
  <2>4. m + 1 \in Nat
    OBVIOUS
  <2> QED BY <2>3, <2>4
<1>3. Len(column) \in S
  <2> HIDE DEF S
  <2> QED BY <1>1, <1>2, AllNaturals
<1>4. PICK f : Fills(f, Len(column))
  BY <1>3
<1>5. Agg!Pool(column) = CHOOSE g : Fills(g, Len(column))
  BY DEF Agg!Pool, Extended
<1> QED BY <1>4, <1>5

\* What a pool is made of.
PoolBytes == Letters \cup {Nul}

\* The texts of the first documents lie in the pool in their order, and stay there.
Laid(pool, column, n) ==
    /\ pool[n] \in Seq(PoolBytes)
    /\ n # 0 => pool[n] = pool[n - 1] \o column[n]
    /\ \A k \in 0..n : /\ Len(pool[k]) <= Len(pool[n])
                       /\ \A j \in 1..Len(pool[k]) : pool[n][j] = pool[k][j]

\* While every document has a text, the pool grows by it.
LEMMA PoolGrows ==
    ASSUME NEW size \in Nat, NEW column \in [1..size -> Texts],
           \A i \in 1..size : column[i] # Missing
    PROVE  \A n \in 0..size : Laid(Agg!Pool(column), column, n)
<1> DEFINE p == Agg!Pool(column)
           S == {n \in Nat : n \in 0..size => \A m \in 0..n : Laid(p, column, m)}
<1>1. Len(column) = size
  OBVIOUS
<1>2. p = [n \in 0..size |-> IF n = 0 THEN <<Nul>> ELSE Extended(column, n, p[n - 1])]
  BY <1>1, PoolDef
<1> HIDE DEF p
<1>3. p[0] = <<Nul>> /\ \A n \in 1..size : p[n] = p[n - 1] \o column[n]
  BY <1>2 DEF Extended
<1>4. \A n \in 1..size : column[n] \in Seq(PoolBytes)
  BY TextsAssumption, SeqMonotonic DEF PoolBytes
<1>5. Laid(p, column, 0)
  <2>1. p[0] \in Seq(PoolBytes) /\ Len(p[0]) = 1
    BY <1>3 DEF PoolBytes
  <2>2. ASSUME NEW k \in 0..0 PROVE Len(p[k]) <= Len(p[0]) /\ \A j \in 1..Len(p[k]) : p[0][j] = p[k][j]
    <3>1. k = 0
      OBVIOUS
    <3>2. p[k] = p[0] /\ Len(p[0]) <= Len(p[0])
      BY <2>1, <3>1
    <3> QED BY <3>2
  <2> QED BY <2>1, <2>2 DEF Laid
<1>6. ASSUME NEW n \in Nat, n + 1 \in 0..size, \A m \in 0..n : Laid(p, column, m)
      PROVE  Laid(p, column, n + 1)
  <2>1. n + 1 \in 1..size /\ n \in 0..n
    BY <1>6
  <2> DEFINE c == column[n + 1]
             a == p[n]
             b == p[n + 1]
  <2>2. b = a \o c /\ a \in Seq(PoolBytes) /\ c \in Seq(PoolBytes)
    <3>1. (n + 1) - 1 = n
      OBVIOUS
    <3> QED BY <1>3, <1>4, <1>6, <2>1, <3>1 DEF Laid
  <2> HIDE DEF a, b, c
  <2>3. /\ b \in Seq(PoolBytes) /\ Len(b) = Len(a) + Len(c)
        /\ Len(a) \in Nat /\ Len(c) \in Nat
        /\ \A j \in 1..Len(a) : b[j] = a[j]
    BY <2>2, ConcatProperties, LenProperties
  <2>4. ASSUME NEW k \in 0..n + 1
        PROVE  Len(p[k]) <= Len(b) /\ \A j \in 1..Len(p[k]) : b[j] = p[k][j]
    <3>1. CASE k = n + 1
      BY <2>3, <3>1 DEF b
    <3>2. CASE k \in 0..n
      <4>1. Laid(p, column, k) /\ Laid(p, column, n)
        BY <1>6, <2>1, <3>2
      <4>2. Len(p[k]) \in Nat
        BY <4>1, LenProperties DEF Laid
      <4>3. Len(p[k]) <= Len(a) /\ \A j \in 1..Len(p[k]) : a[j] = p[k][j]
        BY <3>2, <4>1 DEF Laid, a
      <4> QED BY <2>3, <4>2, <4>3
    <3> QED BY <3>1, <3>2
  <2>5. p[(n + 1) - 1] = a
    BY DEF a
  <2>6. b = p[(n + 1) - 1] \o c
    BY <2>2, <2>5
  <2> QED BY <2>3, <2>4, <2>6 DEF Laid, b, c
<1>7. 0 \in S
  BY <1>5
<1>8. ASSUME NEW n \in S \cap Nat PROVE n + 1 \in S
  <2> SUFFICES ASSUME n + 1 \in 0..size, NEW m \in 0..n + 1 PROVE Laid(p, column, m)
    OBVIOUS
  <2>1. \A k \in 0..n : Laid(p, column, k)
    BY <1>8
  <2>2. m \in 0..n \/ m = n + 1
    OBVIOUS
  <2> QED BY <1>6, <2>1, <2>2
<1>9. ASSUME NEW n \in 0..size PROVE Laid(p, column, n)
  <2>1. n \in S
    <3> HIDE DEF S
    <3> QED BY <1>7, <1>8, AllNaturals
  <2> QED BY <2>1
<1> QED BY <1>9 DEF p

\* A part of a sequence is what lies there.
LEMMA PartOf ==
    ASSUME NEW S, NEW s \in Seq(S), NEW t \in Seq(S), NEW n \in Nat,
           n + Len(t) <= Len(s), \A j \in 1..Len(t) : s[n + j] = t[j]
    PROVE  SubSeq(s, n + 1, n + Len(t)) = t
<1> DEFINE u == SubSeq(s, n + 1, n + Len(t))
<1>1. Len(t) \in Nat /\ Len(s) \in Nat
  BY LenProperties
<1>2. /\ u \in Seq(S) /\ Len(u) = Len(t)
      /\ \A j \in 1..Len(u) : u[j] = s[n + j]
  BY <1>1
<1> HIDE DEF u
<1>3. \A j \in 1..Len(u) : u[j] = t[j]
  BY <1>2
<1>4. u = t
  BY <1>2, <1>3, SeqEqual
<1> QED BY <1>4 DEF u

\* What was encoded is decoded to what it was, as long as every document has a text.
LEMMA KeywordsRoundTrip ==
    ASSUME NEW size \in 0..MaxRows, NEW column \in [1..size -> Texts],
           \A i \in 1..size : column[i] # Missing
    PROVE  Agg!DecodeKeywords(Agg!EncodeKeywords(column)) = column
<1> DEFINE p == Agg!Pool(column)
           e == Agg!EncodeKeywords(column)
           EndOf(i) == IF i < size THEN e.offsets[i + 1] ELSE Len(e.pool)
<1>1. size \in Nat /\ Len(column) = size /\ DOMAIN column = 1..size
  BY RowsAssumption
<1>2. \A n \in 0..size : Laid(p, column, n)
  BY <1>1, PoolGrows
<1> HIDE DEF p
<1>3. /\ e.offsets = [i \in 1..size |-> Len(p[i - 1])]
      /\ e.pool = p[size]
  BY <1>1 DEF p, Agg!EncodeKeywords
<1> HIDE DEF e
<1>4. Len(e.offsets) = size
  BY <1>1, <1>3
<1>5. \A i \in 1..size : EndOf(i) = Len(p[i]) /\ e.offsets[i] = Len(p[i - 1])
  BY <1>1, <1>3
<1> HIDE DEF EndOf
<1>6. ASSUME NEW i \in 1..size
      PROVE  /\ ~ (e.offsets[i] > EndOf(i))
             /\ SubSeq(e.pool, e.offsets[i] + 1, EndOf(i)) = column[i]
  <2>1. i \in 0..size /\ i - 1 \in 0..size /\ size \in 0..size
    BY <1>1
  <2> DEFINE a == p[i - 1]
             b == p[i]
             z == p[size]
             c == column[i]
  <2>2. /\ a \in Seq(PoolBytes) /\ b \in Seq(PoolBytes) /\ z \in Seq(PoolBytes)
        /\ Len(b) <= Len(z) /\ \A j \in 1..Len(b) : z[j] = b[j]
        /\ b = a \o c
    <3>1. Laid(p, column, i) /\ Laid(p, column, i - 1) /\ Laid(p, column, size)
      BY <1>2, <2>1
    <3>2. i # 0 /\ i \in 0..size
      BY <2>1
    <3>3. a \in Seq(PoolBytes) /\ b \in Seq(PoolBytes) /\ z \in Seq(PoolBytes)
      BY <3>1 DEF Laid
    <3>4. b = a \o c
      BY <3>1, <3>2 DEF Laid
    <3>5. Len(b) <= Len(z) /\ \A j \in 1..Len(b) : z[j] = b[j]
      BY <3>1, <3>2 DEF Laid
    <3> QED BY <3>3, <3>4, <3>5
  <2>3. c \in Seq(PoolBytes)
    BY TextsAssumption, SeqMonotonic DEF PoolBytes
  <2>4. e.offsets[i] = Len(a) /\ EndOf(i) = Len(b) /\ e.pool = z
    BY <1>3, <1>5
  <2> HIDE DEF a, b, c, z
  <2>5. /\ Len(b) = Len(a) + Len(c)
        /\ Len(a) \in Nat /\ Len(c) \in Nat /\ Len(z) \in Nat
        /\ \A j \in 1..Len(c) : b[Len(a) + j] = c[j]
    BY <2>2, <2>3, ConcatProperties, LenProperties
  <2>6. \A j \in 1..Len(c) : z[Len(a) + j] = c[j]
    BY <2>2, <2>5
  <2>7. SubSeq(z, Len(a) + 1, Len(a) + Len(c)) = c
    BY <2>2, <2>3, <2>5, <2>6, PartOf
  <2> QED BY <2>4, <2>5, <2>7 DEF c
<1>7. Agg!DecodeKeywords(e) = [i \in 1..size |-> SubSeq(e.pool, e.offsets[i] + 1, EndOf(i))]
  BY <1>4, <1>6 DEF Agg!DecodeKeywords, EndOf
<1>8. [i \in 1..size |-> SubSeq(e.pool, e.offsets[i] + 1, EndOf(i))] = column
  BY <1>6
<1> QED BY <1>7, <1>8 DEF e

\* Nothing is left out of a column that nothing is missing from.
LEMMA AllHeld ==
    ASSUME NEW size, NEW values, NEW column \in [1..size -> values],
           \A i \in 1..size : column[i] # Missing
    PROVE  Agg!Held(column) = column
BY DEF Agg!Held

\* A column of texts, and one of numbers, without gaps.
LEMMA FullColumn ==
    ASSUME NEW values, NEW column \in Columns(values), \A i \in DOMAIN column : column[i] # Missing
    PROVE  \E n \in 0..MaxRows : column \in [1..n -> values]
<1>1. PICK n \in 0..MaxRows : column \in [1..n -> values \cup {Missing}]
  BY DEF Columns
<1>2. \A i \in 1..n : column[i] \in values
  BY <1>1
<1> QED BY <1>1, <1>2

LEMMA TermsColumnsAgree ==
    ASSUME NEW column \in Columns(Texts), \A i \in DOMAIN column : column[i] # Missing
    PROVE  Agg!TermsOfColumn(column) = Agg!TermsOfDocuments(column)
<1>1. PICK n \in 0..MaxRows : column \in [1..n -> Texts]
  BY FullColumn
<1>2. Agg!DecodeKeywords(Agg!EncodeKeywords(column)) = column
  BY <1>1, KeywordsRoundTrip
<1>3. column # Panic
  BY <1>1, PanicAssumption
<1>4. Agg!Held(column) = column
  BY <1>1, AllHeld
<1> QED BY <1>2, <1>3, <1>4 DEF Agg!TermsOfColumn, Agg!TermsOfDocuments

LEMMA StatsColumnsAgree ==
    ASSUME NEW column \in Columns(Numbers), \A i \in DOMAIN column : column[i] # Missing
    PROVE  Agg!StatsOfColumn(column) = Agg!StatsOfDocuments(column)
<1>1. PICK n \in 0..MaxRows : column \in [1..n -> Numbers]
  BY FullColumn
<1>2. Agg!EncodeNumbers(column) = column
  BY <1>1 DEF Agg!EncodeNumbers
<1>3. Agg!Held(column) = column
  BY <1>1, AllHeld
<1> QED BY <1>2, <1>3 DEF Agg!StatsOfColumn, Agg!StatsOfDocuments

-----------------------------------------------------------------------------
(***************************************************************************)
(* The specification of a session of searches.                             *)
(***************************************************************************)

\* A client waits for nothing, or for one of the answers there are.
RequestTypeOK ==
    request # NoRequest =>
        \/ request \in QueryRequests \/ request \in ClauseRequests
        \/ request \in MatchRequests \/ request \in LikeRequests
        \/ request \in SuggestRequests
        \/ request \in TermsRequests \/ request \in StatsRequests

SearchInv == PagingInv /\ RequestTypeOK

\* Only documents are read page by page, whatever else a query is said to match.
LEMMA BeginOnDocuments ==
    ASSUME NEW matched, Begin(matched)
    PROVE  \E m \in SUBSET Docs : Begin(m)
<1> DEFINE m == matched \cap Docs
<1>1. Begin(m)
  BY DEF Begin
<1> QED BY <1>1

\* Every step of a session is a step of its pages, or leaves them alone.
LEMMA StepOfPages == [Next]_<<request, pvars>> => [PagingNext]_pvars
<1> SUFFICES ASSUME [Next]_<<request, pvars>> PROVE [PagingNext]_pvars
  OBVIOUS
<1>1. CASE Search
  BY <1>1, BeginOnDocuments DEF Search, PagingNext
<1>2. CASE Answer
  BY <1>2 DEF Answer
<1>3. CASE Read
  BY <1>3 DEF Read, PagingNext
<1>4. CASE UNCHANGED <<request, pvars>>
  BY <1>4
<1> QED BY <1>1, <1>2, <1>3, <1>4 DEF Next

\* A request is answered, and none comes after it.
LEMMA RequestStep == [Next]_<<request, pvars>> => request' \in {request, NoRequest}
BY DEF Next, Search, Answer, Read

LEMMA InitSearchInv == Init => SearchInv
BY InitPagingInv DEF Init, SearchInv, RequestTypeOK

LEMMA NextSearchInv == SearchInv /\ [Next]_<<request, pvars>> => SearchInv'
<1> SUFFICES ASSUME SearchInv, [Next]_<<request, pvars>> PROVE SearchInv'
  OBVIOUS
<1>1. PagingInv'
  BY StepOfPages, NextPagingInv DEF SearchInv
<1>2. request' \in {request, NoRequest}
  BY RequestStep
<1>3. RequestTypeOK'
  BY <1>2 DEF SearchInv, RequestTypeOK
<1> QED BY <1>1, <1>3 DEF SearchInv

\* What a request is about tells what it is.
LEMMA RequestKinds ==
    ASSUME RequestTypeOK, request # NoRequest
    PROVE  /\ request.about = "clause" => request \in ClauseRequests
           /\ request.about = "terms" => request \in TermsRequests
           /\ request.about = "stats" => request \in StatsRequests
           /\ request.about = "suggest" => request \in SuggestRequests
           /\ request.about = "query" => request \in QueryRequests
<1>1. /\ request \in QueryRequests => request.about = "query"
      /\ request \in ClauseRequests => request.about = "clause"
      /\ request \in MatchRequests => request.about = "match"
      /\ request \in LikeRequests => request.about = "like"
      /\ request \in SuggestRequests => request.about = "suggest"
      /\ request \in TermsRequests => request.about = "terms"
      /\ request \in StatsRequests => request.about = "stats"
  BY DEF QueryRequests, ClauseRequests, MatchRequests, LikeRequests, SuggestRequests,
         TermsRequests, StatsRequests
<1> QED BY <1>1 DEF RequestTypeOK

\* A session keeps its invariant, whatever is asked for and in whatever order.
THEOREM SearchInvariance == Spec => []SearchInv
BY InitSearchInv, NextSearchInv, PTL DEF Spec

\* No document that stays as it is appears on two pages of a search by query string.
THEOREM SearchServesOnce == Spec => []ServedOnce
<1>1. SearchInv => ServedOnce
  BY DEF SearchInv, PagingInv
<1> QED BY <1>1, SearchInvariance, PTL

\* When the last page of such a search has come, no document that its query matched
\* all along is missing.
THEOREM SearchServesAll == Spec => []ServedAll
<1>1. SearchInv => ServedAll
  BY DEF SearchInv, PagingInv
<1> QED BY <1>1, SearchInvariance, PTL

\* The two routes agree on every JSON clause that both accept, up to the keys that only
\* one of them reads, and on which explicit clauses they accept.
THEOREM JsonRoutesAgree == Spec => []RoutesAgree
<1>1. SearchInv => RoutesAgree
  <2> SUFFICES ASSUME SearchInv, About("clause") PROVE RoutesAgree
    BY DEF RoutesAgree
  <2>1. request \in ClauseRequests
    BY RequestKinds DEF SearchInv, About
  <2>2. request.kind \in Dsl!ClauseKinds /\ request.body \in Dsl!Bodies(request.kind)
    BY <2>1 DEF ClauseRequests
  <2>3. Agreed(request.kind, request.body, Dsl!Search(request.kind, request.body),
               Dsl!Msearch(request.kind, request.body))
    BY <2>2, ClausesAgree
  <2> QED BY <2>3 DEF RoutesAgree, Agreed, SameClause
<1> QED BY <1>1, SearchInvariance, PTL

\* An aggregation over a field that every document has is the same from the columns of
\* a flush as from the documents, for columns of any length, texts and numbers.
THEOREM AggregationsAgree == Spec => []ColumnsAgree
<1>1. SearchInv => ColumnsAgree
  <2> SUFFICES ASSUME SearchInv, About("terms") \/ About("stats"),
                      \A i \in DOMAIN request.column : request.column[i] # Missing
               PROVE  ColumnsAgree
    BY DEF ColumnsAgree
  <2>1. CASE About("terms")
    <3>1. request.column \in Columns(Texts)
      BY <2>1, RequestKinds DEF SearchInv, About, TermsRequests
    <3> QED BY <2>1, <3>1, TermsColumnsAgree DEF ColumnsAgree
  <2>2. CASE About("stats")
    <3>1. request.column \in Columns(Numbers) /\ ~ About("terms")
      BY <2>2, RequestKinds DEF SearchInv, About, StatsRequests
    <3> QED BY <2>2, <3>1, StatsColumnsAgree DEF ColumnsAgree
  <2> QED BY <2>1, <2>2
<1> QED BY <1>1, SearchInvariance, PTL

-----------------------------------------------------------------------------
(***************************************************************************)
(* Sets in their order.                                                    *)
(***************************************************************************)

\* A strict and total order of the elements of a set.
Orders(R, S) ==
    /\ \A x \in S : <<x, x>> \notin R
    /\ \A x, y \in S : x = y \/ <<x, y>> \in R \/ <<y, x>> \in R
    /\ \A x, y, z \in S : <<x, y>> \in R /\ <<y, z>> \in R => <<x, z>> \in R

\* In a total order, an element comes behind as many as are before it: InOrder lists
\* every element once, and those that are before others before them.
LEMMA InOrderFacts ==
    ASSUME NEW S, IsFiniteSet(S), NEW R, Orders(R, S)
    PROVE  /\ Cardinality(S) \in Nat
           /\ InOrder(S, R) \in [1..Cardinality(S) -> S]
           /\ \A x \in S : \E k \in 1..Cardinality(S) : InOrder(S, R)[k] = x
           /\ \A i, j \in 1..Cardinality(S) :
                  i < j <=> <<InOrder(S, R)[i], InOrder(S, R)[j]>> \in R
<1> DEFINE N      == Cardinality(S)
           Few(x) == {y \in S : <<y, x>> \in R}
           pos    == [x \in S |-> Cardinality(Few(x))]
<1>1. N \in Nat
  BY FS_CardinalityType
<1>2. ASSUME NEW x \in S
      PROVE  IsFiniteSet(Few(x)) /\ pos[x] \in Nat /\ pos[x] < N /\ pos[x] = Cardinality(Few(x))
  <2>1. Few(x) \in SUBSET S /\ Few(x) # S
    BY DEF Orders
  <2> DEFINE F == Few(x)
  <2>2. IsFiniteSet(F) /\ Cardinality(F) <= N /\ Cardinality(F) # N
    <3> HIDE DEF F
    <3> QED BY <2>1, FS_Subset DEF F
  <2>3. Cardinality(F) \in Nat
    <3> HIDE DEF F
    <3> QED BY <2>2, FS_CardinalityType
  <2> QED BY <1>1, <2>2, <2>3
<1>3. ASSUME NEW x \in S, NEW y \in S, <<x, y>> \in R PROVE pos[x] < pos[y]
  <2>1. Few(x) \in SUBSET Few(y)
    BY <1>3 DEF Orders
  <2>2. x \in Few(y) /\ x \notin Few(x)
    BY <1>3 DEF Orders
  <2> DEFINE F == Few(x)
             G == Few(y)
  <2>3. IsFiniteSet(G) /\ pos[x] = Cardinality(F) /\ pos[y] = Cardinality(G) /\ pos[x] \in Nat /\ pos[y] \in Nat
    BY <1>2
  <2>4. F \in SUBSET G /\ F # G
    BY <2>1, <2>2
  <2> HIDE DEF F, G, pos
  <2>5. Cardinality(F) <= Cardinality(G) /\ Cardinality(F) # Cardinality(G)
    BY <2>3, <2>4, FS_Subset
  <2> QED BY <2>3, <2>5
<1> HIDE DEF pos
<1>4. ASSUME NEW x \in S, NEW y \in S, pos[x] = pos[y] PROVE x = y
  <2>1. pos[x] \in Nat /\ pos[y] \in Nat /\ ~(pos[x] < pos[y]) /\ ~(pos[y] < pos[x])
    <3>1. pos[x] \in Nat /\ pos[y] \in Nat
      BY <1>2
    <3> QED BY <1>4, <3>1
  <2>2. <<x, y>> \notin R
    BY <1>3, <2>1
  <2>3. <<y, x>> \notin R
    BY <1>3, <2>1
  <2> QED BY <2>2, <2>3 DEF Orders
<1>5. pos \in Injection(S, 0..N - 1)
  <2>1. pos \in [S -> 0..N - 1]
    BY <1>1, <1>2 DEF pos
  <2> QED BY <1>4, <2>1 DEF Injection, IsInjective
<1>6. IsFiniteSet(0..N - 1) /\ Cardinality(0..N - 1) = N
  BY <1>1, FS_Interval
<1>7. pos \in Surjection(S, 0..N - 1)
  <2> DEFINE T == 0..N - 1
  <2> HIDE DEF T, N
  <2> QED BY <1>5, <1>6, FS_Injection DEF T, N
<1>8. ASSUME NEW k \in 1..N PROVE InOrder(S, R)[k] \in S /\ pos[InOrder(S, R)[k]] = k - 1
  <2>1. k - 1 \in 0..N - 1
    BY <1>1
  <2>2. \E x \in S : pos[x] = k - 1
    BY <1>7, <2>1 DEF Surjection
  <2>3. \E x \in S : Cardinality(Few(x)) = k - 1
    BY <1>2, <2>2
  <2>4. InOrder(S, R)[k] = CHOOSE x \in S : Cardinality(Few(x)) = k - 1
    BY DEF InOrder
  <2> QED BY <1>2, <2>3, <2>4
<1>9. InOrder(S, R) \in [1..N -> S]
  BY <1>8 DEF InOrder
<1>10. ASSUME NEW x \in S PROVE \E k \in 1..N : InOrder(S, R)[k] = x
  <2>1. pos[x] + 1 \in 1..N /\ (pos[x] + 1) - 1 = pos[x]
    <3>1. pos[x] \in Nat /\ pos[x] < N
      BY <1>2
    <3> HIDE DEF N
    <3> QED BY <1>1, <3>1
  <2>2. InOrder(S, R)[pos[x] + 1] = x
    BY <1>4, <1>8, <2>1
  <2> QED BY <2>1, <2>2
<1>11. ASSUME NEW i \in 1..N, NEW j \in 1..N
       PROVE  i < j <=> <<InOrder(S, R)[i], InOrder(S, R)[j]>> \in R
  <2> DEFINE x == InOrder(S, R)[i]
             y == InOrder(S, R)[j]
  <2>1. x \in S /\ y \in S /\ pos[x] = i - 1 /\ pos[y] = j - 1
    BY <1>8
  <2> HIDE DEF x, y
  <2>2. <<x, y>> \in R => i < j
    BY <1>1, <1>3, <2>1
  <2>3. <<y, x>> \in R => j < i
    BY <1>1, <1>3, <2>1
  <2>4. x = y => i = j
    BY <1>1, <2>1
  <2>5. x = y \/ <<x, y>> \in R \/ <<y, x>> \in R
    BY <2>1 DEF Orders
  <2> QED BY <1>1, <2>2, <2>3, <2>4, <2>5 DEF x, y
<1> QED BY <1>1, <1>9, <1>10, <1>11

-----------------------------------------------------------------------------
(***************************************************************************)
(* The order of words.                                                     *)
(***************************************************************************)

\* The byte at a place of a word; past its end there is none.
ByteAt(v, k) == IF k \in DOMAIN v THEN ByteOf(v[k]) ELSE 0

\* Every letter has a byte, and a byte stands for one letter.
LEMMA ByteOfFacts ==
    ASSUME NEW l \in Letters
    PROVE  ByteOf(l) \in Nat /\ ByteOf(l) > 0 /\ Alphabet[ByteOf(l)] = l
<1>1. \E i \in DOMAIN Alphabet : Alphabet[i] = l
  BY DEF Letters
<1>2. ByteOf(l) \in DOMAIN Alphabet /\ Alphabet[ByteOf(l)] = l
  BY <1>1 DEF ByteOf
<1>3. DOMAIN Alphabet = 1..Len(Alphabet) /\ Len(Alphabet) \in Nat
  BY AlphabetAssumption
<1> QED BY <1>2, <1>3

\* Words are told apart by their bytes.
LEMMA ByteAtFacts ==
    ASSUME NEW v \in Seq(Letters), NEW w \in Seq(Letters), NEW k \in Nat, k > 0
    PROVE  /\ ByteAt(v, k) \in Nat
           /\ ByteAt(v, k) > 0 <=> k <= Len(v)
           /\ k <= Len(v) /\ ByteAt(v, k) = ByteAt(w, k) => k <= Len(w) /\ v[k] = w[k]
<1>1. DOMAIN v = 1..Len(v) /\ Len(v) \in Nat /\ DOMAIN w = 1..Len(w) /\ Len(w) \in Nat
  OBVIOUS
<1>2. k <= Len(v) => v[k] \in Letters /\ ByteAt(v, k) = ByteOf(v[k])
  BY <1>1 DEF ByteAt
<1>3. k <= Len(w) => w[k] \in Letters /\ ByteAt(w, k) = ByteOf(w[k])
  BY <1>1 DEF ByteAt
<1>4. k > Len(v) => ByteAt(v, k) = 0
  BY <1>1 DEF ByteAt
<1>5. k > Len(w) => ByteAt(w, k) = 0
  BY <1>1 DEF ByteAt
<1>6. k <= Len(v) => ByteOf(v[k]) \in Nat /\ ByteOf(v[k]) > 0 /\ Alphabet[ByteOf(v[k])] = v[k]
  BY <1>2, ByteOfFacts
<1>7. k <= Len(w) => ByteOf(w[k]) \in Nat /\ ByteOf(w[k]) > 0 /\ Alphabet[ByteOf(w[k])] = w[k]
  BY <1>3, ByteOfFacts
<1>8. k <= Len(v) \/ k > Len(v)
  BY <1>1
<1>9. k <= Len(w) \/ k > Len(w)
  BY <1>1
<1>10. ByteAt(v, k) \in Nat /\ (ByteAt(v, k) > 0 <=> k <= Len(v))
  BY <1>1, <1>2, <1>4, <1>6, <1>8
<1>11. ASSUME k <= Len(v), ByteAt(v, k) = ByteAt(w, k) PROVE k <= Len(w) /\ v[k] = w[k]
  BY <1>2, <1>3, <1>5, <1>6, <1>7, <1>9, <1>11
<1> QED BY <1>10, <1>11

\* Two words have the same bytes up to a place.
SameUpTo(v, w, n) == \A i \in 1..n : ByteAt(v, i) = ByteAt(w, i)

\* The beginnings of two words that are equal have equal letters.
LEMMA SameBeginning ==
    ASSUME NEW v \in Seq(Letters), NEW w \in Seq(Letters), NEW n \in Nat, n <= Len(v)
    PROVE  SameUpTo(v, w, n) <=> n <= Len(w) /\ SubSeq(v, 1, n) = SubSeq(w, 1, n)
<1>1. Len(v) \in Nat /\ Len(w) \in Nat
  OBVIOUS
<1>2. ASSUME SameUpTo(v, w, n) PROVE n <= Len(w) /\ SubSeq(v, 1, n) = SubSeq(w, 1, n)
  <2>1. ASSUME NEW i \in 1..n PROVE i <= Len(w) /\ v[i] = w[i]
    <3>1. i \in Nat /\ i > 0 /\ i <= Len(v) /\ ByteAt(v, i) = ByteAt(w, i)
      BY <1>1, <1>2 DEF SameUpTo
    <3> QED BY <3>1, ByteAtFacts
  <2>2. n <= Len(w)
    <3>1. CASE n = 0
      BY <1>1, <3>1
    <3>2. CASE n # 0
      BY <2>1, <3>2
    <3> QED BY <3>1, <3>2
  <2>3. SubSeq(v, 1, n) = [i \in 1..n |-> v[i]] /\ SubSeq(w, 1, n) = [i \in 1..n |-> w[i]]
    BY <1>1, <2>2 
  <2> QED BY <2>1, <2>2, <2>3
<1>3. ASSUME n <= Len(w), SubSeq(v, 1, n) = SubSeq(w, 1, n) PROVE SameUpTo(v, w, n)
  <2>1. ASSUME NEW i \in 1..n PROVE ByteAt(v, i) = ByteAt(w, i)
    <3>1. SubSeq(v, 1, n)[i] = v[i] /\ SubSeq(w, 1, n)[i] = w[i]
      BY <1>1, <1>3
    <3>2. i \in DOMAIN v /\ i \in DOMAIN w
      BY <1>1, <1>3
    <3> QED BY <1>3, <3>1, <3>2 DEF ByteAt
  <2> QED BY <2>1 DEF SameUpTo
<1> QED BY <1>2, <1>3

\* A word begins with its prefix.
LEMMA PrefixIs ==
    ASSUME NEW v \in Seq(Letters), NEW w \in Seq(Letters)
    PROVE  IsPrefix(v, w) <=> SameUpTo(v, w, Len(v))
<1>1. Len(v) \in Nat /\ Len(v) <= Len(v)
  OBVIOUS
<1> QED BY <1>1, SameBeginning DEF IsPrefix

\* Equal in all their places, two words are the same.
LEMMA SameWords ==
    ASSUME NEW v \in Seq(Letters), NEW w \in Seq(Letters), v # w
    PROVE  \E k \in Nat \ {0} : ByteAt(v, k) # ByteAt(w, k) /\ SameUpTo(v, w, k - 1)
<1>1. Len(v) \in Nat /\ Len(w) \in Nat
  OBVIOUS
<1> DEFINE D == {k \in Nat \ {0} : ByteAt(v, k) # ByteAt(w, k)}
<1>2. D # {}
  <2> SUFFICES ASSUME D = {} PROVE FALSE
    OBVIOUS
  <2>1. \A k \in Nat \ {0} : ByteAt(v, k) = ByteAt(w, k)
    OBVIOUS
  <2>2. Len(v) <= Len(w)
    <3>1. CASE Len(v) = 0
      BY <1>1, <3>1
    <3>2. CASE Len(v) # 0
      <4>1. Len(v) \in Nat \ {0} /\ Len(v) <= Len(v)
        BY <1>1, <3>2
      <4> QED BY <2>1, <4>1, ByteAtFacts
    <3> QED BY <3>1, <3>2
  <2>3. Len(w) <= Len(v)
    <3>1. CASE Len(w) = 0
      BY <1>1, <3>1
    <3>2. CASE Len(w) # 0
      <4>1. Len(w) \in Nat \ {0} /\ Len(w) <= Len(w)
        BY <1>1, <3>2
      <4> QED BY <2>1, <4>1, ByteAtFacts
    <3> QED BY <3>1, <3>2
  <2>4. Len(v) = Len(w)
    BY <1>1, <2>2, <2>3
  <2>5. ASSUME NEW i \in 1..Len(v) PROVE v[i] = w[i]
    <3>1. i \in Nat \ {0} /\ i <= Len(v)
      BY <1>1
    <3> QED BY <2>1, <3>1, ByteAtFacts
  <2>6. v = w
    BY <2>4, <2>5
  <2> QED BY <2>6
<1>3. D \in SUBSET Nat
  OBVIOUS
<1>4. PICK k \in D : \A i \in D : k <= i
  <2> HIDE DEF D
  <2> QED BY <1>2, <1>3, LeastNat
<1>5. ASSUME NEW i \in 1..k - 1 PROVE ByteAt(v, i) = ByteAt(w, i)
  <2>1. i \in Nat \ {0} /\ ~ (k <= i)
    BY <1>4
  <2> QED BY <1>4, <2>1
<1> QED BY <1>4, <1>5 DEF SameUpTo

\* A word is before another when it is less in the first place where they differ.
LEMMA TextBeforeIs ==
    ASSUME NEW v \in Seq(Letters), NEW w \in Seq(Letters)
    PROVE  TextBefore(v, w) <=>
               \E k \in Nat \ {0} : ByteAt(v, k) < ByteAt(w, k) /\ SameUpTo(v, w, k - 1)
<1>1. Len(v) \in Nat /\ Len(w) \in Nat /\ DOMAIN v = 1..Len(v) /\ DOMAIN w = 1..Len(w)
  OBVIOUS
<1>2. ASSUME v # w, IsPrefix(v, w)
      PROVE  \E k \in Nat \ {0} : ByteAt(v, k) < ByteAt(w, k) /\ SameUpTo(v, w, k - 1)
  <2>1. PICK k \in Nat \ {0} : ByteAt(v, k) # ByteAt(w, k) /\ SameUpTo(v, w, k - 1)
    BY <1>2, SameWords
  <2>2. SameUpTo(v, w, Len(v))
    BY <1>2, PrefixIs
  <2>3. ~ (k <= Len(v))
    BY <1>1, <2>1, <2>2 DEF SameUpTo
  <2>4. ByteAt(v, k) = 0
    BY <1>1, <2>3 DEF ByteAt
  <2>5. ByteAt(w, k) \in Nat
    BY ByteAtFacts
  <2> QED BY <2>1, <2>4, <2>5
<1>3. ASSUME NEW k \in DOMAIN v \cap DOMAIN w, ByteOf(v[k]) < ByteOf(w[k]),
             SubSeq(v, 1, k - 1) = SubSeq(w, 1, k - 1)
      PROVE  k \in Nat \ {0} /\ ByteAt(v, k) < ByteAt(w, k) /\ SameUpTo(v, w, k - 1)
  <2>1. k \in Nat \ {0} /\ k - 1 \in Nat /\ k - 1 <= Len(v) /\ k - 1 <= Len(w)
    BY <1>1
  <2>2. SameUpTo(v, w, k - 1)
    BY <1>3, <2>1, SameBeginning
  <2> QED BY <1>3, <2>1, <2>2 DEF ByteAt
<1>4. ASSUME NEW k \in Nat \ {0}, ByteAt(v, k) < ByteAt(w, k), SameUpTo(v, w, k - 1)
      PROVE  TextBefore(v, w)
  <2>1. k <= Len(w) /\ ByteAt(v, k) \in Nat /\ (ByteAt(v, k) > 0 <=> k <= Len(v))
    <3>1. ByteAt(v, k) \in Nat /\ (ByteAt(v, k) > 0 <=> k <= Len(v))
      BY ByteAtFacts
    <3>2. ByteAt(w, k) \in Nat /\ (ByteAt(w, k) > 0 <=> k <= Len(w))
      BY ByteAtFacts
    <3> QED BY <1>4, <3>1, <3>2
  <2>2. CASE k <= Len(v)
    <3>1. k - 1 \in Nat /\ k - 1 <= Len(v) /\ k \in DOMAIN v /\ k \in DOMAIN w
      BY <1>1, <2>1, <2>2
    <3>2. SubSeq(v, 1, k - 1) = SubSeq(w, 1, k - 1)
      BY <1>4, <3>1, SameBeginning
    <3>3. ByteOf(v[k]) < ByteOf(w[k])
      BY <1>4, <3>1 DEF ByteAt
    <3> QED BY <3>1, <3>2, <3>3 DEF TextBefore
  <2>3. CASE ~ (k <= Len(v))
    <3>1. SameUpTo(v, w, Len(v))
      BY <1>1, <1>4, <2>3 DEF SameUpTo
    <3>2. IsPrefix(v, w)
      BY <3>1, PrefixIs
    <3>3. v # w
      BY <2>1, <2>3
    <3> QED BY <3>2, <3>3 DEF TextBefore
  <2> QED BY <2>2, <2>3
<1> QED BY <1>2, <1>3, <1>4 DEF TextBefore

\* The order of words is strict and total.
LEMMA TextOrder ==
    ASSUME NEW S \in SUBSET Seq(Letters)
    PROVE  Orders({p \in S \X S : TextBefore(p[1], p[2])}, S)
<1>1. ASSUME NEW v \in S PROVE ~ TextBefore(v, v)
  <2> SUFFICES ASSUME TextBefore(v, v) PROVE FALSE
    OBVIOUS
  <2>1. PICK k \in Nat \ {0} : ByteAt(v, k) < ByteAt(v, k)
    BY TextBeforeIs
  <2>2. ByteAt(v, k) \in Nat
    BY ByteAtFacts
  <2> QED BY <2>1, <2>2
<1>2. ASSUME NEW v \in S, NEW w \in S PROVE v = w \/ TextBefore(v, w) \/ TextBefore(w, v)
  <2> SUFFICES ASSUME v # w PROVE TextBefore(v, w) \/ TextBefore(w, v)
    OBVIOUS
  <2>1. PICK k \in Nat \ {0} : ByteAt(v, k) # ByteAt(w, k) /\ SameUpTo(v, w, k - 1)
    BY SameWords
  <2>2. ByteAt(v, k) \in Nat /\ ByteAt(w, k) \in Nat
    BY ByteAtFacts
  <2>3. ByteAt(v, k) < ByteAt(w, k) \/ ByteAt(w, k) < ByteAt(v, k)
    BY <2>1, <2>2
  <2>4. SameUpTo(w, v, k - 1)
    BY <2>1 DEF SameUpTo
  <2> QED BY <2>1, <2>3, <2>4, TextBeforeIs
<1>3. ASSUME NEW u \in S, NEW v \in S, NEW w \in S, TextBefore(u, v), TextBefore(v, w)
      PROVE  TextBefore(u, w)
  <2>1. PICK i \in Nat \ {0} : ByteAt(u, i) < ByteAt(v, i) /\ SameUpTo(u, v, i - 1)
    BY <1>3, TextBeforeIs
  <2>2. PICK j \in Nat \ {0} : ByteAt(v, j) < ByteAt(w, j) /\ SameUpTo(v, w, j - 1)
    BY <1>3, TextBeforeIs
  <2>3. CASE i <= j
    <3>1. SameUpTo(u, w, i - 1)
      BY <2>1, <2>2, <2>3 DEF SameUpTo
    <3>2. ByteAt(v, i) <= ByteAt(w, i)
      <4>1. ByteAt(v, i) \in Nat /\ ByteAt(w, i) \in Nat
        BY ByteAtFacts
      <4>2. i < j => ByteAt(v, i) = ByteAt(w, i)
        BY <2>2 DEF SameUpTo
      <4>3. i < j \/ i = j
        BY <2>3
      <4> QED BY <2>2, <4>1, <4>2, <4>3
    <3>3. ByteAt(u, i) < ByteAt(w, i)
      <4>1. ByteAt(u, i) \in Nat /\ ByteAt(v, i) \in Nat /\ ByteAt(w, i) \in Nat
        BY ByteAtFacts
      <4> QED BY <2>1, <3>2, <4>1
    <3> QED BY <3>1, <3>3, TextBeforeIs
  <2>4. CASE j < i
    <3>1. SameUpTo(u, w, j - 1) /\ ByteAt(u, j) = ByteAt(v, j)
      BY <2>1, <2>2, <2>4 DEF SameUpTo
    <3> QED BY <2>2, <3>1, TextBeforeIs
  <2> QED BY <2>3, <2>4
<1> QED BY <1>1, <1>2, <1>3 DEF Orders

\* What goes on from a prefix is not before it, and lies together.
LEMMA PrefixOrder ==
    ASSUME NEW p \in Seq(Letters), NEW v \in Seq(Letters), NEW w \in Seq(Letters), IsPrefix(p, w)
    PROVE  /\ ~ TextBefore(w, p)
           /\ ~ TextBefore(v, p) /\ TextBefore(v, w) => IsPrefix(p, v)
<1>1. SameUpTo(p, w, Len(p)) /\ Len(p) \in Nat
  BY PrefixIs
<1>2. ASSUME TextBefore(w, p) PROVE FALSE
  <2>1. PICK k \in Nat \ {0} : ByteAt(w, k) < ByteAt(p, k)
    BY <1>2, TextBeforeIs
  <2>2. ByteAt(w, k) \in Nat /\ ByteAt(p, k) \in Nat /\ (ByteAt(p, k) > 0 <=> k <= Len(p))
    BY ByteAtFacts
  <2>3. k \in 1..Len(p)
    BY <1>1, <2>1, <2>2
  <2>4. ByteAt(p, k) = ByteAt(w, k)
    BY <1>1, <2>3 DEF SameUpTo
  <2> QED BY <2>1, <2>2, <2>4
<1>3. ASSUME ~ TextBefore(v, p), TextBefore(v, w) PROVE IsPrefix(p, v)
  <2>1. PICK k \in Nat \ {0} : ByteAt(v, k) < ByteAt(w, k) /\ SameUpTo(v, w, k - 1)
    BY <1>3, TextBeforeIs
  <2>2. CASE k <= Len(p)
    <3>1. SameUpTo(v, p, k - 1) /\ ByteAt(p, k) = ByteAt(w, k)
      BY <1>1, <2>1, <2>2 DEF SameUpTo
    <3> QED BY <1>3, <2>1, <3>1, TextBeforeIs
  <2>3. CASE ~ (k <= Len(p))
    <3>1. SameUpTo(p, v, Len(p))
      BY <1>1, <2>1, <2>3 DEF SameUpTo
    <3> QED BY <3>1, PrefixIs
  <2> QED BY <2>2, <2>3
<1> QED BY <1>2, <1>3

-----------------------------------------------------------------------------
(***************************************************************************)
(* The binary search.                                                      *)
(***************************************************************************)

\* The range that is left after so many turns of the loop.
LEMMA TurnsDef ==
    ASSUME NEW list, NEW prefix, Len(list) \in Nat
    PROVE  \E turn : /\ turn[0] = [lo |-> 1, hi |-> Len(list) + 1]
                     /\ \A n \in 1..Len(list) : turn[n] = Narrowed(list, prefix, turn[n - 1])
                     /\ LowerBound(list, prefix) = turn[Len(list)].lo
<1> DEFINE start == [lo |-> 1, hi |-> Len(list) + 1]
           Turns(f, m) == f = [n \in 0..m |-> IF n = 0 THEN start ELSE Narrowed(list, prefix, f[n - 1])]
           S == {m \in Nat : \E f : Turns(f, m)}
<1> HIDE DEF start
<1>1. 0 \in S
  <2>1. Turns([n \in 0..0 |-> start], 0)
    OBVIOUS
  <2> QED BY <2>1
<1>2. ASSUME NEW m \in S \cap Nat PROVE m + 1 \in S
  <2>1. PICK f : Turns(f, m)
    BY <1>2
  <2> DEFINE g == [n \in 0..m + 1 |-> IF n \in 0..m THEN f[n] ELSE Narrowed(list, prefix, f[n - 1])]
  <2>2. ASSUME NEW n \in 0..m + 1
        PROVE  g[n] = IF n = 0 THEN start ELSE Narrowed(list, prefix, g[n - 1])
    <3>1. n \in 0..m => f[n] = IF n = 0 THEN start ELSE Narrowed(list, prefix, f[n - 1])
      BY <2>1
    <3>2. n # 0 => n - 1 \in 0..m /\ g[n - 1] = f[n - 1]
      OBVIOUS
    <3> QED BY <3>1, <3>2
  <2>3. Turns(g, m + 1)
    BY <2>2
  <2> HIDE DEF g
  <2>4. m + 1 \in Nat
    OBVIOUS
  <2> QED BY <2>3, <2>4
<1>3. Len(list) \in S
  <2> HIDE DEF S
  <2> QED BY <1>1, <1>2, AllNaturals
<1>4. \E f : Turns(f, Len(list))
  BY <1>3
<1> DEFINE turn == CHOOSE f : Turns(f, Len(list))
<1>5. Turns(turn, Len(list))
  BY <1>4
<1>6. LowerBound(list, prefix) = turn[Len(list)].lo
  BY DEF LowerBound, start
<1> HIDE DEF turn
<1>7. turn[0] = start /\ \A n \in 1..Len(list) : turn[n] = Narrowed(list, prefix, turn[n - 1])
  BY <1>5
<1> QED BY <1>6, <1>7 DEF start

\* What is before something that is before a word is before it.
LEMMA TextBeforeTransitive ==
    ASSUME NEW u \in Seq(Letters), NEW v \in Seq(Letters), NEW w \in Seq(Letters)
    PROVE  /\ TextBefore(u, v) /\ TextBefore(v, w) => TextBefore(u, w)
           /\ ~ TextBefore(u, u)
           /\ u = v \/ TextBefore(u, v) \/ TextBefore(v, u)
<1> DEFINE R == {p \in Seq(Letters) \X Seq(Letters) : TextBefore(p[1], p[2])}
<1>1. Orders(R, Seq(Letters))
  BY TextOrder
<1>2. \A x, y \in Seq(Letters) : <<x, y>> \in R <=> TextBefore(x, y)
  OBVIOUS
<1> HIDE DEF R
<1> QED BY <1>1, <1>2 DEF Orders

\* A list of suggestions: its words in order.
Ordered(list, N) ==
    /\ Len(list) = N /\ DOMAIN list = 1..N
    /\ \A k \in 1..N : list[k].term \in Seq(Letters)
    /\ \A i, j \in 1..N : i < j <=> TextBefore(list[i].term, list[j].term)

\* Before the range all words are before the prefix, and behind it none.
Enclosed(list, N, prefix, r) ==
    /\ r.lo \in 1..N + 1 /\ r.hi \in 1..N + 1 /\ r.lo <= r.hi
    /\ \A k \in 1..N : k < r.lo => TextBefore(list[k].term, prefix)
    /\ \A k \in 1..N : k >= r.hi => ~ TextBefore(list[k].term, prefix)

\* A turn of the loop keeps that, and makes the range smaller while it is not empty.
LEMMA NarrowedEncloses ==
    ASSUME NEW N \in Nat, NEW list, Ordered(list, N), NEW prefix \in Seq(Letters),
           NEW r \in [lo : Nat, hi : Nat], Enclosed(list, N, prefix, r),
           NEW s, s = Narrowed(list, prefix, r)
    PROVE  /\ s \in [lo : Nat, hi : Nat] /\ Enclosed(list, N, prefix, s)
           /\ s.hi - s.lo < r.hi - r.lo \/ s.hi = s.lo
<1> DEFINE mid == (r.lo + r.hi) \div 2
<1>1. /\ r.lo \in 1..N + 1 /\ r.hi \in 1..N + 1 /\ r.lo <= r.hi
      /\ \A k \in 1..N : k < r.lo => TextBefore(list[k].term, prefix)
      /\ \A k \in 1..N : k >= r.hi => ~ TextBefore(list[k].term, prefix)
  BY DEF Enclosed
<1>2. CASE r.lo >= r.hi
  <2>1. s = r
    BY <1>2 DEF Narrowed
  <2> QED BY <1>1, <1>2, <2>1
<1>3. CASE r.lo < r.hi
  <2>1. mid \in Nat /\ r.lo <= mid /\ mid < r.hi
    BY <1>1, <1>3
  <2>2. ~ (r.lo >= r.hi) /\ mid \in 1..N
    BY <1>1, <1>3, <2>1
  <2> HIDE DEF mid
  <2>3. CASE TextBefore(list[mid].term, prefix)
    <3>1. s = [r EXCEPT !.lo = mid + 1]
      BY <2>2, <2>3 DEF Narrowed, mid
    <3>2. s \in [lo : Nat, hi : Nat] /\ s.lo = mid + 1 /\ s.hi = r.hi
      BY <2>1, <3>1
    <3>3. ASSUME NEW k \in 1..N, k < mid + 1 PROVE TextBefore(list[k].term, prefix)
      <4>1. k = mid \/ k < mid
        BY <2>1, <3>3
      <4>2. CASE k < mid
        <5>1. TextBefore(list[k].term, list[mid].term)
          BY <2>2, <4>2 DEF Ordered
        <5>2. list[k].term \in Seq(Letters) /\ list[mid].term \in Seq(Letters)
          BY <2>2 DEF Ordered
        <5> QED BY <2>3, <5>1, <5>2, TextBeforeTransitive
      <4> QED BY <2>3, <4>1, <4>2
    <3>4. Enclosed(list, N, prefix, s)
      BY <1>1, <2>1, <2>2, <3>2, <3>3 DEF Enclosed
    <3> QED BY <1>1, <2>1, <3>2, <3>4
  <2>4. CASE ~ TextBefore(list[mid].term, prefix)
    <3>1. s = [r EXCEPT !.hi = mid]
      BY <2>2, <2>4 DEF Narrowed, mid
    <3>2. s \in [lo : Nat, hi : Nat] /\ s.lo = r.lo /\ s.hi = mid
      BY <2>1, <3>1
    <3>3. ASSUME NEW k \in 1..N, k >= mid PROVE ~ TextBefore(list[k].term, prefix)
      <4>1. k = mid \/ mid < k
        BY <2>1, <3>3
      <4>2. CASE mid < k
        <5>1. TextBefore(list[mid].term, list[k].term)
          BY <2>2, <4>2 DEF Ordered
        <5>2. list[k].term \in Seq(Letters) /\ list[mid].term \in Seq(Letters)
          BY <2>2 DEF Ordered
        <5> QED BY <2>4, <5>1, <5>2, TextBeforeTransitive
      <4> QED BY <2>4, <4>1, <4>2
    <3>4. Enclosed(list, N, prefix, s)
      BY <1>1, <2>1, <2>2, <3>2, <3>3 DEF Enclosed
    <3> QED BY <1>1, <2>1, <3>2, <3>4
  <2> QED BY <2>3, <2>4
<1>4. r.lo >= r.hi \/ r.lo < r.hi
  BY <1>1
<1> QED BY <1>2, <1>3, <1>4

\* The search finds the first word that is not before the prefix.
LEMMA LowerBoundFacts ==
    ASSUME NEW N \in Nat, NEW list, Ordered(list, N), NEW prefix \in Seq(Letters)
    PROVE  /\ LowerBound(list, prefix) \in 1..N + 1
           /\ \A k \in 1..N : k < LowerBound(list, prefix) <=> TextBefore(list[k].term, prefix)
<1>1. Len(list) = N
  BY DEF Ordered
<1>2. PICK turn : /\ turn[0] = [lo |-> 1, hi |-> N + 1]
                  /\ \A n \in 1..N : turn[n] = Narrowed(list, prefix, turn[n - 1])
                  /\ LowerBound(list, prefix) = turn[N].lo
  BY <1>1, TurnsDef
<1> DEFINE Good(n) == /\ turn[n] \in [lo : Nat, hi : Nat]
                      /\ Enclosed(list, N, prefix, turn[n])
                      /\ turn[n].hi - turn[n].lo <= N - n
           S == {n \in Nat : n <= N => Good(n)}
<1>3. 0 \in S
  <2>1. Enclosed(list, N, prefix, [lo |-> 1, hi |-> N + 1])
    BY DEF Enclosed
  <2>2. Good(0)
    BY <1>2, <2>1
  <2> QED BY <2>2
<1>4. ASSUME NEW n \in S \cap Nat PROVE n + 1 \in S
  <2>1. n \in Nat /\ n + 1 \in Nat /\ (n <= N => Good(n))
    OBVIOUS
  <2> SUFFICES ASSUME n + 1 <= N PROVE Good(n + 1)
    BY <2>1
  <2>2. Good(n)
    BY <2>1
  <2>3. n + 1 \in 1..N /\ (n + 1) - 1 = n
    BY <2>1
  <2>4. turn[n + 1] = Narrowed(list, prefix, turn[n])
    BY <1>2, <2>3
  <2> DEFINE r == turn[n]
             s == turn[n + 1]
  <2>5. r \in [lo : Nat, hi : Nat] /\ Enclosed(list, N, prefix, r) /\ r.hi - r.lo <= N - n
    BY <2>2
  <2>6. s = Narrowed(list, prefix, r)
    BY <2>4
  <2> HIDE DEF r, s, S, Good
  <2>7. /\ s \in [lo : Nat, hi : Nat] /\ Enclosed(list, N, prefix, s)
        /\ s.hi - s.lo < r.hi - r.lo \/ s.hi = s.lo
    BY <2>5, <2>6, NarrowedEncloses
  <2>8. s.hi - s.lo <= N - (n + 1)
    BY <2>1, <2>5, <2>7
  <2> QED BY <2>7, <2>8 DEF Good, s
<1>5. Good(N)
  <2>1. \A n \in S \cap Nat : n + 1 \in S
    BY <1>4
  <2>2. N \in S
    <3> HIDE DEF S
    <3> QED BY <1>3, <2>1, AllNaturals
  <2>3. N <= N
    OBVIOUS
  <2> HIDE DEF Good
  <2> QED BY <2>2, <2>3
<1> DEFINE b == turn[N].lo
<1>6. LowerBound(list, prefix) = b
  BY <1>2
<1>7. b \in 1..N + 1 /\ b = turn[N].hi
  BY <1>5 DEF Enclosed
<1>8. ASSUME NEW k \in 1..N PROVE k < b <=> TextBefore(list[k].term, prefix)
  BY <1>5, <1>7 DEF Enclosed
<1> QED BY <1>6, <1>7, <1>8

\* What is suggested for a prefix is what goes on from it.
LEMMA SuggestForFieldFacts ==
    ASSUME NEW N \in Nat, NEW list, Ordered(list, N), NEW prefix \in Seq(Letters)
    PROVE  SuggestForField(list, prefix) =
               {list[k] : k \in {i \in 1..N : prefix # <<>> /\ IsPrefix(prefix, list[i].term)}}
<1> DEFINE b == LowerBound(list, prefix)
<1>1. Len(list) = N
  BY DEF Ordered
<1>2. b \in 1..N + 1 /\ \A k \in 1..N : k < b <=> TextBefore(list[k].term, prefix)
  BY LowerBoundFacts
<1>3. SuggestForField(list, prefix) =
          IF prefix = <<>> THEN {}
          ELSE {list[k] : k \in {i \in b..N : \A j \in b..i : IsPrefix(prefix, list[j].term)}}
  BY <1>1 DEF SuggestForField
<1> HIDE DEF b
<1>4. ASSUME NEW i \in b..N, \A j \in b..i : IsPrefix(prefix, list[j].term)
      PROVE  i \in 1..N /\ IsPrefix(prefix, list[i].term)
  <2>1. i \in 1..N /\ i \in b..i
    BY <1>2
  <2> QED BY <1>4, <2>1
<1>5. ASSUME NEW i \in 1..N, IsPrefix(prefix, list[i].term)
      PROVE  i \in b..N /\ \A j \in b..i : IsPrefix(prefix, list[j].term)
  <2>1. list[i].term \in Seq(Letters)
    BY DEF Ordered
  <2>2. ~ TextBefore(list[i].term, prefix)
    BY <1>5, <2>1, PrefixOrder
  <2>3. i \in b..N
    BY <1>2, <2>2
  <2>4. ASSUME NEW j \in b..i PROVE IsPrefix(prefix, list[j].term)
    <3>1. j \in 1..N /\ ~ (j < b)
      BY <1>2
    <3>2. list[j].term \in Seq(Letters) /\ ~ TextBefore(list[j].term, prefix)
      BY <1>2, <3>1 DEF Ordered
    <3>3. CASE j = i
      BY <1>5, <3>3
    <3>4. CASE j # i
      <4>1. j < i
        BY <1>2, <3>4
      <4>2. TextBefore(list[j].term, list[i].term)
        BY <3>1, <4>1 DEF Ordered
      <4> QED BY <1>5, <2>1, <3>2, <4>2, PrefixOrder
    <3> QED BY <3>3, <3>4
  <2> QED BY <2>3, <2>4
<1>6. {i \in b..N : \A j \in b..i : IsPrefix(prefix, list[j].term)} =
          {i \in 1..N : IsPrefix(prefix, list[i].term)}
  BY <1>4, <1>5
<1>7. CASE prefix = <<>>
  BY <1>3, <1>7
<1>8. CASE prefix # <<>>
  BY <1>3, <1>6, <1>8
<1> QED BY <1>7, <1>8

-----------------------------------------------------------------------------
(***************************************************************************)
(* What a segment suggests.                                                *)
(***************************************************************************)

\* Finitely many elements have finitely many images.
LEMMA FiniteImage ==
    ASSUME NEW S, IsFiniteSet(S), NEW f
    PROVE  IsFiniteSet({f[x] : x \in S})
<1> DEFINE T == {f[x] : x \in S}
           g == [x \in S |-> f[x]]
<1>1. g \in Surjection(S, T)
  BY DEF Surjection
<1> HIDE DEF T, g
<1>2. IsFiniteSet(T)
  BY <1>1, FS_Surjection
<1> QED BY <1>2 DEF T

WordsIn(segment, f) == UNION {Words(doc, f) : doc \in segment}
Freq(segment, f, w) == Cardinality({doc \in segment : w \in Words(doc, f)})
Entry(segment, f, w) == [term |-> w, doc_freq |-> Freq(segment, f, w)]

\* A segment has finitely many documents, and they have finitely many words.
Listable(segment) ==
    /\ IsFiniteSet(segment)
    /\ \A doc \in segment : \A f : IsFiniteSet(Words(doc, f)) /\ Words(doc, f) \subseteq Seq(Letters)

\* A word is counted in the documents that hold it: in none exactly if it is no word of the segment.
LEMMA WordsInFinite ==
    ASSUME NEW segment, Listable(segment), NEW f
    PROVE  /\ IsFiniteSet(WordsIn(segment, f))
           /\ WordsIn(segment, f) \in SUBSET Seq(Letters)
           /\ \A w : Freq(segment, f, w) \in Nat
           /\ \A w : w \notin WordsIn(segment, f) => Freq(segment, f, w) = 0
<1> DEFINE g == [doc \in segment |-> Words(doc, f)]
           T == {g[doc] : doc \in segment}
<1>1. IsFiniteSet(segment)
  BY DEF Listable
<1>2. IsFiniteSet(T)
  <2> HIDE DEF g
  <2> QED BY <1>1, FiniteImage
<1>3. \A t \in T : IsFiniteSet(t) /\ t \in SUBSET Seq(Letters)
  BY DEF Listable
<1>4. T = {Words(doc, f) : doc \in segment}
  OBVIOUS
<1> HIDE DEF T, g
<1>5. IsFiniteSet(UNION T)
  BY <1>2, <1>3, FS_UNION
<1>6. UNION T = WordsIn(segment, f)
  BY <1>4 DEF WordsIn
<1>7. UNION T \in SUBSET Seq(Letters)
  BY <1>3
<1>8. ASSUME NEW w PROVE Freq(segment, f, w) \in Nat
  <2> DEFINE D == {doc \in segment : w \in Words(doc, f)}
  <2>1. D \in SUBSET segment
    OBVIOUS
  <2> HIDE DEF D
  <2>2. Cardinality(D) \in Nat
    BY <1>1, <2>1, FS_Subset, FS_CardinalityType
  <2> QED BY <2>2 DEF D, Freq
<1>9. ASSUME NEW w, w \notin WordsIn(segment, f) PROVE Freq(segment, f, w) = 0
  <2>1. {doc \in segment : w \in Words(doc, f)} = {}
    BY <1>9 DEF WordsIn
  <2> QED BY <2>1, FS_EmptySet DEF Freq
<1> QED BY <1>5, <1>6, <1>7, <1>8, <1>9

\* A flush lists every word of the field once, in order.
LEMMA ListedFacts ==
    ASSUME NEW segment, Listable(segment), NEW f
    PROVE  LET list == Listed(segment, f)
               N    == Cardinality(WordsIn(segment, f))
           IN /\ N \in Nat /\ Ordered(list, N)
              /\ \A k \in 1..N : /\ list[k].term \in WordsIn(segment, f)
                                 /\ list[k] = Entry(segment, f, list[k].term)
              /\ \A w \in WordsIn(segment, f) : \E k \in 1..N : list[k].term = w
<1> DEFINE words == WordsIn(segment, f)
           N     == Cardinality(words)
           R     == {p \in words \X words : TextBefore(p[1], p[2])}
           terms == InOrder(words, R)
           list  == Listed(segment, f)
<1>1. IsFiniteSet(words) /\ words \in SUBSET Seq(Letters)
  BY WordsInFinite
<1>2. list = [k \in DOMAIN terms |-> Entry(segment, f, terms[k])]
  BY DEF Listed, WordsIn, Entry, Freq
<1>3. Orders(R, words)
  BY <1>1, TextOrder
<1>4. \A x, y \in words : <<x, y>> \in R <=> TextBefore(x, y)
  OBVIOUS
<1> HIDE DEF list, R, words
<1>5. /\ N \in Nat /\ terms \in [1..N -> words]
      /\ \A x \in words : \E k \in 1..N : terms[k] = x
      /\ \A i, j \in 1..N : i < j <=> <<terms[i], terms[j]>> \in R
  BY <1>1, <1>3, InOrderFacts
<1> HIDE DEF N, terms
<1>6. DOMAIN list = 1..N /\ Len(list) = N
  BY <1>2, <1>5
<1>7. ASSUME NEW k \in 1..N
      PROVE  list[k] = Entry(segment, f, terms[k]) /\ list[k].term = terms[k] /\ terms[k] \in words
  BY <1>2, <1>5 DEF Entry
<1>8. Ordered(list, N)
  <2>1. ASSUME NEW i \in 1..N, NEW j \in 1..N PROVE i < j <=> TextBefore(list[i].term, list[j].term)
    <3>1. i < j <=> <<terms[i], terms[j]>> \in R
      BY <1>5
    <3>2. terms[i] \in words /\ terms[j] \in words /\ list[i].term = terms[i] /\ list[j].term = terms[j]
      BY <1>7
    <3> QED BY <1>4, <3>1, <3>2
  <2>2. ASSUME NEW k \in 1..N PROVE list[k].term \in Seq(Letters)
    BY <1>1, <1>7
  <2> QED BY <1>6, <2>1, <2>2 DEF Ordered
<1>9. ASSUME NEW w \in words PROVE \E k \in 1..N : list[k].term = w
  BY <1>5, <1>7
<1> QED BY <1>5, <1>7, <1>8, <1>9 DEF words, N, list

\* What is suggested of a segment are its words that go on from the prefix.
LEMMA SuggestedWords ==
    ASSUME NEW segment, Listable(segment), NEW f, NEW prefix \in Seq(Letters)
    PROVE  SuggestForField(Listed(segment, f), prefix) =
               {Entry(segment, f, w) : w \in {v \in WordsIn(segment, f) :
                                                  prefix # <<>> /\ IsPrefix(prefix, v)}}
<1> DEFINE list == Listed(segment, f)
           N    == Cardinality(WordsIn(segment, f))
<1>1. /\ N \in Nat /\ Ordered(list, N)
      /\ \A k \in 1..N : /\ list[k].term \in WordsIn(segment, f)
                         /\ list[k] = Entry(segment, f, list[k].term)
      /\ \A w \in WordsIn(segment, f) : \E k \in 1..N : list[k].term = w
  BY ListedFacts
<1> DEFINE Offered(v) == prefix # <<>> /\ IsPrefix(prefix, v)
<1> HIDE DEF list, N
<1>2. SuggestForField(list, prefix) = {list[k] : k \in {i \in 1..N : Offered(list[i].term)}}
  BY <1>1, SuggestForFieldFacts
<1> HIDE DEF Offered
<1>3. ASSUME NEW k \in 1..N, Offered(list[k].term)
      PROVE  \E w \in {v \in WordsIn(segment, f) : Offered(v)} : list[k] = Entry(segment, f, w)
  BY <1>1, <1>3
<1>4. ASSUME NEW w \in WordsIn(segment, f), Offered(w)
      PROVE  \E k \in 1..N : Offered(list[k].term) /\ list[k] = Entry(segment, f, w)
  BY <1>1, <1>4
<1>5. {list[k] : k \in {i \in 1..N : Offered(list[i].term)}} =
          {Entry(segment, f, w) : w \in {v \in WordsIn(segment, f) : Offered(v)}}
  BY <1>3, <1>4
<1> QED BY <1>2, <1>5 DEF list, Offered

-----------------------------------------------------------------------------
\* The offers of all segments.

Offer(segments, weights, f, k, w) ==
    [field |-> f, text |-> w, doc_freq |-> Freq(segments[k], f, w), segment |-> k,
     score |-> <<Freq(segments[k], f, w) * weights[f], Max({1, Cardinality(segments[k])})>>]

\* A word of a field is offered by each segment that has it.
LEMMA OffersAre ==
    ASSUME NEW segments, \A k \in DOMAIN segments : Listable(segments[k]),
           NEW weights, NEW prefix \in Seq(Letters), NEW s
    PROVE  s \in Offers(segments, weights, prefix) <=>
               \E f \in DOMAIN weights, k \in DOMAIN segments : \E w \in WordsIn(segments[k], f) :
                   /\ weights[f] # 0 /\ prefix # <<>> /\ IsPrefix(prefix, w)
                   /\ s = Offer(segments, weights, f, k, w)
<1> DEFINE Made(f, k, e) ==
               [field |-> f, text |-> e.term, doc_freq |-> e.doc_freq, segment |-> k,
                score |-> <<e.doc_freq * weights[f], Max({1, Cardinality(segments[k])})>>]
           From(f, k) == {Made(f, k, e) : e \in SuggestForField(Listed(segments[k], f), prefix)}
           counts == {g \in DOMAIN weights : weights[g] # 0}
<1>1. Offers(segments, weights, prefix) =
          UNION {From(f, k) : f \in counts, k \in DOMAIN segments}
  BY DEF Offers
<1>2. ASSUME NEW f, NEW k, NEW w
      PROVE  Made(f, k, Entry(segments[k], f, w)) = Offer(segments, weights, f, k, w)
  BY DEF Entry, Offer
<1>3. ASSUME NEW f, NEW k \in DOMAIN segments
      PROVE  s \in From(f, k) <=> \E w \in WordsIn(segments[k], f) :
                 prefix # <<>> /\ IsPrefix(prefix, w) /\ s = Offer(segments, weights, f, k, w)
  <2> DEFINE fit == {v \in WordsIn(segments[k], f) : prefix # <<>> /\ IsPrefix(prefix, v)}
  <2>1. SuggestForField(Listed(segments[k], f), prefix) = {Entry(segments[k], f, w) : w \in fit}
    BY SuggestedWords
  <2> HIDE DEF Made
  <2>2. s \in From(f, k) <=> \E w \in fit : s = Made(f, k, Entry(segments[k], f, w))
    <3> HIDE DEF fit
    <3> QED BY <2>1
  <2> QED BY <1>2, <2>2
<1> HIDE DEF From
<1>4. s \in Offers(segments, weights, prefix) <=> \E f \in counts, k \in DOMAIN segments : s \in From(f, k)
  BY <1>1
<1> QED BY <1>3, <1>4

\* There are finitely many of them.
LEMMA OffersFinite ==
    ASSUME NEW segments, IsFiniteSet(DOMAIN segments),
           \A k \in DOMAIN segments : Listable(segments[k]),
           NEW weights, IsFiniteSet(DOMAIN weights), NEW prefix \in Seq(Letters)
    PROVE  IsFiniteSet(Offers(segments, weights, prefix))
<1> DEFINE P == (DOMAIN weights) \X (DOMAIN segments)
           h == [c \in P |-> WordsIn(segments[c[2]], c[1])]
           T == {h[c] : c \in P}
           A == UNION T
           e == [t \in P \X A |-> Offer(segments, weights, t[1][1], t[1][2], t[2])]
           E == {e[t] : t \in P \X A}
<1>1. IsFiniteSet(P)
  <2> DEFINE D == DOMAIN weights
             Places == DOMAIN segments
  <2>1. IsFiniteSet(D) /\ IsFiniteSet(Places)
    OBVIOUS
  <2> HIDE DEF D, Places
  <2>2. IsFiniteSet(D \X Places)
    BY <2>1, FS_Product
  <2> QED BY <2>2 DEF D, Places
<1>2. IsFiniteSet(T)
  <2> HIDE DEF P, h
  <2> QED BY <1>1, FiniteImage
<1>3. \A t \in T : IsFiniteSet(t)
  <2>1. ASSUME NEW c \in P PROVE IsFiniteSet(h[c])
    <3>1. c[2] \in DOMAIN segments
      OBVIOUS
    <3>2. Listable(segments[c[2]])
      BY <3>1
    <3>3. h[c] = WordsIn(segments[c[2]], c[1])
      OBVIOUS
    <3> QED BY <3>2, <3>3, WordsInFinite
  <2> HIDE DEF P, h
  <2> QED BY <2>1
<1>4. IsFiniteSet(A)
  <2> HIDE DEF T
  <2> QED BY <1>2, <1>3, FS_UNION
<1>5. IsFiniteSet(P \X A)
  <2> HIDE DEF P, A
  <2> QED BY <1>1, <1>4, FS_Product
<1>6. IsFiniteSet(E)
  <2> DEFINE Q == P \X A
  <2>1. IsFiniteSet(Q)
    BY <1>5
  <2>2. E = {e[t] : t \in Q}
    OBVIOUS
  <2> HIDE DEF Q, e, E
  <2> QED BY <2>1, <2>2, FiniteImage
<1>7. ASSUME NEW s \in Offers(segments, weights, prefix) PROVE s \in E
  <2>0. PICK f \in DOMAIN weights, k \in DOMAIN segments :
                 \E w \in WordsIn(segments[k], f) : s = Offer(segments, weights, f, k, w)
    BY OffersAre
  <2>1. PICK w \in WordsIn(segments[k], f) : s = Offer(segments, weights, f, k, w)
    BY <2>0
  <2>2. <<f, k>> \in P /\ h[<<f, k>>] = WordsIn(segments[k], f)
    <3>1. <<f, k>> \in P /\ <<f, k>>[1] = f /\ <<f, k>>[2] = k
      OBVIOUS
    <3> HIDE DEF P
    <3> QED BY <3>1
  <2>3. w \in A
    BY <2>1, <2>2
  <2> DEFINE t == <<<<f, k>>, w>>
  <2>4. t \in P \X A /\ t[1][1] = f /\ t[1][2] = k /\ t[2] = w
    BY <2>2, <2>3
  <2> HIDE DEF P, A, t
  <2>5. e[t] = s
    BY <2>1, <2>4
  <2> QED BY <2>4, <2>5
<1> HIDE DEF E
<1> QED BY <1>6, <1>7, FS_Subset

\* An offer has a fraction as its score.
Fraction(s) == s.score[1] \in Nat /\ s.score[2] \in Nat \ {0}

\* A word is in at least one document.
LEMMA AtLeastOne ==
    ASSUME NEW n \in Nat
    PROVE  Max({1, n}) \in Nat \ {0} /\ (n # 0 => Max({1, n}) = n)
<1>1. \E x \in {1, n} : \A y \in {1, n} : x >= y
  BY Z3
<1>2. Max({1, n}) \in {1, n} /\ \A y \in {1, n} : Max({1, n}) >= y
  BY <1>1 DEF Max
<1> QED BY <1>2

\* An offer is a fraction of a segment for a word of a field.
LEMMA OfferTypes ==
    ASSUME NEW segments, \A k \in DOMAIN segments : Listable(segments[k]), DOMAIN segments \subseteq Nat,
           NEW weights, \A f \in DOMAIN weights : weights[f] \in Nat,
           NEW f \in DOMAIN weights, NEW k \in DOMAIN segments, NEW w \in WordsIn(segments[k], f)
    PROVE  LET s == Offer(segments, weights, f, k, w)
           IN /\ s.field = f /\ s.text = w /\ w \in Seq(Letters) /\ s.segment = k /\ k \in Nat
              /\ Fraction(s)
              /\ s.score[1] = Freq(segments[k], f, w) * weights[f]
              /\ segments[k] # {} => s.score[2] = Cardinality(segments[k])
<1>1. Freq(segments[k], f, w) \in Nat /\ w \in Seq(Letters)
  BY WordsInFinite
<1>2. Freq(segments[k], f, w) * weights[f] \in Nat
  BY <1>1
<1>3. Cardinality(segments[k]) \in Nat /\ (segments[k] # {} => Cardinality(segments[k]) # 0)
  BY FS_CardinalityType, FS_EmptySet DEF Listable
<1>4. /\ Max({1, Cardinality(segments[k])}) \in Nat \ {0}
      /\ segments[k] # {} => Max({1, Cardinality(segments[k])}) = Cardinality(segments[k])
  BY <1>3, AtLeastOne
<1> QED BY <1>1, <1>2, <1>4 DEF Offer, Fraction

-----------------------------------------------------------------------------
(***************************************************************************)
(* The best offers, in their order.                                        *)
(***************************************************************************)

\* One score is no less than another.
AtLeast(s, t) == s.score[1] * t.score[2] >= t.score[1] * s.score[2]

\* A factor above zero can be taken from both sides.
LEMMA Cancel ==
    ASSUME NEW x \in Nat, NEW y \in Nat, NEW d \in Nat \ {0}, d * x >= d * y
    PROVE  x >= y
<1> SUFFICES ASSUME x < y PROVE FALSE
  OBVIOUS
<1>1. y - x \in Nat /\ y - x >= 1
  OBVIOUS
<1>2. d * (y - x) >= 1
  <2> DEFINE z == y - x
  <2>1. z \in Nat \ {0}
    BY <1>1
  <2> HIDE DEF z
  <2>2. d * z >= 1
    BY <2>1, Z3
  <2> QED BY <2>2 DEF z
<1>3. d * (y - x) = d * y - d * x
  BY Z3
<1>4. d * x \in Nat /\ d * y \in Nat
  OBVIOUS
<1> QED BY <1>2, <1>3, <1>4

\* A factor can be put to both sides.
LEMMA Grow ==
    ASSUME NEW x \in Nat, NEW y \in Nat, NEW d \in Nat, x >= y
    PROVE  d * x >= d * y
<1> DEFINE z == x - y
<1>1. z \in Nat /\ x = y + z
  OBVIOUS
<1> HIDE DEF z
<1>2. d * (y + z) = d * y + d * z /\ d * z \in Nat /\ d * y \in Nat
  BY <1>1, Z3
<1> QED BY <1>1, <1>2

\* Fractions are compared crosswise.
LEMMA AtLeastTransitive ==
    ASSUME NEW a \in Nat, NEW b \in Nat \ {0}, NEW c \in Nat, NEW d \in Nat \ {0},
           NEW e \in Nat, NEW g \in Nat \ {0}, a * d >= c * b, c * g >= e * d
    PROVE  a * g >= e * b
<1>1. a * d \in Nat /\ c * b \in Nat /\ c * g \in Nat /\ e * d \in Nat /\ a * g \in Nat /\ e * b \in Nat
  OBVIOUS
<1>2. g * (a * d) >= g * (c * b)
  BY <1>1, Grow
<1>3. b * (c * g) >= b * (e * d)
  BY <1>1, Grow
<1>4. g * (a * d) = d * (a * g) /\ g * (c * b) = b * (c * g) /\ b * (e * d) = d * (e * b)
  BY Z3
<1>5. d * (a * g) >= d * (e * b)
  <2>1. d * (a * g) \in Nat /\ b * (c * g) \in Nat /\ d * (e * b) \in Nat
    BY <1>1
  <2> QED BY <1>2, <1>3, <1>4, <2>1
<1> QED BY <1>1, <1>5, Cancel

\* Scores are ordered, up to equal ones.
LEMMA ScoreOrder ==
    ASSUME NEW s, Fraction(s), NEW t, Fraction(t)
    PROVE  /\ Higher(s, t) <=> ~ AtLeast(t, s)
           /\ Level(s, t) <=> AtLeast(s, t) /\ AtLeast(t, s)
           /\ AtLeast(s, s)
           /\ AtLeast(s, t) \/ AtLeast(t, s)
<1>1. s.score[1] * t.score[2] \in Nat /\ t.score[1] * s.score[2] \in Nat /\ s.score[1] * s.score[2] \in Nat
  BY DEF Fraction
<1> QED BY <1>1 DEF Higher, Level, AtLeast

\* A score that is at least another is at least what that one is at least.
LEMMA AtLeastTransits ==
    ASSUME NEW s, Fraction(s), NEW t, Fraction(t), NEW u, Fraction(u), AtLeast(s, t), AtLeast(t, u)
    PROVE  AtLeast(s, u)
BY AtLeastTransitive DEF Fraction, AtLeast

\* Of the offers of one word, exactly one is best, and its score is the highest.
LEMMA BestFacts ==
    ASSUME NEW O, IsFiniteSet(O), \A s \in O : Fraction(s) /\ s.segment \in Nat,
           \A s, t \in O : s.field = t.field /\ s.text = t.text /\ s.segment = t.segment => s = t
    PROVE  /\ Best(O) \in SUBSET O /\ IsFiniteSet(Best(O))
           /\ \A s, t \in Best(O) : s.field = t.field /\ s.text = t.text => s = t
           /\ \A o \in O : \E s \in Best(O) : s.field = o.field /\ s.text = o.text /\ AtLeast(s, o)
<1>1. Best(O) \in SUBSET O
  BY DEF Best
<1>2. IsFiniteSet(Best(O))
  BY <1>1, FS_Subset
<1>3. ASSUME NEW s \in O, NEW t \in O, s.field = t.field, s.text = t.text
      PROVE  s = t \/ Beats(s, t) \/ Beats(t, s)
  <2>1. Fraction(s) /\ Fraction(t) /\ s.segment \in Nat /\ t.segment \in Nat
    OBVIOUS
  <2>2. Higher(s, t) \/ Higher(t, s) \/ (Level(s, t) /\ Level(t, s))
    BY <2>1, ScoreOrder
  <2>3. s.segment < t.segment \/ t.segment < s.segment \/ s = t
    BY <1>3, <2>1
  <2> QED BY <1>3, <2>2, <2>3 DEF Beats
<1>4. ASSUME NEW s \in Best(O), NEW t \in Best(O), s.field = t.field, s.text = t.text PROVE s = t
  BY <1>1, <1>3, <1>4 DEF Best
<1>5. ASSUME NEW s \in O, NEW t \in O, Beats(s, t) PROVE AtLeast(s, t)
  BY <1>5, ScoreOrder DEF Beats
<1>6. ASSUME NEW s \in O, NEW t \in O, Beats(s, t) PROVE ~ Beats(t, s) /\ s # t
  <2>1. Fraction(s) /\ Fraction(t) /\ s.segment \in Nat /\ t.segment \in Nat
    OBVIOUS
  <2>2. ~ (Higher(s, t) /\ Higher(t, s)) /\ ~ (Higher(s, t) /\ Level(t, s)) /\ ~ (Level(s, t) /\ Higher(t, s))
    BY <2>1, ScoreOrder
  <2>3. ~ Beats(t, s)
    BY <1>6, <2>1, <2>2 DEF Beats
  <2> QED BY <1>6, <2>3
<1>7. ASSUME NEW s \in O, NEW t \in O, NEW u \in O, Beats(s, t), Beats(t, u) PROVE Beats(s, u)
  <2>1. /\ Fraction(s) /\ Fraction(t) /\ Fraction(u)
        /\ s.segment \in Nat /\ t.segment \in Nat /\ u.segment \in Nat
    OBVIOUS
  <2>2. s.field = u.field /\ s.text = u.text
    BY <1>7 DEF Beats
  <2>3. AtLeast(s, t) /\ AtLeast(t, u)
    BY <1>5, <1>7
  <2>4. AtLeast(s, u)
    BY <2>1, <2>3, AtLeastTransits
  <2>5. CASE Higher(s, u)
    BY <2>2, <2>5 DEF Beats
  <2>6. CASE ~ Higher(s, u)
    <3>1. AtLeast(u, s) /\ Level(s, u)
      BY <2>1, <2>4, <2>6, ScoreOrder
    <3>2. AtLeast(t, s) /\ AtLeast(u, t)
      BY <2>1, <2>3, <3>1, AtLeastTransits
    <3>3. ~ Higher(s, t) /\ ~ Higher(t, u)
      BY <2>1, <3>2, ScoreOrder
    <3>4. s.segment < t.segment /\ t.segment < u.segment
      BY <1>7, <3>3 DEF Beats
    <3> QED BY <2>1, <2>2, <3>1, <3>4 DEF Beats
  <2> QED BY <2>5, <2>6
<1>8. ASSUME NEW o \in O
      PROVE  \E s \in Best(O) : s.field = o.field /\ s.text = o.text /\ AtLeast(s, o)
  <2> DEFINE C == {t \in O : t.field = o.field /\ t.text = o.text}
             R == {p \in C \X C : Beats(p[1], p[2])}
             N == Cardinality(C)
             first == InOrder(C, R)[1]
  <2>1. C \in SUBSET O /\ o \in C
    OBVIOUS
  <2>2. \A x, y \in C : <<x, y>> \in R <=> Beats(x, y)
    OBVIOUS
  <2>3. Orders(R, C)
    <3> HIDE DEF R
    <3>1. \A x \in C : <<x, x>> \notin R
      BY <1>6, <2>1, <2>2
    <3>2. \A x, y \in C : x = y \/ <<x, y>> \in R \/ <<y, x>> \in R
      BY <1>3, <2>2
    <3>3. \A x, y, z \in C : <<x, y>> \in R /\ <<y, z>> \in R => <<x, z>> \in R
      BY <1>7, <2>1, <2>2
    <3> QED BY <3>1, <3>2, <3>3 DEF Orders
  <2> HIDE DEF R, C
  <2>4. IsFiniteSet(C)
    BY <2>1, FS_Subset
  <2>5. /\ N \in Nat /\ InOrder(C, R) \in [1..N -> C]
        /\ \A x \in C : \E k \in 1..N : InOrder(C, R)[k] = x
        /\ \A i, j \in 1..N : i < j <=> <<InOrder(C, R)[i], InOrder(C, R)[j]>> \in R
    BY <2>3, <2>4, InOrderFacts
  <2>6. 1 \in 1..N /\ first \in C
    BY <2>1, <2>5
  <2>7. ASSUME NEW t \in C PROVE t = first \/ Beats(first, t)
    <3>1. PICK k \in 1..N : InOrder(C, R)[k] = t
      BY <2>5
    <3>2. k = 1 \/ 1 < k
      BY <2>5
    <3>3. 1 < k => <<first, t>> \in R
      BY <2>5, <2>6, <3>1
    <3> QED BY <2>2, <2>6, <3>1, <3>2, <3>3
  <2>8. ASSUME NEW t \in O, Beats(t, first) PROVE FALSE
    <3>1. t \in C
      BY <2>6, <2>8 DEF C, Beats
    <3> QED BY <1>6, <2>1, <2>6, <2>7, <2>8, <3>1
  <2>9. first \in Best(O)
    BY <2>1, <2>6, <2>8 DEF Best
  <2>10. AtLeast(first, o)
    BY <1>5, <2>1, <2>6, <2>7, ScoreOrder
  <2>11. first.field = o.field /\ first.text = o.text
    BY <2>6 DEF C
  <2> QED BY <2>9, <2>10, <2>11
<1> QED BY <1>1, <1>2, <1>4, <1>8

\* The order of answers is strict and total.
LEMMA SoonerOrder ==
    ASSUME NEW B, \A s \in B : Fraction(s) /\ s.text \in Seq(Letters) /\ s.field \in Range(FieldOrder),
           \A s, t \in B : s.field = t.field /\ s.text = t.text => s = t
    PROVE  Orders({p \in B \X B : Sooner(p[1], p[2])}, B)
<1> DEFINE FieldBefore(s, t) ==
               \E i, j \in DOMAIN FieldOrder : i < j /\ FieldOrder[i] = s.field /\ FieldOrder[j] = t.field
<1>0. DOMAIN FieldOrder \subseteq Nat
  BY WeightsAssumption
<1>1. ASSUME NEW i \in DOMAIN FieldOrder, NEW j \in DOMAIN FieldOrder, FieldOrder[i] = FieldOrder[j]
      PROVE  i = j
  BY <1>1, WeightsAssumption DEF IsInjective
<1>2. ASSUME NEW s \in B PROVE ~ Sooner(s, s)
  <2>1. ~ Higher(s, s)
    BY ScoreOrder
  <2>2. ~ TextBefore(s.text, s.text)
    BY TextBeforeTransitive
  <2>3. ~ FieldBefore(s, s)
    BY <1>0, <1>1
  <2> QED BY <2>1, <2>2, <2>3 DEF Sooner
<1>3. ASSUME NEW s \in B, NEW t \in B PROVE s = t \/ Sooner(s, t) \/ Sooner(t, s)
  <2>1. Higher(s, t) \/ Higher(t, s) \/ (Level(s, t) /\ Level(t, s))
    BY ScoreOrder
  <2>2. s.text = t.text \/ TextBefore(s.text, t.text) \/ TextBefore(t.text, s.text)
    BY TextBeforeTransitive
  <2>3. s.field = t.field \/ FieldBefore(s, t) \/ FieldBefore(t, s)
    <3>1. PICK i \in DOMAIN FieldOrder : FieldOrder[i] = s.field
      BY DEF Range
    <3>2. PICK j \in DOMAIN FieldOrder : FieldOrder[j] = t.field
      BY DEF Range
    <3>3. i < j \/ j < i \/ i = j
      BY <1>0
    <3> QED BY <3>1, <3>2, <3>3
  <2> QED BY <2>1, <2>2, <2>3 DEF Sooner
<1>4. ASSUME NEW s \in B, NEW t \in B, Sooner(s, t)
      PROVE  AtLeast(s, t)
  BY <1>4, ScoreOrder DEF Sooner
<1>5. ASSUME NEW s \in B, NEW t \in B, NEW u \in B, Sooner(s, t), Sooner(t, u) PROVE Sooner(s, u)
  <2>1. AtLeast(s, t) /\ AtLeast(t, u)
    BY <1>4, <1>5
  <2>2. AtLeast(s, u)
    BY <2>1, AtLeastTransits
  <2>3. CASE Higher(s, u)
    BY <2>3 DEF Sooner
  <2>4. CASE ~ Higher(s, u)
    <3>1. AtLeast(u, s) /\ Level(s, u)
      BY <2>2, <2>4, ScoreOrder
    <3>2. AtLeast(t, s) /\ AtLeast(u, t)
      BY <2>1, <3>1, AtLeastTransits
    <3>3. ~ Higher(s, t) /\ ~ Higher(t, u)
      BY <3>2, ScoreOrder
    <3>4. TextBefore(s.text, t.text) \/ (s.text = t.text /\ FieldBefore(s, t))
      BY <1>5, <3>3 DEF Sooner
    <3>5. TextBefore(t.text, u.text) \/ (t.text = u.text /\ FieldBefore(t, u))
      BY <1>5, <3>3 DEF Sooner
    <3>6. FieldBefore(s, t) /\ FieldBefore(t, u) => FieldBefore(s, u)
      <4> SUFFICES ASSUME FieldBefore(s, t), FieldBefore(t, u) PROVE FieldBefore(s, u)
        OBVIOUS
      <4>1. PICK i, j \in DOMAIN FieldOrder : i < j /\ FieldOrder[i] = s.field /\ FieldOrder[j] = t.field
        OBVIOUS
      <4>2. PICK k, l \in DOMAIN FieldOrder : k < l /\ FieldOrder[k] = t.field /\ FieldOrder[l] = u.field
        OBVIOUS
      <4>3. j = k
        BY <1>1, <4>1, <4>2
      <4>4. i < l
        BY <1>0, <4>1, <4>2, <4>3
      <4> QED BY <4>1, <4>2, <4>4
    <3> HIDE DEF FieldBefore
    <3>7. TextBefore(s.text, u.text) \/ (s.text = u.text /\ FieldBefore(s, u))
      BY <3>4, <3>5, <3>6, TextBeforeTransitive
    <3> QED BY <3>1, <3>7 DEF Sooner, FieldBefore
  <2> QED BY <2>3, <2>4
<1> QED BY <1>2, <1>3, <1>5 DEF Orders

\* Segments, weights and a prefix that a client may ask about.
Askable(segments, weights, prefix) ==
    /\ IsFiniteSet(DOMAIN segments) /\ DOMAIN segments \subseteq Nat
    /\ \A k \in DOMAIN segments : Listable(segments[k])
    /\ IsFiniteSet(DOMAIN weights) /\ DOMAIN weights \subseteq Range(FieldOrder)
    /\ \A f \in DOMAIN weights : weights[f] \in Nat
    /\ prefix \in Seq(Letters)

\* What is offered can be ordered.
LEMMA OffersFacts ==
    ASSUME NEW segments, NEW weights, NEW prefix, Askable(segments, weights, prefix)
    PROVE  LET O == Offers(segments, weights, prefix)
           IN /\ IsFiniteSet(O)
              /\ \A s \in O : /\ Fraction(s) /\ s.segment \in Nat
                              /\ s.text \in Seq(Letters) /\ s.field \in Range(FieldOrder)
              /\ \A s, t \in O : s.field = t.field /\ s.text = t.text /\ s.segment = t.segment => s = t
<1> DEFINE O == Offers(segments, weights, prefix)
<1>1. IsFiniteSet(O)
  BY OffersFinite DEF Askable
<1>2. ASSUME NEW s \in O
      PROVE  /\ Fraction(s) /\ s.segment \in Nat
             /\ s.text \in Seq(Letters) /\ s.field \in Range(FieldOrder)
             /\ s = Offer(segments, weights, s.field, s.segment, s.text)
  <2>1. PICK f \in DOMAIN weights, k \in DOMAIN segments :
                 \E w \in WordsIn(segments[k], f) : s = Offer(segments, weights, f, k, w)
    BY OffersAre DEF Askable
  <2>2. PICK w \in WordsIn(segments[k], f) : s = Offer(segments, weights, f, k, w)
    BY <2>1
  <2>3. /\ s.field = f /\ s.text = w /\ w \in Seq(Letters) /\ s.segment = k /\ k \in Nat
        /\ Fraction(s)
    BY <2>2, OfferTypes DEF Askable
  <2> QED BY <2>2, <2>3 DEF Askable
<1>3. ASSUME NEW s \in O, NEW t \in O, s.field = t.field, s.text = t.text, s.segment = t.segment
      PROVE  s = t
  BY <1>2, <1>3
<1> QED BY <1>1, <1>2, <1>3

\* An answer is the beginning of these suggestions in their order.
BeginningOf(answer, B, size, N, found) ==
    /\ found \in [1..N -> B]
    /\ \A s \in B : \E k \in 1..N : found[k] = s
    /\ \A i, j \in 1..N : i < j <=> Sooner(found[i], found[j])
    /\ Len(answer) = (IF size <= N THEN size ELSE N)
    /\ DOMAIN answer = 1..Len(answer)
    /\ \A k \in 1..Len(answer) : answer[k] = found[k]

\* The answer is the beginning of the best offers in their order.
LEMMA SuggestionsAre ==
    ASSUME NEW segments, NEW weights, NEW typed, Askable(segments, weights, AsciiLower(typed)),
           NEW size \in Nat
    PROVE  \E N \in Nat : \E found :
               BeginningOf(Suggestions(segments, weights, typed, size),
                           Best(Offers(segments, weights, AsciiLower(typed))), size, N, found)
<1> DEFINE O == Offers(segments, weights, AsciiLower(typed))
           B == Best(O)
           R == {p \in B \X B : Sooner(p[1], p[2])}
           N == Cardinality(B)
           found == InOrder(B, R)
           m == IF size <= N THEN size ELSE N
           answer == Suggestions(segments, weights, typed, size)
<1>1. /\ IsFiniteSet(O)
      /\ \A s \in O : /\ Fraction(s) /\ s.segment \in Nat
                      /\ s.text \in Seq(Letters) /\ s.field \in Range(FieldOrder)
      /\ \A s, t \in O : s.field = t.field /\ s.text = t.text /\ s.segment = t.segment => s = t
  BY OffersFacts
<1> HIDE DEF O
<1>2. /\ B \in SUBSET O /\ IsFiniteSet(B)
      /\ \A s, t \in B : s.field = t.field /\ s.text = t.text => s = t
  BY <1>1, BestFacts
<1>3. \A x, y \in B : <<x, y>> \in R <=> Sooner(x, y)
  OBVIOUS
<1>4. Orders(R, B)
  <2> HIDE DEF B
  <2> QED BY <1>1, <1>2, SoonerOrder
<1>5. answer = SubSeq(found, 1, Min({size, Len(found)}))
  BY DEF Suggestions, O
<1> HIDE DEF B, R, answer
<1>6. /\ N \in Nat /\ found \in [1..N -> B]
      /\ \A s \in B : \E k \in 1..N : found[k] = s
      /\ \A i, j \in 1..N : i < j <=> <<found[i], found[j]>> \in R
  BY <1>2, <1>4, InOrderFacts
<1> HIDE DEF N, found
<1>7. Len(found) = N /\ found \in Seq(B)
  BY <1>6
<1>8. Min({size, N}) = m
  <2>1. \E x \in {size, N} : \A y \in {size, N} : x =< y
    BY <1>6
  <2>2. Min({size, N}) \in {size, N} /\ \A y \in {size, N} : Min({size, N}) =< y
    BY <2>1 DEF Min
  <2> QED BY <1>6, <2>2
<1>9. m \in Nat /\ m <= N
  BY <1>6
<1> HIDE DEF m
<1>10. answer = SubSeq(found, 1, m)
  BY <1>5, <1>7, <1>8
<1>11. Len(answer) = m /\ DOMAIN answer = 1..m /\ \A k \in 1..m : answer[k] = found[k]
  BY <1>7, <1>9, <1>10
<1>12. \A i, j \in 1..N : i < j <=> Sooner(found[i], found[j])
  BY <1>3, <1>6
<1>13. BeginningOf(answer, B, size, N, found)
  BY <1>6, <1>11, <1>12 DEF BeginningOf, m
<1> QED BY <1>6, <1>13 DEF B, answer, O

\* No answer comes before itself.
LEMMA SoonerIrreflexive ==
    ASSUME NEW s, Fraction(s), s.text \in Seq(Letters), s.field \in Range(FieldOrder)
    PROVE  ~ Sooner(s, s)
<1> DEFINE B == {s}
           R == {p \in B \X B : Sooner(p[1], p[2])}
<1>1. Orders(R, B)
  <2>1. \A t \in B : Fraction(t) /\ t.text \in Seq(Letters) /\ t.field \in Range(FieldOrder)
    OBVIOUS
  <2>2. \A t, u \in B : t.field = u.field /\ t.text = u.text => t = u
    OBVIOUS
  <2> HIDE DEF B
  <2> QED BY <2>1, <2>2, SoonerOrder
<1>2. <<s, s>> \in R <=> Sooner(s, s)
  OBVIOUS
<1> HIDE DEF R
<1> QED BY <1>1, <1>2 DEF Orders

\* The words that the property speaks of, and their prefixes.
LEMMA PrefixAgain ==
    ASSUME NEW p \in Seq(Letters), NEW w \in Seq(Letters), \E n \in 0..Len(w) : p = SubSeq(w, 1, n)
    PROVE  IsPrefix(p, w)
<1>1. PICK n \in 0..Len(w) : p = SubSeq(w, 1, n)
  OBVIOUS
<1>2. Len(w) \in Nat /\ Len(p) = n
  BY <1>1
<1>3. SubSeq(p, 1, n) = p
  BY <1>2
<1> QED BY <1>1, <1>2, <1>3 DEF IsPrefix

\* A word is in an answer once with no less than this score, or the answer is full of what scores no less.
Suggested(answer, size, f, w, sc) ==
    LET places == {k \in DOMAIN answer : answer[k].field = f /\ answer[k].text = w}
    IN \/ \E k \in places : /\ places = {k}
                            /\ answer[k].score[1] * sc[2] >= sc[1] * answer[k].score[2]
       \/ /\ places = {} /\ ~ (Len(answer) < size)
          /\ \A k \in DOMAIN answer :
                 answer[k].score[1] * sc[2] >= sc[1] * answer[k].score[2]

\* One word of one field is suggested once with its best score, or is not needed.
LEMMA WordIsSuggested ==
    ASSUME NEW segments, NEW weights, NEW typed, Askable(segments, weights, AsciiLower(typed)),
           NEW size \in Nat, AsciiLower(typed) # <<>>,
           NEW f \in DOMAIN weights, weights[f] # 0,
           NEW k0 \in DOMAIN segments, NEW w \in WordsIn(segments[k0], f), IsPrefix(AsciiLower(typed), w),
           NEW k1 \in DOMAIN segments, segments[k1] # {}
    PROVE  Suggested(Suggestions(segments, weights, typed, size), size, f, w,
                     <<weights[f] * Freq(segments[k1], f, w), Cardinality(segments[k1])>>)
<1> DEFINE O == Offers(segments, weights, AsciiLower(typed))
           B == Best(O)
           answer == Suggestions(segments, weights, typed, size)
           places == {k \in DOMAIN answer : answer[k].field = f /\ answer[k].text = w}
           sc     == <<weights[f] * Freq(segments[k1], f, w), Cardinality(segments[k1])>>
           measure == [score |-> sc]
<1>1. /\ IsFiniteSet(O)
      /\ \A s \in O : /\ Fraction(s) /\ s.segment \in Nat
                      /\ s.text \in Seq(Letters) /\ s.field \in Range(FieldOrder)
      /\ \A s, t \in O : s.field = t.field /\ s.text = t.text /\ s.segment = t.segment => s = t
  BY OffersFacts
<1>2. /\ B \in SUBSET O
      /\ \A s, t \in B : s.field = t.field /\ s.text = t.text => s = t
      /\ \A o \in O : \E s \in B : s.field = o.field /\ s.text = o.text /\ AtLeast(s, o)
  <2> HIDE DEF O
  <2> QED BY <1>1, BestFacts
<1>0. PICK N \in Nat : \E found : BeginningOf(answer, B, size, N, found)
  BY SuggestionsAre
<1>3. PICK found : BeginningOf(answer, B, size, N, found)
  BY <1>0
<1>4. /\ found \in [1..N -> B]
      /\ \A s \in B : \E k \in 1..N : found[k] = s
      /\ \A i, j \in 1..N : i < j <=> Sooner(found[i], found[j])
      /\ Len(answer) = (IF size <= N THEN size ELSE N)
      /\ DOMAIN answer = 1..Len(answer)
      /\ \A k \in 1..Len(answer) : answer[k] = found[k]
  BY <1>3 DEF BeginningOf
\* The word is offered by a segment, so that it is among the best.
<1>5. Offer(segments, weights, f, k0, w) \in O
  BY OffersAre DEF Askable
<1>6. PICK b \in B : b.field = f /\ b.text = w
  BY <1>2, <1>5 DEF Offer
<1>7. weights[f] \in Nat /\ Freq(segments[k1], f, w) \in Nat /\ Listable(segments[k1])
  BY WordsInFinite DEF Askable
<1>8. Fraction(measure)
  <2>1. Cardinality(segments[k1]) \in Nat \ {0}
    BY <1>7, FS_CardinalityType, FS_EmptySet DEF Listable
  <2>2. weights[f] * Freq(segments[k1], f, w) \in Nat
    BY <1>7
  <2> QED BY <2>1, <2>2 DEF Fraction
\* It is as good as what the other segment makes of the word.
<1>9. AtLeast(b, measure)
  <2>1. CASE w \in WordsIn(segments[k1], f)
    <3> DEFINE o == Offer(segments, weights, f, k1, w)
    <3>1. o \in O
      BY <2>1, OffersAre DEF Askable
    <3>2. o.field = f /\ o.text = w /\ o.score[1] = Freq(segments[k1], f, w) * weights[f]
          /\ o.score[2] = Cardinality(segments[k1])
      BY <2>1, OfferTypes DEF Askable
    <3>3. PICK s \in B : s.field = o.field /\ s.text = o.text /\ AtLeast(s, o)
      <4> HIDE DEF o
      <4> QED BY <1>2, <3>1
    <3>4. AtLeast(b, o)
      <4> HIDE DEF o, B
      <4>1. s = b
        BY <1>2, <1>6, <3>2, <3>3
      <4> QED BY <3>3, <4>1
    <3>5. measure.score[1] = o.score[1] /\ measure.score[2] = o.score[2]
      BY <1>7, <3>2
    <3> HIDE DEF o, measure
    <3> QED BY <3>4, <3>5 DEF AtLeast
  <2>2. CASE w \notin WordsIn(segments[k1], f)
    <3>1. Freq(segments[k1], f, w) = 0
      BY <1>7, <2>2, WordsInFinite
    <3>2. measure.score[1] = 0
      BY <1>7, <3>1
    <3>3. Fraction(b)
      BY <1>1, <1>2
    <3> HIDE DEF measure
    <3>4. b.score[1] * measure.score[2] \in Nat /\ measure.score[1] * b.score[2] = 0
      BY <1>8, <3>2, <3>3 DEF Fraction
    <3> QED BY <3>4 DEF AtLeast
  <2> QED BY <2>1, <2>2
<1>10. \A s : AtLeast(s, measure) <=> s.score[1] * sc[2] >= sc[1] * s.score[2]
  BY DEF AtLeast
<1>11. PICK i \in 1..N : found[i] = b
  BY <1>4
<1>12. Len(answer) \in Nat /\ Len(answer) <= N
  BY <1>4
<1> HIDE DEF answer, sc, O, B, measure
<1>13. ASSUME NEW k \in 1..N, found[k].field = f, found[k].text = w PROVE k = i
  <2>1. found[k] = b
    BY <1>2, <1>4, <1>6, <1>13
  <2>2. b \in O
    BY <1>2
  <2>3. ~ Higher(b, b) /\ b.text \in Seq(Letters)
    BY <1>1, <2>2, ScoreOrder
  <2>4. Fraction(b) /\ b.text \in Seq(Letters) /\ b.field \in Range(FieldOrder)
    BY <1>1, <2>2
  <2>5. ~ Sooner(b, b)
    BY <2>4, SoonerIrreflexive
  <2>6. ~ (k < i) /\ ~ (i < k)
    BY <1>4, <1>11, <2>1, <2>5
  <2> QED BY <2>6
<1>14. \A k \in DOMAIN answer : k \in 1..N /\ answer[k] = found[k]
  BY <1>4, <1>12
<1>15. ASSUME i <= Len(answer) PROVE Suggested(answer, size, f, w, sc)
  <2>1. i \in places /\ answer[i] = b
    BY <1>4, <1>6, <1>11, <1>15
  <2>2. places = {i}
    BY <1>13, <1>14, <2>1
  <2>3. answer[i].score[1] * sc[2] >= sc[1] * answer[i].score[2]
    BY <1>9, <1>10, <2>1
  <2> QED BY <2>1, <2>2, <2>3 DEF Suggested
<1>16. ASSUME ~ (i <= Len(answer)) PROVE Suggested(answer, size, f, w, sc)
  <2>1. places = {}
    BY <1>4, <1>13, <1>14, <1>16
  <2>2. ~ (Len(answer) < size)
    BY <1>4, <1>12, <1>16
  <2>3. ASSUME NEW k \in DOMAIN answer
        PROVE  answer[k].score[1] * sc[2] >= sc[1] * answer[k].score[2]
    <3>1. k \in 1..N /\ answer[k] = found[k] /\ k < i
      BY <1>4, <1>14, <1>12, <1>16
    <3>2. Sooner(found[k], b)
      BY <1>4, <1>11, <3>1
    <3>3. found[k] \in O /\ b \in O
      BY <1>2, <1>4, <3>1
    <3>4. Fraction(found[k]) /\ Fraction(b)
      BY <1>1, <3>3
    <3>5. AtLeast(found[k], b)
      BY <3>2, <3>4, ScoreOrder DEF Sooner
    <3>6. AtLeast(found[k], measure)
      BY <1>8, <1>9, <3>4, <3>5, AtLeastTransits
    <3> QED BY <1>10, <3>1, <3>6
  <2> QED BY <2>1, <2>2, <2>3 DEF Suggested
<1> QED BY <1>15, <1>16 DEF answer, sc

-----------------------------------------------------------------------------

\* The documents of a corpus can be listed.
LEMMA CorpusListable ==
    ASSUME NEW S \in SUBSET Docs
    PROVE  Listable({Corpus[d] : d \in S})
<1>1. IsFiniteSet(S)
  BY DocsAssumption, FS_Subset
<1>2. IsFiniteSet({Corpus[d] : d \in S})
  BY <1>1, FiniteImage
<1>3. ASSUME NEW d \in S, NEW f
      PROVE  IsFiniteSet(Words(Corpus[d], f)) /\ Words(Corpus[d], f) \subseteq Seq(Letters)
  <2>1. CASE f \in DOMAIN Corpus[d].text
    <3> DEFINE t == Tokens(Corpus[d], f)
               D == DOMAIN Corpus[d].text[f]
    <3>1. IsFiniteSet(D) /\ Words(Corpus[d], f) \subseteq Seq(Letters)
      BY <2>1, WordsAssumption
    <3>2. DOMAIN t = D
      BY <2>1 DEF Tokens, HasText, Tokenize
    <3>3. Words(Corpus[d], f) = {t[x] : x \in D}
      BY <3>2 DEF Words, Range
    <3> HIDE DEF t, D
    <3>4. IsFiniteSet({t[x] : x \in D})
      BY <3>1, FiniteImage
    <3> QED BY <3>1, <3>3, <3>4
  <2>2. CASE f \notin DOMAIN Corpus[d].text
    <3>1. Words(Corpus[d], f) = {}
      BY <2>2 DEF Words, Tokens, HasText, Range
    <3> QED BY <3>1, FS_EmptySet
  <2> QED BY <2>1, <2>2
<1> QED BY <1>2, <1>3 DEF Listable

\* Suggestions are the best there are, for any number of documents, words and fields.
THEOREM SuggestionsBest == Spec => []SuggestionsAreBest
<1>1. SearchInv => SuggestionsAreBest
  <2> SUFFICES ASSUME SearchInv, About("suggest") PROVE SuggestionsAreBest
    BY DEF SuggestionsAreBest
  <2>1. request \in SuggestRequests
    BY RequestKinds DEF SearchInv, About
  <2> DEFINE W == request.weights
             S == [k \in DOMAIN request.segments |-> {Corpus[d] : d \in request.segments[k]}]
             typed == request.typed
             size == request.size
  <2>2. /\ W \in Weights /\ typed \in Beginnings /\ size \in Nat
        /\ request.segments \in [1..2 -> SUBSET Docs]
    BY <2>1, PagingBounds DEF SuggestRequests
  <2>3. Askable(S, W, AsciiLower(typed))
    <3>0. IsFiniteSet(1..2)
      <4> DEFINE a == 1
                 b == 2
      <4>1. a \in Int /\ b \in Int
        OBVIOUS
      <4> HIDE DEF a, b
      <4>2. IsFiniteSet(a..b)
        BY <4>1, FS_Interval
      <4> QED BY <4>2 DEF a, b
    <3>1. DOMAIN S = 1..2 /\ IsFiniteSet(DOMAIN S) /\ DOMAIN S \subseteq Nat
      BY <2>2, <3>0
    <3>2. ASSUME NEW k \in DOMAIN S PROVE Listable(S[k])
      BY <2>2, <3>1, CorpusListable
    <3>3. DOMAIN W \subseteq Range(FieldOrder) /\ \A f \in DOMAIN W : W[f] \in Nat
      BY <2>2, WeightsAssumption
    <3>4. IsFiniteSet(Range(FieldOrder))
      <4> DEFINE D == DOMAIN FieldOrder
      <4>1. IsFiniteSet(D)
        BY WeightsAssumption, FS_Interval
      <4>2. Range(FieldOrder) = {FieldOrder[x] : x \in D}
        BY DEF Range
      <4> HIDE DEF D
      <4> QED BY <4>1, <4>2, FiniteImage
    <3>5. IsFiniteSet(DOMAIN W)
      BY <3>3, <3>4, FS_Subset
    <3>6. AsciiLower(typed) \in Seq(Letters)
      BY <2>2, WordsAssumption
    <3> HIDE DEF S, W
    <3> QED BY <3>1, <3>2, <3>3, <3>5, <3>6 DEF Askable
  <2> DEFINE answer == Suggestions(S, W, typed, size)
             scores(f, w) == {<<W[f] * Cardinality({doc \in S[k] : w \in Words(doc, f)}),
                                Cardinality(S[k])>> : k \in {j \in DOMAIN S : S[j] # {}}}
             words(f) == {w \in UNION {Words(doc, f) : doc \in UNION {S[k] : k \in DOMAIN S}} :
                              AsciiLower(typed) # <<>> /\ \E n \in 0..Len(w) : AsciiLower(typed) = SubSeq(w, 1, n)}
  <2>4. ASSUME NEW f \in DOMAIN W, W[f] # 0, NEW w \in words(f), NEW sc \in scores(f, w)
        PROVE  Suggested(answer, size, f, w, sc)
    <3>1. PICK k0 \in DOMAIN S : w \in WordsIn(S[k0], f)
      <4> HIDE DEF S
      <4> QED BY DEF WordsIn
    <3>2. PICK k1 \in DOMAIN S :
                  S[k1] # {} /\ sc = <<W[f] * Freq(S[k1], f, w), Cardinality(S[k1])>>
      BY DEF Freq
    <3> HIDE DEF S, W
    <3>3. w \in Seq(Letters)
      BY <2>3, <3>1, WordsInFinite DEF Askable
    <3>4. AsciiLower(typed) # <<>> /\ \E n \in 0..Len(w) : AsciiLower(typed) = SubSeq(w, 1, n)
      OBVIOUS
    <3>5. AsciiLower(typed) \in Seq(Letters)
      BY <2>3 DEF Askable
    <3>6. IsPrefix(AsciiLower(typed), w)
      <4> DEFINE p == AsciiLower(typed)
      <4>1. p \in Seq(Letters) /\ \E n \in 0..Len(w) : p = SubSeq(w, 1, n)
        BY <3>4, <3>5
      <4> HIDE DEF p
      <4>2. IsPrefix(p, w)
        BY <3>3, <4>1, PrefixAgain
      <4> QED BY <4>2 DEF p
    <3>7. Suggested(answer, size, f, w, <<W[f] * Freq(S[k1], f, w), Cardinality(S[k1])>>)
      BY <2>2, <2>3, <2>4, <3>1, <3>2, <3>4, <3>6, WordIsSuggested
    <3> QED BY <3>2, <3>7
  <2>5. \A f \in DOMAIN W : W[f] # 0 =>
            \A w \in words(f) : \A sc \in scores(f, w) : Suggested(answer, size, f, w, sc)
    BY <2>4
  <2> QED BY <2>5 DEF SuggestionsAreBest, Suggested
<1> QED BY <1>1, SearchInvariance, PTL

-----------------------------------------------------------------------------
(***************************************************************************)
(* Words, values and clauses, wherever they are typed.                     *)
(***************************************************************************)

\* What clients type of clauses and operators.
Joints == {Blank, "(", ")", "AND", "OR", "NOT"}
Spelled == UNION {Range(c.typed) : c \in Clauses}
Pieces == Spelled \cup Joints

\* Blanks, parentheses and operators are typed.
LEMMA JointsTyped == Joints \subseteq Pieces
BY DEF Pieces

\* A text is typed at a place of an input.
Here(s, i, text) ==
    /\ s \in Seq(Pieces) /\ text \in Seq(Pieces)
    /\ i \in Nat \ {0} /\ i + Len(text) <= Len(s) + 1
    /\ \A k \in 1..Len(text) : s[i + k - 1] = text[k]

\* What may follow a clause or a group: nothing, a closing parenthesis, or a blank and something
\* else that is no colon.
Edge(s, j) ==
    /\ j \in 1..Len(s) + 1 /\ At(s, j) \in {Blank, ")", End}
    /\ At(s, j) = Blank => j + 1 <= Len(s) /\ s[j + 1] \notin {Blank, ":"}

\* A blank and a quote are no other pieces.
LEMMA Distinct ==
    /\ Blank \notin {"(", ")", ":", End, "AND", "OR", "NOT"} /\ Blank # Quote
    /\ Quote \notin {"(", ")", ":", End}
    /\ End \notin {"(", ")", ":"}
BY Zenon DEF Blank, Quote, End

\* Of two texts that follow each other, each is typed at its place.
LEMMA HereBoth ==
    ASSUME NEW s, NEW i, NEW a \in Seq(Pieces), NEW b \in Seq(Pieces), Here(s, i, a \o b)
    PROVE  /\ Here(s, i, a) /\ Here(s, i + Len(a), b)
           /\ Len(a) \in Nat /\ Len(b) \in Nat /\ Len(a \o b) = Len(a) + Len(b)
<1> DEFINE ab == a \o b
<1>1. /\ Len(a) \in Nat /\ Len(b) \in Nat /\ Len(ab) = Len(a) + Len(b)
      /\ \A k \in 1..Len(a) : ab[k] = a[k]
      /\ \A k \in 1..Len(b) : ab[Len(a) + k] = b[k]
  OBVIOUS
<1> HIDE DEF ab
<1>0. Here(s, i, ab)
  BY DEF ab
<1>2. /\ s \in Seq(Pieces) /\ i \in Nat \ {0} /\ i + Len(a) + Len(b) <= Len(s) + 1 /\ Len(s) \in Nat
      /\ \A k \in 1..Len(a) + Len(b) : s[i + k - 1] = ab[k]
  BY <1>0, <1>1 DEF Here
<1>3. Here(s, i, a)
  <2>1. \A k \in 1..Len(a) : s[i + k - 1] = a[k]
    <3> TAKE k \in 1..Len(a)
    <3>1. k \in 1..Len(a) + Len(b)
      BY <1>1
    <3> QED BY <1>1, <1>2, <3>1
  <2> QED BY <1>1, <1>2, <2>1 DEF Here
<1>4. Here(s, i + Len(a), b)
  <2>1. ASSUME NEW k \in 1..Len(b) PROVE s[i + Len(a) + k - 1] = b[k]
    <3>1. Len(a) + k \in 1..Len(a) + Len(b) /\ i + (Len(a) + k) - 1 = i + Len(a) + k - 1
      BY <1>1, <1>2
    <3>2. s[i + (Len(a) + k) - 1] = ab[Len(a) + k]
      BY <1>2, <3>1
    <3>3. ab[Len(a) + k] = b[k]
      BY <1>1
    <3> QED BY <3>1, <3>2, <3>3
  <2>2. i + Len(a) \in Nat \ {0} /\ (i + Len(a)) + Len(b) <= Len(s) + 1
    BY <1>1, <1>2
  <2>3. Here(s, i + Len(a), b)
    <3> DEFINE j == i + Len(a)
    <3>1. j \in Nat \ {0} /\ j + Len(b) <= Len(s) + 1 /\ \A k \in 1..Len(b) : s[j + k - 1] = b[k]
      BY <2>1, <2>2
    <3> HIDE DEF j
    <3>2. Here(s, j, b)
      BY <1>2, <3>1 DEF Here
    <3> QED BY <3>2 DEF j
  <2> QED BY <2>3
<1> QED BY <1>1, <1>3, <1>4 DEF ab

\* Blanks are skipped: none, or one.
LEMMA SkipSpaceFacts ==
    ASSUME NEW s, Len(s) \in Nat, NEW i \in 1..Len(s) + 1
    PROVE  /\ At(s, i) # Blank => SkipSpace(s, i) = i
           /\ i <= Len(s) /\ s[i] = Blank /\ At(s, i + 1) # Blank => SkipSpace(s, i) = i + 1
<1>1. ASSUME At(s, i) # Blank PROVE SkipSpace(s, i) = i
  <2> DEFINE P(j) == At(s, j) # Blank /\ \A k \in i..j - 1 : s[k] = Blank
  <2>0. i \in i..Len(s) + 1 /\ i..i - 1 = {}
    OBVIOUS
  <2>1. P(i) /\ i \in i..Len(s) + 1
    BY <1>1, <2>0
  <2>2. ASSUME NEW j \in i..Len(s) + 1, P(j) PROVE j = i
    <3> SUFFICES ASSUME j > i PROVE FALSE
      OBVIOUS
    <3>1. i \in i..j - 1 /\ i <= Len(s)
      OBVIOUS
    <3>2. s[i] = Blank
      BY <2>2, <3>1
    <3> QED BY <1>1, <3>1, <3>2 DEF At
  <2> HIDE DEF P
  <2>3. (CHOOSE j \in i..Len(s) + 1 : P(j)) = i
    BY <2>1, <2>2
  <2> QED BY <2>3 DEF P, SkipSpace
<1>2. ASSUME i <= Len(s), s[i] = Blank, At(s, i + 1) # Blank PROVE SkipSpace(s, i) = i + 1
  <2> DEFINE P(j) == At(s, j) # Blank /\ \A k \in i..j - 1 : s[k] = Blank
  <2>0. i + 1 \in i..Len(s) + 1 /\ i..i + 1 - 1 = {i}
    BY <1>2
  <2>1. P(i + 1) /\ i + 1 \in i..Len(s) + 1
    BY <1>2, <2>0
  <2>2. ASSUME NEW j \in i..Len(s) + 1, P(j) PROVE j = i + 1
    <3>1. j # i
      BY <1>2, <2>2 DEF At
    <3> SUFFICES ASSUME j > i + 1 PROVE FALSE
      BY <3>1
    <3>2. i + 1 \in i..j - 1 /\ i + 1 <= Len(s)
      OBVIOUS
    <3>3. s[i + 1] = Blank
      BY <2>2, <3>2
    <3> QED BY <1>2, <3>2, <3>3 DEF At
  <2> HIDE DEF P
  <2>3. (CHOOSE j \in i..Len(s) + 1 : P(j)) = i + 1
    BY <2>1, <2>2
  <2> QED BY <2>3 DEF P, SkipSpace
<1> QED BY <1>1, <1>2

\* What comes after something typed.
LEMMA EdgeFacts ==
    ASSUME NEW s, Len(s) \in Nat, NEW j, Edge(s, j)
    PROVE  /\ ~ InWord(At(s, j)) /\ ValueStop(At(s, j)) /\ At(s, j) # ":"
           /\ At(s, SkipSpace(s, j)) # ":" /\ SkipSpace(s, j) \in {j, j + 1}
           /\ SkipSpace(s, j) \in 1..Len(s) + 1
           /\ At(s, SkipSpace(s, j)) # Blank
<1>1. j \in 1..Len(s) + 1 /\ At(s, j) \in {Blank, ")", End}
  BY DEF Edge
<1>2. ~ InWord(At(s, j)) /\ ValueStop(At(s, j)) /\ At(s, j) # ":"
  BY <1>1, Distinct DEF InWord, Marks, ValueStop, End
<1>3. CASE At(s, j) # Blank
  <2>1. SkipSpace(s, j) = j
    BY <1>1, <1>3, SkipSpaceFacts
  <2> QED BY <1>1, <1>2, <1>3, <2>1
<1>4. CASE At(s, j) = Blank
  <2>1. j <= Len(s) /\ s[j] = Blank /\ j + 1 <= Len(s) /\ At(s, j + 1) = s[j + 1] /\ s[j + 1] \notin {Blank, ":"}
    BY <1>1, <1>4 DEF Edge, At, End
  <2>2. SkipSpace(s, j) = j + 1
    BY <1>1, <2>1, SkipSpaceFacts
  <2>3. j + 1 \in 1..Len(s) + 1 /\ At(s, j + 1) \notin {Blank, ":"}
    BY <1>1, <2>1
  <2> QED BY <1>2, <2>2, <2>3
<1> QED BY <1>3, <1>4

\* Where a word ends.
LEMMA WordEndFacts ==
    ASSUME NEW s, Len(s) \in Nat, NEW i \in 1..Len(s) + 1, NEW j \in i..Len(s) + 1,
           ~ InWord(At(s, j)), \A k \in i..j - 1 : InWord(s[k])
    PROVE  WordEnd(s, i) = j
<1> DEFINE P(e) == ~ InWord(At(s, e)) /\ \A k \in i..e - 1 : InWord(s[k])
<1>1. P(j)
  OBVIOUS
<1>2. ASSUME NEW e \in i..Len(s) + 1, P(e) PROVE e = j
  <2>1. ~ (e > j)
    <3> SUFFICES ASSUME e > j PROVE FALSE
      OBVIOUS
    <3>1. j \in i..e - 1 /\ j <= Len(s)
      OBVIOUS
    <3> QED BY <1>2, <3>1 DEF At
  <2>2. ~ (e < j)
    <3> SUFFICES ASSUME e < j PROVE FALSE
      OBVIOUS
    <3>1. e \in i..j - 1 /\ e <= Len(s)
      OBVIOUS
    <3> QED BY <1>2, <3>1 DEF At
  <2> QED BY <2>1, <2>2
<1> HIDE DEF P
<1>3. (CHOOSE e \in i..Len(s) + 1 : P(e)) = j
  BY <1>1, <1>2
<1> QED BY <1>3 DEF P, WordEnd

\* Where a value without quotes ends.
LEMMA ValueEndFacts ==
    ASSUME NEW s, Len(s) \in Nat, NEW i \in 1..Len(s) + 1, NEW j \in i..Len(s) + 1,
           ValueStop(At(s, j)), \A k \in i..j - 1 : ~ ValueStop(s[k])
    PROVE  ValueEnd(s, i) = j
<1> DEFINE P(e) == ValueStop(At(s, e)) /\ \A k \in i..e - 1 : ~ ValueStop(s[k])
<1>1. P(j)
  OBVIOUS
<1>2. ASSUME NEW e \in i..Len(s) + 1, P(e) PROVE e = j
  <2>1. ~ (e > j)
    <3> SUFFICES ASSUME e > j PROVE FALSE
      OBVIOUS
    <3>1. j \in i..e - 1 /\ j <= Len(s)
      OBVIOUS
    <3> QED BY <1>2, <3>1 DEF At
  <2>2. ~ (e < j)
    <3> SUFFICES ASSUME e < j PROVE FALSE
      OBVIOUS
    <3>1. e \in i..j - 1 /\ e <= Len(s)
      OBVIOUS
    <3> QED BY <1>2, <3>1 DEF At
  <2> QED BY <2>1, <2>2
<1> HIDE DEF P
<1>3. (CHOOSE e \in i..Len(s) + 1 : P(e)) = j
  BY <1>1, <1>2
<1> QED BY <1>3 DEF P, ValueEnd

\* Where a value in quotes ends.
LEMMA FirstQuote ==
    ASSUME NEW s, Len(s) \in Nat, NEW i \in 1..Len(s), NEW j \in i..Len(s),
           s[j] = Quote, \A k \in i..j - 1 : s[k] # Quote
    PROVE  Quotes(s, i) # {} /\ First(Quotes(s, i)) = j
<1> DEFINE Q == Quotes(s, i)
<1>1. j \in Q /\ \A k \in Q : j <= k /\ k \in Nat
  <2>1. j \in Q
    BY DEF Quotes
  <2>2. ASSUME NEW k \in Q PROVE j <= k /\ k \in Nat
    <3>1. k \in i..Len(s) /\ s[k] = Quote
      BY DEF Quotes
    <3>2. k \notin i..j - 1
      BY <3>1
    <3> QED BY <3>1, <3>2
  <2> QED BY <2>1, <2>2
<1> HIDE DEF Q
<1>2. \A e \in Q : (\A k \in Q : e <= k) => e = j
  <2> TAKE e \in Q
  <2> HAVE \A k \in Q : e <= k
  <2>1. e <= j /\ j <= e /\ e \in Nat
    BY <1>1
  <2> QED BY <2>1
<1>3. First(Q) = j
  BY <1>1, <1>2 DEF First
<1> QED BY <1>1, <1>3 DEF Q

Part(s, a, b) == SubSeq(s, a, b)

\* A part of an input is what is typed there.
LEMMA SamePart ==
    ASSUME NEW s, NEW i, NEW text, Here(s, i, text),
           NEW a \in 1..Len(text), NEW b \in a..Len(text)
    PROVE  Part(s, i + a - 1, i + b - 1) = Part(text, a, b)
<1>1. /\ s \in Seq(Pieces) /\ text \in Seq(Pieces) /\ i \in Nat \ {0}
      /\ i + Len(text) <= Len(s) + 1 /\ Len(text) \in Nat /\ Len(s) \in Nat
  BY DEF Here
<1>2. SubSeq(s, i + a - 1, i + b - 1) \in Seq(Pieces) /\ SubSeq(text, a, b) \in Seq(Pieces)
  <2>1. \A k \in (i + a - 1)..(i + b - 1) : k \in 1..Len(s)
    BY <1>1
  <2>2. \A k \in a..b : k \in 1..Len(text)
    BY <1>1
  <2> QED BY <1>1, <2>1, <2>2, SubSeqProperties
<1>3. /\ Len(SubSeq(s, i + a - 1, i + b - 1)) = b - a + 1 /\ Len(SubSeq(text, a, b)) = b - a + 1
      /\ \A k \in 1..b - a + 1 : /\ SubSeq(s, i + a - 1, i + b - 1)[k] = s[i + a - 1 + k - 1]
                                 /\ SubSeq(text, a, b)[k] = text[a + k - 1]
  BY <1>1
<1>4. \A k \in 1..b - a + 1 : s[i + a - 1 + k - 1] = text[a + k - 1]
  <2> TAKE k \in 1..b - a + 1
  <2>1. a + k - 1 \in 1..Len(text) /\ i + (a + k - 1) - 1 = i + a - 1 + k - 1
    BY <1>1
  <2> QED BY <2>1 DEF Here
<1>5. SubSeq(s, i + a - 1, i + b - 1) = SubSeq(text, a, b)
  BY <1>2, <1>3, <1>4, SeqEqual
<1> QED BY <1>5 DEF Part

\* What a clause or a group begins with.
Begins(text) ==
    /\ text \in Seq(Pieces) /\ text # <<>>
    /\ text[1] = "(" \/ (InWord(text[1]) /\ text[1] \notin Keywords)

\* A clause is something typed.
LEMMA ClauseTyped ==
    ASSUME NEW c \in Clauses
    PROVE  /\ Begins(c.typed) /\ InWord(c.typed[1]) /\ Len(c.typed) \in Nat \ {0}
           /\ Written(c) /\ c.asks # Invalid
<1>1. c.typed \in Seq(Range(c.typed)) /\ Written(c) /\ c.asks # Invalid
  BY ClausesAssumption
<1>2. c.typed \in Seq(Pieces)
  <2>1. Range(c.typed) \subseteq Pieces
    BY DEF Pieces, Spelled
  <2> DEFINE t == c.typed
  <2>2. t \in Seq(Range(t)) /\ Range(t) \subseteq Pieces
    BY <1>1, <2>1
  <2> HIDE DEF t
  <2>3. t \in Seq(Pieces)
    <3>1. Len(t) \in Nat /\ t \in [1..Len(t) -> Range(t)]
      BY <2>2
    <3>2. t \in [1..Len(t) -> Pieces]
      BY <2>2, <3>1
    <3> QED BY <3>1, <3>2
  <2> QED BY <2>3 DEF t
<1>3. PICK w \in 1..Len(c.typed) : c.typed[1] \notin Keywords /\ \A k \in 1..w : InWord(c.typed[k])
  BY <1>1 DEF Written
<1>4. Len(c.typed) \in Nat
  BY <1>2
<1>5. 1 \in 1..w /\ Len(c.typed) # 0
  BY <1>3, <1>4
<1>6. c.typed # <<>>
  BY <1>5
<1> QED BY <1>1, <1>2, <1>3, <1>4, <1>5, <1>6 DEF Begins

\* A word by itself stands for a tag.
LEMMA WordReads ==
    ASSUME NEW s, NEW i, NEW t, Here(s, i, t), Len(t) # 0, \A k \in 1..Len(t) : InWord(t[k]),
           Edge(s, i + Len(t))
    PROVE  ParseClause(s, i) = Parsed(Term(<<"tag">>, t), i + Len(t))
<1> DEFINE j == i + Len(t)
<1>1. /\ s \in Seq(Pieces) /\ t \in Seq(Pieces) /\ i \in Nat \ {0} /\ Len(t) \in Nat \ {0} /\ Len(s) \in Nat
      /\ j <= Len(s) + 1 /\ \A k \in 1..Len(t) : s[i + k - 1] = t[k]
  BY DEF Here
<1>2. i \in 1..Len(s) + 1 /\ j \in i..Len(s) + 1 /\ j # i
  BY <1>1
<1>3. ASSUME NEW k \in i..j - 1 PROVE InWord(s[k])
  <2>1. k - i + 1 \in 1..Len(t) /\ i + (k - i + 1) - 1 = k
    BY <1>1
  <2> QED BY <1>1, <2>1
<1>4. ~ InWord(At(s, j)) /\ At(s, SkipSpace(s, j)) # ":"
  BY <1>1, EdgeFacts
<1>5. WordEnd(s, i) = j
  <2> HIDE DEF j
  <2> QED BY <1>1, <1>2, <1>3, <1>4, WordEndFacts
<1>6. SubSeq(s, i, j - 1) = t
  <2>1. i + 1 - 1 = i /\ i + Len(t) - 1 = j - 1 /\ 1 \in 1..Len(t) /\ Len(t) \in 1..Len(t)
    BY <1>1
  <2>2. Part(s, i + 1 - 1, i + Len(t) - 1) = Part(t, 1, Len(t))
    BY <2>1, SamePart
  <2>3. SubSeq(t, 1, Len(t)) = t
    BY <1>1
  <2> QED BY <2>1, <2>2, <2>3 DEF Part
<1> HIDE DEF j
<1>7. ParseClause(s, i) = Parsed(Term(<<"tag">>, t), j)
  BY <1>2, <1>4, <1>5, <1>6 DEF ParseClause
<1> QED BY <1>7 DEF j

\* A field and a colon: then its value is read.
LEMMA FieldReads ==
    ASSUME NEW s, NEW i, NEW t, Here(s, i, t), NEW w \in 1..Len(t), w + 1 < Len(t),
           \A k \in 1..w : InWord(t[k]), t[w + 1] = ":", t[w + 2] # Blank
    PROVE  ParseClause(s, i) = ParseValue(s, Part(t, 1, w), i + w + 1)
<1> DEFINE j == i + w
<1>1. /\ s \in Seq(Pieces) /\ t \in Seq(Pieces) /\ i \in Nat \ {0} /\ Len(t) \in Nat \ {0} /\ Len(s) \in Nat
      /\ i + Len(t) <= Len(s) + 1 /\ \A k \in 1..Len(t) : s[i + k - 1] = t[k]
  BY DEF Here
<1>2. i \in 1..Len(s) + 1 /\ j \in i..Len(s) + 1 /\ j # i /\ j \in 1..Len(s) /\ j + 1 \in 1..Len(s)
      /\ j \in 1..Len(s) + 1 /\ j + 1 \in 1..Len(s) + 1
  BY <1>1
<1>3. ASSUME NEW k \in i..j - 1 PROVE InWord(s[k])
  <2>1. k - i + 1 \in 1..w /\ k - i + 1 \in 1..Len(t) /\ i + (k - i + 1) - 1 = k
    BY <1>1
  <2> QED BY <1>1, <2>1
<1>4. s[j] = ":" /\ s[j + 1] # Blank
  <2>1. w + 1 \in 1..Len(t) /\ w + 2 \in 1..Len(t) /\ i + (w + 1) - 1 = j /\ i + (w + 2) - 1 = j + 1
    BY <1>1
  <2> QED BY <1>1, <2>1
<1>5. At(s, j) = ":" /\ At(s, j + 1) # Blank
  BY <1>2, <1>4 DEF At
<1>6. ~ InWord(":")
  BY DEF InWord, Marks
<1>7. WordEnd(s, i) = j
  <2> HIDE DEF j
  <2> QED BY <1>1, <1>2, <1>3, <1>5, <1>6, WordEndFacts
<1>8. SubSeq(s, i, j - 1) = SubSeq(t, 1, w)
  <2>1. i + 1 - 1 = i /\ i + w - 1 = j - 1 /\ 1 \in 1..Len(t) /\ w \in 1..Len(t)
    BY <1>1
  <2>2. Part(s, i + 1 - 1, i + w - 1) = Part(t, 1, w)
    BY <2>1, SamePart
  <2> QED BY <2>1, <2>2, Zenon DEF Part
<1> HIDE DEF j
<1>9. SkipSpace(s, j) = j
  BY <1>1, <1>2, <1>5, Distinct, SkipSpaceFacts
<1>10. SkipSpace(s, j + 1) = j + 1
  BY <1>1, <1>2, <1>5, SkipSpaceFacts
<1>11. ParseClause(s, i) = ParseValue(s, SubSeq(t, 1, w), j + 1)
  BY <1>2, <1>5, <1>7, <1>8, <1>9, <1>10 DEF ParseClause
<1>12. i + w + 1 = j + 1
  BY <1>1 DEF j
<1> QED BY <1>11, <1>12 DEF Part

\* A value without quotes is read to its end.
LEMMA ValueReads ==
    ASSUME NEW s, NEW i, NEW t, Here(s, i, t), Edge(s, i + Len(t)), NEW field,
           NEW a \in 1..Len(t), t[a] # Quote, \A k \in a..Len(t) : ~ ValueStop(t[k])
    PROVE  ParseValue(s, field, i + a - 1) =
               Parsed(Classify(field, Part(t, a, Len(t))), i + Len(t))
<1> DEFINE j == i + Len(t)
           v == i + a - 1
<1>1. /\ s \in Seq(Pieces) /\ t \in Seq(Pieces) /\ i \in Nat \ {0} /\ Len(t) \in Nat \ {0} /\ Len(s) \in Nat
      /\ j <= Len(s) + 1 /\ \A k \in 1..Len(t) : s[i + k - 1] = t[k]
  BY DEF Here
<1>2. v \in 1..Len(s) /\ v \in 1..Len(s) + 1 /\ j \in v..Len(s) + 1 /\ j # v /\ j \in 1..Len(s) + 1
  BY <1>1
<1>3. s[v] = t[a] /\ At(s, v) = t[a]
  BY <1>1, <1>2 DEF At
<1>4. \A k \in v..j - 1 : k - i + 1 \in a..Len(t) /\ s[k] = t[k - i + 1]
  <2> TAKE k \in v..j - 1
  <2>1. k - i + 1 \in a..Len(t) /\ k - i + 1 \in 1..Len(t) /\ i + (k - i + 1) - 1 = k
    BY <1>1
  <2> QED BY <1>1, <2>1
<1>5. ParseValue(s, field, v) = Parsed(Classify(field, SubSeq(t, a, Len(t))), j)
  <2>1. ValueStop(At(s, j))
    BY <1>1, EdgeFacts
  <2>2. \A k \in v..j - 1 : ~ ValueStop(s[k])
    BY <1>4
  <2>3. SubSeq(s, v, j - 1) = SubSeq(t, a, Len(t))
    <3>1. i + Len(t) - 1 = j - 1 /\ Len(t) \in a..Len(t)
      BY <1>1
    <3>2. Part(s, i + a - 1, i + Len(t) - 1) = Part(t, a, Len(t))
      BY <3>1, SamePart
    <3> QED BY <3>1, <3>2, Zenon DEF Part
  <2> HIDE DEF v, j
  <2>4. ValueEnd(s, v) = j
    BY <1>1, <1>2, <2>1, <2>2, ValueEndFacts
  <2> QED BY <1>2, <1>3, <2>3, <2>4 DEF ParseValue, Valued
<1> QED BY <1>5 DEF Part

\* A value in quotes is read to the next quote.
LEMMA QuotedReads ==
    ASSUME NEW s, NEW i, NEW t, Here(s, i, t), Edge(s, i + Len(t)), NEW field,
           NEW a \in 1..Len(t), t[a] = Quote, a + 1 < Len(t), t[Len(t)] = Quote,
           \A k \in a + 1..Len(t) - 1 : t[k] # Quote
    PROVE  ParseValue(s, field, i + a - 1) =
               Parsed(Classify(field, Part(t, a + 1, Len(t) - 1)), i + Len(t))
<1> DEFINE j == i + Len(t)
           v == i + a - 1
<1>1. /\ s \in Seq(Pieces) /\ t \in Seq(Pieces) /\ i \in Nat \ {0} /\ Len(t) \in Nat \ {0} /\ Len(s) \in Nat
      /\ j <= Len(s) + 1 /\ \A k \in 1..Len(t) : s[i + k - 1] = t[k]
  BY DEF Here
<1>2. v \in 1..Len(s) /\ v \in 1..Len(s) + 1 /\ j \in v..Len(s) + 1 /\ j # v /\ j \in 1..Len(s) + 1
  BY <1>1
<1>3. s[v] = t[a] /\ At(s, v) = t[a]
  BY <1>1, <1>2 DEF At
<1>4. \A k \in v..j - 1 : k - i + 1 \in a..Len(t) /\ s[k] = t[k - i + 1]
  <2> TAKE k \in v..j - 1
  <2>1. k - i + 1 \in a..Len(t) /\ k - i + 1 \in 1..Len(t) /\ i + (k - i + 1) - 1 = k
    BY <1>1
  <2> QED BY <1>1, <2>1
<1>6. ParseValue(s, field, v) = Parsed(Classify(field, SubSeq(t, a + 1, Len(t) - 1)), j)
  <2>1. v + 1 \in 1..Len(s) /\ j - 1 \in v + 1..Len(s) /\ v + 1 # j - 1 /\ j - 1 + 1 = j /\ j - 1 \in v..j - 1
    BY <1>1
  <2>2. s[j - 1] = Quote
    <3>1. j - 1 - i + 1 = Len(t)
      BY <1>1
    <3> QED BY <1>4, <2>1, <3>1
  <2>3. \A k \in v + 1..j - 1 - 1 : s[k] # Quote
    <3> TAKE k \in v + 1..j - 1 - 1
    <3>1. k \in v..j - 1 /\ k - i + 1 \in a + 1..Len(t) - 1
      BY <1>1
    <3> QED BY <1>4, <3>1
  <2>4. SubSeq(s, v + 1, j - 1 - 1) = SubSeq(t, a + 1, Len(t) - 1)
    <3>1. i + (a + 1) - 1 = v + 1 /\ i + (Len(t) - 1) - 1 = j - 1 - 1
          /\ a + 1 \in 1..Len(t) /\ Len(t) - 1 \in a + 1..Len(t)
      BY <1>1
    <3>2. Part(s, i + (a + 1) - 1, i + (Len(t) - 1) - 1) = Part(t, a + 1, Len(t) - 1)
      BY <3>1, SamePart
    <3> QED BY <3>1, <3>2, Zenon DEF Part
  <2> HIDE DEF v, j
  <2>5. Quotes(s, v + 1) # {} /\ First(Quotes(s, v + 1)) = j - 1
    BY <1>1, <2>1, <2>2, <2>3, FirstQuote
  <2> QED BY <1>3, <2>1, <2>4, <2>5 DEF ParseValue, Valued
<1> QED BY <1>6 DEF Part

\* A clause is read as what it asks for, wherever it is typed.
LEMMA ClauseReads ==
    ASSUME NEW c \in Clauses, NEW s, NEW i, Here(s, i, c.typed), Edge(s, i + Len(c.typed))
    PROVE  ParseClause(s, i) = Parsed(c.asks, i + Len(c.typed))
<1> DEFINE t == c.typed
           n == Len(t)
<1>1. n \in Nat \ {0} /\ Written(c)
  BY ClauseTyped
<1>2. PICK w \in 1..n :
           /\ t[1] \notin Keywords /\ \A k \in 1..w : InWord(t[k])
           /\ \/ w = n /\ c.asks = Term(<<"tag">>, t)
              \/ /\ w + 2 <= n /\ t[w + 1] = ":" /\ t[w + 2] # Quote
                 /\ \A k \in w + 2..n : ~ ValueStop(t[k])
                 /\ c.asks = Classify(Part(t, 1, w), Part(t, w + 2, n))
              \/ /\ w + 4 <= n /\ t[w + 1] = ":" /\ t[w + 2] = Quote /\ t[n] = Quote
                 /\ \A k \in w + 3..n - 1 : t[k] # Quote
                 /\ c.asks = Classify(Part(t, 1, w), Part(t, w + 3, n - 1))
  BY <1>1 DEF Written, Part
<1>3. Here(s, i, t) /\ Edge(s, i + n) /\ i \in Nat
  BY DEF Here
<1> SUFFICES ParseClause(s, i) = Parsed(c.asks, i + n)
  OBVIOUS
<1> HIDE DEF t
<1>7. w \in Nat \ {0} /\ n \in Nat /\ w <= n
  BY <1>1
<1>4. CASE w = n /\ c.asks = Term(<<"tag">>, t)
  BY <1>1, <1>2, <1>3, <1>4, WordReads
<1>5. CASE /\ w + 2 <= n /\ t[w + 1] = ":" /\ t[w + 2] # Quote
           /\ \A k \in w + 2..n : ~ ValueStop(t[k])
           /\ c.asks = Classify(Part(t, 1, w), Part(t, w + 2, n))
  <2>1. w + 2 \in w + 2..n /\ w + 2 \in 1..n /\ w + 1 < n /\ i + w + 1 = i + (w + 2) - 1
    <3>1. w + 2 <= n
      BY <1>5
    <3> HIDE DEF n
    <3> QED BY <1>3, <1>7, <3>1
  <2>2. t[w + 2] # Blank
    BY <1>5, <2>1 DEF ValueStop
  <2>3. ParseClause(s, i) = ParseValue(s, Part(t, 1, w), i + w + 1)
    BY <1>2, <1>3, <1>5, <2>1, <2>2, FieldReads
  <2>4. ParseValue(s, Part(t, 1, w), i + (w + 2) - 1) =
            Parsed(Classify(Part(t, 1, w), Part(t, w + 2, n)), i + n)
    <3> DEFINE a == w + 2
               f == Part(t, 1, w)
    <3>1. a \in 1..Len(t) /\ t[a] # Quote /\ \A k \in a..Len(t) : ~ ValueStop(t[k])
      BY <1>5, <2>1
    <3>2. Here(s, i, t) /\ Edge(s, i + Len(t))
      BY <1>3
    <3> HIDE DEF a, f
    <3>3. ParseValue(s, f, i + a - 1) = Parsed(Classify(f, Part(t, a, Len(t))), i + Len(t))
      BY <3>1, <3>2, ValueReads
    <3> QED BY <2>1, <3>3 DEF a, f
  <2> QED BY <1>5, <2>1, <2>3, <2>4
<1>6. CASE /\ w + 4 <= n /\ t[w + 1] = ":" /\ t[w + 2] = Quote /\ t[n] = Quote
           /\ \A k \in w + 3..n - 1 : t[k] # Quote
           /\ c.asks = Classify(Part(t, 1, w), Part(t, w + 3, n - 1))
  <2>1. w + 2 \in 1..n /\ w + 1 < n /\ i + w + 1 = i + (w + 2) - 1 /\ w + 2 + 1 < n /\ w + 2 + 1 = w + 3
    <3>1. w + 4 <= n
      BY <1>6
    <3> HIDE DEF n
    <3> QED BY <1>3, <1>7, <3>1
  <2>2. t[w + 2] # Blank
    BY <1>6, Distinct
  <2>3. ParseClause(s, i) = ParseValue(s, Part(t, 1, w), i + w + 1)
    <3>1. (\A k \in 1..w : InWord(t[k])) /\ t[w + 1] = ":" /\ w \in 1..Len(t) /\ w + 1 < Len(t)
      BY <1>2, <1>6, <2>1
    <3>2. Here(s, i, t)
      BY <1>3
    <3> QED BY <2>2, <3>1, <3>2, FieldReads
  <2>4. ParseValue(s, Part(t, 1, w), i + (w + 2) - 1) =
            Parsed(Classify(Part(t, 1, w), Part(t, w + 3, n - 1)), i + n)
    <3> DEFINE a == w + 2
               f == Part(t, 1, w)
    <3>1. /\ a \in 1..Len(t) /\ t[a] = Quote /\ a + 1 < Len(t) /\ t[Len(t)] = Quote
          /\ \A k \in a + 1..Len(t) - 1 : t[k] # Quote
      BY <1>6, <2>1
    <3>2. Here(s, i, t) /\ Edge(s, i + Len(t))
      BY <1>3
    <3> HIDE DEF a, f
    <3>3. ParseValue(s, f, i + a - 1) = Parsed(Classify(f, Part(t, a + 1, Len(t) - 1)), i + Len(t))
      BY <3>1, <3>2, QuotedReads
    <3> QED BY <2>1, <3>3 DEF a, f
  <2> QED BY <1>6, <2>1, <2>3, <2>4
<1> QED BY <1>2, <1>4, <1>5, <1>6

-----------------------------------------------------------------------------
(***************************************************************************)
(* The loops of the parser.                                                *)
(***************************************************************************)

\* What the turns of the loop of ParseAnd, and of ParseOr, are.
AndTurns(s, inside, i, left) ==
    /\ left[0] = ParsePrimary(s, inside, i)
    /\ \A n \in 1..Len(s) : left[n] = AndTurn(s, inside, left[n - 1])
OrTurns(s, inside, i, left) ==
    /\ left[0] = ParseAnd(s, inside, i)
    /\ \A n \in 1..Len(s) : left[n] = OrTurn(s, inside, left[n - 1])

\* What is read after so many turns.
AndReads(s, inside, i, m, r) == \A left : AndTurns(s, inside, i, left) => left[m] = r
OrReads(s, inside, i, m, r)  == \A left : OrTurns(s, inside, i, left) => left[m] = r

\* What is read in the end is what the last turn has read.
LEMMA AndDef ==
    ASSUME NEW s, Len(s) \in Nat, NEW inside, NEW i, NEW r, AndReads(s, inside, i, Len(s), r)
    PROVE  ParseAnd(s, inside, i) = r
<1> DEFINE start == ParsePrimary(s, inside, i)
           Loop(f, m) == f = [n \in 0..m |-> IF n = 0 THEN start ELSE AndTurn(s, inside, f[n - 1])]
           S == {m \in Nat : \E f : Loop(f, m)}
<1> HIDE DEF start
<1>1. 0 \in S
  <2>1. Loop([n \in 0..0 |-> start], 0)
    OBVIOUS
  <2> QED BY <2>1
<1>2. ASSUME NEW m \in S \cap Nat PROVE m + 1 \in S
  <2>1. PICK f : Loop(f, m)
    BY <1>2
  <2> DEFINE g == [n \in 0..m + 1 |-> IF n \in 0..m THEN f[n] ELSE AndTurn(s, inside, f[n - 1])]
  <2>2. ASSUME NEW n \in 0..m + 1
        PROVE  g[n] = IF n = 0 THEN start ELSE AndTurn(s, inside, g[n - 1])
    <3>1. n \in 0..m => f[n] = IF n = 0 THEN start ELSE AndTurn(s, inside, f[n - 1])
      BY <2>1
    <3>2. n # 0 => n - 1 \in 0..m /\ g[n - 1] = f[n - 1]
      OBVIOUS
    <3> QED BY <3>1, <3>2
  <2>3. Loop(g, m + 1)
    BY <2>2
  <2> HIDE DEF g
  <2>4. m + 1 \in Nat
    OBVIOUS
  <2> QED BY <2>3, <2>4
<1>3. Len(s) \in S
  <2> HIDE DEF S
  <2> QED BY <1>1, <1>2, AllNaturals
<1>4. \E f : Loop(f, Len(s))
  BY <1>3
<1> DEFINE left == CHOOSE f : Loop(f, Len(s))
<1>5. Loop(left, Len(s))
  BY <1>4
<1>6. ParseAnd(s, inside, i) = left[Len(s)]
  BY DEF ParseAnd, start
<1> HIDE DEF left
<1>7. left[0] = start /\ \A n \in 1..Len(s) : left[n] = AndTurn(s, inside, left[n - 1])
  BY <1>5
<1>8. AndTurns(s, inside, i, left)
  BY <1>7 DEF AndTurns, start
<1> QED BY <1>6, <1>8 DEF AndReads

\* The same for the alternatives.
LEMMA OrDef ==
    ASSUME NEW s, Len(s) \in Nat, NEW inside, NEW i, NEW r, OrReads(s, inside, i, Len(s), r)
    PROVE  ParseOr(s, inside, i) = r
<1> DEFINE start == ParseAnd(s, inside, i)
           Loop(f, m) == f = [n \in 0..m |-> IF n = 0 THEN start ELSE OrTurn(s, inside, f[n - 1])]
           S == {m \in Nat : \E f : Loop(f, m)}
<1> HIDE DEF start
<1>1. 0 \in S
  <2>1. Loop([n \in 0..0 |-> start], 0)
    OBVIOUS
  <2> QED BY <2>1
<1>2. ASSUME NEW m \in S \cap Nat PROVE m + 1 \in S
  <2>1. PICK f : Loop(f, m)
    BY <1>2
  <2> DEFINE g == [n \in 0..m + 1 |-> IF n \in 0..m THEN f[n] ELSE OrTurn(s, inside, f[n - 1])]
  <2>2. ASSUME NEW n \in 0..m + 1
        PROVE  g[n] = IF n = 0 THEN start ELSE OrTurn(s, inside, g[n - 1])
    <3>1. n \in 0..m => f[n] = IF n = 0 THEN start ELSE OrTurn(s, inside, f[n - 1])
      BY <2>1
    <3>2. n # 0 => n - 1 \in 0..m /\ g[n - 1] = f[n - 1]
      OBVIOUS
    <3> QED BY <3>1, <3>2
  <2>3. Loop(g, m + 1)
    BY <2>2
  <2> HIDE DEF g
  <2>4. m + 1 \in Nat
    OBVIOUS
  <2> QED BY <2>3, <2>4
<1>3. Len(s) \in S
  <2> HIDE DEF S
  <2> QED BY <1>1, <1>2, AllNaturals
<1>4. \E f : Loop(f, Len(s))
  BY <1>3
<1> DEFINE left == CHOOSE f : Loop(f, Len(s))
<1>5. Loop(left, Len(s))
  BY <1>4
<1>6. ParseOr(s, inside, i) = left[Len(s)]
  BY DEF ParseOr, start
<1> HIDE DEF left
<1>7. left[0] = start /\ \A n \in 1..Len(s) : left[n] = OrTurn(s, inside, left[n - 1])
  BY <1>5
<1>8. OrTurns(s, inside, i, left)
  BY <1>7 DEF OrTurns, start
<1> QED BY <1>6, <1>8 DEF OrReads

\* Expressions in parentheses are read with one level of parentheses less.
LEMMA ReadingDef ==
    ASSUME NEW s, Len(s) \in Nat, NEW n \in 1..Len(s), NEW i \in 1..Len(s) + 1
    PROVE  Reading(s)[n][i] = ParseOr(s, Reading(s)[n - 1], i)
<1> DEFINE start == [k \in 1..Len(s) + 1 |-> Failed]
           Row(f, m) == [k \in 1..Len(s) + 1 |-> IF m = 0 THEN Failed ELSE ParseOr(s, f[m - 1], k)]
           Loop(f, m) == f = [x \in 0..m |-> Row(f, x)]
           S == {m \in Nat : \E f : Loop(f, m)}
<1>0. \A f, g, m : (m # 0 => f[m - 1] = g[m - 1]) => Row(f, m) = Row(g, m)
  OBVIOUS
<1>9. \A f : Row(f, 0) = start
  OBVIOUS
<1> HIDE DEF start, Row
<1>1. 0 \in S
  <2>1. Loop([x \in 0..0 |-> start], 0)
    BY <1>9
  <2> QED BY <2>1
<1>2. ASSUME NEW m \in S \cap Nat PROVE m + 1 \in S
  <2>1. PICK f : Loop(f, m)
    BY <1>2
  <2> DEFINE g == [x \in 0..m + 1 |-> IF x \in 0..m THEN f[x] ELSE Row(f, x)]
  <2>2. ASSUME NEW x \in 0..m + 1
        PROVE  g[x] = Row(g, x)
    <3>1. x \in 0..m => f[x] = Row(f, x)
      BY <2>1
    <3>2. x # 0 => x - 1 \in 0..m /\ g[x - 1] = f[x - 1]
      OBVIOUS
    <3>3. Row(f, x) = Row(g, x)
      <4> HIDE DEF g
      <4> QED BY <1>0, <3>2
    <3>4. g[x] = Row(f, x)
      BY <3>1
    <3> QED BY <3>3, <3>4
  <2>3. Loop(g, m + 1)
    <3> DEFINE h == [x \in 0..m + 1 |-> Row(g, x)]
    <3>1. g = h
      BY <2>2
    <3> QED BY <3>1
  <2> HIDE DEF g
  <2>4. m + 1 \in Nat
    OBVIOUS
  <2> QED BY <2>3, <2>4
<1>3. Len(s) \in S
  <2> HIDE DEF S
  <2> QED BY <1>1, <1>2, AllNaturals
<1>4. \E f : Loop(f, Len(s))
  BY <1>3
<1> DEFINE R == CHOOSE f : Loop(f, Len(s))
<1>5. Loop(R, Len(s))
  BY <1>4
<1>6. Reading(s) = R
  BY DEF Reading, Row
<1> HIDE DEF R
<1>7. n \in 0..Len(s) /\ R = [x \in 0..Len(s) |-> Row(R, x)]
  BY <1>5
<1>8. R[n] = Row(R, n)
  BY <1>7
<1> QED BY <1>6, <1>8 DEF Row

\* A text is typed at a place of an input, in which parentheses may be so deep.
Typed(s, i, text, n) == Here(s, i, text) /\ n \in Nat /\ Len(text) <= n /\ n <= Len(s)

\* What may follow alternatives: the end of the input or of the group, OR or NOT.
Closes(s, e) == At(s, e) \in {")", End}
OrEdge(s, j) ==
    /\ Edge(s, j)
    /\ LET e == SkipSpace(s, j) IN Closes(s, e) \/ IsWord(s, e, "OR") \/ IsWord(s, e, "NOT")

\* Wherever a text is typed as an operand of AND, or where AND, or OR and NOT, join
\* operands, it is read as a query.
Operand(text, q) ==
    \A s, i, n : Typed(s, i, text, n) /\ Edge(s, i + Len(text)) =>
        ParsePrimary(s, Reading(s)[n], i) = Parsed(q, i + Len(text))
Conjunction(text, q) ==
    \A s, i, n : Typed(s, i, text, n) /\ Edge(s, i + Len(text)) =>
        \E m \in 0..Len(text) - 1 : AndReads(s, Reading(s)[n], i, m, Parsed(q, i + Len(text)))
Expression(text, q) ==
    \A s, i, n : Typed(s, i, text, n) /\ OrEdge(s, i + Len(text)) =>
        \E m \in 0..Len(text) - 1 :
            OrReads(s, Reading(s)[n], i, m, Parsed(q, SkipSpace(s, i + Len(text))))

\* A query is read as itself, and the reader goes on behind it.
LEMMA ParsedFacts ==
    \A q, i : /\ Parsed(q, i).query = q /\ Parsed(q, i).at = i
              /\ IsFailed(Parsed(q, i)) <=> q = Invalid
BY DEF Parsed, IsFailed

\* Blanks before an operand do not matter.
LEMMA BlankBefore ==
    ASSUME NEW s, Len(s) \in Nat, NEW i \in 1..Len(s), s[i] = Blank, At(s, i + 1) # Blank, NEW inside
    PROVE  /\ ParsePrimary(s, inside, i) = ParsePrimary(s, inside, i + 1)
           /\ ParseAnd(s, inside, i) = ParseAnd(s, inside, i + 1)
<1>1. SkipSpace(s, i) = i + 1
  BY SkipSpaceFacts
<1>2. SkipSpace(s, i + 1) = i + 1
  <2>1. i + 1 \in 1..Len(s) + 1
    OBVIOUS
  <2> QED BY <2>1, SkipSpaceFacts
<1>3. ParsePrimary(s, inside, i) = ParsePrimary(s, inside, i + 1)
  BY <1>1, <1>2 DEF ParsePrimary
<1> QED BY <1>3 DEF ParseAnd

\* The facts about a text that all the lemmas need.
LEMMA TypedFacts ==
    ASSUME NEW s, NEW i, NEW text, NEW n, Typed(s, i, text, n), text # <<>>
    PROVE  /\ s \in Seq(Pieces) /\ Len(s) \in Nat /\ Len(text) \in Nat \ {0} /\ i \in 1..Len(s)
           /\ i + Len(text) \in 1..Len(s) + 1 /\ n \in 1..Len(s) /\ Len(text) <= Len(s)
           /\ At(s, i) = text[1] /\ s[i] = text[1] /\ Here(s, i, text) /\ Len(text) <= n
<1>1. /\ s \in Seq(Pieces) /\ text \in Seq(Pieces) /\ i \in Nat \ {0} /\ i + Len(text) <= Len(s) + 1
      /\ \A k \in 1..Len(text) : s[i + k - 1] = text[k]
      /\ n \in Nat /\ Len(text) <= n /\ n <= Len(s) /\ Here(s, i, text)
  BY DEF Typed, Here
<1>2. Len(text) \in Nat \ {0} /\ Len(s) \in Nat
  BY <1>1
<1>3. s[i + 1 - 1] = text[1] /\ i + 1 - 1 = i
  BY <1>1, <1>2
<1> QED BY <1>1, <1>2, <1>3 DEF At

\* What an operand begins with is neither a blank nor something that ends an operand.
LEMMA BeginsFacts ==
    ASSUME NEW s, NEW i, NEW text, NEW n, Typed(s, i, text, n), Begins(text)
    PROVE  /\ At(s, i) \notin {Blank, ":", ")", End} /\ SkipSpace(s, i) = i
           /\ \A w \in {"AND", "OR", "NOT"} : ~ IsWord(s, i, w)
<1>1. text[1] = "(" \/ (InWord(text[1]) /\ text[1] \notin Keywords)
  BY DEF Begins
<1>2. At(s, i) = text[1] /\ Len(s) \in Nat /\ i \in 1..Len(s)
  BY TypedFacts DEF Begins
<1>3. text[1] \notin {Blank, ":", ")", End, "AND", "OR", "NOT"}
  BY <1>1, Distinct DEF InWord, Marks, Keywords
<1> QED BY <1>2, <1>3, SkipSpaceFacts DEF IsWord

\* A clause is an operand.
LEMMA ClauseOperand ==
    ASSUME NEW c \in Clauses
    PROVE  Operand(c.typed, c.asks)
<1> SUFFICES ASSUME NEW s, NEW i, NEW n, Typed(s, i, c.typed, n), Edge(s, i + Len(c.typed))
             PROVE  ParsePrimary(s, Reading(s)[n], i) = Parsed(c.asks, i + Len(c.typed))
  BY DEF Operand
<1>1. Begins(c.typed) /\ InWord(c.typed[1])
  BY ClauseTyped
<1>2. Here(s, i, c.typed) /\ At(s, i) = c.typed[1]
  BY <1>1, TypedFacts DEF Begins
<1>3. SkipSpace(s, i) = i
  BY <1>1, BeginsFacts
<1>4. At(s, i) # "("
  BY <1>1, <1>2 DEF InWord, Marks
<1>5. ParseClause(s, i) = Parsed(c.asks, i + Len(c.typed))
  BY <1>2, ClauseReads
<1> QED BY <1>3, <1>4, <1>5 DEF ParsePrimary

\* An operand is a conjunction of one.
LEMMA OneOperand ==
    ASSUME NEW text, Begins(text), NEW q, Operand(text, q)
    PROVE  Conjunction(text, q)
<1> SUFFICES ASSUME NEW s, NEW i, NEW n, Typed(s, i, text, n), Edge(s, i + Len(text))
             PROVE  \E m \in 0..Len(text) - 1 :
                        AndReads(s, Reading(s)[n], i, m, Parsed(q, i + Len(text)))
  BY DEF Conjunction
<1>1. ParsePrimary(s, Reading(s)[n], i) = Parsed(q, i + Len(text))
  BY DEF Operand
<1>2. AndReads(s, Reading(s)[n], i, 0, Parsed(q, i + Len(text)))
  BY <1>1 DEF AndReads, AndTurns
<1>3. 0 \in 0..Len(text) - 1
  BY TypedFacts DEF Begins
<1> QED BY <1>2, <1>3

\* One more turn of a loop.
LEMMA OneTurn ==
    ASSUME NEW s, NEW inside, NEW i, NEW m, m + 1 \in 1..Len(s), m \in Nat, NEW r
    PROVE  /\ AndReads(s, inside, i, m, r) => AndReads(s, inside, i, m + 1, AndTurn(s, inside, r))
           /\ OrReads(s, inside, i, m, r) => OrReads(s, inside, i, m + 1, OrTurn(s, inside, r))
<1>1. m + 1 - 1 = m
  OBVIOUS
<1>2. \A left : AndTurns(s, inside, i, left) => left[m + 1] = AndTurn(s, inside, left[m])
  BY <1>1 DEF AndTurns
<1>3. \A left : OrTurns(s, inside, i, left) => left[m + 1] = OrTurn(s, inside, left[m])
  BY <1>1 DEF OrTurns
<1> QED BY <1>2, <1>3 DEF AndReads, OrReads

\* What a loop has ended with, it keeps.
LEMMA AndEnds ==
    ASSUME NEW s, Len(s) \in Nat, NEW inside, NEW i, NEW q, q # Invalid, NEW j, OrEdge(s, j),
           NEW m \in Nat, m < Len(s), AndReads(s, inside, i, m, Parsed(q, j))
    PROVE  ParseAnd(s, inside, i) = Parsed(q, SkipSpace(s, j))
<1> DEFINE e == SkipSpace(s, j)
<1>1. Edge(s, j) /\ (Closes(s, e) \/ IsWord(s, e, "OR") \/ IsWord(s, e, "NOT"))
  BY DEF OrEdge
<1>2. e \in 1..Len(s) + 1 /\ At(s, e) # Blank
  BY <1>1, EdgeFacts
<1>3. SkipSpace(s, e) = e
  <2> HIDE DEF e
  <2> QED BY <1>2, SkipSpaceFacts
<1>4. AndTurn(s, inside, Parsed(q, j)) = Parsed(q, e)
  BY <1>1, ParsedFacts DEF AndTurn, Closes
<1>5. AndTurn(s, inside, Parsed(q, e)) = Parsed(q, e)
  <2> HIDE DEF e
  <2> QED BY <1>1, <1>3, ParsedFacts DEF AndTurn, Closes
<1> HIDE DEF e
<1> DEFINE S == {k \in Nat : m + 1 + k <= Len(s) => AndReads(s, inside, i, m + 1 + k, Parsed(q, e))}
<1>6. 0 \in S
  <2>1. m + 1 \in 1..Len(s) /\ m + 1 + 0 = m + 1
    OBVIOUS
  <2> QED BY <1>4, <2>1, OneTurn
<1>7. ASSUME NEW k \in S \cap Nat PROVE k + 1 \in S
  <2> SUFFICES ASSUME m + 1 + (k + 1) <= Len(s)
               PROVE  AndReads(s, inside, i, m + 1 + (k + 1), Parsed(q, e))
    OBVIOUS
  <2> DEFINE l == m + 1 + k
  <2>1. l \in Nat /\ l <= Len(s) /\ l + 1 = m + 1 + (k + 1) /\ l + 1 \in 1..Len(s)
    OBVIOUS
  <2>2. AndReads(s, inside, i, l, Parsed(q, e))
    BY <1>7, <2>1
  <2> HIDE DEF l
  <2>3. AndReads(s, inside, i, l + 1, Parsed(q, e))
    BY <1>5, <2>1, <2>2, OneTurn
  <2> QED BY <2>1, <2>3
<1>8. Len(s) - m - 1 \in S
  <2>1. Len(s) - m - 1 \in Nat
    OBVIOUS
  <2> HIDE DEF S
  <2> QED BY <1>6, <1>7, <2>1, AllNaturals
<1>9. AndReads(s, inside, i, Len(s), Parsed(q, e))
  <2>1. m + 1 + (Len(s) - m - 1) = Len(s)
    OBVIOUS
  <2> QED BY <1>8, <2>1
<1>10. ParseAnd(s, inside, i) = Parsed(q, e)
  BY <1>9, AndDef
<1> QED BY <1>10 DEF e

\* The same for alternatives.
LEMMA OrEnds ==
    ASSUME NEW s, Len(s) \in Nat, NEW inside, NEW i, NEW q, q # Invalid, NEW e \in 1..Len(s) + 1,
           Closes(s, e), NEW m \in Nat, m < Len(s), OrReads(s, inside, i, m, Parsed(q, e))
    PROVE  ParseOr(s, inside, i) = Parsed(q, e)
<1>1. SkipSpace(s, e) = e
  BY Distinct, SkipSpaceFacts DEF Closes
<1>2. ~ IsWord(s, e, "OR") /\ ~ IsWord(s, e, "NOT")
  BY DEF Closes, IsWord, End
<1>3. OrTurn(s, inside, Parsed(q, e)) = Parsed(q, e)
  BY <1>1, <1>2, ParsedFacts DEF OrTurn
<1> DEFINE S == {k \in Nat : m + k <= Len(s) => OrReads(s, inside, i, m + k, Parsed(q, e))}
<1>4. 0 \in S
  <2>1. m + 0 = m
    OBVIOUS
  <2> QED BY <2>1
<1>5. ASSUME NEW k \in S \cap Nat PROVE k + 1 \in S
  <2> SUFFICES ASSUME m + (k + 1) <= Len(s)
               PROVE  OrReads(s, inside, i, m + (k + 1), Parsed(q, e))
    OBVIOUS
  <2> DEFINE l == m + k
  <2>1. l \in Nat /\ l <= Len(s) /\ l + 1 = m + (k + 1) /\ l + 1 \in 1..Len(s)
    OBVIOUS
  <2>2. OrReads(s, inside, i, l, Parsed(q, e))
    BY <1>5, <2>1
  <2> HIDE DEF l
  <2>3. OrReads(s, inside, i, l + 1, Parsed(q, e))
    BY <1>3, <2>1, <2>2, OneTurn
  <2> QED BY <2>1, <2>3
<1>6. Len(s) - m \in S
  <2>1. Len(s) - m \in Nat
    OBVIOUS
  <2> HIDE DEF S
  <2> QED BY <1>4, <1>5, <2>1, AllNaturals
<1>7. OrReads(s, inside, i, Len(s), Parsed(q, e))
  <2>1. m + (Len(s) - m) = Len(s)
    OBVIOUS
  <2> QED BY <1>6, <2>1
<1> QED BY <1>7, OrDef

\* A text in parentheses.
Group(text) == <<"(">> \o text \o <<")">>

\* What is in parentheses, and what surrounds it.
LEMMA GroupFacts ==
    ASSUME NEW text, Begins(text)
    PROVE  /\ Begins(Group(text)) /\ Len(Group(text)) = Len(text) + 2 /\ Group(text)[1] = "("
           /\ \A s, i : Here(s, i, Group(text)) =>
                  /\ Here(s, i + 1, text) /\ s[i] = "(" /\ s[i + 1 + Len(text)] = ")"
                  /\ i + 1 + Len(text) <= Len(s)
<1>1. text \in Seq(Pieces) /\ <<"(">> \in Seq(Pieces) /\ <<")">> \in Seq(Pieces)
  <2>1. "(" \in Joints /\ ")" \in Joints
    BY Zenon DEF Joints
  <2>2. "(" \in Pieces /\ ")" \in Pieces
    BY <2>1, JointsTyped
  <2> QED BY <2>2 DEF Begins
<1>2. <<"(">> \o text \in Seq(Pieces) /\ Group(text) \in Seq(Pieces)
  BY <1>1 DEF Group
<1>3. Len(text) \in Nat /\ Len(<<"(">> \o text) = Len(text) + 1 /\ Len(Group(text)) = Len(text) + 2
      /\ Group(text)[1] = "("
  BY <1>1 DEF Group
<1>4. Begins(Group(text))
  BY <1>2, <1>3 DEF Begins
<1>5. ASSUME NEW s, NEW i, Here(s, i, Group(text))
      PROVE  /\ Here(s, i + 1, text) /\ s[i] = "(" /\ s[i + 1 + Len(text)] = ")"
             /\ i + 1 + Len(text) <= Len(s)
  <2>1. Here(s, i, <<"(">> \o text) /\ Here(s, i + Len(<<"(">> \o text), <<")">>)
    BY <1>1, <1>2, <1>5, HereBoth DEF Group
  <2>2. Here(s, i, <<"(">>) /\ Here(s, i + Len(<<"(">>), text) /\ Len(<<"(">>) = 1
    BY <1>1, <2>1, HereBoth
  <2>3. /\ s \in Seq(Pieces) /\ i \in Nat \ {0} /\ Len(s) \in Nat
        /\ i + (Len(text) + 2) <= Len(s) + 1
    BY <1>3, <1>5 DEF Here
  <2>4. s[i] = "("
    <3>1. s[i + 1 - 1] = "(" /\ i + 1 - 1 = i
      BY <2>2, <2>3 DEF Here
    <3> QED BY <3>1
  <2>5. s[i + 1 + Len(text)] = ")"
    <3>1. s[i + (Len(text) + 1) + 1 - 1] = ")"
      BY <1>3, <2>1 DEF Here
    <3>2. i + (Len(text) + 1) + 1 - 1 = i + 1 + Len(text)
      BY <1>3, <2>3
    <3> QED BY <3>1, <3>2
  <2>6. i + 1 + Len(text) <= Len(s)
    BY <1>3, <2>3
  <2> QED BY <2>2, <2>4, <2>5, <2>6
<1> QED BY <1>3, <1>4, <1>5

\* An expression in parentheses is an operand.
LEMMA GroupOperand ==
    ASSUME NEW text, Begins(text), NEW q, q # Invalid, Expression(text, q)
    PROVE  Operand(Group(text), q)
<1> SUFFICES ASSUME NEW s, NEW i, NEW n, Typed(s, i, Group(text), n), Edge(s, i + Len(Group(text)))
             PROVE  ParsePrimary(s, Reading(s)[n], i) = Parsed(q, i + Len(Group(text)))
  BY DEF Operand
<1> DEFINE j == i + 1 + Len(text)
<1>1. /\ s \in Seq(Pieces) /\ Len(s) \in Nat /\ i \in 1..Len(s) /\ n \in 1..Len(s)
      /\ Here(s, i, Group(text)) /\ Len(Group(text)) <= n /\ Len(Group(text)) <= Len(s)
  BY GroupFacts, TypedFacts DEF Begins
<1>2. /\ Here(s, i + 1, text) /\ s[i] = "(" /\ s[j] = ")" /\ j <= Len(s)
      /\ Len(Group(text)) = Len(text) + 2
  BY <1>1, GroupFacts
<1>3. Len(text) \in Nat \ {0}
  BY DEF Begins
<1>4. /\ j \in 1..Len(s) + 1 /\ j + 1 = i + Len(Group(text)) /\ n - 1 \in Nat
      /\ Len(text) <= n - 1 /\ n - 1 <= Len(s) /\ i + 1 \in 1..Len(s) + 1
  BY <1>1, <1>2, <1>3
<1>5. At(s, j) = ")" /\ At(s, i) = "("
  BY <1>1, <1>2 DEF At
<1> HIDE DEF j
<1>6. SkipSpace(s, j) = j /\ SkipSpace(s, i) = i
  <2>1. i \in 1..Len(s) + 1
    BY <1>1
  <2> QED BY <1>1, <1>4, <1>5, <2>1, Distinct, SkipSpaceFacts
<1>7. OrEdge(s, j) /\ Closes(s, j)
  BY <1>4, <1>5, <1>6, Distinct DEF OrEdge, Edge, Closes
<1>8. Typed(s, i + 1, text, n - 1)
  BY <1>2, <1>4 DEF Typed
<1>9. PICK m \in 0..Len(text) - 1 : OrReads(s, Reading(s)[n - 1], i + 1, m, Parsed(q, j))
  BY <1>6, <1>7, <1>8 DEF Expression, j
<1>10. m \in Nat /\ m < Len(s)
  BY <1>1, <1>3, <1>4
<1>11. ParseOr(s, Reading(s)[n - 1], i + 1) = Parsed(q, j)
  BY <1>1, <1>4, <1>7, <1>9, <1>10, OrEnds
<1>12. Reading(s)[n][i + 1] = Parsed(q, j)
  BY <1>1, <1>4, <1>11, ReadingDef
<1> QED BY <1>4, <1>5, <1>6, <1>12, ParsedFacts DEF ParsePrimary

\* Two operands and what joins them.
LEMMA JoinedFacts ==
    ASSUME NEW a, Begins(a), NEW b, Begins(b), NEW mid \in Seq(Pieces)
    PROVE  /\ Begins(a \o mid \o b) /\ Len(a) \in Nat \ {0} /\ Len(b) \in Nat \ {0} /\ Len(mid) \in Nat
           /\ Len(a \o mid \o b) = Len(a) + Len(mid) + Len(b)
           /\ \A s, i, n : Typed(s, i, a \o mid \o b, n) =>
                  /\ Typed(s, i, a, n) /\ Here(s, i + Len(a), mid)
                  /\ Typed(s, i + Len(a) + Len(mid), b, n)
<1>1. a \in Seq(Pieces) /\ b \in Seq(Pieces) /\ a # <<>> /\ b # <<>>
  BY DEF Begins
<1>2. a \o mid \in Seq(Pieces)
  BY <1>1
<1>3. /\ Len(a) \in Nat \ {0} /\ Len(b) \in Nat \ {0} /\ Len(mid) \in Nat
      /\ Len(a \o mid) = Len(a) + Len(mid) /\ Len(a \o mid \o b) = Len(a) + Len(mid) + Len(b)
  BY <1>1
<1>4. Begins(a \o mid \o b)
  <2>1. a \o mid \o b \in Seq(Pieces) /\ a \o mid \o b # <<>>
    BY <1>1, <1>2, <1>3
  <2>2. (a \o mid \o b)[1] = a[1]
    BY <1>1, <1>3
  <2> QED BY <2>1, <2>2 DEF Begins
<1>5. ASSUME NEW s, NEW i, NEW n, Typed(s, i, a \o mid \o b, n)
      PROVE  /\ Typed(s, i, a, n) /\ Here(s, i + Len(a), mid)
             /\ Typed(s, i + Len(a) + Len(mid), b, n)
  <2>1. Here(s, i, a \o mid \o b) /\ n \in Nat /\ n <= Len(s) /\ Len(a) + Len(mid) + Len(b) <= n
    BY <1>3, <1>5 DEF Typed
  <2>2. Here(s, i, a \o mid) /\ Here(s, i + Len(a \o mid), b)
    BY <1>1, <1>2, <2>1, HereBoth
  <2>3. Here(s, i, a) /\ Here(s, i + Len(a), mid)
    BY <1>1, <2>2, HereBoth
  <2>4. Len(a) <= n /\ Len(b) <= n
    BY <1>3, <2>1
  <2>5. i + Len(a \o mid) = i + Len(a) + Len(mid)
    <3>1. i \in Nat
      BY <2>3 DEF Here
    <3> QED BY <1>3, <3>1
  <2> QED BY <2>1, <2>2, <2>3, <2>4, <2>5 DEF Typed
<1> QED BY <1>3, <1>4, <1>5

\* An operator between blanks.
Spaced(w) == <<Blank, w, Blank>>

\* What surrounds an operator.
LEMMA SpacedFacts ==
    ASSUME NEW w \in {"AND", "OR", "NOT"}
    PROVE  /\ Spaced(w) \in Seq(Pieces) /\ Len(Spaced(w)) = 3
           /\ <<Blank>> \in Seq(Pieces) /\ Len(<<Blank>>) = 1
           /\ \A s, j : Here(s, j, Spaced(w)) =>
                  /\ j \in Nat /\ j + 3 <= Len(s) + 1 /\ s \in Seq(Pieces)
                  /\ s[j] = Blank /\ s[j + 1] = w /\ s[j + 2] = Blank
           /\ \A s, j : Here(s, j, <<Blank>>) =>
                  j \in Nat /\ j + 1 <= Len(s) + 1 /\ s[j] = Blank /\ s \in Seq(Pieces)
<1>0. w \in Joints /\ Blank \in Joints
  BY Zenon DEF Joints
<1>1. w \in Pieces /\ Blank \in Pieces
  BY <1>0, JointsTyped
<1>2. Spaced(w) \in Seq(Pieces) /\ <<Blank>> \in Seq(Pieces) /\ Len(Spaced(w)) = 3 /\ Len(<<Blank>>) = 1
  BY <1>1 DEF Spaced
<1>3. Spaced(w)[1] = Blank /\ Spaced(w)[2] = w /\ Spaced(w)[3] = Blank
  BY DEF Spaced
<1>4. ASSUME NEW s, NEW j, Here(s, j, Spaced(w))
      PROVE  /\ j \in Nat /\ j + 3 <= Len(s) + 1 /\ s \in Seq(Pieces)
             /\ s[j] = Blank /\ s[j + 1] = w /\ s[j + 2] = Blank
  <2>1. /\ j \in Nat /\ j + 3 <= Len(s) + 1 /\ s \in Seq(Pieces)
        /\ \A k \in 1..3 : s[j + k - 1] = Spaced(w)[k]
    BY <1>2, <1>4 DEF Here
  <2>2. s[j + 1 - 1] = Blank /\ s[j + 2 - 1] = w /\ s[j + 3 - 1] = Blank
    BY <1>3, <2>1
  <2>3. j + 1 - 1 = j /\ j + 2 - 1 = j + 1 /\ j + 3 - 1 = j + 2
    BY <2>1
  <2> QED BY <2>1, <2>2, <2>3
<1>5. ASSUME NEW s, NEW j, Here(s, j, <<Blank>>)
      PROVE  j \in Nat /\ j + 1 <= Len(s) + 1 /\ s[j] = Blank /\ s \in Seq(Pieces)
  <2>1. /\ j \in Nat /\ j + 1 <= Len(s) + 1 /\ s \in Seq(Pieces)
        /\ \A k \in 1..1 : s[j + k - 1] = <<Blank>>[k]
    BY <1>2, <1>5 DEF Here
  <2>2. s[j + 1 - 1] = Blank /\ j + 1 - 1 = j
    BY <2>1
  <2> QED BY <2>1, <2>2
<1> QED BY <1>2, <1>4, <1>5

\* A conjunction goes on with an operand, with AND or without.
LEMMA JoinAnd ==
    ASSUME NEW a, Begins(a), NEW p, p # Invalid, Conjunction(a, p),
           NEW b, Begins(b), NEW q, q # Invalid, Operand(b, q), MakeBoolMust(p, q) # Invalid,
           NEW mid \in {Spaced("AND"), <<Blank>>}
    PROVE  Conjunction(a \o mid \o b, MakeBoolMust(p, q))
<1> DEFINE c == a \o mid \o b
<1>1. mid \in Seq(Pieces)
  BY SpacedFacts
<1>2. /\ Len(a) \in Nat \ {0} /\ Len(b) \in Nat \ {0} /\ Len(mid) \in Nat
      /\ Len(c) = Len(a) + Len(mid) + Len(b)
  BY <1>1, JoinedFacts
<1>3. ASSUME NEW s, NEW i, NEW n, Typed(s, i, c, n), Edge(s, i + Len(c))
      PROVE  \E m \in 0..Len(c) - 1 :
                 AndReads(s, Reading(s)[n], i, m, Parsed(MakeBoolMust(p, q), i + Len(c)))
  <2> DEFINE j == i + Len(a)
             k == j + Len(mid)
             inside == Reading(s)[n]
  <2>1. Typed(s, i, a, n) /\ Here(s, j, mid) /\ Typed(s, k, b, n)
    BY <1>1, <1>3, JoinedFacts
  <2>2. /\ i \in Nat /\ Len(s) \in Nat /\ j \in 1..Len(s) + 1 /\ k \in 1..Len(s) /\ Len(a) <= Len(s)
        /\ k + Len(b) <= Len(s) + 1
    BY <1>2, <2>1, TypedFacts DEF Begins
  <2>3. At(s, k) \notin {Blank, ":", ")", End} /\ SkipSpace(s, k) = k
        /\ \A w \in {"AND", "OR", "NOT"} : ~ IsWord(s, k, w)
    BY <2>1, BeginsFacts
  <2>4. k + Len(b) = i + Len(c)
    BY <1>2, <2>2
  <2>5. ParsePrimary(s, inside, k) = Parsed(q, i + Len(c))
    BY <1>3, <2>1, <2>4 DEF Operand
  <2>6. PICK m \in 0..Len(a) - 1 : Edge(s, j) => AndReads(s, inside, i, m, Parsed(p, j))
    <3>1. CASE Edge(s, j)
      BY <2>1, <3>1 DEF Conjunction
    <3>2. CASE ~ Edge(s, j)
      <4>1. 0 \in 0..Len(a) - 1
        BY <1>2
      <4> QED BY <3>2, <4>1
    <3> QED BY <3>1, <3>2
  <2>7. m \in Nat /\ m + 1 \in 1..Len(s) /\ m + 1 \in 0..Len(c) - 1
    BY <1>2, <2>2
  <2> HIDE DEF k, inside, c
  <2>8. Edge(s, j) /\ AndTurn(s, inside, Parsed(p, j)) = Parsed(MakeBoolMust(p, q), i + Len(c))
    <3>1. CASE mid = Spaced("AND")
      <4>0. "AND" \in {"AND", "OR", "NOT"} /\ Here(s, j, Spaced("AND")) /\ Len(mid) = 3
        BY <2>1, <3>1, SpacedFacts
      <4>1. /\ j + 2 \in 1..Len(s) /\ j + 1 \in 1..Len(s) /\ j \in 1..Len(s)
            /\ s[j] = Blank /\ s[j + 1] = "AND" /\ s[j + 2] = Blank
        <5> HIDE DEF j
        <5>1. /\ j \in Nat /\ j + 3 <= Len(s) + 1
              /\ s[j] = Blank /\ s[j + 1] = "AND" /\ s[j + 2] = Blank
          BY <4>0, SpacedFacts
        <5> QED BY <2>2, <5>1
      <4>2. k = j + 3 /\ k = j + 2 + 1
        BY <2>2, <4>0 DEF k
      <4> HIDE DEF j
      <4>3. /\ At(s, j) = Blank /\ At(s, j + 1) = "AND" /\ At(s, j + 2) = Blank
            /\ j + 1 + 1 = j + 2 /\ j \in 1..Len(s) + 1
        BY <2>2, <4>1 DEF At
      <4>4. Edge(s, j)
        BY <4>1, <4>3, Distinct DEF Edge
      <4>5. SkipSpace(s, j) = j + 1
        BY <2>2, <4>1, <4>3, Distinct, SkipSpaceFacts
      <4>6. ParsePrimary(s, inside, j + 2) = Parsed(q, i + Len(c))
        BY <2>2, <2>3, <2>5, <4>1, <4>2, BlankBefore
      <4>7. IsWord(s, j + 1, "AND") /\ ~ IsWord(s, j + 1, "OR") /\ ~ IsWord(s, j + 1, "NOT")
        BY <4>3 DEF IsWord, InWord, Marks
      <4>8. At(s, j + 1) \notin {")", End}
        BY <4>3 DEF End
      <4> QED BY <4>3, <4>4, <4>5, <4>6, <4>7, <4>8, ParsedFacts DEF AndTurn, Joined
    <3>2. CASE mid = <<Blank>>
      <4>1. j \in 1..Len(s) /\ s[j] = Blank
        BY <2>1, <2>2, <3>2, SpacedFacts
      <4>2. k = j + 1
        BY <2>2, <3>2, SpacedFacts DEF k
      <4> HIDE DEF j
      <4>3. /\ At(s, j) = Blank /\ At(s, j + 1) \notin {Blank, ":", ")", End} /\ j + 1 \in 1..Len(s)
            /\ j \in 1..Len(s) + 1 /\ s[j + 1] \notin {Blank, ":"}
        BY <2>2, <2>3, <4>1, <4>2 DEF At
      <4>4. Edge(s, j)
        BY <4>1, <4>3 DEF Edge
      <4>5. SkipSpace(s, j) = j + 1
        BY <2>2, <4>1, <4>3, SkipSpaceFacts
      <4>6. ~ IsWord(s, j + 1, "AND") /\ ~ IsWord(s, j + 1, "OR") /\ ~ IsWord(s, j + 1, "NOT")
        BY <2>3, <4>2
      <4>7. ParsePrimary(s, inside, j + 1) = Parsed(q, i + Len(c))
        BY <2>5, <4>2
      <4> QED BY <4>3, <4>4, <4>5, <4>6, <4>7, ParsedFacts DEF AndTurn, Joined
    <3> QED BY <3>1, <3>2
  <2>9. AndReads(s, inside, i, m + 1, Parsed(MakeBoolMust(p, q), i + Len(c)))
    <3> HIDE DEF j
    <3> QED BY <2>6, <2>7, <2>8, OneTurn
  <2> QED BY <2>7, <2>9 DEF inside
<1> QED BY <1>3 DEF Conjunction

\* A conjunction is an alternative by itself.
LEMMA OneConjunction ==
    ASSUME NEW text, Begins(text), NEW q, q # Invalid, Conjunction(text, q)
    PROVE  Expression(text, q)
<1>1. ASSUME NEW s, NEW i, NEW n, Typed(s, i, text, n), OrEdge(s, i + Len(text))
      PROVE  \E m \in 0..Len(text) - 1 :
                 OrReads(s, Reading(s)[n], i, m, Parsed(q, SkipSpace(s, i + Len(text))))
  <2>1. ParseAnd(s, Reading(s)[n], i) = Parsed(q, SkipSpace(s, i + Len(text)))
    <3>1. Edge(s, i + Len(text))
      BY <1>1 DEF OrEdge
    <3>2. PICK m \in 0..Len(text) - 1 : AndReads(s, Reading(s)[n], i, m, Parsed(q, i + Len(text)))
      BY <1>1, <3>1 DEF Conjunction
    <3>3. Len(s) \in Nat /\ Len(text) \in Nat /\ Len(text) <= Len(s)
      BY <1>1, TypedFacts DEF Begins
    <3>4. m \in Nat /\ m < Len(s)
      BY <3>3
    <3> QED BY <1>1, <3>2, <3>3, <3>4, AndEnds
  <2>2. OrReads(s, Reading(s)[n], i, 0, Parsed(q, SkipSpace(s, i + Len(text))))
    BY <2>1 DEF OrReads, OrTurns
  <2>3. 0 \in 0..Len(text) - 1
    BY <1>1, TypedFacts DEF Begins
  <2> QED BY <2>2, <2>3
<1> QED BY <1>1 DEF Expression

\* What OR and NOT build.
MakeOr(w, p, q) == IF w = "NOT" THEN MakeBoolMustNotAnd(p, q) ELSE MakeBoolShould(p, q)

\* An expression goes on with a conjunction after OR or NOT.
LEMMA JoinOr ==
    ASSUME NEW a, Begins(a), NEW p, p # Invalid, Expression(a, p),
           NEW b, Begins(b), NEW q, q # Invalid, Conjunction(b, q),
           NEW w \in {"OR", "NOT"}
    PROVE  Expression(a \o Spaced(w) \o b, MakeOr(w, p, q))
<1> DEFINE mid == Spaced(w)
           c == a \o mid \o b
<1>1. mid \in Seq(Pieces) /\ Len(mid) = 3
  BY SpacedFacts
<1>2. /\ Len(a) \in Nat \ {0} /\ Len(b) \in Nat \ {0} /\ Len(mid) \in Nat
      /\ Len(c) = Len(a) + Len(mid) + Len(b)
  BY <1>1, JoinedFacts
<1>3. ASSUME NEW s, NEW i, NEW n, Typed(s, i, c, n), OrEdge(s, i + Len(c))
      PROVE  \E m \in 0..Len(c) - 1 :
                 OrReads(s, Reading(s)[n], i, m, Parsed(MakeOr(w, p, q), SkipSpace(s, i + Len(c))))
  <2> DEFINE j == i + Len(a)
             k == j + Len(mid)
             inside == Reading(s)[n]
             e == SkipSpace(s, i + Len(c))
  <2>1. Typed(s, i, a, n) /\ Here(s, j, mid) /\ Typed(s, k, b, n)
    BY <1>1, <1>3, JoinedFacts
  <2>2. /\ i \in Nat /\ Len(s) \in Nat /\ j \in 1..Len(s) + 1 /\ k \in 1..Len(s) /\ Len(a) <= Len(s)
        /\ k + Len(b) <= Len(s) + 1 /\ Len(b) <= Len(s)
    BY <1>2, <2>1, TypedFacts DEF Begins
  <2>3. At(s, k) \notin {Blank, ":", ")", End}
    BY <2>1, BeginsFacts
  <2>4. k + Len(b) = i + Len(c)
    BY <1>2, <2>2
  <2>5. ParseAnd(s, inside, k) = Parsed(q, e)
    <3>1. OrEdge(s, k + Len(b)) /\ Edge(s, k + Len(b))
      BY <1>3, <2>4 DEF OrEdge
    <3>2. PICK m \in 0..Len(b) - 1 : AndReads(s, inside, k, m, Parsed(q, k + Len(b)))
      BY <2>1, <3>1 DEF Conjunction
    <3>3. m \in Nat /\ m < Len(s)
      BY <1>2, <2>2
    <3> HIDE DEF inside, k
    <3>4. ParseAnd(s, inside, k) = Parsed(q, SkipSpace(s, k + Len(b)))
      BY <2>2, <3>1, <3>2, <3>3, AndEnds
    <3> QED BY <2>4, <3>4
  <2> HIDE DEF k, inside, c, e
  <2>6. /\ j + 2 \in 1..Len(s) /\ j + 1 \in 1..Len(s) /\ j \in 1..Len(s)
        /\ s[j] = Blank /\ s[j + 1] = w /\ s[j + 2] = Blank
    <3> HIDE DEF j
    <3>1. /\ j \in Nat /\ j + 3 <= Len(s) + 1
          /\ s[j] = Blank /\ s[j + 1] = w /\ s[j + 2] = Blank
      BY <2>1, SpacedFacts
    <3> QED BY <2>2, <3>1
  <2>7. k = j + 3 /\ k = j + 2 + 1
    BY <1>1, <2>2 DEF k
  <2>8. /\ At(s, j) = Blank /\ At(s, j + 1) = w /\ At(s, j + 2) = Blank
        /\ j + 1 + 1 = j + 2 /\ j \in 1..Len(s) + 1 /\ j + 1 \in 1..Len(s) + 1
    <3> HIDE DEF j
    <3> QED BY <2>2, <2>6 DEF At
  <2>9. SkipSpace(s, j) = j + 1 /\ SkipSpace(s, j + 1) = j + 1
    <3> HIDE DEF j
    <3> QED BY <2>2, <2>6, <2>8, Distinct, SkipSpaceFacts
  <2>10. IsWord(s, j + 1, w) /\ (w = "OR" => ~ IsWord(s, j + 1, "NOT"))
    <3> HIDE DEF j
    <3> QED BY <2>8 DEF IsWord, InWord, Marks
  <2>11. OrEdge(s, j)
    <3> HIDE DEF j
    <3> QED BY <2>6, <2>8, <2>9, <2>10, Distinct DEF OrEdge, Edge
  <2>12. PICK m \in 0..Len(a) - 1 : OrReads(s, inside, i, m, Parsed(p, j + 1))
    BY <2>1, <2>9, <2>11 DEF Expression, inside
  <2>13. m \in Nat /\ m + 1 \in 1..Len(s) /\ m + 1 \in 0..Len(c) - 1
    BY <1>2, <2>2
  <2>14. ParseAnd(s, inside, j + 2) = Parsed(q, e)
    <3> HIDE DEF j
    <3> QED BY <2>2, <2>3, <2>5, <2>6, <2>7, BlankBefore
  <2>15. OrTurn(s, inside, Parsed(p, j + 1)) = Parsed(MakeOr(w, p, q), e)
    <3> HIDE DEF j
    <3> QED BY <2>8, <2>9, <2>10, <2>14, ParsedFacts DEF OrTurn, Joined, MakeOr
  <2>16. OrReads(s, inside, i, m + 1, Parsed(MakeOr(w, p, q), e))
    <3> HIDE DEF j
    <3> QED BY <2>12, <2>13, <2>15, OneTurn
  <2> QED BY <2>13, <2>16 DEF inside, e
<1> QED BY <1>3 DEF Expression

\* An expression by itself is read as its query.
LEMMA ExpressionRead ==
    ASSUME NEW text, Begins(text), NEW q, q # Invalid, Expression(text, q)
    PROVE  ParseQueryString(text) = q
<1>1. text \in Seq(Pieces) /\ Len(text) \in Nat \ {0}
  BY DEF Begins
<1> DEFINE n == Len(text)
<1>2. Typed(text, 1, text, n)
  <2>1. \A k \in 1..n : text[1 + k - 1] = text[k]
    <3> TAKE k \in 1..n
    <3>1. 1 + k - 1 = k
      OBVIOUS
    <3> QED BY <3>1
  <2>2. 1 + n <= n + 1
    BY <1>1
  <2> QED BY <1>1, <2>1, <2>2 DEF Typed, Here
<1>3. 1 + n \in 1..n + 1 /\ At(text, 1 + n) = End /\ n + 1 = 1 + n
  BY <1>1 DEF At
<1>4. SkipSpace(text, 1 + n) = 1 + n
  BY <1>1, <1>3, Distinct, SkipSpaceFacts
<1>5. OrEdge(text, 1 + n) /\ Closes(text, 1 + n)
  BY <1>3, <1>4, Distinct DEF OrEdge, Edge, Closes
<1>6. PICK m \in 0..n - 1 : OrReads(text, Reading(text)[n], 1, m, Parsed(q, 1 + n))
  BY <1>2, <1>4, <1>5 DEF Expression
<1>7. m \in Nat /\ m < n
  BY <1>1
<1>8. ParseOr(text, Reading(text)[n], 1) = Parsed(q, 1 + n)
  BY <1>1, <1>3, <1>5, <1>6, <1>7, OrEnds
<1> QED BY <1>3, <1>4, <1>8, ParsedFacts DEF ParseQueryString, Whole

-----------------------------------------------------------------------------
(***************************************************************************)
(* What a query finds, from what its clauses find.                         *)
(***************************************************************************)

\* The clauses of a query, by how deep they are within it.
LevelsOf(q, level) ==
    /\ level[0] = {q}
    /\ \A n \in 1..Nesting : level[n] = UNION {Inner(c) : c \in level[n - 1]}

\* The clauses that are found to hold for a document, by how many bool queries are judged.
Judges(q, d, level, holding) ==
    /\ LevelsOf(q, level)
    /\ \A n \in 0..Nesting : \A c :
           c \in holding[n] <=>
               /\ \E l \in 0..Nesting : c \in level[l]
               /\ IF IsBool(c) THEN n > 0 /\ MatchesBool(c, holding[n - 1])
                  ELSE MatchesClause(Index({}, {}), d, c)

\* What a query finds by itself.
Hits(q) == HitsOf(Index({}, {}), q)

\* As a part of any query, a query holds for what it finds by itself, if there are at
\* most h bool queries within each other.
Stable(q, h) ==
    \A r, level, holding : \A d \in Docs, l \in Nat :
        Judges(r, d, level, holding) /\ l + h <= Nesting /\ q \in level[l] =>
            \A n \in h..Nesting : q \in holding[n] <=> d \in Hits(q)

\* The levels exist.
LEMMA WithinDef ==
    ASSUME NEW q
    PROVE  \E level : LevelsOf(q, level) /\ Within(q, Inner) = UNION {level[n] : n \in 0..Nesting}
<1> DEFINE Row(f, m) == IF m = 0 THEN {q} ELSE UNION {Inner(c) : c \in f[m - 1]}
           Loop(f, m) == f = [x \in 0..m |-> Row(f, x)]
           S == {m \in Nat : \E f : Loop(f, m)}
<1>0. \A f, g, m : (m # 0 => f[m - 1] = g[m - 1]) => Row(f, m) = Row(g, m)
  OBVIOUS
<1>9. \A f : Row(f, 0) = {q}
  OBVIOUS
<1> HIDE DEF Row
<1>1. 0 \in S
  <2>1. Loop([x \in 0..0 |-> {q}], 0)
    BY <1>9
  <2> QED BY <2>1
<1>2. ASSUME NEW m \in S \cap Nat PROVE m + 1 \in S
  <2>1. PICK f : Loop(f, m)
    BY <1>2
  <2> DEFINE g == [x \in 0..m + 1 |-> IF x \in 0..m THEN f[x] ELSE Row(f, x)]
  <2>2. ASSUME NEW x \in 0..m + 1
        PROVE  g[x] = Row(g, x)
    <3>1. x \in 0..m => f[x] = Row(f, x)
      BY <2>1
    <3>2. x # 0 => x - 1 \in 0..m /\ g[x - 1] = f[x - 1]
      OBVIOUS
    <3>3. Row(f, x) = Row(g, x)
      <4> HIDE DEF g
      <4> QED BY <1>0, <3>2
    <3>4. g[x] = Row(f, x)
      BY <3>1
    <3> QED BY <3>3, <3>4
  <2>3. Loop(g, m + 1)
    <3> DEFINE h == [x \in 0..m + 1 |-> Row(g, x)]
    <3>1. g = h
      BY <2>2
    <3> QED BY <3>1
  <2> HIDE DEF g
  <2>4. m + 1 \in Nat
    OBVIOUS
  <2> QED BY <2>3, <2>4
<1>3. Nesting \in S
  <2> HIDE DEF S
  <2> QED BY <1>1, <1>2, AllNaturals, NestingAssumption
<1>4. \E f : Loop(f, Nesting)
  BY <1>3
<1> DEFINE level == CHOOSE f : Loop(f, Nesting)
<1>5. Loop(level, Nesting)
  BY <1>4
<1>6. Within(q, Inner) = UNION {level[n] : n \in 0..Nesting}
  BY DEF Within, Row
<1> HIDE DEF level
<1>7. ASSUME NEW n \in 0..Nesting PROVE level[n] = Row(level, n)
  BY <1>5
<1>8. level[0] = {q}
  BY <1>7, <1>9, NestingAssumption
<1>10. ASSUME NEW n \in 1..Nesting PROVE level[n] = UNION {Inner(c) : c \in level[n - 1]}
  <2>1. n \in 0..Nesting /\ n # 0
    BY NestingAssumption
  <2> QED BY <1>7, <2>1 DEF Row
<1> QED BY <1>6, <1>8, <1>10 DEF LevelsOf

\* No postings are counted where none are.
LEMMA NothingCounted ==
    ASSUME NEW ix, ix.flushed = {}, NEW w
    PROVE  DocFreq(ix, w) = 0
<1> DEFINE C(d) == PostingsOf(ix.corpus[d], w)
           Pick(s) == CHOOSE x \in s : TRUE
           Iter(f) == f = [s \in SUBSET {} |->
                              IF s = {} THEN 0 ELSE LET x == Pick(s) IN C(x) + f[s \ {x}]]
           iter == CHOOSE f : Iter(f)
<1>1. DocFreq(ix, w) = iter[{}]
  BY DEF DocFreq, MapThenSumSet, MapThenFoldSet
<1> HIDE DEF C, Pick
<1>2. Iter([s \in SUBSET {} |-> 0])
  OBVIOUS
<1>3. Iter(iter)
  BY <1>2
<1> HIDE DEF iter
<1>4. iter[{}] = 0
  BY <1>3
<1> QED BY <1>1, <1>4

\* Whether words are rare is not asked while no document has postings.
LEMMA NothingPosted ==
    ASSUME NEW terms, NEW d, NEW q
    PROVE  MatchesClause([Index({}, {}) EXCEPT !.terms = terms], d, q) <=>
               MatchesClause(Index({}, {}), d, q)
<1> DEFINE ix == Index({}, {})
           known == [ix EXCEPT !.terms = terms]
<1>1. known.corpus = ix.corpus /\ known.flushed = {} /\ ix.flushed = {}
  BY DEF Index
<1> HIDE DEF known, ix
<1>2. \A w : Positive(ix, w) /\ Positive(known, w)
  <2> TAKE w
  <2>1. DocFreq(ix, w) = 0 /\ DocFreq(known, w) = 0
    BY <1>1, NothingCounted
  <2> QED BY <2>1 DEF Positive
<1>3. \A w : ~ Hit(ix, d, w) /\ ~ Hit(known, d, w)
  BY <1>1 DEF Hit, Posted
<1>4. \A f, w : HasWord(ix, d, f, w) <=> HasWord(known, d, f, w)
  BY <1>1, <1>3 DEF HasWord
<1>5. MatchesTerms(ix, d, q) <=> MatchesTerms(known, d, q)
  BY <1>1, <1>2, <1>4 DEF MatchesTerms
<1>6. MatchesWildcard(ix, ix.corpus[d], q) <=> MatchesWildcard(known, ix.corpus[d], q)
  BY <1>2 DEF MatchesWildcard
<1>7. ~ MatchesPhrase(ix, d, q) /\ ~ MatchesPhrase(known, d, q)
  BY <1>1 DEF MatchesPhrase
<1>8. \A words : ~ PhraseFits(ix, d, q, words) /\ ~ PhraseFits(known, d, q, words)
  BY <1>1 DEF PhraseFits
<1>9. MatchesMulti(ix, d, q) <=> MatchesMulti(known, d, q)
  BY <1>4, <1>8 DEF MatchesMulti
<1>10. MatchesClause(known, d, q) <=> MatchesClause(ix, d, q)
  BY <1>1, <1>4, <1>5, <1>6, <1>7, <1>9 DEF MatchesClause
<1> QED BY <1>10 DEF known, ix

\* What a query finds is judged level by level.
LEMMA HitsDef ==
    ASSUME NEW q, NEW d \in Docs
    PROVE  \E level, holding : /\ Judges(q, d, level, holding)
                               /\ d \in Hits(q) <=> q \in holding[Nesting]
<1> DEFINE ix == Index({}, {})
           known == [ix EXCEPT !.terms = KnownTerms(q)]
           Says(c) == MatchesClause(known, d, c)
           W == Within(q, Inner)
           start == {c \in Leaves(q) : Says(c)}
           Row(f, m) == IF m = 0 THEN start
                        ELSE start \cup {c \in W : IsBool(c) /\ MatchesBool(c, f[m - 1])}
           Loop(f, m) == f = [x \in 0..m |-> Row(f, x)]
           S == {m \in Nat : \E f : Loop(f, m)}
<1>A. d \in Hits(q) <=> Matches(known, d, q)
  BY CorpusAssumption DEF Hits, HitsOf, Index
<1>B. Matches(known, d, q) <=>
          LET holding[n \in 0..Nesting] ==
                  IF n = 0 THEN {c \in Leaves(q) : MatchesClause(known, d, c)}
                  ELSE {c \in Leaves(q) : MatchesClause(known, d, c)} \cup
                       {c \in Within(q, Inner) : IsBool(c) /\ MatchesBool(c, holding[n - 1])}
          IN q \in holding[Nesting]
  BY DEF Matches, Holds
<1>C. \A c : Says(c) <=> MatchesClause(ix, d, c)
  BY NothingPosted
<1>D. \A c : c \in start <=> c \in W /\ ~ IsBool(c) /\ Says(c)
  BY DEF Leaves
<1>E. Matches(known, d, q) <=> q \in (CHOOSE f : Loop(f, Nesting))[Nesting]
  BY <1>B
<1> HIDE DEF W, start, Says
<1>0. \A f, g, m : (m # 0 => f[m - 1] = g[m - 1]) => Row(f, m) = Row(g, m)
  OBVIOUS
<1>9. \A f : Row(f, 0) = start
  OBVIOUS
<1> HIDE DEF Row
<1>1. 0 \in S
  <2>1. Loop([x \in 0..0 |-> start], 0)
    BY <1>9
  <2> QED BY <2>1
<1>2. ASSUME NEW m \in S \cap Nat PROVE m + 1 \in S
  <2>1. PICK f : Loop(f, m)
    BY <1>2
  <2> DEFINE g == [x \in 0..m + 1 |-> IF x \in 0..m THEN f[x] ELSE Row(f, x)]
  <2>2. ASSUME NEW x \in 0..m + 1
        PROVE  g[x] = Row(g, x)
    <3>1. x \in 0..m => f[x] = Row(f, x)
      BY <2>1
    <3>2. x # 0 => x - 1 \in 0..m /\ g[x - 1] = f[x - 1]
      OBVIOUS
    <3>3. Row(f, x) = Row(g, x)
      <4> HIDE DEF g
      <4> QED BY <1>0, <3>2
    <3>4. g[x] = Row(f, x)
      BY <3>1
    <3> QED BY <3>3, <3>4
  <2>3. Loop(g, m + 1)
    <3> DEFINE h == [x \in 0..m + 1 |-> Row(g, x)]
    <3>1. g = h
      BY <2>2
    <3> QED BY <3>1
  <2> HIDE DEF g
  <2>4. m + 1 \in Nat
    OBVIOUS
  <2> QED BY <2>3, <2>4
<1>3. Nesting \in S
  <2> HIDE DEF S
  <2> QED BY <1>1, <1>2, AllNaturals, NestingAssumption
<1>4. \E f : Loop(f, Nesting)
  BY <1>3
<1> DEFINE holding == CHOOSE f : Loop(f, Nesting)
<1>5. Loop(holding, Nesting)
  BY <1>4
<1>6. d \in Hits(q) <=> q \in holding[Nesting]
  BY <1>A, <1>E
<1> HIDE DEF holding
<1>7. ASSUME NEW n \in 0..Nesting PROVE holding[n] = Row(holding, n)
  BY <1>5
<1>8. PICK level : LevelsOf(q, level) /\ W = UNION {level[n] : n \in 0..Nesting}
  BY WithinDef DEF W
<1>10. ASSUME NEW n \in 0..Nesting, NEW c
       PROVE  c \in holding[n] <=>
                  /\ \E l \in 0..Nesting : c \in level[l]
                  /\ IF IsBool(c) THEN n > 0 /\ MatchesBool(c, holding[n - 1])
                     ELSE MatchesClause(Index({}, {}), d, c)
  <2>1. c \in W <=> \E l \in 0..Nesting : c \in level[l]
    BY <1>8
  <2>2. c \in start <=> c \in W /\ ~ IsBool(c) /\ MatchesClause(Index({}, {}), d, c)
    BY <1>C, <1>D
  <2>3. n = 0 => holding[n] = start
    BY <1>7, <1>9
  <2>4. n # 0 => (c \in holding[n] <=> \/ c \in start
                                       \/ c \in W /\ IsBool(c) /\ MatchesBool(c, holding[n - 1]))
    BY <1>7 DEF Row
  <2>5. n # 0 <=> n > 0
    BY NestingAssumption
  <2> QED BY <2>1, <2>2, <2>3, <2>4, <2>5, Zenon
<1>11. Judges(q, d, level, holding)
  BY <1>8, <1>10 DEF Judges
<1> QED BY <1>6, <1>11

\* A bool query asks for its own clauses only.
LEMMA OwnClauses ==
    ASSUME NEW q, IsBool(q), NEW M
    PROVE  MatchesBool(q, M) <=> MatchesBool(q, {c \in Inner(q) : c \in M})
<1> DEFINE N == {c \in Inner(q) : c \in M}
<1>1. q.must \cup q.should \cup q.filter \cup q.must_not = Inner(q)
  BY DEF Inner, Scored
<1>2. q.must \cup q.filter \subseteq M <=> q.must \cup q.filter \subseteq N
  BY <1>1
<1>3. q.must_not \cap M = q.must_not \cap N
  BY <1>1
<1>4. q.should \cap M = q.should \cap N
  BY <1>1
<1> HIDE DEF N
<1>5. MatchesBool(q, M) <=> MatchesBool(q, N)
  BY <1>2, <1>3, <1>4 DEF MatchesBool
<1> QED BY <1>5 DEF N

\* A clause that is no bool query finds what it matches.
LEMMA LeafStable ==
    ASSUME NEW q, ~ IsBool(q)
    PROVE  /\ Stable(q, 0)
           /\ \A d \in Docs : d \in Hits(q) <=> MatchesClause(Index({}, {}), d, q)
<1>1. ASSUME NEW d \in Docs
      PROVE  d \in Hits(q) <=> MatchesClause(Index({}, {}), d, q)
  <2>1. PICK level, holding : Judges(q, d, level, holding) /\ (d \in Hits(q) <=> q \in holding[Nesting])
    BY HitsDef
  <2>2. q \in level[0] /\ 0 \in 0..Nesting /\ Nesting \in 0..Nesting
    BY <2>1, NestingAssumption DEF Judges, LevelsOf
  <2> QED BY <2>1, <2>2 DEF Judges
<1>2. ASSUME NEW r, NEW level, NEW holding, NEW d \in Docs, NEW l \in Nat,
             Judges(r, d, level, holding), l + 0 <= Nesting, q \in level[l], NEW n \in 0..Nesting
      PROVE  q \in holding[n] <=> d \in Hits(q)
  <2>1. l \in 0..Nesting
    BY <1>2, NestingAssumption
  <2>2. \E k \in 0..Nesting : q \in level[k]
    BY <1>2, <2>1
  <2>3. q \in holding[n] <=> MatchesClause(Index({}, {}), d, q)
    BY <1>2, <2>2 DEF Judges
  <2> QED BY <1>1, <2>3
<1>3. Stable(q, 0)
  BY <1>2 DEF Stable
<1> QED BY <1>1, <1>3

\* A bool query finds what its clauses, as they find things by themselves, make of it.
LEMMA BoolStable ==
    ASSUME NEW q, IsBool(q), NEW h \in Nat \ {0}, h <= Nesting, \A c \in Inner(q) : Stable(c, h - 1)
    PROVE  /\ Stable(q, h)
           /\ \A d \in Docs : d \in Hits(q) <=> MatchesBool(q, {c \in Inner(q) : d \in Hits(c)})
<1> DEFINE Right(d) == MatchesBool(q, {c \in Inner(q) : d \in Hits(c)})
<1>1. ASSUME NEW r, NEW level, NEW holding, NEW d \in Docs, NEW l \in Nat,
             Judges(r, d, level, holding), l + h <= Nesting, q \in level[l], NEW n \in h..Nesting
      PROVE  q \in holding[n] <=> Right(d)
  <2>1. /\ l \in 0..Nesting /\ l + 1 \in 1..Nesting /\ l + 1 \in Nat /\ l + 1 + (h - 1) <= Nesting
        /\ n \in 0..Nesting /\ n > 0 /\ n - 1 \in (h - 1)..Nesting /\ l + 1 - 1 = l
    BY <1>1, NestingAssumption
  <2>2. \E k \in 0..Nesting : q \in level[k]
    BY <1>1, <2>1
  <2>3. q \in holding[n] <=> MatchesBool(q, holding[n - 1])
    BY <1>1, <2>1, <2>2 DEF Judges
  <2>4. level[l + 1] = UNION {Inner(c) : c \in level[l]}
    BY <1>1, <2>1 DEF Judges, LevelsOf
  <2>5. ASSUME NEW c \in Inner(q) PROVE c \in holding[n - 1] <=> d \in Hits(c)
    <3>1. c \in level[l + 1]
      BY <1>1, <2>4
    <3>2. Stable(c, h - 1)
      OBVIOUS
    <3> QED BY <1>1, <2>1, <3>1, <3>2 DEF Stable
  <2>6. {c \in Inner(q) : c \in holding[n - 1]} = {c \in Inner(q) : d \in Hits(c)}
    BY <2>5
  <2> QED BY <2>3, <2>6, OwnClauses
<1> HIDE DEF Right
<1>2. ASSUME NEW d \in Docs
      PROVE  d \in Hits(q) <=> Right(d)
  <2>1. PICK level, holding : Judges(q, d, level, holding) /\ (d \in Hits(q) <=> q \in holding[Nesting])
    BY HitsDef
  <2>2. q \in level[0] /\ 0 \in Nat /\ 0 + h <= Nesting /\ Nesting \in h..Nesting
    BY <2>1, NestingAssumption DEF Judges, LevelsOf
  <2> QED BY <1>1, <2>1, <2>2
<1>3. Stable(q, h)
  BY <1>1, <1>2 DEF Stable
<1> QED BY <1>2, <1>3 DEF Right

\* What is stable within few bool queries is so within more.
LEMMA StableGrows ==
    ASSUME NEW q, NEW h \in Nat, Stable(q, h), NEW k \in Nat, h <= k
    PROVE  Stable(q, k)
<1> SUFFICES ASSUME NEW r, NEW level, NEW holding, NEW d \in Docs, NEW l \in Nat,
                    Judges(r, d, level, holding), l + k <= Nesting, q \in level[l], NEW n \in k..Nesting
             PROVE  q \in holding[n] <=> d \in Hits(q)
  BY DEF Stable
<1>1. l + h <= Nesting /\ n \in h..Nesting
  BY NestingAssumption
<1> QED BY <1>1 DEF Stable

-----------------------------------------------------------------------------
(***************************************************************************)
(* The distance of fuzzy queries.                                          *)
(***************************************************************************)

\* The least of three numbers.
LEMMA LeastOfThree ==
    ASSUME NEW x \in Int, NEW y \in Int, NEW z \in Int
    PROVE  /\ Min({x, y, z}) \in {x, y, z}
           /\ Min({x, y, z}) <= x /\ Min({x, y, z}) <= y /\ Min({x, y, z}) <= z
<1>1. \E m \in {x, y, z} : m <= x /\ m <= y /\ m <= z
  OBVIOUS
<1>2. PICK m \in {x, y, z} : \A k \in {x, y, z} : m <= k
  BY <1>1
<1> QED BY <1>2 DEF Min

\* Words without wide letters.
Narrow(w) == w \in Seq(Range(w)) /\ Range(w) \cap Wide = {}

\* Their letters are bytes.
LEMMA NarrowFacts ==
    ASSUME NEW w, Narrow(w)
    PROVE  /\ Len(w) \in Nat /\ Bytes(w) = Len(w)
           /\ \A i \in 1..Len(w) : LetterAt(w, i - 1) = {i}
<1>1. w \in Seq(Range(w)) /\ \A k \in DOMAIN w : w[k] \notin Wide
  BY DEF Narrow, Range
<1>2. Len(w) \in Nat /\ DOMAIN w = 1..Len(w)
  BY <1>1
<1>3. ASSUME NEW v, NEW n \in Nat, Len(v) = n, \A k \in DOMAIN v : v[k] \notin Wide
      PROVE  Bytes(v) = n
  <2>1. {k \in DOMAIN v : v[k] \in Wide} = {}
    BY <1>3
  <2> QED BY <1>3, <2>1, FS_EmptySet DEF Bytes
<1>4. ASSUME NEW k \in 1..Len(w)
      PROVE  Bytes(SubSeq(w, 1, k - 1)) = k - 1
  <2> DEFINE v == SubSeq(w, 1, k - 1)
  <2>1. Len(v) = k - 1 /\ DOMAIN v = 1..k - 1 /\ \A l \in 1..k - 1 : v[l] = w[l]
    BY <1>1, <1>2
  <2>2. \A l \in DOMAIN v : v[l] \notin Wide
    <3> HIDE DEF v
    <3> QED BY <1>1, <1>2, <2>1
  <2>3. k - 1 \in Nat
    BY <1>2
  <2> HIDE DEF v
  <2>4. Bytes(v) = k - 1
    BY <1>3, <2>1, <2>2, <2>3
  <2> QED BY <2>4 DEF v
<1>5. ASSUME NEW i \in 1..Len(w) PROVE LetterAt(w, i - 1) = {i}
  <2>1. \A k \in DOMAIN w : Bytes(SubSeq(w, 1, k - 1)) = i - 1 <=> k = i
    BY <1>2, <1>4
  <2> QED BY <1>2, <2>1 DEF LetterAt
<1>6. Bytes(w) = Len(w)
  BY <1>1, <1>2, <1>3
<1> QED BY <1>2, <1>5, <1>6

Cells(a, b) == (0..Len(a)) \X (0..Len(b))

\* The distances between the beginnings of two words.
Least(M, a, b, i, j) == Min({M[<<i - 1, j>>] + 1, M[<<i, j - 1>>] + 1,
                             M[<<i - 1, j - 1>>] + IF a[i] = b[j] THEN 0 ELSE 1})
Cell(M, a, b, i, j) == IF i = 0 THEN j ELSE IF j = 0 THEN i ELSE Least(M, a, b, i, j)
IsMatrix(M, a, b) == \A i \in 0..Len(a), j \in 0..Len(b) : M[<<i, j>>] = Cell(M, a, b, i, j)

\* What is known of those of the first k letters together.
UpTo(M, a, b, k) == \A i \in 0..Len(a), j \in 0..Len(b) : i + j <= k => M[<<i, j>>] = Cell(M, a, b, i, j)

\* A distance follows from those of fewer letters.
LEMMA CellFrom ==
    ASSUME NEW M, NEW N, NEW a, NEW b, NEW i, NEW j,
           i # 0 /\ j # 0 => /\ M[<<i - 1, j>>] = N[<<i - 1, j>>] /\ M[<<i, j - 1>>] = N[<<i, j - 1>>]
                             /\ M[<<i - 1, j - 1>>] = N[<<i - 1, j - 1>>]
    PROVE  Cell(M, a, b, i, j) = Cell(N, a, b, i, j)
<1>1. CASE i = 0 \/ j = 0
  BY <1>1 DEF Cell
<1>2. CASE i # 0 /\ j # 0
  <2>1. Least(M, a, b, i, j) = Least(N, a, b, i, j)
    BY <1>2 DEF Least
  <2> QED BY <1>2, <2>1 DEF Cell
<1> QED BY <1>1, <1>2

\* The distances exist.
LEMMA MatrixExists ==
    ASSUME NEW a, NEW b, Len(a) \in Nat, Len(b) \in Nat
    PROVE  \E M : M = [c \in Cells(a, b) |-> Cell(M, a, b, c[1], c[2])]
<1> DEFINE m == Len(a)
           n == Len(b)
           S == {k \in Nat : \E M : UpTo(M, a, b, k)}
<1> HIDE DEF m, n
<1>0. m \in Nat /\ n \in Nat
  BY DEF m, n
<1>9. /\ \A i \in 0..m, j \in 0..n : <<i, j>> \in Cells(a, b) /\ <<i, j>>[1] = i /\ <<i, j>>[2] = j
      /\ \A c \in Cells(a, b) : c[1] \in 0..m /\ c[2] \in 0..n /\ c = <<c[1], c[2]>>
  BY DEF Cells, m, n
<1>1. 0 \in S
  <2> DEFINE M == [c \in Cells(a, b) |-> 0]
  <2>1. ASSUME NEW i \in 0..m, NEW j \in 0..n, i + j <= 0
        PROVE  M[<<i, j>>] = Cell(M, a, b, i, j)
    <3>1. i = 0 /\ j = 0
      BY <1>0, <2>1
    <3>2. M[<<i, j>>] = 0
      BY <1>9
    <3> HIDE DEF M
    <3> QED BY <3>1, <3>2 DEF Cell
  <2> HIDE DEF M
  <2>2. UpTo(M, a, b, 0)
    BY <2>1 DEF UpTo, m, n
  <2> QED BY <2>2
<1>2. ASSUME NEW k \in S \cap Nat PROVE k + 1 \in S
  <2>1. PICK M : UpTo(M, a, b, k)
    BY <1>2
  <2> DEFINE N == [c \in Cells(a, b) |-> IF c[1] + c[2] <= k THEN M[c] ELSE Cell(M, a, b, c[1], c[2])]
  <2>2. \A i \in 0..m, j \in 0..n : N[<<i, j>>] = Cell(M, a, b, i, j)
    BY <1>9, <2>1 DEF UpTo, m, n
  <2>3. \A i \in 0..m, j \in 0..n : i + j <= k => N[<<i, j>>] = M[<<i, j>>]
    BY <1>9
  <2> HIDE DEF N
  <2>4. ASSUME NEW i \in 0..m, NEW j \in 0..n, i + j <= k + 1
        PROVE  N[<<i, j>>] = Cell(N, a, b, i, j)
    <3>1. i # 0 /\ j # 0 => /\ i - 1 \in 0..m /\ j - 1 \in 0..n /\ (i - 1) + j <= k /\ i + (j - 1) <= k
                            /\ (i - 1) + (j - 1) <= k
      BY <1>0, <2>4
    <3>2. i # 0 /\ j # 0 => /\ N[<<i - 1, j>>] = M[<<i - 1, j>>] /\ N[<<i, j - 1>>] = M[<<i, j - 1>>]
                            /\ N[<<i - 1, j - 1>>] = M[<<i - 1, j - 1>>]
      BY <2>3, <3>1
    <3> QED BY <2>2, <3>2, CellFrom
  <2>5. UpTo(N, a, b, k + 1)
    BY <2>4 DEF UpTo, m, n
  <2> QED BY <2>5
<1>3. m + n \in S
  <2>1. m + n \in Nat
    BY <1>0
  <2> HIDE DEF S
  <2> QED BY <1>1, <1>2, <2>1, AllNaturals
<1>4. PICK M : UpTo(M, a, b, m + n)
  BY <1>3
<1> DEFINE N == [c \in Cells(a, b) |-> M[c]]
           R == [c \in Cells(a, b) |-> Cell(N, a, b, c[1], c[2])]
<1>5. ASSUME NEW i \in 0..m, NEW j \in 0..n
      PROVE  N[<<i, j>>] = Cell(N, a, b, i, j)
  <2>1. \A k \in 0..m, l \in 0..n : N[<<k, l>>] = M[<<k, l>>]
    BY <1>9
  <2>2. M[<<i, j>>] = Cell(M, a, b, i, j)
    <3>1. i + j <= m + n
      BY <1>0
    <3> QED BY <1>4, <3>1 DEF UpTo, m, n
  <2> HIDE DEF N
  <2>3. i # 0 /\ j # 0 => /\ N[<<i - 1, j>>] = M[<<i - 1, j>>] /\ N[<<i, j - 1>>] = M[<<i, j - 1>>]
                          /\ N[<<i - 1, j - 1>>] = M[<<i - 1, j - 1>>]
    <3>1. i # 0 /\ j # 0 => i - 1 \in 0..m /\ j - 1 \in 0..n
      BY <1>0
    <3> QED BY <2>1, <3>1
  <2>4. Cell(N, a, b, i, j) = Cell(M, a, b, i, j)
    BY <2>3, CellFrom
  <2>5. N[<<i, j>>] = M[<<i, j>>]
    BY <2>1
  <2> QED BY <2>2, <2>4, <2>5
<1>6. N = R
  <2>1. ASSUME NEW c \in Cells(a, b) PROVE N[c] = Cell(N, a, b, c[1], c[2])
    <3> HIDE DEF N
    <3> QED BY <1>5, <1>9
  <2>2. ASSUME NEW c \in Cells(a, b) PROVE N[c] = M[c]
    OBVIOUS
  <2> QED BY <2>1, <2>2
<1> QED BY <1>6 DEF m, n

\* The distances are numbers, one letter more changes them by one at most, and equal
\* letters at the end do not matter.
Even(M, a, b, i, j) ==
    /\ M[<<i, j>>] \in Nat
    /\ i # 0 => M[<<i - 1, j>>] <= M[<<i, j>>] + 1 /\ M[<<i, j>>] <= M[<<i - 1, j>>] + 1
    /\ j # 0 => M[<<i, j - 1>>] <= M[<<i, j>>] + 1 /\ M[<<i, j>>] <= M[<<i, j - 1>>] + 1
    /\ i # 0 /\ j # 0 => /\ M[<<i - 1, j - 1>>] <= M[<<i, j>>]
                         /\ M[<<i, j>>] <= M[<<i - 1, j - 1>>] + 1
                         /\ a[i] = b[j] => M[<<i, j>>] = M[<<i - 1, j - 1>>]

\* That is so for all the beginnings of two words.
LEMMA AllEven ==
    ASSUME NEW M, NEW a, NEW b, Len(a) \in Nat, Len(b) \in Nat, IsMatrix(M, a, b)
    PROVE  \A i \in 0..Len(a), j \in 0..Len(b) : Even(M, a, b, i, j)
<1> DEFINE m == Len(a)
           n == Len(b)
           S == {k \in Nat : \A i \in 0..m, j \in 0..n : i + j <= k => Even(M, a, b, i, j)}
<1> HIDE DEF m, n
<1>0. m \in Nat /\ n \in Nat /\ \A i \in 0..m, j \in 0..n : M[<<i, j>>] = Cell(M, a, b, i, j)
  BY DEF m, n, IsMatrix
<1>1. 0 \in S
  <2>1. ASSUME NEW i \in 0..m, NEW j \in 0..n, i + j <= 0 PROVE Even(M, a, b, i, j)
    <3>1. i = 0 /\ j = 0
      BY <1>0, <2>1
    <3>2. M[<<0, 0>>] = 0
      BY <1>0, <3>1 DEF Cell
    <3> QED BY <3>1, <3>2 DEF Even
  <2> QED BY <2>1
<1>2. ASSUME NEW k \in S \cap Nat PROVE k + 1 \in S
  <2>0. \A i \in 0..m, j \in 0..n : i + j <= k => Even(M, a, b, i, j)
    OBVIOUS
  <2>1. ASSUME NEW i \in 0..m, NEW j \in 0..n, i + j <= k + 1 PROVE Even(M, a, b, i, j)
    <3>0. i \in Nat /\ j \in Nat /\ M[<<i, j>>] = Cell(M, a, b, i, j)
      BY <1>0
    <3>1. CASE i = 0
      <4>1. M[<<i, j>>] = j
        BY <3>0, <3>1 DEF Cell
      <4>2. j # 0 => M[<<i, j - 1>>] = j - 1
        <5>1. j # 0 => j - 1 \in 0..n
          BY <1>0
        <5> QED BY <1>0, <3>1, <5>1 DEF Cell
      <4> QED BY <3>0, <3>1, <4>1, <4>2 DEF Even
    <3>2. CASE i # 0 /\ j = 0
      <4>1. M[<<i, j>>] = i
        BY <3>0, <3>2 DEF Cell
      <4>2. M[<<i - 1, j>>] = i - 1
        <5>1. i - 1 \in 0..m /\ M[<<i - 1, j>>] = Cell(M, a, b, i - 1, j)
          BY <1>0, <3>2
        <5>2. i - 1 = 0 => Cell(M, a, b, i - 1, j) = j
          BY DEF Cell
        <5>3. i - 1 # 0 => Cell(M, a, b, i - 1, j) = i - 1
          BY <3>2 DEF Cell
        <5> QED BY <3>0, <3>2, <5>1, <5>2, <5>3
      <4> QED BY <3>0, <3>2, <4>1, <4>2 DEF Even
    <3>3. CASE i # 0 /\ j # 0
      <4> DEFINE x == M[<<i - 1, j>>]
                 y == M[<<i, j - 1>>]
                 z == M[<<i - 1, j - 1>>]
                 e == IF a[i] = b[j] THEN 0 ELSE 1
                 v == M[<<i, j>>]
      <4>1. /\ i - 1 \in 0..m /\ j - 1 \in 0..n /\ (i - 1) + j <= k /\ i + (j - 1) <= k
            /\ (i - 1) + (j - 1) <= k
        BY <1>0, <2>1, <3>0, <3>3
      <4>2. Even(M, a, b, i - 1, j) /\ Even(M, a, b, i, j - 1) /\ Even(M, a, b, i - 1, j - 1)
        BY <2>0, <4>1
      <4>3. x \in Nat /\ y \in Nat /\ z \in Nat
        BY <4>2 DEF Even
      <4>4. z <= x + 1 /\ x <= z + 1
        BY <3>3, <4>2 DEF Even
      <4>5. z <= y + 1 /\ y <= z + 1
        BY <3>3, <4>2 DEF Even
      <4>6. v = Min({x + 1, y + 1, z + e})
        BY <3>0, <3>3 DEF Cell, Least
      <4>7. e \in {0, 1} /\ (e = 0 <=> a[i] = b[j])
        OBVIOUS
      <4> HIDE DEF x, y, z, e, v
      <4>8. v \in {x + 1, y + 1, z + e} /\ v <= x + 1 /\ v <= y + 1 /\ v <= z + e
        <5>1. x + 1 \in Int /\ y + 1 \in Int /\ z + e \in Int
          BY <4>3, <4>7
        <5> QED BY <4>6, <5>1, LeastOfThree
      <4>9. v \in Nat /\ x <= v + 1 /\ y <= v + 1 /\ z <= v /\ (e = 0 => v = z)
        BY <4>3, <4>4, <4>5, <4>7, <4>8
      <4>10. /\ v \in Nat /\ x <= v + 1 /\ v <= x + 1 /\ y <= v + 1 /\ v <= y + 1
             /\ z <= v /\ v <= z + 1 /\ (a[i] = b[j] => v = z)
        BY <4>3, <4>7, <4>8, <4>9
      <4> QED BY <4>10 DEF Even, x, y, z, v
    <3> QED BY <3>0, <3>1, <3>2, <3>3
  <2> QED BY <2>1
<1>3. m + n \in S
  <2>1. m + n \in Nat
    BY <1>0
  <2> HIDE DEF S
  <2> QED BY <1>1, <1>2, <2>1, AllNaturals
<1>4. ASSUME NEW i \in 0..m, NEW j \in 0..n PROVE Even(M, a, b, i, j)
  <2>1. i + j <= m + n
    BY <1>0
  <2> QED BY <1>3, <2>1
<1> QED BY <1>4 DEF m, n

\* The cells that a distance follows from by the definition of the edit distance.
Edits(E, a, b, i, j) ==
    IF i = 0 \/ j = 0 THEN i + j
    ELSE IF a[i] = b[j] THEN E[<<i - 1, j - 1>>]
    ELSE 1 + Min({E[<<i - 1, j>>], E[<<i, j - 1>>], E[<<i - 1, j - 1>>]})

\* They are the same.
Alike(M, E, i, j) ==
    i # 0 /\ j # 0 =>
        /\ M[<<i - 1, j>>] \in Nat /\ M[<<i, j - 1>>] \in Nat /\ M[<<i - 1, j - 1>>] \in Nat
        /\ E[<<i - 1, j>>] = M[<<i - 1, j>>] /\ E[<<i, j - 1>>] = M[<<i, j - 1>>]
        /\ E[<<i - 1, j - 1>>] = M[<<i - 1, j - 1>>]

\* Where the distances are even, they are edit distances.
LEMMA EditsFrom ==
    ASSUME NEW M, NEW E, NEW a, NEW b, NEW i \in Nat, NEW j \in Nat, Even(M, a, b, i, j),
           M[<<i, j>>] = Cell(M, a, b, i, j),
           Alike(M, E, i, j)
    PROVE  Edits(E, a, b, i, j) = M[<<i, j>>]
<1>1. CASE i = 0 \/ j = 0
  BY <1>1 DEF Edits, Cell
<1>2. CASE i # 0 /\ j # 0 /\ a[i] = b[j]
  BY <1>2 DEF Edits, Even, Alike
<1>3. CASE i # 0 /\ j # 0 /\ a[i] # b[j]
  <2> DEFINE x == M[<<i - 1, j>>]
             y == M[<<i, j - 1>>]
             z == M[<<i - 1, j - 1>>]
             v == M[<<i, j>>]
  <2>0. Alike(M, E, i, j)
    OBVIOUS
  <2>1. v = Min({x + 1, y + 1, z + 1})
    BY <1>3 DEF Cell, Least
  <2>2. Edits(E, a, b, i, j) = 1 + Min({x, y, z})
    BY <1>3, <2>0 DEF Edits, Alike
  <2>3. x \in Nat /\ y \in Nat /\ z \in Nat
    BY <1>3, <2>0 DEF Alike
  <2> HIDE DEF x, y, z, v
  <2>4. x \in Int /\ y \in Int /\ z \in Int /\ x + 1 \in Int /\ y + 1 \in Int /\ z + 1 \in Int
    BY <2>3
  <2>5. v \in {x + 1, y + 1, z + 1} /\ v <= x + 1 /\ v <= y + 1 /\ v <= z + 1
    BY <2>1, <2>4, LeastOfThree
  <2> DEFINE u == Min({x, y, z})
  <2>6. u \in {x, y, z} /\ u <= x /\ u <= y /\ u <= z
    BY <2>4, LeastOfThree
  <2> HIDE DEF u
  <2>7. 1 + u = v
    BY <2>4, <2>5, <2>6
  <2> QED BY <2>2, <2>7 DEF u, v
<1> QED BY <1>1, <1>2, <1>3

\* The edit distance is one of the matrix.
LEMMA EditDistanceIs ==
    ASSUME NEW M, NEW a, NEW b, Len(a) \in Nat, Len(b) \in Nat,
           M = [c \in Cells(a, b) |-> Cell(M, a, b, c[1], c[2])]
    PROVE  IsMatrix(M, a, b) /\ EditDistance(a, b) = M[<<Len(a), Len(b)>>]
<1> DEFINE m == Len(a)
           n == Len(b)
           Loop(f) == f = [c \in Cells(a, b) |-> Edits(f, a, b, c[1], c[2])]
           E == CHOOSE f : Loop(f)
<1>0. /\ \A i \in 0..m, j \in 0..n : <<i, j>> \in Cells(a, b) /\ <<i, j>>[1] = i /\ <<i, j>>[2] = j
      /\ \A c \in Cells(a, b) : c[1] \in 0..m /\ c[2] \in 0..n /\ c = <<c[1], c[2]>>
  BY DEF Cells
<1>1. EditDistance(a, b) = E[<<m, n>>]
  BY DEF EditDistance, Edits, Cells
<1> HIDE DEF m, n, Loop
<1>2. m \in Nat /\ n \in Nat
  BY DEF m, n
<1>3. ASSUME NEW i \in 0..m, NEW j \in 0..n PROVE M[<<i, j>>] = Cell(M, a, b, i, j)
  BY <1>0
<1>4. IsMatrix(M, a, b)
  BY <1>3 DEF IsMatrix, m, n
<1>5. \A i \in 0..m, j \in 0..n : Even(M, a, b, i, j)
  BY <1>4, AllEven DEF m, n
<1>6. \A i \in 0..m, j \in 0..n : M[<<i, j>>] \in Nat
  BY <1>5 DEF Even
<1>7. Loop(M)
  <2>1. ASSUME NEW i \in 0..m, NEW j \in 0..n PROVE Edits(M, a, b, i, j) = M[<<i, j>>]
    <3>1. i # 0 /\ j # 0 => i - 1 \in 0..m /\ j - 1 \in 0..n
      BY <1>2
    <3>2. i # 0 /\ j # 0 => /\ M[<<i - 1, j>>] \in Nat /\ M[<<i, j - 1>>] \in Nat
                            /\ M[<<i - 1, j - 1>>] \in Nat
      BY <1>6, <3>1
    <3>3. i \in Nat /\ j \in Nat /\ Even(M, a, b, i, j)
      BY <1>2, <1>5
    <3>4. Alike(M, M, i, j)
      BY <3>2 DEF Alike
    <3> QED BY <1>3, <3>3, <3>4, EditsFrom
  <2>2. ASSUME NEW c \in Cells(a, b) PROVE M[c] = Edits(M, a, b, c[1], c[2])
    BY <1>0, <2>1
  <2> DEFINE R == [c \in Cells(a, b) |-> Edits(M, a, b, c[1], c[2])]
  <2>3. M = R
    BY <2>2
  <2> QED BY <2>3 DEF Loop
<1>8. Loop(E)
  BY <1>7
<1> HIDE DEF E
<1>9. ASSUME NEW i \in 0..m, NEW j \in 0..n PROVE E[<<i, j>>] = Edits(E, a, b, i, j)
  BY <1>0, <1>8 DEF Loop
<1> DEFINE S == {k \in Nat : \A i \in 0..m, j \in 0..n : i + j <= k => E[<<i, j>>] = M[<<i, j>>]}
<1>10. ASSUME NEW i \in 0..m, NEW j \in 0..n,
              i # 0 /\ j # 0 => /\ E[<<i - 1, j>>] = M[<<i - 1, j>>] /\ E[<<i, j - 1>>] = M[<<i, j - 1>>]
                                /\ E[<<i - 1, j - 1>>] = M[<<i - 1, j - 1>>]
       PROVE  E[<<i, j>>] = M[<<i, j>>]
  <2>1. i # 0 /\ j # 0 => i - 1 \in 0..m /\ j - 1 \in 0..n
    BY <1>2
  <2>2. i # 0 /\ j # 0 => /\ M[<<i - 1, j>>] \in Nat /\ M[<<i, j - 1>>] \in Nat
                          /\ M[<<i - 1, j - 1>>] \in Nat
    BY <1>6, <2>1
  <2>3. i \in Nat /\ j \in Nat /\ Even(M, a, b, i, j)
    BY <1>2, <1>5
  <2>5. M[<<i, j>>] = Cell(M, a, b, i, j)
    BY <1>3
  <2>6. Alike(M, E, i, j)
    BY <1>10, <2>2 DEF Alike
  <2>4. Edits(E, a, b, i, j) = M[<<i, j>>]
    BY <2>3, <2>5, <2>6, EditsFrom
  <2> QED BY <1>9, <2>4
<1>11. 0 \in S
  <2>1. ASSUME NEW i \in 0..m, NEW j \in 0..n, i + j <= 0 PROVE E[<<i, j>>] = M[<<i, j>>]
    <3>1. i = 0 /\ j = 0
      BY <1>2, <2>1
    <3> QED BY <1>10, <3>1
  <2> QED BY <2>1
<1>12. ASSUME NEW k \in S \cap Nat PROVE k + 1 \in S
  <2>1. ASSUME NEW i \in 0..m, NEW j \in 0..n, i + j <= k + 1 PROVE E[<<i, j>>] = M[<<i, j>>]
    <3>1. i # 0 /\ j # 0 => /\ i - 1 \in 0..m /\ j - 1 \in 0..n /\ (i - 1) + j <= k /\ i + (j - 1) <= k
                            /\ (i - 1) + (j - 1) <= k
      BY <1>2, <2>1
    <3>2. \A x \in 0..m, y \in 0..n : x + y <= k => E[<<x, y>>] = M[<<x, y>>]
      OBVIOUS
    <3>3. i # 0 /\ j # 0 => /\ E[<<i - 1, j>>] = M[<<i - 1, j>>] /\ E[<<i, j - 1>>] = M[<<i, j - 1>>]
                            /\ E[<<i - 1, j - 1>>] = M[<<i - 1, j - 1>>]
      BY <3>1, <3>2
    <3> QED BY <1>10, <3>3
  <2> QED BY <2>1
<1>13. m + n \in S
  <2>1. m + n \in Nat
    BY <1>2
  <2> HIDE DEF S
  <2> QED BY <1>11, <1>12, <2>1, AllNaturals
<1>14. E[<<m, n>>] = M[<<m, n>>]
  <2>1. m \in 0..m /\ n \in 0..n /\ m + n <= m + n
    BY <1>2
  <2> QED BY <1>13, <2>1
<1> QED BY <1>1, <1>4, <1>14 DEF m, n

\* levenshtein_distance fills that matrix for words without wide letters.
LEMMA LevenshteinIs ==
    ASSUME NEW a, NEW b, Narrow(a), Narrow(b)
    PROVE  \E M : /\ M = [c \in Cells(a, b) |-> Cell(M, a, b, c[1], c[2])]
                  /\ Levenshtein(a, b) = M[<<Len(a), Len(b)>>]
<1> DEFINE m == Len(a)
           n == Len(b)
           Loop(f) == f = [c \in Cells(a, b) |-> Cell(f, a, b, c[1], c[2])]
           Filled(f, c) ==
               LET i == c[1]
                   j == c[2]
                   same == \E k \in LetterAt(a, i - 1), l \in LetterAt(b, j - 1) : a[k] = b[l]
               IN IF i = 0 THEN j
                  ELSE IF j = 0 THEN i
                  ELSE IF LetterAt(a, i - 1) = {} \/ LetterAt(b, j - 1) = {} THEN 0
                  ELSE Min({f[<<i - 1, j>>] + 1, f[<<i, j - 1>>] + 1,
                            f[<<i - 1, j - 1>>] + IF same THEN 0 ELSE 1})
           Fills(f) == f = [c \in (0..Bytes(a)) \X (0..Bytes(b)) |-> Filled(f, c)]
           M == CHOOSE f : Fills(f)
<1>1. Levenshtein(a, b) = IF a = <<>> THEN Bytes(b) ELSE M[<<Bytes(a), Bytes(b)>>]
  BY DEF Levenshtein
<1>2. m \in Nat /\ n \in Nat /\ Bytes(a) = m /\ Bytes(b) = n
  BY NarrowFacts
<1>3. ASSUME NEW f, NEW c \in Cells(a, b) PROVE Filled(f, c) = Cell(f, a, b, c[1], c[2])
  <2> DEFINE i == c[1]
             j == c[2]
  <2>1. i \in 0..m /\ j \in 0..n
    BY DEF Cells
  <2>2. i # 0 => LetterAt(a, i - 1) = {i}
    BY <1>2, <2>1, NarrowFacts
  <2>3. j # 0 => LetterAt(b, j - 1) = {j}
    BY <1>2, <2>1, NarrowFacts
  <2> HIDE DEF i, j, m, n
  <2>4. i # 0 /\ j # 0 => ((\E k \in LetterAt(a, i - 1), l \in LetterAt(b, j - 1) : a[k] = b[l]) <=> a[i] = b[j])
    BY <2>2, <2>3
  <2>5. CASE i = 0 \/ j = 0
    BY <2>5 DEF Cell, i, j
  <2>6. CASE i # 0 /\ j # 0
    <3>1. Filled(f, c) = Least(f, a, b, i, j)
      BY <2>2, <2>3, <2>4, <2>6 DEF Least, i, j
    <3> QED BY <2>6, <3>1 DEF Cell, i, j
  <2> QED BY <2>5, <2>6
<1> HIDE DEF Filled
<1>4. \A f : Fills(f) <=> Loop(f)
  <2> TAKE f
  <2>1. (0..Bytes(a)) \X (0..Bytes(b)) = Cells(a, b)
    BY <1>2 DEF Cells
  <2> DEFINE R == [c \in Cells(a, b) |-> Filled(f, c)]
             T == [c \in Cells(a, b) |-> Cell(f, a, b, c[1], c[2])]
  <2>2. R = T
    BY <1>3
  <2> HIDE DEF R, T
  <2>3. Fills(f) <=> f = R
    BY <2>1 DEF R
  <2> QED BY <2>2, <2>3 DEF T
<1>5. \E f : Loop(f)
  BY <1>2, MatrixExists
<1> HIDE DEF Fills, Loop
<1>6. Loop(M)
  BY <1>4, <1>5
<1> HIDE DEF M
<1>7. Levenshtein(a, b) = M[<<m, n>>]
  <2>1. CASE a = <<>>
    <3>1. m = 0 /\ <<0, n>> \in Cells(a, b) /\ <<0, n>>[1] = 0 /\ <<0, n>>[2] = n
      BY <1>2, <2>1 DEF Cells
    <3>2. M[<<0, n>>] = Cell(M, a, b, 0, n)
      BY <1>6, <3>1 DEF Loop
    <3>3. M[<<0, n>>] = n
      BY <3>2 DEF Cell
    <3>4. M[<<m, n>>] = n
      BY <3>1, <3>3
    <3> HIDE DEF m, n
    <3> QED BY <1>1, <1>2, <2>1, <3>4
  <2>2. CASE a # <<>>
    BY <1>1, <1>2, <2>2
  <2> QED BY <2>1, <2>2
<1> QED BY <1>6, <1>7 DEF Loop

\* For words without wide letters, levenshtein_distance is the edit distance.
THEOREM LevenshteinIsEditDistance ==
    ASSUME NEW a, NEW b, Narrow(a), Narrow(b)
    PROVE  Levenshtein(a, b) = EditDistance(a, b)
<1>1. Len(a) \in Nat /\ Len(b) \in Nat
  BY NarrowFacts
<1>2. PICK M : /\ M = [c \in Cells(a, b) |-> Cell(M, a, b, c[1], c[2])]
               /\ Levenshtein(a, b) = M[<<Len(a), Len(b)>>]
  BY LevenshteinIs
<1>3. EditDistance(a, b) = M[<<Len(a), Len(b)>>]
  BY <1>1, <1>2, EditDistanceIs
<1> QED BY <1>2, <1>3

\* Words are no edit apart if they are equal.
LEMMA NoEdit ==
    ASSUME NEW a, NEW b, Narrow(a), Narrow(b)
    PROVE  EditDistance(a, b) \in Nat /\ (EditDistance(a, b) = 0 <=> a = b)
<1> DEFINE m == Len(a)
           n == Len(b)
<1>1. m \in Nat /\ n \in Nat
  BY NarrowFacts
<1>2. PICK M : M = [c \in Cells(a, b) |-> Cell(M, a, b, c[1], c[2])]
  BY <1>1, MatrixExists
<1>3. IsMatrix(M, a, b) /\ EditDistance(a, b) = M[<<m, n>>]
  BY <1>1, <1>2, EditDistanceIs
<1>4. \A i \in 0..m, j \in 0..n : Even(M, a, b, i, j) /\ M[<<i, j>>] = Cell(M, a, b, i, j)
  BY <1>1, <1>3, AllEven DEF IsMatrix
<1> HIDE DEF m, n
<1> DEFINE Same(i, j) == i = j /\ \A k \in 1..i : a[k] = b[k]
           S == {k \in Nat : \A i \in 0..m, j \in 0..n : i + j <= k => (M[<<i, j>>] = 0 <=> Same(i, j))}
<1>5. ASSUME NEW i \in 0..m, NEW j \in 0..n, i = 0 \/ j = 0 PROVE M[<<i, j>>] = 0 <=> Same(i, j)
  <2>1. M[<<i, j>>] = IF i = 0 THEN j ELSE i
    BY <1>4, <1>5 DEF Cell
  <2> QED BY <1>1, <1>5, <2>1
<1>6. 0 \in S
  <2>1. ASSUME NEW i \in 0..m, NEW j \in 0..n, i + j <= 0 PROVE M[<<i, j>>] = 0 <=> Same(i, j)
    <3>1. i = 0
      BY <1>1, <2>1
    <3> QED BY <1>5, <3>1
  <2> QED BY <2>1
<1>7. ASSUME NEW k \in S \cap Nat PROVE k + 1 \in S
  <2>1. ASSUME NEW i \in 0..m, NEW j \in 0..n, i + j <= k + 1 PROVE M[<<i, j>>] = 0 <=> Same(i, j)
    <3>1. CASE i = 0 \/ j = 0
      BY <1>5, <3>1
    <3>2. CASE i # 0 /\ j # 0
      <4>1. i - 1 \in 0..m /\ j - 1 \in 0..n /\ (i - 1) + (j - 1) <= k /\ i \in Nat /\ j \in Nat
        BY <1>1, <2>1, <3>2
      <4>2. M[<<i - 1, j - 1>>] = 0 <=> Same(i - 1, j - 1)
        BY <4>1
      <4>3. Even(M, a, b, i, j) /\ Even(M, a, b, i - 1, j - 1)
        BY <1>4, <4>1
      <4>4. CASE a[i] = b[j]
        <5>1. M[<<i, j>>] = M[<<i - 1, j - 1>>]
          BY <3>2, <4>3, <4>4 DEF Even
        <5>2. Same(i - 1, j - 1) <=> Same(i, j)
          BY <3>2, <4>1, <4>4
        <5> QED BY <4>2, <5>1, <5>2
      <4>5. CASE a[i] # b[j]
        <5> DEFINE x == M[<<i - 1, j>>]
                   y == M[<<i, j - 1>>]
                   z == M[<<i - 1, j - 1>>]
                   v == M[<<i, j>>]
        <5>1. x \in Nat /\ y \in Nat /\ z \in Nat
          <6>1. Even(M, a, b, i - 1, j) /\ Even(M, a, b, i, j - 1)
            BY <1>4, <4>1
          <6> QED BY <4>3, <6>1 DEF Even
        <5>2. v = Min({x + 1, y + 1, z + 1})
          BY <1>4, <3>2, <4>5 DEF Cell, Least
        <5> HIDE DEF x, y, z, v
        <5>3. x + 1 \in Int /\ y + 1 \in Int /\ z + 1 \in Int
          BY <5>1
        <5>4. v \in {x + 1, y + 1, z + 1}
          BY <5>2, <5>3, LeastOfThree
        <5>5. v # 0
          BY <5>1, <5>4
        <5>6. ~ Same(i, j)
          BY <3>2, <4>1, <4>5
        <5> QED BY <5>5, <5>6 DEF v
      <4> QED BY <4>4, <4>5
    <3> QED BY <3>1, <3>2
  <2> QED BY <2>1
<1>8. m + n \in S /\ m \in 0..m /\ n \in 0..n /\ m + n <= m + n
  <2>1. m + n \in Nat
    BY <1>1
  <2> HIDE DEF S
  <2> QED BY <1>1, <1>6, <1>7, <2>1, AllNaturals
<1>9. EditDistance(a, b) \in Nat /\ (EditDistance(a, b) = 0 <=> Same(m, n))
  BY <1>3, <1>4, <1>8 DEF Even
<1>10. Same(m, n) <=> a = b
  <2>1. a \in Seq(Range(a)) /\ b \in Seq(Range(b))
    BY DEF Narrow
  <2>2. DOMAIN a = 1..m /\ DOMAIN b = 1..n /\ a = [k \in 1..m |-> a[k]] /\ b = [k \in 1..n |-> b[k]]
    BY <2>1 DEF m, n
  <2>3. a = b => m = n
    BY DEF m, n
  <2>4. Same(m, n) => a = b
    BY <2>2
  <2>5. a = b => Same(m, n)
    BY <2>3
  <2> QED BY <2>4, <2>5
<1> QED BY <1>9, <1>10

\* A clause that is no bool query means what it says.
LEMMA LeafMeans ==
    ASSUME NEW q, ~ IsBool(q), NEW doc
    PROVE  Means(doc, q) <=> MeansClause(doc, q)
<1> DEFINE Says(c) == MeansClause(doc, c)
           W == Within(q, Inner)
           start == {c \in Leaves(q) : Says(c)}
           Row(f, m) == IF m = 0 THEN start
                        ELSE start \cup {c \in W : IsBool(c) /\ MeansBool(c, f[m - 1])}
           Loop(f, m) == f = [x \in 0..m |-> Row(f, x)]
           S == {m \in Nat : \E f : Loop(f, m)}
<1>B. Means(doc, q) <=>
          LET holding[n \in 0..Nesting] ==
                  IF n = 0 THEN {c \in Leaves(q) : MeansClause(doc, c)}
                  ELSE {c \in Leaves(q) : MeansClause(doc, c)} \cup
                       {c \in Within(q, Inner) : IsBool(c) /\ MeansBool(c, holding[n - 1])}
          IN q \in holding[Nesting]
  BY DEF Means, Holds
<1>E. Means(doc, q) <=> q \in (CHOOSE f : Loop(f, Nesting))[Nesting]
  BY <1>B
<1>D. q \in start <=> Says(q)
  <2>1. PICK level : LevelsOf(q, level) /\ W = UNION {level[n] : n \in 0..Nesting}
    BY WithinDef
  <2>2. q \in level[0] /\ 0 \in 0..Nesting
    BY <2>1, NestingAssumption DEF LevelsOf
  <2>3. q \in W
    BY <2>1, <2>2
  <2> QED BY <2>3 DEF Leaves
<1> HIDE DEF W, start, Says
<1>0. \A f, g, m : (m # 0 => f[m - 1] = g[m - 1]) => Row(f, m) = Row(g, m)
  OBVIOUS
<1>9. \A f : Row(f, 0) = start
  OBVIOUS
<1>F. \A f, m : q \in Row(f, m) <=> q \in start
  OBVIOUS
<1> HIDE DEF Row
<1>1. 0 \in S
  <2>1. Loop([x \in 0..0 |-> start], 0)
    BY <1>9
  <2> QED BY <2>1
<1>2. ASSUME NEW m \in S \cap Nat PROVE m + 1 \in S
  <2>1. PICK f : Loop(f, m)
    BY <1>2
  <2> DEFINE g == [x \in 0..m + 1 |-> IF x \in 0..m THEN f[x] ELSE Row(f, x)]
  <2>2. ASSUME NEW x \in 0..m + 1
        PROVE  g[x] = Row(g, x)
    <3>1. x \in 0..m => f[x] = Row(f, x)
      BY <2>1
    <3>2. x # 0 => x - 1 \in 0..m /\ g[x - 1] = f[x - 1]
      OBVIOUS
    <3>3. Row(f, x) = Row(g, x)
      <4> HIDE DEF g
      <4> QED BY <1>0, <3>2
    <3>4. g[x] = Row(f, x)
      BY <3>1
    <3> QED BY <3>3, <3>4
  <2>3. Loop(g, m + 1)
    <3> DEFINE h == [x \in 0..m + 1 |-> Row(g, x)]
    <3>1. g = h
      BY <2>2
    <3> QED BY <3>1
  <2> HIDE DEF g
  <2>4. m + 1 \in Nat
    OBVIOUS
  <2> QED BY <2>3, <2>4
<1>3. Nesting \in S
  <2> HIDE DEF S
  <2> QED BY <1>1, <1>2, AllNaturals, NestingAssumption
<1>4. \E f : Loop(f, Nesting)
  BY <1>3
<1> DEFINE holding == CHOOSE f : Loop(f, Nesting)
<1>5. Loop(holding, Nesting)
  BY <1>4
<1>6. Means(doc, q) <=> q \in holding[Nesting]
  BY <1>E
<1> HIDE DEF holding
<1>7. holding[Nesting] = Row(holding, Nesting)
  BY <1>5, NestingAssumption
<1> QED BY <1>6, <1>7, <1>F, <1>D DEF Says

\* What the clauses of a query string ask for.
LeafKinds == {"nothing", "term", "equals", "fuzzy", "range", "wildcard"}

\* A clause asks for no bool query.
LEMMA ClauseIsLeaf ==
    ASSUME NEW c \in Clauses
    PROVE  c.asks.kind \in LeafKinds /\ ~ IsBool(c.asks)
<1>1. \A f, v : Term(f, v).kind \in LeafKinds
  BY DEF Term, LeafKinds
<1>2. \A f, v : Classify(f, v) = Invalid \/ Classify(f, v).kind \in LeafKinds
  BY DEF Classify, Term, Equals, Fuzzy, Nothing, Wildcard, RangeOf, Between, LeafKinds
<1>3. Written(c) /\ c.asks # Invalid
  BY ClauseTyped
<1>4. c.asks.kind \in LeafKinds
  BY <1>1, <1>2, <1>3 DEF Written
<1> QED BY <1>4 DEF LeafKinds, IsBool

\* A fuzzy clause counts the edits between its value and a text.
LEMMA FuzzyAgrees ==
    ASSUME NEW doc, NEW q, q.kind = "fuzzy", Gapless(doc, q)
    PROVE  MatchesFuzzy(doc, q) <=>
               /\ HasText(doc, q.field)
               /\ EditDistance(Text(doc, q.field), q.value) <= Allowance(q, Len(q.value))
<1> SUFFICES ASSUME HasText(doc, q.field)
             PROVE  MatchesFuzzy(doc, q) <=>
                        EditDistance(Text(doc, q.field), q.value) <= Allowance(q, Len(q.value))
  BY DEF MatchesFuzzy
<1> DEFINE text == Text(doc, q.field)
           allowed == Allowance(q, Len(q.value))
<1>1. Narrow(text) /\ Narrow(q.value) /\ (q.edits = "auto" \/ NumberOf[q.edits] \in Nat)
  BY DEF Gapless, Narrow
<1>2. Bytes(q.value) = Len(q.value)
  BY <1>1, NarrowFacts
<1>3. allowed \in Nat
  BY <1>1 DEF Allowance
<1>4. MatchesFuzzy(doc, q) <=> IF allowed = 0 THEN text = q.value ELSE Levenshtein(text, q.value) <= allowed
  BY <1>2 DEF MatchesFuzzy
<1> HIDE DEF text, allowed
<1>5. /\ Levenshtein(text, q.value) = EditDistance(text, q.value)
      /\ EditDistance(text, q.value) \in Nat /\ (EditDistance(text, q.value) = 0 <=> text = q.value)
  BY <1>1, LevenshteinIsEditDistance, NoEdit
<1>6. MatchesFuzzy(doc, q) <=> EditDistance(text, q.value) <= allowed
  BY <1>3, <1>4, <1>5
<1> QED BY <1>6 DEF text, allowed

\* A term is compared to a single word without capitals.
LEMMA TermIsItsText ==
    ASSUME NEW doc, NEW q, q.kind = "term", Gapless(doc, q)
    PROVE  Lower(q.value) \in Words(doc, q.field) <=> HasText(doc, q.field) /\ Text(doc, q.field) = q.value
<1>1. ~ HasText(doc, q.field) => Words(doc, q.field) = {}
  BY DEF Words, Tokens, Range
<1>2. ASSUME HasText(doc, q.field) PROVE Words(doc, q.field) = {Text(doc, q.field)} /\ Lower(q.value) = q.value
  <2> DEFINE text == Text(doc, q.field)
  <2>1. Tokens(doc, q.field) = <<text>> /\ Lower(q.value) = q.value
    BY <1>2 DEF Gapless
  <2> HIDE DEF text
  <2>2. Words(doc, q.field) = {text}
    BY <2>1 DEF Words, Range
  <2> QED BY <2>1, <2>2 DEF text
<1> QED BY <1>1, <1>2

\* A clause without gaps matches what it means, where there are no postings.
LEMMA ClauseAgrees ==
    ASSUME NEW d \in Docs, NEW q, q.kind \in LeafKinds, Gapless(Corpus[d], q)
    PROVE  MatchesClause(Index({}, {}), d, q) <=> MeansClause(Corpus[d], q)
<1> DEFINE ix == Index({}, {})
           doc == Corpus[d]
<1>1. ix.corpus = Corpus /\ ix.corpus[d] = doc /\ ix.flushed = {}
  BY DEF Index
<1> HIDE DEF ix
<1>2. \A w : ~ Hit(ix, d, w) /\ Positive(ix, w)
  <2> TAKE w
  <2>1. DocFreq(ix, w) = 0
    BY <1>1, NothingCounted
  <2> QED BY <1>1, <2>1 DEF Hit, Posted, Positive
<1>3. \A f, w : HasWord(ix, d, f, w) <=> w \in Words(doc, f)
  <2> TAKE f, w
  <2>1. w \in Words(doc, f) => HasText(doc, f)
    BY DEF Words, Tokens, Range
  <2> QED BY <1>1, <1>2, <2>1 DEF HasWord
<1>4. CASE q.kind \in {"nothing", "equals", "range"}
  BY <1>1, <1>4 DEF MatchesClause, MeansClause
<1>7. CASE q.kind = "term"
  <2>1. MatchesClause(ix, d, q) <=> Lower(q.value) \in Words(doc, q.field)
    BY <1>3, <1>7 DEF MatchesClause
  <2>2. MeansClause(doc, q) <=> HasText(doc, q.field) /\ Text(doc, q.field) = q.value
    BY <1>7 DEF MeansClause
  <2> QED BY <1>7, <2>1, <2>2, TermIsItsText DEF ix
<1>5. CASE q.kind = "fuzzy"
  <2>1. MatchesClause(ix, d, q) <=> MatchesFuzzy(doc, q)
    BY <1>1, <1>5 DEF MatchesClause
  <2>2. MeansClause(doc, q) <=> /\ HasText(doc, q.field)
                                /\ EditDistance(Text(doc, q.field), q.value) <= Allowance(q, Len(q.value))
    BY <1>5 DEF MeansClause
  <2> QED BY <1>5, <2>1, <2>2, FuzzyAgrees DEF ix
<1>6. CASE q.kind = "wildcard"
  <2>1. MatchesClause(ix, d, q) <=> MatchesWildcard(ix, doc, q)
    BY <1>1, <1>6 DEF MatchesClause
  <2>2. MeansClause(doc, q) <=> HasText(doc, q.field) /\ Glob(q.value, Text(doc, q.field))
    BY <1>6 DEF MeansClause
  <2> QED BY <1>2, <1>6, <2>1, <2>2 DEF ix, MatchesWildcard, Gapless
<1> QED BY <1>4, <1>5, <1>6, <1>7 DEF LeafKinds, ix

\* What a clause of a query string finds, by itself and in documents without postings, is
\* what the documentation says that it asks for, if it has none of the gaps: a term finds
\* exactly its text only where that is one word without capitals.
THEOREM ClauseFindsWhatItMeans ==
    ASSUME NEW c \in Clauses, \A d \in Docs : Gapless(Corpus[d], c.asks)
    PROVE  FoundBy(c.asks) = {d \in Docs : Means(Corpus[d], c.asks)}
<1>1. ~ IsBool(c.asks) /\ c.asks.kind \in LeafKinds
  BY ClauseIsLeaf
<1>2. \A d \in Docs : d \in Hits(c.asks) <=> MatchesClause(Index({}, {}), d, c.asks)
  BY <1>1, LeafStable
<1>3. \A d \in Docs : Means(Corpus[d], c.asks) <=> MeansClause(Corpus[d], c.asks)
  BY <1>1, LeafMeans
<1>4. \A d \in Docs : MatchesClause(Index({}, {}), d, c.asks) <=> MeansClause(Corpus[d], c.asks)
  BY <1>1, ClauseAgrees
<1>5. Hits(c.asks) \subseteq Docs
  BY CorpusAssumption DEF Hits, HitsOf, Index
<1>6. FoundBy(c.asks) = Hits(c.asks)
  BY ClauseTyped DEF FoundBy, Hits
<1> QED BY <1>2, <1>3, <1>4, <1>5, <1>6

\* What a bool query of the parser asks for.
Asked(must, should, mustNot, d) ==
    /\ \A c \in must : d \in Hits(c)
    /\ \A c \in mustNot : d \notin Hits(c)
    /\ should = {} \/ must # {} \/ \E c \in should : d \in Hits(c)

\* The clauses of a query of the parser are stable within few bool queries.
Sound(q, h) ==
    IF ~ IsBool(q) THEN Stable(q, 0)
    ELSE /\ h \in Nat \ {0} /\ q = Bool(q.must, q.should, q.must_not) /\ IsFiniteSet(q.should)
         /\ \A c \in q.must \cup q.should \cup q.must_not : Stable(c, h - 1)

\* The parts of a bool query.
LEMMA BoolParts ==
    ASSUME NEW must, NEW should, NEW mustNot
    PROVE  LET q == Bool(must, should, mustNot)
           IN /\ IsBool(q) /\ q # Invalid /\ q.must = must /\ q.should = should /\ q.must_not = mustNot
              /\ q.filter = {} /\ q.minimum = {}
BY DEF Bool, IsBool, Invalid

\* A bool query of the parser finds what it asks for.
LEMMA BoolHits ==
    ASSUME NEW must, NEW should, NEW mustNot, IsFiniteSet(should), NEW h \in Nat \ {0}, h <= Nesting,
           \A c \in must \cup should \cup mustNot : Stable(c, h - 1)
    PROVE  /\ Stable(Bool(must, should, mustNot), h) /\ Sound(Bool(must, should, mustNot), h)
           /\ \A d \in Docs : d \in Hits(Bool(must, should, mustNot)) <=> Asked(must, should, mustNot, d)
<1> DEFINE q == Bool(must, should, mustNot)
<1>1. /\ IsBool(q) /\ q.must = must /\ q.should = should /\ q.must_not = mustNot
      /\ q.filter = {} /\ q.minimum = {}
  BY BoolParts
<1> HIDE DEF q
<1>2. Inner(q) = must \cup should \cup mustNot
  BY <1>1 DEF Inner, Scored
<1>3. Stable(q, h) /\ \A d \in Docs : d \in Hits(q) <=> MatchesBool(q, {c \in Inner(q) : d \in Hits(c)})
  BY <1>1, <1>2, BoolStable
<1>4. ASSUME NEW d \in Docs
      PROVE  MatchesBool(q, {c \in Inner(q) : d \in Hits(c)}) <=> Asked(must, should, mustNot, d)
  <2> DEFINE M == {c \in Inner(q) : d \in Hits(c)}
             met == should \cap M
             minimum == IF should = {} THEN 0 ELSE IF must = {} THEN 1 ELSE 0
  <2>1. MatchesBool(q, M) <=> must \subseteq M /\ mustNot \cap M = {} /\ Cardinality(met) >= minimum
    BY <1>1 DEF MatchesBool
  <2>2. must \subseteq M <=> \A c \in must : d \in Hits(c)
    BY <1>2
  <2>3. mustNot \cap M = {} <=> \A c \in mustNot : d \notin Hits(c)
    BY <1>2
  <2>4. met # {} <=> \E c \in should : d \in Hits(c)
    BY <1>2
  <2>5. Cardinality(met) \in Nat /\ (Cardinality(met) = 0 <=> met = {})
    <3>1. IsFiniteSet(met)
      BY FS_Subset
    <3> QED BY <3>1, FS_CardinalityType, FS_EmptySet
  <2> HIDE DEF M, met
  <2>6. Cardinality(met) >= minimum <=> should = {} \/ must # {} \/ met # {}
    BY <2>5
  <2>7. MatchesBool(q, M) <=> Asked(must, should, mustNot, d)
    BY <2>1, <2>2, <2>3, <2>4, <2>6 DEF Asked
  <2> QED BY <2>7 DEF M
<1>5. Sound(q, h)
  BY <1>1 DEF Sound, q
<1> QED BY <1>3, <1>4, <1>5 DEF q

\* What a sound query finds, whether it is a bool query or a clause.
LEMMA SoundFacts ==
    ASSUME NEW q, NEW h \in Nat, h <= Nesting, Sound(q, h)
    PROVE  /\ Stable(q, h) /\ Hits(q) \subseteq Docs
           /\ IsBool(q) => \A d \in Docs : d \in Hits(q) <=> Asked(q.must, q.should, q.must_not, d)
<1>1. CASE IsBool(q)
  <2>1. /\ h \in Nat \ {0} /\ q = Bool(q.must, q.should, q.must_not) /\ IsFiniteSet(q.should)
        /\ \A c \in q.must \cup q.should \cup q.must_not : Stable(c, h - 1)
    BY <1>1 DEF Sound
  <2> DEFINE b == Bool(q.must, q.should, q.must_not)
  <2>2. Stable(b, h) /\ \A d \in Docs : d \in Hits(b) <=> Asked(q.must, q.should, q.must_not, d)
    BY <2>1, BoolHits
  <2> HIDE DEF b
  <2>3. q = b
    BY <2>1 DEF b
  <2>4. Stable(q, h) /\ \A d \in Docs : d \in Hits(q) <=> Asked(q.must, q.should, q.must_not, d)
    BY <2>2, <2>3
  <2>5. Hits(q) \subseteq Docs
    BY CorpusAssumption DEF Hits, HitsOf, Index
  <2> QED BY <2>4, <2>5
<1>2. CASE ~ IsBool(q)
  <2>1. Stable(q, 0)
    BY <1>2 DEF Sound
  <2>2. Stable(q, h)
    BY <2>1, StableGrows
  <2>3. Hits(q) \subseteq Docs
    BY CorpusAssumption DEF Hits, HitsOf, Index
  <2> QED BY <1>2, <2>2, <2>3
<1> QED BY <1>1, <1>2

\* What make_bool_must keeps of a side.
Kept(q) == IF ~ IsBool(q) THEN {q}
           ELSE IF q.must \cup q.should = {} THEN {}
           ELSE {Bool(q.must, q.should, {})}
Negated(q) == IF IsBool(q) THEN q.must_not ELSE {}

\* It asks for the same as that side.
LEMMA KeptFacts ==
    ASSUME NEW q, NEW h \in Nat, h <= Nesting, Sound(q, h)
    PROVE  /\ \A c \in Kept(q) \cup Negated(q) : Stable(c, h)
           /\ \A d \in Docs : d \in Hits(q) <=> /\ \A c \in Kept(q) : d \in Hits(c)
                                                /\ \A c \in Negated(q) : d \notin Hits(c)
<1>1. CASE IsBool(q)
  <2> DEFINE b == Bool(q.must, q.should, {})
  <2>1. /\ h \in Nat \ {0} /\ IsFiniteSet(q.should)
        /\ \A c \in q.must \cup q.should \cup q.must_not : Stable(c, h - 1)
    BY <1>1 DEF Sound
  <2>2. Stable(b, h) /\ \A d \in Docs : d \in Hits(b) <=> Asked(q.must, q.should, {}, d)
    BY <2>1, BoolHits
  <2>3. \A c \in q.must_not : Stable(c, h)
    <3>1. h - 1 \in Nat /\ h - 1 <= h
      BY <2>1
    <3> QED BY <2>1, <3>1, StableGrows
  <2> HIDE DEF b
  <2>4. Negated(q) = q.must_not /\ Kept(q) = IF q.must \cup q.should = {} THEN {} ELSE {b}
    BY <1>1 DEF Negated, Kept, b
  <2>5. \A c \in Kept(q) \cup Negated(q) : Stable(c, h)
    BY <2>2, <2>3, <2>4
  <2>6. ASSUME NEW d \in Docs
        PROVE  d \in Hits(q) <=> /\ \A c \in Kept(q) : d \in Hits(c)
                                 /\ \A c \in Negated(q) : d \notin Hits(c)
    <3>1. d \in Hits(q) <=> Asked(q.must, q.should, q.must_not, d)
      BY <1>1, SoundFacts
    <3>2. Asked(q.must, q.should, q.must_not, d) <=>
              Asked(q.must, q.should, {}, d) /\ \A c \in q.must_not : d \notin Hits(c)
      BY DEF Asked
    <3>3. q.must \cup q.should = {} => Asked(q.must, q.should, {}, d)
      BY DEF Asked
    <3> QED BY <2>2, <2>4, <3>1, <3>2, <3>3
  <2> QED BY <2>5, <2>6
<1>2. CASE ~ IsBool(q)
  <2>1. Kept(q) = {q} /\ Negated(q) = {}
    BY <1>2 DEF Kept, Negated
  <2> QED BY <2>1, SoundFacts
<1> QED BY <1>1, <1>2

\* AND finds what both sides find.
LEMMA MustHits ==
    ASSUME NEW p, NEW q, NEW h \in Nat, h + 1 <= Nesting, Sound(p, h), Sound(q, h)
    PROVE  LET both == MakeBoolMust(p, q)
           IN /\ IsBool(both) /\ both # Invalid /\ Sound(both, h + 1)
              /\ both.must_not = Negated(p) \cup Negated(q)
              /\ Hits(both) = Hits(p) \cap Hits(q)
<1> DEFINE m == Kept(p) \cup Kept(q)
           n == Negated(p) \cup Negated(q)
           both == MakeBoolMust(p, q)
<1>1. both = Bool(m, {}, n)
  BY DEF MakeBoolMust, Kept, Negated
<1>2. h <= Nesting /\ h + 1 \in Nat \ {0} /\ h + 1 - 1 = h /\ IsFiniteSet({})
  BY NestingAssumption, FS_EmptySet
<1>3. \A c \in m \cup {} \cup n : Stable(c, h)
  BY <1>2, KeptFacts
<1> HIDE DEF both
<1>4. ASSUME NEW d \in Docs
      PROVE  Asked(m, {}, n, d) <=> d \in Hits(p) /\ d \in Hits(q)
  <2>1. /\ d \in Hits(p) <=> /\ \A c \in Kept(p) : d \in Hits(c)
                             /\ \A c \in Negated(p) : d \notin Hits(c)
        /\ d \in Hits(q) <=> /\ \A c \in Kept(q) : d \in Hits(c)
                             /\ \A c \in Negated(q) : d \notin Hits(c)
    BY <1>2, KeptFacts
  <2> QED BY <2>1 DEF Asked
<1> HIDE DEF m, n
<1>5. /\ Sound(Bool(m, {}, n), h + 1)
      /\ \A d \in Docs : d \in Hits(Bool(m, {}, n)) <=> Asked(m, {}, n, d)
  BY <1>2, <1>3, BoolHits
<1>6. Hits(p) \subseteq Docs /\ Hits(q) \subseteq Docs /\ Hits(both) \subseteq Docs
  <2>1. Hits(both) \subseteq Docs
    BY CorpusAssumption DEF Hits, HitsOf, Index
  <2> QED BY <1>2, <2>1, SoundFacts
<1>7. Hits(both) = Hits(p) \cap Hits(q)
  BY <1>1, <1>4, <1>5, <1>6
<1>8. IsBool(both) /\ both # Invalid /\ both.must_not = n
  BY <1>1, BoolParts
<1>9. Sound(both, h + 1)
  BY <1>1, <1>5
<1> QED BY <1>7, <1>8, <1>9 DEF both, n

\* NOT finds what the left side finds and the right side does not, if the left side
\* has no negation already.
LEMMA NotHits ==
    ASSUME NEW p, NEW q, NEW h \in Nat, h + 1 <= Nesting, Sound(p, h), Sound(q, h), Negated(p) = {}
    PROVE  LET but == MakeBoolMustNotAnd(p, q)
           IN IsBool(but) /\ but # Invalid /\ Sound(but, h + 1) /\ Hits(but) = Hits(p) \ Hits(q)
<1> DEFINE m == IF IsBool(p) THEN p.must ELSE {p}
           s == IF IsBool(p) THEN p.should ELSE {}
           but == MakeBoolMustNotAnd(p, q)
<1>1. but = Bool(m, s, {q})
  BY DEF MakeBoolMustNotAnd
<1>2. h <= Nesting /\ h + 1 \in Nat \ {0} /\ h + 1 - 1 = h
  BY NestingAssumption
<1>3. Stable(p, h) /\ Stable(q, h)
  BY <1>2, SoundFacts
<1>4. IsFiniteSet(s) /\ \A c \in m \cup s \cup {q} : Stable(c, h)
  <2>1. CASE IsBool(p)
    <3>1. /\ h \in Nat \ {0} /\ IsFiniteSet(p.should)
          /\ \A c \in p.must \cup p.should \cup p.must_not : Stable(c, h - 1)
      BY <2>1 DEF Sound
    <3>2. h - 1 \in Nat /\ h - 1 <= h
      BY <3>1
    <3>3. \A c \in p.must \cup p.should : Stable(c, h)
      BY <3>1, <3>2, StableGrows
    <3> QED BY <1>3, <2>1, <3>1, <3>3
  <2>2. CASE ~ IsBool(p)
    BY <1>3, <2>2, FS_EmptySet
  <2> QED BY <2>1, <2>2
<1> HIDE DEF but
<1>5. ASSUME NEW d \in Docs
      PROVE  Asked(m, s, {q}, d) <=> d \in Hits(p) /\ d \notin Hits(q)
  <2>1. CASE IsBool(p)
    <3>1. d \in Hits(p) <=> Asked(p.must, p.should, p.must_not, d)
      BY <1>2, <2>1, SoundFacts
    <3>2. p.must_not = {}
      BY <2>1 DEF Negated
    <3> QED BY <2>1, <3>1, <3>2 DEF Asked
  <2>2. CASE ~ IsBool(p)
    BY <2>2 DEF Asked
  <2> QED BY <2>1, <2>2
<1> HIDE DEF m, s
<1>6. /\ Sound(Bool(m, s, {q}), h + 1)
      /\ \A d \in Docs : d \in Hits(Bool(m, s, {q})) <=> Asked(m, s, {q}, d)
  BY <1>2, <1>4, BoolHits
<1>7. Hits(p) \subseteq Docs /\ Hits(but) \subseteq Docs
  <2>1. Hits(but) \subseteq Docs
    BY CorpusAssumption DEF Hits, HitsOf, Index
  <2> QED BY <1>2, <2>1, SoundFacts
<1>8. Hits(but) = Hits(p) \ Hits(q)
  BY <1>1, <1>5, <1>6, <1>7
<1>9. IsBool(but) /\ but # Invalid
  BY <1>1, BoolParts
<1>10. Sound(but, h + 1)
  BY <1>1, <1>6
<1> QED BY <1>8, <1>9, <1>10 DEF but

\* Alternatives and nothing else.
OnlyShould(q) == IsBool(q) => q.must = {} /\ q.should # {} /\ q.must_not = {}

\* OR of clauses and other ORs finds what either side finds.
LEMMA ShouldHits ==
    ASSUME NEW p, NEW q, NEW h \in Nat, h + 1 <= Nesting, Sound(p, h), Sound(q, h),
           OnlyShould(p), OnlyShould(q)
    PROVE  LET either == MakeBoolShould(p, q)
           IN /\ IsBool(either) /\ either # Invalid /\ Sound(either, h + 1) /\ OnlyShould(either)
              /\ Hits(either) = Hits(p) \cup Hits(q)
<1> DEFINE S(r) == IF IsBool(r) THEN r.should ELSE {r}
           s == S(p) \cup S(q)
           either == MakeBoolShould(p, q)
<1>1. either = Bool({}, s, {})
  BY DEF MakeBoolShould, OnlyShould
<1>2. h <= Nesting /\ h + 1 \in Nat \ {0} /\ h + 1 - 1 = h
  BY NestingAssumption
<1>3. ASSUME NEW r \in {p, q}
      PROVE  /\ IsFiniteSet(S(r)) /\ S(r) # {} /\ \A c \in S(r) : Stable(c, h)
             /\ \A d \in Docs : d \in Hits(r) <=> \E c \in S(r) : d \in Hits(c)
             /\ Hits(r) \subseteq Docs
  <2>0. Sound(r, h) /\ OnlyShould(r)
    OBVIOUS
  <2>1. CASE IsBool(r)
    <3>1. /\ h \in Nat \ {0} /\ IsFiniteSet(r.should)
          /\ \A c \in r.must \cup r.should \cup r.must_not : Stable(c, h - 1)
      BY <2>0, <2>1 DEF Sound
    <3>2. h - 1 \in Nat /\ h - 1 <= h
      BY <3>1
    <3>3. \A c \in r.should : Stable(c, h)
      BY <3>1, <3>2, StableGrows
    <3>4. \A d \in Docs : d \in Hits(r) <=> Asked(r.must, r.should, r.must_not, d)
      BY <1>2, <2>0, <2>1, SoundFacts
    <3>5. S(r) = r.should /\ r.must = {} /\ r.should # {} /\ r.must_not = {}
      BY <2>0, <2>1 DEF OnlyShould
    <3>6. Hits(r) \subseteq Docs
      BY <1>2, <2>0, SoundFacts
    <3> HIDE DEF S
    <3>7. \A d \in Docs : d \in Hits(r) <=> \E c \in S(r) : d \in Hits(c)
      BY <3>4, <3>5 DEF Asked
    <3> QED BY <3>1, <3>3, <3>5, <3>6, <3>7
  <2>2. CASE ~ IsBool(r)
    <3>1. S(r) = {r}
      BY <2>2
    <3>2. IsFiniteSet({r})
      BY FS_Singleton
    <3> HIDE DEF S
    <3> QED BY <1>2, <2>0, <3>1, <3>2, SoundFacts
  <2> QED BY <2>1, <2>2
<1> HIDE DEF either, S
<1>4. IsFiniteSet(s) /\ s # {} /\ \A c \in {} \cup s \cup {} : Stable(c, h)
  <2>1. IsFiniteSet(S(p)) /\ IsFiniteSet(S(q))
    BY <1>3
  <2>2. IsFiniteSet(s)
    BY <2>1, FS_Union
  <2> QED BY <1>3, <2>2
<1>5. ASSUME NEW d \in Docs
      PROVE  Asked({}, s, {}, d) <=> d \in Hits(p) \/ d \in Hits(q)
  <2>1. (d \in Hits(p) <=> \E c \in S(p) : d \in Hits(c)) /\ (d \in Hits(q) <=> \E c \in S(q) : d \in Hits(c))
    BY <1>3
  <2> QED BY <1>4, <2>1 DEF Asked
<1> HIDE DEF s
<1>6. /\ Sound(Bool({}, s, {}), h + 1)
      /\ \A d \in Docs : d \in Hits(Bool({}, s, {})) <=> Asked({}, s, {}, d)
  BY <1>2, <1>4, BoolHits
<1>7. Hits(p) \subseteq Docs /\ Hits(q) \subseteq Docs /\ Hits(either) \subseteq Docs
  <2>1. Hits(either) \subseteq Docs
    BY CorpusAssumption DEF Hits, HitsOf, Index
  <2> QED BY <1>3, <2>1
<1>8. Hits(either) = Hits(p) \cup Hits(q)
  BY <1>1, <1>5, <1>6, <1>7
<1>9. IsBool(either) /\ either # Invalid /\ OnlyShould(either)
  BY <1>1, <1>4, BoolParts DEF OnlyShould
<1>10. Sound(either, h + 1)
  BY <1>1, <1>6
<1> QED BY <1>8, <1>9, <1>10 DEF either

\* A query is no error.
LEMMA MadeFacts ==
    ASSUME NEW p, NEW q
    PROVE  MakeBoolMust(p, q) # Invalid /\ MakeBoolMustNotAnd(p, q) # Invalid /\ MakeBoolShould(p, q) # Invalid
BY BoolParts DEF MakeBoolMust, MakeBoolMustNotAnd, MakeBoolShould

\* What is sound within few bool queries is so within more.
LEMMA SoundGrows ==
    ASSUME NEW q, NEW h \in Nat, Sound(q, h), NEW k \in Nat, h <= k
    PROVE  Sound(q, k)
<1>1. CASE IsBool(q)
  <2>1. /\ h \in Nat \ {0} /\ q = Bool(q.must, q.should, q.must_not) /\ IsFiniteSet(q.should)
        /\ \A c \in q.must \cup q.should \cup q.must_not : Stable(c, h - 1)
    BY <1>1 DEF Sound
  <2>2. h - 1 \in Nat /\ k - 1 \in Nat /\ h - 1 <= k - 1 /\ k \in Nat \ {0}
    BY <2>1
  <2>3. \A c \in q.must \cup q.should \cup q.must_not : Stable(c, k - 1)
    BY <2>1, <2>2, StableGrows
  <2> QED BY <1>1, <2>1, <2>2, <2>3 DEF Sound
<1>2. CASE ~ IsBool(q)
  BY <1>2 DEF Sound
<1> QED BY <1>1, <1>2

\* What has been typed is read as a query that finds what is wanted, with at most h bool
\* queries within each other.
Reads(t, q, h) ==
    /\ t.binding \in {1, 2, 3} /\ Begins(t.typed)
    /\ q # Invalid /\ Expression(t.typed, q)
    /\ t.binding # 1 => Conjunction(t.typed, q)
    /\ t.binding = 3 => Operand(t.typed, q)
    /\ t.op = "clause" => q = t.asks
    /\ t.expressible => /\ Sound(q, h) /\ Hits(q) = t.wanted
                        /\ t.negates \/ Negated(q) = {}
                        /\ t.alternatives => OnlyShould(q)

\* A clause by itself.
LEMMA ClauseUnderstood ==
    ASSUME NEW c \in Clauses
    PROVE  Reads(Clause(c), c.asks, 0)
<1> DEFINE t == Clause(c)
<1>1. /\ t.op = "clause" /\ t.typed = c.typed /\ t.asks = c.asks /\ t.binding = 3
      /\ t.wanted = Hits(c.asks)
  BY DEF Clause, Hits
<1> HIDE DEF t
<1>2. Begins(c.typed) /\ c.asks # Invalid
  BY ClauseTyped
<1>3. Operand(c.typed, c.asks)
  BY ClauseOperand
<1>4. Conjunction(c.typed, c.asks)
  BY <1>2, <1>3, OneOperand
<1>5. Expression(c.typed, c.asks)
  BY <1>2, <1>4, OneConjunction
<1>6. ~ IsBool(c.asks)
  BY ClauseIsLeaf
<1>7. Sound(c.asks, 0) /\ Negated(c.asks) = {} /\ OnlyShould(c.asks)
  BY <1>6, LeafStable DEF Sound, Negated, OnlyShould
<1>8. Hits(c.asks) = t.wanted
  BY <1>1
<1>9. Reads(t, c.asks, 0)
  BY <1>1, <1>2, <1>3, <1>4, <1>5, <1>7, <1>8 DEF Reads
<1> QED BY <1>9 DEF t

\* A side of an operator, in parentheses where it needs them.
LEMMA SideReads ==
    ASSUME NEW t, NEW q, NEW h, Reads(t, q, h)
    PROVE  /\ \A bare \in BOOLEAN : Begins(Grouped(t, bare))
           /\ Expression(Grouped(t, t.binding >= 1), q)
           /\ Conjunction(Grouped(t, t.binding >= 2), q) /\ Conjunction(Grouped(t, t.binding > 1), q)
           /\ Operand(Grouped(t, t.binding > 2), q)
<1> DEFINE g == Group(t.typed)
<1>1. /\ t.binding \in {1, 2, 3} /\ Begins(t.typed) /\ q # Invalid /\ Expression(t.typed, q)
      /\ t.binding # 1 => Conjunction(t.typed, q)
      /\ t.binding = 3 => Operand(t.typed, q)
  BY DEF Reads
<1>2. Begins(g)
  BY <1>1, GroupFacts
<1>3. Operand(g, q)
  BY <1>1, GroupOperand
<1>4. Conjunction(g, q)
  <2> HIDE DEF g
  <2> QED BY <1>2, <1>3, OneOperand
<1>5. Grouped(t, TRUE) = t.typed /\ Grouped(t, FALSE) = g
  BY DEF Grouped, Group
<1> HIDE DEF g
<1>6. \A bare \in BOOLEAN : Begins(Grouped(t, bare))
  BY <1>1, <1>2, <1>5
<1>7. CASE t.binding = 1
  <2>1. (t.binding >= 1) = TRUE /\ (t.binding >= 2) = FALSE /\ (t.binding > 1) = FALSE /\ (t.binding > 2) = FALSE
    BY <1>7
  <2> QED BY <1>1, <1>3, <1>4, <1>5, <1>6, <2>1
<1>8. CASE t.binding = 2
  <2>1. (t.binding >= 1) = TRUE /\ (t.binding >= 2) = TRUE /\ (t.binding > 1) = TRUE /\ (t.binding > 2) = FALSE
    BY <1>8
  <2>2. Conjunction(t.typed, q)
    BY <1>1, <1>8
  <2> QED BY <1>1, <1>3, <1>4, <1>5, <1>6, <2>1, <2>2
<1>9. CASE t.binding = 3
  <2>1. (t.binding >= 1) = TRUE /\ (t.binding >= 2) = TRUE /\ (t.binding > 1) = TRUE /\ (t.binding > 2) = TRUE
    BY <1>9
  <2>2. Conjunction(t.typed, q) /\ Operand(t.typed, q)
    BY <1>1, <1>9
  <2> QED BY <1>1, <1>3, <1>4, <1>5, <1>6, <2>1, <2>2
<1> QED BY <1>1, <1>7, <1>8, <1>9

\* Two sides joined by AND, with or without the word.
LEMMA AndUnderstood ==
    ASSUME NEW op \in {"and", "juxtaposed"}, NEW left, NEW right, NEW p, NEW q, NEW h \in Nat, h + 1 <= Nesting,
           Reads(left, p, h), Reads(right, q, h)
    PROVE  Reads(Combine(op, left, right), MakeBoolMust(p, q), h + 1)
<1> DEFINE t == Combine(op, left, right)
           a == Grouped(left, left.binding >= 2)
           b == Grouped(right, right.binding > 2)
           mid == Between2(op)
           both == MakeBoolMust(p, q)
<1>1. /\ t.op = op /\ t.binding = 2 /\ t.typed = a \o mid \o b
      /\ t.wanted = left.wanted \cap right.wanted /\ t.alternatives = FALSE
      /\ t.negates <=> left.negates \/ right.negates
      /\ t.expressible => left.expressible /\ right.expressible
  BY DEF Combine
<1>2. mid \in {Spaced("AND"), <<Blank>>}
  BY DEF Between2, Spaced
<1>3. Begins(a) /\ Conjunction(a, p) /\ Begins(b) /\ Operand(b, q)
  <2>1. (left.binding >= 2) \in BOOLEAN /\ (right.binding > 2) \in BOOLEAN
    OBVIOUS
  <2> QED BY <2>1, SideReads
<1>4. p # Invalid /\ q # Invalid /\ both # Invalid
  BY MadeFacts DEF Reads
<1> HIDE DEF t, a, b, mid
<1>5. Conjunction(a \o mid \o b, both)
  BY <1>2, <1>3, <1>4, JoinAnd
<1>6. Begins(a \o mid \o b)
  <2>1. mid \in Seq(Pieces)
    <3>1. "AND" \in {"AND", "OR", "NOT"}
      OBVIOUS
    <3>2. Spaced("AND") \in Seq(Pieces) /\ <<Blank>> \in Seq(Pieces)
      BY <3>1, SpacedFacts
    <3> QED BY <1>2, <3>2
  <2> QED BY <1>3, <2>1, JoinedFacts
<1> HIDE DEF both
<1>7. Expression(a \o mid \o b, both)
  BY <1>4, <1>5, <1>6, OneConjunction
<1>8. ASSUME t.expressible
      PROVE  /\ Sound(both, h + 1) /\ Hits(both) = t.wanted
             /\ t.negates \/ Negated(both) = {}
  <2>1. /\ Sound(p, h) /\ Hits(p) = left.wanted /\ (left.negates \/ Negated(p) = {})
        /\ Sound(q, h) /\ Hits(q) = right.wanted /\ (right.negates \/ Negated(q) = {})
    BY <1>1, <1>8 DEF Reads
  <2>2. /\ Sound(both, h + 1) /\ IsBool(both) /\ both.must_not = Negated(p) \cup Negated(q)
        /\ Hits(both) = Hits(p) \cap Hits(q)
    BY <2>1, MustHits DEF both
  <2>3. Negated(both) = Negated(p) \cup Negated(q)
    BY <2>2 DEF Negated
  <2> QED BY <1>1, <2>1, <2>2, <2>3
<1>9. Reads(t, both, h + 1)
  BY <1>1, <1>4, <1>5, <1>6, <1>7, <1>8 DEF Reads
<1> QED BY <1>9 DEF t, both

\* Two sides joined by OR or NOT.
LEMMA OrUnderstood ==
    ASSUME NEW op \in {"or", "not"}, NEW left, NEW right, NEW p, NEW q, NEW h \in Nat, h + 1 <= Nesting,
           Reads(left, p, h), Reads(right, q, h)
    PROVE  Reads(Combine(op, left, right), MakeOr(IF op = "or" THEN "OR" ELSE "NOT", p, q), h + 1)
<1> DEFINE w == IF op = "or" THEN "OR" ELSE "NOT"
           t == Combine(op, left, right)
           a == Grouped(left, left.binding >= 1)
           b == Grouped(right, right.binding > 1)
           mid == Spaced(w)
           made == MakeOr(w, p, q)
<1>1. /\ t.op = op /\ t.binding = 1 /\ t.typed = a \o Between2(op) \o b
      /\ t.wanted = IF op = "or" THEN left.wanted \cup right.wanted ELSE left.wanted \ right.wanted
      /\ t.alternatives <=> op = "or" /\ left.alternatives /\ right.alternatives
      /\ t.negates <=> op = "not"
      /\ t.expressible <=> /\ left.expressible /\ right.expressible
                           /\ op = "or" => left.alternatives /\ right.alternatives
                           /\ op = "not" => ~ left.negates
  <2>1. CASE op = "or"
    <3>1. t.op = op /\ t.binding = 1 /\ t.typed = a \o Between2(op) \o b
      BY <2>1 DEF Combine
    <3>2. t.wanted = left.wanted \cup right.wanted
      BY <2>1 DEF Combine
    <3>3. t.alternatives <=> left.alternatives /\ right.alternatives
      BY <2>1 DEF Combine
    <3>4. ~ t.negates
      <4> DEFINE binding == IF op \in {"and", "juxtaposed"} THEN 2 ELSE 1
      <4>1. t.negates = (op = "not" \/ (binding = 2 /\ (left.negates \/ right.negates)))
        BY DEF Combine
      <4>2. op # "not" /\ binding # 2
        BY <2>1
      <4> HIDE DEF t, binding
      <4> QED BY <4>1, <4>2
    <3>5. t.expressible <=> left.expressible /\ right.expressible /\ left.alternatives /\ right.alternatives
      BY <2>1 DEF Combine
    <3> QED BY <2>1, <3>1, <3>2, <3>3, <3>4, <3>5
  <2>2. CASE op = "not"
    BY <2>2 DEF Combine
  <2> QED BY <2>1, <2>2
<1>2. Between2(op) = mid /\ w \in {"OR", "NOT"}
  BY DEF Between2, Spaced
<1>3. Begins(a) /\ Expression(a, p) /\ Begins(b) /\ Conjunction(b, q)
  <2>1. (left.binding >= 1) \in BOOLEAN /\ (right.binding > 1) \in BOOLEAN
    OBVIOUS
  <2> QED BY <2>1, SideReads
<1>4. p # Invalid /\ q # Invalid /\ made # Invalid
  BY MadeFacts DEF Reads, MakeOr
<1> HIDE DEF t, a, b
<1>5. Expression(a \o mid \o b, made)
  BY <1>2, <1>3, <1>4, JoinOr
<1>6. Begins(a \o mid \o b)
  <2>1. mid \in Seq(Pieces)
    BY <1>2, SpacedFacts
  <2> QED BY <1>3, <2>1, JoinedFacts
<1> HIDE DEF mid
<1>7. ASSUME t.expressible
      PROVE  /\ Sound(made, h + 1) /\ Hits(made) = t.wanted
             /\ t.negates \/ Negated(made) = {}
             /\ t.alternatives => OnlyShould(made)
  <2>1. /\ Sound(p, h) /\ Hits(p) = left.wanted /\ (left.negates \/ Negated(p) = {})
        /\ (left.alternatives => OnlyShould(p))
        /\ Sound(q, h) /\ Hits(q) = right.wanted /\ (right.negates \/ Negated(q) = {})
        /\ (right.alternatives => OnlyShould(q))
    BY <1>1, <1>7 DEF Reads
  <2>2. CASE op = "or"
    <3>1. OnlyShould(p) /\ OnlyShould(q)
      BY <1>1, <1>7, <2>1, <2>2
    <3>2. made = MakeBoolShould(p, q)
      BY <2>2 DEF MakeOr
    <3> HIDE DEF made
    <3>3. IsBool(made) /\ Sound(made, h + 1) /\ OnlyShould(made) /\ Hits(made) = Hits(p) \cup Hits(q)
      BY <2>1, <3>1, <3>2, ShouldHits
    <3>4. Negated(made) = {}
      BY <3>3 DEF Negated, OnlyShould
    <3> QED BY <1>1, <2>1, <2>2, <3>3, <3>4
  <2>3. CASE op = "not"
    <3>1. Negated(p) = {}
      BY <1>1, <1>7, <2>1, <2>3
    <3>2. made = MakeBoolMustNotAnd(p, q)
      BY <2>3 DEF MakeOr
    <3> HIDE DEF made
    <3>3. Sound(made, h + 1) /\ Hits(made) = Hits(p) \ Hits(q)
      BY <2>1, <3>1, <3>2, NotHits
    <3> QED BY <1>1, <2>1, <2>3, <3>3
  <2> QED BY <2>2, <2>3
<1> HIDE DEF made
<1>8. Reads(t, made, h + 1)
  BY <1>1, <1>2, <1>4, <1>5, <1>6, <1>7 DEF Reads
<1> QED BY <1>8 DEF t, made, w

\* What is typed with one operator more than before.
Combined(T) == T \cup {Combine(op, left, right) : op \in Ops, left \in T, right \in T}

\* The trees exist: clauses, and then one operator more each time.
LEMMA TreesDef ==
    /\ TreesUpTo[0] = {Clause(c) : c \in Clauses}
    /\ \A n \in 1..Depth : TreesUpTo[n] = Combined(TreesUpTo[n - 1])
<1> DEFINE start == {Clause(c) : c \in Clauses}
           Row(f, m) == IF m = 0 THEN start
                        ELSE f[m - 1] \cup
                             {Combine(op, left, right) : op \in Ops, left \in f[m - 1], right \in f[m - 1]}
           Loop(f, m) == f = [x \in 0..m |-> Row(f, x)]
           S == {m \in Nat : \E f : Loop(f, m)}
<1>E. TreesUpTo = CHOOSE f : Loop(f, Depth)
  BY DEF TreesUpTo
<1>F. \A f, m : m # 0 => Row(f, m) = Combined(f[m - 1])
  BY DEF Combined
<1>9. \A f : Row(f, 0) = start
  OBVIOUS
<1> HIDE DEF Row
<1>0. \A f, g, m : (m # 0 => f[m - 1] = g[m - 1]) => Row(f, m) = Row(g, m)
  <2> TAKE f, g, m
  <2>1. CASE m = 0
    BY <1>9, <2>1
  <2>2. CASE m # 0
    BY <1>F, <2>2
  <2> QED BY <2>1, <2>2
<1>1. 0 \in S
  <2>1. Loop([x \in 0..0 |-> start], 0)
    BY <1>9
  <2> QED BY <2>1
<1>2. ASSUME NEW m \in S \cap Nat PROVE m + 1 \in S
  <2>1. PICK f : Loop(f, m)
    BY <1>2
  <2> DEFINE g == [x \in 0..m + 1 |-> IF x \in 0..m THEN f[x] ELSE Row(f, x)]
  <2>2. ASSUME NEW x \in 0..m + 1
        PROVE  g[x] = Row(g, x)
    <3>1. x \in 0..m => f[x] = Row(f, x)
      BY <2>1
    <3>2. x # 0 => x - 1 \in 0..m /\ g[x - 1] = f[x - 1]
      OBVIOUS
    <3>3. Row(f, x) = Row(g, x)
      <4> HIDE DEF g
      <4> QED BY <1>0, <3>2
    <3>4. g[x] = Row(f, x)
      BY <3>1
    <3> QED BY <3>3, <3>4
  <2>3. Loop(g, m + 1)
    <3> DEFINE h == [x \in 0..m + 1 |-> Row(g, x)]
    <3>1. g = h
      BY <2>2
    <3> QED BY <3>1
  <2> HIDE DEF g
  <2>4. m + 1 \in Nat
    OBVIOUS
  <2> QED BY <2>3, <2>4
<1>3. Depth \in Nat
  BY NestingAssumption
<1>4. \E f : Loop(f, Depth)
  <2>1. Depth \in S
    <3> HIDE DEF S
    <3> QED BY <1>1, <1>2, <1>3, AllNaturals
  <2> QED BY <2>1
<1>5. Loop(TreesUpTo, Depth)
  BY <1>4, <1>E
<1>6. ASSUME NEW n \in 0..Depth PROVE TreesUpTo[n] = Row(TreesUpTo, n)
  BY <1>5
<1>7. TreesUpTo[0] = start
  BY <1>3, <1>6, <1>9
<1>8. ASSUME NEW n \in 1..Depth PROVE TreesUpTo[n] = Combined(TreesUpTo[n - 1])
  <2>1. n \in 0..Depth /\ n # 0
    BY <1>3
  <2> QED BY <1>6, <1>F, <2>1
<1> QED BY <1>7, <1>8 DEF start

\* Whatever a client types of clauses and operators is read as a query.
LEMMA TreesUnderstood == \A t \in Trees : \E q : Reads(t, q, Depth)
<1> DEFINE S == {n \in Nat : n <= Depth => \A t \in TreesUpTo[n] : \E q : Reads(t, q, n)}
<1>1. 0 \in S
  <2>1. ASSUME NEW t \in TreesUpTo[0] PROVE \E q : Reads(t, q, 0)
    <3>1. PICK c \in Clauses : t = Clause(c)
      BY TreesDef
    <3> QED BY <3>1, ClauseUnderstood
  <2> QED BY <2>1
<1>2. ASSUME NEW n \in S \cap Nat PROVE n + 1 \in S
  <2> SUFFICES ASSUME n + 1 <= Depth, NEW t \in TreesUpTo[n + 1]
               PROVE  \E q : Reads(t, q, n + 1)
    OBVIOUS
  <2>1. /\ n + 1 \in 1..Depth /\ n + 1 - 1 = n /\ n <= Depth /\ n + 1 <= Nesting
        /\ n <= n + 1 /\ n + 1 \in Nat
    BY NestingAssumption
  <2>2. \A u \in TreesUpTo[n] : \E q : Reads(u, q, n)
    BY <2>1
  <2>3. TreesUpTo[n + 1] = Combined(TreesUpTo[n])
    BY <2>1, TreesDef
  <2>4. CASE t \in TreesUpTo[n]
    <3>1. PICK q : Reads(t, q, n)
      BY <2>2, <2>4
    <3>2. t.expressible => Sound(q, n + 1)
      <4>1. t.expressible => Sound(q, n)
        BY <3>1 DEF Reads
      <4> QED BY <2>1, <4>1, SoundGrows
    <3>3. Reads(t, q, n + 1)
      BY <3>1, <3>2 DEF Reads
    <3> QED BY <3>3
  <2>5. CASE t \notin TreesUpTo[n]
    <3>1. PICK op \in Ops, left \in TreesUpTo[n], right \in TreesUpTo[n] : t = Combine(op, left, right)
      BY <2>3, <2>5 DEF Combined
    <3>2. PICK p : Reads(left, p, n)
      BY <2>2
    <3>3. PICK q : Reads(right, q, n)
      BY <2>2
    <3>4. op \in {"and", "juxtaposed"} \/ op \in {"or", "not"}
      BY DEF Ops
    <3> QED BY <2>1, <3>1, <3>2, <3>3, <3>4, AndUnderstood, OrUnderstood
  <2> QED BY <2>4, <2>5
<1>3. Depth \in S /\ Depth \in Nat
  <2> HIDE DEF S
  <2> QED BY <1>1, <1>2, AllNaturals, NestingAssumption
<1> QED BY <1>3 DEF Trees

\* Every query string that is made of clauses with AND, OR, NOT and parentheses, to
\* whatever depth, finds the documents that its operators and groups ask for, given what
\* each clause finds by itself, as parse_query_string reads it and score_bool_query matches
\* it, but for the known gaps; and a clause is read as the query of its documented form.
THEOREM QueriesFound == Spec => []QueryFindsWhatItSays
<1>1. SearchInv => QueryFindsWhatItSays
  <2> SUFFICES ASSUME SearchInv, About("query")
               PROVE  LET t == request.tree
                      IN /\ t.expressible => Found(t) = t.wanted
                         /\ t.op = "clause" => ParseQueryString(t.typed) = t.asks
    BY DEF QueryFindsWhatItSays
  <2>1. request \in QueryRequests
    BY RequestKinds DEF SearchInv, About
  <2> DEFINE t == request.tree
  <2>2. t \in Trees
    BY <2>1 DEF QueryRequests
  <2>3. PICK q : Reads(t, q, Depth)
    BY <2>2, TreesUnderstood
  <2>4. Begins(t.typed) /\ q # Invalid /\ Expression(t.typed, q)
    BY <2>3 DEF Reads
  <2>5. ParseQueryString(t.typed) = q
    BY <2>4, ExpressionRead
  <2>6. Found(t) = Hits(q)
    BY <2>4, <2>5 DEF Found, FoundBy, Hits
  <2> QED BY <2>3, <2>5, <2>6 DEF Reads
<1> QED BY <1>1, SearchInvariance, PTL
=============================================================================
