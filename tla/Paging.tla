------------------------------- MODULE Paging -------------------------------
(***************************************************************************)
(* A client that reads the hits of one search page by page, by cursor      *)
(* (search_after, in _msearch) or by offset (from), while other clients    *)
(* change the index between its pages.                                     *)
(*                                                                         *)
(* docs holds the documents that match, by what a page depends on: the     *)
(* value of the sort field.  Document ids are numbers, in the order of the *)
(* ids.  None reads as a time (RFC 3339): comparable_value would compare   *)
(* it to the cursor by its time, as equal to any id that is no time, while *)
(* hits are ordered by the text of their ids; that is left out.            *)
(* A search whose clauses all score 1.0 (match_all, range, fuzzy           *)
(* and non-string term) gives each hit the score 1; BM25 gives it a score  *)
(* that changes when any document does (ranked).                           *)
(***************************************************************************)
EXTENDS Naturals, FiniteSets

CONSTANTS
    Docs,        \* ids
    Keys,        \* values of the sort field, as comparable_value orders them
    Missing,     \* the document has no such field
    Absent,      \* it does not match, or is not there
    Scores,      \* what BM25 can yield
    NoCursor,    \* no page has been read yet
    MaxSize,     \* bound: hits per page
    MaxChanges   \* bound: changes of the index during the session

ASSUME DocsAssumption    == Docs \subseteq Nat /\ IsFiniteSet(Docs)
ASSUME KeysAssumption    == Keys \subseteq Nat /\ Missing \notin Nat
ASSUME AbsentAssumption  == Absent \notin Keys \cup {Missing}
ASSUME ScoresAssumption  == Scores \subseteq Nat /\ 1 \in Scores
ASSUME CursorAssumption  == NoCursor \notin [key : Keys \cup {Missing}, score : Scores, id : Docs]
ASSUME PagingBounds      == MaxSize \in Nat \ {0} /\ MaxChanges \in Nat

Sortable == Keys \cup {Missing}
Cursor   == [key : Sortable, score : Scores, id : Docs]

VARIABLES
    docs,     \* the sort value of every document that matches
    score,    \* its score
    order,    \* SortOrder of the request
    ranked,   \* its scores come from BM25
    byCursor, \* pages are asked for with search_after, otherwise with from
    cursor,   \* sort_values of the last hit that the client has seen
    offset,   \* how many hits it has seen, when it pages by from
    served,   \* the documents that it has been given ...
    repeated, \* ... and those that it has been given more than once
    touched,  \* documents that were changed during the session
    clear,    \* the order of the hits and of the cursors has agreed so far
    ended,    \* a page was not full
    changes

session == <<order, ranked, byCursor>>
pages   == <<cursor, offset, served, repeated, ended>>
pvars   == <<docs, score, session, pages, touched, clear, changes>>

Matching == {d \in Docs : docs[d] # Absent}

-----------------------------------------------------------------------------
\* The order of the hits: the sort_by of search().

\* compare_sort_values; a number that sorts before another, in the asked order
KeyBefore(k, l) == IF order = "asc" THEN k < l ELSE l < k

\* Hits without the field come last in both orders; ties are by id.
Precedes(d, e) ==
    \/ docs[d] # Missing /\ docs[e] = Missing
    \/ docs[d] # Missing /\ docs[e] # Missing /\ KeyBefore(docs[d], docs[e])
    \/ docs[d] = docs[e] /\ d < e

\* The comparison with a cursor: compare_sort_values_list on [value, score, id].
\* SortOrder::Desc turns each of the three around.

\* Mutant: the hit at the cursor comes again.
AfterOrAt(d) ==
    LET c == cursor
        Forward == \/ docs[d] = Missing /\ c.key # Missing
                   \/ docs[d] # Missing /\ c.key # Missing /\ docs[d] > c.key
                   \/ docs[d] = c.key /\ (score[d] > c.score \/ (score[d] = c.score /\ d >= c.id))
        Backward == \/ docs[d] # Missing /\ c.key = Missing
                    \/ docs[d] # Missing /\ c.key # Missing /\ docs[d] < c.key
                    \/ docs[d] = c.key /\ (score[d] < c.score \/ (score[d] = c.score /\ d < c.id))
    IN IF order = "asc" THEN Forward ELSE Backward

\* Mutant: a hit without the sort field is never after a cursor.
AfterPresent(d) ==
    LET c == cursor
    IN /\ docs[d] # Missing /\ c.key # Missing
       /\ \/ KeyBefore(c.key, docs[d])
          \/ docs[d] = c.key /\ (score[d] > c.score \/ (score[d] = c.score /\ d > c.id))

After(d) ==
    LET c == cursor
        Forward == \/ docs[d] = Missing /\ c.key # Missing
                   \/ docs[d] # Missing /\ c.key # Missing /\ docs[d] > c.key
                   \/ docs[d] = c.key /\ (score[d] > c.score \/ (score[d] = c.score /\ d > c.id))
        Backward == \/ docs[d] # Missing /\ c.key = Missing
                    \/ docs[d] # Missing /\ c.key # Missing /\ docs[d] < c.key
                    \/ docs[d] = c.key /\ (score[d] < c.score \/ (score[d] = c.score /\ d < c.id))
    IN IF order = "asc" THEN Forward ELSE Backward

\* The hits from the first position that is after the cursor, or from the offset.
FromCursor ==
    IF cursor = NoCursor THEN Matching
    ELSE {d \in Matching : \E e \in Matching : After(e) /\ (e = d \/ Precedes(e, d))}

FromOffset == {d \in Matching : Cardinality({e \in Matching : Precedes(e, d)}) >= offset}

Rest == IF byCursor THEN FromCursor ELSE FromOffset

PageOf(hits, size) == {d \in hits : Cardinality({e \in hits : Precedes(e, d)}) < size}

Bottom(page) == CHOOSE d \in page : \A e \in page : e = d \/ Precedes(e, d)

-----------------------------------------------------------------------------
\* No two hits have the same sort value, and none lacks it.
Unique(f) ==
    \A d \in Docs : f[d] # Absent =>
        f[d] # Missing /\ \A e \in Docs : f[e] = f[d] => e = d

\* When the order of the hits is the order that cursors compare by: equal sort
\* values are told apart by id in both, unless the order is turned around or the
\* scores, which come before the id in a cursor but not in the order, differ.
Agree(f, ord, rank) == Unique(f) \/ (ord = "asc" /\ ~rank)

ScoresFor(isRanked) == IF isRanked THEN [Docs -> Scores] ELSE {[d \in Docs |-> 1]}

\* No search has been asked for yet.
NoSession ==
    /\ docs = [d \in Docs |-> Absent] /\ score = [d \in Docs |-> 1]
    /\ order = "asc" /\ ranked = FALSE /\ byCursor = FALSE
    /\ cursor = NoCursor /\ offset = 0
    /\ served = {} /\ repeated = {} /\ touched = {}
    /\ clear = TRUE /\ ended = TRUE /\ changes = 0

\* A client begins to read the documents that its query matches.  The route allows
\* search_after only with a sort field, without from, and for no fuzzy query.
Begin(matched) ==
    /\ ended
    /\ docs' \in [Docs -> Sortable \cup {Absent}]
    /\ \A d \in Docs : docs'[d] # Absent <=> d \in matched
    /\ order' \in {"asc", "desc"} /\ ranked' \in BOOLEAN /\ byCursor' \in BOOLEAN
    /\ score' \in ScoresFor(ranked')
    /\ cursor' = NoCursor /\ offset' = 0
    /\ served' = {} /\ repeated' = {} /\ touched' = {}
    /\ clear' = Agree(docs', order', ranked')
    /\ ended' = FALSE /\ changes' = 0

\* One search: the client is given a page and keeps the sort_values of its last hit.
NextPage(size) ==
    /\ ~ended
    /\ LET page == PageOf(Rest, size)
       IN /\ served' = served \cup page
          /\ repeated' = repeated \cup (served \cap page)
          /\ offset' = IF byCursor THEN 0 ELSE offset + Cardinality(page)
          /\ ended' = (Cardinality(page) < size)
          /\ cursor' = IF page = {} THEN cursor
                       ELSE [key |-> docs[Bottom(page)], score |-> score[Bottom(page)],
                             id |-> Bottom(page)]
    /\ UNCHANGED <<docs, score, session, touched, clear, changes>>

\* A refresh between two pages publishes another version of a document, or its
\* deletion.  (With BM25 it moves the scores of the others too, also that of the
\* hit in the cursor; such sessions are followed only while nothing changes.)
Change(d, k) ==
    /\ ~ended /\ ~ranked /\ changes < MaxChanges
    /\ docs' = [docs EXCEPT ![d] = k]
    /\ docs' # docs
    /\ touched' = touched \cup {d}
    /\ clear' = (clear /\ Agree(docs', order, ranked))
    /\ changes' = changes + 1
    /\ UNCHANGED <<score, session, pages>>

NextPaging ==
    \/ \E size \in 1..MaxSize : NextPage(size)
    \/ \E d \in Docs, k \in Sortable \cup {Absent} : Change(d, k)

-----------------------------------------------------------------------------
(***************************************************************************)
(* What pages must get right.                                              *)
(***************************************************************************)

\* The variables have their types.
PagingTypeOK ==
    /\ docs \in [Docs -> Sortable \cup {Absent}] /\ score \in [Docs -> Scores]
    /\ order \in {"asc", "desc"} /\ ranked \in BOOLEAN /\ byCursor \in BOOLEAN
    /\ cursor \in Cursor \cup {NoCursor} /\ offset \in Nat
    /\ served \subseteq Docs /\ repeated \subseteq Docs /\ touched \subseteq Docs
    /\ clear \in BOOLEAN /\ ended \in BOOLEAN /\ changes \in Nat

\* Pages by offset are sound only while nobody changes the index.
Steady == IF byCursor THEN clear ELSE changes = 0

\* No document that stays as it is appears on two pages, whatever is changed,
\* added or removed between them.  (The known gap: descending order with equal or
\* missing values, and BM25 scores, where order and cursor disagree.)
ServedOnce == Steady => repeated \subseteq touched

\* When a page comes back that is not full, every document that matched all along
\* and was left alone has been given to the client: none fell between two pages.
ServedAll == ended /\ Steady => Matching \ touched \subseteq served
=============================================================================
