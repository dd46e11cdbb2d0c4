--------------------------- MODULE SearchSession ---------------------------
(***************************************************************************)
(* What clients ask of the search routes: a query string whose hits they   *)
(* read page by page (GET _search?q=, then modules QueryString and Paging),*)
(* a JSON clause that POST _search and _msearch both understand (module    *)
(* QueryDsl), a query on documents of which some have postings (Scoring,   *)
(* Meaning), suggestions (Suggest), and an aggregation that can be         *)
(* answered from documents or from columns (DocValues).                    *)
(***************************************************************************)
EXTENDS Paging, Meaning, Suggest

CONSTANTS
    UserField, Rejected,  \* of module QueryDsl
    Nul, Panic,           \* of module DocValues
    NoRequest,            \* the client waits for nothing
    Corpus,               \* the documents of the index: text and number fields
    Clauses,              \* the clauses of queries: how they are typed, and what they ask for
    Depth,                \* bound: operators within each other in a query string
    Queries, Likes,       \* bound: the queries and the more_like_this of the JSON routes
    Beginnings, Weights,    \* bound: what is typed for suggestions, and how fields are weighted
    Texts, Numbers,       \* bound: what the documents hold in an aggregated field
    MaxRows               \* bound: the documents of a column

Letters == {Alphabet[k] : k \in DOMAIN Alphabet}

Dsl == INSTANCE QueryDsl
Agg == INSTANCE DocValues

ASSUME NestingAssumption == Nesting \in Nat /\ Depth \in 0..Nesting
ASSUME CorpusAssumption == DOMAIN Corpus = Docs
ASSUME AlphabetAssumption == Alphabet \in Seq(Letters)
ASSUME WordsAssumption ==
    /\ \A t \in Beginnings : AsciiLower(t) \in Seq(Letters)
    /\ \A d \in Docs : \A f \in DOMAIN Corpus[d].text :
           IsFiniteSet(DOMAIN Corpus[d].text[f]) /\ Words(Corpus[d], f) \subseteq Seq(Letters)
ASSUME WeightsAssumption ==
    /\ FieldOrder \in Seq(Range(FieldOrder)) /\ IsInjective(FieldOrder)
    /\ \A w \in Weights : DOMAIN w \subseteq Range(FieldOrder) /\ \A f \in DOMAIN w : w[f] \in Nat
ASSUME TextsAssumption  == Texts \subseteq Seq(Letters)
ASSUME RowsAssumption   == MaxRows \in Nat
ASSUME PanicAssumption  == \A n \in 0..MaxRows : Panic \notin [1..n -> Texts]
ASSUME UserFieldAssumption ==
    UserField \notin {"field", "value", "values", "fuzziness", "boost", "gte", "lt",
                      "query", "fields", "type", "multi_match_type", "should", "filter",
                      "minimum_should_match", "order", "from", "aggs", "aggregations", "search_after"}

\* An error is no clause that was read.
ASSUME RejectedAssumption ==
    Rejected \notin [field : {"field", "bool", "request"},
                     value : {"value", "values", "bounds", "clauses", "request"}, options : {<<>>}]

VARIABLE request

-----------------------------------------------------------------------------
\* The queries that the grammar of query strings is documented to express.

\* What is searched: these documents have postings, of which those are missed.
Index(flushed, missed) == [corpus |-> Corpus, flushed |-> flushed, missed |-> missed, terms |-> {}]

\* A client types clauses, and joins what it has typed with operators.  Each tree tells
\* how it is typed, how tightly that holds together (equal operators group to the left),
\* and which documents are wanted.  expressible tells the known gaps: OR over anything
\* but clauses and other ORs (alternatives), and NOT behind something that has a
\* negation already (negates).  What a clause wants is what it finds by itself, in documents
\* without postings: whether that is what it means, HitsAreMatches tells.
Ops == {"and", "juxtaposed", "or", "not"}

Clause(c) ==
    [op |-> "clause", typed |-> c.typed, asks |-> c.asks, binding |-> 3,
     wanted |-> HitsOf(Index({}, {}), c.asks),
     alternatives |-> TRUE, negates |-> FALSE, expressible |-> TRUE]

Between2(op) == CASE op = "and" -> <<Blank, "AND", Blank>> [] op = "or" -> <<Blank, "OR", Blank>>
                  [] op = "not" -> <<Blank, "NOT", Blank>> [] op = "juxtaposed" -> <<Blank>>

Grouped(t, bare) == IF bare THEN t.typed ELSE <<"(">> \o t.typed \o <<")">>

Combine(op, left, right) ==
    LET binding == IF op \in {"and", "juxtaposed"} THEN 2 ELSE 1
        alternatives == op = "or" /\ left.alternatives /\ right.alternatives
    IN [op |-> op, binding |-> binding,
        typed |-> Grouped(left, left.binding >= binding) \o Between2(op)
                      \o Grouped(right, right.binding > binding),
        wanted |-> CASE op \in {"and", "juxtaposed"} -> left.wanted \cap right.wanted
                     [] op = "or" -> left.wanted \cup right.wanted
                     [] op = "not" -> left.wanted \ right.wanted,
        alternatives |-> alternatives,
        negates |-> op = "not" \/ (binding = 2 /\ (left.negates \/ right.negates)),
        expressible |-> /\ left.expressible /\ right.expressible
                        /\ op = "or" => alternatives
                        /\ op = "not" => ~left.negates]

TreesUpTo ==
    LET trees[n \in 0..Depth] ==
            IF n = 0 THEN {Clause(c) : c \in Clauses}
            ELSE trees[n - 1] \cup
                 {Combine(op, left, right) : op \in Ops, left \in trees[n - 1], right \in trees[n - 1]}
    IN trees
Trees == TreesUpTo[Depth]

\* A clause is typed in one of the documented forms: a word by itself, or a field and a
\* value, with quotes or without; it asks for what the value is classified as, which is
\* something valid.
Written(c) ==
    LET t == c.typed
        n == Len(c.typed)
    IN \E w \in 1..n :
           /\ t[1] \notin Keywords /\ \A k \in 1..w : InWord(t[k])
           /\ \/ w = n /\ c.asks = Term(<<"tag">>, t)
              \/ /\ w + 2 <= n /\ t[w + 1] = ":" /\ t[w + 2] # Quote
                 /\ \A k \in w + 2..n : ~ValueStop(t[k])
                 /\ c.asks = Classify(SubSeq(t, 1, w), SubSeq(t, w + 2, n))
              \/ /\ w + 4 <= n /\ t[w + 1] = ":" /\ t[w + 2] = Quote /\ t[n] = Quote
                 /\ \A k \in w + 3..n - 1 : t[k] # Quote
                 /\ c.asks = Classify(SubSeq(t, 1, w), SubSeq(t, w + 3, n - 1))

ASSUME ClausesAssumption ==
    \A c \in Clauses : c.typed \in Seq(Range(c.typed)) /\ Written(c) /\ c.asks # Invalid

\* A clause has none of the gaps of module Meaning: a term is compared to a single word,
\* without capitals, a wildcard fits a word of each text that it fits, and edits are counted
\* between words without wide letters.
Gapless(doc, q) ==
    q.kind # "nothing" /\ HasText(doc, q.field) =>
        /\ q.kind = "term" =>
               /\ doc.text[q.field] = <<Text(doc, q.field)>> /\ Tokens(doc, q.field) = doc.text[q.field]
               /\ Lower(q.value) = q.value
        /\ q.kind = "wildcard" /\ Glob(q.value, Text(doc, q.field)) =>
               \E w \in Words(doc, q.field) : Glob(q.value, w)
        /\ q.kind = "fuzzy" =>
               /\ \A w \in {q.value, Text(doc, q.field)} :
                      w \in Seq(Range(w)) /\ Range(w) \cap Wide = {}
               /\ q.edits = "auto" \/ NumberOf[q.edits] \in Nat

\* Whatever has been typed is searched in documents without postings here.
FoundBy(q) == IF q = Invalid THEN {Rejected} ELSE HitsOf(Index({}, {}), q)
Found(t)   == FoundBy(ParseQueryString(t.typed))

-----------------------------------------------------------------------------
QueryRequests  == [about : {"query"}, tree : Trees]
ClauseRequests == UNION {[about : {"clause"}, kind : {k}, body : Dsl!Bodies(k)] : k \in Dsl!ClauseKinds}
Columns(S)     == UNION {[1..n -> S \cup {Missing}] : n \in 0..MaxRows}
MatchRequests  == [about : {"match"}, query : Queries, flushed : SUBSET Docs, missed : SUBSET Docs]
LikeRequests   == [about : {"like"}, like : Likes, flushed : SUBSET Docs, missed : SUBSET Docs]
SuggestRequests == [about : {"suggest"}, segments : [1..2 -> SUBSET Docs], weights : Weights,
                    typed : Beginnings, size : 0..MaxSize]
TermsRequests  == [about : {"terms"}, column : Columns(Texts)]
StatsRequests  == [about : {"stats"}, column : Columns(Numbers)]

Init ==
    /\ \/ request \in QueryRequests \/ request \in ClauseRequests
       \/ request \in MatchRequests /\ request.missed \subseteq request.flushed
       \/ request \in LikeRequests /\ request.missed \subseteq request.flushed
       \/ request \in SuggestRequests
       \/ request \in TermsRequests \/ request \in StatsRequests
    /\ NoSession

\* The first page is answered on the documents that the parsed query matches.
Search ==
    /\ request # NoRequest /\ request.about = "query"
    /\ Begin(Found(request.tree))
    /\ request' = NoRequest

\* Any other request is answered at once.
Answer ==
    /\ request # NoRequest /\ request.about # "query"
    /\ request' = NoRequest
    /\ UNCHANGED pvars

Read == request = NoRequest /\ NextPaging /\ UNCHANGED request

Next == Search \/ Answer \/ Read

Spec == Init /\ [][Next]_<<request, pvars>>
-----------------------------------------------------------------------------
(***************************************************************************)
(* What the search routes must get right.                                  *)
(***************************************************************************)

About(kind) == request # NoRequest /\ request.about = kind

\* A query string finds the documents that its operators and groups ask for, and a
\* clause by itself is read as the table of the documentation says, unless a known
\* gap applies (OrMeansOr).
QueryFindsWhatItSays ==
    About("query") =>
        LET t == request.tree
        IN /\ t.expressible => Found(t) = t.wanted
           /\ t.op = "clause" => ParseQueryString(t.typed) = t.asks

\* The keys that only one of the routes reads.
RouteSpecific == {"boost", "type", "multi_match_type", "aggregations", "search_after"}

\* A clause, a sort or a request that both routes accept means the same to both: the
\* same field, value and options.  (The known gaps: the boost of a term, the key of the
\* type of a multi_match, and in a request the other name of aggs, and search_after.)
\* What _search accepts as field and value, without options, _msearch accepts too.  (The
\* known gap: a sort without an order is by a field of the name "field".)
RoutesAgree ==
    About("clause") =>
        LET one == Dsl!Search(request.kind, request.body)
            two == Dsl!Msearch(request.kind, request.body)
        IN /\ one # Rejected /\ two # Rejected =>
                 /\ one.field = two.field /\ one.value = two.value
                 /\ RouteSpecific \cap DOMAIN request.body = {} => one.options = two.options
           /\ /\ DOMAIN request.body \subseteq {"field", "value", "values"} /\ one # Rejected
              /\ request.kind # "sort"
              => two # Rejected

\* A search finds the documents that its query describes, whether a flush has written
\* their postings, the binary search misses them, or they are only in memory, unless
\* one of the gaps of module Meaning applies; what validation refuses of one field would
\* have found nothing.  More_like_this finds the documents that have one of its words in the
\* field of that word, in capitals or not, and never the document itself.  (The known gaps:
\* the postings of a word do not tell its field, and wide capitals.)
HitsAreMatches ==
    /\ About("match") =>
           LET ix == Index(request.flushed, request.missed)
               q  == request.query
           IN IF Refused(Corpus, q) THEN q.kind \in {"bool", "multi_match"} \/ HitsOf(ix, q) = {}
              ELSE \A d \in Docs : Agrees(ix, d, q)
    /\ About("like") =>
           LET ix == Index(request.flushed, request.missed)
           IN \A q \in SimilarTo(ix, request.like) :
                  /\ request.like.doc \notin HitsLike(ix, request.like, q)
                  /\ \A d \in HitsLike(ix, request.like, q) :
                         \E c \in q.should : \/ Shares(Corpus[d], c.field, <<c.value>>)
                                             \/ Posted(ix, d, c.value)
                  /\ \A d \in Docs \ {request.like.doc} :
                         (\E c \in q.should : /\ Shares(Corpus[d], c.field, <<c.value>>)
                                              /\ ~WideIn(Match(c.field, <<c.value>>), Corpus[d]))
                         => d \in HitsLike(ix, request.like, q)

\* Suggestions are the best there are: every word of a segment that goes on from what
\* was typed, in a field that counts, is suggested once with its best score, unless
\* there is no room, and then nothing that is suggested scores less.
SuggestionsAreBest ==
    About("suggest") =>
        LET segments == [k \in DOMAIN request.segments |-> {Corpus[d] : d \in request.segments[k]}]
            typed    == AsciiLower(request.typed)
            answer   == Suggestions(segments, request.weights, request.typed, request.size)
            scores(f, w) == {<<request.weights[f] * Cardinality({doc \in segments[k] : w \in Words(doc, f)}),
                               Cardinality(segments[k])>> : k \in {j \in DOMAIN segments : segments[j] # {}}}
            words(f) == {w \in UNION {Words(doc, f) : doc \in UNION {segments[k] : k \in DOMAIN segments}} :
                            typed # <<>> /\ \E n \in 0..Len(w) : typed = SubSeq(w, 1, n)}
            room     == Len(answer) < request.size
        IN \A f \in DOMAIN request.weights : request.weights[f] # 0 =>
               \A w \in words(f) :
                   LET places == {k \in DOMAIN answer : answer[k].field = f /\ answer[k].text = w}
                   IN \A sc \in scores(f, w) :
                          \/ \E k \in places : /\ places = {k}
                                               /\ answer[k].score[1] * sc[2] >= sc[1] * answer[k].score[2]
                          \/ /\ places = {} /\ ~room
                             /\ \A k \in DOMAIN answer :
                                    answer[k].score[1] * sc[2] >= sc[1] * answer[k].score[2]

\* Where a request aggregates all documents, and no write came after the columns were
\* flushed, the answer from columns is the answer from documents: the same terms as often,
\* the same statistics, while every document has the field.  (The known gaps: a document
\* without the field; and columns know neither the query of the request nor later writes,
\* so that the two ways are compared on one and the same column here.)
ColumnsAgree ==
    (About("terms") \/ About("stats")) /\ (\A i \in DOMAIN request.column : request.column[i] # Missing) =>
        IF About("terms")
        THEN Agg!TermsOfColumn(request.column) = Agg!TermsOfDocuments(request.column)
        ELSE Agg!StatsOfColumn(request.column) = Agg!StatsOfDocuments(request.column)

(***************************************************************************)
(* What the documentation says and the code does not do.                   *)
(***************************************************************************)

\* A query string with OR finds the documents of either side.  (make_bool_should
\* makes what a side must match a condition of the whole.)
OrMeansOr ==
    About("query") /\ request.tree.op = "or" => Found(request.tree) = request.tree.wanted
=============================================================================
