------------------------------ MODULE Scoring ------------------------------
(***************************************************************************)
(* Which documents a query matches: score_query and the scorers it calls.  *)
(*                                                                         *)
(* A document gives some fields a number and others a text, a sequence of  *)
(* words.  A word is a sequence of letters (or of the pieces of module     *)
(* QueryString, each of which counts as one letter); words are set apart   *)
(* by one blank.  Of a score only this is kept: whether there is one, and, *)
(* where a scorer asks for it, whether it is positive.                     *)
(*                                                                         *)
(* ix is what a search works on: the searchable documents (corpus), which  *)
(* of them a flush has written postings of (flushed), which of those the   *)
(* binary search over postings fails to find (missed: the lists are in the *)
(* order of the ids, and are searched by the hashes of the ids), and the   *)
(* words that idf_map knows (terms).                                       *)
(***************************************************************************)
EXTENDS QueryString, SequencesExt

CONSTANTS
    LowerOf,     \* the capitals, and their small letters
    Wide,        \* letters of two bytes
    FieldOrder,  \* the text fields, in the order of their names
    Nesting      \* bound: how deep bool queries are within each other

\* Two ways to lower a word: to_lowercase, for the values of term, terms and prefix
\* queries, and to_ascii_lowercase, which leaves wide capitals alone, for the words of
\* documents and of full-text queries.
LowerThese(w, capitals) == [k \in DOMAIN w |-> IF w[k] \in capitals THEN LowerOf[w[k]] ELSE w[k]]
Lower(w)      == LowerThese(w, DOMAIN LowerOf)
AsciiLower(w) == LowerThese(w, DOMAIN LowerOf \ Wide)
Bytes(w)  == Len(w) + Cardinality({k \in DOMAIN w : w[k] \in Wide})

HasText(doc, f)   == f \in DOMAIN doc.text
HasNumber(doc, f) == f \in DOMAIN doc.number
HasField(doc, f)  == HasText(doc, f) \/ HasNumber(doc, f)

Joint(words)   == IF words = <<>> THEN <<>>
                  ELSE FoldLeft(LAMBDA text, w : text \o <<" ">> \o w, Head(words), Tail(words))
Text(doc, f)   == Joint(doc.text[f])

\* tokenize
Tokenize(words)   == [k \in DOMAIN words |-> AsciiLower(words[k])]
Tokens(doc, f)    == IF HasText(doc, f) THEN Tokenize(doc.text[f]) ELSE <<>>
Words(doc, f)     == Range(Tokens(doc, f))

-----------------------------------------------------------------------------
\* Postings.

Occurrences(text, w) ==
    LET from[start \in 1..Len(text) + 1] ==
            LET at == {i \in start..Len(text) : IsPrefix(w, SubSeq(text, i, Len(text)))}
            IN IF at = {} THEN {} ELSE {Min(at)} \cup from[Min(at) + Len(w)]
    IN from[1]

\* extract_positions: where a word of the document occurs, also within other words,
\* as a byte offset into the last of the fields that have it; which field that is
\* is not kept.
HomeOf(doc, w) == {i \in DOMAIN FieldOrder : w \in Words(doc, FieldOrder[i])}
Positions(doc, w) ==
    IF HomeOf(doc, w) = {} THEN {}
    ELSE LET text == Joint(Tokens(doc, FieldOrder[Max(HomeOf(doc, w))]))
         IN {Bytes(SubSeq(text, 1, i - 1)) : i \in Occurrences(text, w)}

\* A posting is written for each position; a word that is repeated in the text has
\* each of its positions as often as it is repeated.
PostingsOf(doc, w) ==
    IF HomeOf(doc, w) = {} THEN 0
    ELSE LET tokens == Tokens(doc, FieldOrder[Max(HomeOf(doc, w))])
         IN Cardinality({k \in DOMAIN tokens : tokens[k] = w}) * Cardinality(Positions(doc, w))

Posted(ix, d, w) == d \in ix.flushed /\ Positions(ix.corpus[d], w) # {}

\* The binary search for the postings of a document finds them, unless those of
\* another document are in its way.
Hit(ix, d, w) ==
    Posted(ix, d, w) /\ (d \in ix.missed => \A e \in ix.flushed \ {d} : ~Posted(ix, e, w))

\* bm25_idf: zero for a word that half of the documents have; but what is counted
\* as documents are postings.
DocFreq(ix, w) == MapThenSumSet(LAMBDA d : PostingsOf(ix.corpus[d], w), ix.flushed)
Positive(ix, w) ==
    w \in ix.terms /\ DocFreq(ix, w) > 0 =>
        2 * DocFreq(ix, w) < Cardinality(DOMAIN ix.corpus)

-----------------------------------------------------------------------------
\* Queries that the JSON routes have besides those of a query string.

Terms(f, strings, numbers) ==
    [kind |-> "terms", field |-> f, strings |-> strings, numbers |-> numbers]
Prefix(f, v)              == [kind |-> "prefix", field |-> f, value |-> v]
Match(f, words)           == [kind |-> "match", field |-> f, words |-> words]
Phrase(f, words)          == [kind |-> "phrase", field |-> f, words |-> words]
MultiMatch(fs, words, by) ==
    [kind |-> "multi_match", fields |-> fs, words |-> words, by |-> by]
AnyOf(S, n)               == [Bool({}, S, {}) EXCEPT !.minimum = {n}]
Filter(S, not)            == [Bool({}, {}, not) EXCEPT !.filter = S]

\* The clauses of a query, theirs, and so on.
Scored(q) == IF IsBool(q) THEN q.must \cup q.should \cup q.filter ELSE {}
Inner(q)  == IF IsBool(q) THEN Scored(q) \cup q.must_not ELSE {}
Within(q, ClausesOf(_)) ==
    LET level[n \in 0..Nesting] ==
            IF n = 0 THEN {q} ELSE UNION {ClausesOf(c) : c \in level[n - 1]}
    IN UNION {level[n] : n \in 0..Nesting}
Leaves(q) == {c \in Within(q, Inner) : ~IsBool(c)}

\* Whether a query holds, when it is known which clauses do, and when a bool query
\* does, given those that hold: the bool queries follow from the inside to the outside.
Holds(q, Clause(_), BoolQuery(_, _)) ==
    LET clauses == {c \in Leaves(q) : Clause(c)}
        holding[n \in 0..Nesting] ==
            IF n = 0 THEN clauses
            ELSE clauses \cup {c \in Within(q, Inner) : IsBool(c) /\ BoolQuery(c, holding[n - 1])}
    IN q \in holding[Nesting]

\* extract_query_terms: the words whose rarity is looked up.
TermsOf(q) ==
    CASE q.kind \in {"match", "phrase", "multi_match"} -> Range(Tokenize(q.words))
      [] q.kind = "term"  -> {Lower(q.value)}
      [] q.kind = "terms" -> {Lower(w) : w \in q.strings}
      [] OTHER -> {}
QueryTerms(q) == UNION {TermsOf(c) : c \in Within(q, Scored)}

\* A prefix query by itself has the rarity of its value looked up too.
KnownTerms(q) == IF q.kind = "prefix" THEN {Lower(q.value)} ELSE QueryTerms(q)

-----------------------------------------------------------------------------
\* The scorers.

\* Mutant: the text of the field is not looked at.
HitOnly(ix, d, f, w) == HasText(ix.corpus[d], f) /\ Hit(ix, d, w)

\* A word is there if the document has a posting of it, from whichever field, or if
\* the field has it.
HasWord(ix, d, f, w) ==
    HasText(ix.corpus[d], f) /\ (Hit(ix, d, w) \/ w \in Words(ix.corpus[d], f))

MatchesRange(n, bounds) ==
    \A b \in bounds : CASE b[1] = ">=" -> n >= b[2] [] b[1] = ">" -> n > b[2]
                         [] b[1] = "<=" -> n <= b[2] [] b[1] = "<" -> n < b[2]

\* build_wildcard_regex
Glob(p, w) ==
    LET fits[i \in 1..Len(p) + 1, j \in 1..Len(w) + 1] ==
            IF i > Len(p) THEN j > Len(w)
            ELSE IF p[i] = "*" THEN fits[i + 1, j] \/ (j <= Len(w) /\ fits[i, j + 1])
            ELSE j <= Len(w) /\ p[i] \in {w[j], "?"} /\ fits[i + 1, j + 1]
    IN fits[1, 1]

\* score_terms_query
MatchesTerms(ix, d, q) ==
    \/ \E n \in q.numbers : HasNumber(ix.corpus[d], q.field) /\ ix.corpus[d].number[q.field] = n
    \/ \E w \in q.strings : HasWord(ix, d, q.field, Lower(w)) /\ Positive(ix, Lower(w))

\* levenshtein_distance: the rows and columns of the matrix are bytes, and those
\* that do not follow the first byte of a letter stay zero.
LetterAt(w, byte) == {k \in DOMAIN w : Bytes(SubSeq(w, 1, k - 1)) = byte}
Levenshtein(a, b) ==
    LET matrix[cell \in (0..Bytes(a)) \X (0..Bytes(b))] ==
            LET i == cell[1]
                j == cell[2]
                same == \E k \in LetterAt(a, i - 1), l \in LetterAt(b, j - 1) : a[k] = b[l]
            IN IF i = 0 THEN j
               ELSE IF j = 0 THEN i
               ELSE IF LetterAt(a, i - 1) = {} \/ LetterAt(b, j - 1) = {} THEN 0
               ELSE Min({matrix[<<i - 1, j>>] + 1, matrix[<<i, j - 1>>] + 1,
                         matrix[<<i - 1, j - 1>>] + IF same THEN 0 ELSE 1})
    IN IF a = <<>> THEN Bytes(b) ELSE matrix[<<Bytes(a), Bytes(b)>>]

\* How many edits a fuzzy query allows.
Allowance(q, length) ==
    IF q.edits # "auto" THEN NumberOf[q.edits]
    ELSE IF length <= 2 THEN 0 ELSE IF length <= 5 THEN 1 ELSE 2

\* fuzzy_term_match: the whole text, as it is stored.
MatchesFuzzy(doc, q) ==
    /\ HasText(doc, q.field)
    /\ LET allowed == Allowance(q, Bytes(q.value))
       IN IF allowed = 0 THEN Text(doc, q.field) = q.value
          ELSE Levenshtein(Text(doc, q.field), q.value) <= allowed

\* matches_prefix_query, and then score_prefix_query_bm25
MatchesPrefix(doc, q) ==
    /\ HasText(doc, q.field) /\ IsPrefix(q.value, Text(doc, q.field))
    /\ \E w \in Words(doc, q.field) : IsPrefix(Lower(q.value), w)

\* matches_wildcard_query, and then score_wildcard_query_bm25
MatchesWildcard(ix, doc, q) ==
    /\ HasText(doc, q.field) /\ Glob(q.value, Text(doc, q.field))
    /\ \E w \in Words(doc, q.field) : Glob(q.value, w) /\ Positive(ix, w)

\* From a place of the first word on, the first place of each next word: anywhere
\* behind, or just behind.  The place of the last word, if it comes to that.
LastPlace(doc, words, place, adjacent) ==
    LET Behind(p, k) == {next \in Positions(doc, words[k + 1]) :
                            next > p /\ (adjacent => next - p - Bytes(words[k]) \in {1, 2})}
        place_of[k \in 1..Len(words)] ==
            IF k = 1 THEN {place}
            ELSE {Min(Behind(p, k - 1)) : p \in {p \in place_of[k - 1] : Behind(p, k - 1) # {}}}
    IN place_of[Len(words)]

\* score_phrase_query
MatchesPhrase(ix, d, q) ==
    LET doc   == ix.corpus[d]
        words == Tokenize(q.words)
    IN /\ HasText(doc, q.field) /\ Len(words) >= 2 /\ d \in ix.flushed
       /\ \E p \in Positions(doc, words[1]) :
              p < Bytes(Text(doc, q.field)) /\ LastPlace(doc, words, p, FALSE) # {}

\* What score_phrase_for_fields and score_phrase_prefix_for_fields ask of the fields.
PhraseFits(ix, d, q, words) ==
    /\ Len(words) >= 2 /\ ix.flushed # {}
    /\ \A f \in q.fields : HasField(ix.corpus[d], f)
    /\ \E f \in q.fields : Len(Tokens(ix.corpus[d], f)) >= Len(words)

\* tokens_are_consecutive; consecutive_except_last with prefix_matches_after_position
PhraseInPostings(ix, d, words) ==
    /\ d \in ix.flushed
    /\ \E p \in Positions(ix.corpus[d], words[1]) : LastPlace(ix.corpus[d], words, p, TRUE) # {}

PrefixInPostings(ix, d, words) ==
    /\ d \in ix.flushed
    /\ \E p \in Positions(ix.corpus[d], words[1]) :
       \E last \in LastPlace(ix.corpus[d], Front(words), p, TRUE) :
       \E w \in UNION {Words(ix.corpus[d], f) : f \in DOMAIN ix.corpus[d].text} :
           /\ IsPrefix(words[Len(words)], w) /\ Hit(ix, d, w)
           /\ \E p2 \in Positions(ix.corpus[d], w) : p2 > last

\* score_multi_match_query; best_fields and most_fields differ in the score only.
MatchesMulti(ix, d, q) ==
    LET words == Tokenize(q.words)
    IN /\ \E f \in q.fields, w \in Range(words) : HasWord(ix, d, f, w)
       /\ q.by = "phrase"        => PhraseFits(ix, d, q, words) /\ PhraseInPostings(ix, d, words)
       /\ q.by = "phrase_prefix" => PhraseFits(ix, d, q, words) /\ PrefixInPostings(ix, d, words)

\* score_bool_query
MatchesBool(q, matching) ==
    LET minimum == IF q.should = {} THEN 0
                   ELSE IF q.minimum # {} THEN Max(q.minimum)
                   ELSE IF q.must \cup q.filter = {} THEN 1 ELSE 0
    IN /\ q.must \cup q.filter \subseteq matching
       /\ q.must_not \cap matching = {}
       /\ Cardinality(q.should \cap matching) >= minimum

\* score_query, for any other query
MatchesClause(ix, d, q) ==
    LET doc == ix.corpus[d]
    IN CASE q.kind = "nothing"     -> FALSE
         [] q.kind = "term"        -> HasWord(ix, d, q.field, Lower(q.value))
         [] q.kind = "equals"      -> HasNumber(doc, q.field) /\ doc.number[q.field] = q.number
         [] q.kind = "terms"       -> MatchesTerms(ix, d, q)
         [] q.kind = "fuzzy"       -> MatchesFuzzy(doc, q)
         [] q.kind = "range"       -> HasNumber(doc, q.field) /\ MatchesRange(doc.number[q.field], q.bounds)
         [] q.kind = "prefix"      -> MatchesPrefix(doc, q)
         [] q.kind = "wildcard"    -> MatchesWildcard(ix, doc, q)
         [] q.kind = "match"       -> \E w \in Range(Tokenize(q.words)) : HasWord(ix, d, q.field, w)
         [] q.kind = "phrase"      -> MatchesPhrase(ix, d, q)
         [] q.kind = "multi_match" -> MatchesMulti(ix, d, q)

\* score_query
Matches(ix, d, q) == Holds(q, LAMBDA c : MatchesClause(ix, d, c), MatchesBool)

\* validate_query, with mappings that follow the documents: a number field has no
\* words, a text field no range.
Refused(corpus, q) ==
    LET IsNumber(f) == \E d \in DOMAIN corpus : HasNumber(corpus[d], f)
        IsText(f)   == \E d \in DOMAIN corpus : HasText(corpus[d], f)
    IN \E c \in Leaves(q) :
           CASE c.kind \in {"match", "phrase"} -> IsNumber(c.field)
             [] c.kind = "multi_match" -> c.fields = {} \/ \E f \in c.fields : IsNumber(f)
             [] c.kind = "range" -> IsText(c.field)
             [] OTHER -> FALSE

\* build_mlt_bool_query: the words of a document that are frequent enough in it and
\* in the index, at most so many of them; which ones is decided by their scores.
SimilarTo(ix, like) ==
    LET doc == ix.corpus[like.doc]
        Often(f, w) == Cardinality({k \in DOMAIN Tokens(doc, f) : Tokens(doc, f)[k] = w})
        significant == {t \in UNION {{Term(f, w) : w \in Words(doc, f)} : f \in DOMAIN doc.text} :
                            /\ Often(t.field, t.value) >= like.min_term_freq
                            /\ DocFreq(ix, t.value) >= like.min_doc_freq}
        some == Min({like.max_query_terms, Cardinality(significant)})
    IN {Bool({}, terms, {}) : terms \in kSubset(some, significant)}

\* search: the hits of a query, and those of a more_like_this.  The words that
\* idf_map knows are those of the query.
HitsOf(ix, q) == LET known == [ix EXCEPT !.terms = KnownTerms(q)]
                 IN {d \in DOMAIN ix.corpus : Matches(known, d, q)}
HitsLike(ix, like, q) == IF q.should = {} THEN {} ELSE HitsOf(ix, q) \ {like.doc}
=============================================================================
