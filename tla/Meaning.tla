------------------------------ MODULE Meaning ------------------------------
(***************************************************************************)
(* What a query is documented to ask of a document, stated on the document *)
(* alone: neither postings nor frequencies matter.  Term and terms ask for *)
(* exactly that text (all strings are keywords), match, phrase and         *)
(* multi_match for words, in capitals or not, prefix, wildcard and fuzzy   *)
(* for the whole text as it is stored.  And the gaps, where a search is    *)
(* known to differ.                                                        *)
(***************************************************************************)
EXTENDS Scoring

\* The least number of letters that are changed, added or removed between two texts.
EditDistance(a, b) ==
    LET between[cell \in (0..Len(a)) \X (0..Len(b))] ==   \* the first i and the first j letters
            LET i == cell[1]
                j == cell[2]
            IN IF i = 0 \/ j = 0 THEN i + j
               ELSE IF a[i] = b[j] THEN between[<<i - 1, j - 1>>]
               ELSE 1 + Min({between[<<i - 1, j>>], between[<<i, j - 1>>], between[<<i - 1, j - 1>>]})
    IN between[<<Len(a), Len(b)>>]

\* Words of a full-text query and of a field, whether in capitals or not.
Folded(words)      == [k \in DOMAIN words |-> Lower(words[k])]
FieldWords(doc, f) == IF HasText(doc, f) THEN Folded(doc.text[f]) ELSE <<>>
Shares(doc, f, words) == Range(Folded(words)) \cap Range(FieldWords(doc, f)) # {}

\* Where the words of a phrase follow each other in a field.
PhraseAt(doc, f, words) ==
    {k \in DOMAIN FieldWords(doc, f) :
        IsPrefix(words, SubSeq(FieldWords(doc, f), k, Len(FieldWords(doc, f))))}

\* The same, with a last word that need only be begun.
PrefixAt(doc, f, words) ==
    {k \in 1..Len(FieldWords(doc, f)) - Len(words) + 1 :
        /\ k \in PhraseAt(doc, f, Front(words))
        /\ IsPrefix(Last(words), FieldWords(doc, f)[k + Len(words) - 1])}

MeansClause(doc, q) ==
    CASE q.kind = "nothing"  -> FALSE
      [] q.kind = "term"     -> HasText(doc, q.field) /\ Text(doc, q.field) = q.value
      [] q.kind = "equals"   -> HasNumber(doc, q.field) /\ doc.number[q.field] = q.number
      [] q.kind = "terms"    -> \/ HasText(doc, q.field) /\ Text(doc, q.field) \in q.strings
                                \/ HasNumber(doc, q.field) /\ doc.number[q.field] \in q.numbers
      [] q.kind = "fuzzy"    -> /\ HasText(doc, q.field)
                                /\ EditDistance(Text(doc, q.field), q.value) <= Allowance(q, Len(q.value))
      [] q.kind = "range"    -> HasNumber(doc, q.field) /\ MatchesRange(doc.number[q.field], q.bounds)
      [] q.kind = "prefix"   -> HasText(doc, q.field) /\ IsPrefix(q.value, Text(doc, q.field))
      [] q.kind = "wildcard" -> HasText(doc, q.field) /\ Glob(q.value, Text(doc, q.field))
      [] q.kind = "match"    -> Shares(doc, q.field, q.words)
      [] q.kind = "phrase"   -> PhraseAt(doc, q.field, Folded(q.words)) # {}
      [] q.kind = "multi_match" ->
            \E f \in q.fields :
                CASE q.by = "phrase"        -> PhraseAt(doc, f, Folded(q.words)) # {}
                  [] q.by = "phrase_prefix" -> PrefixAt(doc, f, Folded(q.words)) # {}
                  [] OTHER -> Shares(doc, f, q.words)

\* All of the must and filter clauses, none of the must_not, and as many of the should
\* as are asked for: one, unless there is a number, or something else that must hold.
MeansBool(q, meant) ==
    /\ \A c \in q.must \cup q.filter : c \in meant
    /\ \A c \in q.must_not : c \notin meant
    /\ LET met == {c \in q.should : c \in meant}
       IN \/ q.should = {}
          \/ q.minimum = {} /\ (q.must \cup q.filter # {} \/ met # {})
          \/ \E n \in q.minimum : Cardinality(met) >= n

Means(doc, q) == Holds(q, LAMBDA c : MeansClause(doc, c), MeansBool)

-----------------------------------------------------------------------------
\* The gaps of a single clause.

FieldsOf(q)  == IF q.kind = "multi_match" THEN q.fields ELSE {q.field}
Values(q)    == IF q.kind = "terms" THEN q.strings ELSE {q.value}
WordsOf(q)   == IF q.kind \in {"term", "terms"} THEN {Lower(v) : v \in Values(q)}
                ELSE Range(Tokenize(q.words))
IsPhrase(q)  == q.kind = "phrase" \/ (q.kind = "multi_match" /\ q.by \in {"phrase", "phrase_prefix"})

\* The last text field that has a word is this one, so that its postings speak of it.
AtHome(doc, f, w) == HomeOf(doc, w) # {} /\ FieldOrder[Max(HomeOf(doc, w))] = f

\* The word occurs in the field as a word only.
Alone(doc, f, w) ==
    \A v \in Words(doc, f) : v # w => ~\E i \in DOMAIN v : IsPrefix(w, SubSeq(v, i, Len(v)))

\* Wide capitals, which only one of the two sides of a comparison lowers.
WideCapital(w)  == Lower(w) # AsciiLower(w)
WideIn(q, doc)  == \/ \E w \in Range(q.words) : WideCapital(w)
                   \/ \E f \in FieldsOf(q) : HasText(doc, f) /\ \E w \in Range(doc.text[f]) : WideCapital(w)

\* A document that the query asks for may be missing: for terms, a text of several words
\* and values with wide capitals; words that too many documents have, for terms and
\* wildcards; capitals and several words, for wildcards and prefixes; wide capitals, for
\* full-text queries; a phrase of one word, in a document without postings, with a word that
\* a later field has too, or over fields that the document lacks; a phrase with a
\* begun word whose postings the binary search misses.
Lost(ix, d, q) ==
    LET doc == ix.corpus[d]
        phrase == IF q.kind = "multi_match" /\ q.by = "phrase_prefix"
                  THEN UNION {Words(doc, f) : f \in q.fields} ELSE WordsOf(q)
    IN CASE q.kind \in {"term", "terms"} ->
                \/ HasText(doc, q.field) /\ Len(Tokens(doc, q.field)) # 1
                \/ \E v \in Values(q) : \/ WideCapital(v)
                                        \/ q.kind = "terms" /\ ~Positive(ix, Lower(v))
         [] q.kind = "fuzzy"    -> Range(q.value) \cap Wide # {}
         [] q.kind = "prefix"   -> " " \in Range(q.value) \/ WideCapital(q.value)
         [] q.kind = "wildcard" -> \/ Len(Tokens(doc, q.field)) # 1 \/ Tokens(doc, q.field) # doc.text[q.field]
                                   \/ \E w \in Words(doc, q.field) : ~Positive(ix, w)
         [] q.kind = "match" \/ (q.kind = "multi_match" /\ ~IsPhrase(q)) -> WideIn(q, doc)
         [] IsPhrase(q)         -> \/ d \notin ix.flushed \/ Len(q.words) < 2 \/ WideIn(q, doc)
                                   \/ q.kind # "phrase" /\ q.by = "phrase_prefix" /\ d \in ix.missed
                                   \/ \E f \in FieldsOf(q) : ~HasField(doc, f)
                                   \/ \E f \in FieldsOf(q), w \in phrase :
                                          w \in Words(doc, f) /\ ~AtHome(doc, f, w)
         [] OTHER -> FALSE

\* A document that it does not ask for may be found: by terms, whose text has several
\* words, one of which is the value, or differs in capitals; by the postings of a word
\* in another field; by a phrase whose words only follow in that order, occur within
\* longer words, or end in a begun word further on; by distances between wide letters.
Spurious(ix, d, q) ==
    LET doc == ix.corpus[d]
        Foreign(w) == \E f \in FieldsOf(q) : ~AtHome(doc, f, w)
    IN CASE q.kind = "phrase"   -> \/ \E w \in WordsOf(q) : Foreign(w) \/ ~Alone(doc, q.field, w)
                                   \/ Len(Tokens(doc, q.field)) > Len(q.words)
         [] q.kind = "multi_match" /\ q.by = "phrase" ->
                \E w \in WordsOf(q) : \/ Foreign(w)
                                      \/ \E f \in q.fields : ~Alone(doc, f, w)
         [] q.kind = "multi_match" /\ q.by = "phrase_prefix" ->
                \/ \E w \in WordsOf(q) \ {Last(Tokenize(q.words))} :
                       Foreign(w) \/ \E f \in q.fields : ~Alone(doc, f, w)
                \/ \E f \in q.fields : Len(Tokens(doc, f)) > Len(q.words)
         [] q.kind \in {"term", "terms", "match", "multi_match"} ->
                \/ \E w \in WordsOf(q) : Posted(ix, d, w) /\ \E f \in FieldsOf(q) : w \notin Words(doc, f)
                \/ /\ q.kind \in {"term", "terms"} /\ HasText(doc, q.field)
                   /\ \/ Len(Tokens(doc, q.field)) # 1
                      \/ \E v \in {Text(doc, q.field)} \cup Values(q) : Lower(v) # v
         [] q.kind = "fuzzy" -> HasText(doc, q.field) /\
                                (Range(q.value) \cup Range(Text(doc, q.field))) \cap Wide # {}
         [] OTHER -> FALSE

\* A search agrees with the meaning of its query on a document: fully where no clause
\* has a gap, and otherwise, for a query of one clause, in the direction without one.
Agrees(ix, d, q) ==
    LET known == [ix EXCEPT !.terms = KnownTerms(q)]
        finds == Matches(known, d, q)
        means == Means(ix.corpus[d], q)
    IN IF q.kind # "bool"
       THEN /\ means /\ ~Lost(known, d, q) => finds
            /\ finds /\ ~Spurious(known, d, q) => means
       ELSE (\A c \in Leaves(q) : ~Lost(known, d, c) /\ ~Spurious(known, d, c)) => (finds <=> means)
=============================================================================
