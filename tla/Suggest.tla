------------------------------ MODULE Suggest ------------------------------
(***************************************************************************)
(* Suggestions: the words that each flush lists beside its segment         *)
(* (build_suggest_index), how a prefix is looked up in such a list         *)
(* (SuggestReader), and how the answers of all segments are put together   *)
(* (suggest).                                                              *)
(*                                                                         *)
(* Documents and words are those of module Scoring.  Every text field is   *)
(* taken to be a keyword or unmapped (others are not listed).  A score is  *)
(* a fraction: the documents of a segment that have the word, out of those *)
(* it has, times the weight of the field.                                  *)
(***************************************************************************)
EXTENDS Scoring

CONSTANT Alphabet   \* the letters, in the order of their bytes

ByteOf(l)   == CHOOSE i \in DOMAIN Alphabet : Alphabet[i] = l
TextBefore(v, w) ==
    \/ v # w /\ IsPrefix(v, w)
    \/ \E k \in DOMAIN v \cap DOMAIN w :
           ByteOf(v[k]) < ByteOf(w[k]) /\ SubSeq(v, 1, k - 1) = SubSeq(w, 1, k - 1)

\* The elements of a set in an order: before the k-th there are k - 1.
InOrder(S, R) ==
    [k \in 1..Cardinality(S) |-> CHOOSE x \in S : Cardinality({y \in S : <<y, x>> \in R}) = k - 1]

\* build_suggest_index: the words of a field, in order, and how many documents of
\* the segment have each.
Listed(segment, f) ==
    LET words == UNION {Words(doc, f) : doc \in segment}
        terms == InOrder(words, {p \in words \X words : TextBefore(p[1], p[2])})
    IN [k \in DOMAIN terms |->
           [term |-> terms[k], doc_freq |-> Cardinality({doc \in segment : terms[k] \in Words(doc, f)})]]

\* One turn of the loop of find_first_prefix, the binary search for the first word that
\* is not before the prefix: it is among those from lo on, and not behind hi.

\* Mutant: the search ends at a word that has the prefix.
NarrowedHasty(list, prefix, r) ==
    LET mid == (r.lo + r.hi) \div 2
    IN IF r.lo >= r.hi THEN r
       ELSE IF IsPrefix(prefix, list[mid].term) THEN [lo |-> mid, hi |-> mid]
       ELSE IF TextBefore(list[mid].term, prefix) THEN [r EXCEPT !.lo = mid + 1]
       ELSE [r EXCEPT !.hi = mid]

Narrowed(list, prefix, r) ==
    LET mid == (r.lo + r.hi) \div 2
    IN IF r.lo >= r.hi THEN r
       ELSE IF TextBefore(list[mid].term, prefix) THEN [r EXCEPT !.lo = mid + 1]
       ELSE [r EXCEPT !.hi = mid]

\* find_first_prefix; behind the last word if all are before the prefix.  (The loop has no
\* more turns than there are words.)
LowerBound(list, prefix) ==
    LET turn[n \in 0..Len(list)] ==
            IF n = 0 THEN [lo |-> 1, hi |-> Len(list) + 1] ELSE Narrowed(list, prefix, turn[n - 1])
    IN turn[Len(list)].lo

\* suggest_for_field: the words from there on, as long as they have the prefix.
SuggestForField(list, prefix) ==
    LET start == LowerBound(list, prefix)
    IN IF prefix = <<>> THEN {}
       ELSE {list[k] : k \in {i \in start..Len(list) :
                                  \A j \in start..i : IsPrefix(prefix, list[j].term)}}

Higher(s, t) == s.score[1] * t.score[2] > t.score[1] * s.score[2]
Level(s, t)  == s.score[1] * t.score[2] = t.score[1] * s.score[2]

\* Higher scores first, then by text; the fields come in the order of their names.
Sooner(s, t) ==
    \/ Higher(s, t)
    \/ Level(s, t) /\ TextBefore(s.text, t.text)
    \/ Level(s, t) /\ s.text = t.text /\
           \E i, j \in DOMAIN FieldOrder : i < j /\ FieldOrder[i] = s.field /\ FieldOrder[j] = t.field

\* What each segment suggests; weights is a function from fields.
Offers(segments, weights, prefix) ==
    LET from(f, k) == {[field |-> f, text |-> e.term, doc_freq |-> e.doc_freq, segment |-> k,
                        score |-> <<e.doc_freq * weights[f], Max({1, Cardinality(segments[k])})>>] :
                           e \in SuggestForField(Listed(segments[k], f), prefix)}
    IN UNION {from(f, k) : f \in {g \in DOMAIN weights : weights[g] # 0}, k \in DOMAIN segments}

\* Of one word of a field, the first of the best, where segments come in their order.
Beats(t, s) == /\ t.field = s.field /\ t.text = s.text
               /\ Higher(t, s) \/ (Level(t, s) /\ t.segment < s.segment)
Best(offers) == {s \in offers : ~\E t \in offers : Beats(t, s)}

\* suggest
Suggestions(segments, weights, typed, size) ==
    LET best  == Best(Offers(segments, weights, AsciiLower(typed)))
        found == InOrder(best, {p \in best \X best : Sooner(p[1], p[2])})
    IN SubSeq(found, 1, Min({size, Len(found)}))
=============================================================================
