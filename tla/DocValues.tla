----------------------------- MODULE DocValues -----------------------------
(***************************************************************************)
(* Aggregations over one field, from the documents and from the columns    *)
(* that a flush writes beside its segment (DocValuesWriter, write_doc_values)*)
(* and that open_index loads (read_doc_values, DocValuesReader).           *)
(*                                                                         *)
(* A column is the sequence of what each document has in the field, in the *)
(* order of their ids: a text (a sequence of bytes), a number, or Missing.  *)
(* The values of an aggregation are a function from documents to values.   *)
(* Date histograms are left out: a time is a string, which encode_i64      *)
(* writes as 0, so that from columns they count the first of January 1970. *)
(***************************************************************************)
EXTENDS SequencesExt

CONSTANTS
    Missing,  \* the document does not have the field
    Nul,      \* the byte 0
    Panic     \* the reader slices a string from behind its end

\* How often each value occurs: the buckets of an aggregation.
Buckets(values) ==
    [v \in Range(values) |-> Cardinality({i \in DOMAIN values : values[i] = v})]

Held(column) == [i \in {j \in DOMAIN column : column[j] # Missing} |-> column[i]]

-----------------------------------------------------------------------------
\* From the documents that match.

TermsOfDocuments(column) == Buckets(Held(column))

Summary(values) ==
    [count |-> Cardinality(DOMAIN values), sum |-> SumFunction(values),
     min |-> IF DOMAIN values = {} THEN Missing ELSE Min(Range(values)),
     max |-> IF DOMAIN values = {} THEN Missing ELSE Max(Range(values))]

StatsOfDocuments(column) == Summary(Held(column))

-----------------------------------------------------------------------------
\* From the columns of a flush.

\* The pool of all texts, as it is when so many documents have been written.
Pool(column) ==
    LET pool[n \in 0..Len(column)] ==
            IF n = 0 THEN <<Nul>>
            ELSE IF column[n] = Missing THEN pool[n - 1] ELSE pool[n - 1] \o column[n]
    IN pool

\* Mutant: the offset of a text is where it ends.
EncodeKeywordsAtEnd(column) ==
    [offsets |-> [i \in DOMAIN column |->
                     IF column[i] = Missing THEN 0 ELSE Len(Pool(column)[i])],
     pool    |-> Pool(column)[Len(column)]]

\* encode_keywords: one offset per document, where its text begins.
EncodeKeywords(column) ==
    [offsets |-> [i \in DOMAIN column |->
                     IF column[i] = Missing THEN 0 ELSE Len(Pool(column)[i - 1])],
     pool    |-> Pool(column)[Len(column)]]

\* DocValuesReader::keywords: a text ends where that of the next document begins,
\* also when the next document has none.
DecodeKeywords(encoded) ==
    LET n == Len(encoded.offsets)
        EndOf(i) == IF i < n THEN encoded.offsets[i + 1] ELSE Len(encoded.pool)
    IN IF \E i \in 1..n : encoded.offsets[i] > EndOf(i) THEN Panic
       ELSE [i \in 1..n |-> SubSeq(encoded.pool, encoded.offsets[i] + 1, EndOf(i))]

TermsOfColumn(column) ==
    LET texts == DecodeKeywords(EncodeKeywords(column))
    IN IF texts = Panic THEN Panic ELSE Buckets(texts)

\* encode_i64 and encode_f64: a document without the field counts as 0.
EncodeNumbers(column) == [i \in DOMAIN column |-> IF column[i] = Missing THEN 0 ELSE column[i]]

StatsOfColumn(column) == Summary(EncodeNumbers(column))
=============================================================================
