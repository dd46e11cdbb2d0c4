------------------------------ MODULE QueryDsl ------------------------------
(***************************************************************************)
(* The two readers of a JSON search.  POST /{index}/_search reads the body *)
(* with parse_query and its helpers, which know shorthand forms; _msearch  *)
(* reads the same clauses with the derived Deserialize implementations of  *)
(* SearchQuery.                                                            *)
(*                                                                         *)
(* The body of a clause is a function from its keys to what their values   *)
(* are: a string ("text", or "auto"), a number, a list, an object or null. *)
(* What a value holds is well formed: a text is the name of an order where *)
(* one is expected ("auto" never is), a list of clauses can be read, and a *)
(* number is an unsigned integer.  The query that a reader makes of it     *)
(* tells which key or which value became which of its fields.              *)
(***************************************************************************)
EXTENDS Naturals

CONSTANTS
    UserField,   \* a field name of the user's, as a key of a shorthand form
    Rejected     \* the reader answers with an error

Kinds   == {"text", "auto", "number", "list", "object", "null"}
Strings == {"text", "auto"}

Has(body, key, kinds)  == key \in DOMAIN body /\ body[key] \in kinds
Present(body, key)     == key \in DOMAIN body /\ body[key] # "null"
Single(body)           == \E k \in DOMAIN body : DOMAIN body = {k}
OnlyKey(body)          == CHOOSE k \in DOMAIN body : TRUE

Optional(body, key, kinds) == key \notin DOMAIN body \/ Has(body, key, kinds \cup {"null"})

Bounds == {"gte", "lt"}         \* gt and lte are read in the same way
Occurs == {"should", "filter"}  \* so are must and must_not

\* Which options are set, and the kind of each.
Options(body, keys) == [k \in {j \in keys : Present(body, j)} |-> body[k]]

Clause(field, value, options) == [field |-> field, value |-> value, options |-> options]

-----------------------------------------------------------------------------
\* parse_query and its helpers.

\* parse_term_query; boost is never read.
SearchTerm(body) ==
    LET fuzzy == Options(body, {"fuzziness"})
    IN IF "fuzziness" \in DOMAIN body /\ ~Has(body, "fuzziness", {"auto", "number"}) THEN Rejected
       ELSE IF {"field", "value"} \cap DOMAIN body # {}
       THEN IF Has(body, "field", Strings) /\ "value" \in DOMAIN body
            THEN Clause("field", "value", fuzzy) ELSE Rejected
       ELSE IF Single(body) THEN Clause(OnlyKey(body), OnlyKey(body), fuzzy) ELSE Rejected

\* parse_terms_query
SearchTerms(body) ==
    IF {"field", "values"} \cap DOMAIN body # {}
    THEN IF Has(body, "field", Strings) /\ Has(body, "values", {"list"})
         THEN Clause("field", "values", <<>>) ELSE Rejected
    ELSE IF Single(body) /\ Has(body, OnlyKey(body), {"list"})
    THEN Clause(OnlyKey(body), OnlyKey(body), <<>>) ELSE Rejected

\* Mutant: the explicit form forgets an upper bound.
SearchRangeFromBelow(body) ==
    IF "field" \in DOMAIN body
    THEN IF Has(body, "field", Strings) THEN Clause("field", "bounds", Options(body, {"gte"})) ELSE Rejected
    ELSE IF Single(body) /\ Has(body, OnlyKey(body), {"object"})
    THEN Clause(OnlyKey(body), OnlyKey(body), <<>>) ELSE Rejected

\* parse_range_query; the bounds of the shorthand are those of the inner object.
SearchRange(body) ==
    IF "field" \in DOMAIN body
    THEN IF Has(body, "field", Strings) THEN Clause("field", "bounds", Options(body, Bounds)) ELSE Rejected
    ELSE IF Single(body) /\ Has(body, OnlyKey(body), {"object"})
    THEN Clause(OnlyKey(body), OnlyKey(body), <<>>) ELSE Rejected

\* parse_prefix_query, parse_wildcard_query, parse_match_query, parse_phrase_query
SearchText(body) ==
    IF {"field", "value"} \cap DOMAIN body # {}
    THEN IF /\ DOMAIN body = {"field", "value"}
            /\ Has(body, "field", Strings) /\ Has(body, "value", Strings)
         THEN Clause("field", "value", <<>>) ELSE Rejected
    ELSE IF Single(body) /\ Has(body, OnlyKey(body), Strings)
    THEN Clause(OnlyKey(body), OnlyKey(body), <<>>) ELSE Rejected

\* parse_multi_match_query
SearchMultiMatch(body) ==
    IF Has(body, "query", Strings) /\ Has(body, "fields", {"object"})
    THEN Clause("fields", "query", [type |-> IF Has(body, "type", Strings) THEN "type" ELSE "default"])
    ELSE Rejected

\* parse_bool_query, parse_bool_clause_array; a minimum that is no number is not read.
SearchBool(body) ==
    IF /\ DOMAIN body \subseteq Occurs \cup {"minimum_should_match"}
       /\ \A k \in Occurs \cap DOMAIN body : body[k] \in {"list", "null"}
    THEN Clause("bool", "clauses",
                Options(body, Occurs \cup {j \in {"minimum_should_match"} : Has(body, j, {"number"})}))
    ELSE Rejected

\* SortSpec, the explicit form: neither key may be missing.
MsearchSort(body) ==
    IF Has(body, "field", Strings) /\ Has(body, "order", {"text"})
    THEN Clause("field", "order", <<>>) ELSE Rejected

\* parse_sort: what is not the explicit form is a field with its order, which is
\* ascending unless there is an object that says something else.
SearchSort(body) ==
    IF MsearchSort(body) # Rejected THEN MsearchSort(body)
    ELSE IF Single(body)
    THEN Clause(OnlyKey(body), IF Has(body, OnlyKey(body), {"object"}) THEN OnlyKey(body) ELSE "asc", <<>>)
    ELSE Rejected

\* parse_search_request, parse_usize_field; aggregations is another name of aggs, and
\* search_after is never read.
SearchRequest(body) ==
    LET aggs == IF "aggs" \in DOMAIN body THEN "aggs" ELSE "aggregations"
    IN IF /\ Optional(body, "query", {"object"}) /\ Optional(body, "from", {"number"})
          /\ Optional(body, aggs, {"object"})
       THEN Clause("request", "request", Options(body, {"query", "from", aggs})) ELSE Rejected

Search(kind, body) ==
    CASE kind = "term" -> SearchTerm(body)
      [] kind = "terms" -> SearchTerms(body)
      [] kind = "range" -> SearchRange(body)
      [] kind = "text" -> SearchText(body)
      [] kind = "multi_match" -> SearchMultiMatch(body)
      [] kind = "bool" -> SearchBool(body)
      [] kind = "sort" -> SearchSort(body)
      [] kind = "request" -> SearchRequest(body)

-----------------------------------------------------------------------------
\* Deserialize: named fields of the right type, options that may be null, and
\* keys that it does not know are skipped.

\* Fuzziness is an externally tagged enum: "auto" or {"exact": n}.
MsearchTerm(body) ==
    IF /\ Has(body, "field", Strings) /\ "value" \in DOMAIN body
       /\ Optional(body, "fuzziness", {"auto", "object"}) /\ Optional(body, "boost", {"number"})
    THEN Clause("field", "value", Options(body, {"fuzziness", "boost"})) ELSE Rejected

MsearchTerms(body) ==
    IF Has(body, "field", Strings) /\ Has(body, "values", {"list"})
    THEN Clause("field", "values", <<>>) ELSE Rejected

MsearchRange(body) ==
    IF Has(body, "field", Strings) THEN Clause("field", "bounds", Options(body, Bounds)) ELSE Rejected

MsearchText(body) ==
    IF Has(body, "field", Strings) /\ Has(body, "value", Strings)
    THEN Clause("field", "value", <<>>) ELSE Rejected

\* The type has another key here than in SearchMultiMatch.
MsearchMultiMatch(body) ==
    IF /\ Has(body, "query", Strings)
       /\ "fields" \notin DOMAIN body \/ Has(body, "fields", {"object"})
       /\ "multi_match_type" \notin DOMAIN body \/ Has(body, "multi_match_type", Strings)
    THEN Clause("fields", "query",
                [type |-> IF "multi_match_type" \in DOMAIN body THEN "multi_match_type" ELSE "default"])
    ELSE Rejected

\* BoolQuery: the clauses may be missing but not null, the minimum may be null.
MsearchBool(body) ==
    IF /\ \A k \in Occurs \cap DOMAIN body : body[k] = "list"
       /\ Optional(body, "minimum_should_match", {"number"})
    THEN Clause("bool", "clauses", Options(body, Occurs \cup {"minimum_should_match"})) ELSE Rejected

\* SearchRequest of cloudsearch-common; a query may be the text "match_all" here.
MsearchRequest(body) ==
    IF /\ Optional(body, "query", {"object", "text"}) /\ Optional(body, "from", {"number"})
       /\ Optional(body, "aggs", {"object"}) /\ Optional(body, "search_after", {"list"})
    THEN Clause("request", "request", Options(body, {"query", "from", "aggs", "search_after"}))
    ELSE Rejected

Msearch(kind, body) ==
    CASE kind = "term" -> MsearchTerm(body)
      [] kind = "terms" -> MsearchTerms(body)
      [] kind = "range" -> MsearchRange(body)
      [] kind = "text" -> MsearchText(body)
      [] kind = "multi_match" -> MsearchMultiMatch(body)
      [] kind = "bool" -> MsearchBool(body)
      [] kind = "sort" -> MsearchSort(body)
      [] kind = "request" -> MsearchRequest(body)

-----------------------------------------------------------------------------
\* The keys that clients send in a clause of a kind, a sort or a request (whose size is
\* read as from is).
KeysOf(kind) ==
    CASE kind = "term" -> {UserField, "field", "value", "fuzziness", "boost"}
      [] kind = "terms" -> {UserField, "field", "values"}
      [] kind = "range" -> {UserField, "field"} \cup Bounds
      [] kind = "text" -> {UserField, "field", "value"}
      [] kind = "multi_match" -> {"query", "fields", "type", "multi_match_type"}
      [] kind = "bool" -> {UserField, "minimum_should_match"} \cup Occurs
      [] kind = "sort" -> {UserField, "field", "order"}
      [] kind = "request" -> {"query", "from", "aggs", "aggregations", "search_after"}

ClauseKinds == {"term", "terms", "range", "text", "multi_match", "bool", "sort", "request"}

\* Every clause of a kind: which keys it has, and the kind of each value.
Bodies(kind) == UNION {[keys -> Kinds] : keys \in SUBSET KeysOf(kind)}
=============================================================================
