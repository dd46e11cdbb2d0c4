-------------------------- MODULE MCSearchSession --------------------------
EXTENDS SearchSession, TLC

MCNumberOf == "1" :> 1 @@ "2" :> 2 @@ "3" :> 3
MCLowerOf  == "B" :> "b" @@ "OR" :> "or" @@ "É" :> "é"
MCAlphabet == <<"a", "b", "c", "or", "É", "é">>
MCWide     == {"É", "é"}

\* The fields, in the order of their names.
note == <<"note">>
size == <<"size">>
tag  == <<"tag">>
user == <<"user">>
MCFieldOrder == <<note, tag, user>>

a  == <<"a">>
b  == <<"b">>
c  == <<"c">>
ab == <<"a", "b">>
B  == <<"B">>
E  == <<"É">>

\* Three documents that differ in each of their fields.
MCCorpus ==
    1 :> [text |-> note :> <<c, ab>> @@ tag :> <<ab, <<"OR">>, c>>, number |-> size :> 1] @@
    2 :> [text |-> note :> <<ab, c, ab>> @@ tag :> << <<"a", "b", "c">> >>, number |-> size :> 2] @@
    3 :> [text |-> tag :> <<B, <<"a", "é">> >> @@ user :> <<E>>, number |-> size :> 3]

Asks(typed, query) == [typed |-> typed, asks |-> query]

\* The clauses of the syntax table of the documentation.
MCClauses == {
    Asks(ab, Term(tag, ab)),
    Asks(<<"size", ":", ">=", "2">>, RangeOf(size, ">=", 2)),
    Asks(<<"tag", ":", "\"", "OR", "\"">>, Term(tag, <<"OR">>)),
    Asks(<<"tag", ":", "a", "b", "*">>, Wildcard(tag, <<"a", "b", "*">>))}

Single(f) == {
    Term(f, ab), Term(f, B), Terms(f, {ab, B}, {2}), Terms(f, {c}, {}),
    Fuzzy(f, <<"a", "b", "b">>, "auto"), Fuzzy(f, <<"a", "c">>, "1"),
    Prefix(f, a), Prefix(f, <<"a", "b", " ">>), Prefix(f, b),
    Wildcard(f, <<"a", "?", "*">>), Wildcard(f, b),
    Match(f, <<ab, c>>), Match(f, <<B>>), Phrase(f, <<ab, c>>), Phrase(f, <<ab, c, ab>>), Phrase(f, <<ab>>)}

MCQueries ==
    Single(note) \cup Single(tag) \cup
    {Term(user, E), Term(user, <<"é">>), Terms(user, {E, a}, {}), Prefix(user, E), Wildcard(user, <<"*">>),
     Match(user, <<E>>), Match(user, << <<"é">> >>), Term(tag, <<"a", "b", "c">>), Fuzzy(user, E, "auto")} \cup
    {MultiMatch(fs, words, by) :
        fs \in {{}, {tag}, {note, tag}, {note, size}}, words \in {<<ab, c, ab>>, <<c, a>>, <<ab, c, a>>},
        by \in {"best_fields", "phrase", "phrase_prefix"}} \cup
    {Equals(size, 2), Term(size, ab), Match(size, <<ab>>), Phrase(size, <<ab, c>>), RangeOf(tag, "<", 2),
     Between(size, 2, 3), Nothing,
     Filter({Term(tag, ab)}, {Wildcard(tag, <<"a", "*">>)}),
     AnyOf({Term(tag, ab), Term(tag, c), Prefix(tag, a)}, 2),
     Bool({Match(tag, <<c>>)}, {Terms(tag, {B}, {})}, {Equals(size, 1)})}

MCLikes == [doc : Docs, min_term_freq : {1, 2}, min_doc_freq : {0, 2}, max_query_terms : {1, 3}]

MCBeginnings == {<<>>, a, ab, <<"B">>, c}
MCWeights  == {tag :> 1, note :> 1 @@ tag :> 2, note :> 1 @@ tag :> 0}

MCTexts == {<<"a">>, <<"a", "b">>}
=============================================================================
