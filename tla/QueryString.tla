---------------------------- MODULE QueryString ----------------------------
(***************************************************************************)
(* The q= parameter of a search: parse_query_string.  (What the query it   *)
(* builds matches is a matter of module Scoring.)                          *)
(*                                                                         *)
(* An input is a sequence of pieces: a space, a parenthesis, a colon, a    *)
(* quote, an operator, the letters AND, OR or NOT, and any other run of    *)
(* word characters.  Adjacent pieces of letters are one word.              *)
(***************************************************************************)
EXTENDS Naturals, Sequences

CONSTANT NumberOf   \* the numerals among the pieces, and their values

Keywords  == {"AND", "OR", "NOT"}
Compare   == {">=", "<=", ">", "<"}
Numerals  == DOMAIN NumberOf
Blank     == " "
Quote     == "\""
Marks     == {Blank, "(", ")", ":", Quote, "..", "~", "*", "?"} \cup Compare
End       == "end"

At(s, i)   == IF i <= Len(s) THEN s[i] ELSE End
InWord(p)  == p \notin Marks \cup {End}

-----------------------------------------------------------------------------
\* Queries.  Clauses of a BoolQuery are sets: their order and number only matter
\* for the score.  (The parser makes no filter clauses and no minimum of shoulds.)

Term(f, v)       == [kind |-> "term", field |-> f, value |-> v]
Equals(f, n)     == [kind |-> "equals", field |-> f, number |-> n]   \* a term that is no string
Fuzzy(f, v, n)   == [kind |-> "fuzzy", field |-> f, value |-> v, edits |-> n]
Nothing          == [kind |-> "nothing"]   \* a fuzzy term that is no string
Wildcard(f, v)   == [kind |-> "wildcard", field |-> f, value |-> v]
RangeOf(f, op, n) == [kind |-> "range", field |-> f, bounds |-> {<<op, n>>}]
Between(f, m, n) == [kind |-> "range", field |-> f, bounds |-> {<<">=", m>>, <<"<=", n>>}]
Bool(must, should, mustNot) ==
    [kind |-> "bool", must |-> must, should |-> should, filter |-> {}, must_not |-> mustNot,
     minimum |-> {}]
Invalid          == [kind |-> "invalid"]

IsBool(q) == q.kind = "bool"

\* Mutant: the negations of the two sides are dropped.
MustForgetsNot(left, right) ==
    LET Kept(q) == IF ~IsBool(q) THEN {q}
                   ELSE IF q.must \cup q.should = {} THEN {}
                   ELSE {Bool(q.must, q.should, {})}
    IN Bool(Kept(left) \cup Kept(right), {}, {})

\* make_bool_must: each side stays a unit, its negations move up.
MakeBoolMust(left, right) ==
    LET Kept(q) == IF ~IsBool(q) THEN {q}
                   ELSE IF q.must \cup q.should = {} THEN {}
                   ELSE {Bool(q.must, q.should, {})}
        Negated(q) == IF IsBool(q) THEN q.must_not ELSE {}
    IN Bool(Kept(left) \cup Kept(right), {}, Negated(left) \cup Negated(right))

\* make_bool_should: what a side must match becomes what the whole must match,
\* and its negations are lost.
MakeBoolShould(left, right) ==
    LET Should(q) == IF IsBool(q) THEN q.should ELSE {q}
        Must(q)   == IF IsBool(q) THEN q.must ELSE {}
    IN Bool(Must(left) \cup Must(right), Should(left) \cup Should(right), {})

\* make_bool_must_not_and: the negations that the left side had are lost.
MakeBoolMustNotAnd(left, right) ==
    IF IsBool(left) THEN Bool(left.must, left.should, {right}) ELSE Bool({left}, {}, {right})

-----------------------------------------------------------------------------
\* Words and values.  Each reader gives the position behind what it has read.

WordEnd(s, i)  == CHOOSE j \in i..Len(s) + 1 :
                      ~InWord(At(s, j)) /\ \A k \in i..j - 1 : InWord(s[k])

\* is_operator_start: a value ends where the letters of an operator begin, even
\* within a word.
ValueStop(p) == p \in Keywords \cup {Blank, "(", ")", End}
ValueEnd(s, i) == CHOOSE j \in i..Len(s) + 1 :
                      ValueStop(At(s, j)) /\ \A k \in i..j - 1 : ~ValueStop(s[k])

Quotes(s, i) == {j \in i..Len(s) : s[j] = Quote}
First(S)     == CHOOSE j \in S : \A k \in S : j <= k

SkipSpace(s, i) == CHOOSE j \in i..Len(s) + 1 :
                       At(s, j) # Blank /\ \A k \in i..j - 1 : s[k] = Blank

\* classify_and_build_query
IsNumeral(v)   == Len(v) = 1 /\ v[1] \in Numerals
Dots(v)        == {k \in 1..Len(v) : v[k] = ".."}
Tildes(v)      == {k \in 1..Len(v) - 1 : v[k] = "~"}

Classify(f, v) ==
    IF v[1] \in Compare
    THEN IF IsNumeral(Tail(v)) THEN RangeOf(f, v[1], NumberOf[v[2]]) ELSE Invalid
    ELSE IF Dots(v) # {} /\ Len(v) > 1
    THEN LET k == First(Dots(v))
         IN IF IsNumeral(SubSeq(v, 1, k - 1)) /\ IsNumeral(SubSeq(v, k + 1, Len(v)))
            THEN Between(f, NumberOf[v[k - 1]], NumberOf[v[k + 1]]) ELSE Invalid
    ELSE IF v[Len(v)] = "~"   \* "value~N~" asks for a fuzzy term
    THEN IF Tildes(v) # {} /\ SubSeq(v, First(Tildes(v)) + 1, Len(v) - 1) \in
                {<<n>> : n \in Numerals \cup {"auto"}}
         THEN LET base == SubSeq(v, 1, First(Tildes(v)) - 1)
              IN IF IsNumeral(base) THEN Nothing ELSE Fuzzy(f, base, v[Len(v) - 1])
         ELSE Invalid
    ELSE IF \E k \in DOMAIN v : v[k] \in {"*", "?"} THEN Wildcard(f, v)
    ELSE IF IsNumeral(v) THEN Equals(f, NumberOf[v[1]]) ELSE Term(f, v)

\* A parser's result: the query, and the position where the next one goes on.
Parsed(q, i) == [query |-> q, at |-> i]
Failed       == Parsed(Invalid, 0)
IsFailed(r)  == r.query = Invalid

\* The value of a field, with quotes or without.
Valued(s, field, from, to, next) ==
    IF from = to THEN Failed ELSE Parsed(Classify(field, SubSeq(s, from, to - 1)), next)
ParseValue(s, field, i) ==
    IF At(s, i) # Quote THEN Valued(s, field, i, ValueEnd(s, i), ValueEnd(s, i))
    ELSE IF Quotes(s, i + 1) = {} THEN Failed
    ELSE LET e == First(Quotes(s, i + 1)) IN Valued(s, field, i + 1, e, e + 1)

\* parse_clause: field:value, or a bare word, which stands for tag:word.
ParseClause(s, i) ==
    LET w    == WordEnd(s, i)
        c    == SkipSpace(s, w)
        word == SubSeq(s, i, w - 1)
    IN IF w = i THEN Failed
       ELSE IF At(s, c) # ":" THEN Parsed(Term(<<"tag">>, word), w)
       ELSE ParseValue(s, word, SkipSpace(s, c + 1))

\* A word that spells an operator, and does not go on, is that operator.
IsWord(s, i, w) == At(s, i) = w /\ ~InWord(At(s, i + 1))

\* The result of combining what was read with the next operand.
Joined(left, right, Make(_, _)) ==
    IF IsFailed(left) \/ IsFailed(right) THEN Failed
    ELSE Parsed(Make(left.query, right.query), right.at)

\* parse_primary; an operator in its place is read as a bare word.  inside tells, for
\* each position, what an expression in parentheses that begins there is read as.
ParsePrimary(s, inside, from) ==
    LET i == SkipSpace(s, from)
    IN IF At(s, i) # "(" THEN ParseClause(s, i)
       ELSE LET r == inside[i + 1]
                close == SkipSpace(s, r.at)
            IN IF ~IsFailed(r) /\ At(s, close) = ")" THEN Parsed(r.query, close + 1) ELSE Failed

\* One turn of the loop of parse_and_expr.  A turn that ends the loop changes nothing
\* any more, and no loop makes more turns than there are pieces.
AndTurn(s, inside, left) ==
    LET i == SkipSpace(s, left.at)
    IN IF IsFailed(left) THEN Failed
       ELSE IF At(s, i) \in {")", End} \/ IsWord(s, i, "OR") \/ IsWord(s, i, "NOT")
       THEN Parsed(left.query, i)
       ELSE Joined(left, ParsePrimary(s, inside, IF IsWord(s, i, "AND") THEN i + 1 ELSE i), MakeBoolMust)

ParseAnd(s, inside, i) ==
    LET left[n \in 0..Len(s)] ==
            IF n = 0 THEN ParsePrimary(s, inside, i) ELSE AndTurn(s, inside, left[n - 1])
    IN left[Len(s)]

\* The same for parse_or_expr.
OrTurn(s, inside, left) ==
    LET i == SkipSpace(s, left.at)
        Make(l, r) == IF At(s, i) = "NOT" THEN MakeBoolMustNotAnd(l, r) ELSE MakeBoolShould(l, r)
    IN IF IsFailed(left) THEN Failed
       ELSE IF ~IsWord(s, i, "NOT") /\ ~IsWord(s, i, "OR") THEN Parsed(left.query, i)
       ELSE Joined(left, ParseAnd(s, inside, i + 1), Make)

ParseOr(s, inside, i) ==
    LET left[n \in 0..Len(s)] ==
            IF n = 0 THEN ParseAnd(s, inside, i) ELSE OrTurn(s, inside, left[n - 1])
    IN left[Len(s)]

\* What is read from each position, with so many parentheses within each other.
Reading(s) ==
    LET reading[n \in 0..Len(s)] ==
            [i \in 1..Len(s) + 1 |-> IF n = 0 THEN Failed ELSE ParseOr(s, reading[n - 1], i)]
    IN reading

\* parse_query_string; parentheses are no deeper than the input is long.
Whole(s, r) == IF ~IsFailed(r) /\ SkipSpace(s, r.at) = Len(s) + 1 THEN r.query ELSE Invalid
ParseQueryString(s) == Whole(s, ParseOr(s, Reading(s)[Len(s)], 1))

=============================================================================
