--------------------------- MODULE MCIndexMetadata ---------------------------
EXTENDS IndexMetadata

CONSTANT Body  \* a field other than the time field

Value(class, at) == [class |-> class, at |-> at]
Source(body, time) == [f \in Fields |-> IF f = TimeField THEN time ELSE body]

\* Two types for the same field, with and without a time; a null; an array.
SomeSources ==
    {Source(Value("int32", 0), Absent), Source(Value("int64", 0), Absent),
     Source(Value("int32", 0), Value("rfc3339", 0)), Source(Value("null", 0), Value("int32", 1)),
     Source(Value("array", 0), Absent)}

SomeFields == {TimeField, Body}
SomeRetentions == {Absent, 1}
=============================================================================
