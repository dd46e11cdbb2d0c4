SPECIFICATION Spec
CONSTANTS
    Docs = {1, 2, 3}
    Keys = {1, 2}
    Missing = Missing
    Absent = Absent
    Scores = {1, 2}
    NoCursor = NoCursor
    MaxSize = 2
    MaxChanges = 1
    NumberOf <- MCNumberOf
    UserField = "price"
    Rejected = Rejected
    Nul = "nul"
    Panic = Panic
    NoRequest = NoRequest
    Corpus <- MCCorpus
    Clauses <- MCClauses
    Depth = 2
    Nesting = 2
    LowerOf <- MCLowerOf
    Wide <- MCWide
    FieldOrder <- MCFieldOrder
    Alphabet <- MCAlphabet
    Queries <- MCQueries
    Likes <- MCLikes
    Beginnings <- MCBeginnings
    Weights <- MCWeights
    Texts <- MCTexts
    Numbers = {1, 2}
    MaxRows = 3
INVARIANT OrMeansOr
CHECK_DEADLOCK FALSE
