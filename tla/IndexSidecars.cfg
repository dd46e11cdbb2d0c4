SPECIFICATION SideSpec
CONSTANTS
    a = a
    b = b
    v1 = v1
    v2 = v2
    Docs = {a, b}
    Values = {v1, v2}
    Absent = Absent
    NoOp = NoOp
    NoFile = NoFile
    Threshold = 2
    Legacy <- NoLegacy
    MaxSeq = 2
    MaxGen = 3
    MaxCrashes = 1
    MaxFaults = 1
SYMMETRY Symmetry
VIEW LiveView
INVARIANTS PhrasesFound NoStalePostings SuggestionsFollow LogOrdered SequencesFresh ManifestBacked ReadYourWrites
