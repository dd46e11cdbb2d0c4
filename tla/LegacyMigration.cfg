SPECIFICATION Spec
CONSTANTS
    a = a
    b = b
    v1 = v1
    v2 = v2
    Docs = {a, b}
    Values = {v1, v2}
    Absent = Absent
    NoOp = NoOp
    NoFile = NoFile
    Threshold = 2
    Legacy <- OldDirectory
    MaxSeq = 2
    MaxGen = 3
    MaxCrashes = 1
    MaxFaults = 0
SYMMETRY Symmetry
INVARIANT LegacySurvives
