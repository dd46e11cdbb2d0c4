SPECIFICATION FairSpec
CONSTANTS
    a = a
    v1 = v1
    v2 = v2
    Docs = {a}
    Values = {v1, v2}
    Absent = Absent
    NoOp = NoOp
    NoFile = NoFile
    Threshold = 1
    Legacy <- NoLegacy
    MaxSeq = 2
    MaxGen = 3
    MaxCrashes = 1
    MaxFaults = 1
PROPERTIES SearchCatchesUp
