SPECIFICATION SnapSpec
CONSTANTS
    a = a
    v1 = v1
    s = s
    Absent = Absent
    NoOp = NoOp
    NoFile = NoFile
    NoName = NoName
    Names = {s}
    DataFile <- OwnDataFile
    MetaFile <- OwnMetaFile
    Threshold = 2
    Legacy <- NoLegacy
    Docs = {a}
    Values = {v1}
    MaxSeq = 2
    MaxGen = 3
    MaxCrashes = 1
    MaxFaults = 1
VIEW LiveView
INVARIANTS AckedIsRestorable ListingSurvivesCreates ReadAfterRestore
PROPERTIES RestoreIsWhole
