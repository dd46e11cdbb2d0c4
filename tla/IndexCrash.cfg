SPECIFICATION Spec
CONSTANTS
    a = a
    b = b
    v1 = v1
    v2 = v2
    Docs = {a, b}
    Values = {v1, v2}
    Absent = Absent
    NoOp = NoOp
    NoFile = NoFile
    Threshold = 2
    Legacy <- NoLegacy
    MaxSeq = 3
    MaxGen = 4
    MaxCrashes = 2
    MaxFaults = 0
SYMMETRY Symmetry
VIEW LiveView
INVARIANTS TypeOK TailWins RecoveryExact NoPhantom
PROPERTIES ImplementsStore
