SPECIFICATION Spec
CONSTANTS
    Garbled = Garbled
    MaxSeq = 3
    MaxGen = 4
    MaxNeed = 2
    MaxCrashes = 2
    MaxErrors = 1
INVARIANTS TypeOK AckedReplayed NumbersFresh
PROPERTIES TrimIsInvisible
