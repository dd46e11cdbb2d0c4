SPECIFICATION Spec
CONSTANTS
    Names = {a}
    a = a
    Tasks = {t1, t2, t3}
    t1 = t1
    t2 = t2
    t3 = t3
    Permits = 1
    NoHandle = NoHandle
    NoName = NoName
    MaxEpoch = 2
    MaxOpens = 4
    MaxFaults = 2
SYMMETRY Symmetry
INVARIANTS TypeOK CacheIsCurrent OneHandle AckedIsOpen DeletedIsGone
