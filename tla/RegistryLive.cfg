SPECIFICATION FairSpec
CONSTANTS
    Names = {a}
    a = a
    Tasks = {t1, t2, t3}
    t1 = t1
    t2 = t2
    t3 = t3
    Permits = 1
    NoHandle = NoHandle
    NoName = NoName
    MaxEpoch = 1
    MaxOpens = 2
    MaxFaults = 1
PROPERTY RequestsFinish
