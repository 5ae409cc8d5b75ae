SPECIFICATION FairSpec
CONSTANTS
    k1 = k1 k2 = k2 a = a b = b c1 = c1 c2 = c2
    Blank = Blank Absent = Absent Garbage = Garbage
    Keys <- TwoKeys
    Values <- TwoValues
    Size <- MCSize
    Workload <- OwnWorkload
    Savers <- First
    DirectSavers <- First
    Freers <- First
    Readers <- Second
    MaxFile = 5
    ChanCap = 1
INVARIANTS
    TypeInv
    WithinFileInv
    OneWriterInv
    SpaceApart
    IndexPointsAtData
PROPERTIES
    ImplementsMap
    ReadsCurrent
    Answered
