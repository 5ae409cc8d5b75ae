SPECIFICATION Spec
CONSTANTS
    k1 = k1 k2 = k2 a = a b = b c1 = c1 c2 = c2
    Blank = Blank Absent = Absent Garbage = Garbage
    Keys <- TwoKeys
    Values <- TwoValues
    Size <- MCSize
    Workload <- OwnWorkload
    Savers <- Both
    DirectSavers = {}
    Freers = {}
    Readers = {}
    MaxFile = 5
    ChanCap = 2
INVARIANTS
    IndexPointsAtData
