SPECIFICATION RSpec
CONSTANTS
    k1 = k1 k2 = k2 a = a b = b c1 = c1 c2 = c2
    Blank = Blank Absent = Absent Garbage = Garbage
    Keys <- OneKey
    Values <- TwoValues
    Size <- MCSize
    Workload <- SharedKey
    Savers <- Second
    DirectSavers <- First
    Freers <- Second
    Readers = {}
    MaxFile = 3
    ChanCap = 1
INVARIANTS
    WithinFile
    LoggedWithinFile
