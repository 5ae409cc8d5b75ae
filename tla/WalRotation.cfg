SPECIFICATION Spec
CONSTANTS
    k1 = k1 k2 = k2 s0 = s0 s1 = s1 s2 = s2 c1 = c1 c2 = c2
    Absent = Absent
    Keys <- TwoKeys
    Spans <- OneSpan
    Clients <- Both
    Owner <- OwnKeys
    Shards <- OneByOne
    Field <- PlainKeys
    Legacy <- Import
    ChanCap = 1
    MaxLines = 3
    Snapshots = TRUE
    MayCrash = TRUE
    MayFail = TRUE
INVARIANTS
    TypeOK
    LogAgrees
CHECK_DEADLOCK FALSE
