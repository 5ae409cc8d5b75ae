SPECIFICATION FairSpec
CONSTANTS
    k1 = k1 k2 = k2 s0 = s0 s1 = s1 s2 = s2 c1 = c1 c2 = c2
    Absent = Absent
    Keys <- TwoKeys
    Spans <- TwoSpans
    Clients <- Both
    Owner <- OwnKeys
    Shards <- OneByOne
    Field <- PlainKeys
    Legacy <- NoImport
    ChanCap = 2
    MaxLines = 3
    Snapshots = FALSE
    MayCrash = TRUE
    MayFail = FALSE
PROPERTIES
    ImplementsDurableMap
    EventuallyLogged
CHECK_DEADLOCK FALSE
