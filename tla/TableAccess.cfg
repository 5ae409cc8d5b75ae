SPECIFICATION FairSpec
CONSTANTS
    c1 = c1 c2 = c2 t1 = t1 t2 = t2 k1 = k1 d1 = d1 d2 = d2
    Absent = Absent Nobody = Nobody
    Clients <- TwoClients
    Tables <- TwoTables
    Keys <- OneKey
    Dirs <- TwoDirs
    Dir <- OwnDirs
    ChanCap = 1
    MayFail = TRUE
INVARIANTS
    TypeOK
    OneWorker
    IndexIsLog
    OwnEntries
PROPERTIES
    AnsweredByTheLiving
CHECK_DEADLOCK FALSE
