SPECIFICATION FairSpec
CONSTANTS
    c1 = c1 c2 = c2 p1 = p1 p2 = p2 k1 = k1 k2 = k2
    Nothing = Nothing
    Calls <- OneCall
    Asked <- OneQuestion
    Peers <- TwoPeers
    Asking <- OnePeer
    Stored <- OneOfTwoHas
INVARIANTS
    TypeOK
    OnlyDataIsHanded
PROPERTIES
    Returns
    BrokenLeave
CHECK_DEADLOCK FALSE
