SPECIFICATION FairSpec
CONSTANTS
    c1 = c1 c2 = c2 n1 = n1 n2 = n2 k1 = k1 a1 = a1 a2 = a2
    NoKey = NoKey NoConn = NoConn
    Conns <- TwoConns
    Keys <- OneKey
    AuthKeys <- TwoTokens
    Notifiers <- OneNotifier
INVARIANTS
    TypeOK
    MapsAgree
    LeftForgotten
    SerializedWhileListed
PROPERTIES
    SingleUse
    LeavesMaps
CHECK_DEADLOCK FALSE
