SPECIFICATION FairSpec
CONSTANTS
    a = a
    b = b
    c = c
    None = None
    NULL = NULL
    NoConn = NoConn
    Conns <- ThreeConns
    StockKeys <- ThreeKeys
    InitStock <- SmallStock
    Priorities <- TwoPriorities
    HalfRange = 64
    RequestsOf <- Mixed
    FD_SETSIZE = 2
    ReplyLen = 2
    SockBuf = 1
    MaxRequests = 1
    MaxSigints = 1
    SigintAt <- Served
    MayAbort <- OneMayAbort
INVARIANTS
    TypeOK
    TreapOK
    PoolConsistent
    ReadyExact
PROPERTIES
    ImplementsBook
    EveryRequestAnswered
VIEW View
CHECK_DEADLOCK FALSE
