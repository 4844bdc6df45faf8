SPECIFICATION Spec
CONSTANTS
    w1 = w1
    w2 = w2
    a = a
    b = b
    main = main
    None = None
    NoConn = NoConn
    Workers <- TwoWorkers
    Conns <- TwoConns
    Keys <- TwoKeys
    InitStock <- SmallStock
    QueueSize = 1
    HalfRange = 16
    Requests <- EveryKind
    MaxRequests = 2
    MaxSigints = 0
    MayAbort <- OneMayAbort
INVARIANTS
    TypeOK
    LockInv
    TreeExclusion
    ByteCountExact
    OneServer
    NeverOversold
PROPERTY
    ImplementsBook
CHECK_DEADLOCK FALSE
