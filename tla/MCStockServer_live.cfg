SPECIFICATION FairSpec
CONSTANTS
    w1 = w1
    w2 = w2
    a = a
    b = b
    main = main
    None = None
    NoConn = NoConn
    Workers <- TwoWorkers
    Conns <- TwoConns
    Keys <- OneKey
    InitStock <- OneStock
    QueueSize = 1
    HalfRange = 16
    Requests <- ShowSellExit
    MaxRequests = 1
    MaxSigints = 1
    MayAbort <- Nobody
INVARIANT
    SavedComplete
PROPERTIES
    EveryRequestAnswered
    SigintTerminates
CHECK_DEADLOCK FALSE
