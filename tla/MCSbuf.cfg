SPECIFICATION FairSpec
CONSTANTS
    p1 = p1
    p2 = p2
    c1 = c1
    c2 = c2
    d1 = d1
    d2 = d2
    d3 = d3
    NoItem = NoItem
    Producers <- TwoProducers
    Consumers <- TwoConsumers
    Items <- ThreeItems
    N = 2
    MaxInserts = 4
INVARIANTS
    TypeOK
    Accounting
    NoOverflow
    OneOwner
PROPERTIES
    ImplementsQueue
    EveryItemServed
CHECK_DEADLOCK FALSE
