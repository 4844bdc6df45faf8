SPECIFICATION Spec
CONSTANTS
    Setups <- Runs
    NumIds = 5
    Scribbles <- SomeScribbles
    ALIGNMENT = 2
    HeapLo = 2
    HeapMax = 7
    Byte = 4
    Timers <- SomeTimers
    Starts <- SomeStarts
    SleepCycles = 5
    Usec = 4
    MAX_ETIME = 5
    Calls = 2
    Kbest = 2
    MaxSamples = 4
    Cycles <- SomeCycles
    CycPerTick <- Ticks
    Word = 4
    EpsilonNum = 1
    EpsilonDen = 2
INVARIANTS
    RangesExact
    VerdictExact
    MeasuresExact
VIEW View
CHECK_DEADLOCK FALSE
