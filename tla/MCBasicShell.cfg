SPECIFICATION FairSpec
CONSTANTS
    Phases <- AllPhases
    Lines <- Script
    MaxLines = 2
    Written = 2
    PipeCap = 2
    Dirs <- SomeDirs
INVARIANTS
    LineMeansPipeline
    PromptAfterForeground
PROPERTY
    EveryWaitEnds
CHECK_DEADLOCK FALSE
