SPECIFICATION Spec
CONSTANTS
    Phases <- FirstPhases
    Lines <- Script
    MaxLines = 2
    Written = 2
    PipeCap = 2
    Dirs <- SomeDirs
INVARIANT
    ForegroundAwaited
CHECK_DEADLOCK FALSE
