SPECIFICATION Spec
CONSTANTS
    NumPids = 3
    MaxKeys = 2
    MaxBuiltins = 2
    Builtins <- AllBuiltins
INVARIANTS
    TypeOK
    TableMatchesChildren
    ForegroundIsAwaited
    NoZombieForgotten
VIEW View
CHECK_DEADLOCK FALSE
