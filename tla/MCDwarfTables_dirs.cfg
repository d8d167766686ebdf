SPECIFICATION Spec
CONSTANTS
    Group = 128
    Word = 32768
    LebStrings <- SomeLebs
    Units <- WideUnits
    Pools <- SomePools
    Strays <- SomeStrays
    line_str <- LineStr
    debug_str <- DebugStr
    DirsMax = 3
    FilesMax = 3
    FmtMax = 3
    StrMax = 40
    JoinMax = 8
INVARIANT NamesPrefix
CHECK_DEADLOCK FALSE
