SPECIFICATION Spec
CONSTANTS
    Group = 128
    Word = 32768
    LebStrings <- SomeLebs
    Units <- SoundUnits
    Pools <- SomePools
    Strays <- SomeStrays
    line_str <- LineStr
    debug_str <- DebugStr
    DirsMax = 3
    FilesMax = 3
    FmtMax = 3
    StrMax = 13
    JoinMax = 5
INVARIANTS
    TypeOK
    TablesExact
    NamesPrefix
    CutRefused
    LebMeaning
\* A run parses one unit.
CHECK_DEADLOCK FALSE
