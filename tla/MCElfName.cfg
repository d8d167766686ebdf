SPECIFICATION Spec
CONSTANTS
    None = None
    Files <- AllFiles
    Infos <- AllInfos
    Ips = {11, 12, 13, 14, 15, 16, 17}
    OutSize = 4
INVARIANTS
    TypeOK
    ResourcesReleased
    FunctionNamed
