SPECIFICATION Spec
CONSTANTS
    MaxBlocks = 4
    Images <- CoffImages
    Bases = {20, 40}
    Probes = {1, 2, 3, 4, 6, 7, 8, 9, 10}
    SymMax = 3
    NameMax = 13
INVARIANTS
    HandlesClosed
    SymbolsExact
    PoolSound
    SiteResolved
\* A run loads one image.
CHECK_DEADLOCK FALSE
