SPECIFICATION Spec
CONSTANTS
    MaxBlocks = 1
    Images <- PdbImages
    Bases = {20}
    Probes = {2, 3, 4, 5}
    SymMax = 3
    NameMax = 13
INVARIANT NameAndLineAgree
CHECK_DEADLOCK FALSE
