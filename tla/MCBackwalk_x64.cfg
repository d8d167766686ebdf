SPECIFICATION FairSpec
CONSTANTS
    WordSize = 2
    WordRange = 20
    MinAddr = 4
    MaxAddr = 15
    FpOffset = 0
    HasPac = FALSE
    VaSize = 16
    SelectBit = 16
    FrameAddrs = {4, 8, 14}
    OddFps = {9, 16}
    GoodIps <- X64GoodIps
    OddIps = {3}
    Memories <- AnyMemories
    Starts = {4, 8}
    Residues = {0}
    Depths = {0, 1, 2}
    MaxTrace = 4
INVARIANTS
    TypeOK
    FramesValid
    StoredInitialised
    CollectVerdict
    ProcessReplays
    HeapBalanced
PROPERTIES
    CollectReturns
    RecordUnmixed
