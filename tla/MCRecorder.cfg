SPECIFICATION FairSpec
CONSTANTS
    WordSize = 2
    WordRange = 64
    MinAddr = 4
    MaxAddr = 15
    FpOffset = 0
    HasPac = TRUE
    VaSize = 16
    SelectBit = 16
    FrameAddrs = {4, 8, 14}
    OddFps = {0, 9}
    GoodIps <- Arm64GoodIps
    OddIps = {35, 21}
    Memories <- Memory64
    Starts = {4}
    Residues = {0}
    Depths = {0, 2}
    MaxTrace = 4
PROPERTIES
    Implements
    BacktraceReturns
