SPECIFICATION CaptureSpec
CONSTANTS
    UShortRange = 8
    MaxFrames = 3
    Lengths = {0, 1, 2, 3, 4, 5}
    Depths = {0, 1, 2, 3, 4, 7, 8, 9, 11}
    Addrs <- Addresses
    Stacks <- TwoGenerations
INVARIANTS
    CaptureInBounds
    CollectFresh
    ReportFaithful
