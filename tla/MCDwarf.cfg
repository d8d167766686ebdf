SPECIFICATION Spec
CONSTANTS
    f1 = f1
    f2 = f2
    NoName = NoName
    ProgLen = 3
    AddrRange = 16
    LineRange = 64
    LineMax = 15
    RowMax = 5
    Sections <- AllSections
INVARIANTS
    TypeOK
    SearchCorrect
    RowsAreMatrix
    CoveredFound
