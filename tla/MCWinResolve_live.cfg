SPECIFICATION FairSpec
CONSTANTS
    t1 = t1
    t2 = t2
    b1 = b1
    b2 = b2
    a = a
    b = b
    c = c
    None = None
    Threads <- TwoThreads
    Bases = {b1}
    Images = {a, b}
    PdbImages = {}
    CoffImages = {a, b}
    DwarfImages = {a}
    Readable = {a, b}
    MayUnload = TRUE
PROPERTIES
    ResolveReturns
