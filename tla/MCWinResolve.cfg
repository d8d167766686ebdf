SPECIFICATION Spec
CONSTANTS
    t1 = t1
    t2 = t2
    b1 = b1
    b2 = b2
    a = a
    b = b
    c = c
    None = None
    Threads <- TwoThreads
    Bases <- TwoBases
    Images <- AllImages
    PdbImages = {c}
    CoffImages = {a, b}
    DwarfImages = {a}
    Readable <- AllImages
    MayUnload = FALSE
SYMMETRY Symmetric
INVARIANTS
    TablesCoherent
    InitialisedOnce
    NamesCurrent
    KnownNamed
