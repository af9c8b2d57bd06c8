SPECIFICATION ThreadsSpec
CONSTANTS
    o1 = o1
    o2 = o2
    o3 = o3
    f1 = f1
    Pool = {o1, o2, o3}
    Eternal = {}
    Fields = {f1}
    Null = Null
    MaxOutside = 1
    OthersRun = TRUE
    AtomicIncref = FALSE
SYMMETRY Symmetry
CHECK_DEADLOCK FALSE
INVARIANTS
    DoomedUnreachable
