SPECIFICATION NativeSpec
CONSTANTS
    o1 = o1
    o2 = o2
    f1 = f1
    Pool = {o1, o2}
    Eternal = {}
    Fields = {f1}
    Null = Null
    MaxOutside = 1
    OthersRun = TRUE
    AtomicIncref = TRUE
SYMMETRY Symmetry
CHECK_DEADLOCK FALSE
INVARIANTS
    NoUseAfterFree
