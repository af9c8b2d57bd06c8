SPECIFICATION NativeSpec
CONSTANTS
    o1 = o1
    o2 = o2
    e = e
    f1 = f1
    f2 = f2
    Pool = {o1, o2, e}
    Eternal = {e}
    Fields = {f1, f2}
    Null = Null
    MaxOutside = 1
    OthersRun = FALSE
    AtomicIncref = TRUE
SYMMETRY Symmetry
CHECK_DEADLOCK FALSE
INVARIANTS
    NativeTypeOK
    RefcountExact
    NoUseAfterFree
    SurvivorsRight
    DecidesByReach
PROPERTIES
    SearchAdvances
