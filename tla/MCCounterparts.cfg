SPECIFICATION CounterSpec
CONSTANTS
    m1 = m1
    p1 = p1
    j1 = j1
    j2 = j2
    j3 = j3
    None = None
    Deleted = Deleted
    Mirrors = {m1}
    Peers = {p1}
    Javas = {j1, j2, j3}
    NativelyWatched = {}
    MaxOwned = 2
SYMMETRY Symmetry
CHECK_DEADLOCK FALSE
INVARIANTS
    ReferencesExact
    HandlesSound
    WeakCountBounded
PROPERTIES
    PairsKept
