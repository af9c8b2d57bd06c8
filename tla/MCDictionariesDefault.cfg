SPECIFICATION PartsSpec
CONSTANTS
    x = x
    y = y
    d1 = d1
    d2 = d2
    k1 = k1
    k2 = k2
    k3 = k3
    None = None
    Loops = {x, y}
    Dicts = {d1, d2}
    Keys = {k1, k2, k3}
    MaxSize = 3
    Null = Null
    Names = {n1, n2}
    Values = {v1, v2}
    Threads = {x, y}
    Iterators = {it}
    Texts = {modn, modf}
    Counter = wrct
    Blocks = {b1, b2, b3}
    MaxCount = 2
    Types = {"object", "a", "b", "u", "v", "w"}
    Classic = {"k", "j"}
    cl_bases <- ClassicBases
    Hierarchies <- AllHierarchies
SYMMETRY Interchangeable
PROPERTIES
    InsertedHeld
