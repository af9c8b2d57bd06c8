SPECIFICATION ListsSpec
CONSTANTS
    list = list
    array = array
    single = single
    static = static
    Objects = {list, array, single}
    Lists = {list}
    Arrays = {array}
    Singles = {single}
    Statics = {static}
    Holds <- HoldsDef
    Null = Null
    BlockSize = 1
    MaxBlocks = 2
    ArraySize = 2
    MaxItems = 2
    MaxLinks = 2
    Inputs <- SmallInputs
    Lengths = {2, 6}
    RunLimit = 3
    MIN_GALLOP = 2
INVARIANTS
    StackSound
    LinksFollow
    DelayExact
    NothingLost
    SortedStable
    PendingGrow
PROPERTIES
    ValidationRepairs
    ImplementsPromise
CHECK_DEADLOCK FALSE
