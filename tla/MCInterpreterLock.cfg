SPECIFICATION Spec
CONSTANTS
    JavaThreads = {j1, j2}
    NativeThreads = {n1}
    NoState = NoState
    MaxFrames = 4
    DeallocYields = FALSE
SYMMETRY Symmetry
INVARIANTS
    GilExclusive
    NoFatalError
    OnlyDelegatesDeadlock
    NoLostWakeup
    GilstateExact
