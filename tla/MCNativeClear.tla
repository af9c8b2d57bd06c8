--------------------------- MODULE MCNativeClear ---------------------------
(* Symmetry for TLC: objects that are not eternal are interchangeable.      *)
EXTENDS NativeClear, TLC

Symmetry == Permutations(Pool \ Eternal)

\* With other threads running, one CStub and types that all have tp_clear keep
\* the state space small.
ThreadsInit ==
    NativeInit /\ clearable = gc /\ Cardinality(truncated) = 1

ThreadsSpec == ThreadsInit /\ [][NativeNext]_allVars
=============================================================================
