------------------------- MODULE MCInterpreterLock -------------------------
(* Symmetry for TLC: Java threads are interchangeable, and native ones.     *)
EXTENDS InterpreterLock, TLC

Symmetry == Permutations(JavaThreads) \cup Permutations(NativeThreads)
=============================================================================
