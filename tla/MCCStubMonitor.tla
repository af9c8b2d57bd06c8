--------------------------- MODULE MCCStubMonitor ---------------------------
(* Constants for model checking CStubMonitor: CStubs a and b, an object c  *)
(* that is no CStub, a finalize trigger o, finalizer threads f1 and f2.    *)
EXTENDS CStubMonitor, TLC
CONSTANTS a, b, c, o, f1, f2
\* CStubs are interchangeable, and so are finalizer threads.
Symmetry == Permutations({a, b}) \cup Permutations({f1, f2})
=============================================================================
