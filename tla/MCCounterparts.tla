--------------------------- MODULE MCCounterparts ---------------------------
(* Symmetry for TLC: Java objects are interchangeable, and mirrored objects *)
(* are as long as none of them is watched natively.                        *)
EXTENDS Counterparts, TLC

JavaSymmetry == Permutations(Javas)
Symmetry == JavaSymmetry \cup Permutations(Mirrors)
=============================================================================
