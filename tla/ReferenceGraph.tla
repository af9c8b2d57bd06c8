--------------------------- MODULE ReferenceGraph ---------------------------
(***************************************************************************)
(* checkReferenceGraph (gcmodule.c 2198-2314).  A Java garbage collection  *)
(* found the JyGCHeads of a pool of native objects unreachable.  Native    *)
(* code that Java does not see may still hold references to them: the      *)
(* check compares each object's reference count with the references found  *)
(* inside the pool, and if some count cannot be explained it searches what *)
(* is reachable from the unexplained objects.                              *)
(*                                                                         *)
(* The thread that runs the check holds the GIL throughout, so the heap    *)
(* does not change.  Each call of tp_traverse is one step.                 *)
(***************************************************************************)
EXTENDS Naturals, Integers, FiniteSets

CONSTANTS
    Pool,        \* refPool: native objects whose JyGCHead was collected
    Eternal,     \* those with JY_CACHE_ETERNAL: a cache holds one reference
    Fields,      \* the references an object can hold
    Null,        \* a field that refers to nothing in the pool
    MaxOutside   \* bound on references from outside the pool to an object

ASSUME ReferenceGraphAssumption ==
    /\ IsFiniteSet(Pool)
    /\ IsFiniteSet(Fields)
    /\ Eternal \subseteq Pool
    /\ Null \notin Pool
    /\ MaxOutside \in Nat

VARIABLES
    gc,             \* the members with PyObject_IS_GC
    refs,           \* what tp_traverse finds in each field
    outside,        \* references held by anything but GC members of the pool
    weak,           \* those of them that stand for weak references
    \* locals of checkReferenceGraph
    result, restoreRefs, graphInvalid,
    todo,           \* members to traverse before the pass ends
    pc

heap == <<gc, refs, outside, weak>>
check == <<result, restoreRefs, graphInvalid, todo, pc>>

-----------------------------------------------------------------------------

\* How many references to q the members of S hold.
References(S, q) == Cardinality({s \in S \X Fields : refs[s] = q})

\* Mutant: obtainJyGCHead takes no reference for the head.
RefCountNoHead(p) ==
    outside[p] + References(Pool, p) + (IF p \in Eternal THEN 1 ELSE 0)

\* ob_refcnt: the head of an object holds one reference to it.
RefCount(p) ==
    1 + outside[p] + References(Pool, p) + (IF p \in Eternal THEN 1 ELSE 0)

TypeOK ==
    /\ gc \subseteq Pool
    /\ refs \in [Pool \X Fields -> Pool \cup {Null}]
    /\ outside \in [Pool -> Nat]
    /\ weak \in [Pool -> Nat]
    /\ result \in [Pool -> Nat \ {0}]
    /\ restoreRefs \in [Pool -> Nat]
    /\ graphInvalid \in BOOLEAN
    /\ todo \subseteq gc
    /\ pc \in {"subtract", "search", "done"}

\* Any heap: only GC members are traversed, what others hold is outside.
HeapInit ==
    /\ gc \in SUBSET (Pool \ Eternal)
    /\ refs \in [Pool \X Fields -> Pool \cup {Null}]
    /\ \A p \in Pool \ gc, f \in Fields : refs[<<p, f>>] = Null
    /\ outside \in [Pool -> 0 .. MaxOutside]
    /\ weak \in [Pool -> 0 .. MaxOutside]
    /\ \A p \in Pool : weak[p] <= outside[p]

InitialCount(p) == RefCount(p) - (IF p \in Eternal THEN 1 ELSE 0)

CheckInit ==
    /\ result = [p \in Pool |-> InitialCount(p)]
    /\ restoreRefs = [p \in Pool |-> 0]
    /\ graphInvalid = FALSE
    /\ todo = gc
    /\ pc = "subtract"

-----------------------------------------------------------------------------

\* tp_traverse with visit_refCheckDec.
Subtract(p) ==
    /\ pc = "subtract" /\ p \in todo
    /\ result' = [q \in Pool |-> result[q] - References({p}, q)]
    /\ todo' = todo \ {p}
    /\ UNCHANGED <<restoreRefs, graphInvalid, pc>>

Unexplained(p) == result[p] - weak[p] > 1

\* The first loop that finds an unexplained count starts the search.
Judge ==
    /\ pc = "subtract" /\ todo = {}
    /\ graphInvalid' = \E p \in Pool : Unexplained(p)
    /\ todo' = IF graphInvalid' THEN {p \in gc : result[p] > 1} ELSE {}
    /\ pc' = IF todo' = {} THEN "done" ELSE "search"
    /\ UNCHANGED <<result, restoreRefs>>

\* tp_traverse with visit_refCheckInc, for a member of restoreStack.
Traverse(p) ==
    /\ pc = "search" /\ p \in todo
    /\ restoreRefs' = [q \in Pool |-> restoreRefs[q] + References({p}, q)]
    /\ todo' = todo \ {p}
    /\ UNCHANGED <<result, graphInvalid, pc>>

\* Mutant: every member is found.
FoundAll == {q \in Pool : result[q] = 1}

\* The members seen for the first time in this round.
Found == {q \in Pool : result[q] = 1 /\ restoreRefs[q] > 0}

\* Mutant: a member that was found is not marked as visited.
NextRoundUnmarked ==
    /\ pc = "search" /\ todo = {}
    /\ restoreRefs' = [q \in Pool |-> 0]
    /\ todo' = gc \cap Found
    /\ pc' = IF todo' = {} THEN "done" ELSE "search"
    /\ UNCHANGED <<result, graphInvalid>>

NextRound ==
    /\ pc = "search" /\ todo = {}
    /\ result' = [q \in Pool |->
                     IF q \in Found THEN result[q] + restoreRefs[q] ELSE result[q]]
    /\ restoreRefs' = [q \in Pool |-> 0]
    /\ todo' = gc \cap Found
    /\ pc' = IF todo' = {} THEN "done" ELSE "search"
    /\ UNCHANGED graphInvalid

-----------------------------------------------------------------------------

CheckStep ==
    \/ \E p \in todo : Subtract(p) \/ Traverse(p)
    \/ Judge \/ NextRound

Init == HeapInit /\ CheckInit
Next == CheckStep /\ UNCHANGED heap
vars == <<heap, check>>

Spec == Init /\ [][Next]_vars

-----------------------------------------------------------------------------
(* Properties.                                                             *)

\* A set that holds every member with a reference from outside, and whatever
\* a traversed member of the set refers to.
Closed(S) ==
    /\ \A p \in Pool : outside[p] > 0 => p \in S
    /\ \A p \in gc \cap S, f \in Fields : refs[<<p, f>>] \in S \cup {Null}

Reachable == {q \in Pool : \A S \in SUBSET Pool : Closed(S) => q \in S}

Kept == {p \in Pool : result[p] > 1}

\* When the graph is invalid, the objects that are kept are exactly those
\* reachable from outside the pool: no object is deleted that a survivor
\* still refers to, and no garbage is resurrected (gcmodule.c 2258-2303).
KeptIsReachable == pc = "done" /\ graphInvalid => Kept = Reachable

\* The pool is found self-contained exactly when nothing outside refers to it
\* other than weakly: every reference inside the pool is subtracted once
\* (gcmodule.c 2221-2257).
ValidIsSelfContained ==
    pc = "done" => (graphInvalid <=> \E p \in Pool : outside[p] > weak[p])

\* Both together: the check decides by what is reachable from outside.
DecidesByReach == KeptIsReachable /\ ValidIsSelfContained

\* Every round of the search finds a member that no earlier round found: no
\* object is pushed twice, and the search ends (gcmodule.c 2276-2302).
SearchAdvances ==
    [][ pc = "search" /\ todo = {} /\ pc' = "search" =>
          Kept \subseteq Kept' /\ Kept # Kept' ]_vars
=============================================================================
