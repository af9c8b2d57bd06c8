---------------------------- MODULE NativeClear ----------------------------
(***************************************************************************)
(* JyGC_clearNativeReferences (gcmodule.c 2321-2435) with its reference    *)
(* counts.  After checkReferenceGraph the reaper reports which CStubs are  *)
(* resurrected, releases the GIL while their finalizers ask for the        *)
(* verdict, and then gives up the reference that each collected head held, *)
(* breaking the cycles of the deleted objects with tp_clear.               *)
(*                                                                         *)
(* Meanwhile other native threads may run, and the finalizers of the       *)
(* resurrected CStubs take a reference for the new head without the GIL    *)
(* (JyGC_restoreCStubBackend, gcmodule.c 2442-2464).                       *)
(***************************************************************************)
EXTENDS ReferenceGraph

CONSTANTS
    OthersRun,      \* do other native threads run while the GIL is free?
    AtomicIncref    \* are Py_INCREF and Py_DECREF one step each?

ASSUME NativeClearAssumption ==
    OthersRun \in BOOLEAN /\ AtomicIncref \in BOOLEAN

VARIABLES
    truncated,      \* the members with PyObject_IS_TRUNCATED
    clearable,      \* the GC members whose type has tp_clear
    refcnt,         \* ob_refcnt
    freed,          \* deallocated members
    resurrected,    \* the array passed to gcDeletionReport
    consumed,       \* its members whose finalizer got the verdict
    loaded,         \* finalizers amid Py_INCREF: the count they have read
    restored,       \* its members that have a new head
    left,           \* members whose old head still holds its reference
    decref,         \* the reaper amid Py_DECREF: the object and its count
    phase           \* where the reaper is

native == <<truncated, clearable, refcnt, freed, resurrected, consumed, loaded,
            restored, left, decref, phase>>
allVars == <<heap, check, native>>

NotLoaded == -1
NoDecref == <<Null, NotLoaded>>

NativeTypeOK ==
    /\ TypeOK
    /\ truncated \subseteq Pool /\ clearable \subseteq gc
    /\ refcnt \in [Pool -> Nat]
    /\ freed \subseteq Pool /\ left \subseteq Pool
    /\ restored \subseteq consumed /\ consumed \subseteq resurrected
    /\ resurrected \subseteq truncated
    /\ loaded \in [Pool -> Nat \cup {NotLoaded}]
    /\ decref \in (Pool \cup {Null}) \X (Nat \cup {NotLoaded})
    /\ phase \in {"check", "await", "clear", "end"}

\* Every cycle of references passes through an object that can be cleared, as
\* the types of CPython see to.
Breakable ==
    \A S \in SUBSET (gc \ clearable) \ {{}} :
        \E p \in S : \A f \in Fields : refs[<<p, f>>] \notin S

NativeInit ==
    /\ Init
    /\ truncated \in SUBSET Pool
    /\ clearable \in SUBSET gc
    /\ Breakable
    /\ refcnt = [p \in Pool |-> RefCount(p)]
    /\ freed = {}
    /\ resurrected = {} /\ consumed = {} /\ restored = {}
    /\ loaded = [p \in Pool |-> NotLoaded]
    /\ left = Pool
    /\ decref = NoDecref
    /\ phase = "check"

-----------------------------------------------------------------------------
(* Reference counts.                                                       *)

\* Nobody runs on with a deallocation pending in the thread with the GIL.
Settled == \A p \in Pool : refcnt[p] = 0 => p \in freed

\* The counts after p's fields are dropped.
WithoutFieldsOf(p) == [q \in Pool |-> refcnt[q] - References({p}, q)]

NoFields(p) == [s \in Pool \X Fields |-> IF s[1] = p THEN Null ELSE refs[s]]

\* _Py_Dealloc, in the thread that made the count zero.
Dealloc(p) ==
    /\ refcnt[p] = 0 /\ p \notin freed
    /\ freed' = freed \cup {p}
    /\ refcnt' = WithoutFieldsOf(p)
    /\ refs' = NoFields(p)
    /\ UNCHANGED <<gc, outside, weak, check, truncated, clearable,
                   resurrected, consumed, loaded, restored, left, decref, phase>>

-----------------------------------------------------------------------------
(* The reaper.                                                             *)

Check == phase = "check" /\ CheckStep /\ UNCHANGED <<heap, native>>

\* Mutant: CStubs are resurrected only if they have unexplained references
\* of their own.
KeptCStubsDirect == {p \in truncated : outside[p] > 0}

KeptCStubs == truncated \cap Kept

\* gcDeletionReport.  The GIL is released only if something is resurrected.
Report ==
    /\ phase = "check" /\ pc = "done"
    /\ resurrected' = IF graphInvalid THEN KeptCStubs ELSE {}
    /\ phase' = IF resurrected' # {} THEN "await" ELSE "clear"
    /\ UNCHANGED <<heap, check, truncated, clearable, refcnt, freed, consumed,
                   loaded, restored, left, decref>>

\* waitForCStubs returns when every confirmation is consumed.
AwaitCStubs ==
    /\ phase = "await" /\ Settled
    /\ consumed = resurrected
    /\ phase' = "clear"
    /\ UNCHANGED <<heap, check, truncated, clearable, refcnt, freed,
                   resurrected, consumed, loaded, restored, left, decref>>

ToClear(p) == result[p] = 1 /\ refcnt[p] > 1 /\ p \in clearable

CountsCleared(p) == IF ToClear(p) THEN WithoutFieldsOf(p) ELSE refcnt

\* One turn of the loop: tp_clear if need be, and Py_DECREF, ...
Turn(p) ==
    /\ phase = "clear" /\ Settled /\ decref = NoDecref
    /\ p \in left
    /\ left' = left \ {p}
    /\ refs' = IF ToClear(p) THEN NoFields(p) ELSE refs
    /\ UNCHANGED <<gc, outside, weak, check, truncated, clearable, freed,
                   resurrected, consumed, loaded, restored>>

Release(p) ==
    /\ AtomicIncref
    /\ Turn(p)
    /\ refcnt' = [CountsCleared(p) EXCEPT ![p] = @ - 1]
    /\ phase' = IF left' = {} THEN "end" ELSE "clear"
    /\ UNCHANGED decref

\* ... which, if it is not one step, starts when tp_clear is over, ...
Clear(p) ==
    /\ ~AtomicIncref
    /\ Turn(p)
    /\ refcnt' = CountsCleared(p)
    /\ decref' = <<p, NotLoaded>>
    /\ UNCHANGED phase

\* ... reads the count ...
ReleaseLoad ==
    /\ decref[1] # Null /\ decref[2] = NotLoaded /\ Settled
    /\ decref' = <<decref[1], refcnt[decref[1]]>>
    /\ UNCHANGED <<heap, check, truncated, clearable, refcnt, freed,
                   resurrected, consumed, loaded, restored, left, phase>>

\* ... and writes it back.
ReleaseStore ==
    /\ decref[2] # NotLoaded
    /\ refcnt' = [refcnt EXCEPT ![decref[1]] = decref[2] - 1]
    /\ decref' = NoDecref
    /\ phase' = IF left = {} THEN "end" ELSE "clear"
    /\ UNCHANGED <<heap, check, truncated, clearable, freed, resurrected,
                   consumed, loaded, restored, left>>

-----------------------------------------------------------------------------
(* The finalizers of the resurrected CStubs.                               *)

\* consumeConfirmation.
Consume(p) ==
    /\ p \in resurrected \ consumed
    /\ consumed' = consumed \cup {p}
    /\ UNCHANGED <<heap, check, truncated, clearable, refcnt, freed,
                   resurrected, loaded, restored, left, decref, phase>>

\* Py_INCREF in JyGC_restoreCStubBackend reads the count, ...
RestoreLoad(p) ==
    /\ ~AtomicIncref
    /\ p \in consumed \ restored /\ loaded[p] = NotLoaded
    /\ loaded' = [loaded EXCEPT ![p] = refcnt[p]]
    /\ UNCHANGED <<heap, check, truncated, clearable, refcnt, freed,
                   resurrected, consumed, restored, left, decref, phase>>

\* ... and writes it back.
RestoreStore(p) ==
    /\ ~AtomicIncref
    /\ loaded[p] # NotLoaded
    /\ refcnt' = [refcnt EXCEPT ![p] = loaded[p] + 1]
    /\ loaded' = [loaded EXCEPT ![p] = NotLoaded]
    /\ restored' = restored \cup {p}
    /\ UNCHANGED <<heap, check, truncated, clearable, freed, resurrected,
                   consumed, left, decref, phase>>

\* Mutant: the new head takes no reference.
RestoreUncounted(p) ==
    /\ AtomicIncref
    /\ p \in consumed \ restored
    /\ restored' = restored \cup {p}
    /\ UNCHANGED <<heap, check, truncated, clearable, refcnt, freed,
                   resurrected, consumed, loaded, left, decref, phase>>

Restore(p) ==
    /\ AtomicIncref
    /\ p \in consumed \ restored
    /\ refcnt' = [refcnt EXCEPT ![p] = @ + 1]
    /\ restored' = restored \cup {p}
    /\ UNCHANGED <<heap, check, truncated, clearable, freed, resurrected,
                   consumed, loaded, left, decref, phase>>

-----------------------------------------------------------------------------
(* Other native threads, while the reaper does not hold the GIL.  They can *)
(* use what they hold references to, and what that refers to.              *)

GilFree == OthersRun /\ phase \in {"await", "end"} /\ Settled

\* A thread lets go of an object, or of a weak reference to it.
Drop(p) ==
    /\ GilFree
    /\ outside[p] > 0
    /\ outside' = [outside EXCEPT ![p] = @ - 1]
    /\ weak' \in {weak, [weak EXCEPT ![p] = @ - 1]}
    /\ 0 <= weak'[p] /\ weak'[p] <= outside'[p]
    /\ refcnt' = [refcnt EXCEPT ![p] = @ - 1]
    /\ UNCHANGED <<gc, refs, check, truncated, clearable, freed, resurrected,
                   consumed, loaded, restored, left, decref, phase>>

\* A thread takes a reference to an object it can reach.
Take(p) ==
    /\ GilFree
    /\ p \in Reachable \ freed /\ outside[p] < MaxOutside
    /\ outside' = [outside EXCEPT ![p] = @ + 1]
    /\ refcnt' = [refcnt EXCEPT ![p] = @ + 1]
    /\ UNCHANGED <<gc, refs, weak, check, truncated, clearable, freed,
                   resurrected, consumed, loaded, restored, left, decref, phase>>

\* A thread overwrites a field of an object it can reach.
Store(p, f, q) ==
    /\ GilFree
    /\ p \in (gc \cap Reachable) \ freed
    /\ q \in (Reachable \ freed) \cup {Null}
    /\ refs[<<p, f>>] # q
    /\ refs' = [refs EXCEPT ![<<p, f>>] = q]
    /\ refcnt' = [r \in Pool |->
                     refcnt[r] + (IF r = q THEN 1 ELSE 0)
                               - (IF r = refs[<<p, f>>] THEN 1 ELSE 0)]
    /\ UNCHANGED <<gc, outside, weak, check, truncated, clearable, freed,
                   resurrected, consumed, loaded, restored, left, decref, phase>>

-----------------------------------------------------------------------------

ReaperStep ==
    \/ Check \/ Report \/ AwaitCStubs
    \/ \E p \in Pool : Release(p) \/ Clear(p)
    \/ ReleaseLoad \/ ReleaseStore

FinalizerStep ==
    \E p \in Pool : Consume(p) \/ RestoreLoad(p) \/ RestoreStore(p) \/ Restore(p)

OtherStep ==
    \E p \in Pool :
        \/ Drop(p) \/ Take(p)
        \/ \E f \in Fields, q \in Pool \cup {Null} : Store(p, f, q)

DeallocStep == \E p \in Pool : Dealloc(p)

NativeNext == ReaperStep \/ FinalizerStep \/ OtherStep \/ DeallocStep

NativeSpec == NativeInit /\ [][NativeNext]_allVars

-----------------------------------------------------------------------------
(* Properties.                                                             *)

\* The heads that hold a reference to p.
HeadReferences(p) ==
    (IF p \in left \cup {decref[1]} THEN 1 ELSE 0)
    + (IF p \in restored THEN 1 ELSE 0)

\* Every reference count is what is really held: by heads old and new, fields,
\* caches and threads (gcmodule.c 2419-2431, 2452).  Needs AtomicIncref.
RefcountExact ==
    \A p \in Pool \ freed :
        refcnt[p] = HeadReferences(p) + outside[p] + References(Pool, p)
                    + (IF p \in Eternal THEN 1 ELSE 0)

\* Nothing that will still be used is deallocated: not what a head, a field or
\* a thread holds, and not the CStub that a finalizer is about to restore.
NoUseAfterFree ==
    /\ freed \cap (left \cup consumed) = {}
    /\ \A p \in Pool \ freed, f \in Fields : refs[<<p, f>>] \notin freed
    /\ \A p \in freed : outside[p] = 0

\* Threads that run while waitForCStubs has released the GIL cannot reach the
\* objects that the loop is about to clear, weak references included: the
\* verdict of the check stays true although the heap changes (the worry in
\* gcmodule.c 2370-2388).
DoomedUnreachable ==
    graphInvalid /\ phase \in {"await", "clear"} =>
        \A p \in Pool : result[p] = 1 => p \notin Reachable

\* What outside references, new heads and caches still reach.
Needed ==
    {q \in Pool : \A S \in SUBSET Pool :
        Closed(S) /\ restored \cup Eternal \subseteq S => q \in S}

\* What is not needed is deallocated in the end, cycles included: the heads'
\* references and tp_clear suffice (gcmodule.c 2419-2431).
GarbageFreed ==
    phase = "end" /\ Settled /\ restored = resurrected => Pool \ freed \subseteq Needed

\* A CStub whose native object outlives an invalid graph has a new head, also
\* if only another survivor keeps it: Java code and native code can go on using
\* it (gcmodule.c 2350-2362).
SurvivorsHaveHeads ==
    phase = "end" /\ Settled /\ restored = resurrected /\ graphInvalid =>
        truncated \subseteq freed \cup restored \cup Eternal

\* Both: what survives is needed, and has what it needs.
SurvivorsRight == GarbageFreed /\ SurvivorsHaveHeads
=============================================================================
