---------------------------- MODULE Counterparts ----------------------------
(***************************************************************************)
(* Native objects and their counterparts in Java, for objects without      *)
(* garbage collection support: these live by their reference count alone,  *)
(* without a gc-head.  A native object names its counterpart by a weak JNI *)
(* reference, a Java object its native side by a handle.  Mirrored objects *)
(* are converted by value in either direction, and neither side keeps the  *)
(* other; a peer wraps a native object, owns one of its references and     *)
(* returns it in its finalizer.  A weak reference of Java code keeps a     *)
(* reference to the native object of its referent until the referent is    *)
(* collected.                                                              *)
(*                                                                         *)
(* Whatever touches reference counts or weak JNI references holds the GIL, *)
(* so each operation is one step.  The Java collector, the finalizer       *)
(* thread and the program on the Java side run between any two of them.    *)
(***************************************************************************)
EXTENDS Integers, FiniteSets

CONSTANTS
    Mirrors,            (* native objects that Java mirrors                *)
    Peers,              (* native objects that Java wraps in a PyCPeer     *)
    Javas,              (* Java objects                                    *)
    None, Deleted,
    NativelyWatched,    (* objects whose native weak references are passed *)
                        (* to Java                                         *)
    MaxOwned            (* bound of the references native code holds to an *)
                        (* object, and of the notifications it waits for   *)

Natives == Mirrors \cup Peers

(* A JyNIGlobalRef whose nativeHandle is 0.                                *)
Unbacked == "unbacked"

ASSUME CounterpartAssumption ==
    /\ Mirrors \cap Peers = {}
    /\ NativelyWatched \subseteq Natives
    /\ None \notin Natives \cup Javas
    /\ Unbacked \notin Natives \cup {None}
    /\ Deleted \notin Javas \cup {None}
    /\ IsFiniteSet(Javas)
    /\ MaxOwned \in Nat

VARIABLES
    refcnt,     (* ob_refcnt, 0 when the object is not allocated           *)
    owned,      (* how many of these references native code holds          *)
    jy,         (* the target of JyObject.jy; Deleted when the weak        *)
                (* reference was deleted but is still stored               *)
    initialized,(* JY_INITIALIZED_FLAG_MASK                                *)
    hasHandle,  (* JY_HAS_JHANDLE_FLAG_MASK                                *)
    java,       (* none, reachable or unreachable                          *)
    handle,     (* JYNI_HANDLE_ATTR or PyCPeer.objectHandle                *)
    finalizer,  (* of a peer: armed, due or ran                            *)
    watch,      (* the JyNIGlobalRef that refers to the Java object: none, *)
                (* or its nativeHandle                                     *)
    releases,   (* cleared JyNIGlobalRefs still to be notified, by handle  *)
    weakCount,  (* the attribute JyAttributeWeakRefCount, 0 if there is    *)
                (* none                                                    *)
    wild        (* the weak reference or the memory of a dead object was   *)
                (* used: from here on anything may happen                  *)

headerVars == <<jy, initialized, hasHandle>>
javaVars == <<java, handle, finalizer>>
weakVars == <<watch, releases>>
counterVars ==
    <<refcnt, owned, headerVars, javaVars, weakVars, weakCount, wild>>

IsPeer(j) == handle[j] \in Peers

CounterTypeOK ==
    /\ refcnt \in [Natives -> Nat]
    /\ owned \in [Natives -> 0 .. MaxOwned]
    /\ jy \in [Natives -> Javas \cup {None, Deleted}]
    /\ initialized \in [Natives -> BOOLEAN]
    /\ hasHandle \in [Natives -> BOOLEAN]
    /\ java \in [Javas -> {"none", "reachable", "unreachable"}]
    /\ handle \in [Javas -> Natives \cup {None}]
    /\ finalizer \in [Javas -> {"armed", "due", "ran"}]
    /\ watch \in [Javas -> Natives \cup {None, Unbacked}]
    /\ releases \in [Natives -> Nat]
    /\ weakCount \in [Natives -> Int]
    /\ wild \in BOOLEAN

CounterInit ==
    /\ refcnt = [o \in Natives |-> 0]
    /\ owned = [o \in Natives |-> 0]
    /\ jy = [o \in Natives |-> None]
    /\ initialized = [o \in Natives |-> FALSE]
    /\ hasHandle = [o \in Natives |-> FALSE]
    /\ java = [j \in Javas |-> "none"]
    /\ handle = [j \in Javas |-> None]
    /\ finalizer = [j \in Javas |-> "armed"]
    /\ watch = [j \in Javas |-> None]
    /\ releases = [o \in Natives |-> 0]
    /\ weakCount = [o \in Natives |-> 0]
    /\ wild = FALSE

-----------------------------------------------------------------------------
(* The native side.                                                        *)

(* Memory that is free and that native code does not believe to own.       *)
Unused(o) == refcnt[o] = 0 /\ owned[o] = 0 /\ MaxOwned > 0

NewNative(o) ==
    /\ Unused(o)
    /\ refcnt' = [refcnt EXCEPT ![o] = 1]
    /\ owned' = [owned EXCEPT ![o] = 1]
    /\ UNCHANGED <<headerVars, javaVars, weakVars, weakCount, wild>>

(* Native code works with an object it holds a reference to.               *)
Holds(o) == owned[o] > 0 /\ refcnt[o] > 0

Incref(o) ==
    /\ Holds(o)
    /\ owned[o] < MaxOwned
    /\ refcnt' = [refcnt EXCEPT ![o] = @ + 1]
    /\ owned' = [owned EXCEPT ![o] = @ + 1]
    /\ UNCHANGED <<headerVars, javaVars, weakVars, weakCount, wild>>

(* IsSameObject(jy, NULL): the target of the weak reference was collected. *)
Cleared(o) == jy[o] \in Javas /\ java[jy[o]] = "none"

(* Mutant: the handle of a mirrored object is left in Java.                *)
KeepsHandle(o, handles) == handles

(* What clearing the handle makes of the handles in Java: a peer is no     *)
(* JHANDLE, its objectHandle stays.                                        *)
ClearsHandle(o, handles) ==
    IF hasHandle[o] /\ jy[o] \in Javas /\ ~Cleared(o)
    THEN [handles EXCEPT ![jy[o]] = None]
    ELSE handles

CleanUp(o) ==
    IF initialized[o]
    THEN /\ handle' = ClearsHandle(o, handle)
         /\ jy' = [jy EXCEPT ![o] = None]
         /\ initialized' = [initialized EXCEPT ![o] = FALSE]
         /\ hasHandle' = [hasHandle EXCEPT ![o] = FALSE]
    ELSE UNCHANGED <<headerVars, handle>>

(* Py_DECREF: the last reference frees the object, and PyObject_Free       *)
(* cleans its header up first, deleting its weak reference.                *)
Release(o) ==
    /\ refcnt' = [refcnt EXCEPT ![o] = @ - 1]
    /\ IF refcnt[o] = 1 THEN CleanUp(o) ELSE UNCHANGED <<headerVars, handle>>

(* The attributes of an object are gone with it.                           *)
CountLeft(o, count) == IF refcnt[o] = 1 THEN 0 ELSE count

DeletedAgain(o) == refcnt[o] = 1 /\ initialized[o] /\ jy[o] = Deleted

Decref(o) ==
    /\ Holds(o)
    /\ owned' = [owned EXCEPT ![o] = @ - 1]
    /\ Release(o)
    /\ weakCount' = [weakCount EXCEPT ![o] = CountLeft(o, @)]
    /\ wild' = DeletedAgain(o)
    /\ UNCHANGED <<java, finalizer, weakVars>>

(* Native code works with an object that was freed in spite of the         *)
(* reference it holds.                                                     *)
UseFreed(o) ==
    /\ owned[o] > 0
    /\ refcnt[o] = 0
    /\ wild' = TRUE
    /\ UNCHANGED <<refcnt, owned, headerVars, javaVars, weakVars, weakCount>>

-----------------------------------------------------------------------------
(* Conversions.                                                            *)

Existing(o) == initialized[o] /\ jy[o] \in Javas /\ ~Cleared(o)

Fresh(j) == java[j] = "none" /\ \A o \in Natives : jy[o] # j

(* A weak JNI reference still yields a peer that only waits for its        *)
(* finalizer, or whose finalizer ran: the peer becomes reachable again.    *)
UseExisting(o, j) ==
    /\ Existing(o)
    /\ j = jy[o]
    /\ java' = [java EXCEPT ![j] = "reachable"]
    /\ UNCHANGED <<refcnt, headerVars, handle, finalizer, weakCount, wild>>

(* A peer owns a reference, a mirror does not.                             *)
PeerReferences(o) ==
    IF o \in Peers THEN [refcnt EXCEPT ![o] = @ + 1] ELSE refcnt

(* Mutant: every conversion makes a new counterpart.                       *)
NeededAlways(o) == jy[o] # Deleted

NeedsCounterpart(o) == initialized[o] => Cleared(o)

(* A new counterpart, when there is none yet or the last one was           *)
(* collected; then its weak reference is deleted first, and with it all    *)
(* attributes of the object.                                               *)
MakeCounterpart(o, j) ==
    /\ NeedsCounterpart(o)
    /\ Fresh(j)
    /\ refcnt' = PeerReferences(o)
    /\ jy' = [jy EXCEPT ![o] = j]
    /\ initialized' = [initialized EXCEPT ![o] = TRUE]
    /\ hasHandle' = [hasHandle EXCEPT ![o] = o \in Mirrors]
    /\ java' = [java EXCEPT ![j] = "reachable"]
    /\ handle' = [handle EXCEPT ![j] = o]
    /\ finalizer' = [finalizer EXCEPT ![j] = "armed"]
    /\ weakCount' = [weakCount EXCEPT ![o] = IF initialized[o] THEN 0 ELSE @]
    /\ UNCHANGED wild

(* NewLocalRef on a deleted weak reference.                                *)
UseDeleted(o) ==
    /\ initialized[o] /\ jy[o] = Deleted
    /\ wild' = TRUE
    /\ UNCHANGED <<refcnt, headerVars, javaVars, weakCount>>

Convert(o, j) == UseExisting(o, j) \/ MakeCounterpart(o, j) \/ UseDeleted(o)

(* A native object is passed to Java.                                      *)
ToJava(o, j) ==
    /\ Holds(o)
    /\ Convert(o, j)
    /\ UNCHANGED <<owned, weakVars>>

(* A native weak reference to o is passed to Java.                         *)
PassWeakReference(o, j) ==
    /\ o \in NativelyWatched
    /\ Holds(o)
    /\ Convert(o, j)
    /\ watch' = IF wild' THEN watch ELSE [watch EXCEPT ![j] = o]
    /\ UNCHANGED <<owned, releases>>

(* A Java object that has a native side is passed to native code.  The     *)
(* handle of a peer whose finalizer ran may name freed memory.             *)
FromHandle(j, o) ==
    /\ java[j] = "reachable"
    /\ handle[j] = o
    /\ owned[o] < MaxOwned
    /\ IF refcnt[o] = 0
       THEN /\ wild' = TRUE
            /\ UNCHANGED <<refcnt, owned>>
       ELSE /\ refcnt' = [refcnt EXCEPT ![o] = @ + 1]
            /\ owned' = [owned EXCEPT ![o] = @ + 1]
            /\ UNCHANGED wild
    /\ UNCHANGED <<headerVars, javaVars, weakVars, weakCount>>

(* Mutant: the reference of an existing Python weak reference is not       *)
(* counted.                                                                *)
InitialUncounted(j) == 1

(* One reference is the caller's, one is that of an existing Python weak   *)
(* reference.                                                              *)
InitialReferences(j) == IF watch[j] = None THEN 1 ELSE 2

(* A Java object that has none gets a native side.                         *)
FromJava(j, o) ==
    /\ java[j] = "reachable"
    /\ handle[j] = None
    /\ o \in Mirrors
    /\ Unused(o)
    /\ refcnt' = [refcnt EXCEPT ![o] = InitialReferences(j)]
    /\ owned' = [owned EXCEPT ![o] = 1]
    /\ jy' = [jy EXCEPT ![o] = j]
    /\ initialized' = [initialized EXCEPT ![o] = TRUE]
    /\ hasHandle' = [hasHandle EXCEPT ![o] = TRUE]
    /\ handle' = [handle EXCEPT ![j] = o]
    /\ watch' = IF watch[j] = None THEN watch ELSE [watch EXCEPT ![j] = o]
    /\ weakCount' = IF watch[j] = None THEN weakCount
                    ELSE [weakCount EXCEPT ![o] = @ + 1]
    /\ UNCHANGED <<java, finalizer, releases, wild>>

-----------------------------------------------------------------------------
(* The Java side.                                                          *)

NewJava(j) ==
    /\ Fresh(j)
    /\ java' = [java EXCEPT ![j] = "reachable"]
    /\ UNCHANGED <<refcnt, owned, headerVars, handle, finalizer, weakVars, weakCount,
                   wild>>

WatchJava(j) ==
    /\ java[j] = "reachable"
    /\ watch[j] = None
    /\ watch' = [watch EXCEPT ![j] = Unbacked]
    /\ UNCHANGED <<refcnt, owned, headerVars, javaVars, releases, weakCount, wild>>

DropJava(j) ==
    /\ java[j] = "reachable"
    /\ java' = [java EXCEPT ![j] = "unreachable"]
    /\ UNCHANGED <<refcnt, owned, headerVars, handle, finalizer, weakVars, weakCount,
                   wild>>

(* JyNIGlobalRef.get before the collector cleared the reference.           *)
GetReferent(j) ==
    /\ java[j] = "unreachable"
    /\ watch[j] # None
    /\ java' = [java EXCEPT ![j] = "reachable"]
    /\ UNCHANGED <<refcnt, owned, headerVars, handle, finalizer, weakVars, weakCount,
                   wild>>

(* The collector clears Java's weak references; then a peer waits for its  *)
(* finalizer and any other object, its weak JNI reference included, is     *)
(* gone.                                                                   *)
Collect(j) ==
    /\ java[j] = "unreachable"
    /\ IsPeer(j) => finalizer[j] # "due"
    /\ watch[j] \in Natives => releases[watch[j]] < MaxOwned
    /\ watch' = [watch EXCEPT ![j] = None]
    /\ releases' = IF watch[j] \in Natives
                   THEN [releases EXCEPT ![watch[j]] = @ + 1] ELSE releases
    /\ IF IsPeer(j) /\ finalizer[j] = "armed"
       THEN /\ finalizer' = [finalizer EXCEPT ![j] = "due"]
            /\ UNCHANGED <<java, handle>>
       ELSE /\ java' = [java EXCEPT ![j] = "none"]
            /\ handle' = [handle EXCEPT ![j] = None]
            /\ UNCHANGED finalizer
    /\ UNCHANGED <<refcnt, owned, headerVars, weakCount, wild>>

(* clearPyCPeer with the refHandle 0: it returns the reference of the peer *)
(* and then reads the weak reference from the header and deletes it.  When *)
(* the object was freed by that, the memory holds anything; otherwise the  *)
(* deleted weak reference stays in the header.                             *)
ClearPyCPeer(o) ==
    /\ refcnt' = [refcnt EXCEPT ![o] = @ - 1]
    /\ weakCount' = [weakCount EXCEPT ![o] = CountLeft(o, @)]
    /\ IF refcnt[o] = 1
       THEN /\ CleanUp(o)
            /\ wild' \in BOOLEAN
       ELSE /\ jy' = [jy EXCEPT ![o] = IF @ = None THEN None ELSE Deleted]
            /\ UNCHANGED <<initialized, hasHandle, handle, wild>>

(* The finalizer of a peer runs once, also when the peer is reachable      *)
(* again.                                                                  *)
Finalize(j) ==
    /\ IsPeer(j)
    /\ finalizer[j] = "due"
    /\ finalizer' = [finalizer EXCEPT ![j] = "ran"]
    /\ IF refcnt[handle[j]] = 0
       THEN /\ wild' = TRUE
            /\ UNCHANGED <<refcnt, headerVars, handle, weakCount>>
       ELSE ClearPyCPeer(handle[j])
    /\ UNCHANGED <<owned, java, weakVars>>

(* Mutant: decWeakRefCount is not called.                                  *)
ReleaseUncounted(o) ==
    /\ releases[o] > 0
    /\ releases' = [releases EXCEPT ![o] = @ - 1]
    /\ Release(o)
    /\ weakCount' = [weakCount EXCEPT ![o] = CountLeft(o, @)]
    /\ wild' = DeletedAgain(o)
    /\ UNCHANGED <<owned, java, finalizer, watch>>

(* A cleared JyNIGlobalRef gives the reference to its native object back.  *)
ReleaseWeakReferent(o) ==
    /\ releases[o] > 0
    /\ releases' = [releases EXCEPT ![o] = @ - 1]
    /\ IF refcnt[o] = 0
       THEN /\ wild' = TRUE
            /\ UNCHANGED <<refcnt, headerVars, handle, weakCount>>
       ELSE /\ Release(o)
            /\ weakCount' = [weakCount EXCEPT ![o] = CountLeft(o, @ - 1)]
            /\ wild' = DeletedAgain(o)
    /\ UNCHANGED <<owned, java, finalizer, watch>>

NativeStep ==
    \/ \E o \in Natives : NewNative(o) \/ Incref(o) \/ Decref(o) \/ UseFreed(o)
    \/ \E o \in Natives, j \in Javas : ToJava(o, j) \/ PassWeakReference(o, j)
    \/ \E o \in Natives, j \in Javas : FromHandle(j, o) \/ FromJava(j, o)

JavaStep ==
    \/ \E j \in Javas : NewJava(j) \/ WatchJava(j) \/ DropJava(j)
    \/ \E j \in Javas : GetReferent(j) \/ Collect(j) \/ Finalize(j)
    \/ \E o \in Natives : ReleaseWeakReferent(o)

CounterNext == ~wild /\ (NativeStep \/ JavaStep)

CounterSpec == CounterInit /\ [][CounterNext]_counterVars

-----------------------------------------------------------------------------
(* Properties.                                                             *)

PeersOf(o) ==
    {j \in Javas : o \in Peers /\ handle[j] = o /\ finalizer[j] # "ran"}

WatchersOf(o) == {j \in Javas : watch[j] = o}

(* Every reference of a native object belongs to somebody who gives it     *)
(* back: native code, a peer whose finalizer has not run, a weak reference *)
(* of Java that is not cleared, or a cleared one that is not notified yet  *)
(* (Py_INCREF in JyNI_JythonPyObject_FromPyObject and JyNI_InitPyObject    *)
(* against Py_DECREF in clearPyCPeer and releaseWeakReferent).  The comment *)
(* at JyNIGlobalRef.initNativeHandle makes the native caller responsible   *)
(* for the incref.                                                         *)
ReferencesExact ==
    \/ wild
    \/ \A o \in Natives :
          refcnt[o] = owned[o] + Cardinality(PeersOf(o))
                      + Cardinality(WatchersOf(o)) + releases[o]

(* A finalized peer has given its reference back: its handle means nothing *)
(* any more.                                                               *)
Alive(j) == java[j] # "none" /\ (IsPeer(j) => finalizer[j] # "ran")

Handles(j) == Alive(j) /\ handle[j] # None

(* The handle of a Java object names an allocated native object, and the   *)
(* weak reference of that one leads back: no handle outlives its object,   *)
(* and no native object has two counterparts.                              *)
HandlesSound ==
    \/ wild
    \/ \A j \in Javas :
          Handles(j) => /\ refcnt[handle[j]] > 0
                        /\ initialized[handle[j]]
                        /\ jy[handle[j]] = j

(* Seen as a relation, the counterparts are formed and parted only as      *)
(* PairedObjects promises.                                                 *)
Pairs == INSTANCE PairedObjects WITH
    natives <- {o \in Natives : refcnt[o] > 0},
    javas <- {j \in Javas : Alive(j)},
    pairs <- {p \in Natives \X Javas : handle[p[2]] = p[1] /\ Alive(p[2])}

PairsKept == Pairs!PairSpec

(* The weak count of a native object is to tell how many of its references *)
(* are held for weak references of Java.  It never tells more: the check   *)
(* of the reference graph deducts it (gcmodule.c 2245), so that a count    *)
(* that is too high would pass a referenced object for garbage.  It may    *)
(* tell less, since it is an attribute and is forgotten when the object is *)
(* converted again.                                                        *)
WeakCountBounded ==
    \/ wild
    \/ \A o \in Natives :
          weakCount[o] <= Cardinality(WatchersOf(o)) + releases[o]
=============================================================================
