------------------------- MODULE CounterpartsProofs -------------------------
(***************************************************************************)
(* Proofs about Counterparts for any sets of objects.                      *)
(***************************************************************************)
EXTENDS Counterparts, FiniteSetTheorems, TLAPS

USE DEF Unbacked

(* Every step is one of these.                                             *)
LEMMA CounterSteps ==
    ASSUME CounterNext
    PROVE  /\ ~wild
           /\ \/ \E o \in Natives :
                    \/ NewNative(o) \/ Incref(o) \/ Decref(o) \/ UseFreed(o)
                    \/ ReleaseWeakReferent(o)
              \/ \E o \in Natives, j \in Javas :
                    \/ ToJava(o, j) \/ PassWeakReference(o, j)
                    \/ FromHandle(j, o) \/ FromJava(j, o)
              \/ \E j \in Javas :
                    \/ NewJava(j) \/ WatchJava(j) \/ DropJava(j)
                    \/ GetReferent(j) \/ Collect(j) \/ Finalize(j)
  BY DEF CounterNext, NativeStep, JavaStep

-----------------------------------------------------------------------------
(* Types.                                                                  *)

LEMMA CleanUpType ==
    ASSUME CounterTypeOK, NEW o \in Natives, CleanUp(o)
    PROVE  /\ jy' \in [Natives -> Javas \cup {None, Deleted}]
           /\ initialized' \in [Natives -> BOOLEAN]
           /\ hasHandle' \in [Natives -> BOOLEAN]
           /\ handle' \in [Javas -> Natives \cup {None}]
  BY DEF CounterTypeOK, CleanUp, ClearsHandle, headerVars

LEMMA ReleaseType ==
    ASSUME CounterTypeOK, NEW o \in Natives, Release(o), refcnt[o] # 0
    PROVE  /\ refcnt' \in [Natives -> Nat]
           /\ jy' \in [Natives -> Javas \cup {None, Deleted}]
           /\ initialized' \in [Natives -> BOOLEAN]
           /\ hasHandle' \in [Natives -> BOOLEAN]
           /\ handle' \in [Javas -> Natives \cup {None}]
<1>1. refcnt[o] - 1 \in Nat  BY DEF CounterTypeOK
<1>2. refcnt' \in [Natives -> Nat]  BY <1>1 DEF CounterTypeOK, Release
<1>3. CASE refcnt[o] = 1  BY <1>2, <1>3, CleanUpType DEF Release
<1>4. CASE refcnt[o] # 1
  BY <1>2, <1>4 DEF Release, CounterTypeOK, headerVars
<1> QED  BY <1>3, <1>4

LEMMA ConvertType ==
    ASSUME CounterTypeOK, NEW o \in Natives, NEW j \in Javas, Convert(o, j)
    PROVE  /\ refcnt' \in [Natives -> Nat]
           /\ jy' \in [Natives -> Javas \cup {None, Deleted}]
           /\ initialized' \in [Natives -> BOOLEAN]
           /\ hasHandle' \in [Natives -> BOOLEAN]
           /\ java' \in [Javas -> {"none", "reachable", "unreachable"}]
           /\ handle' \in [Javas -> Natives \cup {None}]
           /\ finalizer' \in [Javas -> {"armed", "due", "ran"}]
           /\ weakCount' \in [Natives -> Int]
           /\ wild' \in BOOLEAN
<1>1. CASE UseExisting(o, j)
  BY <1>1 DEF UseExisting, CounterTypeOK, headerVars
<1>2. CASE MakeCounterpart(o, j)
  <2>1. refcnt' \in [Natives -> Nat]
    BY <1>2 DEF MakeCounterpart, PeerReferences, CounterTypeOK
  <2>2. hasHandle' \in [Natives -> BOOLEAN]
    <3>1. (o \in Mirrors) \in BOOLEAN  OBVIOUS
    <3> DEFINE b == o \in Mirrors
    <3>2. hasHandle' = [hasHandle EXCEPT ![o] = b]  BY <1>2 DEF MakeCounterpart
    <3> HIDE DEF b
    <3>3. b \in BOOLEAN  BY <3>1 DEF b
    <3> QED  BY <3>2, <3>3 DEF CounterTypeOK
  <2> QED  BY <1>2, <2>1, <2>2 DEF MakeCounterpart, CounterTypeOK
<1>3. CASE UseDeleted(o)
  BY <1>3 DEF UseDeleted, CounterTypeOK, headerVars, javaVars
<1> QED  BY <1>1, <1>2, <1>3 DEF Convert

LEMMA CountType ==
    ASSUME CounterTypeOK, NEW o \in Natives,
           \/ weakCount' = [weakCount EXCEPT ![o] = CountLeft(o, @)]
           \/ weakCount' = [weakCount EXCEPT ![o] = CountLeft(o, @ - 1)]
    PROVE  weakCount' \in [Natives -> Int]
<1>1. /\ CountLeft(o, weakCount[o]) \in Int
      /\ CountLeft(o, weakCount[o] - 1) \in Int
  BY DEF CountLeft, CounterTypeOK
<1> QED  BY <1>1 DEF CounterTypeOK

LEMMA TypeStep ==
    ASSUME CounterTypeOK, [CounterNext]_counterVars
    PROVE  CounterTypeOK'
<1>1. CASE UNCHANGED counterVars
  BY <1>1 DEF counterVars, headerVars, javaVars, weakVars, CounterTypeOK
<1>2. ASSUME NEW o \in Natives, NewNative(o) \/ Incref(o) \/ UseFreed(o)
      PROVE  CounterTypeOK'
  <2>1. refcnt' \in [Natives -> Nat] /\ owned' \in [Natives -> 0 .. MaxOwned]
    <3>1. refcnt[o] + 1 \in Nat /\ owned[o] \in Nat  BY DEF CounterTypeOK
    <3>2. CASE NewNative(o)
      <4>1. 1 \in 0 .. MaxOwned  BY <3>2, CounterpartAssumption DEF NewNative, Unused
      <4> QED  BY <3>2, <4>1 DEF NewNative, CounterTypeOK
    <3>3. CASE Incref(o)
      <4>1. owned[o] + 1 \in 0 .. MaxOwned
        BY <3>1, <3>3, CounterpartAssumption DEF Incref
      <4> QED  BY <3>1, <3>3, <4>1 DEF Incref, CounterTypeOK
    <3>4. CASE UseFreed(o)  BY <3>4 DEF UseFreed, CounterTypeOK
    <3> QED  BY <1>2, <3>2, <3>3, <3>4
  <2>2. wild' \in BOOLEAN
        /\ UNCHANGED <<jy, initialized, hasHandle, java, handle, finalizer, watch, releases,
                        weakCount>>
    BY <1>2 DEF NewNative, Incref, UseFreed, CounterTypeOK, headerVars, javaVars, weakVars
  <2> QED  BY <2>1, <2>2 DEF CounterTypeOK
<1>3. ASSUME NEW o \in Natives, Decref(o)  PROVE CounterTypeOK'
  <2>1. Release(o) /\ refcnt[o] # 0  BY <1>3 DEF Decref, Holds, CounterTypeOK
  <2>2. /\ owned' \in [Natives -> 0 .. MaxOwned]
        /\ UNCHANGED <<java, finalizer, watch, releases>>
    <3>1. owned[o] - 1 \in 0 .. MaxOwned
      BY <1>3, CounterpartAssumption DEF Decref, Holds, CounterTypeOK
    <3> QED  BY <1>3, <3>1 DEF Decref, CounterTypeOK, weakVars
  <2>3. wild' \in BOOLEAN  BY <1>3 DEF Decref, DeletedAgain
  <2>4. weakCount' \in [Natives -> Int]  BY <1>3, CountType DEF Decref
  <2> QED  BY <2>1, <2>2, <2>3, <2>4, ReleaseType DEF CounterTypeOK
<1>4. ASSUME NEW o \in Natives, ReleaseWeakReferent(o)  PROVE CounterTypeOK'
  <2>1. /\ releases' \in [Natives -> Nat]
        /\ wild' \in BOOLEAN
        /\ UNCHANGED <<owned, java, finalizer, watch>>
    <3>1. releases[o] - 1 \in Nat  BY <1>4 DEF ReleaseWeakReferent, CounterTypeOK
    <3>2. releases' \in [Natives -> Nat]
      BY <1>4, <3>1 DEF ReleaseWeakReferent, CounterTypeOK
    <3>3. wild' \in BOOLEAN  BY <1>4 DEF ReleaseWeakReferent, DeletedAgain
    <3> QED  BY <1>4, <3>2, <3>3 DEF ReleaseWeakReferent
  <2>2. CASE refcnt[o] = 0
    BY <1>4, <2>1, <2>2 DEF ReleaseWeakReferent, CounterTypeOK, headerVars
  <2>3. CASE refcnt[o] # 0
    <3>1. Release(o) /\ weakCount' = [weakCount EXCEPT ![o] = CountLeft(o, @ - 1)]
      BY <1>4, <2>3 DEF ReleaseWeakReferent
    <3> QED  BY <2>1, <2>3, <3>1, ReleaseType, CountType DEF CounterTypeOK
  <2> QED  BY <2>2, <2>3
<1>5. ASSUME NEW o \in Natives, NEW j \in Javas, ToJava(o, j) \/ PassWeakReference(o, j)
      PROVE  CounterTypeOK'
  <2>1. Convert(o, j) /\ UNCHANGED <<owned, releases>>
    BY <1>5 DEF ToJava, PassWeakReference, weakVars
  <2>2. watch' \in [Javas -> Natives \cup {None, Unbacked}]
    BY <1>5 DEF ToJava, PassWeakReference, weakVars, CounterTypeOK
  <2> QED  BY <2>1, <2>2, ConvertType DEF CounterTypeOK
<1>6. ASSUME NEW o \in Natives, NEW j \in Javas, FromHandle(j, o)  PROVE CounterTypeOK'
  <2>1. refcnt' \in [Natives -> Nat] /\ owned' \in [Natives -> 0 .. MaxOwned]
    <3>1. refcnt[o] + 1 \in Nat /\ (owned[o] < MaxOwned => owned[o] + 1 \in 0 .. MaxOwned)
      BY CounterpartAssumption DEF CounterTypeOK
    <3>2. CASE refcnt[o] = 0  BY <1>6, <3>2 DEF FromHandle, CounterTypeOK
    <3>3. CASE refcnt[o] # 0
      BY <1>6, <3>1, <3>3 DEF FromHandle, CounterTypeOK
    <3> QED  BY <3>2, <3>3
  <2>2. wild' \in BOOLEAN  BY <1>6 DEF FromHandle, CounterTypeOK
  <2> QED  BY <1>6, <2>1, <2>2 DEF FromHandle, CounterTypeOK, headerVars, javaVars, weakVars
<1>7. ASSUME NEW o \in Natives, NEW j \in Javas, FromJava(j, o)  PROVE CounterTypeOK'
  <2>1. refcnt' \in [Natives -> Nat] /\ owned' \in [Natives -> 0 .. MaxOwned]
    <3>1. InitialReferences(j) \in Nat  BY DEF InitialReferences
    <3>2. 1 \in 0 .. MaxOwned  BY <1>7, CounterpartAssumption DEF FromJava, Unused
    <3> QED  BY <1>7, <3>1, <3>2 DEF FromJava, CounterTypeOK
  <2>2. weakCount' \in [Natives -> Int]
    <3>1. weakCount[o] + 1 \in Int  BY DEF CounterTypeOK
    <3> QED  BY <1>7, <3>1 DEF FromJava, CounterTypeOK
  <2> QED  BY <1>7, <2>1, <2>2 DEF FromJava, CounterTypeOK
<1>8. ASSUME NEW j \in Javas, NewJava(j) \/ WatchJava(j) \/ DropJava(j) \/ GetReferent(j)
      PROVE  CounterTypeOK'
  BY <1>8 DEF NewJava, WatchJava, DropJava, GetReferent, CounterTypeOK,
              headerVars, javaVars, weakVars
<1>9. ASSUME NEW j \in Javas, Collect(j)  PROVE CounterTypeOK'
  <2>1. releases' \in [Natives -> Nat] /\ watch' \in [Javas -> Natives \cup {None, Unbacked}]
    BY <1>9 DEF Collect, CounterTypeOK
  <2> QED  BY <1>9, <2>1 DEF Collect, CounterTypeOK, headerVars
<1>10. ASSUME NEW j \in Javas, Finalize(j)  PROVE CounterTypeOK'
  <2> DEFINE o == handle[j]
  <2>1. o \in Natives  BY <1>10 DEF Finalize, IsPeer, Natives
  <2>2. /\ finalizer' \in [Javas -> {"armed", "due", "ran"}]
        /\ UNCHANGED <<owned, java, watch, releases>>
    BY <1>10 DEF Finalize, CounterTypeOK, weakVars
  <2>3. CASE refcnt[o] = 0
    BY <1>10, <2>2, <2>3 DEF Finalize, CounterTypeOK, headerVars
  <2>4. CASE refcnt[o] # 0
    <3>1. ClearPyCPeer(o)  BY <1>10, <2>4 DEF Finalize
    <3> HIDE DEF o
    <3>2. refcnt[o] - 1 \in Nat  BY <2>1, <2>4 DEF CounterTypeOK
    <3>3. refcnt' \in [Natives -> Nat]  BY <2>1, <3>1, <3>2 DEF ClearPyCPeer, CounterTypeOK
    <3>6. weakCount' \in [Natives -> Int]  BY <2>1, <3>1, CountType DEF ClearPyCPeer
    <3>4. CASE refcnt[o] = 1
      BY <2>1, <2>2, <3>1, <3>3, <3>6, <3>4, CleanUpType DEF ClearPyCPeer, CounterTypeOK
    <3>5. CASE refcnt[o] # 1
      BY <2>1, <2>2, <3>1, <3>3, <3>6, <3>5 DEF ClearPyCPeer, CounterTypeOK
    <3> QED  BY <3>4, <3>5
  <2> QED  BY <2>3, <2>4
<1> QED
  BY <1>1, <1>2, <1>3, <1>4, <1>5, <1>6, <1>7, <1>8, <1>9, <1>10, CounterSteps

(* Every variable keeps its type: no count falls below zero, however often *)
(* Java and native code give references back.                              *)
THEOREM CounterTypeCorrect == CounterSpec => []CounterTypeOK
<1>1. CounterInit => CounterTypeOK
  <2>1. 0 \in 0 .. MaxOwned  BY CounterpartAssumption
  <2> SUFFICES ASSUME CounterInit  PROVE CounterTypeOK  OBVIOUS
  <2>2. /\ refcnt \in [Natives -> Nat]
        /\ owned \in [Natives -> 0 .. MaxOwned]
        /\ jy \in [Natives -> Javas \cup {None, Deleted}]
        /\ releases \in [Natives -> Nat]
        /\ weakCount \in [Natives -> Int]
    BY <2>1 DEF CounterInit
  <2>3. /\ initialized \in [Natives -> BOOLEAN]
        /\ hasHandle \in [Natives -> BOOLEAN]
        /\ wild \in BOOLEAN
    BY Zenon DEF CounterInit
  <2>4. /\ java \in [Javas -> {"none", "reachable", "unreachable"}]
        /\ handle \in [Javas -> Natives \cup {None}]
        /\ finalizer \in [Javas -> {"armed", "due", "ran"}]
        /\ watch \in [Javas -> Natives \cup {None, Unbacked}]
    BY DEF CounterInit
  <2> QED  BY <2>2, <2>3, <2>4 DEF CounterTypeOK
<1> QED  BY <1>1, TypeStep, PTL DEF CounterSpec

-----------------------------------------------------------------------------
(* The inductive invariant: what the header of a native object says, what  *)
(* its counterpart says, and that every reference has an owner.  Nothing   *)
(* is claimed once a deleted weak reference or freed memory was used.      *)

HeaderInv(o) ==
    /\ initialized[o] => jy[o] # None /\ refcnt[o] > 0
    /\ ~initialized[o] => jy[o] = None
    /\ hasHandle[o] <=> initialized[o] /\ o \in Mirrors
    /\ jy[o] = Deleted => o \in Peers
    /\ jy[o] \in Javas /\ java[jy[o]] # "none" => handle[jy[o]] = o
    /\ jy[o] \in Javas /\ o \in Peers =>
          java[jy[o]] # "none" /\ finalizer[jy[o]] # "ran"

JavaInv(j) ==
    /\ java[j] = "none" => handle[j] = None /\ watch[j] = None
    /\ Handles(j) => initialized[handle[j]] /\ jy[handle[j]] = j
    /\ watch[j] \in Natives \ NativelyWatched => handle[j] = watch[j]

Sound == (\A o \in Natives : HeaderInv(o)) /\ (\A j \in Javas : JavaInv(j))

Balanced(o) ==
    refcnt[o] = owned[o] + Cardinality(PeersOf(o))
                + Cardinality(WatchersOf(o)) + releases[o]

Exact == \A o \in Natives \ NativelyWatched : Balanced(o)

CounterInv == wild \/ (Sound /\ Exact)

(* The numbers of peers and of weak references are numbers.                *)
LEMMA OwnersCount ==
    ASSUME NEW o \in Natives
    PROVE  /\ IsFiniteSet(PeersOf(o)) /\ Cardinality(PeersOf(o)) \in Nat
           /\ IsFiniteSet(WatchersOf(o)) /\ Cardinality(WatchersOf(o)) \in Nat
<1>1. PeersOf(o) \subseteq Javas /\ WatchersOf(o) \subseteq Javas
  BY DEF PeersOf, WatchersOf
<1>2. IsFiniteSet(PeersOf(o)) /\ IsFiniteSet(WatchersOf(o))
  BY <1>1, FS_Subset, CounterpartAssumption
<1> QED  BY <1>2, FS_CardinalityType

(* A set of owners that is empty or not.                                   *)
LEMMA NoOwners ==
    ASSUME CounterTypeOK, NEW o \in Natives \ NativelyWatched, Balanced(o)
    PROVE  /\ refcnt[o] = owned[o] + releases[o] => PeersOf(o) = {} /\ WatchersOf(o) = {}
           /\ refcnt[o] = owned[o] + releases[o] + 1 /\ PeersOf(o) # {} =>
                 WatchersOf(o) = {} /\ Cardinality(PeersOf(o)) = 1
           /\ refcnt[o] = 0 => owned[o] = 0 /\ releases[o] = 0
           /\ refcnt[o] = 1 /\ owned[o] > 0 => refcnt[o] = owned[o] + releases[o]
           /\ refcnt[o] = 1 /\ releases[o] > 0 => refcnt[o] = owned[o] + releases[o]
           /\ refcnt[o] = 1 /\ PeersOf(o) # {} => refcnt[o] = owned[o] + releases[o] + 1
<1> DEFINE p == Cardinality(PeersOf(o))
           w == Cardinality(WatchersOf(o))
<1>1. p \in Nat /\ w \in Nat  BY OwnersCount
<1>2. (p = 0 <=> PeersOf(o) = {}) /\ (w = 0 <=> WatchersOf(o) = {})
  BY OwnersCount, FS_EmptySet
<1>3. refcnt[o] = owned[o] + p + w + releases[o]  BY DEF Balanced
<1>4. refcnt[o] \in Nat /\ owned[o] \in Nat /\ releases[o] \in Nat
  BY CounterpartAssumption DEF CounterTypeOK
<1> HIDE DEF p, w
<1> QED  BY <1>1, <1>2, <1>3, <1>4 DEF p, w

(* A count changes together with one of its owners' counts.                *)
LEMMA BalancedStep ==
    ASSUME CounterTypeOK, NEW o \in Natives, Balanced(o),
           NEW d \in Int,
           refcnt'[o] = refcnt[o] + d,
           owned'[o] \in Nat, releases'[o] \in Nat,
           owned'[o] + Cardinality(PeersOf(o)') + Cardinality(WatchersOf(o)') + releases'[o]
             = owned[o] + Cardinality(PeersOf(o)) + Cardinality(WatchersOf(o)) + releases[o] + d
    PROVE  Balanced(o)'
  BY OwnersCount DEF Balanced, CounterTypeOK

(* Nothing but counts changes.                                             *)
LEMMA SoundSame ==
    ASSUME Sound, UNCHANGED <<headerVars, javaVars, watch>>,
           \A o \in Natives : refcnt[o] > 0 => refcnt'[o] > 0
    PROVE  Sound'
  BY DEF Sound, HeaderInv, JavaInv, Handles, Alive, IsPeer, headerVars, javaVars

LEMMA OwnersSame ==
    ASSUME UNCHANGED <<handle, finalizer, watch>>, NEW o \in Natives
    PROVE  PeersOf(o)' = PeersOf(o) /\ WatchersOf(o)' = WatchersOf(o)
  BY DEF PeersOf, WatchersOf

(* A peer that waits for its finalizer is the counterpart of its object.   *)
LEMMA PeerPaired ==
    ASSUME CounterTypeOK, Sound, NEW o \in Peers, NEW j \in PeersOf(o)
    PROVE  j \in Javas /\ Handles(j) /\ initialized[o] /\ jy[o] = j
<1>1. j \in Javas /\ handle[j] = o /\ finalizer[j] # "ran" /\ o \in Natives
  BY DEF PeersOf, Natives
<1>2. JavaInv(j)  BY <1>1 DEF Sound
<1>3. java[j] # "none"  BY <1>1, <1>2, CounterpartAssumption DEF JavaInv
<1>4. Handles(j)  BY <1>1, <1>3, CounterpartAssumption DEF Handles, Alive
<1> QED  BY <1>1, <1>2, <1>4 DEF JavaInv

(* Cleaning up leaves the handles of peers alone.                          *)
LEMMA CleanUpHandles ==
    ASSUME CounterTypeOK, Sound, NEW o \in Natives, CleanUp(o)
    PROVE  /\ \A k \in Javas : handle'[k] = handle[k] \/ (handle[k] = o /\ o \in Mirrors /\ handle'[k] = None)
           /\ \A k \in Javas : java[k] # "none" /\ o \in Mirrors /\ initialized[o] /\ jy[o] = k => handle'[k] = None
           /\ \A q \in Natives \ {o} : /\ jy'[q] = jy[q] /\ initialized'[q] = initialized[q]
                                       /\ hasHandle'[q] = hasHandle[q]
           /\ jy'[o] = None /\ ~initialized'[o] /\ ~hasHandle'[o]
<1>1. HeaderInv(o)  BY DEF Sound
<1>2. CASE initialized[o]
  <2>1. /\ handle' = ClearsHandle(o, handle)
        /\ jy' = [jy EXCEPT ![o] = None]
        /\ initialized' = [initialized EXCEPT ![o] = FALSE]
        /\ hasHandle' = [hasHandle EXCEPT ![o] = FALSE]
    BY <1>2 DEF CleanUp
  <2>2. /\ \A q \in Natives \ {o} : /\ jy'[q] = jy[q] /\ initialized'[q] = initialized[q]
                                    /\ hasHandle'[q] = hasHandle[q]
        /\ jy'[o] = None /\ ~initialized'[o] /\ ~hasHandle'[o]
    BY <2>1 DEF CounterTypeOK
  <2>3. hasHandle[o] <=> o \in Mirrors  BY <1>1, <1>2 DEF HeaderInv
  <2>4. CASE o \in Mirrors /\ jy[o] \in Javas /\ java[jy[o]] # "none"
    <3>1. handle' = [handle EXCEPT ![jy[o]] = None]
      BY <2>1, <2>3, <2>4 DEF ClearsHandle, Cleared
    <3>2. handle[jy[o]] = o  BY <1>1, <2>4 DEF HeaderInv
    <3> QED  BY <2>2, <2>4, <3>1, <3>2 DEF CounterTypeOK
  <2>5. CASE ~(o \in Mirrors /\ jy[o] \in Javas /\ java[jy[o]] # "none")
    <3>1. handle' = handle
      BY <2>1, <2>3, <2>5 DEF ClearsHandle, Cleared
    <3> QED  BY <2>2, <2>5, <3>1
  <2> QED  BY <2>4, <2>5
<1>3. CASE ~initialized[o]
  <2>1. UNCHANGED <<jy, initialized, hasHandle, handle>>  BY <1>3 DEF CleanUp, headerVars
  <2>2. jy[o] = None /\ ~hasHandle[o]  BY <1>1, <1>3 DEF HeaderInv
  <2> QED  BY <1>3, <2>1, <2>2
<1> QED  BY <1>2, <1>3

(* An object is freed that no weak reference of Java and no other peer     *)
(* owns.                                                                   *)
LEMMA FreedSound ==
    ASSUME CounterTypeOK, CounterTypeOK', Sound, NEW o \in Natives, CleanUp(o),
           refcnt' = [refcnt EXCEPT ![o] = @ - 1],
           UNCHANGED <<java, watch>>,
           \A k \in Javas : \/ finalizer'[k] = finalizer[k]
                            \/ handle[k] = o /\ finalizer'[k] = "ran",
           o \in Peers => \A k \in Javas : handle[k] = o => finalizer'[k] = "ran",
           \A k \in Javas : watch[k] = o => o \in NativelyWatched
    PROVE  Sound'
<1>1. \A k \in Javas : handle'[k] = handle[k] \/ (handle[k] = o /\ o \in Mirrors /\ handle'[k] = None)
  BY CleanUpHandles
<1>2. \A k \in Javas : java[k] # "none" /\ o \in Mirrors /\ initialized[o] /\ jy[o] = k => handle'[k] = None
  BY CleanUpHandles
<1>3. /\ \A q \in Natives \ {o} : /\ jy'[q] = jy[q] /\ initialized'[q] = initialized[q]
                                  /\ hasHandle'[q] = hasHandle[q]
      /\ jy'[o] = None /\ ~initialized'[o] /\ ~hasHandle'[o]
  BY CleanUpHandles
<1>4. ASSUME NEW q \in Natives  PROVE HeaderInv(q)'
  <2>1. CASE q = o
    BY <1>3, <2>1, CounterpartAssumption DEF HeaderInv
  <2>2. CASE q # o
    <3>1. HeaderInv(q) /\ refcnt'[q] = refcnt[q]  BY <2>2 DEF Sound, CounterTypeOK
    <3>2. jy'[q] = jy[q] /\ initialized'[q] = initialized[q] /\ hasHandle'[q] = hasHandle[q]
      BY <1>3, <2>2
    <3>3. jy[q] \in Javas /\ java[jy[q]] # "none" => /\ handle'[jy[q]] = q
                                                     /\ finalizer'[jy[q]] = finalizer[jy[q]]
      BY <1>1, <2>2, <3>1 DEF HeaderInv
    <3> QED  BY <3>1, <3>2, <3>3 DEF HeaderInv
  <2> QED  BY <2>1, <2>2
<1>5. ASSUME NEW k \in Javas  PROVE JavaInv(k)'
  <2>1. JavaInv(k) /\ java'[k] = java[k] /\ watch'[k] = watch[k]  BY DEF Sound
  <2>2. java'[k] = "none" => handle'[k] = None /\ watch'[k] = None
    BY <1>1, <2>1 DEF JavaInv
  <2>3. ASSUME Handles(k)'  PROVE initialized'[handle'[k]] /\ jy'[handle'[k]] = k
    <3>1. handle'[k] = handle[k] /\ handle[k] # None /\ java[k] # "none"
      BY <1>1, <2>1, <2>3 DEF Handles, Alive
    <3>2. handle[k] \in Peers => finalizer'[k] # "ran"
      BY <2>3, <3>1 DEF Handles, Alive, IsPeer
    <3>3. handle[k] \in Peers => finalizer[k] # "ran"  BY <3>2
    <3>4. Handles(k)  BY <3>1, <3>3 DEF Handles, Alive, IsPeer
    <3>5. initialized[handle[k]] /\ jy[handle[k]] = k  BY <2>1, <3>4 DEF JavaInv
    <3>6. handle[k] \in Natives  BY <3>1 DEF CounterTypeOK
    <3>7. handle[k] # o
      <4>1. CASE o \in Peers  BY <3>2, <4>1
      <4>2. CASE o \in Mirrors  BY <1>2, <3>1, <3>5, <4>2
      <4> QED  BY <4>1, <4>2 DEF Natives
    <3> QED  BY <1>3, <3>1, <3>5, <3>6, <3>7
  <2>4. watch'[k] \in Natives \ NativelyWatched => handle'[k] = watch'[k]
    BY <1>1, <2>1 DEF JavaInv
  <2> QED  BY <2>2, <2>3, <2>4 DEF JavaInv
<1> QED  BY <1>4, <1>5 DEF Sound

(* Giving a reference back.                                                *)
LEMMA ReleaseSound ==
    ASSUME CounterTypeOK, CounterTypeOK', Sound, NEW o \in Natives, Release(o),
           refcnt[o] # 0, UNCHANGED <<java, finalizer, watch>>,
           refcnt[o] = 1 /\ o \in Peers => PeersOf(o) = {},
           refcnt[o] = 1 /\ o \notin NativelyWatched => WatchersOf(o) = {}
    PROVE  /\ Sound'
           /\ \A q \in Natives : PeersOf(q)' = PeersOf(q) /\ WatchersOf(q)' = WatchersOf(q)
<1>1. refcnt' = [refcnt EXCEPT ![o] = @ - 1]  BY DEF Release
<1>2. CASE refcnt[o] = 1
  <2>1. CleanUp(o)  BY <1>2 DEF Release
  <2>2. o \in Peers => \A k \in Javas : handle[k] = o => finalizer'[k] = "ran"
    BY <1>2 DEF PeersOf
  <2>3. \A k \in Javas : watch[k] = o => o \in NativelyWatched
    BY <1>2 DEF WatchersOf
  <2>4. Sound'  BY <1>1, <2>1, <2>2, <2>3, FreedSound
  <2>5. \A k \in Javas : handle'[k] = handle[k] \/ (handle[k] = o /\ o \in Mirrors /\ handle'[k] = None)
    BY <2>1, CleanUpHandles
  <2>6. ASSUME NEW q \in Natives  PROVE PeersOf(q)' = PeersOf(q) /\ WatchersOf(q)' = WatchersOf(q)
    BY <2>5, CounterpartAssumption DEF PeersOf, WatchersOf
  <2> QED  BY <2>4, <2>6
<1>3. CASE refcnt[o] # 1
  <2>1. UNCHANGED <<headerVars, handle>>  BY <1>3 DEF Release
  <2>2. \A q \in Natives : refcnt[q] > 0 => refcnt'[q] > 0
    BY <1>1, <1>3 DEF CounterTypeOK
  <2>3. Sound'  BY <2>1, <2>2, SoundSame DEF javaVars
  <2> QED  BY <2>1, <2>3, OwnersSame
<1> QED  BY <1>2, <1>3

(* Balance of the objects whose counts and owners stay.                    *)
LEMMA OthersBalanced ==
    ASSUME CounterTypeOK, NEW q \in Natives, Balanced(q),
           refcnt'[q] = refcnt[q], owned'[q] = owned[q], releases'[q] = releases[q],
           PeersOf(q)' = PeersOf(q), WatchersOf(q)' = WatchersOf(q)
    PROVE  Balanced(q)'
  BY DEF Balanced

(* The references of native code come and go in pairs with the count.      *)
LEMMA OwnedBalanced ==
    ASSUME CounterTypeOK, Exact, NEW o \in Natives,
           \A q \in Natives \ {o} : refcnt'[q] = refcnt[q] /\ owned'[q] = owned[q],
           refcnt'[o] - owned'[o] = refcnt[o] - owned[o],
           refcnt'[o] \in Nat, owned'[o] \in Nat,
           UNCHANGED releases,
           \A q \in Natives : PeersOf(q)' = PeersOf(q) /\ WatchersOf(q)' = WatchersOf(q)
    PROVE  Exact'
<1>1. SUFFICES ASSUME NEW q \in Natives \ NativelyWatched  PROVE Balanced(q)'  BY DEF Exact
<1>2. Balanced(q)  BY DEF Exact
<1>3. CASE q = o
  <2>1. refcnt'[q] - owned'[q] = refcnt[q] - owned[q] /\ refcnt'[q] \in Nat /\ owned'[q] \in Nat
    BY <1>3
  <2>2. /\ refcnt[q] \in Int /\ owned[q] \in Int /\ releases[q] \in Int
        /\ Cardinality(PeersOf(q)) \in Int /\ Cardinality(WatchersOf(q)) \in Int
    BY OwnersCount, CounterpartAssumption DEF CounterTypeOK
  <2>3. /\ PeersOf(q)' = PeersOf(q) /\ WatchersOf(q)' = WatchersOf(q)
        /\ releases'[q] = releases[q]
    OBVIOUS
  <2> DEFINE p == Cardinality(PeersOf(q))
             w == Cardinality(WatchersOf(q))
  <2>4. refcnt[q] = owned[q] + p + w + releases[q] /\ p \in Int /\ w \in Int
    BY <1>2, <2>2 DEF Balanced
  <2>5. refcnt'[q] = owned'[q] + p + w + releases'[q]
    <3>1. releases'[q] = releases[q] /\ releases[q] \in Int /\ refcnt[q] \in Int /\ owned[q] \in Int
      BY <2>2, <2>3
    <3>2. refcnt'[q] \in Int /\ owned'[q] \in Int /\ refcnt'[q] - owned'[q] = refcnt[q] - owned[q]
      BY <2>1
    <3>3. \A a, b, c, d, e \in Int : a - b = c - d /\ c = d + p + w + e => a = b + p + w + e
      <4> HIDE DEF p, w
      <4> QED  BY ONLY <2>4
    <3> HIDE DEF p, w
    <3> QED  BY ONLY <2>4, <3>1, <3>2, <3>3
  <2> QED  BY <2>3, <2>5 DEF Balanced
<1>4. CASE q # o
  BY <1>2, <1>4, OthersBalanced DEF CounterTypeOK
<1> QED  BY <1>3, <1>4

LEMMA CountSteps ==
    ASSUME NativelyWatched \cap Peers = {},
           CounterTypeOK, CounterTypeOK', Sound, Exact, ~wild',
           NEW o \in Natives, NewNative(o) \/ Incref(o) \/ Decref(o) \/ UseFreed(o)
    PROVE  Sound' /\ Exact'
<1>0. ~UseFreed(o)  BY DEF UseFreed
<1>1. refcnt'[o] \in Nat /\ owned'[o] \in Nat
  BY CounterpartAssumption DEF CounterTypeOK
<1>2. CASE NewNative(o) \/ Incref(o)
  <2>1. /\ UNCHANGED <<headerVars, javaVars, watch, releases>>
        /\ refcnt' = [refcnt EXCEPT ![o] = @ + 1]
        /\ owned' = [owned EXCEPT ![o] = @ + 1]
    BY <1>2 DEF NewNative, Unused, Incref, weakVars, CounterTypeOK
  <2>2. \A q \in Natives : refcnt[q] > 0 => refcnt'[q] > 0
    BY <2>1 DEF CounterTypeOK
  <2>3. Sound'  BY <2>1, <2>2, SoundSame
  <2>4. \A q \in Natives : PeersOf(q)' = PeersOf(q) /\ WatchersOf(q)' = WatchersOf(q)
    BY <2>1, OwnersSame DEF javaVars
  <2>5. /\ \A q \in Natives \ {o} : refcnt'[q] = refcnt[q] /\ owned'[q] = owned[q]
        /\ refcnt'[o] - owned'[o] = refcnt[o] - owned[o]
    <3>1. refcnt'[o] = refcnt[o] + 1 /\ owned'[o] = owned[o] + 1
      BY <2>1 DEF CounterTypeOK
    <3>2. refcnt[o] \in Int /\ owned[o] \in Int  BY CounterpartAssumption DEF CounterTypeOK
    <3>3. refcnt'[o] - owned'[o] = refcnt[o] - owned[o]  BY <3>1, <3>2
    <3> QED  BY <2>1, <3>3 DEF CounterTypeOK
  <2>6. Exact'  BY <1>1, <2>1, <2>4, <2>5, OwnedBalanced
  <2> QED  BY <2>3, <2>6
<1>3. CASE Decref(o)
  <2>1. /\ owned[o] > 0 /\ refcnt[o] # 0 /\ Release(o)
        /\ owned' = [owned EXCEPT ![o] = @ - 1]
        /\ refcnt' = [refcnt EXCEPT ![o] = @ - 1]
        /\ UNCHANGED <<java, finalizer, watch, releases>>
    BY <1>3 DEF Decref, Holds, weakVars, CounterTypeOK, Release
  <2>2. ASSUME refcnt[o] = 1, o \notin NativelyWatched  PROVE PeersOf(o) = {} /\ WatchersOf(o) = {}
    <3>1. Balanced(o)  BY <2>2 DEF Exact
    <3> QED  BY <2>1, <2>2, <3>1, NoOwners
  <2>3. /\ Sound'
        /\ \A q \in Natives : PeersOf(q)' = PeersOf(q) /\ WatchersOf(q)' = WatchersOf(q)
    BY <2>1, <2>2, ReleaseSound
  <2>4. /\ \A q \in Natives \ {o} : refcnt'[q] = refcnt[q] /\ owned'[q] = owned[q]
        /\ refcnt'[o] - owned'[o] = refcnt[o] - owned[o]
    <3>1. refcnt'[o] = refcnt[o] - 1 /\ owned'[o] = owned[o] - 1
      BY <2>1 DEF CounterTypeOK
    <3>2. refcnt[o] \in Int /\ owned[o] \in Int  BY CounterpartAssumption DEF CounterTypeOK
    <3>3. refcnt'[o] - owned'[o] = refcnt[o] - owned[o]  BY <3>1, <3>2
    <3> QED  BY <2>1, <3>3 DEF CounterTypeOK
  <2>5. Exact'  BY <1>1, <2>1, <2>3, <2>4, OwnedBalanced
  <2> QED  BY <2>3, <2>5
<1> QED  BY <1>0, <1>2, <1>3

(* The reference of a cleared weak reference is given back.                *)
LEMMA ReleaseStep ==
    ASSUME NativelyWatched \cap Peers = {},
           CounterTypeOK, CounterTypeOK', Sound, Exact, ~wild',
           NEW o \in Natives, ReleaseWeakReferent(o)
    PROVE  Sound' /\ Exact'
<1>1. /\ releases[o] > 0 /\ refcnt[o] # 0 /\ Release(o)
      /\ releases' = [releases EXCEPT ![o] = @ - 1]
      /\ refcnt' = [refcnt EXCEPT ![o] = @ - 1]
      /\ UNCHANGED <<owned, java, finalizer, watch>>
  BY DEF ReleaseWeakReferent, Release
<1>2. ASSUME refcnt[o] = 1, o \notin NativelyWatched  PROVE PeersOf(o) = {} /\ WatchersOf(o) = {}
  <2>1. Balanced(o)  BY <1>2 DEF Exact
  <2> QED  BY <1>1, <1>2, <2>1, NoOwners
<1>3. /\ Sound'
      /\ \A q \in Natives : PeersOf(q)' = PeersOf(q) /\ WatchersOf(q)' = WatchersOf(q)
  BY <1>1, <1>2, ReleaseSound
<1>4. ASSUME NEW q \in Natives \ NativelyWatched  PROVE Balanced(q)'
  <2>1. Balanced(q) /\ PeersOf(q)' = PeersOf(q) /\ WatchersOf(q)' = WatchersOf(q)
    BY <1>3 DEF Exact
  <2>2. CASE q # o
    BY <1>1, <2>1, <2>2, OthersBalanced DEF CounterTypeOK
  <2>3. CASE q = o
    <3>1. refcnt'[q] = refcnt[q] - 1 /\ releases'[q] = releases[q] - 1 /\ owned'[q] = owned[q]
      BY <1>1, <2>3 DEF CounterTypeOK
    <3>2. /\ refcnt[q] \in Int /\ owned[q] \in Int /\ releases[q] \in Int
          /\ Cardinality(PeersOf(q)) \in Int /\ Cardinality(WatchersOf(q)) \in Int
      BY OwnersCount, CounterpartAssumption DEF CounterTypeOK
    <3> DEFINE p == Cardinality(PeersOf(q))
               w == Cardinality(WatchersOf(q))
    <3>3. refcnt[q] = owned[q] + p + w + releases[q] /\ p \in Int /\ w \in Int
      BY <2>1, <3>2 DEF Balanced
    <3>4. refcnt'[q] = owned'[q] + p + w + releases'[q]
      <4> HIDE DEF p, w
      <4> QED  BY <3>1, <3>2, <3>3
    <3> QED  BY <2>1, <3>4 DEF Balanced
  <2> QED  BY <2>2, <2>3
<1> QED  BY <1>3, <1>4 DEF Exact

(* The counterpart that a weak reference still yields.                     *)
LEMMA ExistingSound ==
    ASSUME CounterTypeOK, Sound, NEW o \in Natives, NEW j \in Javas, UseExisting(o, j),
           \A k \in Javas : \/ watch'[k] = watch[k]
                            \/ k = j /\ watch'[k] = o /\ o \in NativelyWatched
    PROVE  /\ Sound'
           /\ \A q \in Natives \ NativelyWatched :
                 PeersOf(q)' = PeersOf(q) /\ WatchersOf(q)' = WatchersOf(q)
<1>1. /\ jy[o] = j /\ java[j] # "none"
      /\ java' = [java EXCEPT ![j] = "reachable"]
      /\ UNCHANGED <<refcnt, jy, initialized, hasHandle, handle, finalizer>>
  BY DEF UseExisting, Existing, Cleared, headerVars
<1>2. \A k \in Javas : java'[k] = "none" <=> java[k] = "none"
  BY <1>1 DEF CounterTypeOK
<1>3. handle[j] = o  BY <1>1 DEF Sound, HeaderInv
<1>4. ASSUME NEW q \in Natives  PROVE HeaderInv(q)'
  <2>1. HeaderInv(q)  BY DEF Sound
  <2> QED  BY <1>1, <1>2, <2>1 DEF HeaderInv
<1>5. ASSUME NEW k \in Javas  PROVE JavaInv(k)'
  <2>1. JavaInv(k)  BY DEF Sound
  <2>2. Handles(k)' <=> Handles(k)  BY <1>1, <1>2 DEF Handles, Alive, IsPeer
  <2>3. java'[k] = "none" => watch'[k] = watch[k]  BY <1>1, <1>2
  <2> QED  BY <1>1, <1>2, <2>1, <2>2, <2>3 DEF JavaInv
<1>6. ASSUME NEW q \in Natives \ NativelyWatched
      PROVE  PeersOf(q)' = PeersOf(q) /\ WatchersOf(q)' = WatchersOf(q)
  <2>1. PeersOf(q)' = PeersOf(q)  BY <1>1 DEF PeersOf
  <2>2. ASSUME NEW k \in Javas  PROVE watch'[k] = q <=> watch[k] = q
    <3>1. CASE watch'[k] = watch[k]  BY <3>1
    <3>2. CASE k = j /\ watch'[k] = o /\ o \in NativelyWatched
      <4>1. watch[k] # q  BY <1>3, <3>2 DEF Sound, JavaInv
      <4> QED  BY <3>2, <4>1
    <3> QED  BY <3>1, <3>2
  <2> QED  BY <2>1, <2>2 DEF WatchersOf
<1> QED  BY <1>4, <1>5, <1>6 DEF Sound

(* A new counterpart.                                                      *)
LEMMA CounterpartSound ==
    ASSUME CounterTypeOK, Sound, NEW o \in Natives, NEW j \in Javas,
           refcnt[o] > 0, MakeCounterpart(o, j),
           \A k \in Javas : \/ watch'[k] = watch[k]
                            \/ k = j /\ watch'[k] = o /\ o \in NativelyWatched
    PROVE  /\ Sound'
           /\ \A q \in Natives \ NativelyWatched :
                 /\ PeersOf(q)' = IF q = o /\ o \in Peers THEN PeersOf(q) \cup {j} ELSE PeersOf(q)
                 /\ j \notin PeersOf(q)
                 /\ WatchersOf(q)' = WatchersOf(q)
<1>1. /\ initialized[o] => Cleared(o)
      /\ java[j] = "none" /\ \A q \in Natives : jy[q] # j
      /\ refcnt' = PeerReferences(o)
      /\ jy' = [jy EXCEPT ![o] = j]
      /\ initialized' = [initialized EXCEPT ![o] = TRUE]
      /\ hasHandle' = [hasHandle EXCEPT ![o] = o \in Mirrors]
      /\ java' = [java EXCEPT ![j] = "reachable"]
      /\ handle' = [handle EXCEPT ![j] = o]
      /\ finalizer' = [finalizer EXCEPT ![j] = "armed"]
  BY DEF MakeCounterpart, NeedsCounterpart, Fresh
<1>2. JavaInv(j) /\ handle[j] = None /\ watch[j] = None  BY <1>1 DEF Sound, JavaInv
<1>3. \A q \in Natives : refcnt[q] > 0 => refcnt'[q] > 0
  BY <1>1 DEF PeerReferences, CounterTypeOK
<1>4. ASSUME NEW q \in Natives  PROVE HeaderInv(q)'
  <2>1. CASE q = o
    <3>1. /\ jy'[q] = j /\ initialized'[q] /\ (hasHandle'[q] <=> q \in Mirrors)
          /\ java'[j] = "reachable" /\ handle'[j] = q /\ finalizer'[j] = "armed"
          /\ refcnt'[q] > 0
      BY <1>1, <1>3, <2>1 DEF CounterTypeOK
    <3> QED  BY <3>1, CounterpartAssumption DEF HeaderInv
  <2>2. CASE q # o
    <3>1. HeaderInv(q) /\ jy[q] # j  BY <1>1 DEF Sound
    <3>2. /\ jy'[q] = jy[q] /\ initialized'[q] = initialized[q] /\ hasHandle'[q] = hasHandle[q]
      BY <1>1, <2>2 DEF CounterTypeOK
    <3>3. \A k \in Javas \ {j} : java'[k] = java[k] /\ handle'[k] = handle[k] /\ finalizer'[k] = finalizer[k]
      BY <1>1 DEF CounterTypeOK
    <3> QED  BY <1>3, <3>1, <3>2, <3>3 DEF HeaderInv
  <2> QED  BY <2>1, <2>2
<1>5. ASSUME NEW k \in Javas  PROVE JavaInv(k)'
  <2>1. CASE k = j
    <3>1. java'[k] = "reachable" /\ handle'[k] = o /\ initialized'[o] /\ jy'[o] = k
      BY <1>1, <2>1 DEF CounterTypeOK
    <3>2. watch'[k] \in Natives => watch'[k] \in NativelyWatched
      BY <1>2, <2>1, CounterpartAssumption
    <3> QED  BY <3>1, <3>2 DEF JavaInv
  <2>2. CASE k # j
    <3>1. /\ JavaInv(k) /\ watch'[k] = watch[k] /\ java'[k] = java[k]
          /\ handle'[k] = handle[k] /\ finalizer'[k] = finalizer[k]
      BY <1>1, <2>2 DEF Sound, CounterTypeOK
    <3>2. ASSUME Handles(k)'  PROVE initialized'[handle'[k]] /\ jy'[handle'[k]] = k
      <4>1. Handles(k)  BY <3>1, <3>2 DEF Handles, Alive, IsPeer
      <4>2. initialized[handle[k]] /\ jy[handle[k]] = k /\ java[k] # "none" /\ handle[k] \in Natives
        BY <3>1, <4>1 DEF JavaInv, Handles, Alive, CounterTypeOK
      <4>3. handle[k] # o  BY <1>1, <4>2 DEF Cleared
      <4> QED  BY <1>1, <3>1, <4>2, <4>3 DEF CounterTypeOK
    <3> QED  BY <3>1, <3>2 DEF JavaInv
  <2> QED  BY <2>1, <2>2
<1>6. ASSUME NEW q \in Natives \ NativelyWatched
      PROVE  /\ PeersOf(q)' = IF q = o /\ o \in Peers THEN PeersOf(q) \cup {j} ELSE PeersOf(q)
             /\ j \notin PeersOf(q)
             /\ WatchersOf(q)' = WatchersOf(q)
  <2>1. j \notin PeersOf(q)  BY <1>2, CounterpartAssumption DEF PeersOf
  <2>2. \A k \in Javas \ {j} : handle'[k] = handle[k] /\ finalizer'[k] = finalizer[k]
    BY <1>1 DEF CounterTypeOK
  <2>3. handle'[j] = o /\ finalizer'[j] = "armed"  BY <1>1 DEF CounterTypeOK
  <2>4. PeersOf(q)' \ {j} = PeersOf(q) \ {j}  BY <2>2 DEF PeersOf
  <2>5. j \in PeersOf(q)' <=> q = o /\ o \in Peers  BY <2>3 DEF PeersOf
  <2>6. PeersOf(q)' = IF q = o /\ o \in Peers THEN PeersOf(q) \cup {j} ELSE PeersOf(q)
    BY <2>1, <2>4, <2>5
  <2>7. WatchersOf(q)' = WatchersOf(q)  BY <1>2, CounterpartAssumption DEF WatchersOf
  <2> QED  BY <2>1, <2>6, <2>7
<1> QED  BY <1>4, <1>5, <1>6 DEF Sound

LEMMA ConvertStep ==
    ASSUME CounterTypeOK, CounterTypeOK', Sound, Exact, ~wild',
           NEW o \in Natives, NEW j \in Javas,
           ToJava(o, j) \/ PassWeakReference(o, j)
    PROVE  Sound' /\ Exact'
<1>1. /\ refcnt[o] > 0 /\ UNCHANGED <<owned, releases>>
      /\ UseExisting(o, j) \/ MakeCounterpart(o, j)
  BY DEF ToJava, PassWeakReference, Holds, Convert, UseDeleted, weakVars
<1>2. \A k \in Javas : \/ watch'[k] = watch[k]
                       \/ k = j /\ watch'[k] = o /\ o \in NativelyWatched
  BY DEF ToJava, PassWeakReference, weakVars, CounterTypeOK
<1>3. CASE UseExisting(o, j)
  <2>1. Sound'  BY <1>2, <1>3, ExistingSound
  <2>2. ASSUME NEW q \in Natives \ NativelyWatched  PROVE Balanced(q)'
    <3>1. Balanced(q) /\ PeersOf(q)' = PeersOf(q) /\ WatchersOf(q)' = WatchersOf(q)
      BY <1>2, <1>3, ExistingSound DEF Exact
    <3> QED  BY <1>1, <1>3, <3>1, OthersBalanced DEF UseExisting
  <2> QED  BY <2>1, <2>2 DEF Exact
<1>4. CASE MakeCounterpart(o, j)
  <2>1. Sound'  BY <1>1, <1>2, <1>4, CounterpartSound
  <2>2. ASSUME NEW q \in Natives \ NativelyWatched  PROVE Balanced(q)'
    <3>1. /\ Balanced(q)
          /\ PeersOf(q)' = IF q = o /\ o \in Peers THEN PeersOf(q) \cup {j} ELSE PeersOf(q)
          /\ j \notin PeersOf(q)
          /\ WatchersOf(q)' = WatchersOf(q)
      BY <1>1, <1>2, <1>4, CounterpartSound DEF Exact
    <3>2. refcnt' = PeerReferences(o)  BY <1>4 DEF MakeCounterpart
    <3>3. CASE q = o /\ o \in Peers
      <4>1. Cardinality(PeersOf(q) \cup {j}) = Cardinality(PeersOf(q)) + 1
        BY <3>1, OwnersCount, FS_AddElement
      <4>2. refcnt'[q] = refcnt[q] + 1 /\ refcnt[q] \in Nat /\ owned[q] \in Nat /\ releases[q] \in Nat
        BY <3>2, <3>3, CounterpartAssumption DEF PeerReferences, CounterTypeOK
      <4> DEFINE p == Cardinality(PeersOf(q))
                 w == Cardinality(WatchersOf(q))
      <4>3. refcnt[q] = owned[q] + p + w + releases[q] /\ p \in Int /\ w \in Int
        BY <3>1, OwnersCount DEF Balanced
      <4>4. refcnt'[q] = owned'[q] + (p + 1) + w + releases'[q]
        <5>1. owned'[q] = owned[q] /\ releases'[q] = releases[q]  BY <1>1
        <5> HIDE DEF p, w
        <5> QED  BY ONLY <4>2, <4>3, <5>1
      <4>5. Cardinality(PeersOf(q)') = p + 1 /\ Cardinality(WatchersOf(q)') = w
        BY <3>1, <3>3, <4>1
      <4> QED  BY <4>4, <4>5 DEF Balanced
    <3>4. CASE ~(q = o /\ o \in Peers)
      <4>1. refcnt'[q] = refcnt[q]  BY <3>2, <3>4 DEF PeerReferences, CounterTypeOK
      <4> QED  BY <1>1, <3>1, <3>4, <4>1, OthersBalanced
    <3> QED  BY <3>3, <3>4
  <2> QED  BY <2>1, <2>2 DEF Exact
<1> QED  BY <1>1, <1>3, <1>4

(* A Java object is passed to native code.                                 *)
LEMMA HandleStep ==
    ASSUME CounterTypeOK, CounterTypeOK', Sound, Exact, ~wild',
           NEW o \in Natives, NEW j \in Javas, FromHandle(j, o)
    PROVE  Sound' /\ Exact'
<1>1. /\ refcnt' = [refcnt EXCEPT ![o] = @ + 1]
      /\ owned' = [owned EXCEPT ![o] = @ + 1]
      /\ UNCHANGED <<headerVars, javaVars, watch, releases>>
  BY DEF FromHandle, weakVars
<1>2. \A q \in Natives : refcnt[q] > 0 => refcnt'[q] > 0
  BY <1>1 DEF CounterTypeOK
<1>3. Sound'  BY <1>1, <1>2, SoundSame
<1>4. \A q \in Natives : PeersOf(q)' = PeersOf(q) /\ WatchersOf(q)' = WatchersOf(q)
  BY <1>1, OwnersSame DEF javaVars
<1>5. /\ \A q \in Natives \ {o} : refcnt'[q] = refcnt[q] /\ owned'[q] = owned[q]
      /\ refcnt'[o] - owned'[o] = refcnt[o] - owned[o]
  <2>1. refcnt'[o] = refcnt[o] + 1 /\ owned'[o] = owned[o] + 1
    BY <1>1 DEF CounterTypeOK
  <2>2. refcnt[o] \in Int /\ owned[o] \in Int  BY CounterpartAssumption DEF CounterTypeOK
  <2>3. refcnt'[o] - owned'[o] = refcnt[o] - owned[o]  BY <2>1, <2>2
  <2> QED  BY <1>1, <2>3 DEF CounterTypeOK
<1>6. refcnt'[o] \in Nat /\ owned'[o] \in Nat
  BY CounterpartAssumption DEF CounterTypeOK
<1> QED  BY <1>1, <1>3, <1>4, <1>5, <1>6, OwnedBalanced

LEMMA FromJavaStep ==
    ASSUME CounterTypeOK, CounterTypeOK', Sound, Exact,
           NEW o \in Natives, NEW j \in Javas, FromJava(j, o)
    PROVE  Sound' /\ Exact'
<1>1. /\ java[j] = "reachable" /\ handle[j] = None
      /\ o \in Mirrors /\ refcnt[o] = 0 /\ owned[o] = 0
      /\ refcnt' = [refcnt EXCEPT ![o] = InitialReferences(j)]
      /\ owned' = [owned EXCEPT ![o] = 1]
      /\ jy' = [jy EXCEPT ![o] = j]
      /\ initialized' = [initialized EXCEPT ![o] = TRUE]
      /\ hasHandle' = [hasHandle EXCEPT ![o] = TRUE]
      /\ handle' = [handle EXCEPT ![j] = o]
      /\ watch' = IF watch[j] = None THEN watch ELSE [watch EXCEPT ![j] = o]
      /\ UNCHANGED <<java, finalizer, releases>>
  BY DEF FromJava, Unused
<1>2. ~initialized[o]  BY <1>1 DEF Sound, HeaderInv
<1>3. watch[j] \notin Natives \ NativelyWatched
  BY <1>1, CounterpartAssumption DEF Sound, JavaInv
<1>4. ASSUME NEW q \in Natives  PROVE HeaderInv(q)'
  <2>1. CASE q = o
    <3>1. jy'[q] = j /\ initialized'[q] /\ hasHandle'[q] /\ handle'[j] = q /\ refcnt'[q] > 0
      BY <1>1, <2>1 DEF CounterTypeOK, InitialReferences
    <3> QED  BY <1>1, <2>1, <3>1, CounterpartAssumption DEF HeaderInv
  <2>2. CASE q # o
    <3>1. /\ HeaderInv(q) /\ refcnt'[q] = refcnt[q] /\ jy'[q] = jy[q]
          /\ initialized'[q] = initialized[q] /\ hasHandle'[q] = hasHandle[q]
      BY <1>1, <2>2 DEF Sound, CounterTypeOK
    <3>2. jy[q] # j  BY <1>1, <3>1, CounterpartAssumption DEF HeaderInv
    <3>3. jy[q] \in Javas => handle'[jy[q]] = handle[jy[q]]
      BY <1>1, <3>2 DEF CounterTypeOK
    <3> QED  BY <1>1, <3>1, <3>3 DEF HeaderInv
  <2> QED  BY <2>1, <2>2
<1>5. ASSUME NEW k \in Javas  PROVE JavaInv(k)'
  <2>1. CASE k = j
    <3>1. handle'[k] = o /\ initialized'[o] /\ jy'[o] = k
      BY <1>1, <2>1 DEF CounterTypeOK
    <3>2. watch'[k] = None \/ watch'[k] = o
      BY <1>1, <2>1 DEF CounterTypeOK
    <3> QED  BY <1>1, <2>1, <3>1, <3>2, CounterpartAssumption DEF JavaInv
  <2>2. CASE k # j
    <3>1. JavaInv(k) /\ watch'[k] = watch[k] /\ handle'[k] = handle[k]
      BY <1>1, <2>2 DEF Sound, CounterTypeOK
    <3>2. ASSUME Handles(k)'  PROVE initialized'[handle'[k]] /\ jy'[handle'[k]] = k
      <4>1. Handles(k)  BY <1>1, <3>1, <3>2 DEF Handles, Alive, IsPeer
      <4>2. initialized[handle[k]] /\ jy[handle[k]] = k /\ handle[k] \in Natives
        BY <3>1, <4>1 DEF JavaInv, Handles, CounterTypeOK
      <4>3. handle[k] # o  BY <1>2, <4>2
      <4> QED  BY <1>1, <3>1, <4>2, <4>3 DEF CounterTypeOK
    <3> QED  BY <1>1, <3>1, <3>2 DEF JavaInv
  <2> QED  BY <2>1, <2>2
<1>6. ASSUME NEW q \in Natives \ NativelyWatched  PROVE Balanced(q)'
  <2>1. Balanced(q)  BY DEF Exact
  <2>2. PeersOf(q)' = PeersOf(q)
    <3>1. \A k \in Javas : handle'[k] # handle[k] => handle[k] = None /\ handle'[k] \in Mirrors
      BY <1>1 DEF CounterTypeOK
    <3> QED  BY <1>1, <3>1, CounterpartAssumption DEF PeersOf
  <2>3. CASE q # o
    <3>1. WatchersOf(q)' = WatchersOf(q)
      BY <1>1, <1>3, <2>3 DEF WatchersOf, CounterTypeOK
    <3> QED  BY <1>1, <2>1, <2>2, <2>3, <3>1, OthersBalanced DEF CounterTypeOK
  <2>4. CASE q = o
    <3>1. owned[q] = 0 /\ releases[q] = 0  BY <1>1, <2>1, <2>4, NoOwners
    <3>2. PeersOf(q) = {} /\ WatchersOf(q) = {}
      BY <1>1, <2>1, <2>4, <3>1, NoOwners
    <3>3. refcnt'[q] = InitialReferences(j) /\ owned'[q] = 1 /\ releases'[q] = 0
      BY <1>1, <2>4, <3>1 DEF CounterTypeOK
    <3>4. CASE watch[j] = None
      <4>1. WatchersOf(q)' = {}  BY <1>1, <3>2, <3>4 DEF WatchersOf
      <4> QED  BY <2>2, <3>2, <3>3, <3>4, <4>1, FS_EmptySet DEF Balanced, InitialReferences
    <3>5. CASE watch[j] # None
      <4>1. WatchersOf(q)' = {j}
        <5>1. watch'[j] = q /\ \A k \in Javas \ {j} : watch'[k] = watch[k]
          BY <1>1, <2>4, <3>5 DEF CounterTypeOK
        <5>2. \A k \in Javas : watch[k] # q  BY <3>2 DEF WatchersOf
        <5> QED  BY <5>1, <5>2 DEF WatchersOf
      <4>2. Cardinality({j}) = 1  BY FS_Singleton
      <4> QED  BY <2>2, <3>2, <3>3, <3>5, <4>1, <4>2, FS_EmptySet DEF Balanced, InitialReferences
    <3> QED  BY <3>4, <3>5
  <2> QED  BY <2>3, <2>4
<1> QED  BY <1>4, <1>5, <1>6 DEF Sound, Exact

(* The program on the Java side.                                           *)
LEMMA ProgramStep ==
    ASSUME CounterTypeOK, CounterTypeOK', Sound, Exact,
           NEW j \in Javas, NewJava(j) \/ WatchJava(j) \/ DropJava(j) \/ GetReferent(j)
    PROVE  Sound' /\ Exact'
<1>1. UNCHANGED <<refcnt, owned, jy, initialized, hasHandle, handle, finalizer, releases>>
  BY DEF NewJava, WatchJava, DropJava, GetReferent, headerVars, weakVars, javaVars
<1>2. /\ \A k \in Javas : \/ java'[k] = "none" <=> java[k] = "none"
                          \/ k = j /\ java[k] = "none" /\ \A q \in Natives : jy[q] # k
      /\ \A k \in Javas : java'[k] = "none" => java[k] = "none"
  BY DEF NewJava, WatchJava, DropJava, GetReferent, Fresh, CounterTypeOK, javaVars
<1>3. \A k \in Javas : \/ watch'[k] = watch[k]
                       \/ java'[k] # "none" /\ watch[k] = None /\ watch'[k] = Unbacked
  BY DEF NewJava, WatchJava, DropJava, GetReferent, CounterTypeOK, weakVars, javaVars
<1>4. ASSUME NEW q \in Natives  PROVE HeaderInv(q)'
  <2>1. HeaderInv(q)  BY DEF Sound
  <2>2. jy[q] \in Javas => (java'[jy[q]] = "none" <=> java[jy[q]] = "none")
    BY <1>2
  <2> QED  BY <1>1, <2>1, <2>2 DEF HeaderInv
<1>5. ASSUME NEW k \in Javas  PROVE JavaInv(k)'
  <2>1. JavaInv(k)  BY DEF Sound
  <2>2. java'[k] = "none" => handle'[k] = None /\ watch'[k] = None
    BY <1>1, <1>2, <1>3, <2>1 DEF JavaInv
  <2>3. Handles(k)' => Handles(k)
    BY <1>1, <1>2, <2>1 DEF Handles, Alive, IsPeer, JavaInv
  <2>4. watch'[k] \in Natives => watch'[k] = watch[k]
    BY <1>3, CounterpartAssumption
  <2> QED  BY <1>1, <2>1, <2>2, <2>3, <2>4 DEF JavaInv
<1>6. ASSUME NEW q \in Natives \ NativelyWatched  PROVE Balanced(q)'
  <2>1. PeersOf(q)' = PeersOf(q)  BY <1>1 DEF PeersOf
  <2>2. WatchersOf(q)' = WatchersOf(q)  BY <1>3, CounterpartAssumption DEF WatchersOf
  <2> QED  BY <1>1, <2>1, <2>2, OthersBalanced DEF Exact
<1> QED  BY <1>4, <1>5, <1>6 DEF Sound, Exact

(* The collector.                                                          *)
LEMMA CollectStep ==
    ASSUME CounterTypeOK, CounterTypeOK', Sound, Exact,
           NEW j \in Javas, Collect(j)
    PROVE  Sound' /\ Exact'
<1>1. /\ java[j] = "unreachable"
      /\ IsPeer(j) => finalizer[j] # "due"
      /\ watch' = [watch EXCEPT ![j] = None]
      /\ releases' = IF watch[j] \in Natives
                     THEN [releases EXCEPT ![watch[j]] = @ + 1] ELSE releases
      /\ UNCHANGED <<refcnt, owned, jy, initialized, hasHandle>>
  BY DEF Collect, headerVars
<1>2. ASSUME NEW q \in Natives \ NativelyWatched, PeersOf(q)' = PeersOf(q)
      PROVE  Balanced(q)'
  <2>1. Balanced(q)  BY DEF Exact
  <2>2. CASE watch[j] = q
    <3>1. j \in WatchersOf(q) /\ WatchersOf(q)' = WatchersOf(q) \ {j}
      <4>1. j \in WatchersOf(q)  BY <2>2 DEF WatchersOf
      <4>2. watch'[j] # q /\ \A k \in Javas \ {j} : watch'[k] = watch[k]
        BY <1>1, CounterpartAssumption DEF CounterTypeOK
      <4> QED  BY <4>1, <4>2 DEF WatchersOf
    <3>2. Cardinality(WatchersOf(q) \ {j}) = Cardinality(WatchersOf(q)) - 1
      BY <3>1, OwnersCount, FS_RemoveElement
    <3> DEFINE p == Cardinality(PeersOf(q))
               w == Cardinality(WatchersOf(q))
    <3>3. refcnt[q] = owned[q] + p + w + releases[q] /\ p \in Int /\ w \in Int
      BY <2>1, OwnersCount DEF Balanced
    <3>4. /\ refcnt'[q] = refcnt[q] /\ owned'[q] = owned[q] /\ releases'[q] = releases[q] + 1
          /\ refcnt[q] \in Int /\ owned[q] \in Int /\ releases[q] \in Int
      BY <1>1, <2>2, CounterpartAssumption DEF CounterTypeOK
    <3>5. refcnt'[q] = owned'[q] + p + (w - 1) + releases'[q]
      <4> HIDE DEF p, w
      <4> QED  BY ONLY <3>3, <3>4
    <3>6. Cardinality(PeersOf(q)') = p /\ Cardinality(WatchersOf(q)') = w - 1
      BY <1>2, <3>1, <3>2
    <3> QED  BY <3>5, <3>6 DEF Balanced
  <2>3. CASE watch[j] # q
    <3>1. releases'[q] = releases[q]  BY <1>1, <2>3 DEF CounterTypeOK
    <3>2. WatchersOf(q)' = WatchersOf(q)
      BY <1>1, <2>3, CounterpartAssumption DEF WatchersOf, CounterTypeOK
    <3> QED  BY <1>1, <1>2, <2>1, <3>1, <3>2, OthersBalanced
  <2> QED  BY <2>2, <2>3
<1>3. CASE IsPeer(j) /\ finalizer[j] = "armed"
  <2>1. finalizer' = [finalizer EXCEPT ![j] = "due"] /\ UNCHANGED <<java, handle>>
    BY <1>3 DEF Collect
  <2>2. \A k \in Javas : finalizer'[k] = "ran" <=> finalizer[k] = "ran"
    BY <1>3, <2>1 DEF CounterTypeOK
  <2>3. ASSUME NEW q \in Natives  PROVE HeaderInv(q)'
    <3>1. HeaderInv(q)  BY DEF Sound
    <3> QED  BY <1>1, <2>1, <2>2, <3>1 DEF HeaderInv
  <2>4. ASSUME NEW k \in Javas  PROVE JavaInv(k)'
    <3>1. JavaInv(k)  BY DEF Sound
    <3>2. watch'[k] = watch[k] \/ watch'[k] = None  BY <1>1 DEF CounterTypeOK
    <3>3. Handles(k)' => Handles(k)  BY <2>1, <2>2 DEF Handles, Alive, IsPeer
    <3> QED  BY <1>1, <2>1, <3>1, <3>2, <3>3, CounterpartAssumption DEF JavaInv
  <2>5. \A q \in Natives : PeersOf(q)' = PeersOf(q)  BY <2>1, <2>2 DEF PeersOf
  <2> QED  BY <1>2, <2>3, <2>4, <2>5 DEF Sound, Exact
<1>4. CASE ~(IsPeer(j) /\ finalizer[j] = "armed")
  <2>1. /\ java' = [java EXCEPT ![j] = "none"]
        /\ handle' = [handle EXCEPT ![j] = None]
        /\ UNCHANGED finalizer
    BY <1>4 DEF Collect
  <2>2. IsPeer(j) => finalizer[j] = "ran"  BY <1>1, <1>4 DEF CounterTypeOK
  <2>3. \A k \in Javas \ {j} : java'[k] = java[k] /\ handle'[k] = handle[k] /\ watch'[k] = watch[k]
    BY <1>1, <2>1 DEF CounterTypeOK
  <2>4. java'[j] = "none" /\ handle'[j] = None /\ watch'[j] = None
    BY <1>1, <2>1 DEF CounterTypeOK
  <2>5. ASSUME NEW q \in Natives  PROVE HeaderInv(q)'
    <3>1. HeaderInv(q)  BY DEF Sound
    <3>2. jy[q] = j => q \notin Peers
      BY <1>1, <2>2, <3>1 DEF HeaderInv, IsPeer
    <3> QED  BY <1>1, <2>1, <2>3, <2>4, <3>1, <3>2 DEF HeaderInv
  <2>6. ASSUME NEW k \in Javas  PROVE JavaInv(k)'
    <3>1. CASE k = j
      BY <2>4, <3>1, CounterpartAssumption DEF JavaInv, Handles, Alive
    <3>2. CASE k # j
      <4>1. JavaInv(k)  BY DEF Sound
      <4>2. Handles(k)' => Handles(k)  BY <2>1, <2>3, <3>2 DEF Handles, Alive, IsPeer
      <4> QED  BY <1>1, <2>3, <3>2, <4>1, <4>2 DEF JavaInv
    <3> QED  BY <3>1, <3>2
  <2>7. ASSUME NEW q \in Natives  PROVE PeersOf(q)' = PeersOf(q)
    <3>1. j \notin PeersOf(q)  BY <2>2 DEF PeersOf, IsPeer
    <3>2. j \notin PeersOf(q)'  BY <2>4, CounterpartAssumption DEF PeersOf
    <3>3. PeersOf(q)' \ {j} = PeersOf(q) \ {j}  BY <2>1, <2>3 DEF PeersOf
    <3> QED  BY <3>1, <3>2, <3>3
  <2> QED  BY <1>2, <2>5, <2>6, <2>7 DEF Sound, Exact
<1> QED  BY <1>3, <1>4

(* A peer returns its reference.                                           *)
LEMMA FinalizeStep ==
    ASSUME NativelyWatched \cap Peers = {},
           CounterTypeOK, CounterTypeOK', Sound, Exact, ~wild',
           NEW j \in Javas, Finalize(j)
    PROVE  Sound' /\ Exact'
<1> DEFINE o == handle[j]
<1>1. /\ o \in Peers /\ finalizer[j] = "due"
      /\ finalizer' = [finalizer EXCEPT ![j] = "ran"]
      /\ refcnt[o] # 0 /\ ClearPyCPeer(o)
      /\ UNCHANGED <<owned, java, watch, releases>>
  BY DEF Finalize, IsPeer, weakVars
<1>2. handle[j] = o  OBVIOUS
<1> HIDE DEF o
<1>3. j \in PeersOf(o) /\ o \in Natives \ NativelyWatched  BY <1>1, <1>2 DEF PeersOf, Natives
<1>4. initialized[o] /\ jy[o] = j /\ \A k \in PeersOf(o) : k = j
  BY <1>1, <1>3, PeerPaired
<1>5. refcnt' = [refcnt EXCEPT ![o] = @ - 1]  BY <1>1 DEF ClearPyCPeer
<1>6. \A k \in Javas : \/ finalizer'[k] = finalizer[k]
                       \/ k = j /\ handle[k] = o /\ finalizer'[k] = "ran"
  BY <1>1, <1>2 DEF CounterTypeOK
<1>7. \A k \in Javas : handle[k] = o => finalizer'[k] = "ran"
  BY <1>1, <1>4, <1>6 DEF PeersOf, CounterTypeOK
<1>8. finalizer'[j] = "ran"  BY <1>1 DEF CounterTypeOK
<1>9. Balanced(o)  BY <1>3 DEF Exact
<1>10. Sound' /\ \A k \in Javas : handle'[k] = handle[k] \/ (handle[k] \in Mirrors /\ handle'[k] = None)
  <2>1. CASE refcnt[o] = 1
    <3>1. CleanUp(o)  BY <1>1, <2>1 DEF ClearPyCPeer
    <3>2. WatchersOf(o) = {}  BY <1>3, <1>9, <2>1, NoOwners
    <3>3. \A k \in Javas : watch[k] = o => o \in NativelyWatched  BY <3>2 DEF WatchersOf
    <3>4. Sound'  BY <1>1, <1>3, <1>5, <1>6, <1>7, <3>1, <3>3, FreedSound
    <3> QED  BY <1>3, <3>1, <3>4, CleanUpHandles
  <2>2. CASE refcnt[o] # 1
    <3>1. /\ jy' = [jy EXCEPT ![o] = Deleted]
          /\ UNCHANGED <<initialized, hasHandle, handle>>
      BY <1>1, <1>4, <2>2, CounterpartAssumption DEF ClearPyCPeer
    <3>2. ASSUME NEW q \in Natives  PROVE HeaderInv(q)'
      <4>1. HeaderInv(q)  BY DEF Sound
      <4>2. refcnt[q] > 0 => refcnt'[q] > 0
        BY <1>5, <2>2 DEF CounterTypeOK
      <4>3. CASE q = o
        <5>1. jy'[q] = Deleted  BY <3>1, <4>3 DEF CounterTypeOK
        <5> QED  BY <1>1, <1>4, <3>1, <4>1, <4>2, <4>3, <5>1, CounterpartAssumption DEF HeaderInv
      <4>4. CASE q # o
        <5>1. jy'[q] = jy[q]  BY <3>1, <4>4 DEF CounterTypeOK
        <5>2. jy[q] \in Javas /\ q \in Peers => finalizer'[jy[q]] = finalizer[jy[q]]
          BY <1>2, <1>6, <4>1, <4>4 DEF HeaderInv
        <5> QED  BY <1>1, <3>1, <4>1, <4>2, <5>1, <5>2 DEF HeaderInv
      <4> QED  BY <4>3, <4>4
    <3>3. ASSUME NEW k \in Javas  PROVE JavaInv(k)'
      <4>1. JavaInv(k)  BY DEF Sound
      <4>2. ASSUME Handles(k)'  PROVE initialized'[handle'[k]] /\ jy'[handle'[k]] = k
        <5>1. handle[k] # o
          BY <1>1, <1>7, <3>1, <4>2 DEF Handles, Alive, IsPeer
        <5>2. Handles(k)
          BY <1>1, <1>6, <3>1, <4>2, <5>1 DEF Handles, Alive, IsPeer
        <5>3. initialized[handle[k]] /\ jy[handle[k]] = k /\ handle[k] \in Natives
          BY <4>1, <5>2 DEF JavaInv, Handles, CounterTypeOK
        <5> QED  BY <3>1, <5>1, <5>3 DEF CounterTypeOK
      <4> QED  BY <1>1, <3>1, <4>1, <4>2 DEF JavaInv
    <3> QED  BY <3>1, <3>2, <3>3 DEF Sound
  <2> QED  BY <2>1, <2>2
<1>11. ASSUME NEW q \in Natives \ NativelyWatched  PROVE Balanced(q)'
  <2>1. Balanced(q)  BY DEF Exact
  <2>2. WatchersOf(q)' = WatchersOf(q)  BY <1>1 DEF WatchersOf
  <2>3. CASE q = o
    <3>1. PeersOf(q)' = PeersOf(q) \ {j} /\ j \in PeersOf(q)
      <4>1. PeersOf(q) = {j}  BY <1>3, <1>4, <2>3
      <4>2. PeersOf(q)' = {}
        <5>1. ASSUME NEW k \in Javas, handle'[k] = o  PROVE finalizer'[k] = "ran"
          BY <1>1, <1>7, <1>10, <5>1, CounterpartAssumption DEF Natives
        <5> QED  BY <2>3, <5>1 DEF PeersOf
      <4> QED  BY <4>1, <4>2
    <3>2. Cardinality(PeersOf(q) \ {j}) = Cardinality(PeersOf(q)) - 1
      BY <3>1, OwnersCount, FS_RemoveElement
    <3> DEFINE p == Cardinality(PeersOf(q))
               w == Cardinality(WatchersOf(q))
    <3>3. refcnt[q] = owned[q] + p + w + releases[q] /\ p \in Int /\ w \in Int
      BY <2>1, OwnersCount DEF Balanced
    <3>4. /\ refcnt'[q] = refcnt[q] - 1 /\ owned'[q] = owned[q] /\ releases'[q] = releases[q]
          /\ refcnt[q] \in Int /\ owned[q] \in Int /\ releases[q] \in Int
      BY <1>1, <1>5, <2>3, CounterpartAssumption DEF CounterTypeOK
    <3>5. refcnt'[q] = owned'[q] + (p - 1) + w + releases'[q]
      <4> HIDE DEF p, w
      <4> QED  BY ONLY <3>3, <3>4
    <3>6. Cardinality(PeersOf(q)') = p - 1 /\ Cardinality(WatchersOf(q)') = w
      BY <2>2, <3>1, <3>2
    <3> QED  BY <3>5, <3>6 DEF Balanced
  <2>4. CASE q # o
    <3>1. ASSUME NEW k \in Javas, q \in Peers
          PROVE  /\ handle'[k] = q <=> handle[k] = q
                 /\ handle[k] = q => finalizer'[k] = finalizer[k]
      BY <1>2, <1>6, <1>10, <2>4, <3>1, CounterpartAssumption DEF Natives
    <3>2. PeersOf(q)' = PeersOf(q)  BY <3>1 DEF PeersOf
    <3> QED  BY <1>1, <1>5, <2>1, <2>2, <2>4, <3>2, OthersBalanced DEF CounterTypeOK
  <2> QED  BY <2>3, <2>4
<1> QED  BY <1>10, <1>11 DEF Exact

LEMMA CounterStep ==
    ASSUME NativelyWatched \cap Peers = {},
           CounterTypeOK, CounterTypeOK', CounterInv, [CounterNext]_counterVars
    PROVE  CounterInv'
<1>1. CASE UNCHANGED counterVars
  <2>1. /\ UNCHANGED <<headerVars, javaVars, watch, handle, finalizer>>
        /\ UNCHANGED <<refcnt, owned, releases, wild>>
    BY <1>1 DEF counterVars, headerVars, javaVars, weakVars
  <2>2. CASE wild  BY <2>1, <2>2 DEF CounterInv
  <2>3. CASE Sound /\ Exact
    <3>1. Sound'  BY <2>1, <2>3, SoundSame
    <3>2. Exact'
      <4>1. \A q \in Natives : PeersOf(q)' = PeersOf(q) /\ WatchersOf(q)' = WatchersOf(q)
        BY <2>1, OwnersSame
      <4> QED  BY <2>1, <2>3, <4>1, OthersBalanced DEF Exact
    <3> QED  BY <3>1, <3>2 DEF CounterInv
  <2> QED  BY <2>2, <2>3 DEF CounterInv
<1>2. CASE CounterNext
  <2>1. ~wild  BY <1>2 DEF CounterNext
  <2>2. Sound /\ Exact  BY <2>1 DEF CounterInv
  <2>3. SUFFICES ASSUME ~wild'  PROVE Sound' /\ Exact'  BY DEF CounterInv
  <2>4. ASSUME NEW o \in Natives,
               NewNative(o) \/ Incref(o) \/ Decref(o) \/ UseFreed(o) \/ ReleaseWeakReferent(o)
        PROVE  Sound' /\ Exact'
    BY <2>2, <2>3, <2>4, CountSteps, ReleaseStep
  <2>5. ASSUME NEW o \in Natives, NEW j \in Javas,
               ToJava(o, j) \/ PassWeakReference(o, j) \/ FromHandle(j, o) \/ FromJava(j, o)
        PROVE  Sound' /\ Exact'
    BY <2>2, <2>3, <2>5, ConvertStep, HandleStep, FromJavaStep
  <2>6. ASSUME NEW j \in Javas,
               \/ NewJava(j) \/ WatchJava(j) \/ DropJava(j) \/ GetReferent(j)
               \/ Collect(j) \/ Finalize(j)
        PROVE  Sound' /\ Exact'
    BY <2>2, <2>3, <2>6, ProgramStep, CollectStep, FinalizeStep
  <2> QED  BY <1>2, <2>4, <2>5, <2>6, CounterSteps
<1> QED  BY <1>1, <1>2

LEMMA CounterInvInit ==
    ASSUME CounterInit
    PROVE  CounterInv
<1>1. ASSUME NEW o \in Natives  PROVE HeaderInv(o)
  BY CounterpartAssumption DEF CounterInit, HeaderInv
<1>2. ASSUME NEW j \in Javas  PROVE JavaInv(j)
  BY CounterpartAssumption DEF CounterInit, JavaInv, Handles, Alive
<1>3. ASSUME NEW o \in Natives  PROVE Balanced(o)
  <2>1. PeersOf(o) = {} /\ WatchersOf(o) = {}
    BY <1>2, CounterpartAssumption DEF PeersOf, WatchersOf, CounterInit, Natives
  <2> QED  BY <2>1, FS_EmptySet DEF Balanced, CounterInit
<1> QED  BY <1>1, <1>2, <1>3 DEF CounterInv, Sound, Exact

LEMMA CounterInvariant ==
    ASSUME NativelyWatched \cap Peers = {}
    PROVE  CounterSpec => [](CounterTypeOK /\ CounterInv)
<1>1. CounterTypeOK /\ CounterTypeOK' /\ CounterInv /\ [CounterNext]_counterVars => CounterInv'
  BY CounterStep
<1> QED  BY <1>1, CounterInvInit, CounterTypeCorrect, PTL DEF CounterSpec

(* Every Java object with a handle has an allocated native object, whose   *)
(* weak reference leads back to it, unless native weak references to peers *)
(* are passed to Java or a deleted weak reference or freed memory is used. *)
THEOREM HandlesAreSound ==
    ASSUME NativelyWatched \cap Peers = {}
    PROVE  CounterSpec => []HandlesSound
<1>1. CounterTypeOK /\ CounterInv => HandlesSound
  <2> SUFFICES ASSUME CounterTypeOK, CounterInv, ~wild, NEW j \in Javas, Handles(j)
               PROVE  /\ refcnt[handle[j]] > 0
                      /\ initialized[handle[j]]
                      /\ jy[handle[j]] = j
    BY DEF HandlesSound
  <2>1. handle[j] \in Natives  BY DEF Handles, CounterTypeOK
  <2>2. JavaInv(j) /\ HeaderInv(handle[j])  BY <2>1 DEF CounterInv, Sound
  <2> QED  BY <2>2 DEF JavaInv, HeaderInv
<1> QED  BY <1>1, CounterInvariant, PTL

(* As long as no native weak reference is passed to Java, the count of     *)
(* every native object is exactly what its owners will give back.          *)
THEOREM ReferencesAreExact ==
    ASSUME NativelyWatched = {}
    PROVE  CounterSpec => []ReferencesExact
<1>1. CounterInv => ReferencesExact
  BY DEF CounterInv, Exact, Balanced, ReferencesExact
<1>2. NativelyWatched \cap Peers = {}  OBVIOUS
<1>3. CounterSpec => [](CounterTypeOK /\ CounterInv)  BY <1>2, CounterInvariant
<1> QED  BY <1>1, <1>3, PTL

WeakBounded(o) == weakCount[o] <= Cardinality(WatchersOf(o)) + releases[o]

(* A count that stays or is forgotten.                                     *)
LEMMA WeakSame ==
    ASSUME CounterTypeOK, NEW o \in Natives, WeakBounded(o),
           weakCount'[o] \in {weakCount[o], 0},
           WatchersOf(o)' = WatchersOf(o), releases'[o] = releases[o]
    PROVE  WeakBounded(o)'
<1> DEFINE w == Cardinality(WatchersOf(o))
<1>1. w \in Nat  BY OwnersCount
<1>2. weakCount[o] \in Int /\ releases[o] \in Nat  BY CounterpartAssumption DEF CounterTypeOK
<1>3. weakCount[o] <= w + releases[o]  BY DEF WeakBounded
<1>4. weakCount'[o] <= w + releases[o]
  <2> HIDE DEF w
  <2> QED  BY <1>1, <1>2, <1>3
<1> QED  BY <1>4 DEF WeakBounded

(* The count falls with the number of references to give back.             *)
LEMMA WeakReleased ==
    ASSUME CounterTypeOK, CounterTypeOK', NEW o \in Natives, WeakBounded(o),
           NEW q \in Natives, ReleaseWeakReferent(q), refcnt[q] # 0,
           WeakBounded(q)
    PROVE  WeakBounded(o)'
<1>1. /\ releases' = [releases EXCEPT ![q] = @ - 1] /\ UNCHANGED watch
      /\ weakCount' = [weakCount EXCEPT ![q] = CountLeft(q, @ - 1)]
      /\ releases[q] > 0
  BY DEF ReleaseWeakReferent
<1>2. WatchersOf(o)' = WatchersOf(o)  BY <1>1 DEF WatchersOf
<1>3. CASE o # q
  <2>1. weakCount'[o] = weakCount[o] /\ releases'[o] = releases[o]
    BY <1>1, <1>3 DEF CounterTypeOK
  <2> QED  BY <1>2, <2>1, WeakSame
<1>4. CASE o = q
  <2> DEFINE w == Cardinality(WatchersOf(o))
  <2>1. w \in Nat /\ weakCount[o] <= w + releases[o]  BY OwnersCount DEF WeakBounded
  <2>2. weakCount[o] \in Int /\ releases[o] \in Nat /\ releases[o] > 0
    BY <1>1, <1>4, CounterpartAssumption DEF CounterTypeOK
  <2>3. weakCount'[o] \in {weakCount[o] - 1, 0} /\ releases'[o] = releases[o] - 1
    BY <1>1, <1>4, CounterpartAssumption DEF CountLeft, CounterTypeOK
  <2>4. weakCount'[o] <= w + releases'[o]
    <3> HIDE DEF w
    <3> QED  BY ONLY <2>1, <2>2, <2>3
  <2> QED  BY <1>2, <2>4 DEF WeakBounded
<1> QED  BY <1>3, <1>4

(* A weak reference of Java gets a native reference and is counted.        *)
LEMMA WeakFromJava ==
    ASSUME CounterTypeOK, NEW o \in Natives, WeakBounded(o),
           NEW q \in Natives, NEW j \in Javas, FromJava(j, q), watch[j] \notin Natives
    PROVE  WeakBounded(o)'
<1>1. /\ watch' = IF watch[j] = None THEN watch ELSE [watch EXCEPT ![j] = q]
      /\ weakCount' = IF watch[j] = None THEN weakCount
                      ELSE [weakCount EXCEPT ![q] = @ + 1]
      /\ UNCHANGED releases
  BY DEF FromJava
<1>2. CASE watch[j] = None \/ o # q
  <2>1. weakCount'[o] = weakCount[o] /\ releases'[o] = releases[o]
    BY <1>1, <1>2 DEF CounterTypeOK
  <2>2. WatchersOf(o)' = WatchersOf(o)  BY <1>1, <1>2 DEF WatchersOf, CounterTypeOK
  <2> QED  BY <2>1, <2>2, WeakSame
<1>3. CASE watch[j] # None /\ o = q
  <2> DEFINE w == Cardinality(WatchersOf(o))
  <2>1. w \in Nat /\ weakCount[o] <= w + releases[o]  BY OwnersCount DEF WeakBounded
  <2>2. weakCount[o] \in Int /\ releases[o] \in Nat  BY CounterpartAssumption DEF CounterTypeOK
  <2>3. weakCount'[o] = weakCount[o] + 1 /\ releases'[o] = releases[o]
    BY <1>1, <1>3 DEF CounterTypeOK
  <2>4. WatchersOf(o)' = WatchersOf(o) \cup {j} /\ j \notin WatchersOf(o)
    BY <1>1, <1>3 DEF WatchersOf, CounterTypeOK
  <2>5. Cardinality(WatchersOf(o)') = w + 1
    BY <2>4, OwnersCount, FS_AddElement
  <2>6. weakCount'[o] <= w + 1 + releases'[o]
    <3> HIDE DEF w
    <3> QED  BY ONLY <2>1, <2>2, <2>3
  <2>7. WatchersOf(o)' = WatchersOf(o) \cup {j}  BY <2>4
  <2> QED  BY <2>5, <2>6 DEF WeakBounded
<1> QED  BY <1>2, <1>3

(* A weak reference of Java that is cleared has its reference to give back. *)
LEMMA WeakCollected ==
    ASSUME CounterTypeOK, NEW o \in Natives, WeakBounded(o), NEW j \in Javas, Collect(j)
    PROVE  WeakBounded(o)'
<1>1. /\ watch' = [watch EXCEPT ![j] = None]
      /\ releases' = IF watch[j] \in Natives
                     THEN [releases EXCEPT ![watch[j]] = @ + 1] ELSE releases
      /\ UNCHANGED weakCount
  BY DEF Collect
<1>2. CASE watch[j] # o
  <2>1. WatchersOf(o)' = WatchersOf(o)
    BY <1>1, <1>2, CounterpartAssumption DEF WatchersOf, CounterTypeOK
  <2>2. releases'[o] = releases[o]  BY <1>1, <1>2 DEF CounterTypeOK
  <2> QED  BY <1>1, <2>1, <2>2, WeakSame
<1>3. CASE watch[j] = o
  <2> DEFINE w == Cardinality(WatchersOf(o))
  <2>1. w \in Nat /\ weakCount[o] <= w + releases[o]  BY OwnersCount DEF WeakBounded
  <2>2. weakCount[o] \in Int /\ releases[o] \in Nat  BY CounterpartAssumption DEF CounterTypeOK
  <2>3. releases'[o] = releases[o] + 1  BY <1>1, <1>3 DEF CounterTypeOK
  <2>4. j \in WatchersOf(o) /\ WatchersOf(o)' = WatchersOf(o) \ {j}
    <3>1. j \in WatchersOf(o)  BY <1>3 DEF WatchersOf
    <3>2. watch'[j] # o /\ \A k \in Javas \ {j} : watch'[k] = watch[k]
      BY <1>1, CounterpartAssumption DEF CounterTypeOK
    <3> QED  BY <3>1, <3>2 DEF WatchersOf
  <2>5. Cardinality(WatchersOf(o)') = w - 1
    BY <2>4, OwnersCount, FS_RemoveElement
  <2>6. weakCount[o] <= w - 1 + releases'[o]
    <3> HIDE DEF w
    <3> QED  BY ONLY <2>1, <2>2, <2>3
  <2> QED  BY <1>1, <2>5, <2>6 DEF WeakBounded
<1> QED  BY <1>2, <1>3

(* What changes neither weak references nor references to give back.       *)
LEMMA WeakForgotten ==
    ASSUME CounterTypeOK, NEW o \in Natives, WeakBounded(o),
           \/ \E q \in Natives : NewNative(q) \/ Incref(q) \/ Decref(q) \/ UseFreed(q)
           \/ \E q \in Natives, j \in Javas : ToJava(q, j) \/ FromHandle(j, q)
           \/ \E j \in Javas : NewJava(j) \/ WatchJava(j) \/ DropJava(j)
                               \/ GetReferent(j) \/ Finalize(j)
    PROVE  WeakBounded(o)'
<1>1. UNCHANGED releases
  BY DEF NewNative, Incref, Decref, UseFreed, ToJava, FromHandle, NewJava, WatchJava,
         DropJava, GetReferent, Finalize, weakVars
<1>2. WatchersOf(o)' = WatchersOf(o)
  <2>1. CASE UNCHANGED watch  BY <2>1 DEF WatchersOf
  <2>2. CASE \E j \in Javas : WatchJava(j)
    BY <2>2, CounterpartAssumption DEF WatchJava, WatchersOf, CounterTypeOK
  <2> QED
    BY <2>1, <2>2 DEF NewNative, Incref, Decref, UseFreed, ToJava, FromHandle, NewJava,
       DropJava, GetReferent, Finalize, weakVars
<1>3. weakCount'[o] \in {weakCount[o], 0}
  <2>1. CASE \/ \E q \in Natives : NewNative(q) \/ Incref(q) \/ UseFreed(q)
             \/ \E q \in Natives, j \in Javas : FromHandle(j, q)
             \/ \E j \in Javas : NewJava(j) \/ WatchJava(j) \/ DropJava(j) \/ GetReferent(j)
    BY <2>1 DEF NewNative, Incref, UseFreed, FromHandle, NewJava, WatchJava, DropJava,
       GetReferent
  <2>2. CASE \E q \in Natives : Decref(q)
    BY <2>2 DEF Decref, CountLeft, CounterTypeOK
  <2>3. CASE \E q \in Natives, j \in Javas : ToJava(q, j)
    BY <2>3 DEF ToJava, Convert, UseExisting, MakeCounterpart, UseDeleted, CounterTypeOK
  <2>4. CASE \E j \in Javas : Finalize(j)
    BY <2>4 DEF Finalize, ClearPyCPeer, CountLeft, CounterTypeOK, IsPeer
  <2> QED  BY <2>1, <2>2, <2>3, <2>4
<1> QED  BY <1>1, <1>2, <1>3, WeakSame

LEMMA WeakStep ==
    ASSUME CounterTypeOK, CounterTypeOK', Sound, NativelyWatched = {},
           \A o \in Natives : WeakBounded(o), CounterNext
    PROVE  wild' \/ \A o \in Natives : WeakBounded(o)'
<1>1. SUFFICES ASSUME NEW o \in Natives, ~wild'  PROVE WeakBounded(o)'
  OBVIOUS
<1>2. WeakBounded(o)  OBVIOUS
<1>3. CASE \E q \in Natives : ReleaseWeakReferent(q)
  <2>1. PICK q \in Natives : ReleaseWeakReferent(q)  BY <1>3
  <2>2. refcnt[q] # 0  BY <1>1, <2>1 DEF ReleaseWeakReferent
  <2> QED  BY <1>2, <2>1, <2>2, WeakReleased
<1>4. CASE \E q \in Natives, j \in Javas : FromJava(j, q)
  <2>1. PICK q \in Natives, j \in Javas : FromJava(j, q)  BY <1>4
  <2>2. java[j] = "reachable" /\ handle[j] = None  BY <2>1 DEF FromJava
  <2>3. watch[j] \notin Natives
    BY <2>2, CounterpartAssumption DEF Sound, JavaInv
  <2> QED  BY <1>2, <2>1, <2>3, WeakFromJava
<1>5. CASE \E j \in Javas : Collect(j)
  BY <1>2, <1>5, WeakCollected
<1>6. ~ \E q \in Natives, j \in Javas : PassWeakReference(q, j)
  BY DEF PassWeakReference
<1> QED  BY <1>2, <1>3, <1>4, <1>5, <1>6, CounterSteps, WeakForgotten

(* The weak count never exceeds the references that it stands for, as long *)
(* as no native weak reference is passed to Java.                          *)
THEOREM WeakCountsBounded ==
    ASSUME NativelyWatched = {}
    PROVE  CounterSpec => []WeakCountBounded
<1> DEFINE Inv == wild \/ \A o \in Natives : WeakBounded(o)
<1>1. NativelyWatched \cap Peers = {}  OBVIOUS
<1>2. CounterInit => Inv
  <2> SUFFICES ASSUME CounterInit, NEW o \in Natives  PROVE WeakBounded(o)
    OBVIOUS
  <2>1. Cardinality(WatchersOf(o)) \in Nat  BY OwnersCount
  <2>2. weakCount[o] = 0 /\ releases[o] = 0  BY DEF CounterInit
  <2> QED  BY <2>1, <2>2 DEF WeakBounded
<1>3. CounterTypeOK /\ CounterTypeOK' /\ CounterInv /\ Inv /\ [CounterNext]_counterVars => Inv'
  <2> SUFFICES ASSUME CounterTypeOK, CounterTypeOK', CounterInv, Inv,
                      [CounterNext]_counterVars
               PROVE  Inv'
    OBVIOUS
  <2>1. CASE UNCHANGED counterVars
    BY <2>1 DEF counterVars, weakVars, WeakBounded, WatchersOf
  <2>2. CASE CounterNext
    <3>1. ~wild  BY <2>2, CounterSteps
    <3>2. Sound /\ \A o \in Natives : WeakBounded(o)  BY <3>1 DEF CounterInv
    <3> QED  BY <2>2, <3>2, WeakStep
  <2> QED  BY <2>1, <2>2
<1>4. Inv => WeakCountBounded  BY DEF WeakBounded, WeakCountBounded
<1>5. CounterSpec => [](CounterTypeOK /\ CounterInv)  BY <1>1, CounterInvariant
<1> HIDE DEF Inv
<1> QED  BY <1>2, <1>3, <1>4, <1>5, PTL DEF CounterSpec

-----------------------------------------------------------------------------
(* Counterparts implements PairedObjects: the state that it maps to.       *)

Allocated == {o \in Natives : refcnt[o] > 0}
Living == {j \in Javas : Alive(j)}
Counterpart == {p \in Natives \X Javas : handle[p[2]] = p[1] /\ Alive(p[2])}

(* A pair is what both sides say.                                          *)
LEMMA PairFacts ==
    ASSUME CounterTypeOK, Sound, NEW p \in Counterpart
    PROVE  /\ p[1] \in Natives /\ p[2] \in Javas /\ p = <<p[1], p[2]>>
           /\ handle[p[2]] = p[1] /\ Handles(p[2]) /\ java[p[2]] # "none"
           /\ initialized[p[1]] /\ jy[p[1]] = p[2] /\ refcnt[p[1]] > 0
<1>1. /\ p[1] \in Natives /\ p[2] \in Javas /\ p = <<p[1], p[2]>>
      /\ handle[p[2]] = p[1] /\ Alive(p[2])
  BY DEF Counterpart
<1>2. Handles(p[2])  BY <1>1, CounterpartAssumption DEF Handles
<1>3. JavaInv(p[2]) /\ HeaderInv(p[1])  BY <1>1 DEF Sound
<1> QED  BY <1>1, <1>2, <1>3 DEF JavaInv, HeaderInv, Handles, Alive

LEMMA PairStutter ==
    ASSUME CounterTypeOK, CounterTypeOK',
           \A q \in Natives : refcnt'[q] > 0 <=> refcnt[q] > 0,
           \A k \in Javas : Alive(k)' <=> Alive(k),
           \A k \in Javas : Alive(k) => handle'[k] = handle[k]
    PROVE  UNCHANGED Pairs!pairVars
<1>1. UNCHANGED <<Allocated, Living, Counterpart>>
  BY DEF Allocated, Living, Counterpart
<1> QED  BY <1>1 DEF Pairs!pairVars, Allocated, Living, Counterpart

(* A native object dies, and a peer with it or not.                        *)
LEMMA PairDies ==
    ASSUME CounterTypeOK, CounterTypeOK', Sound, NEW o \in Natives, NEW js \in SUBSET Living,
           refcnt[o] > 0, ~(refcnt'[o] > 0),
           \A q \in Natives \ {o} : refcnt'[q] = refcnt[q],
           \A k \in Javas : Alive(k)' <=> Alive(k) /\ k \notin js,
           \A k \in Javas : \/ handle'[k] = handle[k]
                            \/ handle[k] = o /\ handle'[k] = None,
           \A k \in Javas : Alive(k)' => handle'[k] # o
    PROVE  Pairs!Die({o}, js)
<1>1. Allocated' = Allocated \ {o} /\ o \in Allocated  BY DEF Allocated
<1>2. Living' = Living \ js  BY DEF Living
<1>3. Counterpart' = {p \in Counterpart : p[1] \notin {o} /\ p[2] \notin js}
  <2>1. ASSUME NEW p \in Natives \X Javas
        PROVE  p \in Counterpart' <=> p \in Counterpart /\ p[1] # o /\ p[2] \notin js
    <3>1. p[1] \in Natives /\ p[2] \in Javas  OBVIOUS
    <3>2. p \in Counterpart <=> handle[p[2]] = p[1] /\ Alive(p[2])  BY DEF Counterpart
    <3>3. p \in Counterpart' <=> handle'[p[2]] = p[1] /\ Alive(p[2])'  BY DEF Counterpart
    <3>4. \/ handle'[p[2]] = handle[p[2]]
          \/ handle[p[2]] = o /\ handle'[p[2]] = None
      BY <3>1
    <3>5. None # p[1]  BY <3>1, CounterpartAssumption
    <3>6. Alive(p[2])' <=> Alive(p[2]) /\ p[2] \notin js  BY <3>1
    <3>7. Alive(p[2])' => handle'[p[2]] # o  BY <3>1
    <3> QED  BY ONLY <3>2, <3>3, <3>4, <3>5, <3>6, <3>7
  <2> QED  BY <2>1 DEF Counterpart
<1> QED  BY <1>1, <1>2, <1>3 DEF Pairs!Die, Allocated, Living, Counterpart

LEMMA PairJavaDies ==
    ASSUME CounterTypeOK, CounterTypeOK', NEW j \in Javas, Alive(j),
           \A q \in Natives : refcnt'[q] > 0 <=> refcnt[q] > 0,
           \A k \in Javas : Alive(k)' <=> Alive(k) /\ k # j,
           \A k \in Javas \ {j} : handle'[k] = handle[k]
    PROVE  Pairs!Die({}, {j})
<1>1. Allocated' = Allocated  BY DEF Allocated
<1>2. Living' = Living \ {j} /\ j \in Living  BY DEF Living
<1>3. Counterpart' = {p \in Counterpart : p[1] \notin {} /\ p[2] \notin {j}}
  BY DEF Counterpart
<1> QED  BY <1>1, <1>2, <1>3 DEF Pairs!Die, Allocated, Living, Counterpart

(* Giving the last reference back kills a native object.                   *)
LEMMA PairRelease ==
    ASSUME CounterTypeOK, CounterTypeOK', Sound, NEW o \in Natives, Release(o),
           refcnt[o] # 0, UNCHANGED <<java, finalizer>>,
           refcnt[o] = 1 /\ o \in Peers => PeersOf(o) = {}
    PROVE  Pairs!Die({o}, {}) \/ UNCHANGED Pairs!pairVars
<1>1. refcnt' = [refcnt EXCEPT ![o] = @ - 1]  BY DEF Release
<1>2. CASE refcnt[o] = 1
  <2>1. CleanUp(o)  BY <1>2 DEF Release
  <2>2. /\ \A k \in Javas : \/ handle'[k] = handle[k]
                            \/ handle[k] = o /\ o \in Mirrors /\ handle'[k] = None
        /\ \A k \in Javas : java[k] # "none" /\ o \in Mirrors /\ initialized[o] /\ jy[o] = k
                               => handle'[k] = None
    BY <2>1, CleanUpHandles
  <2>3. \A k \in Javas : Alive(k)' <=> Alive(k)
    <3>1. java' = java /\ finalizer' = finalizer  OBVIOUS
    <3>2. None \notin Peers /\ Mirrors \cap Peers = {}
      BY CounterpartAssumption DEF Natives
    <3>3. ASSUME NEW k \in Javas  PROVE IsPeer(k)' <=> IsPeer(k)
      <4>1. \/ handle'[k] = handle[k]
            \/ handle[k] = o /\ o \in Mirrors /\ handle'[k] = None
        BY <2>2
      <4> QED  BY <4>1, <3>2 DEF IsPeer
    <3> QED  BY <3>1, <3>3 DEF Alive
  <2>4. ASSUME NEW k \in Javas, Alive(k), handle'[k] = o  PROVE FALSE
    <3>1. handle[k] = o /\ o # None  BY <2>2, <2>4, CounterpartAssumption
    <3>2. Handles(k)  BY <2>4, <3>1 DEF Handles
    <3>3. initialized[o] /\ jy[o] = k /\ java[k] # "none"
      BY <2>4, <3>1, <3>2 DEF Sound, JavaInv, Alive
    <3>4. CASE o \in Mirrors  BY <2>2, <2>4, <3>1, <3>3, <3>4
    <3>5. CASE o \in Peers
      <4>1. k \in PeersOf(o)  BY <2>4, <3>1, <3>5 DEF PeersOf, Alive, IsPeer
      <4> QED  BY <1>2, <3>5, <4>1
    <3> QED  BY <3>4, <3>5 DEF Natives
  <2>5. ~(refcnt'[o] > 0) /\ refcnt[o] > 0 /\ \A q \in Natives \ {o} : refcnt'[q] = refcnt[q]
    BY <1>1, <1>2 DEF CounterTypeOK
  <2>6. {} \in SUBSET Living  OBVIOUS
  <2>7. Pairs!Die({o}, {})
    BY <2>2, <2>3, <2>4, <2>5, <2>6, PairDies
  <2> QED  BY <2>7
<1>3. CASE refcnt[o] # 1
  <2>1. handle' = handle  BY <1>3 DEF Release
  <2>2. \A q \in Natives : refcnt'[q] > 0 <=> refcnt[q] > 0
    BY <1>1, <1>3 DEF CounterTypeOK
  <2>3. \A k \in Javas : Alive(k)' <=> Alive(k)  BY <2>1 DEF Alive, IsPeer
  <2> QED  BY <2>1, <2>2, <2>3, PairStutter
<1> QED  BY <1>2, <1>3

(* A counterpart is made for a native object.                              *)
LEMMA PairMake ==
    ASSUME CounterTypeOK, CounterTypeOK', Sound,
           NEW o \in Natives, NEW j \in Javas, refcnt[o] > 0, MakeCounterpart(o, j)
    PROVE  Pairs!PairNative(o, j)
<1>1. /\ initialized[o] => jy[o] \in Javas /\ java[jy[o]] = "none"
      /\ java[j] = "none"
      /\ refcnt' = PeerReferences(o)
      /\ java' = [java EXCEPT ![j] = "reachable"]
      /\ handle' = [handle EXCEPT ![j] = o]
      /\ finalizer' = [finalizer EXCEPT ![j] = "armed"]
  BY DEF MakeCounterpart, NeedsCounterpart, Cleared, Fresh
<1>2. Pairs!Single(o, j)
  <2>1. ASSUME NEW p \in Counterpart  PROVE p[1] # o /\ p[2] # j
    BY <1>1, PairFacts
  <2> QED  BY <2>1 DEF Pairs!Single, Counterpart
<1>3. Allocated' = Allocated /\ o \in Allocated
  <2>1. \A q \in Natives : \/ refcnt'[q] = refcnt[q]
                           \/ q = o /\ refcnt'[q] = refcnt[q] + 1
    <3>1. refcnt' = refcnt \/ refcnt' = [refcnt EXCEPT ![o] = @ + 1]
      BY <1>1 DEF PeerReferences
    <3>2. refcnt \in [Natives -> Nat]  BY DEF CounterTypeOK
    <3>3. CASE refcnt' = refcnt  BY <3>3
    <3>4. CASE refcnt' = [refcnt EXCEPT ![o] = @ + 1]
      BY <3>2, <3>4
    <3> QED  BY <3>1, <3>3, <3>4
  <2>2. \A q \in Natives : refcnt[q] \in Nat  BY DEF CounterTypeOK
  <2>3. \A q \in Natives : refcnt'[q] > 0 <=> refcnt[q] > 0  BY <2>1, <2>2
  <2> QED  BY <2>3 DEF Allocated
<1>4. /\ ~Alive(j) /\ Alive(j)' /\ handle'[j] = o
      /\ \A k \in Javas \ {j} : (Alive(k)' <=> Alive(k)) /\ handle'[k] = handle[k]
  BY <1>1 DEF CounterTypeOK, Alive, IsPeer
<1>5. Living' = Living \cup {j} /\ j \notin Living  BY <1>4 DEF Living
<1>6. Counterpart' = Counterpart \cup {<<o, j>>}
  <2>1. ASSUME NEW p \in Natives \X Javas
        PROVE  p \in Counterpart' <=> p \in Counterpart \/ p = <<o, j>>
    <3>1. p[1] \in Natives /\ p[2] \in Javas /\ p = <<p[1], p[2]>>  OBVIOUS
    <3>2. p \in Counterpart <=> handle[p[2]] = p[1] /\ Alive(p[2])  BY DEF Counterpart
    <3>3. p \in Counterpart' <=> handle'[p[2]] = p[1] /\ Alive(p[2])'  BY DEF Counterpart
    <3>4. CASE p[2] = j  BY <1>4, <3>1, <3>2, <3>3, <3>4
    <3>5. CASE p[2] # j  BY <1>4, <3>1, <3>2, <3>3, <3>5
    <3> QED  BY <3>4, <3>5
  <2> QED  BY <2>1 DEF Counterpart
<1> QED  BY <1>2, <1>3, <1>5, <1>6 DEF Pairs!PairNative, Allocated, Living, Counterpart

(* A native side is made for a Java object.                                *)
LEMMA PairFromJava ==
    ASSUME CounterTypeOK, CounterTypeOK', Sound,
           NEW o \in Natives, NEW j \in Javas, FromJava(j, o)
    PROVE  Pairs!PairJava(o, j)
<1>1. /\ java[j] = "reachable" /\ handle[j] = None /\ o \in Mirrors
      /\ refcnt[o] = 0
      /\ refcnt' = [refcnt EXCEPT ![o] = InitialReferences(j)]
      /\ handle' = [handle EXCEPT ![j] = o]
      /\ UNCHANGED <<java, finalizer>>
  BY DEF FromJava, Unused
<1>2. Pairs!Single(o, j)
  <2>1. ASSUME NEW p \in Counterpart  PROVE p[1] # o /\ p[2] # j
    BY <1>1, PairFacts, CounterpartAssumption
  <2> QED  BY <2>1 DEF Pairs!Single, Counterpart
<1>3. Allocated' = Allocated \cup {o} /\ o \notin Allocated
  <2>1. refcnt'[o] > 0 /\ \A q \in Natives \ {o} : refcnt'[q] = refcnt[q]
    BY <1>1 DEF InitialReferences, CounterTypeOK
  <2> QED  BY <1>1, <2>1 DEF Allocated
<1>4. /\ Alive(j) /\ Alive(j)' /\ handle'[j] = o
      /\ \A k \in Javas \ {j} : (Alive(k)' <=> Alive(k)) /\ handle'[k] = handle[k]
  <2>1. None \notin Peers /\ o \notin Peers
    BY <1>1, CounterpartAssumption DEF Natives
  <2> QED  BY <1>1, <2>1 DEF CounterTypeOK, Alive, IsPeer
<1>5. Living' = Living /\ j \in Living  BY <1>4 DEF Living
<1>6. Counterpart' = Counterpart \cup {<<o, j>>}
  <2>1. ASSUME NEW p \in Natives \X Javas
        PROVE  p \in Counterpart' <=> p \in Counterpart \/ p = <<o, j>>
    <3>1. p[1] \in Natives /\ p[2] \in Javas /\ p = <<p[1], p[2]>>  OBVIOUS
    <3>2. p \in Counterpart <=> handle[p[2]] = p[1] /\ Alive(p[2])  BY DEF Counterpart
    <3>3. p \in Counterpart' <=> handle'[p[2]] = p[1] /\ Alive(p[2])'  BY DEF Counterpart
    <3>4. CASE p[2] = j  BY <1>1, <1>4, <3>1, <3>2, <3>3, <3>4, CounterpartAssumption
    <3>5. CASE p[2] # j  BY <1>4, <3>1, <3>2, <3>3, <3>5
    <3> QED  BY <3>4, <3>5
  <2> QED  BY <2>1 DEF Counterpart
<1> QED  BY <1>2, <1>3, <1>5, <1>6 DEF Pairs!PairJava, Allocated, Living, Counterpart

LEMMA PairConvert ==
    ASSUME CounterTypeOK, CounterTypeOK', Sound,
           NEW o \in Natives, NEW j \in Javas, refcnt[o] > 0, Convert(o, j)
    PROVE  Pairs!PairNative(o, j) \/ UNCHANGED Pairs!pairVars
<1>1. CASE UseExisting(o, j)
  <2>1. /\ java[j] # "none" /\ java' = [java EXCEPT ![j] = "reachable"]
        /\ UNCHANGED <<refcnt, handle, finalizer>>
    BY <1>1 DEF UseExisting, Existing, Cleared
  <2>2. \A k \in Javas : Alive(k)' <=> Alive(k)
    BY <2>1 DEF CounterTypeOK, Alive, IsPeer
  <2> QED  BY <2>1, <2>2, PairStutter
<1>2. CASE MakeCounterpart(o, j)  BY <1>2, PairMake
<1>3. CASE UseDeleted(o)
  <2>1. UNCHANGED <<refcnt, java, handle, finalizer>>  BY <1>3 DEF UseDeleted, javaVars
  <2>2. \A k \in Javas : Alive(k)' <=> Alive(k)  BY <2>1 DEF Alive, IsPeer
  <2> QED  BY <2>1, <2>2, PairStutter
<1> QED  BY <1>1, <1>2, <1>3 DEF Convert

(* An object that only one reference of native code, or of a cleared weak  *)
(* reference, keeps has no peer.                                           *)
LEMMA NoPeerLeft ==
    ASSUME NativelyWatched \cap Peers = {}, CounterTypeOK, Exact,
           NEW o \in Peers, refcnt[o] = 1, owned[o] > 0 \/ releases[o] > 0
    PROVE  PeersOf(o) = {}
<1>1. o \in Natives \ NativelyWatched  BY DEF Natives
<1>2. Balanced(o)  BY <1>1 DEF Exact
<1> QED  BY <1>1, <1>2, NoOwners

LEMMA PairNativeStep ==
    ASSUME NativelyWatched \cap Peers = {},
           CounterTypeOK, CounterTypeOK', Sound, Exact, NEW o \in Natives,
           \/ NewNative(o) \/ Incref(o) \/ Decref(o) \/ UseFreed(o)
           \/ ReleaseWeakReferent(o)
    PROVE  [Pairs!PairNext]_(Pairs!pairVars)
<1>1. CASE NewNative(o)
  <2>1. /\ refcnt[o] = 0 /\ refcnt' = [refcnt EXCEPT ![o] = 1]
        /\ UNCHANGED <<java, handle, finalizer>>
    BY <1>1 DEF NewNative, Unused, javaVars
  <2>2. Allocated' = Allocated \cup {o} /\ o \notin Allocated
    <3>1. refcnt'[o] > 0 /\ \A q \in Natives \ {o} : refcnt'[q] = refcnt[q]
      BY <2>1 DEF CounterTypeOK
    <3> QED  BY <2>1, <3>1 DEF Allocated
  <2>3. Living' = Living /\ Counterpart' = Counterpart
    BY <2>1 DEF Living, Counterpart, Alive, IsPeer
  <2>4. Pairs!NativeBorn(o)
    BY <2>2, <2>3 DEF Pairs!NativeBorn, Allocated, Living, Counterpart
  <2> QED  BY <2>4 DEF Pairs!PairNext
<1>2. CASE Incref(o) \/ UseFreed(o)
  <2>1. UNCHANGED <<java, handle, finalizer>>  BY <1>2 DEF Incref, UseFreed, javaVars
  <2>2. \A k \in Javas : Alive(k)' <=> Alive(k)  BY <2>1 DEF Alive, IsPeer
  <2>3. \A q \in Natives : refcnt'[q] > 0 <=> refcnt[q] > 0
    BY <1>2 DEF Incref, Holds, UseFreed, CounterTypeOK
  <2> QED  BY <2>1, <2>2, <2>3, PairStutter
<1>3. CASE Decref(o)
  <2>1. /\ Release(o) /\ owned[o] > 0 /\ refcnt[o] # 0 /\ UNCHANGED <<java, finalizer>>
    BY <1>3 DEF Decref, Holds
  <2>2. refcnt[o] = 1 /\ o \in Peers => PeersOf(o) = {}  BY <2>1, NoPeerLeft
  <2>3. Pairs!Die({o}, {}) \/ UNCHANGED Pairs!pairVars  BY <2>1, <2>2, PairRelease
  <2> QED  BY <2>3 DEF Pairs!PairNext
<1>4. CASE ReleaseWeakReferent(o)
  <2>1. CASE refcnt[o] = 0
    <3>1. UNCHANGED <<refcnt, java, handle, finalizer>>
      BY <1>4, <2>1 DEF ReleaseWeakReferent
    <3>2. \A k \in Javas : Alive(k)' <=> Alive(k)  BY <3>1 DEF Alive, IsPeer
    <3> QED  BY <3>1, <3>2, PairStutter
  <2>2. CASE refcnt[o] # 0
    <3>1. /\ Release(o) /\ releases[o] > 0 /\ UNCHANGED <<java, finalizer>>
      BY <1>4, <2>2 DEF ReleaseWeakReferent
    <3>2. refcnt[o] = 1 /\ o \in Peers => PeersOf(o) = {}  BY <3>1, NoPeerLeft
    <3>3. Pairs!Die({o}, {}) \/ UNCHANGED Pairs!pairVars  BY <2>2, <3>1, <3>2, PairRelease
    <3> QED  BY <3>3 DEF Pairs!PairNext
  <2> QED  BY <2>1, <2>2
<1> QED  BY <1>1, <1>2, <1>3, <1>4

LEMMA PairConversionStep ==
    ASSUME CounterTypeOK, CounterTypeOK', Sound, NEW o \in Natives, NEW j \in Javas,
           ToJava(o, j) \/ PassWeakReference(o, j) \/ FromHandle(j, o) \/ FromJava(j, o)
    PROVE  [Pairs!PairNext]_(Pairs!pairVars)
<1>1. CASE ToJava(o, j) \/ PassWeakReference(o, j)
  <2>1. Convert(o, j) /\ refcnt[o] > 0
    BY <1>1 DEF ToJava, PassWeakReference, Holds
  <2> QED  BY <2>1, PairConvert DEF Pairs!PairNext
<1>2. CASE FromHandle(j, o)
  <2>1. UNCHANGED <<java, handle, finalizer>>  BY <1>2 DEF FromHandle, javaVars
  <2>2. \A k \in Javas : Alive(k)' <=> Alive(k)  BY <2>1 DEF Alive, IsPeer
  <2>3. \A q \in Natives : refcnt'[q] > 0 <=> refcnt[q] > 0
    BY <1>2 DEF FromHandle, CounterTypeOK
  <2> QED  BY <2>1, <2>2, <2>3, PairStutter
<1>3. CASE FromJava(j, o)  BY <1>3, PairFromJava DEF Pairs!PairNext
<1> QED  BY <1>1, <1>2, <1>3

LEMMA PairProgramStep ==
    ASSUME CounterTypeOK, CounterTypeOK', Sound,
           NEW j \in Javas, NewJava(j) \/ WatchJava(j) \/ DropJava(j) \/ GetReferent(j)
    PROVE  [Pairs!PairNext]_(Pairs!pairVars)
<1>1. UNCHANGED <<refcnt, handle, finalizer>>
  BY DEF NewJava, WatchJava, DropJava, GetReferent, javaVars
<1>2. CASE NewJava(j)
  <2>1. java[j] = "none" /\ java' = [java EXCEPT ![j] = "reachable"]
    BY <1>2 DEF NewJava, Fresh
  <2>2. handle[j] = None /\ None \notin Natives
    BY <2>1, CounterpartAssumption DEF Sound, JavaInv
  <2>3. /\ ~Alive(j) /\ Alive(j)'
        /\ \A k \in Javas \ {j} : Alive(k)' <=> Alive(k)
    BY <1>1, <2>1, <2>2 DEF Alive, IsPeer, CounterTypeOK, Natives
  <2>4. Living' = Living \cup {j} /\ j \notin Living  BY <2>3 DEF Living
  <2>5. Allocated' = Allocated  BY <1>1 DEF Allocated
  <2>6. Counterpart' = Counterpart
    <3>1. ASSUME NEW p \in Natives \X Javas  PROVE p \in Counterpart' <=> p \in Counterpart
      <4>1. p[1] \in Natives /\ p[2] \in Javas  OBVIOUS
      <4>2. p \in Counterpart <=> handle[p[2]] = p[1] /\ Alive(p[2])  BY DEF Counterpart
      <4>3. p \in Counterpart' <=> handle[p[2]] = p[1] /\ Alive(p[2])'
        BY <1>1 DEF Counterpart
      <4>4. handle[p[2]] = p[1] => p[2] # j  BY <2>2, <4>1
      <4>5. p[2] # j => (Alive(p[2])' <=> Alive(p[2]))  BY <2>3, <4>1
      <4> QED  BY ONLY <4>2, <4>3, <4>4, <4>5
    <3> QED  BY <3>1 DEF Counterpart
  <2>7. Pairs!JavaBorn(j)
    BY <2>4, <2>5, <2>6 DEF Pairs!JavaBorn, Allocated, Living, Counterpart
  <2> QED  BY <2>7 DEF Pairs!PairNext
<1>3. CASE WatchJava(j) \/ DropJava(j) \/ GetReferent(j)
  <2>1. \A k \in Javas : java'[k] = "none" <=> java[k] = "none"
    BY <1>3 DEF WatchJava, DropJava, GetReferent, CounterTypeOK, javaVars
  <2>2. \A k \in Javas : Alive(k)' <=> Alive(k)  BY <1>1, <2>1 DEF Alive, IsPeer
  <2> QED  BY <1>1, <2>2, PairStutter
<1> QED  BY <1>2, <1>3

LEMMA PairCollectStep ==
    ASSUME CounterTypeOK, CounterTypeOK', Sound, NEW j \in Javas, Collect(j)
    PROVE  [Pairs!PairNext]_(Pairs!pairVars)
<1>1. java[j] # "none" /\ refcnt' = refcnt  BY DEF Collect
<1>2. CASE IsPeer(j) /\ finalizer[j] = "armed"
  <2>1. /\ java' = java /\ handle' = handle
        /\ finalizer' = [finalizer EXCEPT ![j] = "due"]
    BY <1>2 DEF Collect
  <2>2. \A k \in Javas : finalizer'[k] = "ran" <=> finalizer[k] = "ran"
    BY <1>2, <2>1 DEF CounterTypeOK
  <2>3. \A k \in Javas : Alive(k)' <=> Alive(k)  BY <2>1, <2>2 DEF Alive, IsPeer
  <2> QED  BY <1>1, <2>1, <2>3, PairStutter
<1>3. CASE ~(IsPeer(j) /\ finalizer[j] = "armed")
  <2>1. /\ java' = [java EXCEPT ![j] = "none"]
        /\ handle' = [handle EXCEPT ![j] = None]
        /\ finalizer' = finalizer
    BY <1>3 DEF Collect
  <2>2. ~Alive(j)'  BY <2>1 DEF Alive, CounterTypeOK
  <2>3. \A k \in Javas \ {j} : (Alive(k)' <=> Alive(k)) /\ handle'[k] = handle[k]
    BY <2>1 DEF Alive, IsPeer, CounterTypeOK
  <2>4. CASE Alive(j)
    <3>1. \A k \in Javas : Alive(k)' <=> Alive(k) /\ k # j  BY <2>2, <2>3
    <3>2. Pairs!Die({}, {j})  BY <1>1, <2>3, <2>4, <3>1, PairJavaDies
    <3> QED  BY <3>2 DEF Pairs!PairNext
  <2>5. CASE ~Alive(j)
    <3>1. \A k \in Javas : Alive(k)' <=> Alive(k)  BY <2>2, <2>3, <2>5
    <3>2. \A k \in Javas : Alive(k) => handle'[k] = handle[k]  BY <2>3, <2>5
    <3> QED  BY <1>1, <3>1, <3>2, PairStutter
  <2> QED  BY <2>4, <2>5
<1> QED  BY <1>2, <1>3

LEMMA PairFinalizeStep ==
    ASSUME NativelyWatched \cap Peers = {},
           CounterTypeOK, CounterTypeOK', Sound, Exact, NEW j \in Javas, Finalize(j)
    PROVE  [Pairs!PairNext]_(Pairs!pairVars)
<1> DEFINE o == handle[j]
<1>1. /\ o \in Peers /\ finalizer[j] = "due"
      /\ finalizer' = [finalizer EXCEPT ![j] = "ran"]
      /\ refcnt[o] # 0 => ClearPyCPeer(o)
      /\ java' = java
  BY DEF Finalize, IsPeer
<1>2. handle[j] = o  OBVIOUS
<1> HIDE DEF o
<1>3. j \in PeersOf(o) /\ o \in Natives \ NativelyWatched  BY <1>1, <1>2 DEF PeersOf, Natives
<1>4. /\ initialized[o] /\ jy[o] = j /\ Handles(j)
      /\ \A k \in PeersOf(o) : k = j
  BY <1>1, <1>3, PeerPaired
<1>5. refcnt[o] # 0
  <2>1. Balanced(o)  BY <1>3 DEF Exact
  <2> QED  BY <1>3, <2>1, NoOwners
<1>6. refcnt' = [refcnt EXCEPT ![o] = @ - 1] /\ ClearPyCPeer(o)
  BY <1>1, <1>5 DEF ClearPyCPeer
<1>7. handle' = handle
  <2>1. ~hasHandle[o]
    <3>1. HeaderInv(o)  BY <1>3 DEF Sound
    <3> QED  BY <1>1, <3>1, CounterpartAssumption DEF HeaderInv
  <2> QED  BY <1>6, <2>1 DEF ClearPyCPeer, CleanUp, ClearsHandle
<1>8. \A k \in Javas : Alive(k)' <=> Alive(k) /\ k # j
  <2>1. finalizer'[j] = "ran" /\ \A k \in Javas \ {j} : finalizer'[k] = finalizer[k]
    BY <1>1 DEF CounterTypeOK
  <2> QED  BY <1>1, <1>2, <1>7, <2>1 DEF Alive, IsPeer
<1>9. Alive(j)  BY <1>4 DEF Handles
<1>10. CASE refcnt[o] = 1
  <2>1. /\ refcnt[o] > 0 /\ ~(refcnt'[o] > 0)
        /\ \A q \in Natives \ {o} : refcnt'[q] = refcnt[q]
    BY <1>3, <1>6, <1>10 DEF CounterTypeOK
  <2>2. ASSUME NEW k \in Javas, Alive(k)'  PROVE handle'[k] # o
    <3>1. Alive(k) /\ k # j  BY <1>8, <2>2
    <3>2. handle[k] = o => k \in PeersOf(o)  BY <1>1, <3>1 DEF PeersOf, Alive, IsPeer
    <3> QED  BY <1>4, <1>7, <3>1, <3>2
  <2>3. {j} \in SUBSET Living  BY <1>9 DEF Living
  <2>4. \A k \in Javas : Alive(k)' <=> Alive(k) /\ k \notin {j}  BY <1>8
  <2>5. Pairs!Die({o}, {j})
    BY <1>3, <1>7, <2>1, <2>2, <2>3, <2>4, PairDies
  <2> QED  BY <1>3, <2>5 DEF Pairs!PairNext
<1>11. CASE refcnt[o] # 1
  <2>1. \A q \in Natives : refcnt'[q] > 0 <=> refcnt[q] > 0
    BY <1>3, <1>5, <1>6, <1>11 DEF CounterTypeOK
  <2>2. Pairs!Die({}, {j})  BY <1>7, <1>8, <1>9, <2>1, PairJavaDies
  <2> QED  BY <2>2 DEF Pairs!PairNext
<1> QED  BY <1>10, <1>11

LEMMA PairStep ==
    ASSUME NativelyWatched \cap Peers = {},
           CounterTypeOK, CounterTypeOK', CounterInv, [CounterNext]_counterVars
    PROVE  [Pairs!PairNext]_(Pairs!pairVars)
<1>1. CASE UNCHANGED counterVars
  <2>1. UNCHANGED <<refcnt, java, handle, finalizer>>
    BY <1>1 DEF counterVars, javaVars
  <2>2. \A k \in Javas : Alive(k)' <=> Alive(k)  BY <2>1 DEF Alive, IsPeer
  <2> QED  BY <2>1, <2>2, PairStutter
<1>2. CASE CounterNext
  <2>1. Sound /\ Exact  BY <1>2 DEF CounterInv, CounterNext
  <2>2. ASSUME NEW o \in Natives,
               \/ NewNative(o) \/ Incref(o) \/ Decref(o) \/ UseFreed(o)
               \/ ReleaseWeakReferent(o)
        PROVE  [Pairs!PairNext]_(Pairs!pairVars)
    BY <2>1, <2>2, PairNativeStep
  <2>3. ASSUME NEW o \in Natives, NEW j \in Javas,
               ToJava(o, j) \/ PassWeakReference(o, j) \/ FromHandle(j, o) \/ FromJava(j, o)
        PROVE  [Pairs!PairNext]_(Pairs!pairVars)
    BY <2>1, <2>3, PairConversionStep
  <2>4. ASSUME NEW j \in Javas,
               \/ NewJava(j) \/ WatchJava(j) \/ DropJava(j) \/ GetReferent(j)
               \/ Collect(j) \/ Finalize(j)
        PROVE  [Pairs!PairNext]_(Pairs!pairVars)
    BY <2>1, <2>4, PairProgramStep, PairCollectStep, PairFinalizeStep
  <2> QED  BY <1>2, <2>2, <2>3, <2>4, CounterSteps
<1> QED  BY <1>1, <1>2

LEMMA PairInitially ==
    ASSUME CounterInit
    PROVE  Pairs!PairInit
<1>1. \A o \in Natives : ~(refcnt[o] > 0)  BY DEF CounterInit
<1>2. \A j \in Javas : ~Alive(j)  BY DEF CounterInit, Alive
<1>3. Allocated = {} /\ Living = {} /\ Counterpart = {}
  BY <1>1, <1>2 DEF Allocated, Living, Counterpart
<1> QED  BY <1>3 DEF Pairs!PairInit, Allocated, Living, Counterpart

(* Counterparts are formed and parted only one to one, as PairedObjects    *)
(* promises: a conversion never makes a second counterpart, and a pair     *)
(* parts only when one side dies.  A step into memory that was freed, or   *)
(* to a deleted weak reference, is the last one.                           *)
THEOREM PairsAreKept ==
    ASSUME NativelyWatched \cap Peers = {}
    PROVE  CounterSpec => PairsKept
<1>1. CounterTypeOK /\ CounterTypeOK' /\ CounterInv /\ [CounterNext]_counterVars
         => [Pairs!PairNext]_(Pairs!pairVars)
  BY PairStep
<1>2. CounterInit => Pairs!PairInit  BY PairInitially
<1>3. CounterSpec => [](CounterTypeOK /\ CounterInv)  BY CounterInvariant
<1> QED  BY <1>1, <1>2, <1>3, PTL DEF CounterSpec, PairsKept, Pairs!PairSpec
=============================================================================
