---------------------------- MODULE GCHeadLinks ----------------------------
(***************************************************************************)
(* How the Java garbage collector learns the references between native     *)
(* objects.  An object that native code tracks is pushed on the            *)
(* exploration stack; when the call returns to Java the stack is emptied   *)
(* and every object on it is explored: it gets a JyGCHead whose links are  *)
(* the heads of its referents.  From then on the functions that change a   *)
(* list, a cell, a function or an instance update the links, and a         *)
(* JyNI-critical object, which macros can change unseen, is compared with  *)
(* its links when the collector runs.                                      *)
(*                                                                         *)
(* A head is named by its object.  A native call is one thread of control  *)
(* under the interpreter lock, except that the comparison is done by a     *)
(* finalizer thread at any time.                                           *)
(***************************************************************************)
EXTENDS ExplorationStack, FiniteSets

CONSTANTS
    Lists,         (* objects with a variable number of referents          *)
    Arrays,        (* objects with ArraySize referents, all in use         *)
    Singles,       (* objects with one referent that may be missing: cells *)
    Statics,       (* referents that are not on the heap                   *)
    Holds,         (* what the slots of each object may hold               *)
    Null,
    ArraySize,
    MaxItems,      (* bound of the length of a list                        *)
    MaxLinks       (* bound of its links, which grow with every insertion  *)

ASSUME HeadAssumption ==
    /\ Objects = Lists \cup Arrays \cup Singles
    /\ Lists \cap (Arrays \cup Singles) = {}
    /\ Arrays \cap Singles = {}
    /\ Statics \cap Objects = {}
    /\ Holds \in [Objects -> SUBSET (Objects \cup Statics)]
    /\ Null \notin Objects \cup Statics
    /\ ArraySize \in Nat \ {0, 1}
    /\ MaxItems \in Nat
    /\ MaxLinks \in Nat

VARIABLES
    gcrefs,    (* gc.gc_refs of an object, "free" when there is no object  *)
    items,     (* the slots of an object                                   *)
    heads,     (* the critical objects that have a JyGCHead                *)
    links,     (* the links of a head; <<>> when they are null or empty    *)
    behind,    (* ghost: what the links of an explored object have missed  *)
    phase,     (* "out" of native code, "in" a call, "exploring" at its end *)
    converting, (* objects being made for Java objects                     *)
    checking   (* the critical object being compared and the links read    *)

Referents == Objects \cup Statics

(* Is_JyNICriticalType                                                     *)
Critical == Lists \cup Singles

objectVars == <<gcrefs, items, converting>>
headVars == <<heads, links, behind>>
headLinkVars == <<stackVars, objectVars, headVars, phase, checking>>

NotChecking == [object |-> Null, old |-> <<>>]

GcRefs == {"free", "untracked", "reachable", "explored"}

(* Nothing, a change that comes without an update of the links, or the end *)
(* of a sequence that had fewer links when they were updated.              *)
Misses == {"nothing", "change", "end"}

HeadTypeOK ==
    /\ StackTypeOK
    /\ gcrefs \in [Objects -> GcRefs]
    /\ items \in [Objects -> Seq(Referents \cup {Null})]
    /\ heads \in SUBSET Critical
    /\ links \in [Objects -> Seq(Referents \cup {Null})]
    /\ behind \in [Objects -> Misses]
    /\ converting \in SUBSET Objects
    /\ phase \in {"out", "in", "exploring"}
    /\ checking \in [object : Critical \cup {Null}, old : Seq(Referents \cup {Null})]

HeadInit ==
    /\ StackInit
    /\ gcrefs = [o \in Objects |-> "free"]
    /\ items = [o \in Objects |-> <<>>]
    /\ heads = {}
    /\ links = [o \in Objects |-> <<>>]
    /\ behind = [o \in Objects |-> "nothing"]
    /\ phase = "out"
    /\ converting = {}
    /\ checking = NotChecking

Explored(o) == gcrefs[o] = "explored"
Tracked(o) == gcrefs[o] \in {"reachable", "explored"}

(* Untracked objects count as unexplored.                                  *)
IsUnexplored(o) == gcrefs[o] \in {"untracked", "reachable"}

Filled(o) == Null \notin Range(items[o])

(* What tp_traverse visits: the slots in order, unless they are empty.  An *)
(* object is filled as a whole, so either all slots are empty or none is.  *)
Visited(s) == IF Null \in Range(s) THEN <<>> ELSE s

(* The referents that are not on the heap are not explored for these.      *)
OnHeap(s) == IF Range(s) \subseteq Statics THEN <<>> ELSE s

-----------------------------------------------------------------------------
(* Exploration.                                                            *)

Padded(s, n) == [i \in 1 .. n |-> IF i <= Len(s) THEN s[i] ELSE Null]

(* The links that an exploration gives the object.                         *)
ExploredLinks(o) ==
    LET visited == Visited(items[o])
    IN  IF o \in Lists THEN visited
        ELSE IF o \in Arrays THEN Padded(visited, ArraySize)
        ELSE OnHeap(visited)

(* obtainJyGCHead for each of the objects.                                 *)
GivenHeads(objects) == heads \cup (objects \cap Critical)

ExploreNow(o) ==
    /\ gcrefs' = [gcrefs EXCEPT ![o] = "explored"]
    /\ links' = [links EXCEPT ![o] = ExploredLinks(o)]
    /\ heads' = GivenHeads({o} \cup Range(ExploredLinks(o)))
    /\ behind' = [behind EXCEPT ![o] = "nothing"]
    /\ UNCHANGED items

ExploreObject(o) ==
    IF IsUnexplored(o) THEN ExploreNow(o) ELSE UNCHANGED <<gcrefs, items, headVars>>

(* One turn of the loop that empties the stack, at the end of the call or  *)
(* of another call that returns meanwhile: all calls share the stack.      *)
ExploreNext(o) ==
    /\ phase \in {"in", "exploring"}
    /\ PopExStack(o)
    /\ ExploreObject(o)
    /\ UNCHANGED <<phase, converting, checking>>

(* A list that is passed to Java is explored on the spot and stays on the  *)
(* stack.                                                                  *)
ExploreList(o) ==
    /\ phase = "in"
    /\ o \in Lists
    /\ gcrefs[o] = "reachable"
    /\ Filled(o)
    /\ ExploreNow(o)
    /\ UNCHANGED <<stackVars, phase, converting, checking>>

-----------------------------------------------------------------------------
(* Calls, and the life of an object in native code.                        *)

EnterCall ==
    /\ phase = "out"
    /\ phase' = "in"
    /\ UNCHANGED <<stackVars, objectVars, headVars, checking>>

(* Native code fills the tuples and lists it made before it returns, but   *)
(* a conversion of another thread may be under way.                        *)
LeaveCall ==
    /\ phase = "in"
    /\ \A o \in Objects \ (Singles \cup converting) : Filled(o)
    /\ phase' = "exploring"
    /\ UNCHANGED <<stackVars, objectVars, headVars, checking>>

ReturnToJava ==
    /\ phase = "exploring"
    /\ IsExStackEmpty
    /\ phase' = "out"
    /\ UNCHANGED <<stackVars, objectVars, headVars, checking>>

Sizes(o) == IF o \in Lists THEN 0 .. MaxItems
            ELSE IF o \in Arrays THEN {ArraySize} ELSE {1}

(* A new object has empty slots, which macros fill.                        *)
NewObject(o, n) ==
    /\ phase = "in"
    /\ gcrefs[o] = "free"
    /\ n \in Sizes(o)
    /\ gcrefs' = [gcrefs EXCEPT ![o] = "untracked"]
    /\ items' = [items EXCEPT ![o] = [i \in 1 .. n |-> Null]]
    /\ UNCHANGED <<stackVars, headVars, phase, converting, checking>>

(* The object made for a Java object, in a call or when Java puts the      *)
(* object into a list: PyList_New, PyTuple_New and JyNI_Alloc track it     *)
(* empty and put it on the stack, macros fill it while its items are       *)
(* converted, and it is explored on the spot unless a call that returned   *)
(* meanwhile has explored it.  It stays on the stack.                      *)
BeginConversion(o, n) ==
    /\ phase \in {"in", "out"}
    /\ gcrefs[o] = "free"
    /\ n \in Sizes(o)
    /\ PushExStack(o)
    /\ gcrefs' = [gcrefs EXCEPT ![o] = "reachable"]
    /\ items' = [items EXCEPT ![o] = [i \in 1 .. n |-> Null]]
    /\ converting' = converting \cup {o}
    /\ UNCHANGED <<headVars, phase, checking>>

EndConversion(o) ==
    /\ o \in converting
    /\ Filled(o) \/ o \in Singles
    /\ ExploreObject(o)
    /\ converting' = converting \ {o}
    /\ UNCHANGED <<stackVars, phase, checking>>

Track(o) ==
    /\ phase = "in"
    /\ gcrefs[o] = "untracked"
    /\ PushExStack(o)
    /\ gcrefs' = [gcrefs EXCEPT ![o] = "reachable"]
    /\ UNCHANGED <<items, headVars, phase, converting, checking>>

(* The last reference to the object is gone: no slot and no link of        *)
(* another object's head holds it, and its own head has been finalized     *)
(* (not while a comparison holds that head).  Its deallocator untracks it  *)
(* and frees it.                                                           *)
Dealloc(o) ==
    /\ phase = "in"
    /\ gcrefs[o] # "free"
    /\ o \notin converting
    /\ checking.object # o
    /\ \A p \in Objects \ {o} : o \notin Range(items[p]) \cup Range(links[p])
    /\ IF Tracked(o) THEN RemoveObjectExStack(o) ELSE UNCHANGED stackVars
    /\ gcrefs' = [gcrefs EXCEPT ![o] = "free"]
    /\ items' = [items EXCEPT ![o] = <<>>]
    /\ links' = [links EXCEPT ![o] = <<>>]
    /\ heads' = heads \ {o}
    /\ behind' = [behind EXCEPT ![o] = "nothing"]
    /\ UNCHANGED <<phase, converting, checking>>

-----------------------------------------------------------------------------
(* Updates of the links.                                                   *)

(* ArrayList.set outside the list throws and an array refuses the index:   *)
(* the links stay as they are.                                             *)
SetLink(o, i, r) ==
    IF i \in DOMAIN links[o] THEN [links EXCEPT ![o][i] = r] ELSE links

(* updateJyGCHeadLinks: the links of a list are set one by one, then the   *)
(* rest is cleared; a single link cannot be set, because setLink assigns   *)
(* its own parameter.                                                      *)
SyncedLinks(o, s) ==
    IF o \in Singles THEN links
    ELSE LET n == Len(links[o])
         IN  [links EXCEPT ![o] = SubSeq(s, 1, IF Len(s) < n THEN Len(s) ELSE n)]

MissedEnd(o, s) ==
    IF o \in Singles THEN behind
    ELSE [behind EXCEPT ![o] = IF Len(s) > Len(links[o]) THEN "end" ELSE "nothing"]

SyncLinks(o, s) ==
    IF Explored(o)
    THEN /\ links' = SyncedLinks(o, s)
         /\ heads' = GivenHeads({o} \cup Range(s))
         /\ behind' = MissedEnd(o, s)
    ELSE UNCHANGED headVars

(* Java changes a list through its JyList without entering a native call.  *)
Mutable(o) == gcrefs[o] # "free" /\ (phase = "in" \/ o \in Lists)

(* PyList_SetItem, list_ass_item, JyList_set and the setters of functions, *)
(* classes and instances.                                                  *)
SetItem(o, i, r) ==
    /\ Mutable(o)
    /\ o \notin Singles
    /\ i \in DOMAIN items[o]
    /\ Filled(o)
    /\ items' = [items EXCEPT ![o][i] = r]
    /\ IF Explored(o)
       THEN /\ links' = SetLink(o, i, r)
            /\ heads' = GivenHeads({o, r})
       ELSE UNCHANGED <<heads, links>>
    /\ UNCHANGED <<stackVars, gcrefs, behind, phase, converting, checking>>

(* Mutant: appending to the links is taken for an index out of range.      *)
InsertInside(o, i, r) ==
    /\ phase = "in"
    /\ gcrefs[o] # "free"
    /\ o \in Lists
    /\ Filled(o)
    /\ Len(items[o]) < MaxItems
    /\ Explored(o) => Len(links[o]) < MaxLinks
    /\ i \in 1 .. Len(items[o]) + 1
    /\ items' = [items EXCEPT ![o] = InsertAt(items[o], i, r)]
    /\ IF Explored(o)
       THEN /\ links' = IF i <= Len(links[o])
                        THEN [links EXCEPT ![o] = InsertAt(links[o], i, r)]
                        ELSE links
            /\ heads' = GivenHeads({o, r})
       ELSE UNCHANGED <<heads, links>>
    /\ UNCHANGED <<stackVars, gcrefs, behind, phase, converting, checking>>

Insert(o, i, r) ==
    /\ phase = "in"
    /\ gcrefs[o] # "free"
    /\ o \in Lists
    /\ Filled(o)
    /\ Len(items[o]) < MaxItems
    /\ Explored(o) => Len(links[o]) < MaxLinks
    /\ i \in 1 .. Len(items[o]) + 1
    /\ items' = [items EXCEPT ![o] = InsertAt(items[o], i, r)]
    /\ IF Explored(o)
       THEN /\ links' = IF i <= Len(links[o]) + 1
                        THEN [links EXCEPT ![o] = InsertAt(links[o], i, r)]
                        ELSE links
            /\ heads' = GivenHeads({o, r})
       ELSE UNCHANGED <<heads, links>>
    /\ UNCHANGED <<stackVars, gcrefs, behind, phase, converting, checking>>

(* Slice assignment, repetition, extension, sorting and reversing.         *)
Replace(o, s) ==
    /\ Mutable(o)
    /\ o \in Lists
    /\ Filled(o)
    /\ items' = [items EXCEPT ![o] = s]
    /\ SyncLinks(o, s)
    /\ UNCHANGED <<stackVars, gcrefs, phase, converting, checking>>

App1(o, r) ==
    /\ Len(items[o]) < MaxItems
    /\ Replace(o, Append(items[o], r))

(* Popping the last item and clearing leave the links alone.               *)
Shrink(o, n) ==
    /\ Mutable(o)
    /\ o \in Lists
    /\ Filled(o)
    /\ items[o] # <<>>
    /\ n \in {0, Len(items[o]) - 1}
    /\ items' = [items EXCEPT ![o] = SubSeq(items[o], 1, n)]
    /\ UNCHANGED <<stackVars, gcrefs, headVars, phase, converting, checking>>

MarkChanged(o) ==
    behind' = IF Explored(o) THEN [behind EXCEPT ![o] = "change"] ELSE behind

(* The slots of a new list or tuple are filled with macros.                *)
Fill(o, s) ==
    /\ phase = "in"
    /\ gcrefs[o] # "free"
    /\ items[o] # <<>>
    /\ Visited(items[o]) = <<>>
    /\ Len(s) = Len(items[o])
    /\ items' = [items EXCEPT ![o] = s]
    /\ MarkChanged(o)
    /\ UNCHANGED <<stackVars, gcrefs, heads, links, phase, converting, checking>>

(* PyList_SET_ITEM replaces an item of a list.                             *)
MacroSet(o, i, r) ==
    /\ phase = "in"
    /\ gcrefs[o] # "free"
    /\ o \in Lists
    /\ Filled(o)
    /\ i \in DOMAIN items[o]
    /\ items' = [items EXCEPT ![o][i] = r]
    /\ MarkChanged(o)
    /\ UNCHANGED <<stackVars, gcrefs, heads, links, phase, converting, checking>>

(* PyCell_Set, also with no referent: the link is asked to change and does *)
(* not.                                                                    *)
SetCell(o, r) ==
    /\ phase = "in"
    /\ gcrefs[o] # "free"
    /\ o \in Singles
    /\ items' = [items EXCEPT ![o] = <<r>>]
    /\ heads' = IF Explored(o) \/ r = Null THEN GivenHeads({o, r}) ELSE heads
    /\ MarkChanged(o)
    /\ UNCHANGED <<stackVars, gcrefs, links, phase, converting, checking>>

-----------------------------------------------------------------------------
(* The comparison of a critical object with its links.  Java reads the     *)
(* links, then calls JyGC_validateGCHead; no lock is held.                 *)

ReadOldLinks(o) ==
    /\ checking = NotChecking
    /\ o \in Critical
    /\ Tracked(o)
    /\ o \in heads
    /\ checking' = [object |-> o, old |-> links[o]]
    /\ UNCHANGED <<stackVars, objectVars, headVars, phase>>

(* The positions at which a referent differs from the old link.            *)
ChangedPositions(visited, old) ==
    {i \in DOMAIN visited : i > Len(old) \/ visited[i] # old[i]}

(* Mutant: any difference delays finalization.                             *)
ValidateAnyChange(visited, old) == ChangedPositions(visited, old) # {}

(* Whether finalization is to be delayed.                                  *)
ValidateResult(visited, old) ==
    LET changes == ChangedPositions(visited, old)
    IN  /\ changes # {}
        /\ old = <<>> \/ \E i \in changes : visited[i] \notin Range(old)

(* Mutant: the links are updated only when finalization is delayed.        *)
ValidateDelayed ==
    LET o == checking.object
        visited == Visited(items[o])
    IN  /\ o # Null
        /\ IF ValidateResult(visited, checking.old)
           THEN SyncLinks(o, visited)
           ELSE UNCHANGED headVars
        /\ checking' = NotChecking
        /\ UNCHANGED <<stackVars, objectVars, phase>>

ValidateGCHead ==
    LET o == checking.object
        visited == Visited(items[o])
    IN  /\ o # Null
        /\ IF ChangedPositions(visited, checking.old) = {}
           THEN UNCHANGED headVars
           ELSE SyncLinks(o, visited)
        /\ checking' = NotChecking
        /\ UNCHANGED <<stackVars, objectVars, phase>>

StackRunsWild ==
    /\ \/ phase = "in" /\ (\E o \in Objects : gcrefs[o] = "untracked") /\ PushWild
       \/ phase \in {"in", "out"} /\ (\E o \in Objects : gcrefs[o] = "free") /\ PushWild
       \/ phase \in {"in", "exploring"} /\ PopWild
    /\ UNCHANGED <<objectVars, headVars, phase, checking>>

-----------------------------------------------------------------------------
Storable(o) == {r \in Holds[o] : r \in Statics \/ gcrefs[r] # "free"}

Contents(o) == UNION {[1 .. n -> Storable(o)] : n \in 0 .. MaxItems}

HeadNext ==
    /\ ~wild
    /\ \/ EnterCall
       \/ LeaveCall
       \/ ReturnToJava
       \/ ValidateGCHead
       \/ StackRunsWild
       \/ \E o \in Objects :
             \/ ExploreNext(o)
             \/ ExploreList(o)
             \/ Track(o)
             \/ Dealloc(o)
             \/ ReadOldLinks(o)
             \/ EndConversion(o)
             \/ \E n \in 0 .. MaxItems :
                   NewObject(o, n) \/ BeginConversion(o, n) \/ Shrink(o, n)
             \/ \E s \in Contents(o) : Fill(o, s) \/ Replace(o, s)
             \/ \E r \in Storable(o) : App1(o, r)
             \/ \E r \in Storable(o) \cup {Null} : SetCell(o, r)
             \/ \E i \in 1 .. MaxItems + 1, r \in Storable(o) :
                   SetItem(o, i, r) \/ Insert(o, i, r) \/ MacroSet(o, i, r)

HeadSpec == HeadInit /\ [][HeadNext]_headLinkVars

-----------------------------------------------------------------------------
(* The stack holds tracked objects only, so that it never holds a freed    *)
(* one, each at most once, and every tracked object that is still to be    *)
(* explored: pushExStack, popExStack, removeObjectExStack and the callers. *)
StackSound ==
    /\ \A o \in Content : Tracked(o)
    /\ \A o \in Objects : gcrefs[o] = "reachable" => o \in Content
    /\ IsInjective(base)
    /\ \A j \in DOMAIN overflow :
          /\ IsInjective(overflow[j])
          /\ Range(overflow[j]) \cap Range(base) = {}
          /\ \A k \in DOMAIN overflow \ {j} : Range(overflow[j]) \cap Range(overflow[k]) = {}

(* The links of a list start with its items, those of an array are its     *)
(* items, and a single link is the referent when that is on the heap.      *)
LinksMatch(o) ==
    IF o \in Lists THEN IsPrefix(Visited(items[o]), links[o])
    ELSE IF o \in Arrays THEN links[o] = items[o]
    ELSE links[o] = OnHeap(Visited(items[o]))

(* The Java collector sees every reference of every explored object, at    *)
(* its position, except what its links are known to have missed: of a list *)
(* the end that an update found no links for, and whatever macros changed  *)
(* since; of an array what was stored in it after it was explored empty,   *)
(* and then the links name nothing that it does not hold; of a cell any    *)
(* change since it was explored.                                           *)
LinksFollow ==
    \A o \in Objects : Explored(o) =>
        \/ LinksMatch(o)
        \/ behind[o] = "change" /\ o \in Critical
        \/ /\ behind[o] = "change" /\ o \in Arrays
           /\ \A i \in 1 .. ArraySize : links[o][i] \in {Null, items[o][i]}
        \/ /\ behind[o] = "end" /\ o \in Lists
           /\ IsPrefix(links[o], Visited(items[o]))

(* JyGC_validateGCHead counts the positions that differ and then looks for *)
(* the differing referents among the old links; this delays finalization   *)
(* exactly when some referent is not among the old links.                  *)
DelayExact ==
    checking.object # Null =>
        LET visited == Visited(items[checking.object])
        IN  ValidateResult(visited, checking.old)
               <=> ~(Range(visited) \subseteq Range(checking.old))

(* The comparison repairs the links of a list, as many as there are, if    *)
(* they were not changed between the moment Java read them and the         *)
(* comparison.                                                             *)
ValidationRepairs ==
    [][\A o \in Lists :
          (/\ o = checking.object
           /\ checking' = NotChecking
           /\ Explored(o)
           /\ checking.old = links[o]) =>
              \/ LinksMatch(o)'
              \/ /\ Len(checking.old) < Len(Visited(items[o]))
                 /\ links'[o] = SubSeq(Visited(items[o]), 1, Len(checking.old))]_headLinkVars

(* The program implements the promise: what is tracked has been explored   *)
(* when a call returns to Java; an object that is being converted counts   *)
(* as tracked when it is explored, or when the conversion ends.            *)
Promise == INSTANCE TrackedObjects WITH
    tracked <- {o \in Objects : Tracked(o) /\ (o \in converting => Explored(o))},
    explored <- {o \in Objects : Explored(o)},
    busy <- phase # "out"

ImplementsPromise == Promise!TrackedSpec
=============================================================================
