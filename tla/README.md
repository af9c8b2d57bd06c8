# JyNI in TLA+

JyNI lets Jython load native CPython 2.7 extensions. It keeps two object worlds
consistent: Java objects under the JVM's tracing collector and native
`PyObject`s under reference counting. This directory models the parts of JyNI
in which that is decided, checks the models with TLC on small instances and
proves their central facts with TLAPS for every instance.

## 1. Inventory

Paths are relative to `src/`; J stands for `JyNI-Java/src/JyNI`, C for
`JyNI-C/src`.

| Component | State it keeps | Operations | What makes it correct |
|---|---|---|---|
| CStub finalization protocol (`J/JyNI.java` 1226-1408, `J/gc/JyWeakReferenceGC.java`, `J/gc/CStub*GCHead.java`, `J/gc/JyNIFinalizeTriggerFactory.java`) | the report (`confirmedDeletions`, `resurrections`), the counter `confirmationsUnconsumed`, the wait set of the monitor `CStubGCHead.class`, `refQueue`, `refList`, `alreadyExplored` | reaper: collect a batch, `gcDeletionReport`, `waitForCStubs`; finalizer: `consumeConfirmation`, resurrect; trigger: `waitForCStubs` | the counter is exact, each verdict is carried out once, nobody waits for ever |
| Native clearing (`C/Modules/gcmodule.c` 2146-2465) | reference counts, the GIL, `graphResult` | `checkReferenceGraph`, `JyGC_clearNativeReferences`, `JyGC_restoreCStubBackend` | an object is given up only if no reference from outside the batch keeps it; no freed object is restored |
| Exploration stack (`C/Modules/gcmodule.c` 92-224, 2664-2743) | blocks of a stack of tracked, unexplored objects | track, untrack, pop, remove | it holds what was tracked and not untracked, each once |
| GC head links (`J/gc/DefaultTraversableGCHead.java`, `C/Modules/gcmodule.c` 1842-2042, 2481-2562) | per head: one link, an array or a list of links | `setLink`, `insertLink`, `clearLink`, `clearLinksFromIndex`, validate | the links of a head are the native referents of its object |
| Attributes of native objects (`C/JyAttributes.c`) | a linked list per object | add, get, set, clear | a list is a map from names to values |
| Reference-holding map (`J/PyNativeRefHoldingStringMap.java`) | a map of native values and their reference counts | all map operations | one native reference per occurrence of a value |
| Weak references (`J/JyNIGlobalRef.java`, `J/JyNIGlobalRefFactory.java`) | native handle, Java weak reference, clones | create, `get`, `notifyBackendClear` | cleared if and only if the referent is gone in both worlds |
| Locks, GIL, thread states (`J/JyLock.java`, `J/JyTState.java`, `C/JyTState.c`, `C/Python/thread_JyNI.c`, `C/Python/ceval.c`, `C/Python/pystate.c`) | lock flag and wait set, current thread state, life count of a thread state | acquire, release, `ENTER_JyNI`, `LEAVE_JyNI`, `PyGILState_*` | mutual exclusion, no use of a freed thread state |
| Reference monitor (`J/JyReferenceMonitor.java`, `C/JyRefMonitor.c`) | a log per native object | log actions, list leaks | an object is listed as leaked if and only if it lives |
| Dictionary and set iteration (`J/JyNI.java` 630-713) | one cached iterator for dictionaries, one for sets | `getPyDictionary_Next`, `getPySet_Next` | each entry is returned once |
| Importer (`J/JyNIImporter.java`) | path list, table of modules | `find_module`, `load_module` | a module is initialized once |
| Content synchronization (`C/JySync.c`, `J/JyList.java`, `J/JySet.java`) | the native list behind a `JyList`; otherwise none of its own | copy a value to the other world, delegate one change of a list | equal values; the links follow the items |
| Conversion and JNI entry points (`C/JyNI.c`, `J/PyCPeer*.java`) | handle table | delegate one call | one peer per object |
| Sort of native lists (`C/Objects/listobject.c` 1033-2289) | the list, made to look empty, its slice, pending runs, temporary array | `sort` | stable, and a permutation also after an exception |
| Method resolution order (`C/Objects/typeobject.c` 1477-1863, 4356-4575) | per type its bases and `tp_mro`; the lists to merge and how far each is | `PyType_Ready`, `mro()` | an order keeps those of all ancestors; refused only if there is none |
| Other CPython sources (`C/Objects`, `C/Python`), `_tkinter`, ctypes, Tkinter, demos | | | not JyNI's own logic |

Interaction. A Java collection clears weak references to heads (`JyGCHead`);
the reaper thread reads them from a `ReferenceQueue` and calls native code
under the GIL; native code checks the reference graph and calls back into Java
with a report; finalizers, on JVM threads that hold no lock, take their verdict
from the report and, for a resurrection, call native code without the GIL.

## 2. Hard behaviour

Every hazard is listed with its line in `PROJECT.json`. They are the
interleavings of reaper and finalizers in one monitor with single `notify`
calls, a batch that depends on a sleep of 500 ms, collections that overlap, a
trigger that waits on the finalizer thread, the window between the last
confirmation and the restoration of the object, and shared state that is
cleared by the last thread confirmed and not by the last to use it. On the native
side: links that must follow every change of an object, a stack whose objects may
be untracked before they are explored, counterparts of which either may die and
come back first, one cached iterator for all loops, and references counted by
whoever happens to insert or remove a value.

## 3. Plan

Done, in this order: `CStubMonitor` with `CStubVerdict`, `ReferenceGraph`,
`NativeClear`, `InterpreterLock`; `ExplorationStack` and `GCHeadLinks` with
`TrackedObjects`; `Counterparts` with `PairedObjects` (conversions, peers and weak
references across the boundary); `DictIteration`, `HeldReferences`,
`AttributeList`; `ListSort`; `MethodResolution`. Theorems exist for all of them.

What is left, most useful first:

1. `Counterparts` joined with the heads of `GCHeadLinks` and with `NativeClear`:
   conversion of objects that have a head, and resurrection seen from both sides.
2. `JyNIGlobalRef.get` together with Jython's `GlobalRef`, once its rules are
   stated in this repository.
3. A proof of `NoneUncounted`, which holds without `ChunksComplete` and so needs
   an invariant of its own beside `IInv`.
4. Functions and classes with empty slots, whose links are explored densely and
   updated at fixed positions (observation r).
5. Further CPython algorithms that JyNI carries, as functions compared with a
   definition: long integers.

Runs stay few: components that share no state are checked in one run, each by
itself (`part` in `MCDictionaries` and `MCLists`), and an observation that one
changed constant shows is described in section 6 instead of having its own run.

## 4. Modules

Each passing property has one mutant of a definition: a plausible slip in that
code that the run then catches. Mutants stand before the definition they change
and are marked `Mutant:`.

### CStubMonitor and CStubVerdict

| Model | Code |
|---|---|
| `state`, `gen` of a handle | life of a native object's Java head; each resurrection makes a new head |
| `pending`, `refQueue` | references cleared by the collector, not yet enqueued and enqueued |
| `refList` | `JyWeakReferenceGC.refList`: the newest weak reference of a handle |
| `confirmedDeletions`, `resurrections`, `confirmationsUnconsumed` | the report, `JyNI.java` 1226-1240 |
| `waiting` | wait set of the monitor `CStubGCHead.class` |
| `alreadyExplored` | the memory of the walk over reachable objects, `JyNI.java` 1337-1457 |
| `pc`, `job` of a thread | where the reaper and each finalizer thread are |
| `CollectBatch` | `GCReaperThread.run`: remove, sleep 500 ms, poll, unregister |
| `CheckGraph`, `Report`, `AwaitCStubs`, `ClearReferences` | one call of `JyGC_clearNativeReferences` |
| `FinalizeHead`, `Consume...`, `Restore` | `CStubGCHead.finalize`, `consumeConfirmation` |
| `FinalizeTrigger`, `PerformFinalization` | `JyNIFinalizeTrigger.performFinalization` |

`wait`, `notify` and the choice of the thread that a `notify` wakes are modelled:
a thread that is woken tests its condition again, another may have entered the
monitor first. Which CStubs native code keeps is left open here (`CheckGraph`
takes any subset); `ReferenceGraph` decides it.

`ChunksComplete` says that the sleep of 500 ms outlasts the JVM's reference
handler, so that a batch is a whole collection. `CyclesOverlap` says that the
JVM may collect again before the reaper and the finalizers are through. The code
does not guarantee complete batches, nor prevent overlaps; both are constants, so
that what depends on them can be told apart from what does not.

`CStubVerdict` is the promise: each collection is decided at once for all its
CStubs, the decision is carried out for each of them, and the next comes
after that. A CStub's `status` is mapped from its head's life and the report
(`Status`).

### ReferenceGraph

`checkReferenceGraph` (`gcmodule.c` 2146-2316) over any heap: `refs` gives what
each GC member of the pool refers to, `outside` the references that no member
holds, `weak` those of them that belong to weak references. `Subtract` is
`tp_traverse` with `visit_refCheckDec` for one member; `Judge` the loop that
looks for an unexplained count; `Traverse` and `NextRound` the search that
counts references from what is kept. The array of counters is `result`, the
stack `todo`. The head's own reference is the count's baseline of one. A weak
reference counts as a reference from outside once a search has started
(`result > 1`), but does not start it (`Unexplained`). Objects in an eternal
cache have one reference fewer to explain.

The definition it is compared with is `Reachable`: the least set that holds what
outside references reach, written as an intersection of closed sets.

### NativeClear

Extends `ReferenceGraph` to the whole of `JyGC_clearNativeReferences`: after the
check comes the report, `waitForCStubs` (with the GIL released) if something is
resurrected, and the loop that calls `tp_clear` and gives up each head's
reference (`Turn`). `Dealloc` cascades when a count falls to zero. Finalizers run
`Consume` and `Restore` (`JyGC_restoreCStubBackend`) without the GIL. With
`OthersRun`, native threads drop, take and store references while the GIL is
free (`Drop`, `Take`, `Store`). With `AtomicIncref = FALSE`, the finalizer's
`Py_INCREF` and the reaper's `Py_DECREF` are a load and a store each, as the
compiler makes them. `ThreadsSpec` (in `MCNativeClear`) starts with one CStub and
types that all have `tp_clear`, to keep the state space small. `Breakable` restricts heaps to those in which each cycle
passes through a type with `tp_clear`, as CPython's types do.

### InterpreterLock

The GIL is a `JyLock` (`locked`, `waiting`: the monitor's wait set, `notifyAll`,
interrupts) and `_PyThreadState_Current` (`current`). `frames` is, for each
thread, the stack of calls that matter to the lock:

| Frame | Between |
|---|---|
| `enter`, `reenter` | `ENTER_JyNI`/`RE_ENTER_JyNI` and their `LEAVE` |
| `ensured`, `nested` | `PyGILState_Ensure` (not current, current) and `PyGILState_Release` |
| `allow`, `block` | `Py_BEGIN/END_ALLOW_THREADS`, `Py_BLOCK/UNBLOCK_THREADS` |
| `callback`, `delegate` | a call into Java with the GIL released, with it held |
| `clear` | `clearPyCPeer`, which takes the lock without a thread state |

`want` is the call a thread makes when it is inside `acquire`. `life` and
`counter` are those of its thread state (`JyNI_gilstate_counter`). Threads of the
JVM have finalizers for theirs (`ThreadEnds`). Native threads enter by
`PyGILState_Ensure` only. Java code that `PyObject_Call` runs with the GIL held
(`delegate`) may call any JyNI method, one with `ENTER_JyNI` included, and then
waits for itself. `DeallocYields` says whether a destructor of some native type
releases the GIL, which `JyNI.c` 107 denies.

Left out: locks that extensions allocate for themselves, `acquire` without
waiting, the exploration and the pending exception in `LEAVE_JyNI`, the
recursion depth.

### ExplorationStack, GCHeadLinks and TrackedObjects

`ExplorationStack` is the stack of `gcmodule.c` 92-224: `base` is the static
block, `overflow` the allocated ones, newest first. The position of an allocated
block is used before it is set, and a block that a removal has emptied stays in
the list; both are steps to `wild`, after which nothing is claimed.

| GCHeadLinks | Code |
|---|---|
| `gcrefs` | `gc.gc_refs`: untracked, tracked, unexplored, explored, or no object |
| `items` | the slots of a list, of an object with `ArraySize` referents, all in use (a tuple, a bound method), or with one (a cell) |
| `heads`, `links` | the objects that have a `JyGCHead`, and its links |
| `phase` | out of native code, in a call, exploring at its end |
| `Track`, `Dealloc`, `ExploreNext`, `ReturnToJava` | `PyObject_GC_Track`, `PyObject_GC_UnTrack` in a destructor, `JyNI_GC_Explore` at the end of a call, also of one that returns while another goes on |
| `BeginConversion`, `Fill`, `EndConversion` | a Java object is converted: `PyList_New` and its like track it empty and push it, macros fill it while its items are converted, it is explored on the spot |
| `SetItem`, `Insert`, `Replace`, `App1`, `Shrink`, `SetCell` | `updateJyGCHeadLink`, `insertJyGCHeadLink`, `updateJyGCHeadLinks` under the functions of `listobject.c`, of `JyList.c` and of cells |
| `Fill`, `MacroSet` | `PyList_SET_ITEM`, `PyTuple_SET_ITEM`: no link is updated |
| `ReadOldLinks`, `ValidateGCHead` | `preProcessCStubGCCycle` and `JyGC_validateGCHead` |

A list may become longer than its links in any way the code has, native append
and slice assignment included, and calls overlap: a call that returns explores
what another one has tracked and not filled yet. `behind` is a ghost that says
what the links of an explored object missed in these ways: nothing, a change
without an update (a macro, a cell's setter, filling after the exploration),
or the end of a sequence that had fewer links.
`TrackedObjects` is the promise of tracking: when a call returns to
Java, no tracked object is unexplored, except one that is still being converted.

### Counterparts and PairedObjects

Conversion between the heaps for objects without GC support. A native object has
a count (`refcnt`), native owners (`owned`), a weak JNI reference (`jy`) and two
flags; a Java object a `handle`. `Mirrors` are converted by value both ways
(`JyNI_JythonPyObject_FromPyObject`, `JyNI_PyObject_FromJythonPyObject`), `Peers`
are wrapped by a `PyCPeer` with a finalizer (`clearPyCPeer`). Collections clear
Java's weak references, make finalizers due, and may hit a peer that is revived
from the weak JNI reference before its finalizer runs. `watch` and `releases` are
the `JyNIGlobalRef` of a Java object and the notifications still to be handled.
`wild` is the use of a deleted weak JNI reference or of freed memory.
`PairedObjects` is the promise: counterparts part only by the death of one.

### DictIteration

`PyDict_Next` on Jython dictionaries: one cached iterator (`dictIterator`,
`lastDict`, `lastDictIndex`) serves all loops, which interleave in any way.
`NextEntry` and `NextNone` are `getPyDictionary_Next` with its caller in
`dictobject.c`, `Resume` is the decision to take the cached iterator up again.
`stored` and `seen` tell what was stored for the loop from what its body saw.
`Mutate` changes a dictionary in any way between two loops, an empty one too.

### HeldReferences

`PyNativeRefHoldingStringMap`: `table` is the concurrent map, `held` the native
references taken and not given back. An operation is split where other threads
can come in: its access to the table and each `incref` or `decref` are steps.
Clearing returns the references name by name and then empties the table name by
name. All uses of the map are in the model, by any threads on any names. Some of
them take or leave a reference that they should not: `setdefault`, the entry set,
an iterator whose entry is out of date, two threads at one name (`Overlap`), and a
value that gets its native side while it is in the map. `miscounted` records
which values such a use concerned; what `held` says of them is not followed
further, until the value gets a new native side while no name leads to it. One
`incref` or `decref` with its lookup of the handle is one step, and so is one access to
the table.

### AttributeList

`JyAttributes.c` with its users in `moduleobject.c` and `JyNI.c`: texts that an
attribute owns (`PyModule_GetName`, `PyModule_GetFilename`) and the count of weak
references. Conversion and deallocation clear the list; `memory` is what malloc
gave out.

### ListSort

`listsort` of `listobject.c` with both merges, galloping, `binarysort` and
the stack of runs. A step goes as far as the code does without moving items a
second time; `merge` is the merge under way, `mode` says whether it goes item by
item or gallops, and in which half of a round it is. Searches are functions,
translated with their offsets and bisection. If the comparison is not `ordered`,
every search may return anything: such comparisons exist, and the code must not
lose an item then. A run on the stack is its base and its length, as in `s_slice`; a
search is given the set of positions that come before the key. Before each comparison user code may raise (`Raise`) or change
the list, which is made to look empty (`Touch`). Key functions (decorating the
items) and the update of head links at the end are left out.

### MethodResolution

How `PyType_Ready` and `mro()` make the order of a type's ancestors (C3).

| Model | Code |
|---|---|
| `tp_mro` | `type->tp_mro`, `<< >>` for `NULL` |
| `acc`, `to_merge`, `remain` | the variables of `pmerge`; `acc[1]` is the type the order is made for |
| `failed` | a `TypeError` was raised, the call is about to return -1 |
| `mro_implementation` | the call up to `pmerge`: the lists are copied, duplicates refused |
| `Take`, `Disagree` | one round of `pmerge`; the round that finds no candidate |
| `Merged`, `Fail` | `mro_internal` keeps the order, or the call only returns it or refuses it; the error path |

The bases are fixed (`type_set_bases` is disabled in JyNI), `Hierarchies` are all
they may be. Old-style classes have no order of their own: `classic_mro` walks
their bases depth first. A base that has no order yet makes the call fail before
anything changed, which is no step. `PyType_Ready` makes the first base ready
itself, which is a call of its own before the one of the type. The check of
layouts in `mro_internal` is any choice (`Merged` need not keep the order). A
metatype with an `mro()` of its own, which may return anything, is left out.

## 5. Runs

| Run | Instance | What it shows |
|---|---|---|
| `monitor_live` | 2 CStubs, 1 other object, 1 finalizer thread, 3 collections | with complete batches, reports are consumed, heads settle, the exploration memory is forgotten between collections |
| `monitor_threads` | the same objects, 1 trigger, 2 finalizer threads, 2 collections | exact counter, nothing resurrected is lost, nothing confirmed returns, `refList` is current, `CStubVerdict` is implemented |
| `monitor_batches` | 2 CStubs, 1 other object, 1 trigger, 2 finalizer threads, split batches, 2 collections | every reported head whose finalizer has not asked is counted; references are given up only with none outstanding |
| `monitor_split_hang` | split batch, 1 collection | violation: a report that nobody consumes |
| `native_clear` | every heap of 3 objects with 2 fields, one eternal, no other thread | verdict and survivors are those of reachability, the search advances, exact counts, no use after free, garbage freed, survivors have heads |
| `native_threads` | every heap of 3 objects, other threads, non-atomic counts | what will be cleared stays out of reach of other threads |
| `native_freed` | 2 objects, other threads | violation: a resurrected CStub deallocated before its finalizer restores it |
| `interpreter_lock` | 2 Java threads, 1 native, calls nested 4 deep | exclusion, no fatal error, no lost wake-up, exact counts; a thread waits for itself only in a method with `ENTER_JyNI` below Java code that was called with the GIL held |
| `lists` | links: a list, an array and an object with one referent, blocks of one object; sorting: see below | the stack is exact, links follow as far as `behind` says, the comparison answers exactly and repairs, `TrackedObjects` is implemented; sorts are stable and lose nothing, pending runs become shorter from the bottom of the stack to its top |
| `counterparts` | 1 mirrored and 1 peer-wrapped object, 3 Java objects | counts exact, weak counts never too high, handles and weak references agree, `PairedObjects` is implemented |
| `dictionaries` | 2 loops, 2 dictionaries of up to 3 keys; a map with 2 names, 2 values, 2 threads, 1 iterator; a module with 2 texts; 720 hierarchies of 6 types and 2 old-style classes | loops are given their entries in order, and their bodies run for all but the last; one reference per name of a value that no use miscounted; one owner per copied text; orders of types keep those of all ancestors and are refused only if there is none |
| `map_setdefault` | the same | violation: `setdefault` puts its default into the map without taking a reference |

Why the bounds suffice. Three handles give a report with a deletion and a
resurrection together with a head that has no finalizer; two collections let a
resurrected head be collected again, a third lets what the second left behind
matter; two finalizer threads give every race inside one monitor, whose code
does not tell threads apart. Three objects give a survivor, an object reachable
only through it, and garbage. Every action of the lock can be taken at depth 4
(`enter`, `allow`, `callback`, `enter` is a full turn).

`lists`: with `BlockSize = 1` every second push needs a block, and two blocks
(`MaxBlocks`) give a removal from a lower one; a list of two items (`MaxItems`)
has a first, a last and a middle place to insert at; an array is
empty or filled. All three objects take part with the cell as the only item of
the list and without the comparison, the list and the cell with any items and
with it (`WithinBound`). The links of a list grow with insertions and are bounded by
`MaxLinks`. What an object may hold is acyclic (`HoldsDef`): a cycle makes no
difference to the links of its members, whose exploration looks at one object at
a time. The sort takes all lists of six keys with three values, all of ten
keys with two, and three longer ones with many runs; with `RunLimit = 3` (64 in the
code) and `MIN_GALLOP = 2` (7) these have up to six runs, merges in both
directions, and galloping that is entered, continued and left. Arbitrary
comparisons are checked with 2 and 6 items.

`counterparts`: a Java object can be collected while its successor exists and a
third one is not yet made; `MaxOwned = 2` bounds native references to an object
and notifications pending for it. `dictionaries`: three entries are a first, a
middle and a last, and dictionaries change by one key at a time, which makes up
every other change (`KeyByKey`); two names and two threads give a value under
one name, under two, and a name that both threads use; states in which every
value was miscounted, of which the properties say nothing, are not continued
(`SomeFollowed`, the only state constraint of the project), and states that
differ only in what ended loops were given are one (`PartsView`); `MaxCount = 2`
bounds the weak references counted. Three types built over `object`, two classes
below it and an old-style class with a base (`AllHierarchies`) give duplicates,
bases in either order, disagreements of one and of two levels, and diamonds.
Components of one run that share no state take steps each by itself (`part`),
the others rest in one initial state. The theorems below hold for any instance.

Deadlock is checked for `interpreter_lock` and `dictionaries`, where it says
little: in the first a thread that waits can always be interrupted, so that it is
`OnlyDelegatesDeadlock` and `NoLostWakeup` that tell who is stuck. In the other
models the system may stop: nothing obliges the JVM to collect, the check of a
graph and a sort end, and after a step to `wild` nothing is claimed.

Fairness (`FairSpec` of `CStubMonitor`) is weak fairness of the reference
handler (`EnqueueStep`), of the reaper and of each finalizer thread: threads
that the JVM schedules. A thread in the wait set is not fair to itself: it moves
only once it is notified. Collections and triggers are under no fairness.
`monitor_live` has one finalizer thread, as the JVM has by default: with two,
the single `notify` of `consumeConfirmation` may wake the wrong thread (observation e).

## 6. What the models show beyond the passing runs

Findings, each a run: the split batch, the deallocation before restoration, the
default that `setdefault` inserts without a reference (see `PROJECT.json` for the lines and quotations).

Observations, made by changing a constant or noted while reading. Of the
finalization protocol and native clearing:

- (a) `checkReferenceGraph` returns the opposite of its comment
  (`gcmodule.c` 2175): 1 if the graph is *valid*. Its caller expects that.
- (b) 2185 says that a counter of 0 means that all references are explained; the code's
  baseline is 1, the head's reference.
- (c) The finalizer's `Py_INCREF` (2452) holds no GIL and can race with the
  reaper's `Py_DECREF` (2430): with `AtomicIncref = FALSE`, `RefcountExact`
  fails by a lost update.
- (d) `waitForCStubs` returns when the last confirmation is consumed, which is
  before the last finalizer has restored its object (`JyNI.java` 1295-1297).
- (e) With two finalizer threads, `notify` (not `notifyAll`) can wake a thread
  whose condition is false and strand the other: `HeadsSettle` and
  `FinalizersCatchUp` fail in `monitor_live` with `Finalizers = {f1, f2}`.
- (f) `JYNI_GC_LAST_CONFIRMATION_FLAG` goes to the last finalizer that is
  *confirmed*, while another may be *processed* later (`JyNI.java` 1416-1418):
  with two finalizer threads `alreadyExplored` may survive the collection and
  `ExplorationForgotten` fails.
- (g) With overlapping collections (`CyclesOverlap = TRUE`) a report can stay
  unconsumed even if batches are complete, and `NoneUncounted` fails: a finalizer
  is served from the report of an earlier collection, whose arrays are not
  cleared (`JyNI.java` 1267), and takes another head's confirmation.
- (h) In a valid graph, an object with only a weak reference from outside keeps
  its count above one while what it refers to is cleared (`gcmodule.c` 2429).
- (i) A trigger finalized on the only finalizer thread waits for finalizers that
  this thread has to run (`JyNIFinalizeTriggerFactory.java` 45). In `monitor_live`
  with `Triggers = {o}`, `Handles = {a, b}`, `MaxCycles = 1`: a report confirms two
  heads, `f1` consumes the first, the JVM finalizes the trigger on `f1` next,
  which waits for the second for ever; `FinalizersCatchUp` fails.

Of locks and thread states:

- (j) A destructor that releases the GIL inside `clearPyCPeer`, which takes the
  lock without a thread state (`JyNI.c` 107-112), is a fatal error:
  `DeallocYields = TRUE` violates `NoFatalError`.
- (k) `PyObject_Call` (`abstract.c` 2612) runs the `__call__` of a Java object
  with the GIL held. If that calls a JyNI method with `ENTER_JyNI`, its thread waits
  for itself: the rule of `funcobject.c` 640-642 is kept there and not here. The
  model has this step; `OnlyDelegatesDeadlock` says that it is the only one.
- (l) A thread attached to the JVM by `PyGILState_Ensure` is never detached: the
  counter starts at one (`JyTState.c` 89) and `PyGILState_Release` detaches at
  zero only. `GilstateCounts` is the reason. `JyNI_natively_attached` is
  overwritten by every nested `PyGILState_Ensure` (`pystate.c` 653).
- (m) `JyTState.fromThreadState` (57-63) uses a `WeakHashMap` without a lock.

Of GC head links and the exploration stack:

- (n) A further block of the stack is used before its position is set
  (`gcmodule.c` 113), and a block emptied by a removal is popped at -1.
- (o) `DefaultTraversableGCHead.setLink` (100) cannot lengthen the links: `ArrayList.set`
  throws beyond the end. Append, extend and slice assignment on an explored list
  (`listobject.c` 306-327, 676-775) go through it, so that their new items have
  no link until an insertion or a new exploration; `JyGC_validateGCHead` does not add
  them either. `LinksFollow` and `ValidationRepairs` say that the end is
  all that is missing.
- (p) A call that returns while another thread fills a tuple explores it empty,
  and a tuple is not explored again (`gcmodule.c` 2687, 2695): it has no
  link until a setter gives it one.
  `LinksFollow` says that it has no wrong one. The same holds of what
  is explored while it is being converted (`JySync.c` 444).
- The static `setLink`, `clearLink` and `clearLinksFromIndex` of
  `DefaultTraversableGCHead` assign their own parameter, so that the link of an object
  with one referent never changes once it was explored, neither through
  `PyCell_Set` nor by the comparison (`SetCell`, `SyncedLinks`).
- (q) Popping the last item of a list leaves its link (`MaxLinks` bounds what
  accumulates so), and `JyGC_validateGCHead` (2539) sizes an array by one traversal
  and fills it by another. A head that was collected and is made again
  (`obtainJyGCHead` 1735 ff.) starts without links.
- (r) Functions and classes with empty slots are explored densely (`gcmodule.c`
  1801-1823), while their setters update links at fixed positions (`funcobject.c`
  41-48, `classobject.c` 59-71): not modelled, arrays have all slots in use.

Of conversion, handles and weak references:

- (s) `clearPyCPeer` reads the header after `Py_DECREF` may have freed it, and
  leaves a deleted weak reference in it (`JyNI.c` 116-117); the `wild` steps.
- (t) `JySync_Init_PyWeakReference_From_JyWeakReference` counts the weak reference
  on the weak reference itself and not on its referent (`JySync.c` 740). A
  native weak reference passed to Java takes no reference (`JySync.c` 717), which
  `JyNIGlobalRef.java` 76-78 leaves to the caller: with `NativelyWatched`
  not empty `ReferencesExact` fails.
- (u) The weak count is an attribute and forgotten on re-conversion
  (`JyNI.c` 2586): `WeakCountBounded` is an inequality for that reason.
- (v) `JyNIGlobalRef.get` (123-135) uses the native handle outside any lock,
  while a notification may release it.
- (w) `PyModule_GetName` returns a copy that the next call or a conversion frees
  (`moduleobject.c` 110-111, 132). `JyNI_ClearJyAttribute` unlinks wrongly, but
  nothing calls it.

Of dictionaries, maps and lists:

- (x) `PyDict_Next` returns 0 with the last entry (`dictobject.c` 1106-1109,
  `JyNI.java` 642, 662), so that the body of the loop its comment shows
  (`dictobject.c` 1052-1059) is not run with it: `SeenButLast` says what such a
  loop sees. A dictionary that was empty when a loop looked at it leaves an
  exhausted iterator at position 0, which the next loop over it takes up: it
  sees nothing, whatever was added since.
- (y) `_PySet_Next` never stores the new position (`setobject.c` 2683).
- (z) Uses of the string map that miscount: `setdefault` (168, the run), removal
  through the entry set or a stale entry of an iterator (413-421, 443), two threads
  at one name, whose look-up and replacement are two steps (91-103), and a
  value that gets its native side while it is in the map (84). A
  reference too many keeps a native object for ever, one too few frees it in use.
- `listsort` returns without `updateJyGCHeadLinks` if a comparison raised or the
  list was modified (2286-2287), and leaves wrappers in the list if allocating one
  fails (2184-2186). `merge_collapse` looks at the topmost three runs only: the
  first invariant of its comment (each run longer than the next two together) fails
  deeper in the stack, for instance with 14, 10, 5 and 4 pending. `PendingGrow`
  is the second one, for the whole stack. With it, k pending runs need at least
  1, 3, 7, 14, 26, 46, 77, 117 and 181 items for k = 1 to 9; that 85 suffice for
  every list that fits into memory (1415) is not checked.
- `JyList.java` (41-47) promises "perfect sync" for a `java.util.List`, but
  `JyList_add` ignores `index` and appends (`JyList.c` 106), and keeps the new
  reference of an item it had to convert; `JyList_remove` (114-121) has no
  `return`; `JyList_set` (85) drops the old item before the new one is stored,
  so that a destructor may still see it in the list. Where an item is placed makes
  no difference to `LinksFollow`, so no run is about this.

## 7. Proofs

All for any values of the constants that satisfy the modules' named assumptions.

`CStubMonitorProofs`. `TypeInv` strengthens `TypeOK` by what a thread's job is
at each `pc`. It is inductive under any schedule, and `ClearAfterConsumption`
follows for any schedule too, split batches and overlapping collections included. With `ChunksComplete` and without `CyclesOverlap`,
`IInv` is inductive: `WorkInv` (a head being consumed has its thread), `DueInv`
(until the report is given, what is unsettled is in the batch; after that, in the
report), `ReportInv` (the two lists are disjoint and name what they should),
`CounterExact` and `RefListCurrent`. `CounterExact` alone is not inductive:
that a finalizer finds its handle in the report needs `DueInv`, and that it is
its own verdict it takes needs the generations.

The refinement, in the same module: `Init` maps to `V!Init` and every step to a
step of `CStubVerdict` or a stutter, under `IInv` and `RestoreInv`; the theorem is
`Spec => V!Spec`. `Report` is the step `Decide`, a collection is `Collect`,
consuming a deletion is `Delete`, the end of `Restore` is `Resurrect`.
`WalkForgotten` adds `OneFinalizer`, and `ExploreInv`: what the walk has explored
is forgotten by a finalizer that is still at work and was the last, or by one
that has yet to ask. Without the assumption it is false (observation f).

`NativeClearProofs`, first about `ReferenceGraph`. `GraphInv`: while references are subtracted, each count
is one plus what is outside plus what the members still to come hold
(`SubtractInv`); in the search, what was seen and traversed leads only to what
was seen, and what was seen is in every closed set (`SearchInv`). Hence the
survivors are exactly `Reachable`, the verdict is exact, every round progresses.

Then about what happens after the verdict, in three layers with growing
assumptions.

- `VerdictInv`, without any: what the check kept in an invalid graph is closed
  (what it refers to, it holds too), and no step of a thread that runs while the
  GIL is released can refer to anything outside a closed set it starts in.
  Hence `VerdictStaysTrue`, even if counts are wrong.
- `CountInv` assumes `AtomicIncref` (observation c is the counterexample
  otherwise): `RefcountExact` together with `FreedInv`, that nothing refers to
  what was deallocated and that it refers to nothing. Neither is inductive
  without the other: that a deallocation leaves nothing dangling needs the
  count, and that the counts of others stay exact needs that it still held its
  references.
- `AloneInv` also assumes that no other native thread runs (`~OthersRun`; the
  run `native_freed` is the counterexample otherwise): what was kept is the
  least closed set and remains intact (`KeptInv`), and what the loop has passed
  and not freed refers to nothing (`ClearedInv`). `NothingUsedIsFreed` follows at
  once: who is about to restore a CStub finds it in a set that outside
  references hold. `LoopLeavesWhatIsNeeded` needs an argument about cycles: if
  something not needed remained, it would be referred to by something else that
  remained, and a least set of such objects would be a cycle of objects without
  `tp_clear` (`NoCycle`), which CPython's types exclude (`Breakable`).

`InterpreterLockProofs`. `Inv`: calls nest only as `Under` allows (one that takes
the GIL never directly inside one that holds it), a thread in `acquire` is where
its call may be made, a thread inside a call has a thread state, the
counts, and `GilExclusive`. The argument is by what a step does to the lock
(takes, gives back, keeps) and to the frames (push, pop, want). `GilExclusive` by
itself is not inductive: that a return uncovers a frame that does or does not
hold the GIL is known only from `Under`. `OnlyDelegates` needs a case for each way
to want the lock: what may be on top of the frames when the call is made excludes
all but a delegate. All theorems but `WakeupsReach` assume `Disciplined`: no
destructor releases the GIL (observation j says what happens otherwise).

`GCHeadLinksProofs`, with the lemmas about `ExplorationStack`. `StackInv` says that no object
is on the stack twice, in whatever block; the lemmas say what a push, a pop and a
removal from the middle of any block do to the content. `HeadInv` adds the types
and `StackSound`. Hence `StackSound`, `DelayExact` and the refinement of
`TrackedObjects` hold for any constants. `LinkInv` says of each object that an
explored one its links match, or are behind in the way that `behind` says: those
of a list agree as far as they go, those of an array are its items or missing.
It is inductive for any schedule of calls, conversions and comparisons, and
gives `LinksFollow` and `ValidationRepairs`.

`CounterpartsProofs`. `CounterInv` is `wild \/ (Sound /\ Exact)`: `HeaderInv` (flags,
weak reference and handle of a native object) and `JavaInv` (handles, finalizers
and weak references of a Java object) are `Sound`; `Exact` is the equation
`Balanced` of references and owners for every object that is not `NativelyWatched`.
Neither half is inductive by itself: that a release does not free an object with
a peer needs the count, and whose reference it is needs the handles.
`HandlesAreSound` assumes that no native weak reference to a peer-wrapped
object is passed to Java, `ReferencesAreExact` and `WeakCountsBounded` that none is
passed at all. The refinement of `PairedObjects` follows step by step.

`DictIterationProofs`. `IterInv`: positions are within the dictionary (`PositionInv`),
what a loop was given is the beginning of its dictionary (`EntriesInOrder`), the
cached iterator is right for every loop that can take it up (`CursorInv`), and the
position 0 remains only after a call that found nothing (`EmptyInv`).
`AllButTheLastSeen` looks at how a loop ends: with the sign of the last entry, or with an
exhausted iterator, which is either at the end of the dictionary or stale.

`NativeModuleProofs`. `HeldExact` speaks of values no operation is at work on;
the invariant says what holds in between, of every value not in `miscounted`: the
references to it are one for each name that leads to it and was not given
back yet, or that took one and has not returned it (`Keeping`), and one for each
name that is about to get it (`Having`). `NameInv` ties each thread's half-finished
call to the table: what it read is still there, unless another call was at the
same name, and then what both handle is miscounted (`SharedInv`). The theorems
assume `HeldFinite`, that names and threads are finitely many, and nothing about
how the map is used: values that such a use concerned do not disturb
the count of others.
`AttributesOwnExactly` needs no strengthening: `OwnedExact` and the types are
inductive.

In the same module, `MethodInv` is the invariant of `MethodResolution`: the orders
made so far are good (`LinearizationsKept`), and while one is made (`Merging`), the
lists are those of its type, `acc` has each class once and nothing that does not
come from them, and an item of a list is counted by `remain` exactly if it is in `acc`,
where the items of each list stand in its order. That nothing goes
astray in a merge needs that no class is above itself, which holds because a
base is ready before its type. Orders compose: what keeps the order of the
bases keeps that of their ancestors, which is how `LinearizationsAreKept`
reaches the whole hierarchy though a merge looks one level up.
`FailuresHaveACycle`: at a refusal every candidate is in the tail of some list, behind
the candidate of that list, so that the candidates are a set in which each comes
after another. `FailuresHaveNoOrder` follows from the least position such a set
would have in an order.

`ListSortProofs`. `SortInv` is inductive for any comparison, also one that
answers at random. `Stages` says what each stage has left to do (the runs found
so far are adjacent and end where the next one begins, of which the first
`sorted` items are sorted), `Content` that nothing was lost: with no merge under
way the slice has the items of `input`; with one, `MergeFits` says that what is left of
both runs and what has its place are together the items of that part of the
list, of which both runs are a part. `NothingLost` by itself is not inductive: that
putting back the temporary array fills exactly the gap follows from where the
merge lies in the list. The searches are recursive functions. What they return
is not proved by an induction theorem of the library, which would need an
operator as parameter, but from the least number of a set (`LeastNumber`): such
a function exists if every round of the loop brings a number down (`LoopExists`),
and its value is good if a round keeps the loop's invariant (`LoopEnds`).

`SortIsStable` has an invariant of its own, `OrderInv`, beside `SortInv`, for a
comparison that orders the keys. It knows two orders of the items: `Prior`, as they
came, and `Before`, as they should go. `Unmixed` says that runs have not mixed:
whatever lies below the end of a run came before whatever lies above, so that
items that compare equal are in `Prior` order wherever they meet. From that,
each search finds where an item `Belongs`: `bisect` and `gallop_right` behind its
equals, `gallop_left` before them (`BisectionFinds`, `SearchesFind`), and each is only
asked in the direction in which that is right. `MergeSorted` is the invariant of a
merge: what is left of both runs and what has its place are sorted, and what has
its place goes before (or, in `merge_hi`, behind) the rest; the item that is to be
moved last is known to go last, which is what lets the merge copy it without
comparing. `Crossing` shows that what `merge_at` leaves out at both ends had its
place. TLC checked `OrderInv` on the list run's instance before it was proved.
`PendingRunsGrow` rests on `PendingInv`: below the two topmost runs the stack is in
order at any time, and when `merge_collapse` is done, these two are as well.

Only model-checked: liveness (`FinalizersCatchUp`, `HeadsSettle`), which TLAPS
does not prove, absence of deadlock, which is `ENABLED`, and `NoneUncounted`. Every
other invariant that a passing run checks is a theorem. The other way round, of the type invariants
only `NativeTypeOK` is also checked by a run; the others are proved.

## 8. Not modelled

The components with status `not_modelled` or `partly` in `PROJECT.json` say what is left
out and why. By size the repository is CPython 2.7: `C/Objects`, `C/Python`,
`_tkinter` and ctypes are most of its lines, adapted in their allocation and
conversion and not in their logic, and the JNI entry points delegate one call at
a time. The models cover JyNI's own logic, which is a small share of the lines,
and of the CPython sources the code that JyNI's rules run through (the GIL,
thread states, the collector) or that is hardest to get right (the sort of
lists, the method resolution order).

Memory visibility between Java threads outside monitors, JNI failures and
allocation failures are not modelled. The Java collector is: which objects it
collects, and when, is any choice consistent with reachability through heads.
