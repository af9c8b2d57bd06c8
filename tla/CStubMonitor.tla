---------------------------- MODULE CStubMonitor ----------------------------
(***************************************************************************)
(* The confirmation protocol between the thread JyNI-GCRefReaper and the   *)
(* finalizers of CStub heads, both inside the Java monitor                 *)
(* CStubGCHead.class (JyNI.java 1226-1335).                                *)
(*                                                                         *)
(* A Java garbage collection clears the weak references to a set of        *)
(* JyGCHeads and makes the heads of CStubs finalizable.  The reaper reads  *)
(* the cleared references from refQueue, lets native code decide which     *)
(* CStubs may be deleted and which must be resurrected, and publishes that *)
(* verdict with gcDeletionReport.  The finalizer of each CStub head asks   *)
(* for its verdict with consumeConfirmation.  If something is resurrected, *)
(* the reaper waits in waitForCStubs before it gives up its references.    *)
(*                                                                         *)
(* A head is a pair <<handle, generation>>: resurrecting a CStub makes a   *)
(* new head for the same native handle.  The code compares handles only;   *)
(* the generation keeps two references to one handle apart.                *)
(***************************************************************************)
EXTENDS Naturals, FiniteSets

CONSTANTS
    Handles,         \* native objects that have a JyGCHead
    CStubs,          \* those that are PyObject_IS_TRUNCATED: head has a finalizer
    Triggers,        \* Python objects with a JyNIFinalizeTrigger
    Finalizers,      \* threads on which the JVM runs finalizers
    Reaper,          \* the thread JyNI-GCRefReaper
    MaxCycles,       \* bound on the number of Java garbage collections
    ChunksComplete,  \* does the reaper's sleep outlast the reference handler?
    CyclesOverlap    \* may a collection start before the last one is settled?

ASSUME CStubMonitorAssumption ==
    /\ IsFiniteSet(Handles)
    /\ CStubs \subseteq Handles
    /\ Handles \cap Triggers = {}
    /\ Reaper \notin Finalizers
    /\ MaxCycles \in Nat
    /\ ChunksComplete \in BOOLEAN
    /\ CyclesOverlap \in BOOLEAN

Threads == Finalizers \cup {Reaper}
Generations == 1 .. MaxCycles + 1
Heads == Handles \X Generations

VARIABLES
    \* the JVM
    cycles,                  \* garbage collections so far
    state,                   \* what became of the newest head of each handle
    gen,                     \* the generation of that head
    trigger,                 \* what became of each finalize trigger
    pending,                 \* references cleared, not yet in refQueue
    \* JyWeakReferenceGC
    refQueue,
    refList,                 \* handle -> generation registered, 0 if none
    \* fields of JyNI guarded by the monitor CStubGCHead.class
    confirmedDeletions, resurrections, confirmationsUnconsumed,
    waiting,                 \* threads inside CStubGCHead.class.wait()
    \* control and locals of the threads
    pc, job,
    clearRefs,               \* the reaper's batch
    resurrect,               \* the part of it native code wants back
    last,                    \* finalizers told JYNI_GC_LAST_CONFIRMATION_FLAG
    alreadyExplored          \* visitRestoreCStubReachables.alreadyExplored

jvm == <<cycles, trigger, pending>>
report == <<confirmedDeletions, resurrections, confirmationsUnconsumed>>
batch == <<clearRefs, resurrect>>
exploration == <<last, alreadyExplored>>
vars == <<cycles, state, gen, trigger, pending, refQueue, refList,
          confirmedDeletions, resurrections, confirmationsUnconsumed,
          waiting, pc, job, clearRefs, resurrect, last, alreadyExplored>>

-----------------------------------------------------------------------------

NoJob == "no job"

TypeOK ==
    /\ cycles \in 0 .. MaxCycles
    /\ state \in [Handles ->
          {"live", "finalizable", "consuming", "restoring", "gone"}]
    /\ gen \in [Handles -> Generations]
    /\ trigger \in [Triggers -> {"live", "finalizable", "gone"}]
    /\ pending \subseteq Heads
    /\ refQueue \subseteq Heads
    /\ refList \in [Handles -> Generations \cup {0}]
    /\ confirmedDeletions \subseteq Heads
    /\ resurrections \subseteq Heads
    /\ confirmationsUnconsumed \in Nat
    /\ waiting \subseteq Threads
    /\ pc \in [Threads -> {"remove", "check", "report", "await", "clear",
                           "idle", "consume", "restore", "trigger"}]
    /\ job \in [Finalizers -> Handles \cup Triggers \cup {NoJob}]
    /\ clearRefs \subseteq Heads
    /\ resurrect \subseteq clearRefs
    /\ last \subseteq Finalizers
    /\ alreadyExplored \subseteq Handles

\* Every native object starts with a head that is registered in refList.
Init ==
    /\ cycles = 0
    /\ state = [h \in Handles |-> "live"]
    /\ gen = [h \in Handles |-> 1]
    /\ trigger = [o \in Triggers |-> "live"]
    /\ pending = {}
    /\ refQueue = {}
    /\ refList = [h \in Handles |-> 1]
    /\ confirmedDeletions = {}
    /\ resurrections = {}
    /\ confirmationsUnconsumed = 0
    /\ waiting = {}
    /\ pc = [t \in Threads |-> IF t = Reaper THEN "remove" ELSE "idle"]
    /\ job = [f \in Finalizers |-> NoJob]
    /\ clearRefs = {}
    /\ resurrect = {}
    /\ last = {}
    /\ alreadyExplored = {}

-----------------------------------------------------------------------------
(* The monitor.  Object.notify removes one waiter, chosen by the JVM, from *)
(* the wait set; the waiter then re-evaluates the condition of its loop.   *)

Wait(t) == waiting' = waiting \cup {t}

\* The condition on which gcDeletionReport and waitForCStubs wait.
Outstanding == confirmationsUnconsumed > 0

\* consumeConfirmation waits while this is false.
Answers == confirmationsUnconsumed # 0

\* Mutant: the notify call is missing.
NotifyNobody(n) == UNCHANGED waiting

NotifyN(n) ==
    IF Cardinality(waiting) <= n
    THEN waiting' = {}
    ELSE \E woken \in SUBSET waiting :
            Cardinality(woken) = n /\ waiting' = waiting \ woken

-----------------------------------------------------------------------------
(* The JVM: a collection clears the references to unreachable heads and    *)
(* makes CStub heads and triggers finalizable; the reference handler       *)
(* thread appends the cleared references to refQueue one at a time.        *)

Quiescent ==
    /\ pending = {} /\ refQueue = {}
    /\ pc = [t \in Threads |-> IF t = Reaper THEN "remove" ELSE "idle"]
    /\ \A h \in Handles : state[h] # "finalizable"
    /\ \A o \in Triggers : trigger[o] # "finalizable"

GarbageCollect(S, T) ==
    /\ cycles < MaxCycles
    /\ CyclesOverlap \/ Quiescent
    /\ S \cup T # {}
    /\ \A h \in S : state[h] = "live"
    /\ \A o \in T : trigger[o] = "live"
    /\ cycles' = cycles + 1
    /\ state' = [h \in Handles |->
                    IF h \notin S THEN state[h]
                    ELSE IF h \in CStubs THEN "finalizable" ELSE "gone"]
    /\ trigger' = [o \in Triggers |->
                      IF o \in T THEN "finalizable" ELSE trigger[o]]
    /\ pending' = pending \cup {<<h, gen[h]>> : h \in S}
    /\ UNCHANGED <<gen, refQueue, refList, report, waiting, pc, job, batch,
                   exploration>>

Enqueue(r) ==
    /\ r \in pending
    /\ pending' = pending \ {r}
    /\ refQueue' = refQueue \cup {r}
    /\ UNCHANGED <<cycles, state, gen, trigger, refList, report, waiting,
                   pc, job, batch, exploration>>

-----------------------------------------------------------------------------
(* The reaper.                                                             *)

\* Mutant: nobody clears the set.
postProcessNothing == UNCHANGED alreadyExplored

\* The walk over what is reachable from resurrected CStubs starts afresh.
postProcessCStubGCCycle == alreadyExplored' = {}

\* GCReaperThread.run: take one reference, sleep 500 ms, poll what else has
\* arrived, and unregister the heads.
CollectBatch ==
    /\ pc[Reaper] = "remove"
    /\ refQueue # {}
    /\ ChunksComplete => pending = {}
    /\ clearRefs' = refQueue
    /\ refQueue' = {}
    /\ refList' = [h \in Handles |->
          IF \E r \in refQueue : r[1] = h THEN 0 ELSE refList[h]]
    /\ pc' = [pc EXCEPT ![Reaper] = "check"]
    /\ UNCHANGED <<jvm, state, gen, report, waiting, job, resurrect,
                   exploration>>

\* Mutants: every reference, or none, is taken for one to a CStub.
TruncatedAll(refs) == refs
TruncatedNone(refs) == {}

\* Only references to CStubs are reported.
Truncated(refs) == {r \in refs : r[1] \in CStubs}

\* JyGC_clearNativeReferences: checkReferenceGraph picks the CStubs that
\* native code still refers to.  Which ones is left open in this module.
CheckGraph(R) ==
    /\ pc[Reaper] = "check"
    /\ R \subseteq Truncated(clearRefs)
    /\ resurrect' = R
    /\ pc' = [pc EXCEPT ![Reaper] = "report"]
    /\ UNCHANGED <<jvm, state, gen, refQueue, refList, report, waiting,
                   job, clearRefs, exploration>>

\* gcDeletionReport while an earlier report is unconsumed.
ReportWaits ==
    /\ pc[Reaper] = "report" /\ Reaper \notin waiting
    /\ Outstanding
    /\ Wait(Reaper)
    /\ UNCHANGED <<jvm, state, gen, refQueue, refList, report, pc, job, batch,
                   exploration>>

\* The caller of gcDeletionReport waits for the finalizers if and only if
\* something is to be resurrected.
PublishReport ==
    /\ pc[Reaper] = "report" /\ Reaper \notin waiting
    /\ confirmedDeletions' = Truncated(clearRefs) \ resurrect
    /\ resurrections' = resurrect
    /\ confirmationsUnconsumed' =
          Cardinality(confirmedDeletions') + Cardinality(resurrections')
    /\ IF confirmationsUnconsumed' = 0
       THEN postProcessCStubGCCycle /\ UNCHANGED waiting
       ELSE NotifyN(1) /\ UNCHANGED alreadyExplored
    /\ pc' = [pc EXCEPT ![Reaper] =
                 IF resurrect # {} THEN "await" ELSE "clear"]
    /\ UNCHANGED <<jvm, state, gen, refQueue, refList, job, batch, last>>

\* gcDeletionReport.
Report == ~Outstanding /\ PublishReport

AwaitEnds ==
    /\ pc' = [pc EXCEPT ![Reaper] = "clear"]
    /\ UNCHANGED <<jvm, state, gen, refQueue, refList, report, waiting, job,
                   batch, exploration>>

\* Mutant: waitForCStubs does not wait for the last confirmation.
AwaitAllButOne ==
    /\ pc[Reaper] = "await" /\ Reaper \notin waiting
    /\ confirmationsUnconsumed < 2
    /\ AwaitEnds

\* waitForCStubs, called by the reaper.
AwaitCStubs ==
    /\ pc[Reaper] = "await" /\ Reaper \notin waiting
    /\ ~Outstanding
    /\ AwaitEnds

AwaitWaits ==
    /\ pc[Reaper] = "await" /\ Reaper \notin waiting
    /\ Outstanding
    /\ Wait(Reaper)
    /\ UNCHANGED <<jvm, state, gen, refQueue, refList, report, pc, job, batch,
                   exploration>>

\* The loop at the end of JyGC_clearNativeReferences gives up the reference
\* that each collected head held.
ClearReferences ==
    /\ pc[Reaper] = "clear"
    /\ clearRefs' = {}
    /\ resurrect' = {}
    /\ pc' = [pc EXCEPT ![Reaper] = "remove"]
    /\ UNCHANGED <<jvm, state, gen, refQueue, refList, report, waiting, job,
                   exploration>>

-----------------------------------------------------------------------------
(* A finalizer thread.                                                     *)

\* The JVM calls CStubGCHead.finalize or CStubSimpleGCHead.finalize.
FinalizeHead(f, h) ==
    /\ pc[f] = "idle"
    /\ state[h] = "finalizable"
    /\ state' = [state EXCEPT ![h] = "consuming"]
    /\ job' = [job EXCEPT ![f] = h]
    /\ pc' = [pc EXCEPT ![f] = "consume"]
    /\ UNCHANGED <<jvm, gen, refQueue, refList, report, waiting, batch,
                   exploration>>

Named(h, refs) == \E r \in refs : r[1] = h

Asks(f) == pc[f] = "consume" /\ f \notin waiting

\* consumeConfirmation: no report is outstanding.
ConsumeWaits(f) ==
    /\ Asks(f)
    /\ ~Answers
    /\ Wait(f)
    /\ UNCHANGED <<jvm, state, gen, refQueue, refList, report, pc, job, batch,
                   exploration>>

FinishHead(f) ==
    /\ state' = [state EXCEPT ![job[f]] = "gone"]
    /\ job' = [job EXCEPT ![f] = NoJob]
    /\ pc' = [pc EXCEPT ![f] = "idle"]

\* consumeConfirmation: the deletion of the CStub is confirmed.
ConsumeDeletion(f) ==
    /\ Asks(f)
    /\ Answers
    /\ Named(job[f], confirmedDeletions)
    /\ confirmationsUnconsumed' = confirmationsUnconsumed - 1
    /\ NotifyN(1)
    /\ FinishHead(f)
    /\ IF confirmationsUnconsumed' = 0
       THEN postProcessCStubGCCycle
       ELSE UNCHANGED alreadyExplored
    /\ UNCHANGED <<jvm, gen, refQueue, refList, confirmedDeletions,
                   resurrections, batch, last>>

\* notify is called twice on this path.
TakeResurrection(f) ==
    /\ confirmationsUnconsumed' = confirmationsUnconsumed - 1
    /\ NotifyN(2)
    /\ state' = [state EXCEPT ![job[f]] = "restoring"]
    /\ pc' = [pc EXCEPT ![f] = "restore"]
    /\ last' = IF confirmationsUnconsumed' = 0 THEN last \cup {f} ELSE last
    /\ UNCHANGED <<jvm, gen, refQueue, refList, confirmedDeletions,
                   resurrections, job, batch, alreadyExplored>>

\* Mutant: the handle is not searched for in resurrections.
ConsumeAnyResurrection(f) ==
    Asks(f) /\ Answers /\ resurrections # {} /\ TakeResurrection(f)

\* consumeConfirmation: the CStub is to be resurrected.
ConsumeResurrection(f) ==
    /\ Asks(f)
    /\ Answers
    /\ ~Named(job[f], confirmedDeletions) /\ Named(job[f], resurrections)
    /\ TakeResurrection(f)

\* Mutant: the finalizer that gets no verdict is counted.
ConsumeUnreported(f) ==
    /\ Asks(f)
    /\ Answers
    /\ ~Named(job[f], confirmedDeletions) /\ ~Named(job[f], resurrections)
    /\ confirmationsUnconsumed' = confirmationsUnconsumed - 1
    /\ FinishHead(f)
    /\ UNCHANGED <<jvm, gen, refQueue, refList, confirmedDeletions,
                   resurrections, waiting, batch, exploration>>

\* consumeConfirmation returns 0: the outstanding report does not name the
\* handle, and the finalizer ends without a verdict.
ConsumeNothing(f) ==
    /\ Asks(f)
    /\ Answers
    /\ ~Named(job[f], confirmedDeletions) /\ ~Named(job[f], resurrections)
    /\ FinishHead(f)
    /\ UNCHANGED <<jvm, gen, refQueue, refList, report, waiting, batch,
                   exploration>>

\* Mutant: the new head's weak reference is not created.
RegisterNothing(h, g) == UNCHANGED refList

\* The constructor of JyWeakReferenceGC.
Register(h, g) == refList' = [refList EXCEPT ![h] = g]

\* The rest of finalize after JYNI_GC_RESURRECTION_FLAG: a new head for the
\* handle, JyGC_restoreCStubBackend, the new head's weak reference and
\* CStubRestoreAllReachables; postProcessCStubGCCycle if it was the last one.
Restore(f) ==
    /\ pc[f] = "restore"
    /\ state' = [state EXCEPT ![job[f]] = "live"]
    /\ gen' = [gen EXCEPT ![job[f]] = @ + 1]
    /\ Register(job[f], gen[job[f]] + 1)
    /\ IF f \in last
       THEN postProcessCStubGCCycle
       ELSE alreadyExplored' = alreadyExplored \cup {job[f]}
    /\ last' = last \ {f}
    /\ job' = [job EXCEPT ![f] = NoJob]
    /\ pc' = [pc EXCEPT ![f] = "idle"]
    /\ UNCHANGED <<jvm, refQueue, report, waiting, batch>>

\* The JVM finalizes a trigger: performFinalization calls waitForCStubs.
FinalizeTrigger(f, o) ==
    /\ pc[f] = "idle"
    /\ trigger[o] = "finalizable"
    /\ job' = [job EXCEPT ![f] = o]
    /\ pc' = [pc EXCEPT ![f] = "trigger"]
    /\ trigger' = [trigger EXCEPT ![o] = "gone"]
    /\ UNCHANGED <<cycles, pending, state, gen, refQueue, refList, report,
                   waiting, batch, exploration>>

TriggerWaits(f) ==
    /\ pc[f] = "trigger" /\ f \notin waiting
    /\ Outstanding
    /\ Wait(f)
    /\ UNCHANGED <<jvm, state, gen, refQueue, refList, report, pc, job, batch,
                   exploration>>

PerformFinalization(f) ==
    /\ pc[f] = "trigger" /\ f \notin waiting
    /\ ~Outstanding
    /\ pc' = [pc EXCEPT ![f] = "idle"]
    /\ job' = [job EXCEPT ![f] = NoJob]
    /\ UNCHANGED <<jvm, state, gen, refQueue, refList, report, waiting, batch,
                   exploration>>

-----------------------------------------------------------------------------

ReaperStep ==
    \/ CollectBatch
    \/ \E R \in SUBSET clearRefs : CheckGraph(R)
    \/ ReportWaits \/ Report
    \/ AwaitWaits \/ AwaitCStubs
    \/ ClearReferences

FinalizerStep(f) ==
    \/ \E h \in Handles : FinalizeHead(f, h)
    \/ ConsumeWaits(f) \/ ConsumeDeletion(f)
    \/ ConsumeResurrection(f) \/ ConsumeNothing(f)
    \/ Restore(f)
    \/ \E o \in Triggers : FinalizeTrigger(f, o)
    \/ TriggerWaits(f) \/ PerformFinalization(f)

EnqueueStep == \E r \in pending : Enqueue(r)

Next ==
    \/ \E S \in SUBSET Handles, T \in SUBSET Triggers : GarbageCollect(S, T)
    \/ EnqueueStep
    \/ ReaperStep
    \/ \E f \in Finalizers : FinalizerStep(f)

\* The JVM schedules every thread that can run, its reference handler
\* included; nothing obliges it to collect garbage.
Fairness ==
    /\ WF_vars(EnqueueStep)
    /\ WF_vars(ReaperStep)
    /\ \A f \in Finalizers : WF_vars(FinalizerStep(f))

Spec == Init /\ [][Next]_vars
FairSpec == Spec /\ Fairness

-----------------------------------------------------------------------------
(* Properties.                                                             *)

\* The heads of CStubs that wait for their verdict.
Unsettled == {r \in Heads : /\ r[1] \in CStubs
                            /\ r[2] = gen[r[1]]
                            /\ state[r[1]] \in {"finalizable", "consuming"}}

\* The part of the report that no finalizer has taken yet.
Owed == (confirmedDeletions \cup resurrections) \cap Unsettled

\* confirmationsUnconsumed counts exactly the reported heads whose finalizer
\* has yet to ask for its verdict: waitForCStubs returns neither too early
\* nor never, and the flag JYNI_GC_LAST_CONFIRMATION_FLAG goes to the last
\* finalizer (JyNI.java 1269, 1295, 1310).
CounterExact == confirmationsUnconsumed = Cardinality(Owed)

\* Once a CStub is listed in resurrections, its head is not finalized without
\* a successor: no finalizer of a resurrected CStub ends with result 0.
ResurrectedNotLost ==
    \A r \in resurrections : gen[r[1]] = r[2] => state[r[1]] # "gone"

\* A CStub whose deletion is confirmed never gets another head.
ConfirmedStaysDead ==
    \A r \in confirmedDeletions : gen[r[1]] = r[2] /\ state[r[1]] # "live"

\* The verdicts of the last report stand for both: what it resurrects is not
\* lost, and what it confirms as deleted never comes back.
VerdictsStand == ResurrectedNotLost /\ ConfirmedStaysDead

\* The head that JyWeakReferenceGC.lookupJyGCHead finds for a live head's
\* handle is that head: the reaper, which removes entries by handle, never
\* unregisters a successor.
RefListCurrent == \A h \in Handles : state[h] = "live" => refList[h] = gen[h]

\* "We can do that, because we know when the last CStub finalizer is
\* processed" (JyNI.java 1416-1418): between two collections the walk over
\* reachable objects has forgotten the objects of the earlier one, which it
\* would otherwise skip and keep alive.
ExplorationForgotten == Quiescent => alreadyExplored = {}

\* Also when the references of a collection reach the reaper in several
\* batches, and finalizers ask before their batch is reported: every reported
\* head whose finalizer has yet to ask is counted, so waitForCStubs does not
\* return too early, though perhaps never (JyNI.java 1269-1335).
NoneUncounted == Cardinality(Owed) <= confirmationsUnconsumed

\* The reaper gives up the references of a batch with resurrections only when
\* no confirmation is outstanding, whatever batches and collections overlap.
ClearAfterConsumption ==
    pc[Reaper] = "clear" /\ resurrect # {} => confirmationsUnconsumed = 0

\* "release the monitor to let CStub-finalizers catch up" (JyNI.java 1256):
\* a report does not stay unconsumed for ever, so whoever waits for the
\* finalizers, the reaper or a finalize trigger, gets on in the end.
FinalizersCatchUp == confirmationsUnconsumed > 0 ~> confirmationsUnconsumed = 0

\* Every CStub head that a collection made finalizable is settled: its
\* finalizer is not left inside consumeConfirmation.
HeadsSettle ==
    \A h \in CStubs : state[h] # "live" ~> state[h] \in {"live", "gone"}

-----------------------------------------------------------------------------
(* What the protocol is for: the abstract specification CStubVerdict.      *)

Status == [h \in CStubs |->
    CASE state[h] = "live" -> "live"
      [] state[h] = "gone" -> "gone"
      [] state[h] = "restoring" -> "resurrect"
      [] OTHER -> IF <<h, gen[h]>> \in confirmedDeletions THEN "delete"
                  ELSE IF <<h, gen[h]>> \in resurrections THEN "resurrect"
                  ELSE "waiting"]

V == INSTANCE CStubVerdict WITH status <- Status

\* The reaper, the finalizers, the counter and the two lists amount to one
\* atomic decision over all the CStubs of a collection, which is then carried
\* out for each CStub as decided (JyNI.java 1226-1335).
ImplementsVerdict == V!Spec
=============================================================================
