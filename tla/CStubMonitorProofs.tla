------------------------- MODULE CStubMonitorProofs -------------------------
(***************************************************************************)
(* Proofs about CStubMonitor: its type invariant and the safety of reports *)
(* for any set of handles, triggers and finalizer threads; and, when       *)
(* batches are complete and collections do not overlap, that the counter   *)
(* confirmationsUnconsumed is exact, that the protocol implements          *)
(* CStubVerdict, and what one finalizer thread adds to that.               *)
(***************************************************************************)
EXTENDS CStubMonitor, FiniteSetTheorems, TLAPS

\* Finalizer threads and the reaper run different code.
PcInv ==
    /\ pc[Reaper] \in {"remove", "check", "report", "await", "clear"}
    /\ pc[Reaper] \in {"remove", "check"} => resurrect = {}
    /\ \A f \in Finalizers :
          pc[f] \in {"idle", "consume", "restore", "trigger"}

Busy(f) == pc[f] \in {"consume", "restore"}

\* Only heads of CStubs are finalized, and a finalizer at work on a head has
\* that head to itself.
JobInv ==
    /\ \A h \in Handles \ CStubs : state[h] \in {"live", "gone"}
    /\ \A f \in Finalizers :
          /\ pc[f] = "consume" => /\ job[f] \in CStubs
                                  /\ state[job[f]] = "consuming"
          /\ pc[f] = "restore" => /\ job[f] \in CStubs
                                  /\ state[job[f]] = "restoring"
    /\ \A f, g \in Finalizers :
          f # g /\ Busy(f) /\ Busy(g) => job[f] # job[g]

\* Each collection adds at most one generation to a handle.
GenInv ==
    \A h \in Handles : gen[h] <= IF state[h] = "live" THEN cycles + 1 ELSE cycles

TypeInv == TypeOK /\ PcInv /\ JobInv /\ GenInv

-----------------------------------------------------------------------------
(* Type correctness.                                                       *)

LEMMA HeadsFinite == IsFiniteSet(Heads)
  <1>1. IsFiniteSet(Generations)
    BY CStubMonitorAssumption, FS_Interval DEF Generations
  <1>2. QED
    BY <1>1, CStubMonitorAssumption, FS_Product DEF Heads

LEMMA NotifyShrinks ==
    ASSUME NEW n, NotifyN(n)
    PROVE  waiting' \subseteq waiting
  BY DEF NotifyN

LEMMA InitTypeInv == Init => TypeInv
  <1> SUFFICES ASSUME Init PROVE TypeInv
    OBVIOUS
  <1> USE CStubMonitorAssumption DEF Init, Threads, Generations
  <1>1. TypeOK
    <2>1. 1 \in Generations
      OBVIOUS
    <2>2. pc \in [Threads -> {"remove", "idle"}]
      OBVIOUS
    <2>3. state \in [Handles ->
              {"live", "finalizable", "consuming", "restoring", "gone"}]
      OBVIOUS
    <2>4. /\ trigger \in [Triggers -> {"live", "finalizable", "gone"}]
          /\ job \in [Finalizers -> Handles \cup Triggers \cup {NoJob}]
      OBVIOUS
    <2>5. QED
      BY <2>1, <2>2, <2>3, <2>4 DEF TypeOK
  <1>2. PcInv /\ JobInv
    BY DEF PcInv, JobInv, Busy
  <1>3. GenInv
    BY DEF GenInv
  <1>4. QED
    BY <1>1, <1>2, <1>3 DEF TypeInv

LEMMA NextTypeInv == TypeInv /\ [Next]_vars => TypeInv'
  <1> SUFFICES ASSUME TypeInv, [Next]_vars PROVE TypeInv'
    OBVIOUS
  <1> USE CStubMonitorAssumption
      DEF TypeInv, TypeOK, PcInv, JobInv, GenInv, Busy, Threads, Generations,
          jvm, report, batch, exploration
  <1>1. ASSUME NEW S \in SUBSET Handles, NEW T \in SUBSET Triggers,
               GarbageCollect(S, T)
        PROVE  TypeInv'
    <2>1. {<<h, gen[h]>> : h \in S} \subseteq Heads
      BY DEF Heads
    <2>2. TypeOK'
      BY <1>1, <2>1 DEF GarbageCollect
    <2>3. PcInv' /\ JobInv' /\ GenInv'
      BY <1>1 DEF GarbageCollect
    <2>4. QED
      BY <2>2, <2>3
  <1>2. ASSUME NEW r \in pending, Enqueue(r)
        PROVE  TypeInv'
    BY <1>2 DEF Enqueue
  <1>3. ASSUME CollectBatch PROVE TypeInv'
    BY <1>3 DEF CollectBatch
  <1>4. ASSUME NEW R \in SUBSET clearRefs, CheckGraph(R)
        PROVE  TypeInv'
    BY <1>4 DEF CheckGraph, Truncated
  <1>5. ASSUME ReportWaits PROVE TypeInv'
    BY <1>5 DEF ReportWaits, Wait
  <1>6. ASSUME Report PROVE TypeInv'
    <2>1. waiting' \subseteq waiting
      BY <1>6, NotifyShrinks DEF Report, PublishReport
    <2>2. confirmedDeletions' \subseteq Heads /\ resurrections' \subseteq Heads
      BY <1>6 DEF Report, PublishReport, Truncated
    <2>3. confirmationsUnconsumed' \in Nat
      <3>1. IsFiniteSet(confirmedDeletions') /\ IsFiniteSet(resurrections')
        BY <2>2, HeadsFinite, FS_Subset
      <3>2. QED
        BY <1>6, <3>1, FS_CardinalityType DEF Report, PublishReport
    <2>4. QED
      BY <1>6, <2>1, <2>2, <2>3
      DEF Report, PublishReport, postProcessCStubGCCycle
  <1>7. ASSUME AwaitWaits PROVE TypeInv'
    BY <1>7 DEF AwaitWaits, Wait
  <1>8. ASSUME AwaitCStubs PROVE TypeInv'
    BY <1>8 DEF AwaitCStubs, AwaitEnds
  <1>9. ASSUME ClearReferences PROVE TypeInv'
    BY <1>9 DEF ClearReferences
  <1>10. ASSUME NEW f \in Finalizers, NEW h \in Handles, FinalizeHead(f, h)
         PROVE  TypeInv'
    BY <1>10 DEF FinalizeHead
  <1>11. ASSUME NEW f \in Finalizers, ConsumeWaits(f)
         PROVE  TypeInv'
    BY <1>11 DEF ConsumeWaits, Asks, Wait
  <1>12. ASSUME NEW f \in Finalizers, ConsumeDeletion(f)
         PROVE  TypeInv'
    <2>1. waiting' \subseteq waiting
      BY <1>12, NotifyShrinks DEF ConsumeDeletion
    <2>2. confirmationsUnconsumed' \in Nat
      BY <1>12 DEF ConsumeDeletion, Answers
    <2>5. alreadyExplored' \subseteq Handles
      BY <1>12 DEF ConsumeDeletion, postProcessCStubGCCycle
    <2>6. TypeOK'
      BY <1>12, <2>1, <2>2, <2>5
      DEF ConsumeDeletion, FinishHead
    <2>3. PcInv' /\ JobInv'
      BY <1>12 DEF ConsumeDeletion, Asks, FinishHead
    <2>4. GenInv'
      BY <1>12 DEF ConsumeDeletion, Asks, FinishHead
    <2>7. QED
      BY <2>3, <2>4, <2>6
  <1>13. ASSUME NEW f \in Finalizers, ConsumeResurrection(f)
         PROVE  TypeInv'
    <2>1. waiting' \subseteq waiting
      BY <1>13, NotifyShrinks DEF ConsumeResurrection, TakeResurrection
    <2>2. QED
      BY <1>13, <2>1
      DEF ConsumeResurrection, TakeResurrection, Asks, Answers
  <1>14. ASSUME NEW f \in Finalizers, ConsumeNothing(f)
         PROVE  TypeInv'
    <2>1. TypeOK'
      BY <1>14 DEF ConsumeNothing, Asks, FinishHead
    <2>2. PcInv' /\ JobInv'
      BY <1>14 DEF ConsumeNothing, Asks, FinishHead
    <2>3. GenInv'
      BY <1>14 DEF ConsumeNothing, Asks, FinishHead
    <2>4. QED
      BY <2>1, <2>2, <2>3
  <1>15. ASSUME NEW f \in Finalizers, Restore(f)
         PROVE  TypeInv'
    <2> DEFINE j == job[f]
    <2>1. j \in Handles /\ gen[j] \in 1 .. MaxCycles /\ gen[j] <= cycles
      BY <1>15 DEF Restore
    <2>2. alreadyExplored' \subseteq Handles
      BY <1>15, <2>1 DEF Restore, postProcessCStubGCCycle
    <2>3. /\ gen' \in [Handles -> 1 .. MaxCycles + 1]
          /\ refList' \in [Handles -> (1 .. MaxCycles + 1) \cup {0}]
      BY <1>15, <2>1 DEF Restore, Register
    <2>4. TypeOK'
      BY <1>15, <2>1, <2>2, <2>3 DEF Restore
    <2>5. PcInv' /\ JobInv'
      BY <1>15, <2>1 DEF Restore
    <2>6. GenInv'
      BY <1>15, <2>1 DEF Restore
    <2>7. QED
      BY <2>4, <2>5, <2>6
  <1>16. ASSUME NEW f \in Finalizers, NEW o \in Triggers, FinalizeTrigger(f, o)
         PROVE  TypeInv'
    BY <1>16 DEF FinalizeTrigger
  <1>17. ASSUME NEW f \in Finalizers, TriggerWaits(f)
         PROVE  TypeInv'
    BY <1>17 DEF TriggerWaits, Wait
  <1>18. ASSUME NEW f \in Finalizers, PerformFinalization(f)
         PROVE  TypeInv'
    <2>1. TypeOK'
      BY <1>18 DEF PerformFinalization
    <2>2. PcInv' /\ JobInv' /\ GenInv'
      BY <1>18 DEF PerformFinalization
    <2>3. QED
      BY <2>1, <2>2
  <1>19. CASE UNCHANGED vars
    BY <1>19 DEF vars
  <1>20. QED
    BY <1>1, <1>2, <1>3, <1>4, <1>5, <1>6, <1>7, <1>8, <1>9, <1>10, <1>11,
       <1>12, <1>13, <1>14, <1>15, <1>16, <1>17, <1>18, <1>19
    DEF Next, EnqueueStep, ReaperStep, FinalizerStep

\* Whatever the JVM's schedule, also when batches are split and collections
\* overlap, the protocol's state keeps its type (JyNI.java 1226-1335).
THEOREM TypeCorrect == Spec => []TypeOK
  <1>1. Spec => []TypeInv
    BY InitTypeInv, NextTypeInv, PTL DEF Spec
  <1>2. TypeInv => TypeOK
    BY DEF TypeInv
  <1>3. QED
    BY <1>1, <1>2, PTL

-----------------------------------------------------------------------------

\* The references of the collection in progress, from the moment they are
\* cleared to the moment they are reported.
Incoming ==
    pending \cup refQueue \cup
        (IF pc[Reaper] \in {"check", "report"} THEN clearRefs ELSE {})

\* A report is still to come.
ReportDue == pending \cup refQueue # {} \/ pc[Reaper] \in {"check", "report"}

Reported == confirmedDeletions \cup resurrections

\* A head in finalization has a finalizer.
WorkInv ==
    \A h \in Handles : state[h] = "consuming" =>
        \E f \in Finalizers : pc[f] = "consume" /\ job[f] = h

\* While a report is due nothing is outstanding, the incoming references are
\* to the newest heads, and these heads are the unsettled ones.
DueInv ==
    /\ pc[Reaper] # "remove" => pending = {} /\ refQueue = {}
    /\ ReportDue => confirmationsUnconsumed = 0
    /\ \A r \in Incoming :
          /\ r[2] = gen[r[1]]
          /\ state[r[1]] \in IF r[1] \in CStubs
                             THEN {"finalizable", "consuming"} ELSE {"gone"}
    /\ ReportDue => Unsettled \subseteq Incoming
    /\ ~ReportDue => Unsettled \subseteq Reported
    /\ resurrect \subseteq Truncated(clearRefs)

\* What a report says stays true of the heads it names.
ReportInv ==
    /\ confirmedDeletions \cap resurrections = {}
    /\ \A r \in Reported : /\ r[1] \in CStubs
                           /\ r[2] <= gen[r[1]]
                           /\ r[2] = gen[r[1]] => state[r[1]] # "live"
    /\ \A r \in confirmedDeletions :
          /\ r[2] = gen[r[1]]
          /\ state[r[1]] \in {"finalizable", "consuming", "gone"}
    /\ ResurrectedNotLost

IInv == WorkInv /\ DueInv /\ ReportInv /\ CounterExact /\ RefListCurrent

-----------------------------------------------------------------------------
(* Reports are never dropped and the reaper never gives up too early, under *)
(* any schedule.                                                            *)

\* The reaper's later code is only reached with the counter at 0 when the
\* batch had resurrections, because the reaper alone raises the counter.
LEMMA ClearInductive ==
    TypeInv /\ ClearAfterConsumption /\ [Next]_vars => ClearAfterConsumption'
  <1> SUFFICES ASSUME TypeInv, ClearAfterConsumption, [Next]_vars
               PROVE  ClearAfterConsumption'
    OBVIOUS
  <1> USE CStubMonitorAssumption
      DEF ClearAfterConsumption, TypeInv, TypeOK, PcInv, Threads, jvm, report,
          batch, exploration
  <1>1. ASSUME NEW S \in SUBSET Handles, NEW T \in SUBSET Triggers,
               GarbageCollect(S, T)
        PROVE  ClearAfterConsumption'
    BY <1>1 DEF GarbageCollect
  <1>2. ASSUME EnqueueStep PROVE ClearAfterConsumption'
    BY <1>2 DEF EnqueueStep, Enqueue
  <1>3. ASSUME ReaperStep PROVE ClearAfterConsumption'
    <2>1. ASSUME Report PROVE ClearAfterConsumption'
      BY <2>1 DEF Report, PublishReport
    <2>2. ASSUME AwaitCStubs PROVE ClearAfterConsumption'
      BY <2>2 DEF AwaitCStubs, AwaitEnds, Outstanding
    <2>3. ASSUME CollectBatch \/ (\E R \in SUBSET clearRefs : CheckGraph(R))
                 \/ ReportWaits \/ AwaitWaits \/ ClearReferences
          PROVE  ClearAfterConsumption'
      BY <2>3 DEF CollectBatch, CheckGraph, ReportWaits, AwaitWaits,
                  ClearReferences
    <2>4. QED
      BY <1>3, <2>1, <2>2, <2>3 DEF ReaperStep
  <1>4. ASSUME NEW f \in Finalizers, FinalizerStep(f)
        PROVE  ClearAfterConsumption'
    <2>1. pc'[Reaper] = pc[Reaper] /\ resurrect' = resurrect
      BY <1>4
      DEF FinalizerStep, FinalizeHead, ConsumeWaits, ConsumeDeletion,
          ConsumeResurrection, TakeResurrection, ConsumeNothing, FinishHead,
          Restore, FinalizeTrigger, TriggerWaits, PerformFinalization
    <2>2. confirmationsUnconsumed = 0 => confirmationsUnconsumed' = 0
      BY <1>4
      DEF FinalizerStep, FinalizeHead, ConsumeWaits, ConsumeDeletion,
          ConsumeResurrection, TakeResurrection, ConsumeNothing, FinishHead,
          Restore, FinalizeTrigger, TriggerWaits, PerformFinalization, Answers
    <2>3. QED
      BY <2>1, <2>2
  <1>5. CASE UNCHANGED vars
    BY <1>5 DEF vars
  <1>6. QED
    BY <1>1, <1>2, <1>3, <1>4, <1>5 DEF Next

\* The reaper gives up a batch with resurrections only after waitForCStubs has
\* seen every confirmation consumed (gcmodule.c 2368-2435).
THEOREM ClearIsSafe == Spec => []ClearAfterConsumption
  <1>1. Init => ClearAfterConsumption
    BY CStubMonitorAssumption DEF Init, ClearAfterConsumption, Threads
  <1>2. QED
    BY <1>1, InitTypeInv, NextTypeInv, ClearInductive, PTL DEF Spec

-----------------------------------------------------------------------------
(* When batches are complete and collections do not overlap, the counter   *)
(* is exact.                                                               *)

LEMMA OwedFinite == IsFiniteSet(Owed)
  BY HeadsFinite, FS_Subset DEF Owed, Unsettled

\* No finalizer is at work between two collections, so nothing is owed.
LEMMA QuiescentSettled ==
    ASSUME TypeInv, IInv, Quiescent
    PROVE  Unsettled = {} /\ Owed = {} /\ confirmationsUnconsumed = 0
  <1>1. \A f \in Finalizers : pc[f] = "idle"
    BY CStubMonitorAssumption DEF Quiescent, Threads
  <1>2. \A h \in Handles : state[h] \notin {"finalizable", "consuming"}
    BY <1>1 DEF Quiescent, IInv, WorkInv
  <1>3. Unsettled = {}
    BY <1>2 DEF Unsettled, Heads
  <1>4. QED
    BY <1>3, FS_EmptySet DEF Owed, IInv, CounterExact

\* Steps that leave the heads, their references and the report alone.
LEMMA FrameIInv ==
    ASSUME IInv,
           UNCHANGED <<state, gen, report, refList>>,
           WorkInv', DueInv'
    PROVE  IInv'
  BY DEF IInv, ReportInv, Reported, ResurrectedNotLost, CounterExact, Owed,
         Unsettled, RefListCurrent, report

\* The finalizer that asks has an owed verdict, and the report names its head.
LEMMA AskedIsOwed ==
    ASSUME TypeInv, IInv, NEW f \in Finalizers, Asks(f), Answers
    PROVE  /\ ~ReportDue
           /\ job[f] \in Handles
           /\ <<job[f], gen[job[f]]>> \in Owed
           /\ job[f] \in CStubs /\ state[job[f]] = "consuming"
           /\ <<job[f], gen[job[f]]>> \in Reported
  <1> DEFINE j == job[f]
             u == <<j, gen[j]>>
  <1>1. j \in CStubs /\ state[j] = "consuming" /\ j \in Handles
    BY CStubMonitorAssumption DEF TypeInv, JobInv, Asks
  <1>2. gen[j] \in Generations
    BY <1>1 DEF TypeInv, TypeOK
  <1>3. u \in Unsettled
    BY <1>1, <1>2 DEF Unsettled, Heads
  <1>4. ~ReportDue
    BY DEF IInv, DueInv, Answers
  <1>5. u \in Reported /\ u \in Owed
    BY <1>3, <1>4 DEF IInv, DueInv, Owed, Reported
  <1>6. QED
    BY <1>1, <1>4, <1>5

\* A finalizer that leaves the state "consuming" takes its head, and nothing
\* else, out of what is owed.
LEMMA TakenFromOwed ==
    ASSUME TypeInv, IInv, NEW f \in Finalizers, Asks(f), Answers,
           NEW s \in {"gone", "restoring"},
           state' = [state EXCEPT ![job[f]] = s],
           UNCHANGED <<gen, confirmedDeletions, resurrections>>
    PROVE  /\ Unsettled' = Unsettled \ {<<job[f], gen[job[f]]>>}
           /\ Cardinality(Owed') = Cardinality(Owed) - 1
  <1> DEFINE j == job[f]
             u == <<j, gen[j]>>
  <1>1. j \in Handles /\ u \in Owed
    BY AskedIsOwed
  <1>2. \A h \in Handles : state'[h] = IF h = j THEN s ELSE state[h]
    BY <1>1 DEF TypeInv, TypeOK
  <1>3. Unsettled' = Unsettled \ {u}
    <2>1. ASSUME NEW r \in Heads PROVE r \in Unsettled' <=> r \in Unsettled \ {u}
      <3>1. r = <<r[1], r[2]>> /\ r[1] \in Handles
        BY DEF Heads
      <3>2. QED
        BY <3>1, <1>1, <1>2 DEF Unsettled
    <2>2. QED
      BY <2>1 DEF Unsettled
  <1>4. Owed' = Owed \ {u}
    BY <1>3 DEF Owed
  <1>5. QED
    BY <1>1, <1>3, <1>4, OwedFinite, FS_RemoveElement

\* After a report, the owed heads are those it names.
LEMMA ReportExact ==
    ASSUME TypeInv, IInv, Report
    PROVE  /\ confirmedDeletions' = Truncated(clearRefs) \ resurrect
           /\ resurrections' = resurrect
           /\ Truncated(clearRefs) = Unsettled
           /\ confirmationsUnconsumed' = Cardinality(Unsettled)
  <1>1. /\ confirmedDeletions' = Truncated(clearRefs) \ resurrect
        /\ resurrections' = resurrect
        /\ confirmationsUnconsumed' =
             Cardinality(Truncated(clearRefs) \ resurrect) + Cardinality(resurrect)
    BY DEF Report, PublishReport
  <1>2. /\ ReportDue /\ clearRefs = Incoming
        /\ resurrect \subseteq Truncated(clearRefs)
    BY DEF Report, PublishReport, ReportDue, Incoming, IInv, DueInv
  <1>3. Unsettled \subseteq Truncated(clearRefs)
    BY <1>2 DEF IInv, DueInv, Unsettled, Truncated
  <1>4. Truncated(clearRefs) \subseteq Unsettled
    BY <1>2 DEF IInv, DueInv, Unsettled, Truncated, TypeInv, TypeOK
  <1>5. IsFiniteSet(Unsettled) /\ IsFiniteSet(resurrect)
    BY <1>2, <1>4, HeadsFinite, FS_Subset DEF Unsettled
  <1>6. Cardinality(Unsettled) =
          Cardinality(Unsettled \ resurrect) + Cardinality(resurrect)
    <2>1. IsFiniteSet(Unsettled \ resurrect)
      BY <1>5, FS_Difference
    <2>2. (Unsettled \ resurrect) \cap resurrect = {}
      OBVIOUS
    <2>3. (Unsettled \ resurrect) \cup resurrect = Unsettled
      BY <1>2, <1>4
    <2>4. Cardinality((Unsettled \ resurrect) \cup resurrect) =
            Cardinality(Unsettled \ resurrect) + Cardinality(resurrect)
            - Cardinality((Unsettled \ resurrect) \cap resurrect)
      BY <1>5, <2>1, FS_Union
    <2>5. Cardinality((Unsettled \ resurrect) \cap resurrect) = 0
      BY <2>2, FS_EmptySet
    <2>6. /\ Cardinality(Unsettled \ resurrect) \in Nat
          /\ Cardinality(resurrect) \in Nat
      BY <1>5, <2>1, FS_CardinalityType
    <2>7. QED
      BY <2>3, <2>4, <2>5, <2>6
  <1>7. QED
    BY <1>1, <1>3, <1>4, <1>6

LEMMA InitIInv == Init => IInv
  <1> SUFFICES ASSUME Init PROVE IInv
    OBVIOUS
  <1> USE CStubMonitorAssumption DEF Init, Threads
  <1>1. Unsettled = {}
    BY DEF Unsettled, Heads
  <1>2. CounterExact
    BY <1>1, FS_EmptySet DEF CounterExact, Owed
  <1>3. WorkInv /\ ReportInv /\ RefListCurrent
    BY DEF WorkInv, ReportInv, Reported, ResurrectedNotLost, RefListCurrent
  <1>4. DueInv
    BY <1>1 DEF DueInv, ReportDue, Incoming, Truncated
  <1>5. QED
    BY <1>2, <1>3, <1>4 DEF IInv

LEMMA CollectionKeepsIInv ==
    ASSUME ~CyclesOverlap, TypeInv, IInv,
           NEW S \in SUBSET Handles, NEW T \in SUBSET Triggers,
           GarbageCollect(S, T)
    PROVE  IInv'
  <1>1. /\ Quiescent
        /\ UNCHANGED <<gen, refQueue, refList, report, pc, job, batch>>
        /\ pending' = {<<h, gen[h]>> : h \in S}
        /\ \A h \in S : state[h] = "live"
        /\ \A h \in Handles :
              state'[h] = IF h \notin S THEN state[h]
                          ELSE IF h \in CStubs THEN "finalizable" ELSE "gone"
    BY DEF GarbageCollect, Quiescent
  <1>2. Unsettled = {} /\ Owed = {} /\ confirmationsUnconsumed = 0
    BY <1>1, QuiescentSettled
  <1>3. Unsettled' \subseteq pending'
    <2>1. ASSUME NEW r \in Unsettled' PROVE r[1] \in S /\ r[2] = gen[r[1]]
                                           /\ r = <<r[1], r[2]>>
      <3>1. r = <<r[1], r[2]>> /\ r[1] \in Handles /\ r \in Heads
        BY DEF Unsettled, Heads
      <3>2. QED
        BY <1>1, <1>2, <3>1 DEF Unsettled
    <2>2. QED
      BY <1>1, <2>1
  <1>4. \A r \in Unsettled' : r[1] \in S /\ r[2] = gen[r[1]]
    BY <1>1, <1>3
  <1>5. WorkInv'
    BY <1>1 DEF WorkInv, IInv
  <1>6. DueInv'
    <2>1. pc'[Reaper] = "remove" /\ refQueue' = {} /\ refQueue = {}
      BY <1>1, CStubMonitorAssumption DEF Quiescent, Threads
    <2>2. Incoming' = pending'
      BY <2>1 DEF Incoming
    <2>3. \A r \in pending' : /\ r[1] \in S /\ r[2] = gen'[r[1]]
      BY <1>1
    <2>4. confirmationsUnconsumed' = 0
      BY <1>1, <1>2 DEF report
    <2>5. Truncated(clearRefs') = Truncated(clearRefs)
      BY <1>1 DEF batch
    <2>6. QED
      BY <1>1, <1>3, <2>1, <2>2, <2>3, <2>4, <2>5
      DEF DueInv, ReportDue, IInv, batch, Truncated
  <1>7. ReportInv'
    <2>1. \A r \in Reported : r[2] = gen[r[1]] => r[1] \notin S
      BY <1>1 DEF IInv, ReportInv
    <2>2. Reported \subseteq Heads /\ \A r \in Heads : r[1] \in Handles
      BY DEF TypeInv, TypeOK, Reported, Heads
    <2>3. \A r \in Reported : r[2] = gen[r[1]] => state'[r[1]] = state[r[1]]
      BY <1>1, <2>1, <2>2
    <2>4. UNCHANGED <<confirmedDeletions, resurrections, gen>>
      BY <1>1 DEF report
    <2>5. QED
      BY <2>3, <2>4
      DEF IInv, ReportInv, Reported, ResurrectedNotLost
  <1>8. CounterExact'
    <2>1. Owed' = {}
      BY <1>1, <1>4 DEF Owed, IInv, ReportInv, Reported, report
    <2>2. QED
      BY <1>1, <1>2, <2>1, FS_EmptySet DEF CounterExact, report
  <1>9. RefListCurrent'
    BY <1>1 DEF RefListCurrent, IInv
  <1>10. QED
    BY <1>5, <1>6, <1>7, <1>8, <1>9 DEF IInv

LEMMA ReaperKeepsIInv ==
    ASSUME ChunksComplete, TypeInv, IInv, ReaperStep
    PROVE  IInv'
  <1> USE CStubMonitorAssumption DEF Threads
  <1>1. ASSUME CollectBatch PROVE IInv'
    <2>1. /\ pending = {} /\ pc[Reaper] = "remove"
          /\ clearRefs' = refQueue /\ refQueue' = {}
          /\ pc' = [pc EXCEPT ![Reaper] = "check"]
          /\ UNCHANGED <<state, gen, report, pending, job, resurrect>>
          /\ refQueue # {}
      BY <1>1 DEF CollectBatch, jvm
    <2>2. /\ pc'[Reaper] = "check"
          /\ \A f \in Finalizers : pc'[f] = pc[f]
      BY <2>1 DEF TypeInv, TypeOK
    <2>3. Incoming' = Incoming /\ ReportDue' /\ ReportDue
      BY <2>1, <2>2 DEF Incoming, ReportDue
    <2>4. resurrect' = {}
      BY <2>1 DEF TypeInv, PcInv
    <2>5. Unsettled' = Unsettled
      BY <2>1 DEF Unsettled
    <2>6. DueInv'
      BY <2>1, <2>2, <2>3, <2>4, <2>5 DEF DueInv, IInv, report
    <2>7. WorkInv'
      BY <2>1, <2>2 DEF WorkInv, IInv
    <2>8. RefListCurrent'
      <3>1. \A h \in Handles : state[h] = "live" =>
                ~\E r \in refQueue : r[1] = h
        BY <2>1 DEF IInv, DueInv, Incoming
      <3>2. QED
        BY <1>1, <2>1, <3>1 DEF CollectBatch, RefListCurrent, IInv
    <2>9. ReportInv' /\ CounterExact'
      BY <2>1, <2>5
      DEF IInv, ReportInv, Reported, ResurrectedNotLost, CounterExact, Owed,
          report
    <2>10. QED
      BY <2>6, <2>7, <2>8, <2>9 DEF IInv
  <1>2. ASSUME NEW R \in SUBSET clearRefs, CheckGraph(R) PROVE IInv'
    <2>1. /\ pc[Reaper] = "check" /\ R \subseteq Truncated(clearRefs)
          /\ resurrect' = R
          /\ pc'[Reaper] = "report"
          /\ \A f \in Finalizers : pc'[f] = pc[f]
          /\ UNCHANGED <<state, gen, report, pending, refQueue, job, clearRefs,
                         refList>>
      BY <1>2 DEF CheckGraph, jvm, TypeInv, TypeOK
    <2>2. Incoming' = Incoming /\ ReportDue' /\ ReportDue
      BY <2>1 DEF Incoming, ReportDue
    <2>3. Unsettled' = Unsettled
      BY <2>1 DEF Unsettled
    <2>4. WorkInv' /\ DueInv'
      BY <2>1, <2>2, <2>3 DEF WorkInv, DueInv, IInv, Truncated, report
    <2>5. QED
      BY <2>1, <2>4, FrameIInv
  <1>3. ASSUME Report PROVE IInv'
    <2>1. /\ pc[Reaper] = "report"
          /\ pc'[Reaper] \in {"await", "clear"}
          /\ \A f \in Finalizers : pc'[f] = pc[f]
          /\ UNCHANGED <<state, gen, pending, refQueue, job, batch, refList>>
      BY <1>3 DEF Report, PublishReport, jvm, TypeInv, TypeOK
    <2>2. /\ confirmedDeletions' = Truncated(clearRefs) \ resurrect
          /\ resurrections' = resurrect
          /\ Truncated(clearRefs) = Unsettled
          /\ confirmationsUnconsumed' = Cardinality(Unsettled)
      BY <1>3, ReportExact
    <2>3. Unsettled' = Unsettled /\ resurrect \subseteq Unsettled
      BY <2>1, <2>2 DEF Unsettled, IInv, DueInv
    <2>4. Reported' = Unsettled
      BY <2>2, <2>3 DEF Reported
    <2>5. CounterExact'
      <3>1. Owed' = Unsettled
        BY <2>3, <2>4 DEF Owed, Reported
      <3>2. QED
        BY <2>2, <3>1 DEF CounterExact
    <2>6. DueInv'
      <3>1. pending = {} /\ refQueue = {}
        BY <2>1 DEF IInv, DueInv
      <3>2. ~ReportDue' /\ Incoming' = {}
        BY <2>1, <3>1 DEF ReportDue, Incoming
      <3>3. resurrect' \subseteq Truncated(clearRefs)'
        BY <2>1 DEF IInv, DueInv, batch, Truncated
      <3>4. QED
        BY <2>1, <2>3, <2>4, <3>1, <3>2, <3>3 DEF DueInv
    <2>7. ReportInv'
      <3>1. \A r \in Unsettled : /\ r[1] \in CStubs /\ r[2] = gen[r[1]]
                                 /\ gen[r[1]] \in Nat
                                 /\ state[r[1]] \in {"finalizable", "consuming"}
        BY DEF Unsettled, TypeInv, TypeOK, Generations
      <3>2. QED
        BY <2>1, <2>2, <2>3, <2>4, <3>1
        DEF ReportInv, ResurrectedNotLost
    <2>8. WorkInv' /\ RefListCurrent'
      BY <2>1 DEF IInv, WorkInv, RefListCurrent
    <2>9. QED
      BY <2>5, <2>6, <2>7, <2>8 DEF IInv
  <1>4. ASSUME ReportWaits \/ AwaitWaits PROVE IInv'
    <2>1. /\ UNCHANGED <<state, gen, pending, refQueue, pc, job, batch, refList,
                         report>>
      BY <1>4 DEF ReportWaits, AwaitWaits, jvm
    <2>2. WorkInv' /\ DueInv'
      BY <2>1
      DEF IInv, WorkInv, DueInv, ReportDue, Incoming, Unsettled, Reported,
          Truncated, report, batch
    <2>3. QED
      BY <2>1, <2>2, FrameIInv
  <1>5. ASSUME AwaitCStubs \/ ClearReferences PROVE IInv'
    <2>1. /\ pc[Reaper] \in {"await", "clear"}
          /\ pc'[Reaper] \in {"clear", "remove"}
          /\ \A f \in Finalizers : pc'[f] = pc[f]
          /\ UNCHANGED <<state, gen, pending, refQueue, job, refList, report>>
          /\ UNCHANGED batch \/ resurrect' = {}
      BY <1>5 DEF AwaitCStubs, AwaitEnds, ClearReferences, jvm, TypeInv, TypeOK
    <2>2. pending = {} /\ refQueue = {}
      BY <2>1 DEF IInv, DueInv
    <2>3. /\ ~ReportDue /\ ~ReportDue' /\ Incoming' = {}
          /\ Unsettled' = Unsettled
      BY <2>1, <2>2 DEF ReportDue, Incoming, Unsettled
    <2>4. WorkInv'
      BY <2>1 DEF WorkInv, IInv
    <2>5. DueInv'
      BY <2>1, <2>2, <2>3
      DEF DueInv, IInv, Truncated, Reported, report, batch
    <2>6. QED
      BY <2>1, <2>4, <2>5, FrameIInv
  <1>6. QED
    BY <1>1, <1>2, <1>3, <1>4, <1>5 DEF ReaperStep

\* What every step of a finalizer leaves alone.
LEMMA FinalizerFrame ==
    ASSUME TypeInv, NEW f \in Finalizers, FinalizerStep(f)
    PROVE  /\ UNCHANGED <<pending, refQueue, confirmedDeletions, resurrections,
                          batch>>
           /\ pc'[Reaper] = pc[Reaper]
           /\ \A g \in Finalizers \ {f} : pc'[g] = pc[g] /\ job'[g] = job[g]
           /\ ReportDue' = ReportDue /\ Incoming' = Incoming
           /\ Reported' = Reported
           /\ Truncated(clearRefs)' = Truncated(clearRefs)
  <1>1. /\ UNCHANGED <<pending, refQueue, confirmedDeletions, resurrections,
                       batch>>
        /\ pc'[Reaper] = pc[Reaper]
        /\ \A g \in Finalizers \ {f} : pc'[g] = pc[g] /\ job'[g] = job[g]
    BY CStubMonitorAssumption
    DEF FinalizerStep, FinalizeHead, ConsumeWaits, ConsumeDeletion,
        ConsumeResurrection, TakeResurrection, ConsumeNothing, FinishHead,
        Restore, FinalizeTrigger, TriggerWaits, PerformFinalization, jvm,
        report, TypeInv, TypeOK, Threads
  <1>2. QED
    BY <1>1 DEF ReportDue, Incoming, Reported, Truncated, batch

LEMMA FinalizerKeepsIInv ==
    ASSUME TypeInv, IInv, NEW f \in Finalizers, FinalizerStep(f)
    PROVE  IInv'
  <1> USE CStubMonitorAssumption DEF Threads
  <1>1. /\ UNCHANGED <<pending, refQueue, confirmedDeletions, resurrections,
                       batch>>
        /\ pc'[Reaper] = pc[Reaper]
        /\ \A g \in Finalizers \ {f} : pc'[g] = pc[g] /\ job'[g] = job[g]
        /\ ReportDue' = ReportDue /\ Incoming' = Incoming
        /\ Reported' = Reported
        /\ Truncated(clearRefs)' = Truncated(clearRefs)
    BY FinalizerFrame
  <1>2. ASSUME NEW h \in Handles, FinalizeHead(f, h) PROVE IInv'
    <2>1. /\ state[h] = "finalizable" /\ h \in CStubs
          /\ \A k \in Handles : state'[k] = IF k = h THEN "consuming" ELSE state[k]
          /\ pc'[f] = "consume" /\ job'[f] = h
          /\ pc[f] = "idle"
          /\ UNCHANGED <<gen, refList, report>>
      BY <1>2 DEF FinalizeHead, TypeInv, TypeOK, JobInv
    <2>2. WorkInv'
      BY <1>1, <2>1 DEF WorkInv, IInv
    <2>3. Unsettled' = Unsettled
      BY <2>1 DEF Unsettled, Heads
    <2>4. DueInv'
      <3>1. \A r \in Incoming : r[1] \in Handles
        BY DEF Incoming, TypeInv, TypeOK, Heads
      <3>2. QED
        BY <1>1, <2>1, <2>3, <3>1 DEF DueInv, IInv, report, batch
    <2>5. ReportInv'
      <3>1. \A r \in Reported : r[1] \in Handles
        BY DEF Reported, TypeInv, TypeOK, Heads
      <3>2. QED
        BY <1>1, <2>1, <3>1
        DEF ReportInv, ResurrectedNotLost, IInv, Reported
    <2>6. CounterExact' /\ RefListCurrent'
      BY <1>1, <2>1, <2>3
      DEF CounterExact, RefListCurrent, IInv, Owed, report
    <2>7. QED
      BY <2>2, <2>4, <2>5, <2>6 DEF IInv
  <1>3. ASSUME ConsumeDeletion(f) \/ ConsumeResurrection(f)
        PROVE  IInv'
    <2> DEFINE j == job[f]
               u == <<j, gen[j]>>
    <2>1. Asks(f) /\ Answers
      BY <1>3 DEF ConsumeDeletion, ConsumeResurrection
    <2>2. /\ ~ReportDue /\ j \in Handles /\ u \in Owed /\ u \in Reported
          /\ j \in CStubs /\ state[j] = "consuming"
      BY <2>1, AskedIsOwed
    <2>3. PICK s \in {"gone", "restoring"} :
            /\ state' = [state EXCEPT ![j] = s]
            /\ s = "gone" => Named(j, confirmedDeletions)
            /\ s = "restoring" => ~Named(j, confirmedDeletions)
      BY <1>3
      DEF ConsumeDeletion, ConsumeResurrection, TakeResurrection, FinishHead
    <2>4. /\ UNCHANGED <<gen, refList, confirmedDeletions, resurrections>>
          /\ confirmationsUnconsumed' = confirmationsUnconsumed - 1
      BY <1>3 DEF ConsumeDeletion, ConsumeResurrection, TakeResurrection
    <2>5. /\ Unsettled' = Unsettled \ {u}
          /\ Cardinality(Owed') = Cardinality(Owed) - 1
      BY <2>1, <2>3, <2>4, TakenFromOwed
    <2>6. \A k \in Handles : state'[k] = IF k = j THEN s ELSE state[k]
      BY <2>2, <2>3 DEF TypeInv, TypeOK
    <2>7. CounterExact'
      BY <2>4, <2>5 DEF CounterExact, IInv
    <2>8. WorkInv'
      <3>1. ASSUME NEW k \in Handles, state'[k] = "consuming"
            PROVE  \E g \in Finalizers : pc'[g] = "consume" /\ job'[g] = k
        <4>1. k # j /\ state[k] = "consuming"
          BY <2>6, <3>1
        <4>2. PICK g \in Finalizers : pc[g] = "consume" /\ job[g] = k
          BY <4>1 DEF IInv, WorkInv
        <4>3. g # f
          BY <4>1, <4>2
        <4>4. QED
          BY <1>1, <4>2, <4>3
      <3>2. QED
        BY <3>1 DEF WorkInv
    <2>9. DueInv'
      <3>1. Incoming = {}
        BY <2>2 DEF ReportDue, Incoming
      <3>2. QED
        BY <1>1, <2>2, <2>5, <3>1 DEF IInv, DueInv, batch
    <2>10. ReportInv'
      <3>1. /\ \A r \in Reported : r[1] \in Handles
            /\ confirmedDeletions \subseteq Reported
            /\ resurrections \subseteq Reported
        BY DEF Reported, TypeInv, TypeOK, Heads
      <3>2. \A r \in confirmedDeletions : r = <<r[1], r[2]>> /\ r[2] = gen[r[1]]
        BY DEF IInv, ReportInv, TypeInv, TypeOK, Heads
      <3>3. s = "gone" => u \in confirmedDeletions
        BY <2>3, <3>2 DEF Named
      <3>4. s = "gone" => u \notin resurrections
        BY <3>3 DEF IInv, ReportInv
      <3>5. \A r \in resurrections : r = <<r[1], r[2]>>
        BY DEF TypeInv, TypeOK, Heads
      <3>6. ResurrectedNotLost'
        BY <2>3, <2>4, <2>6, <3>1, <3>4, <3>5
        DEF IInv, ReportInv, ResurrectedNotLost
      <3>7. \A r \in confirmedDeletions :
               state'[r[1]] \in {"finalizable", "consuming", "gone"}
        BY <2>3, <2>6, <3>1 DEF IInv, ReportInv, Named
      <3>8. \A r \in Reported : r[2] = gen[r[1]] => state'[r[1]] # "live"
        BY <2>3, <2>6, <3>1 DEF IInv, ReportInv
      <3>9. QED
        BY <1>1, <2>4, <3>6, <3>7, <3>8 DEF IInv, ReportInv
    <2>11. RefListCurrent'
      BY <2>4, <2>6 DEF RefListCurrent, IInv
    <2>12. QED
      BY <2>7, <2>8, <2>9, <2>10, <2>11 DEF IInv
  <1>4. ASSUME ConsumeNothing(f) PROVE IInv'
    <2>1. Asks(f) /\ Answers
      BY <1>4 DEF ConsumeNothing
    <2>2. <<job[f], gen[job[f]]>> \in Reported
      BY <2>1, AskedIsOwed
    <2>3. QED
      BY <1>4, <2>2 DEF ConsumeNothing, Named, Reported
  <1>5. ASSUME Restore(f) PROVE IInv'
    <2> DEFINE j == job[f]
    <2>1. /\ j \in CStubs /\ j \in Handles /\ state[j] = "restoring"
          /\ pc[f] = "restore"
      BY <1>5 DEF Restore, TypeInv, JobInv
    <2>2. /\ gen \in [Handles -> Nat]
          /\ \A k \in Handles : state'[k] = IF k = j THEN "live" ELSE state[k]
          /\ \A k \in Handles : gen'[k] = IF k = j THEN gen[j] + 1 ELSE gen[k]
          /\ \A k \in Handles :
                refList'[k] = IF k = j THEN gen[j] + 1 ELSE refList[k]
          /\ UNCHANGED report
      BY <1>5, <2>1 DEF Restore, Register, TypeInv, TypeOK, Generations
    <2>3. Unsettled' = Unsettled
      <3>1. ASSUME NEW r \in Heads PROVE r \in Unsettled' <=> r \in Unsettled
        <4>1. r[1] \in Handles
          BY DEF Heads
        <4>2. QED
          BY <2>1, <2>2, <4>1 DEF Unsettled
      <3>2. QED
        BY <3>1 DEF Unsettled
    <2>4. CounterExact'
      BY <2>2, <2>3 DEF CounterExact, Owed, IInv, report
    <2>5. WorkInv'
      <3>1. ASSUME NEW k \in Handles, state'[k] = "consuming"
            PROVE  \E g \in Finalizers : pc'[g] = "consume" /\ job'[g] = k
        <4>1. state[k] = "consuming"
          BY <2>2, <3>1
        <4>2. PICK g \in Finalizers : pc[g] = "consume" /\ job[g] = k
          BY <4>1 DEF IInv, WorkInv
        <4>3. QED
          BY <1>1, <2>1, <4>2
      <3>2. QED
        BY <3>1 DEF WorkInv
    <2>6. DueInv'
      <3>1. \A r \in Incoming : r[1] \in Handles /\ r[1] # j
        BY <2>1 DEF Incoming, IInv, DueInv, TypeInv, TypeOK, Heads
      <3>2. QED
        BY <1>1, <2>2, <2>3, <3>1 DEF IInv, DueInv, report, batch
    <2>7. ReportInv'
      <3>1. /\ \A r \in Reported : r[1] \in Handles /\ r[2] \in Nat
            /\ confirmedDeletions \subseteq Reported
            /\ resurrections \subseteq Reported
        BY DEF Reported, TypeInv, TypeOK, Heads, Generations
      <3>2. \A r \in confirmedDeletions : r[1] # j
        BY <2>1 DEF IInv, ReportInv
      <3>3. \A r \in Reported : r[1] = j => r[2] < gen'[j]
        BY <2>1, <2>2, <3>1 DEF IInv, ReportInv
      <3>4. \A r \in Reported : /\ r[1] \in CStubs /\ r[2] <= gen'[r[1]]
                                /\ r[2] = gen'[r[1]] => state'[r[1]] # "live"
        BY <2>1, <2>2, <3>1, <3>3 DEF IInv, ReportInv
      <3>5. ResurrectedNotLost'
        BY <1>1, <2>1, <2>2, <3>1, <3>3
        DEF IInv, ReportInv, ResurrectedNotLost
      <3>6. QED
        BY <1>1, <2>2, <3>1, <3>2, <3>4, <3>5 DEF IInv, ReportInv
    <2>8. RefListCurrent'
      BY <2>2 DEF RefListCurrent, IInv
    <2>9. QED
      BY <2>4, <2>5, <2>6, <2>7, <2>8 DEF IInv
  <1>6. ASSUME \/ ConsumeWaits(f) \/ TriggerWaits(f) \/ PerformFinalization(f)
               \/ \E o \in Triggers : FinalizeTrigger(f, o)
        PROVE  IInv'
    <2>1. /\ UNCHANGED <<state, gen, refList, report>>
          /\ pc[f] = "consume" => pc'[f] = pc[f] /\ job'[f] = job[f]
      BY <1>6
      DEF ConsumeWaits, Asks, TriggerWaits, PerformFinalization, FinalizeTrigger
    <2>2. WorkInv'
      BY <1>1, <2>1 DEF WorkInv, IInv
    <2>3. Unsettled' = Unsettled
      BY <2>1 DEF Unsettled
    <2>4. DueInv'
      BY <1>1, <2>1, <2>3 DEF DueInv, IInv, report, batch
    <2>5. QED
      BY <2>1, <2>2, <2>4, FrameIInv
  <1>7. QED
    BY <1>2, <1>3, <1>4, <1>5, <1>6 DEF FinalizerStep

LEMMA NextIInv ==
    ASSUME ChunksComplete, ~CyclesOverlap
    PROVE  TypeInv /\ IInv /\ [Next]_vars => IInv'
  <1> SUFFICES ASSUME TypeInv, IInv, [Next]_vars PROVE IInv'
    OBVIOUS
  <1>1. ASSUME NEW r \in pending, Enqueue(r) PROVE IInv'
    <2>1. /\ UNCHANGED <<state, gen, refList, report, pc, job, batch>>
          /\ pending' \cup refQueue' = pending \cup refQueue
          /\ pc[Reaper] = "remove"
      BY <1>1 DEF Enqueue, IInv, DueInv
    <2>2. /\ Incoming' = Incoming /\ ReportDue' = ReportDue
          /\ Unsettled' = Unsettled /\ Reported' = Reported
      BY <2>1 DEF Incoming, ReportDue, Unsettled, Reported, report
    <2>3. WorkInv' /\ DueInv'
      BY <2>1, <2>2 DEF IInv, WorkInv, DueInv, Truncated, report, batch
    <2>4. QED
      BY <2>1, <2>3, FrameIInv
  <1>2. CASE UNCHANGED vars
    BY <1>2
    DEF vars, IInv, WorkInv, DueInv, ReportInv, CounterExact, RefListCurrent,
        ResurrectedNotLost, Owed, Unsettled, Reported, Incoming, ReportDue,
        Truncated
  <1>3. QED
    BY <1>1, <1>2, CollectionKeepsIInv, ReaperKeepsIInv, FinalizerKeepsIInv
    DEF Next, EnqueueStep

\* When the reaper's sleep outlasts the reference handler and a collection
\* starts only when the last one is settled, the strengthening holds; the four
\* theorems that follow read it.
LEMMA ProtocolInvariant ==
    ASSUME ChunksComplete, ~CyclesOverlap
    PROVE  Spec => [](TypeInv /\ IInv)
  BY InitTypeInv, InitIInv, NextTypeInv, NextIInv, PTL DEF Spec

\* waitForCStubs and the last-confirmation flag rest on an exact counter
\* (JyNI.java 1269-1335), for any handles, finalizer threads and collections.
THEOREM ConfirmationsExact ==
    ASSUME ChunksComplete, ~CyclesOverlap
    PROVE  Spec => []CounterExact
  <1>1. IInv => CounterExact
    BY DEF IInv
  <1>2. QED
    BY <1>1, ProtocolInvariant, PTL

\* A CStub that gcDeletionReport lists for resurrection gets its new head
\* (JyNI.java 1306-1318).
THEOREM ResurrectionsKept ==
    ASSUME ChunksComplete, ~CyclesOverlap
    PROVE  Spec => []ResurrectedNotLost
  <1>1. IInv => ResurrectedNotLost
    BY DEF IInv, ReportInv
  <1>2. QED
    BY <1>1, ProtocolInvariant, PTL

\* A CStub whose deletion was confirmed (JyNI.java 1292-1304), and whose native
\* object is therefore freed, is never given a head again.
THEOREM DeathIsFinal ==
    ASSUME ChunksComplete, ~CyclesOverlap
    PROVE  Spec => []ConfirmedStaysDead
  <1>1. IInv => ConfirmedStaysDead
    BY DEF IInv, ReportInv, ConfirmedStaysDead
  <1>2. QED
    BY <1>1, ProtocolInvariant, PTL

\* Both: gcDeletionReport's two lists are final, until the next report
\* (JyNI.java 1267-1318).
THEOREM VerdictsAreFinal ==
    ASSUME ChunksComplete, ~CyclesOverlap
    PROVE  Spec => []VerdictsStand
  BY ResurrectionsKept, DeathIsFinal, PTL DEF VerdictsStand

\* The reaper, which unregisters heads by handle (JyWeakReferenceGC.java
\* 102-110), never unregisters the successor of a resurrected head.
THEOREM RegistryCurrent ==
    ASSUME ChunksComplete, ~CyclesOverlap
    PROVE  Spec => []RefListCurrent
  <1>1. IInv => RefListCurrent
    BY DEF IInv
  <1>2. QED
    BY <1>1, ProtocolInvariant, PTL

-----------------------------------------------------------------------------
(* The protocol implements CStubVerdict: step simulation on top of the     *)
(* inductive invariant.                                                    *)

\* A head being restored has a finalizer, and is restored after its report.
RestoreInv ==
    /\ \A h \in Handles : state[h] = "restoring" =>
          \E f \in Finalizers : pc[f] = "restore" /\ job[f] = h
    /\ ReportDue => \A h \in Handles : state[h] # "restoring"

Inv == TypeInv /\ IInv /\ RestoreInv

LEMMA InitRestoreInv == Init => RestoreInv
  BY DEF Init, RestoreInv

\* The steps of one finalizer that do not touch a head being restored.
LEMMA RestoreFrame ==
    ASSUME RestoreInv, NEW f \in Finalizers,
           \A h \in Handles : state'[h] = "restoring" => state[h] = "restoring",
           pc[f] # "restore",
           \A g \in Finalizers \ {f} : pc'[g] = pc[g] /\ job'[g] = job[g],
           ReportDue' => ReportDue
    PROVE  RestoreInv'
  <1>1. ASSUME NEW h \in Handles, state'[h] = "restoring"
        PROVE  \E g \in Finalizers : pc'[g] = "restore" /\ job'[g] = h
    <2>1. PICK g \in Finalizers : pc[g] = "restore" /\ job[g] = h
      BY <1>1 DEF RestoreInv
    <2>2. g # f
      BY <2>1
    <2>3. QED
      BY <2>1, <2>2
  <1>2. QED
    BY <1>1 DEF RestoreInv

LEMMA NextRestoreInv ==
    ASSUME ~CyclesOverlap
    PROVE  Inv /\ [Next]_vars => RestoreInv'
  <1> SUFFICES ASSUME Inv, [Next]_vars PROVE RestoreInv'
    OBVIOUS
  <1> USE CStubMonitorAssumption DEF Inv, Threads
  <1>1. ASSUME NEW S \in SUBSET Handles, NEW T \in SUBSET Triggers,
               GarbageCollect(S, T)
        PROVE  RestoreInv'
    <2>1. \A h \in Handles : state[h] # "restoring"
      BY <1>1 DEF GarbageCollect, Quiescent, RestoreInv
    <2>2. \A h \in Handles : state'[h] # "restoring"
      BY <1>1, <2>1 DEF GarbageCollect
    <2>3. QED
      BY <2>2 DEF RestoreInv
  <1>2. ASSUME NEW r \in pending, Enqueue(r) PROVE RestoreInv'
    BY <1>2 DEF Enqueue, RestoreInv, ReportDue
  <1>3. ASSUME ReaperStep PROVE RestoreInv'
    <2>1. /\ UNCHANGED <<state, job, pending>>
          /\ \A f \in Finalizers : pc'[f] = pc[f]
      BY <1>3
      DEF ReaperStep, CollectBatch, CheckGraph, ReportWaits, Report,
          PublishReport, AwaitWaits, AwaitCStubs, AwaitEnds, ClearReferences,
          jvm, TypeInv, TypeOK
    <2>2. ReportDue' => ReportDue
      <3>1. CASE CollectBatch \/ Report \/ \E R \in SUBSET clearRefs : CheckGraph(R)
        BY <3>1
        DEF CollectBatch, Report, PublishReport, CheckGraph, ReportDue
      <3>2. CASE ReportWaits \/ AwaitWaits
        BY <3>2 DEF ReportWaits, AwaitWaits, ReportDue, jvm
      <3>3. CASE AwaitCStubs \/ ClearReferences
        BY <3>3
        DEF AwaitCStubs, AwaitEnds, ClearReferences, ReportDue, IInv, DueInv,
            jvm, TypeInv, TypeOK
      <3>4. QED
        BY <1>3, <3>1, <3>2, <3>3 DEF ReaperStep
    <2>3. QED
      BY <2>1, <2>2 DEF RestoreInv
  <1>4. ASSUME NEW f \in Finalizers, FinalizerStep(f) PROVE RestoreInv'
    <2>1. /\ \A g \in Finalizers \ {f} : pc'[g] = pc[g] /\ job'[g] = job[g]
          /\ ReportDue' = ReportDue
      BY <1>4, FinalizerFrame
    <2>2. CASE ConsumeResurrection(f)
      <3>1. ~ReportDue /\ job[f] \in Handles
        BY <2>2, AskedIsOwed DEF ConsumeResurrection
      <3>2. /\ pc[f] = "consume" /\ pc'[f] = "restore" /\ job'[f] = job[f]
            /\ \A h \in Handles :
                  state'[h] = IF h = job[f] THEN "restoring" ELSE state[h]
        BY <2>2, <3>1
        DEF ConsumeResurrection, TakeResurrection, Asks, TypeInv, TypeOK
      <3>3. ASSUME NEW h \in Handles, state'[h] = "restoring"
            PROVE  \E g \in Finalizers : pc'[g] = "restore" /\ job'[g] = h
        <4>1. CASE h = job[f]
          BY <3>2, <4>1
        <4>2. CASE h # job[f]
          <5>1. PICK g \in Finalizers : pc[g] = "restore" /\ job[g] = h
            BY <3>2, <3>3, <4>2 DEF RestoreInv
          <5>2. g # f
            BY <3>2, <5>1
          <5>3. QED
            BY <2>1, <5>1, <5>2
        <4>3. QED
          BY <4>1, <4>2
      <3>4. QED
        BY <2>1, <3>1, <3>3 DEF RestoreInv
    <2>3. CASE Restore(f)
      <3>1. /\ job[f] \in Handles
            /\ \A h \in Handles :
                  state'[h] = IF h = job[f] THEN "live" ELSE state[h]
        BY <2>3 DEF Restore, TypeInv, TypeOK, JobInv
      <3>2. ASSUME NEW h \in Handles, state'[h] = "restoring"
            PROVE  \E g \in Finalizers : pc'[g] = "restore" /\ job'[g] = h
        <4>1. h # job[f] /\ state[h] = "restoring"
          BY <3>1, <3>2
        <4>2. PICK g \in Finalizers : pc[g] = "restore" /\ job[g] = h
          BY <4>1 DEF RestoreInv
        <4>3. g # f
          BY <4>1, <4>2
        <4>4. QED
          BY <2>1, <4>2, <4>3
      <3>3. QED
        BY <2>1, <3>1, <3>2 DEF RestoreInv
    <2>4. CASE ~ConsumeResurrection(f) /\ ~Restore(f)
      <3>1. /\ pc[f] # "restore"
            /\ \A h \in Handles : state'[h] = "restoring" => state[h] = "restoring"
        BY <1>4, <2>4
        DEF FinalizerStep, FinalizeHead, ConsumeWaits, ConsumeDeletion,
            ConsumeNothing, FinishHead, FinalizeTrigger, TriggerWaits,
            PerformFinalization, Asks, TypeInv, TypeOK
      <3>2. QED
        BY <2>1, <3>1, RestoreFrame
    <2>5. QED
      BY <2>2, <2>3, <2>4
  <1>5. CASE UNCHANGED vars
    BY <1>5 DEF vars, RestoreInv, ReportDue
  <1>6. QED
    BY <1>1, <1>2, <1>3, <1>4, <1>5 DEF Next, EnqueueStep

-----------------------------------------------------------------------------
(* Step simulation.                                                        *)

\* Steps that leave the heads and the report alone do not show.
LEMMA StutterStatus ==
    ASSUME UNCHANGED <<gen, confirmedDeletions, resurrections>>,
           \A h \in CStubs :
              \/ state'[h] = state[h]
              \/ {state[h], state'[h]} \subseteq {"finalizable", "consuming"}
    PROVE  UNCHANGED Status
  <1>1. ASSUME NEW h \in CStubs PROVE Status'[h] = Status[h]
    <2>1. CASE state'[h] = state[h]
      BY <2>1 DEF Status
    <2>2. CASE {state[h], state'[h]} \subseteq {"finalizable", "consuming"}
      BY <2>2 DEF Status
    <2>3. QED
      BY <2>1, <2>2
  <1>2. QED
    BY <1>1 DEF Status

\* The heads whose fate is open are those not yet live or gone again.
LEMMA OpenHeads ==
    V!Open = {h \in CStubs : state[h] \notin {"live", "gone"}}
  BY DEF V!Open, Status

LEMMA CollectSimulated ==
    ASSUME ~CyclesOverlap, Inv,
           NEW S \in SUBSET Handles, NEW T \in SUBSET Triggers,
           GarbageCollect(S, T)
    PROVE  V!Next
  <1> USE CStubMonitorAssumption
  <1>1. /\ Quiescent
        /\ UNCHANGED <<gen, confirmedDeletions, resurrections>>
        /\ \A h \in S : state[h] = "live"
        /\ \A h \in CStubs :
              state'[h] = IF h \in S THEN "finalizable" ELSE state[h]
    BY DEF GarbageCollect, report
  <1>2. \A f \in Finalizers : pc[f] = "idle"
    BY <1>1 DEF Quiescent, Threads
  <1>3. \A h \in CStubs : state[h] \in {"live", "gone"}
    BY <1>1, <1>2
    DEF Quiescent, Inv, IInv, WorkInv, RestoreInv, TypeInv, TypeOK
  <1>4. V!Open = {}
    BY <1>3, OpenHeads
  <1>5. \A h \in S \cap CStubs : Status[h] = "live" /\ Status'[h] = "waiting"
    <2>1. ASSUME NEW h \in S \cap CStubs
          PROVE  Status[h] = "live" /\ Status'[h] = "waiting"
      <3>1. state[h] = "live" /\ state'[h] = "finalizable"
        BY <1>1
      <3>2. <<h, gen[h]>> \notin Reported
        BY <3>1 DEF Inv, IInv, ReportInv
      <3>3. QED
        BY <1>1, <3>1, <3>2 DEF Status, Reported
    <2>2. QED
      BY <2>1
  <1>6. \A h \in CStubs \ S : Status'[h] = Status[h]
    BY <1>1 DEF Status
  <1>7. V!Collect(S \cap CStubs)
    <2>1. Status' = [h \in CStubs |-> Status'[h]]
      BY DEF Status
    <2>2. QED
      BY <1>4, <1>5, <1>6, <2>1 DEF V!Collect
  <1>8. QED
    BY <1>7 DEF V!Next

LEMMA ReportSimulated == ASSUME Inv, Report PROVE V!Next
  <1> USE CStubMonitorAssumption
  <1> DEFINE R == {h \in CStubs : <<h, gen[h]>> \in resurrect}
  <1>1. /\ confirmedDeletions' = Truncated(clearRefs) \ resurrect
        /\ resurrections' = resurrect
        /\ Truncated(clearRefs) = Unsettled
    BY ReportExact DEF Inv
  <1>2. UNCHANGED <<state, gen>> /\ ReportDue
    BY DEF Report, PublishReport, ReportDue
  <1>3. \A h \in CStubs : state[h] # "restoring"
    BY <1>2 DEF Inv, RestoreInv
  <1>4. \A h \in CStubs : state[h] \in {"finalizable", "consuming"} =>
                             <<h, gen[h]>> \in Unsettled
    BY DEF Unsettled, Heads, Inv, TypeInv, TypeOK
  <1>5. Unsettled \cap Reported = {}
    <2>1. Cardinality(Owed) = 0
      BY <1>2 DEF Inv, IInv, DueInv, CounterExact
    <2>2. Owed = {}
      BY <2>1, OwedFinite, FS_EmptySet
    <2>3. QED
      BY <2>2 DEF Owed, Reported
  <1>6. \A h \in V!Open : /\ state[h] \in {"finalizable", "consuming"}
                           /\ <<h, gen[h]>> \in Unsettled
    BY <1>3, <1>4, OpenHeads DEF Inv, TypeInv, TypeOK
  <1>7. \A h \in V!Open : Status[h] = "waiting"
    BY <1>5, <1>6, OpenHeads DEF Status, Reported
  <1>8. R \subseteq V!Open
    BY <1>1, OpenHeads DEF Unsettled, Inv, IInv, DueInv
  <1>9. \A h \in CStubs :
           Status'[h] = IF h \notin V!Open THEN Status[h]
                        ELSE IF h \in R THEN "resurrect" ELSE "delete"
    <2>1. ASSUME NEW h \in CStubs, h \notin V!Open
          PROVE  Status'[h] = Status[h]
      BY <1>2, <2>1, OpenHeads DEF Status
    <2>2. ASSUME NEW h \in V!Open
          PROVE  Status'[h] = IF h \in R THEN "resurrect" ELSE "delete"
      BY <1>1, <1>2, <1>6, <2>2, OpenHeads DEF Status
    <2>3. QED
      BY <2>1, <2>2
  <1>10. V!Decide(R)
    <2>1. Status' = [h \in CStubs |-> Status'[h]]
      BY DEF Status
    <2>2. QED
      BY <1>7, <1>8, <1>9, <2>1 DEF V!Decide
  <1>11. QED
    BY <1>10 DEF V!Next

LEMMA FinalizerSimulated ==
    ASSUME Inv, NEW f \in Finalizers, FinalizerStep(f)
    PROVE  V!Next \/ UNCHANGED Status
  <1> USE CStubMonitorAssumption DEF Inv, Threads
  <1> DEFINE j == job[f]
             u == <<j, gen[j]>>
  <1>1. UNCHANGED <<confirmedDeletions, resurrections>>
    BY FinalizerFrame
  <1>2. ASSUME ConsumeDeletion(f) PROVE V!Next
    <2>1. /\ j \in CStubs /\ j \in Handles /\ state[j] = "consuming"
      BY <1>2, AskedIsOwed DEF ConsumeDeletion
    <2>2. u \in confirmedDeletions
      <3>1. PICK r \in confirmedDeletions : r[1] = j
        BY <1>2 DEF ConsumeDeletion, Named
      <3>2. r = <<r[1], r[2]>> /\ r[2] = gen[r[1]]
        BY DEF IInv, ReportInv, TypeInv, TypeOK, Heads
      <3>3. QED
        BY <3>1, <3>2
    <2>3. /\ UNCHANGED gen
          /\ \A h \in CStubs : state'[h] = IF h = j THEN "gone" ELSE state[h]
      BY <1>2, <2>1 DEF ConsumeDeletion, FinishHead, TypeInv, TypeOK
    <2>4. Status[j] = "delete" /\ Status'[j] = "gone"
      BY <2>1, <2>2, <2>3 DEF Status
    <2>5. \A h \in CStubs \ {j} : Status'[h] = Status[h]
      BY <1>1, <2>3 DEF Status
    <2>6. Status' = [Status EXCEPT ![j] = "gone"]
      BY <2>4, <2>5 DEF Status
    <2>7. QED
      BY <2>1, <2>4, <2>6 DEF V!Next, V!Delete
  <1>3. ASSUME ConsumeResurrection(f) PROVE UNCHANGED Status
    <2>1. /\ j \in CStubs /\ j \in Handles /\ state[j] = "consuming"
          /\ u \in Reported
      BY <1>3, AskedIsOwed DEF ConsumeResurrection
    <2>2. u \notin confirmedDeletions /\ u \in resurrections
      BY <1>3, <2>1 DEF ConsumeResurrection, Named, Reported
    <2>3. /\ UNCHANGED gen
          /\ \A h \in CStubs :
                state'[h] = IF h = j THEN "restoring" ELSE state[h]
      BY <1>3, <2>1
      DEF ConsumeResurrection, TakeResurrection, TypeInv, TypeOK
    <2>4. Status'[j] = Status[j]
      BY <2>1, <2>2, <2>3 DEF Status
    <2>5. \A h \in CStubs \ {j} : Status'[h] = Status[h]
      BY <1>1, <2>3 DEF Status
    <2>6. QED
      BY <2>4, <2>5 DEF Status
  <1>4. ASSUME Restore(f) PROVE V!Next
    <2>1. /\ j \in CStubs /\ j \in Handles /\ state[j] = "restoring"
      BY <1>4 DEF Restore, TypeInv, JobInv
    <2>2. /\ \A h \in CStubs : state'[h] = IF h = j THEN "live" ELSE state[h]
          /\ \A h \in CStubs : h # j => gen'[h] = gen[h]
      BY <1>4, <2>1 DEF Restore, TypeInv, TypeOK
    <2>3. Status[j] = "resurrect" /\ Status'[j] = "live"
      BY <2>1, <2>2 DEF Status
    <2>4. \A h \in CStubs \ {j} : Status'[h] = Status[h]
      BY <1>1, <2>2 DEF Status
    <2>5. Status' = [Status EXCEPT ![j] = "live"]
      BY <2>3, <2>4 DEF Status
    <2>6. QED
      BY <2>1, <2>3, <2>5 DEF V!Next, V!Resurrect
  <1>5. ASSUME ConsumeNothing(f) PROVE FALSE
    <2>1. u \in Reported
      BY <1>5, AskedIsOwed DEF ConsumeNothing
    <2>2. QED
      BY <1>5, <2>1 DEF ConsumeNothing, Named, Reported
  <1>6. ASSUME NEW h \in Handles, FinalizeHead(f, h) PROVE UNCHANGED Status
    <2>1. /\ UNCHANGED gen
          /\ \A k \in CStubs :
                \/ state'[k] = state[k]
                \/ {state[k], state'[k]} \subseteq {"finalizable", "consuming"}
      BY <1>6 DEF FinalizeHead, TypeInv, TypeOK
    <2>2. QED
      BY <1>1, <2>1, StutterStatus
  <1>7. ASSUME \/ ConsumeWaits(f) \/ TriggerWaits(f) \/ PerformFinalization(f)
               \/ \E o \in Triggers : FinalizeTrigger(f, o)
        PROVE  UNCHANGED Status
    <2>1. UNCHANGED <<state, gen>>
      BY <1>7
      DEF ConsumeWaits, TriggerWaits, PerformFinalization, FinalizeTrigger
    <2>2. QED
      BY <1>1, <2>1, StutterStatus
  <1>8. QED
    BY <1>2, <1>3, <1>4, <1>5, <1>6, <1>7 DEF FinalizerStep

LEMMA StepSimulated ==
    ASSUME ~CyclesOverlap
    PROVE  Inv /\ [Next]_vars => [V!Next]_Status
  <1> SUFFICES ASSUME Inv, [Next]_vars PROVE V!Next \/ UNCHANGED Status
    OBVIOUS
  <1>1. ASSUME EnqueueStep \/ (ReaperStep /\ ~Report) PROVE UNCHANGED Status
    <2>1. UNCHANGED <<state, gen, confirmedDeletions, resurrections>>
      BY <1>1
      DEF EnqueueStep, Enqueue, ReaperStep, CollectBatch, CheckGraph,
          ReportWaits, AwaitWaits, AwaitCStubs, AwaitEnds, ClearReferences,
          report
    <2>2. QED
      BY <2>1, StutterStatus
  <1>2. CASE UNCHANGED vars
    BY <1>2, StutterStatus DEF vars
  <1>3. QED
    BY <1>1, <1>2, CollectSimulated, ReportSimulated, FinalizerSimulated
    DEF Next, ReaperStep

\* For any number of CStubs, finalizer threads and collections, the protocol
\* carries out one atomic decision per collection (JyNI.java 1226-1335),
\* provided that the reaper's batches are complete and a collection starts
\* only when the last one is settled.
THEOREM VerdictImplemented ==
    ASSUME ChunksComplete, ~CyclesOverlap
    PROVE  Spec => ImplementsVerdict
  <1>1. Init => V!Init
    BY CStubMonitorAssumption DEF Init, V!Init, Status
  <1>2. Spec => []Inv
    BY InitTypeInv, InitIInv, InitRestoreInv, NextTypeInv, NextIInv,
       NextRestoreInv, PTL
    DEF Spec, Inv
  <1>3. QED
    BY <1>1, <1>2, StepSimulated, PTL DEF Spec, ImplementsVerdict, V!Spec

-----------------------------------------------------------------------------
(* One finalizer thread, as HotSpot has it.                                *)

OneFinalizer == \A f, g \in Finalizers : f = g

\* What the walk has explored is forgotten by a finalizer that is still at
\* work, or by one that has yet to ask.
ExploreInv ==
    /\ alreadyExplored # {} => confirmationsUnconsumed > 0 \/ last # {}
    /\ \A f \in Finalizers : pc[f] = "restore" /\ f \notin last => confirmationsUnconsumed > 0
    /\ \A f \in last : pc[f] = "restore"

LEMMA NextExploreInv ==
    ASSUME OneFinalizer
    PROVE  TypeInv /\ ExploreInv /\ [Next]_vars => ExploreInv'
  <1> SUFFICES ASSUME TypeInv, ExploreInv, [Next]_vars PROVE ExploreInv'
    OBVIOUS
  <1> USE CStubMonitorAssumption
      DEF TypeInv, TypeOK, PcInv, Threads, jvm, report, batch, exploration
  <1>1. ASSUME NEW S \in SUBSET Handles, NEW T \in SUBSET Triggers, GarbageCollect(S, T)
        PROVE  ExploreInv'
    BY <1>1 DEF GarbageCollect, ExploreInv
  <1>2. CASE EnqueueStep
    BY <1>2 DEF EnqueueStep, Enqueue, ExploreInv
  <1>3. CASE ReaperStep
    <2>1. ASSUME Report PROVE ExploreInv'
      <3>1. /\ confirmationsUnconsumed = 0 /\ last' = last
            /\ \A f \in Finalizers : pc'[f] = pc[f]
            /\ alreadyExplored' \in {alreadyExplored, {}}
        BY <2>1 DEF Report, PublishReport, Outstanding, postProcessCStubGCCycle
      <3>2. QED
        BY <3>1 DEF ExploreInv
    <2>2. ASSUME ReaperStep, ~Report
          PROVE  /\ UNCHANGED <<confirmationsUnconsumed, last, alreadyExplored>>
                 /\ \A f \in Finalizers : pc'[f] = pc[f]
      BY <2>2 DEF ReaperStep, CollectBatch, CheckGraph, ReportWaits, AwaitWaits,
                  AwaitCStubs, AwaitEnds, ClearReferences
    <2>3. QED
      BY <1>3, <2>1, <2>2 DEF ExploreInv
  <1>4. ASSUME NEW f \in Finalizers, FinalizerStep(f) PROVE ExploreInv'
    <2>1. Finalizers = {f} /\ (last = {} \/ last = {f})
      BY DEF OneFinalizer
    <2>2. CASE ConsumeDeletion(f) \/ ConsumeResurrection(f)
      <3>1. /\ pc[f] = "consume" /\ confirmationsUnconsumed' = confirmationsUnconsumed - 1
            /\ confirmationsUnconsumed # 0 /\ last = {}
        BY <2>1, <2>2
        DEF ConsumeDeletion, ConsumeResurrection, TakeResurrection, Asks, Answers, ExploreInv
      <3>2. confirmationsUnconsumed' = 0 \/ confirmationsUnconsumed' > 0
        BY <3>1
      <3>3. CASE ConsumeDeletion(f)
        <4>1. /\ pc'[f] = "idle" /\ last' = {}
              /\ confirmationsUnconsumed' = 0 => alreadyExplored' = {}
          BY <3>1, <3>3 DEF ConsumeDeletion, FinishHead, postProcessCStubGCCycle
        <4>2. QED
          BY <2>1, <3>2, <4>1 DEF ExploreInv
      <3>4. CASE ConsumeResurrection(f)
        <4>1. /\ pc'[f] = "restore"
              /\ last' = IF confirmationsUnconsumed' = 0 THEN {f} ELSE {}
          BY <3>1, <3>4 DEF ConsumeResurrection, TakeResurrection
        <4>2. QED
          BY <2>1, <3>2, <4>1 DEF ExploreInv
      <3>5. QED
        BY <2>2, <3>3, <3>4
    <2>3. CASE Restore(f)
      <3>1. /\ pc[f] = "restore" /\ pc'[f] = "idle" /\ last' = last \ {f}
            /\ UNCHANGED confirmationsUnconsumed
            /\ f \in last => alreadyExplored' = {}
        BY <2>3 DEF Restore, postProcessCStubGCCycle
      <3>2. QED
        BY <2>1, <3>1 DEF ExploreInv
    <2>4. CASE ~ConsumeDeletion(f) /\ ~ConsumeResurrection(f) /\ ~Restore(f)
      <3>1. /\ UNCHANGED <<confirmationsUnconsumed, last, alreadyExplored>>
            /\ pc'[f] # "restore" /\ pc[f] # "restore"
        BY <1>4, <2>4
        DEF FinalizerStep, FinalizeHead, ConsumeWaits, ConsumeNothing, FinishHead,
            FinalizeTrigger, TriggerWaits, PerformFinalization, Asks
      <3>2. QED
        BY <2>1, <3>1 DEF ExploreInv
    <2>5. QED
      BY <2>2, <2>3, <2>4
  <1>5. CASE UNCHANGED vars
    BY <1>5 DEF vars, ExploreInv
  <1>6. QED
    BY <1>1, <1>2, <1>3, <1>4, <1>5 DEF Next

\* Between two collections nothing is left of the last walk over reachable
\* objects (JyNI.java 1416-1418).  With several finalizer threads the one that
\* took the last confirmation may finish before another one explores.
THEOREM WalkForgotten ==
    ASSUME ChunksComplete, ~CyclesOverlap, OneFinalizer
    PROVE  Spec => []ExplorationForgotten
  <1>1. Init => ExploreInv
    BY CStubMonitorAssumption DEF Init, ExploreInv, Threads
  <1>2. TypeInv /\ IInv /\ ExploreInv => ExplorationForgotten
    <2> SUFFICES ASSUME TypeInv, IInv, ExploreInv, Quiescent PROVE alreadyExplored = {}
      BY DEF ExplorationForgotten
    <2>1. confirmationsUnconsumed = 0
      BY QuiescentSettled
    <2>2. \A f \in Finalizers : pc[f] = "idle"
      BY CStubMonitorAssumption DEF Quiescent, Threads
    <2>3. last = {}
      BY <2>2 DEF ExploreInv, TypeInv, TypeOK
    <2>4. QED
      BY <2>1, <2>3 DEF ExploreInv
  <1>3. TypeInv /\ ExploreInv /\ [Next]_vars => ExploreInv'
    BY NextExploreInv
  <1>4. QED
    BY <1>1, <1>2, <1>3, ProtocolInvariant, PTL DEF Spec
=============================================================================
