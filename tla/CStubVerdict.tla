---------------------------- MODULE CStubVerdict ----------------------------
(***************************************************************************)
(* What the confirmation protocol of CStubMonitor promises: each Java      *)
(* garbage collection takes a set of CStubs out of use, native code        *)
(* decides once and for all of them together which are deleted and which   *)
(* are resurrected, each CStub meets the fate decided for it, and the next *)
(* collection comes after that.                                            *)
(***************************************************************************)
CONSTANT CStubs

VARIABLE status

Open == {h \in CStubs : status[h] \in {"waiting", "delete", "resurrect"}}

Init == status = [h \in CStubs |-> "live"]

Collect(S) ==
    /\ Open = {}
    /\ \A h \in S : status[h] = "live"
    /\ status' = [h \in CStubs |-> IF h \in S THEN "waiting" ELSE status[h]]

Decide(R) ==
    /\ \A h \in Open : status[h] = "waiting"
    /\ R \subseteq Open
    /\ status' = [h \in CStubs |-> IF h \notin Open THEN status[h]
                                   ELSE IF h \in R THEN "resurrect"
                                   ELSE "delete"]

Delete(h) ==
    /\ status[h] = "delete"
    /\ status' = [status EXCEPT ![h] = "gone"]

Resurrect(h) ==
    /\ status[h] = "resurrect"
    /\ status' = [status EXCEPT ![h] = "live"]

Next ==
    \/ \E S \in SUBSET CStubs : Collect(S)
    \/ \E R \in SUBSET CStubs : Decide(R)
    \/ \E h \in CStubs : Delete(h) \/ Resurrect(h)

Spec == Init /\ [][Next]_status
=============================================================================
