--------------------------- MODULE TrackedObjects ---------------------------
(***************************************************************************)
(* What the exploration of native objects promises: native code may track  *)
(* and untrack garbage-collected objects in any order during a call, and   *)
(* when the call returns to Java every tracked object has been explored,   *)
(* so that the Java collector sees its references.                         *)
(***************************************************************************)
CONSTANT Objects

VARIABLES tracked, explored, busy

trackedVars == <<tracked, explored, busy>>

TrackedTypeOK ==
    /\ tracked \in SUBSET Objects
    /\ explored \in SUBSET tracked
    /\ busy \in BOOLEAN

TrackedInit ==
    /\ tracked = {}
    /\ explored = {}
    /\ busy = FALSE

BeginCall ==
    /\ ~busy
    /\ busy' = TRUE
    /\ UNCHANGED <<tracked, explored>>

TrackObject(o) ==
    /\ busy
    /\ o \notin tracked
    /\ tracked' = tracked \cup {o}
    /\ UNCHANGED <<explored, busy>>

(* An object converted from Java is tracked and explored at once, and this *)
(* may happen outside a call.                                              *)
AdoptObject(o) ==
    /\ o \notin tracked
    /\ tracked' = tracked \cup {o}
    /\ explored' = explored \cup {o}
    /\ UNCHANGED busy

UntrackObject(o) ==
    /\ busy
    /\ o \in tracked
    /\ tracked' = tracked \ {o}
    /\ explored' = explored \ {o}
    /\ UNCHANGED busy

ExploreObject(o) ==
    /\ busy
    /\ o \in tracked \ explored
    /\ explored' = explored \cup {o}
    /\ UNCHANGED <<tracked, busy>>

EndCall ==
    /\ busy
    /\ tracked \subseteq explored
    /\ busy' = FALSE
    /\ UNCHANGED <<tracked, explored>>

TrackedNext ==
    \/ BeginCall
    \/ EndCall
    \/ \E o \in Objects :
          TrackObject(o) \/ AdoptObject(o) \/ UntrackObject(o) \/ ExploreObject(o)

TrackedSpec == TrackedInit /\ [][TrackedNext]_trackedVars
=============================================================================
