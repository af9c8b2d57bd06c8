--------------------------- MODULE PairedObjects ---------------------------
(***************************************************************************)
(* What the conversions promise: a native object and a Java object are     *)
(* counterparts of each other and of nobody else, from the first           *)
(* conversion until one of them dies.  A second conversion of either finds *)
(* the other; only the death of the one frees the other for a new          *)
(* counterpart.                                                            *)
(***************************************************************************)
CONSTANTS Natives, Javas

VARIABLES natives, javas, pairs

pairVars == <<natives, javas, pairs>>

PairTypeOK ==
    /\ natives \subseteq Natives
    /\ javas \subseteq Javas
    /\ pairs \subseteq natives \X javas

PairInit == natives = {} /\ javas = {} /\ pairs = {}

NativeBorn(o) ==
    /\ o \notin natives
    /\ natives' = natives \cup {o}
    /\ UNCHANGED <<javas, pairs>>

JavaBorn(j) ==
    /\ j \notin javas
    /\ javas' = javas \cup {j}
    /\ UNCHANGED <<natives, pairs>>

Single(o, j) == \A p \in pairs : p[1] # o /\ p[2] # j

(* The conversion of o makes the Java object j.                            *)
PairNative(o, j) ==
    /\ o \in natives
    /\ j \notin javas
    /\ Single(o, j)
    /\ javas' = javas \cup {j}
    /\ pairs' = pairs \cup {<<o, j>>}
    /\ UNCHANGED natives

(* The conversion of j makes the native object o.                          *)
PairJava(o, j) ==
    /\ o \notin natives
    /\ j \in javas
    /\ Single(o, j)
    /\ natives' = natives \cup {o}
    /\ pairs' = pairs \cup {<<o, j>>}
    /\ UNCHANGED javas

(* A native object, a Java object or both at once die.                     *)
Die(os, js) ==
    /\ os \subseteq natives
    /\ js \subseteq javas
    /\ natives' = natives \ os
    /\ javas' = javas \ js
    /\ pairs' = {p \in pairs : p[1] \notin os /\ p[2] \notin js}

PairNext ==
    \/ \E o \in Natives : NativeBorn(o)
    \/ \E j \in Javas : JavaBorn(j)
    \/ \E o \in Natives, j \in Javas : PairNative(o, j) \/ PairJava(o, j)
    \/ \E o \in Natives : Die({o}, {})
    \/ \E j \in Javas : Die({}, {j})
    \/ \E o \in Natives, j \in Javas : Die({o}, {j})

PairSpec == PairInit /\ [][PairNext]_pairVars
=============================================================================
