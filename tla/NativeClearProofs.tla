-------------------------- MODULE NativeClearProofs --------------------------
(***************************************************************************)
(* Proofs about ReferenceGraph, for any pool and any heap: the counts that *)
(* checkReferenceGraph computes are right, and what its breadth-first      *)
(* search keeps is exactly what is reachable from outside the pool.        *)
(* Proofs about NativeClear: the verdict of the check stays true although  *)
(* other threads run, reference counts are exact, nothing that will still  *)
(* be used is deallocated, and what is not needed is.                      *)
(***************************************************************************)
EXTENDS NativeClear, FiniteSetTheorems, TLAPS

-----------------------------------------------------------------------------
(* Counting references.                                                    *)

Held(S, q) == {s \in S \X Fields : refs[s] = q}

LEMMA HeldFinite ==
    ASSUME NEW S \in SUBSET Pool, NEW q
    PROVE  IsFiniteSet(Held(S, q)) /\ References(S, q) \in Nat
  <1>1. IsFiniteSet(S) /\ IsFiniteSet(S \X Fields)
    BY ReferenceGraphAssumption, FS_Subset, FS_Product
  <1>2. IsFiniteSet(Held(S, q))
    BY <1>1, FS_Subset DEF Held
  <1>3. QED
    BY <1>2, FS_CardinalityType DEF Held, References

\* Traversing one more member accounts for the references it holds.
LEMMA ReferencesSplit ==
    ASSUME NEW S \in SUBSET Pool, NEW p \in S, NEW q
    PROVE  References(S, q) = References({p}, q) + References(S \ {p}, q)
  <1> DEFINE A == Held({p}, q)
             B == Held(S \ {p}, q)
  <1>1. IsFiniteSet(A) /\ IsFiniteSet(B)
    BY HeldFinite
  <1>2. Held(S, q) = A \cup B /\ A \cap B = {}
    BY DEF Held
  <1>3. Cardinality(A \cup B) = Cardinality(A) + Cardinality(B)
                                 - Cardinality(A \cap B)
    BY <1>1, FS_Union
  <1>4. Cardinality(A \cap B) = 0
    BY <1>2, FS_EmptySet
  <1>5. Cardinality(A) \in Nat /\ Cardinality(B) \in Nat
    BY <1>1, FS_CardinalityType
  <1>6. Cardinality(A \cup B) = Cardinality(A) + Cardinality(B)
    BY <1>3, <1>4, <1>5
  <1>7. QED
    BY <1>2, <1>6 DEF Held, References

LEMMA ReferencesEmpty == ASSUME NEW q PROVE References({}, q) = 0
  <1>1. {s \in {} \X Fields : refs[s] = q} = {}
    OBVIOUS
  <1>2. QED
    BY <1>1, FS_EmptySet DEF References

LEMMA ReferencesPositive ==
    ASSUME NEW p \in Pool, NEW q
    PROVE  References({p}, q) > 0 <=> \E f \in Fields : refs[<<p, f>>] = q
  <1>1. IsFiniteSet(Held({p}, q)) /\ References({p}, q) \in Nat
    BY HeldFinite
  <1>2. References({p}, q) = 0 <=> Held({p}, q) = {}
    BY <1>1, FS_EmptySet DEF References, Held
  <1>3. Held({p}, q) = {} <=> ~\E f \in Fields : refs[<<p, f>>] = q
    <2>1. ASSUME NEW f \in Fields, refs[<<p, f>>] = q
          PROVE  <<p, f>> \in Held({p}, q)
      BY <2>1 DEF Held
    <2>2. ASSUME NEW s \in Held({p}, q)
          PROVE  \E f \in Fields : refs[<<p, f>>] = q
      <3>1. PICK f \in Fields : s = <<p, f>>
        BY DEF Held
      <3>2. QED
        BY <3>1 DEF Held
    <2>3. QED
      BY <2>1, <2>2
  <1>4. QED
    BY <1>1, <1>2, <1>3

-----------------------------------------------------------------------------
(* The inductive invariant.                                                *)

HeapInv ==
    /\ gc \subseteq Pool
    /\ refs \in [Pool \X Fields -> Pool \cup {Null}]
    /\ outside \in [Pool -> Nat]
    /\ weak \in [Pool -> Nat]
    /\ \A p \in Pool : weak[p] <= outside[p]

\* Before a member is traversed, its references are still counted.
SubtractInv ==
    pc = "subtract" =>
        /\ \A q \in Pool : result[q] = 1 + outside[q] + References(todo, q)
        /\ \A q \in Pool : restoreRefs[q] = 0

\* What the search has found, and what its current round is about to find.
Seen == {q \in Pool : result[q] > 1 \/ restoreRefs[q] > 0}

SearchInv ==
    pc # "subtract" =>
        /\ \A p \in Pool : outside[p] > 0 => result[p] > 1
        /\ todo \subseteq Kept
        /\ graphInvalid <=> \E p \in Pool : outside[p] > weak[p]
        /\ ~graphInvalid => pc = "done" /\ \A p \in Kept : outside[p] > 0
        /\ graphInvalid =>
             \A p \in (gc \cap Kept) \ todo, f \in Fields :
                refs[<<p, f>>] \in Seen \cup {Null}
        /\ \A S \in SUBSET Pool : Closed(S) => Seen \subseteq S
        /\ pc = "done" => todo = {} /\ \A q \in Pool : restoreRefs[q] = 0

GraphInv == TypeOK /\ HeapInv /\ SubtractInv /\ SearchInv

LEMMA InitGraphInv == Init => GraphInv
  <1> SUFFICES ASSUME Init PROVE GraphInv
    OBVIOUS
  <1> USE ReferenceGraphAssumption DEF Init, HeapInit, CheckInit
  <1>1. HeapInv
    BY DEF HeapInv
  <1>2. \A q \in Pool : References(Pool, q) = References(gc, q)
    <2>1. ASSUME NEW q \in Pool
          PROVE  {s \in Pool \X Fields : refs[s] = q}
                   = {s \in gc \X Fields : refs[s] = q}
      BY <1>1 DEF HeapInv
    <2>2. QED
      BY <2>1 DEF References
  <1>3. \A q \in Pool : /\ References(gc, q) \in Nat
                        /\ result[q] = 1 + outside[q] + References(gc, q)
    <2>1. ASSUME NEW q \in Pool
          PROVE  /\ References(gc, q) \in Nat
                 /\ result[q] = 1 + outside[q] + References(gc, q)
      <3>1. References(gc, q) \in Nat
        BY <1>1, HeldFinite DEF HeapInv
      <3>2. outside[q] \in Nat
        BY <1>1 DEF HeapInv
      <3>3. QED
        BY <1>2, <3>1, <3>2 DEF InitialCount, RefCount
    <2>2. QED
      BY <2>1
  <1>4. TypeOK
    <2>1. \A q \in Pool : result[q] \in Nat \ {0}
      BY <1>1, <1>3 DEF HeapInv
    <2>2. result \in [Pool -> Nat \ {0}]
      BY <2>1
    <2>3. QED
      BY <1>1, <2>2 DEF TypeOK, HeapInv
  <1>5. SubtractInv /\ SearchInv
    BY <1>3 DEF SubtractInv, SearchInv
  <1>6. QED
    BY <1>1, <1>4, <1>5 DEF GraphInv

LEMMA SubtractKeepsInv ==
    ASSUME GraphInv, UNCHANGED heap, NEW p \in todo, Subtract(p)
    PROVE  GraphInv'
  <1> USE DEF heap
  <1>1. p \in Pool /\ todo \in SUBSET Pool
    BY DEF GraphInv, TypeOK
  <1>2. ASSUME NEW q \in Pool
        PROVE  /\ result'[q] = 1 + outside[q] + References(todo \ {p}, q)
               /\ References(todo \ {p}, q) \in Nat
    <2>1. /\ References(todo \ {p}, q) \in Nat
          /\ References({p}, q) \in Nat
      BY <1>1, HeldFinite
    <2>2. References(todo, q) = References({p}, q) + References(todo \ {p}, q)
      BY <1>1, ReferencesSplit
    <2>3. result[q] = 1 + outside[q] + References(todo, q) /\ outside[q] \in Nat
      BY DEF GraphInv, SubtractInv, Subtract, HeapInv
    <2>4. result'[q] = result[q] - References({p}, q)
      BY DEF Subtract
    <2>5. QED
      BY <2>1, <2>2, <2>3, <2>4
  <1>4. \A q \in Pool : References(todo, q)' = References(todo \ {p}, q)
    BY DEF References, Subtract
  <1>5. HeapInv'
    BY DEF GraphInv, HeapInv
  <1>6. TypeOK'
    <2>1. \A q \in Pool : result'[q] \in Nat \ {0}
      BY <1>2 DEF GraphInv, HeapInv
    <2>2. QED
      BY <2>1 DEF GraphInv, TypeOK, Subtract
  <1>7. SubtractInv'
    BY <1>2, <1>4 DEF GraphInv, SubtractInv, Subtract
  <1>8. SearchInv'
    BY DEF Subtract, SearchInv
  <1>9. QED
    BY <1>5, <1>6, <1>7, <1>8 DEF GraphInv

LEMMA JudgeKeepsInv ==
    ASSUME GraphInv, UNCHANGED heap, Judge
    PROVE  GraphInv'
  <1> USE DEF heap
  <1>1. /\ pc = "subtract" /\ todo = {}
        /\ UNCHANGED <<result, restoreRefs>>
        /\ graphInvalid' = \E p \in Pool : Unexplained(p)
        /\ todo' \subseteq gc
        /\ todo' = {} => pc' = "done"
        /\ pc' \in {"search", "done"}
    BY DEF Judge
  <1>2. \A q \in Pool : result[q] = 1 + outside[q]
    BY <1>1, ReferencesEmpty DEF GraphInv, SubtractInv, HeapInv
  <1>3. \A p \in Pool : outside[p] \in Nat /\ weak[p] \in Nat
    BY DEF GraphInv, HeapInv
  <1>4. \A p \in Pool : Unexplained(p) <=> outside[p] > weak[p]
    BY <1>2, <1>3 DEF Unexplained
  <1>5. TypeOK' /\ HeapInv' /\ SubtractInv'
    BY <1>1 DEF GraphInv, TypeOK, HeapInv, SubtractInv
  <1>6. todo' = IF graphInvalid' THEN {p \in gc : result[p] > 1} ELSE {}
    BY DEF Judge
  <1>7. SearchInv'
    <2>1. Seen' = {q \in Pool : outside[q] > 0}
      BY <1>1, <1>2, <1>3 DEF Seen, GraphInv, SubtractInv
    <2>2. \A S \in SUBSET Pool : Closed(S)' => Seen' \subseteq S
      BY <2>1 DEF Closed
    <2>3. /\ \A p \in Pool : outside'[p] > 0 => result'[p] > 1
          /\ todo' \subseteq Kept'
      BY <1>1, <1>2, <1>3, <1>6 DEF GraphInv, HeapInv, Kept
    <2>4. graphInvalid' => (gc \cap Kept)' \ todo' = {}
      BY <1>1, <1>6 DEF Kept
    <2>5. pc' = "done" => todo' = {} /\ \A q \in Pool : restoreRefs'[q] = 0
      BY <1>1 DEF Judge, GraphInv, SubtractInv
    <2>6. graphInvalid' <=> \E p \in Pool : outside'[p] > weak'[p]
      BY <1>1, <1>4
    <2>7. ~graphInvalid' => pc' = "done" /\ \A p \in Kept' : outside'[p] > 0
      BY <1>1, <1>2, <1>3, <1>6 DEF Kept
    <2>8. QED
      BY <2>2, <2>3, <2>4, <2>5, <2>6, <2>7 DEF SearchInv
  <1>8. QED
    BY <1>5, <1>7 DEF GraphInv

LEMMA TraverseKeepsInv ==
    ASSUME GraphInv, UNCHANGED heap, NEW p \in todo, Traverse(p)
    PROVE  GraphInv'
  <1> USE DEF heap
  <1>1. /\ pc = "search" /\ pc' = "search"
        /\ p \in Pool /\ p \in gc
        /\ todo' = todo \ {p}
        /\ UNCHANGED <<result, graphInvalid>>
    BY DEF Traverse, GraphInv, TypeOK
  <1>2. ASSUME NEW q \in Pool
        PROVE  /\ restoreRefs'[q] \in Nat
               /\ restoreRefs'[q] > 0 <=>
                    \/ restoreRefs[q] > 0
                    \/ \E f \in Fields : refs[<<p, f>>] = q
    <2>1. References({p}, q) \in Nat
      BY <1>1, HeldFinite
    <2>2. restoreRefs'[q] = restoreRefs[q] + References({p}, q)
      BY DEF Traverse
    <2>3. restoreRefs[q] \in Nat
      BY DEF GraphInv, TypeOK
    <2>4. References({p}, q) > 0 <=> \E f \in Fields : refs[<<p, f>>] = q
      BY <1>1, ReferencesPositive
    <2>5. restoreRefs'[q] > 0 <=> restoreRefs[q] > 0 \/ References({p}, q) > 0
      BY <2>1, <2>2, <2>3
    <2>6. restoreRefs'[q] \in Nat
      BY <2>1, <2>2, <2>3
    <2>7. QED
      BY <2>4, <2>5, <2>6
  <1>3. TypeOK' /\ HeapInv' /\ SubtractInv'
    BY <1>1, <1>2 DEF GraphInv, TypeOK, HeapInv, SubtractInv, Traverse
  <1>4. Seen' = Seen \cup {q \in Pool : \E f \in Fields : refs[<<p, f>>] = q}
    BY <1>1, <1>2 DEF Seen
  <1>5. Kept' = Kept /\ Kept \subseteq Seen
    BY <1>1 DEF Kept, Seen
  <1>6. p \in Kept
    BY <1>1 DEF GraphInv, SearchInv
  <1>7. SearchInv'
    <2>1. \A S \in SUBSET Pool : Closed(S)' => Seen' \subseteq S
      <3>1. ASSUME NEW S \in SUBSET Pool, Closed(S)'
            PROVE  Seen' \subseteq S
        <4>1. Closed(S)
          BY <3>1 DEF Closed
        <4>2. Seen \subseteq S
          BY <1>1, <4>1 DEF GraphInv, SearchInv
        <4>3. p \in S
          BY <1>5, <1>6, <4>2
        <4>4. \A f \in Fields : refs[<<p, f>>] \in S \cup {Null}
          BY <1>1, <4>1, <4>3 DEF Closed
        <4>5. QED
          BY <1>4, <4>2, <4>4, ReferenceGraphAssumption
      <3>2. QED
        BY <3>1
    <2>2. graphInvalid' =>
             \A x \in (gc \cap Kept') \ todo', f \in Fields :
                refs[<<x, f>>] \in Seen' \cup {Null}
      <3>1. ASSUME graphInvalid', NEW x \in (gc \cap Kept') \ todo',
                   NEW f \in Fields
            PROVE  refs[<<x, f>>] \in Seen' \cup {Null}
        <4>1. CASE x = p
          <5>1. refs[<<p, f>>] \in Pool \cup {Null}
            BY <1>1 DEF GraphInv, HeapInv
          <5>2. QED
            BY <1>4, <4>1, <5>1
        <4>2. CASE x # p
          BY <1>1, <1>4, <1>5, <3>1, <4>2 DEF GraphInv, SearchInv
        <4>3. QED
          BY <4>1, <4>2
      <3>2. QED
        BY <3>1
    <2>3. QED
      BY <1>1, <1>5, <2>1, <2>2 DEF GraphInv, SearchInv
  <1>8. QED
    BY <1>3, <1>7 DEF GraphInv

LEMMA NextRoundKeepsInv ==
    ASSUME GraphInv, UNCHANGED heap, NextRound
    PROVE  GraphInv'
  <1> USE DEF heap
  <1>1. /\ pc = "search" /\ todo = {}
        /\ pc' \in {"search", "done"} /\ (pc' = "done" => todo' = {})
        /\ todo' = gc \cap Found
        /\ UNCHANGED graphInvalid
        /\ \A q \in Pool : restoreRefs'[q] = 0
    BY DEF NextRound
  <1>2. ASSUME NEW q \in Pool
        PROVE  /\ result'[q] \in Nat \ {0}
               /\ result'[q] > 1 <=> result[q] > 1 \/ restoreRefs[q] > 0
               /\ q \in Found => result'[q] > 1
    <2>1. result[q] \in Nat \ {0} /\ restoreRefs[q] \in Nat
      BY DEF GraphInv, TypeOK
    <2>2. result'[q] = IF q \in Found THEN result[q] + restoreRefs[q]
                                      ELSE result[q]
      BY DEF NextRound
    <2>3. q \in Found <=> result[q] = 1 /\ restoreRefs[q] > 0
      BY DEF Found
    <2>4. QED
      BY <2>1, <2>2, <2>3
  <1>3. TypeOK' /\ HeapInv' /\ SubtractInv'
    BY <1>1, <1>2
    DEF GraphInv, TypeOK, HeapInv, SubtractInv, NextRound
  <1>4. Kept' = Seen /\ Seen' = Seen /\ Kept \subseteq Kept'
    BY <1>1, <1>2 DEF Kept, Seen
  <1>5. (gc \cap Kept') \ todo' = gc \cap Kept
    <2>1. \A q \in Pool : q \in Kept' <=> q \in Kept \/ q \in Found
      <3>1. ASSUME NEW q \in Pool PROVE q \in Kept' <=> q \in Kept \/ q \in Found
        <4>1. result[q] \in Nat \ {0} /\ restoreRefs[q] \in Nat
          BY DEF GraphInv, TypeOK
        <4>2. QED
          BY <1>2, <4>1 DEF Kept, Found
      <3>2. QED
        BY <3>1
    <2>2. Kept \cap Found = {} /\ gc \subseteq Pool
      BY DEF Kept, Found, GraphInv, TypeOK
    <2>3. QED
      BY <1>1, <2>1, <2>2
  <1>6. SearchInv'
    <2>1. \A p \in Pool : outside'[p] > 0 => result'[p] > 1
      BY <1>1, <1>2 DEF GraphInv, SearchInv
    <2>2. todo' \subseteq Kept'
      BY <1>1, <1>2 DEF Kept, Found
    <2>3. graphInvalid' =>
             \A x \in (gc \cap Kept') \ todo', f \in Fields :
                refs[<<x, f>>] \in Seen' \cup {Null}
      BY <1>1, <1>4, <1>5 DEF GraphInv, SearchInv
    <2>4. \A S \in SUBSET Pool : Closed(S)' => Seen' \subseteq S
      BY <1>1, <1>4 DEF GraphInv, SearchInv, Closed
    <2>5. QED
      BY <1>1, <2>1, <2>2, <2>3, <2>4 DEF GraphInv, SearchInv
  <1>7. QED
    BY <1>3, <1>6 DEF GraphInv

LEMMA NextGraphInv == GraphInv /\ [Next]_vars => GraphInv'
  <1>1. ASSUME GraphInv, UNCHANGED vars PROVE GraphInv'
    BY <1>1
    DEF vars, heap, check, GraphInv, TypeOK, HeapInv, SubtractInv, SearchInv,
        Kept, Seen, Closed, References
  <1>2. QED
    BY <1>1, SubtractKeepsInv, JudgeKeepsInv, TraverseKeepsInv,
       NextRoundKeepsInv
    DEF Next, CheckStep

LEMMA GraphInvariant == Spec => []GraphInv
  BY InitGraphInv, NextGraphInv, PTL DEF Spec

-----------------------------------------------------------------------------

\* No count ever drops below the reference of the object's own head: the
\* message "negative ref-count encountered" (gcmodule.c 2252-2255) is never
\* printed for a consistent heap.
THEOREM CountsTyped == Spec => []TypeOK
  <1>1. GraphInv => TypeOK
    BY DEF GraphInv
  <1>2. QED
    BY <1>1, GraphInvariant, PTL

\* The pool is judged self-contained exactly when nothing outside refers to it
\* other than weakly (gcmodule.c 2206-2257).
THEOREM VerdictExact == Spec => []ValidIsSelfContained
  <1>1. GraphInv => ValidIsSelfContained
    BY DEF GraphInv, SearchInv, ValidIsSelfContained
  <1>2. QED
    BY <1>1, GraphInvariant, PTL

\* What an invalid graph keeps is what outside references reach: deletion is
\* safe, and resurrection is minimal (gcmodule.c 2258-2303).
THEOREM SearchExact == Spec => []KeptIsReachable
  <1>1. ASSUME GraphInv PROVE KeptIsReachable
    <2> SUFFICES ASSUME pc = "done", graphInvalid PROVE Kept = Reachable
      BY DEF KeptIsReachable
    <2>1. todo = {} /\ Seen = Kept
      <3>1. todo = {} /\ \A q \in Pool : restoreRefs[q] = 0
        BY <1>1 DEF GraphInv, SearchInv
      <3>2. QED
        BY <3>1 DEF Seen, Kept
    <2>2. Closed(Kept)
      BY <1>1, <2>1 DEF GraphInv, SearchInv, Closed, Kept
    <2>3. Kept \subseteq Reachable
      BY <1>1, <2>1 DEF GraphInv, SearchInv, Reachable, Kept
    <2>4. Reachable \subseteq Kept
      BY <2>2 DEF Reachable, Kept
    <2>5. QED
      BY <2>3, <2>4
  <1>2. QED
    BY <1>1, GraphInvariant, PTL

\* Both: checkReferenceGraph decides by reachability from outside (gcmodule.c
\* 2198-2314).
THEOREM DecisionExact == Spec => []DecidesByReach
  BY VerdictExact, SearchExact, PTL DEF DecidesByReach

\* A round that goes on has marked a member that was not marked before: the
\* search ends after at most one round per member (gcmodule.c 2276-2302).
THEOREM SearchProgresses == Spec => SearchAdvances
  <1>1. ASSUME GraphInv, [Next]_vars,
               pc = "search", todo = {}, pc' = "search"
        PROVE  Kept \subseteq Kept' /\ (UNCHANGED vars \/ Kept # Kept')
    <2>1. CASE UNCHANGED vars
      BY <2>1 DEF vars, check, Kept
    <2>2. CASE Next
      <3>1. NextRound
        BY <1>1, <2>2 DEF Next, CheckStep, Subtract, Traverse, Judge
      <3>2. PICK q \in Pool : q \in Found
        BY <1>1, <3>1 DEF NextRound, Found
      <3>3. \A p \in Pool : result[p] \in Nat /\ restoreRefs[p] \in Nat
        BY <1>1 DEF GraphInv, TypeOK
      <3>4. \A p \in Pool : result'[p] = IF p \in Found THEN result[p] + restoreRefs[p]
                                                      ELSE result[p]
        BY <3>1 DEF NextRound
      <3>5. Kept \subseteq Kept'
        BY <3>3, <3>4 DEF Kept, Found
      <3>6. q \in Kept' /\ q \notin Kept
        BY <3>2, <3>3, <3>4 DEF Kept, Found
      <3>7. QED
        BY <3>5, <3>6
    <2>3. QED
      BY <1>1, <2>1, <2>2
  <1>2. ASSUME GraphInv, [Next]_vars
        PROVE  [ pc = "search" /\ todo = {} /\ pc' = "search" =>
                   Kept \subseteq Kept' /\ Kept # Kept' ]_vars
    BY <1>1, <1>2
  <1>3. QED
    BY <1>2, GraphInvariant, PTL DEF Spec, SearchAdvances

-----------------------------------------------------------------------------
(* NativeClear: its inductive invariant, in three parts with growing       *)
(* assumptions.                                                            *)

NativeTypes ==
    /\ TypeOK /\ HeapInv
    /\ truncated \subseteq Pool /\ clearable \subseteq gc
    /\ freed \subseteq Pool /\ left \subseteq Pool
    /\ restored \subseteq consumed /\ consumed \subseteq resurrected
    /\ resurrected \subseteq truncated
    /\ DOMAIN loaded = Pool
    /\ \A p \in Pool : loaded[p] # NotLoaded => p \in consumed
    /\ phase \in {"check", "await", "clear", "end"}

\* During the check, nothing but its own variables has changed.
Untouched ==
    /\ GraphInv
    /\ refcnt = [p \in Pool |-> RefCount(p)]
    /\ freed = {} /\ left = Pool
    /\ resurrected = {}
    /\ loaded = [p \in Pool |-> NotLoaded] /\ decref = NoDecref

\* The verdict, for any schedule: what the check kept is closed, whatever
\* other threads do afterwards.
VerdictInv ==
    /\ NativeTypes
    /\ phase = "check" => Untouched
    /\ phase # "check" => pc = "done" /\ (graphInvalid => Closed(Kept))

\* What was deallocated is out of everybody's reach.
FreedInv ==
    /\ freed \cap left = {}
    /\ \A p \in freed : outside[p] = 0
    /\ \A p \in Pool, f \in Fields : refs[<<p, f>>] \notin freed
    /\ \A p \in freed, f \in Fields : refs[<<p, f>>] = Null

\* The counts, if Py_INCREF and Py_DECREF are one step each.
CountInv ==
    /\ refcnt \in [Pool -> Nat]
    /\ loaded = [p \in Pool |-> NotLoaded] /\ decref = NoDecref
    /\ RefcountExact
    /\ FreedInv

\* What the check kept is the least closed set, and remains intact.
KeptInv ==
    /\ resurrected = IF graphInvalid THEN KeptCStubs ELSE {}
    /\ graphInvalid =>
         /\ \A S \in SUBSET Pool : Closed(S) => Kept \subseteq S
         /\ Kept \cap freed = {}
    /\ ~graphInvalid => \A p \in Kept : outside[p] > 0

\* What the loop has cleared: an object that refers to nothing any more, or is
\* about to be deallocated.
NoReferences(p) == \A f \in Fields : refs[<<p, f>>] = Null

ClearedInv ==
    /\ Breakable
    /\ gc \cap Eternal = {}
    /\ \A p \in Pool \ gc : NoReferences(p)
    /\ phase \in {"check", "await"} => left = Pool
    /\ phase = "end" => left = {}
    /\ \A p \in clearable \ (left \cup freed) :
          result[p] = 1 => refcnt[p] = 0 \/ NoReferences(p)

\* If, besides, no other native thread runs.
AloneInv ==
    /\ phase # "check" => KeptInv
    /\ ClearedInv

-----------------------------------------------------------------------------
(* The verdict, for any constants.                                         *)

\* Sets that hold what outside references reach include it all.
LEMMA ReachableLeast ==
    ASSUME NEW S \in SUBSET Pool, Closed(S)
    PROVE  Reachable \subseteq S
  BY DEF Reachable

LEMMA InitVerdictInv == NativeInit => VerdictInv
  <1> SUFFICES ASSUME NativeInit PROVE VerdictInv
    OBVIOUS
  <1>1. GraphInv
    BY InitGraphInv DEF NativeInit
  <1>2. Untouched
    BY <1>1 DEF Untouched, NativeInit
  <1>3. NativeTypes
    BY <1>1 DEF NativeTypes, NativeInit, GraphInv
  <1>4. QED
    BY <1>2, <1>3 DEF VerdictInv, NativeInit

LEMMA CheckKeepsVerdict ==
    ASSUME VerdictInv, Check
    PROVE  VerdictInv'
  <1> USE DEF Check
  <1>1. phase = "check" /\ phase' = "check" /\ Untouched /\ UNCHANGED <<heap, native>>
    BY DEF VerdictInv, native
  <1>2. GraphInv /\ [Next]_vars
    BY <1>1 DEF Untouched, Next
  <1>3. GraphInv'
    BY <1>2, NextGraphInv
  <1>4. Untouched'
    BY <1>1, <1>3 DEF Untouched, native, heap, RefCount, References
  <1>5. NativeTypes'
    BY <1>1, <1>3 DEF GraphInv, NativeTypes, VerdictInv, native, heap
  <1>6. QED
    BY <1>1, <1>4, <1>5 DEF VerdictInv

LEMMA ReportKeepsVerdict ==
    ASSUME VerdictInv, Report
    PROVE  VerdictInv'
  <1>1. /\ phase = "check" /\ pc = "done" /\ Untouched
        /\ phase' \in {"await", "clear"}
        /\ resurrected' = IF graphInvalid THEN KeptCStubs ELSE {}
        /\ UNCHANGED <<heap, check, truncated, clearable, refcnt, freed, consumed,
                   loaded, restored, left, decref>>
    BY DEF Report, VerdictInv
  <1>2. NativeTypes /\ consumed = {}
    BY <1>1 DEF VerdictInv, Untouched, NativeTypes
  <1>3. NativeTypes'
    BY <1>1, <1>2 DEF NativeTypes, KeptCStubs, TypeOK, HeapInv, heap, check
  <1>4. ASSUME graphInvalid PROVE Closed(Kept)
    <2>1. /\ \A q \in Pool : restoreRefs[q] = 0
          /\ todo = {}
          /\ \A p \in Pool : outside[p] > 0 => result[p] > 1
          /\ \A p \in (gc \cap Kept) \ todo, f \in Fields :
                refs[<<p, f>>] \in Seen \cup {Null}
      BY <1>1, <1>4 DEF Untouched, GraphInv, SearchInv
    <2>2. QED
      BY <2>1 DEF Closed, Kept, Seen
  <1>5. graphInvalid' => Closed(Kept)'
    BY <1>1, <1>4 DEF Closed, Kept, heap, check
  <1>6. QED
    BY <1>1, <1>3, <1>5 DEF VerdictInv, check

\* Steps that change neither the heap nor the verdict.
LEMMA HeapUntouchedKeepsVerdict ==
    ASSUME VerdictInv,
           AwaitCStubs \/ ReleaseLoad \/ ReleaseStore
           \/ \E p \in Pool : Consume(p) \/ RestoreLoad(p) \/ RestoreStore(p) \/ Restore(p)
    PROVE  VerdictInv'
  <1> DEFINE Late == /\ phase # "check" /\ phase' \in {"await", "clear", "end"}
                     /\ UNCHANGED <<heap, check, truncated, clearable, freed, left, resurrected>>
                     /\ restored' \subseteq consumed' /\ consumed' \subseteq resurrected
                     /\ DOMAIN loaded' = Pool
                     /\ \A q \in Pool : loaded'[q] # NotLoaded => q \in consumed'
  <1>1. NativeTypes /\ (phase = "check" => Untouched)
    BY DEF VerdictInv
  <1>2. phase = "check" => /\ resurrected = {} /\ consumed = {}
                           /\ \A p \in Pool : loaded[p] = NotLoaded
                           /\ decref[1] = Null /\ decref[2] = NotLoaded
    BY <1>1 DEF NoDecref, Untouched, NativeTypes
  <1>3. SUFFICES Late
    BY <1>1 DEF Late, VerdictInv, NativeTypes, TypeOK, HeapInv, Closed, Kept, heap, check
  <1>4. CASE AwaitCStubs
    BY <1>1, <1>4 DEF NativeTypes, AwaitCStubs
  <1>5. CASE ReleaseLoad
    BY <1>1, <1>2, <1>5 DEF NativeTypes, ReleaseLoad
  <1>6. CASE ReleaseStore
    BY <1>1, <1>2, <1>6 DEF NativeTypes, ReleaseStore
  <1>7. ASSUME NEW p \in Pool, Consume(p) PROVE Late
    BY <1>1, <1>2, <1>7 DEF NativeTypes, Consume
  <1>8. ASSUME NEW p \in Pool, RestoreLoad(p) PROVE Late
    BY <1>1, <1>2, <1>8 DEF NativeTypes, RestoreLoad
  <1>9. ASSUME NEW p \in Pool, RestoreStore(p) PROVE Late
    BY <1>1, <1>2, <1>9 DEF NativeTypes, RestoreStore
  <1>10. ASSUME NEW p \in Pool, Restore(p) PROVE Late
    BY <1>1, <1>2, <1>10 DEF NativeTypes, Restore
  <1>11. QED
    BY <1>4, <1>5, <1>6, <1>7, <1>8, <1>9, <1>10

\* What an object refers to is dropped when it is deallocated or cleared.
LEMMA NoFieldsTyped ==
    ASSUME NativeTypes, NEW p \in Pool
    PROVE  /\ NoFields(p) \in [Pool \X Fields -> Pool \cup {Null}]
           /\ \A q \in Pool, f \in Fields :
                 NoFields(p)[<<q, f>>] = IF q = p THEN Null ELSE refs[<<q, f>>]
  BY DEF NoFields, NativeTypes, TypeOK

LEMMA DroppingKeepsVerdict ==
    ASSUME VerdictInv,
           DeallocStep \/ \E p \in Pool : Release(p) \/ Clear(p)
    PROVE  VerdictInv'
  <1>1. NativeTypes
    BY DEF VerdictInv
  <1>2. PICK p \in Pool : Dealloc(p) \/ Release(p) \/ Clear(p)
    BY DEF DeallocStep
  <1>3. /\ refs' = refs \/ refs' = NoFields(p)
        /\ UNCHANGED <<gc, outside, weak, check, truncated, clearable,
                       resurrected, consumed, loaded, restored>>
        /\ freed' \subseteq Pool /\ left' \subseteq Pool
    BY <1>1, <1>2 DEF NativeTypes, Dealloc, Release, Clear, Turn
  <1>4. phase # "check" /\ phase' \in {"await", "clear", "end"}
    <2>1. CASE Release(p) \/ Clear(p)
      BY <2>1 DEF Release, Clear, Turn
    <2>2. CASE Dealloc(p)
      <3>1. phase = "check" => refcnt[p] # 0
        <4> SUFFICES ASSUME phase = "check" PROVE refcnt[p] # 0
          OBVIOUS
        <4>1. refcnt[p] = RefCount(p)
          BY DEF VerdictInv, Untouched
        <4>2. References(Pool, p) \in Nat /\ outside[p] \in Nat
          BY <1>1, HeldFinite DEF NativeTypes, HeapInv
        <4>3. QED
          BY <4>1, <4>2 DEF RefCount
      <3>2. QED
        BY <1>1, <2>2, <3>1 DEF Dealloc, NativeTypes
    <2>3. QED
      BY <1>2, <2>1, <2>2
  <1>5. /\ refs' \in [Pool \X Fields -> Pool \cup {Null}]
        /\ \A q \in Pool, f \in Fields : refs'[<<q, f>>] \in {refs[<<q, f>>], Null}
    BY <1>1, <1>3, NoFieldsTyped DEF NativeTypes, TypeOK
  <1>6. NativeTypes'
    BY <1>1, <1>3, <1>4, <1>5 DEF NativeTypes, TypeOK, HeapInv, check
  <1>7. pc = "done" /\ (graphInvalid => Closed(Kept))
    BY <1>4 DEF VerdictInv
  <1>8. graphInvalid' => Closed(Kept)'
    BY <1>1, <1>3, <1>5, <1>7 DEF Closed, Kept, check, NativeTypes, TypeOK
  <1>9. QED
    BY <1>3, <1>4, <1>6, <1>7, <1>8 DEF VerdictInv, check

\* Other threads reach only what was kept.
LEMMA OthersKeepVerdict ==
    ASSUME VerdictInv, OtherStep
    PROVE  VerdictInv'
  <1>1. NativeTypes
    BY DEF VerdictInv
  <1>2. PICK p \in Pool :
           \/ Drop(p) \/ Take(p)
           \/ \E f \in Fields, q \in Pool \cup {Null} : Store(p, f, q)
    BY DEF OtherStep
  <1>3. /\ phase \in {"await", "end"}
        /\ UNCHANGED <<gc, check, truncated, clearable, freed, resurrected,
                       consumed, loaded, restored, left, decref, phase>>
    BY <1>2 DEF Drop, Take, Store, GilFree
  <1>4. pc = "done" /\ (graphInvalid => Closed(Kept) /\ Reachable \subseteq Kept)
    BY <1>3, ReachableLeast DEF VerdictInv, Kept
  <1>5. SUFFICES HeapInv' /\ (graphInvalid => Closed(Kept)')
    BY <1>1, <1>3, <1>4
    DEF VerdictInv, NativeTypes, TypeOK, HeapInv, check
  <1>6. CASE Drop(p)
    <2>1. /\ outside[p] > 0 /\ outside' = [outside EXCEPT ![p] = @ - 1]
          /\ weak' \in {weak, [weak EXCEPT ![p] = @ - 1]}
          /\ 0 <= weak'[p] /\ weak'[p] <= outside'[p]
          /\ UNCHANGED refs
      BY <1>6 DEF Drop
    <2>2. \A q \in Pool : /\ outside'[q] \in Nat /\ weak'[q] \in Nat
                          /\ weak'[q] <= outside'[q]
                          /\ outside'[q] > 0 => outside[q] > 0
      BY <1>1, <2>1 DEF NativeTypes, HeapInv
    <2>3. HeapInv'
      BY <1>1, <1>3, <2>1, <2>2 DEF NativeTypes, HeapInv
    <2>4. QED
      BY <1>3, <1>4, <2>1, <2>2, <2>3 DEF Closed, Kept, check
  <1>7. CASE Take(p)
    <2>1. /\ p \in Reachable /\ outside' = [outside EXCEPT ![p] = @ + 1]
          /\ UNCHANGED <<refs, weak>>
      BY <1>7 DEF Take
    <2>2. HeapInv'
      BY <1>1, <1>3, <2>1 DEF NativeTypes, HeapInv
    <2>3. \A q \in Pool : outside'[q] > 0 => outside[q] > 0 \/ q = p
      BY <1>1, <2>1 DEF NativeTypes, HeapInv
    <2>4. QED
      BY <1>3, <1>4, <2>1, <2>2, <2>3 DEF Closed, Kept, check
  <1>8. ASSUME NEW f \in Fields, NEW q \in Pool \cup {Null}, Store(p, f, q)
        PROVE  HeapInv' /\ (graphInvalid => Closed(Kept)')
    <2>1. /\ q \in Reachable \cup {Null}
          /\ refs' = [refs EXCEPT ![<<p, f>>] = q]
          /\ UNCHANGED <<outside, weak>>
      BY <1>8 DEF Store
    <2>2. HeapInv'
      BY <1>1, <1>3, <2>1 DEF NativeTypes, HeapInv
    <2>3. \A r \in Pool, g \in Fields :
             refs'[<<r, g>>] = refs[<<r, g>>] \/ refs'[<<r, g>>] \in Reachable \cup {Null}
      BY <1>1, <2>1 DEF NativeTypes, HeapInv
    <2>4. QED
      BY <1>1, <1>3, <1>4, <2>1, <2>2, <2>3 DEF Closed, Kept, check, NativeTypes, TypeOK
  <1>9. QED
    BY <1>2, <1>6, <1>7, <1>8

LEMMA NextVerdictInv == VerdictInv /\ [NativeNext]_allVars => VerdictInv'
  <1>1. ASSUME VerdictInv, UNCHANGED allVars PROVE VerdictInv'
    BY <1>1
    DEF allVars, heap, check, native, VerdictInv, NativeTypes, Untouched, GraphInv,
        TypeOK, HeapInv, SubtractInv, SearchInv, Kept, Seen, Closed, References, RefCount
  <1>2. QED
    BY <1>1, CheckKeepsVerdict, ReportKeepsVerdict, HeapUntouchedKeepsVerdict,
       DroppingKeepsVerdict, OthersKeepVerdict
    DEF NativeNext, ReaperStep, FinalizerStep

LEMMA VerdictInvariant == NativeSpec => []VerdictInv
  BY InitVerdictInv, NextVerdictInv, PTL DEF NativeSpec

\* Whatever other native threads do while waitForCStubs has released the GIL,
\* weak references included, they never reach what the loop is about to clear
\* (gcmodule.c 2370-2388).
THEOREM VerdictStaysTrue == NativeSpec => []DoomedUnreachable
  <1>1. ASSUME VerdictInv PROVE DoomedUnreachable
    <2> SUFFICES ASSUME graphInvalid, phase \in {"await", "clear"},
                        NEW p \in Pool, result[p] = 1
                 PROVE  p \notin Reachable
      BY DEF DoomedUnreachable
    <2>1. Reachable \subseteq Kept
      BY <1>1, ReachableLeast DEF VerdictInv, Kept
    <2>2. QED
      BY <2>1 DEF Kept
  <1>2. QED
    BY <1>1, VerdictInvariant, PTL

-----------------------------------------------------------------------------
(* Counting references while the heap changes.                             *)

LEMMA NotReferenced ==
    ASSUME NEW q
    PROVE  References(Pool, q) = 0 <=> \A p \in Pool, f \in Fields : refs[<<p, f>>] # q
  <1>1. IsFiniteSet(Held(Pool, q))
    BY HeldFinite
  <1>2. References(Pool, q) = 0 <=> Held(Pool, q) = {}
    BY <1>1, FS_EmptySet DEF References, Held
  <1>3. QED
    BY <1>2 DEF Held

LEMMA HoldsNone ==
    ASSUME NEW p \in Pool, NEW q, \A f \in Fields : refs[<<p, f>>] # q
    PROVE  References({p}, q) = 0
  <1>1. ~(References({p}, q) > 0)
    BY ReferencesPositive
  <1>2. References({p}, q) \in Nat
    BY HeldFinite
  <1>3. QED
    BY <1>1, <1>2

\* An object that loses its fields takes their references with it.
LEMMA ReferencesWithout ==
    ASSUME NEW p \in Pool, NEW q \in Pool, NativeTypes, refs' = NoFields(p)
    PROVE  /\ References(Pool, q) \in Nat /\ References({p}, q) \in Nat
           /\ References(Pool, q)' \in Nat
           /\ References(Pool, q)' = References(Pool, q) - References({p}, q)
  <1>1. {s \in Pool \X Fields : refs'[s] = q} = Held(Pool \ {p}, q)
    BY ReferenceGraphAssumption DEF NoFields, Held
  <1>2. References(Pool, q)' = References(Pool \ {p}, q)
    BY <1>1 DEF References, Held
  <1>3. References(Pool, q) = References({p}, q) + References(Pool \ {p}, q)
    BY ReferencesSplit
  <1>4. /\ References(Pool, q) \in Nat /\ References({p}, q) \in Nat
        /\ References(Pool \ {p}, q) \in Nat
    BY HeldFinite
  <1>5. QED
    BY <1>2, <1>3, <1>4

Overwritten(p, f, q) == [refs EXCEPT ![<<p, f>>] = q]

\* A field that is overwritten refers to another object instead.
LEMMA ReferencesStored ==
    ASSUME NEW p \in Pool, NEW f \in Fields, NEW q \in Pool \cup {Null}, NEW r \in Pool,
           NativeTypes, refs[<<p, f>>] # q, refs' = Overwritten(p, f, q)
    PROVE  /\ References(Pool, r) \in Nat
           /\ References(Pool, r)' \in Nat
           /\ References(Pool, r)' = References(Pool, r) + (IF r = q THEN 1 ELSE 0)
                                       - (IF r = refs[<<p, f>>] THEN 1 ELSE 0)
  <1> DEFINE H == Held(Pool, r)
             N == {s \in Pool \X Fields : refs'[s] = r}
  <1>1. IsFiniteSet(H) /\ References(Pool, r) = Cardinality(H) /\ Cardinality(H) \in Nat
    BY HeldFinite DEF References, Held
  <1>2. References(Pool, r)' = Cardinality(N)
    BY DEF References
  <1>3. \A s \in Pool \X Fields : refs'[s] = IF s = <<p, f>> THEN q ELSE refs[s]
    BY DEF NativeTypes, TypeOK, Overwritten
  <1>4. CASE r = q
    <2>1. N = H \cup {<<p, f>>} /\ <<p, f>> \notin H
      BY <1>3, <1>4 DEF Held
    <2>2. Cardinality(N) = Cardinality(H) + 1
      BY <1>1, <2>1, FS_AddElement
    <2>3. QED
      BY <1>1, <1>2, <1>4, <2>2
  <1>5. CASE r = refs[<<p, f>>]
    <2>1. N = H \ {<<p, f>>} /\ <<p, f>> \in H
      BY <1>3, <1>5 DEF Held
    <2>2. Cardinality(N) = Cardinality(H) - 1 /\ Cardinality(N) \in Nat
      BY <1>1, <2>1, FS_RemoveElement, FS_CardinalityType
    <2>3. QED
      BY <1>1, <1>2, <1>5, <2>2
  <1>6. CASE r # q /\ r # refs[<<p, f>>]
    <2>1. N = H
      BY <1>3, <1>6 DEF Held
    <2>2. QED
      BY <1>1, <1>2, <1>6, <2>1
  <1>7. QED
    BY <1>4, <1>5, <1>6

-----------------------------------------------------------------------------
(* The counts.                                                             *)

\* The number of references to p that somebody is known to hold.
Owned(p) ==
    HeadReferences(p) + outside[p] + References(Pool, p) + (IF p \in Eternal THEN 1 ELSE 0)

LEMMA OwnedNat ==
    ASSUME NativeTypes, NEW p \in Pool
    PROVE  /\ HeadReferences(p) \in {0, 1, 2} /\ outside[p] \in Nat
           /\ References(Pool, p) \in Nat /\ Owned(p) \in Nat
  <1>1. References(Pool, p) \in Nat /\ outside[p] \in Nat
    BY HeldFinite DEF NativeTypes, HeapInv
  <1>2. HeadReferences(p) \in {0, 1, 2}
    BY DEF HeadReferences
  <1>3. QED
    BY <1>1, <1>2 DEF Owned

LEMMA InitCountInv == NativeInit => CountInv
  <1> SUFFICES ASSUME NativeInit PROVE CountInv
    OBVIOUS
  <1> USE DEF NativeInit
  <1>1. NativeTypes
    BY InitVerdictInv DEF VerdictInv
  <1>2. \A p \in Pool : refcnt[p] = Owned(p) /\ Owned(p) \in Nat
    BY <1>1, OwnedNat DEF RefCount, Owned, HeadReferences
  <1>3. refcnt \in [Pool -> Nat]
    BY <1>2
  <1>4. RefcountExact /\ FreedInv
    BY <1>2 DEF RefcountExact, Owned, FreedInv
  <1>5. QED
    BY <1>3, <1>4 DEF CountInv

\* Nothing that is counted changes.
LEMMA UncountedKeepsCount ==
    ASSUME CountInv, UNCHANGED <<refs, outside, refcnt, freed, loaded, restored, left, decref>>
    PROVE  CountInv'
  BY DEF CountInv, RefcountExact, FreedInv, HeadReferences, References

LEMMA RestoreKeepsCount ==
    ASSUME VerdictInv, CountInv, NEW p \in Pool, Restore(p)
    PROVE  CountInv'
  <1>1. NativeTypes
    BY DEF VerdictInv
  <1>2. /\ p \notin restored /\ restored' = restored \cup {p}
        /\ refcnt' = [refcnt EXCEPT ![p] = @ + 1]
        /\ UNCHANGED <<refs, outside, freed, loaded, left, decref>>
    BY DEF Restore, heap
  <1>3. refcnt' \in [Pool -> Nat] /\ \A q \in Pool : refcnt'[q] = refcnt[q] + (IF q = p THEN 1 ELSE 0)
    BY <1>2 DEF CountInv
  <1>4. \A q \in Pool : HeadReferences(q)' = HeadReferences(q) + (IF q = p THEN 1 ELSE 0)
    BY <1>2 DEF HeadReferences
  <1>5. \A q \in Pool : References(Pool, q)' = References(Pool, q)
    BY <1>2 DEF References
  <1>6. RefcountExact'
    <2>1. ASSUME NEW q \in Pool \ freed
          PROVE  refcnt'[q] = HeadReferences(q)' + outside[q] + References(Pool, q)
                                + (IF q \in Eternal THEN 1 ELSE 0)
      BY <1>1, <1>3, <1>4, OwnedNat DEF CountInv, RefcountExact
    <2>2. QED
      BY <1>2, <1>5, <2>1 DEF RefcountExact
  <1>7. QED
    BY <1>2, <1>3, <1>6 DEF CountInv, FreedInv

\* An object that is deallocated was held by nobody.
LEMMA DeallocKeepsCount ==
    ASSUME VerdictInv, CountInv, NEW p \in Pool, Dealloc(p)
    PROVE  /\ CountInv'
           /\ p \notin left \cup restored \cup Eternal
           /\ outside[p] = 0
           /\ \A q \in Pool, f \in Fields : refs[<<q, f>>] # p
  <1>1. NativeTypes
    BY DEF VerdictInv
  <1>2. /\ refcnt[p] = 0 /\ p \notin freed
        /\ freed' = freed \cup {p}
        /\ refcnt' = WithoutFieldsOf(p)
        /\ refs' = NoFields(p)
        /\ UNCHANGED <<outside, loaded, restored, left, decref>>
    BY DEF Dealloc
  <1>3. HeadReferences(p) = 0 /\ outside[p] = 0 /\ References(Pool, p) = 0 /\ p \notin Eternal
    BY <1>1, <1>2, OwnedNat DEF CountInv, RefcountExact
  <1>4. p \notin left /\ p \notin restored
    BY <1>3 DEF HeadReferences
  <1>5. \A q \in Pool, f \in Fields : refs[<<q, f>>] # p
    BY <1>3, NotReferenced
  <1>6. ASSUME NEW q \in Pool
        PROVE  /\ refcnt'[q] \in Nat
               /\ q \notin freed' => refcnt'[q] = Owned(q)'
    <2>1. /\ References(Pool, q) \in Nat /\ References({p}, q) \in Nat
          /\ References(Pool, q)' \in Nat
          /\ References(Pool, q)' = References(Pool, q) - References({p}, q)
      BY <1>1, <1>2, ReferencesWithout
    <2>2. refcnt'[q] = refcnt[q] - References({p}, q) /\ refcnt[q] \in Nat
      BY <1>2 DEF WithoutFieldsOf, CountInv
    <2>3. HeadReferences(q)' = HeadReferences(q)
      BY <1>2 DEF HeadReferences
    <2>4. CASE q \in freed'
      <3>1. \A f \in Fields : refs[<<p, f>>] # q
        BY <1>2, <1>5, <2>4 DEF CountInv, FreedInv
      <3>2. References({p}, q) = 0
        BY <3>1, HoldsNone
      <3>3. refcnt'[q] \in Nat
        BY <2>2, <3>2
      <3>4. QED
        BY <2>4, <3>3
    <2>5. CASE q \notin freed'
      <3>1. refcnt[q] = HeadReferences(q) + outside[q] + References(Pool, q)
                          + (IF q \in Eternal THEN 1 ELSE 0)
        BY <1>2, <2>5 DEF CountInv, RefcountExact
      <3>2. HeadReferences(q) \in Nat /\ outside[q] \in Nat
        BY <1>1, OwnedNat
      <3>3. refcnt'[q] = HeadReferences(q)' + outside'[q] + References(Pool, q)'
                          + (IF q \in Eternal THEN 1 ELSE 0)
        BY <1>2, <2>1, <2>2, <2>3, <3>1, <3>2
      <3>4. refcnt'[q] \in Nat
        BY <1>2, <2>1, <2>3, <3>2, <3>3
      <3>5. QED
        BY <3>3, <3>4 DEF Owned
    <2>6. QED
      BY <2>4, <2>5
  <1>7. refcnt' \in [Pool -> Nat]
    BY <1>2, <1>6 DEF WithoutFieldsOf
  <1>8. RefcountExact'
    BY <1>6 DEF RefcountExact, Owned
  <1>9. FreedInv'
    <2>1. \A q \in Pool, f \in Fields : refs'[<<q, f>>] = IF q = p THEN Null ELSE refs[<<q, f>>]
      BY <1>1, <1>2, NoFieldsTyped
    <2>2. Null \notin freed' /\ freed \subseteq Pool
      BY <1>1, <1>2, ReferenceGraphAssumption DEF NativeTypes
    <2>3. QED
      BY <1>2, <1>3, <1>4, <1>5, <2>1, <2>2 DEF CountInv, FreedInv
  <1>10. QED
    BY <1>2, <1>3, <1>4, <1>5, <1>7, <1>8, <1>9 DEF CountInv

\* A turn of the loop gives up the reference of one head, and those of the
\* fields it clears.
LEMMA ReleaseKeepsCount ==
    ASSUME VerdictInv, CountInv, NEW p \in Pool, Release(p)
    PROVE  CountInv'
  <1>1. NativeTypes
    BY DEF VerdictInv
  <1>2. /\ p \in left /\ left' = left \ {p}
        /\ refs' = IF ToClear(p) THEN NoFields(p) ELSE refs
        /\ refcnt' = [CountsCleared(p) EXCEPT ![p] = @ - 1]
        /\ UNCHANGED <<outside, freed, loaded, restored, decref>>
    BY DEF Release, Turn
  <1>3. decref[1] = Null /\ p \notin freed /\ Null \notin Pool
    BY <1>2, ReferenceGraphAssumption DEF CountInv, FreedInv, NoDecref
  <1>4. \A q \in Pool : /\ HeadReferences(q)' = HeadReferences(q) - (IF q = p THEN 1 ELSE 0)
                        /\ HeadReferences(q) \in Nat /\ HeadReferences(q)' \in Nat
    BY <1>2, <1>3 DEF HeadReferences
  <1>5. \A q \in Pool : CountsCleared(p)[q] =
                          refcnt[q] - (IF ToClear(p) THEN References({p}, q) ELSE 0)
    <2>1. \A q \in Pool : refcnt[q] \in Nat /\ References({p}, q) \in Nat
      BY HeldFinite DEF CountInv
    <2>2. QED
      BY <2>1 DEF CountsCleared, WithoutFieldsOf
  <1>6. refcnt' \in [Pool -> Int] /\ DOMAIN CountsCleared(p) = Pool
    <2>1. \A q \in Pool : refcnt[q] \in Nat /\ References({p}, q) \in Nat
      BY HeldFinite DEF CountInv
    <2>2. CountsCleared(p) \in [Pool -> Int]
      BY <2>1 DEF CountsCleared, WithoutFieldsOf, CountInv
    <2>3. QED
      BY <1>2, <2>2
  <1>7. ASSUME NEW q \in Pool
        PROVE  /\ refcnt'[q] \in Nat
               /\ q \notin freed => refcnt'[q] = Owned(q)'
    <2> DEFINE lost == IF ToClear(p) THEN References({p}, q) ELSE 0
               own == IF q = p THEN 1 ELSE 0
    <2>1. /\ References(Pool, q) \in Nat /\ References(Pool, q)' \in Nat
          /\ lost \in Nat
          /\ References(Pool, q)' = References(Pool, q) - lost
      <3>1. CASE ToClear(p)
        BY <1>1, <1>2, <3>1, ReferencesWithout
      <3>2. CASE ~ToClear(p)
        <4>1. References(Pool, q)' = References(Pool, q)
          BY <1>2, <3>2 DEF References
        <4>2. QED
          BY <3>2, <4>1, HeldFinite
      <3>3. QED
        BY <3>1, <3>2
    <2>2. refcnt'[q] = refcnt[q] - lost - own /\ refcnt[q] \in Nat
      <3>1. refcnt'[q] = CountsCleared(p)[q] - own
        <4>1. CASE q = p
          BY <1>2, <1>6, <4>1
        <4>2. CASE q # p
          <5>1. refcnt'[q] = CountsCleared(p)[q]
            BY <1>2, <1>6, <4>2
          <5>2. CountsCleared(p)[q] \in Int
            BY <1>5, HeldFinite DEF CountInv
          <5>3. QED
            BY <4>2, <5>1, <5>2
        <4>3. QED
          BY <4>1, <4>2
      <3>2. CountsCleared(p)[q] = refcnt[q] - lost
        BY <1>5
      <3>3. QED
        BY <3>1, <3>2 DEF CountInv
    <2>3. CASE q \in freed
      <3>1. \A f \in Fields : refs[<<p, f>>] # q
        BY <2>3 DEF CountInv, FreedInv
      <3>2. lost = 0
        BY <3>1, HoldsNone
      <3>3. own = 0
        BY <1>3, <2>3
      <3>4. refcnt'[q] \in Nat
        BY <2>2, <3>2, <3>3
      <3>5. QED
        BY <2>3, <3>4
    <2>4. CASE q \notin freed
      <3>1. refcnt[q] = HeadReferences(q) + outside[q] + References(Pool, q)
                          + (IF q \in Eternal THEN 1 ELSE 0)
        BY <2>4 DEF CountInv, RefcountExact
      <3>2. outside[q] \in Nat /\ outside'[q] = outside[q]
        BY <1>1, <1>2, OwnedNat
      <3>3. refcnt'[q] = HeadReferences(q)' + outside'[q] + References(Pool, q)'
                          + (IF q \in Eternal THEN 1 ELSE 0)
        BY <1>4, <2>1, <2>2, <3>1, <3>2
      <3>4. refcnt'[q] \in Nat
        BY <1>4, <2>1, <3>2, <3>3
      <3>5. QED
        BY <3>3, <3>4 DEF Owned
    <2>5. QED
      BY <2>3, <2>4
  <1>8. refcnt' \in [Pool -> Nat]
    BY <1>6, <1>7
  <1>9. RefcountExact'
    BY <1>2, <1>7 DEF RefcountExact, Owned
  <1>10. FreedInv'
    <2>1. \A q \in Pool, f \in Fields : refs'[<<q, f>>] \in {refs[<<q, f>>], Null}
      BY <1>1, <1>2, NoFieldsTyped
    <2>2. Null \notin freed
      BY <1>1, <1>3 DEF NativeTypes
    <2>3. QED
      BY <1>1, <1>2, <2>1, <2>2 DEF CountInv, FreedInv, NativeTypes
  <1>11. QED
    BY <1>2, <1>8, <1>9, <1>10 DEF CountInv

\* Other threads count what they take, drop and store.
LEMMA DropOrTakeKeepsCount ==
    ASSUME VerdictInv, CountInv, NEW p \in Pool, Drop(p) \/ Take(p)
    PROVE  CountInv'
  <1>1. NativeTypes
    BY DEF VerdictInv
  <1>2. /\ p \notin freed /\ outside' \in [Pool -> Nat] /\ refcnt' \in [Pool -> Int]
        /\ \A q \in Pool \ {p} : outside'[q] = outside[q] /\ refcnt'[q] = refcnt[q]
        /\ \/ outside'[p] = outside[p] - 1 /\ refcnt'[p] = refcnt[p] - 1
           \/ outside'[p] = outside[p] + 1 /\ refcnt'[p] = refcnt[p] + 1
    <2>1. outside \in [Pool -> Nat] /\ refcnt \in [Pool -> Nat]
      BY <1>1 DEF NativeTypes, HeapInv, CountInv
    <2>2. CASE Drop(p)
      <3>1. outside[p] > 0
        BY <2>2 DEF Drop
      <3>2. p \notin freed
        BY <2>1, <3>1 DEF CountInv, FreedInv
      <3>3. QED
        BY <2>1, <2>2, <3>1, <3>2 DEF Drop
    <2>3. CASE Take(p)
      BY <2>1, <2>3 DEF Take
    <2>4. QED
      BY <2>2, <2>3
  <1>3. UNCHANGED <<refs, freed, loaded, restored, left, decref>>
    BY DEF Drop, Take
  <1>4. ASSUME NEW q \in Pool
        PROVE  /\ refcnt'[q] \in Nat
               /\ q \notin freed => refcnt'[q] = Owned(q)'
    <2>1. References(Pool, q)' = References(Pool, q) /\ HeadReferences(q)' = HeadReferences(q)
      BY <1>3 DEF References, HeadReferences
    <2>2. /\ HeadReferences(q) \in Nat /\ outside[q] \in Nat
          /\ References(Pool, q) \in Nat /\ refcnt[q] \in Nat
      BY <1>1, OwnedNat DEF CountInv
    <2>3. q \notin freed => refcnt[q] = HeadReferences(q) + outside[q] + References(Pool, q)
                                          + (IF q \in Eternal THEN 1 ELSE 0)
      BY DEF CountInv, RefcountExact
    <2>4. CASE q = p
      <3>1. /\ outside'[q] \in Nat
            /\ \/ outside'[q] = outside[q] - 1 /\ refcnt'[q] = refcnt[q] - 1
               \/ outside'[q] = outside[q] + 1 /\ refcnt'[q] = refcnt[q] + 1
        BY <1>2, <2>4
      <3>2. refcnt'[q] = HeadReferences(q) + outside'[q] + References(Pool, q)
                           + (IF q \in Eternal THEN 1 ELSE 0)
        BY <1>2, <2>2, <2>3, <2>4, <3>1
      <3>3. refcnt'[q] \in Nat
        BY <2>2, <3>1, <3>2
      <3>4. QED
        BY <2>1, <3>2, <3>3 DEF Owned
    <2>5. CASE q # p
      <3>1. outside'[q] = outside[q] /\ refcnt'[q] = refcnt[q]
        BY <1>2, <2>5
      <3>2. QED
        BY <2>1, <2>2, <2>3, <3>1 DEF Owned
    <2>6. QED
      BY <2>4, <2>5
  <1>5. refcnt' \in [Pool -> Nat]
    BY <1>2, <1>4
  <1>6. RefcountExact'
    BY <1>3, <1>4 DEF RefcountExact, Owned
  <1>7. FreedInv'
    BY <1>1, <1>2, <1>3 DEF CountInv, FreedInv, NativeTypes, HeapInv
  <1>8. QED
    BY <1>3, <1>5, <1>6, <1>7 DEF CountInv

LEMMA StoreKeepsCount ==
    ASSUME VerdictInv, CountInv, NEW p \in Pool, NEW f \in Fields,
           NEW q \in Pool \cup {Null}, Store(p, f, q)
    PROVE  CountInv'
  <1>1. NativeTypes
    BY DEF VerdictInv
  <1>2. /\ refs[<<p, f>>] # q /\ q \notin freed /\ p \notin freed
        /\ refs' = [refs EXCEPT ![<<p, f>>] = q]
        /\ refcnt' = [r \in Pool |->
                     refcnt[r] + (IF r = q THEN 1 ELSE 0)
                               - (IF r = refs[<<p, f>>] THEN 1 ELSE 0)]
        /\ UNCHANGED <<outside, freed, loaded, restored, left, decref>>
    BY <1>1, ReferenceGraphAssumption DEF Store, NativeTypes
  <1>3. ASSUME NEW r \in Pool
        PROVE  /\ refcnt'[r] \in Nat
               /\ r \notin freed => refcnt'[r] = Owned(r)'
    <2> DEFINE more == IF r = q THEN 1 ELSE 0
               less == IF r = refs[<<p, f>>] THEN 1 ELSE 0
    <2>1. /\ References(Pool, r) \in Nat /\ References(Pool, r)' \in Nat
          /\ References(Pool, r)' = References(Pool, r) + more - less
      <3>1. /\ References(Pool, r) \in Nat /\ References(Pool, r)' \in Nat
            /\ References(Pool, r)' = References(Pool, r) + (IF r = q THEN 1 ELSE 0)
                                        - (IF r = refs[<<p, f>>] THEN 1 ELSE 0)
        <4>1. refs[<<p, f>>] # q /\ refs' = Overwritten(p, f, q)
          BY <1>2 DEF Overwritten
        <4>2. QED
          BY <1>1, <4>1, ReferencesStored
      <3>2. QED
        BY <3>1
    <2>2. HeadReferences(r)' = HeadReferences(r) /\ outside'[r] = outside[r]
      BY <1>2 DEF HeadReferences
    <2>3. HeadReferences(r) \in Nat /\ outside[r] \in Nat /\ refcnt[r] \in Nat
      BY <1>1, OwnedNat DEF CountInv
    <2>4. refcnt'[r] = refcnt[r] + more - less
      BY <1>2
    <2>5. CASE r \in freed
      <3>1. more = 0 /\ less = 0
        BY <1>2, <2>5 DEF CountInv, FreedInv
      <3>2. refcnt'[r] \in Nat
        BY <2>3, <2>4, <3>1
      <3>3. QED
        BY <2>5, <3>2
    <2>6. CASE r \notin freed
      <3>1. refcnt[r] = HeadReferences(r) + outside[r] + References(Pool, r)
                          + (IF r \in Eternal THEN 1 ELSE 0)
        BY <2>6 DEF CountInv, RefcountExact
      <3>2. refcnt'[r] = HeadReferences(r)' + outside'[r] + References(Pool, r)'
                          + (IF r \in Eternal THEN 1 ELSE 0)
        BY <2>1, <2>2, <2>3, <2>4, <3>1
      <3>3. refcnt'[r] \in Nat
        BY <2>1, <2>2, <2>3, <3>2
      <3>4. QED
        BY <3>2, <3>3 DEF Owned
    <2>7. QED
      BY <2>5, <2>6
  <1>4. refcnt' \in [Pool -> Nat]
    BY <1>2, <1>3
  <1>5. RefcountExact'
    BY <1>2, <1>3 DEF RefcountExact, Owned
  <1>6. FreedInv'
    <2>1. \A r \in Pool, g \in Fields :
             refs'[<<r, g>>] = IF r = p /\ g = f THEN q ELSE refs[<<r, g>>]
      BY <1>1, <1>2 DEF NativeTypes, HeapInv
    <2>2. QED
      BY <1>1, <1>2, <2>1 DEF CountInv, FreedInv, NativeTypes
  <1>7. QED
    BY <1>2, <1>4, <1>5, <1>6 DEF CountInv

LEMMA NextCountInv ==
    ASSUME AtomicIncref, VerdictInv, CountInv, [NativeNext]_allVars
    PROVE  CountInv'
  <1>1. decref[1] = Null /\ decref[2] = NotLoaded /\ \A p \in Pool : loaded[p] = NotLoaded
    BY DEF CountInv, NoDecref
  <1>2. CASE \/ UNCHANGED allVars \/ Check \/ Report \/ AwaitCStubs
             \/ \E p \in Pool : Consume(p)
    <2>1. UNCHANGED <<refs, outside, refcnt, freed, loaded, restored, left, decref>>
      BY <1>2 DEF allVars, heap, native, Check, Report, AwaitCStubs, Consume
    <2>2. QED
      BY <2>1, UncountedKeepsCount
  <1>3. CASE ReleaseLoad \/ ReleaseStore \/ \E p \in Pool : Clear(p) \/ RestoreLoad(p) \/ RestoreStore(p)
    BY <1>1, <1>3 DEF ReleaseLoad, ReleaseStore, Clear, RestoreLoad, RestoreStore
  <1>4. CASE \E p \in Pool : Release(p)
    BY <1>4, ReleaseKeepsCount
  <1>5. CASE \E p \in Pool : Restore(p)
    BY <1>5, RestoreKeepsCount
  <1>6. CASE OtherStep
    BY <1>6, DropOrTakeKeepsCount, StoreKeepsCount DEF OtherStep
  <1>7. CASE DeallocStep
    BY <1>7, DeallocKeepsCount DEF DeallocStep
  <1>8. QED
    BY <1>2, <1>3, <1>4, <1>5, <1>6, <1>7 DEF NativeNext, ReaperStep, FinalizerStep

LEMMA CountInvariant ==
    ASSUME AtomicIncref
    PROVE  NativeSpec => [](VerdictInv /\ CountInv)
  <1>1. VerdictInv /\ CountInv /\ [NativeNext]_allVars => CountInv'
    BY NextCountInv
  <1>2. QED
    BY <1>1, InitCountInv, VerdictInvariant, PTL DEF NativeSpec

\* If Py_INCREF and Py_DECREF are one step each, every variable keeps its type
\* whatever the finalizers and other threads do: no count and no count read
\* for a later write is ever negative, only objects whose heads Java deleted
\* are resurrected, and only such are consumed and restored.
THEOREM NativeTypesCorrect ==
    ASSUME AtomicIncref
    PROVE  NativeSpec => []NativeTypeOK
  <1>1. VerdictInv /\ CountInv => NativeTypeOK
    BY DEF VerdictInv, NativeTypes, CountInv, NativeTypeOK, NoDecref
  <1>2. QED
    BY <1>1, CountInvariant, PTL

\* If Py_INCREF and Py_DECREF are one step each, every count is what is really
\* held, whatever the finalizers and other threads do (gcmodule.c 2419-2431,
\* 2452).
THEOREM CountsExact ==
    ASSUME AtomicIncref
    PROVE  NativeSpec => []RefcountExact
  <1>1. CountInv => RefcountExact
    BY DEF CountInv
  <1>2. QED
    BY <1>1, CountInvariant, PTL

-----------------------------------------------------------------------------
(* The loop, if no other thread runs.                                      *)

\* An object to which nothing refers was not kept: the rest would be closed.
LEMMA UnheldNotKept ==
    ASSUME NativeTypes, Closed(Kept), \A S \in SUBSET Pool : Closed(S) => Kept \subseteq S,
           NEW p \in Pool, outside[p] = 0, \A q \in Pool, f \in Fields : refs[<<q, f>>] # p
    PROVE  p \notin Kept
  <1>1. Closed(Kept \ {p})
    BY DEF Closed, NativeTypes, TypeOK
  <1>2. Kept \ {p} \in SUBSET Pool
    BY DEF Kept
  <1>3. QED
    BY <1>1, <1>2

\* The fields of objects that were not kept make no difference.
LEMMA LeastAfterDropping ==
    ASSUME NativeTypes, Closed(Kept), \A S \in SUBSET Pool : Closed(S) => Kept \subseteq S,
           NEW p \in Pool \ Kept, refs' = NoFields(p), UNCHANGED <<gc, outside>>
    PROVE  \A S \in SUBSET Pool : Closed(S)' => Kept \subseteq S
  <1> SUFFICES ASSUME NEW S \in SUBSET Pool, Closed(S)' PROVE Kept \subseteq S
    OBVIOUS
  <1>1. \A q \in Pool, f \in Fields : q # p => refs'[<<q, f>>] = refs[<<q, f>>]
    BY NoFieldsTyped
  <1>2. Closed(S \cap Kept)
    <2>1. \A q \in Pool : outside[q] > 0 => q \in S \cap Kept
      BY DEF Closed
    <2>2. ASSUME NEW q \in gc \cap S \cap Kept, NEW f \in Fields
          PROVE  refs[<<q, f>>] \in (S \cap Kept) \cup {Null}
      <3>1. q \in Pool /\ q # p
        BY DEF NativeTypes, TypeOK
      <3>2. refs'[<<q, f>>] \in S \cup {Null} /\ refs[<<q, f>>] \in Kept \cup {Null}
        BY DEF Closed
      <3>3. QED
        BY <1>1, <3>1, <3>2
    <2>3. QED
      BY <2>1, <2>2 DEF Closed
  <1>3. S \cap Kept \in SUBSET Pool
    OBVIOUS
  <1>4. QED
    BY <1>2, <1>3

LEMMA InitAloneInv == NativeInit => AloneInv
  <1> SUFFICES ASSUME NativeInit PROVE AloneInv
    OBVIOUS
  <1>1. gc \cap Eternal = {} /\ \A p \in Pool \ gc : NoReferences(p)
    BY DEF NativeInit, Init, HeapInit, NoReferences
  <1>2. clearable \subseteq Pool
    BY DEF NativeInit, Init, HeapInit
  <1>3. QED
    BY <1>1, <1>2 DEF NativeInit, AloneInv, ClearedInv

LEMMA ReportKeepsAlone ==
    ASSUME VerdictInv, AloneInv, Report
    PROVE  AloneInv'
  <1>1. /\ phase = "check" /\ pc = "done" /\ phase' \in {"await", "clear"} /\ Untouched
        /\ resurrected' = IF graphInvalid THEN KeptCStubs ELSE {}
        /\ UNCHANGED <<heap, check, truncated, clearable, refcnt, freed, left>>
    BY DEF Report, VerdictInv
  <1>2. left = Pool /\ freed = {} /\ clearable \subseteq Pool
    BY <1>1 DEF Untouched, VerdictInv, NativeTypes, TypeOK
  <1>3. ClearedInv'
    BY <1>1, <1>2
    DEF AloneInv, ClearedInv, Breakable, NoReferences, heap
  <1>4. SearchInv
    BY <1>1 DEF Untouched, GraphInv
  <1>5. \A S \in SUBSET Pool : Closed(S) => Kept \subseteq S
    BY <1>1, <1>4 DEF SearchInv, Seen, Kept
  <1>6. ~graphInvalid => \A p \in Kept : outside[p] > 0
    BY <1>1, <1>4 DEF SearchInv
  <1>7. KeptInv'
    BY <1>1, <1>2, <1>5, <1>6 DEF KeptInv, KeptCStubs, Kept, Closed, heap, check
  <1>8. QED
    BY <1>3, <1>7 DEF AloneInv

\* Steps that change no field, no verdict, and the counts of resurrected
\* objects only.
LEMMA FieldsUntouchedKeepAlone ==
    ASSUME VerdictInv, CountInv, AloneInv,
           Check \/ AwaitCStubs \/ (\E p \in Pool : Consume(p) \/ Restore(p))
    PROVE  AloneInv'
  <1>1. NativeTypes /\ (phase = "check" => Untouched)
    BY DEF VerdictInv
  <1>2. CASE Check
    <2>1. phase = "check" /\ phase' = "check" /\ UNCHANGED <<heap, native>>
      BY <1>2 DEF Check, native
    <2>2. left = Pool /\ clearable \subseteq Pool
      BY <1>1, <2>1 DEF Untouched, NativeTypes, TypeOK
    <2>3. QED
      BY <2>1, <2>2 DEF AloneInv, ClearedInv, Breakable, NoReferences, heap, native
  <1>3. CASE AwaitCStubs
    BY <1>3 DEF AwaitCStubs, AloneInv, KeptInv, ClearedInv, Breakable, NoReferences,
                KeptCStubs, Kept, Closed, heap, check
  <1>4. ASSUME NEW p \in Pool, Consume(p) PROVE AloneInv'
    BY <1>4 DEF Consume, AloneInv, KeptInv, ClearedInv, Breakable, NoReferences,
                KeptCStubs, Kept, Closed, heap, check
  <1>5. ASSUME NEW p \in Pool, Restore(p) PROVE AloneInv'
    <2>1. /\ p \in consumed
          /\ refcnt' = [refcnt EXCEPT ![p] = @ + 1]
          /\ UNCHANGED <<heap, check, truncated, clearable, freed, resurrected, left, phase>>
      BY <1>5 DEF Restore
    <2>2. p \in resurrected
      BY <1>1, <2>1 DEF NativeTypes
    <2>3. phase # "check" /\ KeptInv
      BY <1>1, <2>2 DEF Untouched, AloneInv
    <2>4. result[p] # 1
      BY <2>2, <2>3 DEF KeptInv, KeptCStubs, Kept
    <2>5. \A q \in Pool : q # p /\ refcnt[q] = 0 => refcnt'[q] = 0
      BY <2>1 DEF CountInv
    <2>6. QED
      BY <2>1, <2>3, <2>4, <2>5
      DEF AloneInv, KeptInv, ClearedInv, Breakable, NoReferences,
          KeptCStubs, Kept, Closed, heap, check
  <1>6. QED
    BY <1>2, <1>3, <1>4, <1>5

\* What a step of the loop or a deallocation does: fields of one object that
\* was not kept are dropped, and counts go down.
LEMMA DroppingKeepsAlone ==
    ASSUME VerdictInv, CountInv, CountInv', AloneInv,
           NEW p \in Pool, refs' = refs \/ (refs' = NoFields(p) /\ (graphInvalid => p \notin Kept)),
           freed' = freed \/ (freed' = freed \cup {p} /\ (graphInvalid => p \notin Kept)),
           UNCHANGED <<gc, outside, check, truncated, clearable, resurrected>>,
           \A q \in Pool : refcnt'[q] <= refcnt[q] \/ q = p,
           phase # "check", phase' # "check",
           left' \subseteq left,
           phase' = "await" => left' = Pool,
           phase' = "end" => left' = {},
           p \in clearable \ (left' \cup freed') /\ result[p] = 1 =>
              refcnt'[p] = 0 \/ NoReferences(p)',
           \A q \in Pool \ {p} : q \in left' \cup freed' <=> q \in left \cup freed
    PROVE  AloneInv'
  <1>1. NativeTypes /\ (graphInvalid => Closed(Kept)) /\ KeptInv /\ ClearedInv
    BY DEF VerdictInv, AloneInv
  <1>2. \A q \in Pool, f \in Fields : refs'[<<q, f>>] \in {refs[<<q, f>>], Null}
    <2>1. \A q \in Pool, f \in Fields : NoFields(p)[<<q, f>>] \in {refs[<<q, f>>], Null}
      BY <1>1, NoFieldsTyped
    <2>2. CASE refs' = refs
      BY <2>2
    <2>3. CASE refs' = NoFields(p)
      BY <2>1, <2>3
    <2>4. QED
      BY <2>2, <2>3
  <1>3. KeptInv'
    <2>1. Kept' = Kept /\ KeptCStubs' = KeptCStubs
      BY DEF Kept, KeptCStubs, check
    <2>2. ASSUME graphInvalid PROVE \A S \in SUBSET Pool : Closed(S)' => Kept \subseteq S
      <3>1. CASE refs' = refs
        BY <1>1, <2>2, <3>1 DEF KeptInv, Closed
      <3>2. CASE refs' # refs
        BY <1>1, <2>2, <3>2, LeastAfterDropping DEF KeptInv
      <3>3. QED
        BY <3>1, <3>2
    <2>3. graphInvalid => Kept \cap freed' = {}
      BY <1>1 DEF KeptInv
    <2>4. QED
      BY <1>1, <2>1, <2>2, <2>3 DEF KeptInv, check
  <1>4. ClearedInv'
    <2>1. Breakable'
      <3> SUFFICES ASSUME NEW S \in SUBSET (gc \ clearable) \ {{}}
                   PROVE  \E q \in S : \A f \in Fields : refs'[<<q, f>>] \notin S
        BY DEF Breakable
      <3>1. PICK q \in S : \A f \in Fields : refs[<<q, f>>] \notin S
        BY <1>1 DEF ClearedInv, Breakable
      <3>2. q \in Pool /\ Null \notin S
        BY <1>1, ReferenceGraphAssumption DEF NativeTypes, TypeOK
      <3>3. QED
        BY <1>2, <3>1, <3>2
    <2>2. \A q \in Pool : NoReferences(q) => NoReferences(q)'
      BY <1>2 DEF NoReferences
    <2>3. ASSUME NEW q \in clearable \ (left' \cup freed'), result[q] = 1
          PROVE  refcnt'[q] = 0 \/ NoReferences(q)'
      <3>1. q \in Pool
        BY <1>1 DEF NativeTypes, TypeOK
      <3>2. CASE q = p
        BY <2>3, <3>2
      <3>3. CASE q # p
        <4>1. refcnt[q] = 0 \/ NoReferences(q)
          BY <1>1, <2>3, <3>1, <3>3 DEF ClearedInv
        <4>2. refcnt[q] = 0 => refcnt'[q] = 0
          BY <3>1, <3>3 DEF CountInv
        <4>3. QED
          BY <2>2, <3>1, <4>1, <4>2
      <3>4. QED
        BY <3>2, <3>3
    <2>4. QED
      BY <1>1, <2>1, <2>2, <2>3 DEF ClearedInv, check
  <1>5. QED
    BY <1>3, <1>4 DEF AloneInv

LEMMA DeallocKeepsAlone ==
    ASSUME VerdictInv, CountInv, CountInv', AloneInv, NEW p \in Pool, Dealloc(p)
    PROVE  AloneInv'
  <1>1. NativeTypes /\ (phase = "check" => Untouched)
    BY DEF VerdictInv
  <1>2. /\ refcnt[p] = 0 /\ freed' = freed \cup {p}
        /\ refcnt' = WithoutFieldsOf(p) /\ refs' = NoFields(p)
        /\ UNCHANGED <<gc, outside, check, truncated, clearable, resurrected, left, phase>>
    BY DEF Dealloc
  <1>3. p \notin left /\ outside[p] = 0 /\ \A q \in Pool, f \in Fields : refs[<<q, f>>] # p
    BY DeallocKeepsCount
  <1>4. phase # "check"
    BY <1>1, <1>3 DEF Untouched
  <1>5. graphInvalid => p \notin Kept
    BY <1>1, <1>3, <1>4, UnheldNotKept DEF VerdictInv, AloneInv, KeptInv
  <1>6. \A q \in Pool : refcnt'[q] <= refcnt[q]
    <2>1. \A q \in Pool : refcnt[q] \in Nat /\ References({p}, q) \in Nat
      BY HeldFinite DEF CountInv
    <2>2. QED
      BY <1>2, <2>1 DEF WithoutFieldsOf
  <1>7. (phase' = "await" => left' = Pool) /\ (phase' = "end" => left' = {})
    BY <1>2 DEF AloneInv, ClearedInv
  <1>8. p \in freed' /\ \A q \in Pool \ {p} : q \in left' \cup freed' <=> q \in left \cup freed
    BY <1>2
  <1>9. left' \subseteq left /\ phase' # "check"
    BY <1>2, <1>4
  <1>10. QED
    BY <1>2, <1>4, <1>5, <1>6, <1>7, <1>8, <1>9, DroppingKeepsAlone

LEMMA ReleaseKeepsAlone ==
    ASSUME VerdictInv, CountInv, CountInv', AloneInv, NEW p \in Pool, Release(p)
    PROVE  AloneInv'
  <1>1. NativeTypes
    BY DEF VerdictInv
  <1>2. /\ phase = "clear" /\ p \in left /\ left' = left \ {p}
        /\ refs' = IF ToClear(p) THEN NoFields(p) ELSE refs
        /\ refcnt' = [CountsCleared(p) EXCEPT ![p] = @ - 1]
        /\ phase' = IF left' = {} THEN "end" ELSE "clear"
        /\ UNCHANGED <<gc, outside, check, truncated, clearable, freed, resurrected>>
    BY DEF Release, Turn
  <1>3. ToClear(p) => p \notin Kept
    BY DEF ToClear, Kept
  <1>4. \A q \in Pool : refcnt[q] \in Nat /\ refcnt'[q] \in Nat /\ References({p}, q) \in Nat
    BY HeldFinite DEF CountInv
  <1>5. /\ DOMAIN CountsCleared(p) = Pool
        /\ \A q \in Pool : CountsCleared(p)[q] <= refcnt[q] /\ CountsCleared(p)[q] \in Int
    <2>1. refcnt \in [Pool -> Nat]
      BY DEF CountInv
    <2>2. CASE ToClear(p)
      <3>1. CountsCleared(p) = [q \in Pool |-> refcnt[q] - References({p}, q)]
        BY <2>2 DEF CountsCleared, WithoutFieldsOf
      <3>2. QED
        BY <1>4, <3>1
    <2>3. CASE ~ToClear(p)
      <3>1. CountsCleared(p) = refcnt
        BY <2>3 DEF CountsCleared
      <3>2. QED
        BY <1>4, <2>1, <3>1
    <2>4. QED
      BY <2>2, <2>3
  <1>6. /\ \A q \in Pool \ {p} : refcnt'[q] <= refcnt[q]
        /\ refcnt'[p] <= refcnt[p] - 1
    BY <1>2, <1>4, <1>5
  <1>7. p \in clearable /\ result[p] = 1 => refcnt'[p] = 0 \/ NoReferences(p)'
    <2>1. CASE ToClear(p)
      BY <1>1, <1>2, <2>1, NoFieldsTyped DEF NoReferences
    <2>2. CASE ~ToClear(p)
      BY <1>4, <1>6, <2>2 DEF ToClear
    <2>3. QED
      BY <2>1, <2>2
  <1>8. /\ phase' \in {"clear", "end"} /\ (phase' = "end" => left' = {})
        /\ left' \subseteq left
        /\ \A q \in Pool \ {p} : q \in left' \cup freed' <=> q \in left \cup freed
    BY <1>2
  <1>9. refs' = refs \/ (refs' = NoFields(p) /\ p \notin Kept)
    BY <1>2, <1>3
  <1>10. QED
    BY <1>2, <1>6, <1>7, <1>8, <1>9, DroppingKeepsAlone

LEMMA NextAloneInv ==
    ASSUME AtomicIncref, ~OthersRun, VerdictInv, CountInv, AloneInv, [NativeNext]_allVars
    PROVE  AloneInv'
  <1>1. CountInv'
    BY NextCountInv
  <1>2. decref[1] = Null /\ decref[2] = NotLoaded /\ \A p \in Pool : loaded[p] = NotLoaded
    BY DEF CountInv, NoDecref
  <1>3. CASE UNCHANGED allVars
    BY <1>3 DEF allVars, heap, native, check, AloneInv, KeptInv, ClearedInv, Breakable,
                NoReferences, KeptCStubs, Kept, Closed
  <1>4. CASE Report
    BY <1>4, ReportKeepsAlone
  <1>5. CASE Check \/ AwaitCStubs \/ (\E p \in Pool : Consume(p) \/ Restore(p))
    BY <1>5, FieldsUntouchedKeepAlone
  <1>6. CASE ReleaseLoad \/ ReleaseStore \/ \E p \in Pool : Clear(p) \/ RestoreLoad(p) \/ RestoreStore(p)
    BY <1>2, <1>6 DEF ReleaseLoad, ReleaseStore, Clear, RestoreLoad, RestoreStore
  <1>7. CASE \E p \in Pool : Release(p)
    BY <1>1, <1>7, ReleaseKeepsAlone
  <1>8. CASE OtherStep
    BY <1>8 DEF OtherStep, Drop, Take, Store, GilFree
  <1>9. CASE DeallocStep
    BY <1>1, <1>9, DeallocKeepsAlone DEF DeallocStep
  <1>10. QED
    BY <1>3, <1>4, <1>5, <1>6, <1>7, <1>8, <1>9 DEF NativeNext, ReaperStep, FinalizerStep

LEMMA AloneInvariant ==
    ASSUME AtomicIncref, ~OthersRun
    PROVE  NativeSpec => [](VerdictInv /\ CountInv /\ AloneInv)
  <1>1. VerdictInv /\ CountInv /\ AloneInv /\ [NativeNext]_allVars => AloneInv'
    BY NextAloneInv
  <1>2. QED
    BY <1>1, InitAloneInv, CountInvariant, PTL DEF NativeSpec

\* With the reaper and the finalizers alone, nothing is deallocated that a
\* head, a field or a thread holds or that a finalizer is about to restore
\* (JyNI.java 1297, gcmodule.c 2389-2435).
THEOREM NothingUsedIsFreed ==
    ASSUME AtomicIncref, ~OthersRun
    PROVE  NativeSpec => []NoUseAfterFree
  <1>1. ASSUME VerdictInv, CountInv, AloneInv PROVE NoUseAfterFree
    <2>1. FreedInv /\ NativeTypes
      BY <1>1 DEF CountInv, VerdictInv
    <2>2. freed \cap consumed = {}
      <3>1. consumed \subseteq resurrected
        BY <2>1 DEF NativeTypes
      <3>2. CASE phase = "check"
        BY <1>1, <3>2 DEF VerdictInv, Untouched
      <3>3. CASE phase # "check"
        BY <1>1, <3>1, <3>3 DEF AloneInv, KeptInv, KeptCStubs
      <3>4. QED
        BY <3>2, <3>3
    <2>3. QED
      BY <2>1, <2>2 DEF FreedInv, NoUseAfterFree
  <1>2. QED
    BY <1>1, AloneInvariant, PTL

-----------------------------------------------------------------------------
(* What the loop leaves.                                                   *)

\* Objects that cannot be cleared keep each other only in cycles, and there
\* are none.
LEMMA NoCycle ==
    ASSUME NativeTypes, Breakable, NEW S \in SUBSET (gc \ clearable),
           \A q \in S : \E p \in S, f \in Fields : refs[<<p, f>>] = q
    PROVE  S = {}
  <1> SUFFICES ASSUME S # {} PROVE FALSE
    OBVIOUS
  <1> DEFINE Cyclic(T) == \A q \in T : \E p \in T, f \in Fields : refs[<<p, f>>] = q
             Family == {T \in SUBSET S : T # {} /\ Cyclic(T)}
  <1>1. IsFiniteSet(S)
    BY ReferenceGraphAssumption, FS_Subset DEF NativeTypes, TypeOK
  <1>2. Family \subseteq FiniteSubsetsOf(S) /\ S \in Family
    BY <1>1, FS_Subset DEF FiniteSubsetsOf
  <1>3. PICK T \in Family : \A U \in Family : ~(<<U, T>> \in StrictSubsetOrdering(S))
    <2>1. IsWellFoundedOn(StrictSubsetOrdering(S), FiniteSubsetsOf(S))
      BY FS_StrictSubsetOrderingWellFounded
    <2> HIDE DEF Family
    <2>2. QED
      BY <1>2, <2>1, WFMin
  <1>4. T \in SUBSET S /\ T # {} /\ Cyclic(T)
    BY <1>3
  <1>5. PICK p \in T : \A f \in Fields : refs[<<p, f>>] \notin T
    BY <1>4 DEF Breakable
  <1>6. Cyclic(T \ {p}) /\ T \ {p} # {}
    <2>1. ASSUME NEW q \in T PROVE \E r \in T \ {p}, f \in Fields : refs[<<r, f>>] = q
      <3>1. PICK r \in T, f \in Fields : refs[<<r, f>>] = q
        BY <1>4
      <3>2. r # p
        BY <1>5, <3>1
      <3>3. QED
        BY <3>1, <3>2
    <2>2. Cyclic(T \ {p})
      BY <2>1
    <2>3. QED
      BY <2>1, <2>2
  <1>7. T \ {p} \in Family
    BY <1>4, <1>6
  <1>8. <<T \ {p}, T>> \in StrictSubsetOrdering(S)
    BY <1>4, <1>5 DEF StrictSubsetOrdering
  <1>9. QED
    BY <1>3, <1>7, <1>8

\* What is not needed in the end, but not deallocated either, is referred to by
\* another such object, which could not be cleared.
LEMMA LeftoverReferenced ==
    ASSUME VerdictInv, CountInv, AloneInv,
           phase = "end", Settled, restored = resurrected,
           NEW p \in Pool \ (freed \cup Needed)
    PROVE  \E q \in (gc \ clearable) \ (freed \cup Needed), f \in Fields : refs[<<q, f>>] = p
  <1>1. NativeTypes /\ FreedInv /\ KeptInv /\ ClearedInv
    BY DEF VerdictInv, CountInv, AloneInv
  <1>2. p # Null
    BY ReferenceGraphAssumption
  <1>3. References(Pool, p) # 0
    <2>1. p \notin restored /\ p \notin Eternal /\ ~(outside[p] > 0)
      BY DEF Needed, Closed
    <2>2. p \notin left \cup {decref[1]}
      BY <1>1, <1>2 DEF ClearedInv, CountInv, NoDecref
    <2>3. HeadReferences(p) = 0
      BY <2>1, <2>2 DEF HeadReferences
    <2>4. outside[p] = 0
      BY <1>1, <2>1 DEF NativeTypes, TypeOK
    <2>5. refcnt[p] = References(Pool, p)
      <3>1. refcnt[p] = 0 + 0 + References(Pool, p) + 0
        BY <2>1, <2>3, <2>4 DEF CountInv, RefcountExact
      <3>2. References(Pool, p) \in Nat
        BY HeldFinite
      <3>3. QED
        BY <3>1, <3>2
    <2>6. QED
      BY <2>5 DEF Settled
  <1>4. PICK q \in Pool, f \in Fields : refs[<<q, f>>] = p
    BY <1>3, NotReferenced
  <1>5. q \in gc /\ q \notin freed
    BY <1>1, <1>2, <1>4 DEF ClearedInv, NoReferences, FreedInv
  <1>6. q \notin Needed
    BY <1>2, <1>4, <1>5 DEF Needed, Closed
  <1>7. result[q] = 1
    <2>1. q \in Kept => q \in Needed
      <3>1. CASE graphInvalid
        BY <1>1, <3>1 DEF KeptInv, Needed, Kept
      <3>2. CASE ~graphInvalid
        <4>1. q \in Kept => outside[q] > 0
          BY <1>1, <3>2 DEF KeptInv
        <4>2. QED
          BY <4>1 DEF Needed, Closed
      <3>3. QED
        BY <3>1, <3>2
    <2>2. QED
      BY <1>1, <1>6, <2>1 DEF Kept, NativeTypes, TypeOK
  <1>8. q \notin clearable
    BY <1>1, <1>2, <1>4, <1>5, <1>7 DEF ClearedInv, NoReferences, Settled
  <1>9. QED
    BY <1>4, <1>5, <1>6, <1>8

LEMMA EndGarbageFreed ==
    ASSUME VerdictInv, CountInv, AloneInv
    PROVE  GarbageFreed
  <1> SUFFICES ASSUME phase = "end", Settled, restored = resurrected
               PROVE  Pool \ freed \subseteq Needed
    BY DEF GarbageFreed
  <1> DEFINE Leftover == (gc \ clearable) \ (freed \cup Needed)
  <1>1. NativeTypes /\ Breakable
    BY DEF VerdictInv, AloneInv, ClearedInv
  <1>2. Leftover \subseteq Pool \ (freed \cup Needed)
    BY <1>1 DEF NativeTypes, TypeOK, Leftover
  <1>3. \A p \in Pool \ (freed \cup Needed) : \E q \in Leftover, f \in Fields : refs[<<q, f>>] = p
    BY LeftoverReferenced
  <1> HIDE DEF Leftover
  <1>4. Leftover = {}
    <2>1. \A p \in Leftover : \E q \in Leftover, f \in Fields : refs[<<q, f>>] = p
      BY <1>2, <1>3
    <2>2. Leftover \in SUBSET (gc \ clearable)
      BY DEF Leftover
    <2>3. QED
      BY <1>1, <2>1, <2>2, NoCycle
  <1>5. ~ \E p \in Pool \ (freed \cup Needed) : TRUE
    BY <1>3, <1>4
  <1>6. QED
    BY <1>5

LEMMA EndSurvivorsHaveHeads ==
    ASSUME VerdictInv, AloneInv, GarbageFreed
    PROVE  SurvivorsHaveHeads
  <1> SUFFICES ASSUME phase = "end", Settled, restored = resurrected, graphInvalid
               PROVE  truncated \subseteq freed \cup restored \cup Eternal
    BY DEF SurvivorsHaveHeads
  <1>1. /\ NativeTypes /\ Closed(Kept) /\ gc \cap Eternal = {}
        /\ resurrected = truncated \cap Kept /\ Pool \ freed \subseteq Needed
    BY DEF VerdictInv, AloneInv, KeptInv, KeptCStubs, ClearedInv, GarbageFreed
  <1>2. Closed(Kept \cup Eternal)
    BY <1>1 DEF Closed
  <1>3. Kept \cup Eternal \in SUBSET Pool /\ restored \cup Eternal \subseteq Kept \cup Eternal
    BY <1>1, ReferenceGraphAssumption DEF Kept
  <1>4. Needed \subseteq Kept \cup Eternal
    BY <1>2, <1>3 DEF Needed
  <1>5. QED
    BY <1>1, <1>4 DEF NativeTypes

\* With the reaper and the finalizers alone, the loop leaves exactly what is
\* still needed, however the objects refer to each other, and what survives an
\* invalid graph has its heads (gcmodule.c 2350-2362, 2419-2431).
THEOREM LoopLeavesWhatIsNeeded ==
    ASSUME AtomicIncref, ~OthersRun
    PROVE  NativeSpec => []SurvivorsRight
  <1>1. VerdictInv /\ CountInv /\ AloneInv => SurvivorsRight
    BY EndGarbageFreed, EndSurvivorsHaveHeads DEF SurvivorsRight
  <1>2. QED
    BY <1>1, AloneInvariant, PTL
=============================================================================
