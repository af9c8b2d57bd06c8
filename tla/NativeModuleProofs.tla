------------------------- MODULE NativeModuleProofs -------------------------
(***************************************************************************)
(* Proofs about a module made by native code: its dictionary holds exactly *)
(* the native references that its values need (HeldReferences), and its    *)
(* attributes own exactly the memory that is allocated (AttributeList);    *)
(* and about the types that it defines: the order of their bases keeps     *)
(* what C3 promises (MethodResolution).                                    *)
(***************************************************************************)
EXTENDS HeldReferences, AttributeList, MethodResolution, FiniteSetTheorems,
        WellFoundedInduction, TLAPS

-----------------------------------------------------------------------------
(* HeldReferences.                                                         *)

\* A map has finitely many names, and a program finitely many threads.
HeldFinite == IsFiniteSet(Names) /\ IsFiniteSet(Threads)

HeldTypes ==
    /\ table \in [Names -> Values \cup {Null}]
    /\ held \in [Values -> Int]
    /\ backed \in SUBSET Values
    /\ call \in [Threads -> Call \cup Clearing \cup {Null}]
    /\ entry \in [Iterators -> (Names \X Values) \cup {Null}]
    /\ miscounted \in SUBSET Values

Doubtful == miscounted \cup {Null}

\* What a call is, after its steps so far.
CallInv(t) ==
    /\ call[t] \in Call =>
         /\ <<call[t].at, call[t].op>> \in
              {"incref"} \X {"set", "default"} \cup {"decref"} \X {"set", "delete", "take"}
              \cup {<<"put", "set">>, <<"remove", "delete">>}
         /\ (call[t].value = Null) <=> call[t].op \in {"delete", "take"}
         /\ call[t].at \in {"decref", "remove"} => call[t].old # Null
         /\ call[t].op = "default" => call[t].value \notin backed \ miscounted
    /\ At(t, "clear") => \A k \in call[t].left : call[t].returned[k] = Null

\* What a thread has read is what the name leads to, for values that are counted.
Agrees(x, k) == x = table[k] \/ {x, table[k]} \subseteq Doubtful

NameInv(t, k) ==
    Busy(t, k) =>
        /\ ~Clears(t) => Agrees(call[t].old, k)
        /\ Clears(t) => Agrees(call[t].returned[k], k) \/ (At(t, "clear") /\ k \in call[t].left)

\* Two threads at one name work with values that are not counted any more.
SharedInv ==
    \A t, u \in Threads, k \in Names :
        t # u /\ Busy(t, k) /\ Busy(u, k) => Handled(t, k) \cup {table[k]} \subseteq Doubtful

\* The thread has returned the reference to the value v that k still leads to.
Returned(t, k, v) ==
    \/ /\ ~Free(t) /\ ~Clears(t)
       /\ call[t].key = k /\ call[t].at \in {"put", "remove"} /\ call[t].old = v
    \/ /\ Clears(t)
       /\ call[t].returned[k] = v /\ (k \in call[t].left <=> At(t, "wipe"))

\* It has a reference to a value that is not in the table yet, or no longer.
Has(t, v) ==
    /\ ~Free(t) /\ ~Clears(t)
    /\ \/ call[t].op = "set" /\ call[t].at \in {"decref", "put"} /\ call[t].value = v
       \/ call[t].op = "take" /\ call[t].old = v

Keeping(v) == {k \in Names : table[k] = v /\ ~ \E t \in Threads : Returned(t, k, v)}
Having(v) == {t \in Threads : Has(t, v)}

\* Every reference to the native side of a value is accounted for.
AccountInv ==
    \A v \in Values :
        /\ v \notin backed => held[v] = 0
        /\ v \in backed \ miscounted =>
             held[v] = Cardinality(Keeping(v)) + Cardinality(Having(v))

HeldInv ==
    /\ HeldTypes
    /\ \A t \in Threads : CallInv(t)
    /\ \A t \in Threads, k \in Names : NameInv(t, k)
    /\ SharedInv
    /\ AccountInv

-----------------------------------------------------------------------------

\* Sets that differ in one element.
LEMMA OneApart ==
    ASSUME NEW U, IsFiniteSet(U), NEW S \in SUBSET U, NEW T \in SUBSET U,
           NEW k \in U, S \ {k} = T \ {k}
    PROVE  /\ Cardinality(S) \in Nat /\ Cardinality(T) \in Nat
           /\ (k \in S <=> k \in T) => Cardinality(T) = Cardinality(S)
           /\ k \in S /\ k \notin T => Cardinality(T) = Cardinality(S) - 1
           /\ k \notin S /\ k \in T => Cardinality(T) = Cardinality(S) + 1
  <1>1. IsFiniteSet(S) /\ IsFiniteSet(T)
    BY FS_Subset
  <1>2. Cardinality(S) \in Nat /\ Cardinality(T) \in Nat
    BY <1>1, FS_CardinalityType
  <1>3. ASSUME k \in S <=> k \in T PROVE Cardinality(T) = Cardinality(S)
    <2>1. S = T
      BY <1>3
    <2>2. QED
      BY <2>1
  <1>4. ASSUME k \in S, k \notin T PROVE Cardinality(T) = Cardinality(S) - 1
    <2>1. T = S \ {k}
      BY <1>4
    <2>2. QED
      BY <1>1, <1>4, <2>1, FS_RemoveElement
  <1>5. ASSUME k \notin S, k \in T PROVE Cardinality(T) = Cardinality(S) + 1
    <2>1. T = S \cup {k}
      BY <1>5
    <2>2. QED
      BY <1>1, <1>5, <2>1, FS_AddElement
  <1>6. QED
    BY <1>2, <1>3, <1>4, <1>5

\* A thread that returned the reference of a name is busy with it.
LEMMA ReturnedBusy ==
    ASSUME NEW t \in Threads, NEW k \in Names, NEW v, HeldTypes, CallInv(t), Returned(t, k, v)
    PROVE  Busy(t, k) /\ v \in Handled(t, k)
  <1>1. CASE Clears(t)
    BY <1>1 DEF Returned, Busy, Handled, Clears
  <1>2. CASE ~Clears(t)
    <2>1. call[t] \in Call
      BY <1>2 DEF HeldTypes, Returned, Free, Clears, At, Clearing
    <2>2. QED
      BY <1>2, <2>1 DEF Returned, Busy, Handled, CallInv
  <1>3. QED
    BY <1>1, <1>2

-----------------------------------------------------------------------------
(* Steps of one thread at one name.                                        *)

\* The thread keeps what it has to do with another name.
Elsewhere(t, j) ==
    /\ Busy(t, j)' => Busy(t, j) /\ Handled(t, j)' = Handled(t, j)
    /\ NameInv(t, j) => NameInv(t, j)'
    /\ \A v \in Values : Returned(t, j, v)' <=> Returned(t, j, v)

\* If another thread is busy with the name, then what the step stores,
\* replaces or begins to handle is not counted any more.
Marked(t, k) ==
    (table'[k] # table[k] \/ Busy(t, k)') /\ (\E u \in Threads \ {t} : Busy(u, k))
        => /\ {table[k], table'[k]} \subseteq Doubtful'
           /\ Busy(t, k)' => Handled(t, k)' \subseteq Doubtful'
           /\ \A u \in Threads \ {t} : Busy(u, k) => Handled(u, k) \subseteq Doubtful'

OneName(t, k) ==
    /\ \A u \in Threads \ {t} : call'[u] = call[u]
    /\ \A j \in Names \ {k} : table'[j] = table[j]
    /\ backed' = backed
    /\ miscounted \subseteq miscounted'
    /\ \A j \in Names \ {k} : Elsewhere(t, j)
    /\ Marked(t, k)

\* The other threads do what they did.
LEMMA OthersStay ==
    ASSUME NEW u \in Threads, call'[u] = call[u]
    PROVE  /\ Free(u)' <=> Free(u)
           /\ Clears(u)' <=> Clears(u)
           /\ \A k \in Names : /\ Busy(u, k)' <=> Busy(u, k)
                               /\ Handled(u, k)' = Handled(u, k)
                               /\ \A v : Returned(u, k, v)' <=> Returned(u, k, v)
           /\ \A v : Has(u, v)' <=> Has(u, v)
  <1>1. Free(u)' <=> Free(u)
    BY DEF Free
  <1>2. \A a : At(u, a)' <=> At(u, a)
    BY <1>1 DEF At
  <1>3. Clears(u)' <=> Clears(u)
    BY <1>2 DEF Clears
  <1>4. ASSUME NEW k \in Names PROVE (Busy(u, k)' <=> Busy(u, k)) /\ Handled(u, k)' = Handled(u, k)
    BY <1>1, <1>2, <1>3 DEF Busy, Handled
  <1>5. ASSUME NEW k \in Names, NEW v PROVE Returned(u, k, v)' <=> Returned(u, k, v)
    BY <1>1, <1>2, <1>3 DEF Returned
  <1>6. ASSUME NEW v PROVE Has(u, v)' <=> Has(u, v)
    BY <1>1, <1>3 DEF Has
  <1>7. QED
    BY <1>1, <1>3, <1>4, <1>5, <1>6

\* They read what the names lead to, ...
LEMMA OneNameKeepsNames ==
    ASSUME NEW t \in Threads, NEW k \in Names, HeldInv, OneName(t, k), NameInv(t, k)'
    PROVE  \A u \in Threads, j \in Names : NameInv(u, j)'
  <1> SUFFICES ASSUME NEW u \in Threads, NEW j \in Names PROVE NameInv(u, j)'
    OBVIOUS
  <1>1. NameInv(u, j) /\ NameInv(t, j)
    BY DEF HeldInv
  <1>2. CASE u = t
    BY <1>1, <1>2 DEF OneName, Elsewhere
  <1>3. CASE u # t /\ ~Busy(u, j)
    <2>1. ~Busy(u, j)'
      BY <1>3, OthersStay DEF OneName
    <2>2. QED
      BY <2>1 DEF NameInv
  <1>4. CASE u # t /\ Busy(u, j)
    <2>1. call'[u] = call[u] /\ (Clears(u)' <=> Clears(u)) /\ (At(u, "clear")' <=> At(u, "clear"))
      <3>1. call'[u] = call[u]
        BY <1>4 DEF OneName
      <3>2. QED
        BY <3>1, OthersStay DEF At, Free
    <2>2. ASSUME NEW x, x \in Handled(u, j), Agrees(x, j) PROVE Agrees(x, j)'
      <3>1. CASE table'[j] = table[j]
        BY <2>2, <3>1 DEF Agrees, OneName, Doubtful
      <3>2. CASE table'[j] # table[j]
        <4>1. j = k /\ table'[k] # table[k] /\ Busy(u, k)
          BY <1>4, <3>2 DEF OneName
        <4>2. Handled(u, k) \subseteq Doubtful' /\ table'[k] \in Doubtful'
          BY <1>4, <4>1 DEF OneName, Marked
        <4>3. QED
          BY <2>2, <4>1, <4>2 DEF Agrees
      <3>3. QED
        BY <3>1, <3>2
    <2>3. CASE Clears(u)
      <3>1. call[u].returned[j] \in Handled(u, j)
        BY <2>3 DEF Handled
      <3>2. Agrees(call[u].returned[j], j) \/ (At(u, "clear") /\ j \in call[u].left)
        BY <1>1, <1>4, <2>3 DEF NameInv
      <3>3. Agrees(call[u].returned[j], j)' \/ (At(u, "clear")' /\ j \in call'[u].left)
        BY <2>1, <2>2, <3>1, <3>2 DEF Agrees
      <3>4. QED
        BY <2>1, <2>3, <3>3 DEF NameInv
    <2>4. CASE ~Clears(u)
      <3>1. call[u].old \in Handled(u, j) /\ Agrees(call[u].old, j)
        BY <1>1, <1>4, <2>4 DEF Handled, NameInv
      <3>2. Agrees(call[u].old, j)'
        BY <2>1, <2>2, <3>1 DEF Agrees
      <3>3. QED
        BY <2>1, <2>4, <3>2 DEF NameInv
    <2>5. QED
      BY <2>3, <2>4
  <1>5. QED
    BY <1>2, <1>3, <1>4

\* ... and those that meet at one work with values that are not counted.
LEMMA OneNameKeepsShared ==
    ASSUME NEW t \in Threads, NEW k \in Names, HeldInv, OneName(t, k)
    PROVE  SharedInv'
  <1> SUFFICES ASSUME NEW r \in Threads, NEW u \in Threads, NEW j \in Names,
                      r # u, Busy(r, j)', Busy(u, j)'
               PROVE  Handled(r, j)' \cup {table'[j]} \subseteq Doubtful'
    BY DEF SharedInv
  <1>1. Doubtful \subseteq Doubtful'
    BY DEF Doubtful, OneName
  <1>2. ASSUME NEW w \in Threads, w # t
        PROVE  (Busy(w, j)' <=> Busy(w, j)) /\ Handled(w, j)' = Handled(w, j)
    BY <1>2, OthersStay DEF OneName
  <1>3. CASE j # k
    <2>1. ASSUME NEW w \in Threads, Busy(w, j)' PROVE Busy(w, j) /\ Handled(w, j)' = Handled(w, j)
      BY <1>2, <1>3, <2>1 DEF OneName, Elsewhere
    <2>2. Busy(r, j) /\ Busy(u, j) /\ Handled(r, j)' = Handled(r, j) /\ table'[j] = table[j]
      BY <1>3, <2>1 DEF OneName
    <2>3. QED
      BY <1>1, <2>2 DEF HeldInv, SharedInv
  <1>4. CASE j = k /\ t \in {r, u}
    <2>1. PICK w \in {r, u} : w # t
      BY <1>4
    <2>2. Busy(t, k)' /\ Busy(w, k) /\ Handled(w, k)' = Handled(w, k)
      BY <1>2, <1>4, <2>1
    <2>3. /\ table'[k] \in Doubtful' /\ Handled(t, k)' \subseteq Doubtful'
          /\ Handled(w, k) \subseteq Doubtful'
      BY <2>1, <2>2 DEF OneName, Marked
    <2>4. QED
      BY <1>4, <2>1, <2>2, <2>3
  <1>5. CASE j = k /\ t \notin {r, u}
    <2>1. Busy(r, k) /\ Busy(u, k) /\ Handled(r, k)' = Handled(r, k)
      BY <1>2, <1>5
    <2>2. Handled(r, k) \cup {table[k]} \subseteq Doubtful
      BY <2>1 DEF HeldInv, SharedInv
    <2>3. table'[k] \in Doubtful'
      <3>1. CASE table'[k] = table[k]
        BY <1>1, <2>2, <3>1
      <3>2. CASE table'[k] # table[k]
        BY <1>5, <2>1, <3>2 DEF OneName, Marked
      <3>3. QED
        BY <3>1, <3>2
    <2>4. QED
      BY <1>1, <1>5, <2>1, <2>2, <2>3
  <1>6. QED
    BY <1>3, <1>4, <1>5

\* The thread does not stop that k counts for v.
Keeps(t, k, v) == table[k] = v /\ ~Returned(t, k, v)

Num(P) == IF P THEN 1 ELSE 0

\* The reference that a step takes or returns is the one that the account
\* gains or loses.
LEMMA OneNameKeepsAccount ==
    ASSUME NEW t \in Threads, NEW k \in Names, NEW v \in Values,
           HeldFinite, HeldInv, HeldTypes', CallInv(t)', OneName(t, k), v \in backed \ miscounted',
           held'[v] + Num(Keeps(t, k, v)) + Num(Has(t, v))
             = held[v] + Num(Keeps(t, k, v)') + Num(Has(t, v)')
    PROVE  held'[v] = Cardinality(Keeping(v)') + Cardinality(Having(v)')
  <1> DEFINE Others == \E u \in Threads \ {t} : Returned(u, k, v)
  <1>1. v \notin Doubtful' /\ v \notin Doubtful
    BY HeldAssumption DEF Doubtful, OneName
  <1>2. \A u \in Threads \ {t} : /\ \A j \in Names : Returned(u, j, v)' <=> Returned(u, j, v)
                                 /\ Has(u, v)' <=> Has(u, v)
    BY OthersStay DEF OneName
  <1>3. ASSUME Others PROVE Keeps(t, k, v)' <=> Keeps(t, k, v)
    <2>1. PICK u \in Threads \ {t} : Returned(u, k, v)
      BY <1>3
    <2>2. Busy(u, k) /\ v \in Handled(u, k)
      BY <2>1, ReturnedBusy DEF HeldInv
    <2>3. table'[k] = table[k] /\ ~Busy(t, k)'
      BY <1>1, <2>2 DEF OneName, Marked
    <2>4. ~Returned(t, k, v)
      <3> SUFFICES ASSUME Returned(t, k, v) PROVE FALSE
        OBVIOUS
      <3>1. Busy(t, k) /\ v \in Handled(t, k)
        BY ReturnedBusy DEF HeldInv
      <3>2. QED
        BY <1>1, <2>2, <3>1 DEF HeldInv, SharedInv
    <2>5. ~Returned(t, k, v)'
      BY <2>3, ReturnedBusy, HeldTypes', CallInv(t)' DEF HeldTypes, CallInv, Returned, Busy, Clears, At, Free, Clearing
    <2>6. QED
      BY <2>3, <2>4, <2>5 DEF Keeps
  <1>4. (k \in Keeping(v) <=> Keeps(t, k, v) /\ ~Others)
        /\ (k \in Keeping(v)' <=> Keeps(t, k, v)' /\ ~Others)
    BY <1>2 DEF Keeping, Keeps
  <1>5. Keeping(v) \ {k} = Keeping(v)' \ {k}
    <2>1. ASSUME NEW j \in Names \ {k} PROVE j \in Keeping(v) <=> j \in Keeping(v)'
      <3>1. table'[j] = table[j] /\ \A u \in Threads : Returned(u, j, v)' <=> Returned(u, j, v)
        BY <1>2 DEF OneName, Elsewhere
      <3>2. QED
        BY <3>1 DEF Keeping
    <2>2. Keeping(v) \subseteq Names /\ Keeping(v)' \subseteq Names
      BY DEF Keeping
    <2>3. QED
      BY <2>1, <2>2
  <1>6. /\ Having(v) \ {t} = Having(v)' \ {t}
        /\ t \in Having(v) <=> Has(t, v)
        /\ t \in Having(v)' <=> Has(t, v)'
    BY <1>2 DEF Having
  <1>7. /\ Keeping(v) \in SUBSET Names /\ Keeping(v)' \in SUBSET Names
        /\ Having(v) \in SUBSET Threads /\ Having(v)' \in SUBSET Threads
    BY DEF Keeping, Having
  <1> DEFINE K == Keeping(v)
             L == Keeping(v)'
             H == Having(v)
             I == Having(v)'
  <1>8. /\ Cardinality(K) \in Nat /\ Cardinality(L) \in Nat
        /\ (k \in K <=> k \in L) => Cardinality(L) = Cardinality(K)
        /\ k \in K /\ k \notin L => Cardinality(L) = Cardinality(K) - 1
        /\ k \notin K /\ k \in L => Cardinality(L) = Cardinality(K) + 1
    <2>1. IsFiniteSet(Names) /\ K \in SUBSET Names /\ L \in SUBSET Names /\ K \ {k} = L \ {k}
      BY <1>5, <1>7 DEF HeldFinite
    <2> HIDE DEF K, L
    <2>2. QED
      BY <2>1, OneApart
  <1>9. /\ Cardinality(H) \in Nat /\ Cardinality(I) \in Nat
        /\ (t \in H <=> t \in I) => Cardinality(I) = Cardinality(H)
        /\ t \in H /\ t \notin I => Cardinality(I) = Cardinality(H) - 1
        /\ t \notin H /\ t \in I => Cardinality(I) = Cardinality(H) + 1
    <2>1. IsFiniteSet(Threads) /\ H \in SUBSET Threads /\ I \in SUBSET Threads /\ H \ {t} = I \ {t}
      BY <1>6, <1>7 DEF HeldFinite
    <2> HIDE DEF H, I
    <2>2. QED
      BY <2>1, OneApart
  <1>10. held[v] = Cardinality(K) + Cardinality(H) /\ held[v] \in Int /\ held'[v] \in Int
    BY DEF HeldInv, AccountInv, OneName, HeldTypes
  <1>11. held'[v] + Num(k \in K) + Num(t \in H) = held[v] + Num(k \in L) + Num(t \in I)
    <2>1. CASE Others
      <3>1. Keeps(t, k, v)' <=> Keeps(t, k, v)
        BY <1>3, <2>1
      <3>2. Num(Keeps(t, k, v)') = Num(Keeps(t, k, v)) /\ Num(Keeps(t, k, v)) \in Int
            /\ Num(k \in K) = 0 /\ Num(k \in L) = 0
        BY <1>4, <2>1, <3>1 DEF Num
      <3>3. Num(t \in H) = Num(Has(t, v)) /\ Num(t \in I) = Num(Has(t, v)') /\ Num(t \in H) \in Int
            /\ Num(t \in I) \in Int
        BY <1>6 DEF Num
      <3> HIDE DEF K, L, H, I
      <3>4. QED
        BY <1>10, <3>2, <3>3
    <2>2. CASE ~Others
      <3>1. Num(k \in K) = Num(Keeps(t, k, v)) /\ Num(k \in L) = Num(Keeps(t, k, v)')
        BY <1>4, <2>2 DEF Num
      <3>2. Num(t \in H) = Num(Has(t, v)) /\ Num(t \in I) = Num(Has(t, v)')
        BY <1>6 DEF Num
      <3> HIDE DEF K, L, H, I
      <3>3. QED
        BY <3>1, <3>2
    <2>3. QED
      BY <2>1, <2>2
  <1>12. held'[v] = Cardinality(L) + Cardinality(I)
    <2> HIDE DEF K, L, H, I
    <2>1. QED
      BY <1>8, <1>9, <1>10, <1>11 DEF Num
  <1>13. QED
    BY <1>12

\* What is left to show of a step of a thread at one name.
LEMMA OneNameKeepsHeld ==
    ASSUME NEW t \in Threads, NEW k \in Names,
           HeldFinite, HeldInv, HeldTypes', CallInv(t)', OneName(t, k), NameInv(t, k)',
           \A v \in Values \ backed : held'[v] = held[v],
           \A v \in backed \ miscounted' :
              held'[v] + Num(Keeps(t, k, v)) + Num(Has(t, v))
                = held[v] + Num(Keeps(t, k, v)') + Num(Has(t, v)')
    PROVE  HeldInv'
  <1>1. ASSUME NEW u \in Threads PROVE CallInv(u)'
    <2>1. CASE u = t
      BY <2>1
    <2>2. CASE u # t
      <3>1. call'[u] = call[u] /\ (At(u, "clear")' <=> At(u, "clear")) /\ CallInv(u)
        BY <2>2 DEF OneName, At, Free, HeldInv
      <3>2. backed' \ miscounted' \subseteq backed \ miscounted
        BY DEF OneName
      <3>3. QED
        BY <3>1, <3>2 DEF CallInv
    <2>3. QED
      BY <2>1, <2>2
  <1>2. \A u \in Threads, j \in Names : NameInv(u, j)'
    BY OneNameKeepsNames
  <1>3. SharedInv'
    BY OneNameKeepsShared
  <1>4. AccountInv'
    <2>1. backed' = backed /\ backed \subseteq Values
      BY DEF OneName, HeldInv, HeldTypes
    <2>2. \A v \in Values : v \notin backed => held'[v] = 0
      BY DEF HeldInv, AccountInv
    <2>3. ASSUME NEW v \in Values, v \in backed \ miscounted'
          PROVE  held'[v] = Cardinality(Keeping(v)') + Cardinality(Having(v)')
      BY <2>3, OneNameKeepsAccount
    <2>4. QED
      BY <2>1, <2>2, <2>3 DEF AccountInv
  <1>5. QED
    BY <1>1, <1>2, <1>3, <1>4 DEF HeldInv

\* An operation on a name concerns no other one, ...
LEMMA OperationElsewhere ==
    ASSUME NEW t \in Threads, NEW k \in Names, HeldTypes, HeldTypes',
           Free(t) \/ (call[t] \in Call /\ call[t].key = k),
           Free(t)' \/ (call'[t] \in Call /\ call'[t].key = k)
    PROVE  \A j \in Names \ {k} : Elsewhere(t, j)
  <1>1. ~Clears(t) /\ ~Clears(t)'
    BY HeldAssumption DEF Clears, At, Free, Call
  <1>2. ASSUME NEW j \in Names \ {k} PROVE ~Busy(t, j) /\ ~Busy(t, j)'
    BY <1>1 DEF Busy, Clears, Free
  <1>3. ASSUME NEW j \in Names \ {k}, NEW v PROVE ~Returned(t, j, v) /\ ~Returned(t, j, v)'
    BY <1>1 DEF Returned, Free
  <1>4. QED
    BY <1>2, <1>3 DEF Elsewhere, NameInv

\* ... and nor does the step of clear for one name.
LEMMA ClearElsewhere ==
    ASSUME NEW t \in Threads, NEW k \in Names, HeldTypes, HeldTypes', table' \in [Names -> Values \cup {Null}],
           call[t] \in Clearing, call'[t] \in Clearing, call'[t].at = call[t].at,
           call'[t].left = call[t].left \ {k},
           \A j \in Names \ {k} : /\ call'[t].returned[j] = call[t].returned[j]
                                  /\ table'[j] = table[j],
           miscounted \subseteq miscounted'
    PROVE  \A j \in Names \ {k} : Elsewhere(t, j)
  <1>1. /\ ~Free(t) /\ ~Free(t)'
        /\ At(t, "clear") <=> call[t].at = "clear"
        /\ At(t, "wipe") <=> call[t].at = "wipe"
        /\ At(t, "clear")' <=> call[t].at = "clear"
        /\ At(t, "wipe")' <=> call[t].at = "wipe"
    BY HeldAssumption DEF Free, At
  <1>2. Clears(t) /\ Clears(t)'
    BY <1>1 DEF Clears, Clearing
  <1> SUFFICES ASSUME NEW j \in Names \ {k} PROVE Elsewhere(t, j)
    OBVIOUS
  <1>3. j \in call'[t].left <=> j \in call[t].left
    OBVIOUS
  <1>4. Busy(t, j)' => Busy(t, j)
    BY <1>1, <1>2, <1>3 DEF Busy
  <1>5. Handled(t, j)' = Handled(t, j)
    BY <1>2 DEF Handled
  <1>6. ASSUME NEW v PROVE Returned(t, j, v)' <=> Returned(t, j, v)
    BY <1>1, <1>2, <1>3 DEF Returned
  <1>7. NameInv(t, j) => NameInv(t, j)'
    BY <1>1, <1>2, <1>3, <1>4 DEF NameInv, Agrees, Doubtful
  <1>8. QED
    BY <1>4, <1>5, <1>6, <1>7 DEF Elsewhere

\* A use of a name that another thread is busy with marks what it concerns, ...
LEMMA OverlapMarks ==
    ASSUME NEW t \in Threads, NEW k \in Names, NEW vs, NEW ws,
           ~Busy(t, k), Miscounts(Overlap(k, vs) \cup ws),
           table'[k] \in vs \cup {table[k], Null},
           Busy(t, k)' => Handled(t, k)' \subseteq vs \cup {table[k], Null}
    PROVE  Marked(t, k)
  <1> SUFFICES ASSUME NEW w \in Threads \ {t}, Busy(w, k)
               PROVE  vs \cup {table[k]} \cup UNION {Handled(u, k) : u \in {u \in Threads : Busy(u, k)}}
                         \subseteq Doubtful'
    BY DEF Marked, Doubtful
  <1>1. QED
    BY DEF Miscounts, Overlap, Doubtful

\* ... and what a thread that is busy with it goes on with is marked already.
LEMMA SharedMarks ==
    ASSUME NEW t \in Threads, NEW k \in Names, HeldInv, Busy(t, k), miscounted \subseteq miscounted',
           table'[k] \in Handled(t, k) \cup {table[k], Null},
           Busy(t, k)' => Handled(t, k)' \subseteq Handled(t, k) \cup {table[k], Null}
    PROVE  Marked(t, k)
  <1> SUFFICES ASSUME NEW w \in Threads \ {t}, Busy(w, k)
               PROVE  Handled(t, k) \cup Handled(w, k) \cup {table[k], Null} \subseteq Doubtful'
    BY DEF Marked
  <1>1. QED
    BY DEF HeldInv, SharedInv, Doubtful

\* The records that the operations make.
LEMMA CallRecord ==
    ASSUME NEW at \in {"incref", "decref", "put", "remove"}, NEW op \in {"set", "default", "delete", "take"},
           NEW k \in Names, NEW v \in Values \cup {Null}, NEW old \in Values \cup {Null}
    PROVE  [at |-> at, op |-> op, key |-> k, value |-> v, old |-> old] \in Call
  BY DEF Call

\* What the operators about a thread say of the call of an operation.
LEMMA InCall ==
    ASSUME NEW t \in Threads, call[t] \in Call
    PROVE  /\ ~Free(t) /\ ~Clears(t) /\ call[t] \notin Clearing
           /\ \A a : At(t, a) <=> call[t].at = a
           /\ \A k \in Names : /\ Busy(t, k) <=> call[t].key = k /\ call[t].op \in {"set", "delete"}
                               /\ Handled(t, k) = {call[t].value, call[t].old}
           /\ \A k \in Names : \A v :
                Returned(t, k, v) <=> /\ call[t].key = k /\ call[t].at \in {"put", "remove"}
                                      /\ call[t].old = v
           /\ \A v : Has(t, v) <=> \/ /\ call[t].op = "set" /\ call[t].at \in {"decref", "put"}
                                      /\ call[t].value = v
                                   \/ call[t].op = "take" /\ call[t].old = v
  <1>1. ~Free(t)
    BY HeldAssumption DEF Free
  <1>2. call[t].at \notin {"clear", "wipe"}
    BY DEF Call
  <1>3. ~Clears(t) /\ call[t] \notin Clearing /\ ~At(t, "clear") /\ ~At(t, "wipe")
    BY <1>2 DEF Clears, At, Clearing
  <1>4. QED
    BY <1>1, <1>3 DEF At, Busy, Handled, Returned, Has

LEMMA InFree ==
    ASSUME NEW t \in Threads, Free(t)
    PROVE  /\ ~Clears(t) /\ \A a : ~At(t, a)
           /\ \A k \in Names : ~Busy(t, k)
           /\ \A k \in Names : \A v : ~Returned(t, k, v)
           /\ \A v : ~Has(t, v)
  BY DEF Clears, At, Busy, Returned, Has

LEMMA InCallNext ==
    ASSUME NEW t \in Threads, call'[t] \in Call
    PROVE  /\ ~Free(t)' /\ ~Clears(t)'
           /\ \A a : At(t, a)' <=> call'[t].at = a
           /\ \A k \in Names : /\ Busy(t, k)' <=> call'[t].key = k /\ call'[t].op \in {"set", "delete"}
                               /\ Handled(t, k)' = {call'[t].value, call'[t].old}
           /\ \A k \in Names : \A v :
                Returned(t, k, v)' <=> /\ call'[t].key = k /\ call'[t].at \in {"put", "remove"}
                                       /\ call'[t].old = v
           /\ \A v : Has(t, v)' <=> \/ /\ call'[t].op = "set" /\ call'[t].at \in {"decref", "put"}
                                       /\ call'[t].value = v
                                    \/ call'[t].op = "take" /\ call'[t].old = v
  <1>1. ~Free(t)'
    BY HeldAssumption DEF Free
  <1>2. call'[t].at \notin {"clear", "wipe"}
    BY DEF Call
  <1>3. ~Clears(t)' /\ ~At(t, "clear")' /\ ~At(t, "wipe")'
    BY <1>2 DEF Clears, At
  <1>4. QED
    BY <1>1, <1>3 DEF At, Busy, Handled, Returned, Has

LEMMA InFreeNext ==
    ASSUME NEW t \in Threads, call'[t] = Null
    PROVE  /\ Free(t)' /\ ~Clears(t)' /\ \A a : ~At(t, a)'
           /\ \A k \in Names : ~Busy(t, k)'
           /\ \A k \in Names : \A v : ~Returned(t, k, v)'
           /\ \A v : ~Has(t, v)'
  BY DEF Free, Clears, At, Busy, Returned, Has

-----------------------------------------------------------------------------

\* The call that begins.
LEMMA BeginRecord ==
    ASSUME NEW t \in Threads, NEW at \in {"incref", "decref"},
           NEW op \in {"set", "default", "delete", "take"},
           NEW k \in Names, NEW v \in Values \cup {Null}, NEW old \in Values \cup {Null},
           HeldTypes, Begin(t, at, op, k, v, old)
    PROVE  /\ call'[t] = [at |-> at, op |-> op, key |-> k, value |-> v, old |-> old]
           /\ call'[t] \in Call
           /\ \A u \in Threads \ {t} : call'[u] = call[u]
           /\ call' \in [Threads -> Call \cup Clearing \cup {Null}]
  <1>1. [at |-> at, op |-> op, key |-> k, value |-> v, old |-> old] \in Call
    BY DEF Call
  <1>2. call \in [Threads -> Call \cup Clearing \cup {Null}]
    BY DEF HeldTypes
  <1>3. call'[t] = [at |-> at, op |-> op, key |-> k, value |-> v, old |-> old]
    BY <1>2 DEF Begin
  <1>4. QED
    BY <1>1, <1>2, <1>3 DEF Begin

\* What is marked are values.
LEMMA OverlapTyped ==
    ASSUME HeldTypes, NEW k \in Names, NEW vs \in SUBSET Values
    PROVE  Overlap(k, vs) \subseteq Values
  <1>1. ASSUME NEW u \in Threads, Busy(u, k) PROVE Handled(u, k) \subseteq Values \cup {Null}
    <2>1. call[u] \in Call \cup Clearing
      BY <1>1 DEF HeldTypes, Busy, At, Free
    <2>2. CASE call[u] \in Call
      <3>1. Handled(u, k) = {call[u].value, call[u].old}
        BY <2>2, InCall
      <3>2. QED
        BY <2>2, <3>1 DEF Call
    <2>3. CASE call[u] \in Clearing
      BY <2>3, HeldAssumption DEF Clearing, Handled, Clears, At, Free
    <2>4. QED
      BY <2>1, <2>2, <2>3
  <1>2. QED
    BY <1>1 DEF Overlap, HeldTypes

\* An operation that changes or removes the value of a name begins.
LEMMA BeginningKeepsHeld ==
    ASSUME NEW t \in Threads, NEW k \in Names, HeldFinite, HeldInv, Free(t),
           NEW v \in Values \cup {Null}, NEW old \in Values \cup {Null},
           NEW vs \in SUBSET Values, NEW ws \in SUBSET Values,
           \/ v # Null /\ Begin(t, "incref", "set", k, v, old) /\ v \in vs
           \/ v = Null /\ old # Null /\ Begin(t, "decref", "delete", k, v, old),
           Miscounts(Overlap(k, vs) \cup ws),
           old = table[k] \/ (old \in vs /\ {old, table[k]} \subseteq ws \cup {Null}),
           entry' \in [Iterators -> (Names \X Values) \cup {Null}],
           UNCHANGED <<table, held, backed>>
    PROVE  HeldInv'
  <1> USE DEF HeldInv
  <1>1. /\ call'[t] \in Call /\ call'[t].key = k /\ call'[t].value = v /\ call'[t].old = old
        /\ <<call'[t].at, call'[t].op>> \in {<<"incref", "set">>, <<"decref", "delete">>}
        /\ call'[t].op = "set" <=> v # Null
        /\ call'[t].at = "decref" => old # Null
        /\ \A u \in Threads \ {t} : call'[u] = call[u]
        /\ call' \in [Threads -> Call \cup Clearing \cup {Null}]
    <2>1. PICK at \in {"incref", "decref"}, op \in {"set", "delete"} :
             /\ Begin(t, at, op, k, v, old)
             /\ <<at, op>> \in {<<"incref", "set">>, <<"decref", "delete">>}
             /\ op = "set" <=> v # Null
             /\ at = "decref" => old # Null
      OBVIOUS
    <2>2. /\ call'[t] = [at |-> at, op |-> op, key |-> k, value |-> v, old |-> old]
          /\ call'[t] \in Call
          /\ \A u \in Threads \ {t} : call'[u] = call[u]
          /\ call' \in [Threads -> Call \cup Clearing \cup {Null}]
      BY <2>1, BeginRecord
    <2>3. QED
      BY <2>1, <2>2
  <1>2. Overlap(k, vs) \cup ws \subseteq Values /\ miscounted \subseteq miscounted' /\ miscounted' \in SUBSET Values
    <2>1. Overlap(k, vs) \subseteq Values
      BY OverlapTyped
    <2>2. QED
      BY <2>1 DEF Miscounts, HeldTypes
  <1>3. HeldTypes'
    BY <1>1, <1>2 DEF HeldTypes
  <1>4. /\ ~Busy(t, k) /\ (\A x : ~Returned(t, k, x) /\ ~Has(t, x))
        /\ Busy(t, k)' /\ Handled(t, k)' = {v, old} /\ ~Clears(t)' /\ ~At(t, "clear")'
        /\ \A x : ~Returned(t, k, x)' /\ ~Has(t, x)'
    <2>1. ~Busy(t, k) /\ \A x : ~Returned(t, k, x) /\ ~Has(t, x)
      BY InFree
    <2>2. QED
      BY <1>1, <2>1, InCallNext
  <1>5. CallInv(t)'
    BY <1>1, <1>4 DEF CallInv
  <1>6. NameInv(t, k)'
    <2>1. old = table[k] \/ {old, table[k]} \subseteq miscounted' \cup {Null}
      BY DEF Miscounts
    <2>2. Agrees(call[t].old, k)'
      BY <1>1, <2>1 DEF Agrees, Doubtful
    <2>3. QED
      BY <1>4, <2>2 DEF NameInv
  <1>7. Marked(t, k)
    <2>1. {v, old} \subseteq vs \cup {table[k], Null}
      BY DEF Begin
    <2>2. QED
      BY <1>4, <2>1, OverlapMarks
  <1>8. OneName(t, k)
    <2>1. \A j \in Names \ {k} : Elsewhere(t, j)
      BY <1>1, <1>3, OperationElsewhere
    <2>2. QED
      BY <1>1, <1>2, <1>7, <2>1 DEF OneName
  <1>9. ASSUME NEW x \in backed \ miscounted'
        PROVE  held'[x] + Num(Keeps(t, k, x)) + Num(Has(t, x))
                 = held[x] + Num(Keeps(t, k, x)') + Num(Has(t, x)')
    <2>1. Num(Keeps(t, k, x)) = Num(Keeps(t, k, x)') /\ Num(Has(t, x)) = 0 /\ Num(Has(t, x)') = 0
      BY <1>4 DEF Keeps, Num
    <2>2. QED
      BY <2>1
  <1>10. QED
    BY <1>3, <1>5, <1>6, <1>8, <1>9, OneNameKeepsHeld

\* A value is removed or inserted in one step of the table: the operation
\* handles nothing afterwards, or only the reference that it has taken over.
LEMMA TableStepKeepsHeld ==
    ASSUME NEW t \in Threads, NEW k \in Names, HeldFinite, HeldInv, Free(t),
           NEW new \in Values \cup {Null}, NEW vs \in SUBSET Values, NEW ws \in SUBSET Values,
           table' = [table EXCEPT ![k] = new], new \in vs \cup {Null},
           Miscounts(Overlap(k, vs) \cup ws),
           \/ new = Null /\ table[k] # Null /\ Begin(t, "decref", "take", k, Null, table[k])
           \/ UNCHANGED call /\ {new, table[k]} \cap backed \subseteq ws,
           UNCHANGED <<held, backed, entry>>
    PROVE  HeldInv'
  <1> USE DEF HeldInv
  <1>1. /\ table \in [Names -> Values \cup {Null}] /\ table[k] \in Values \cup {Null}
        /\ table' \in [Names -> Values \cup {Null}] /\ table'[k] = new
        /\ \A j \in Names \ {k} : table'[j] = table[j]
    BY DEF HeldTypes
  <1>2. miscounted \subseteq miscounted' /\ ws \subseteq miscounted' /\ miscounted' \in SUBSET Values
    <2>1. Overlap(k, vs) \subseteq Values
      BY OverlapTyped
    <2>2. QED
      BY <2>1 DEF Miscounts, HeldTypes
  <1>3. \A x : ~Returned(t, k, x) /\ ~Has(t, x) /\ ~Busy(t, k) /\ ~Clears(t)
    BY InFree
  <1>4. /\ call' \in [Threads -> Call \cup Clearing \cup {Null}]
        /\ \A u \in Threads \ {t} : call'[u] = call[u]
        /\ \/ call'[t] = Null /\ call'[t] \notin Call /\ {new, table[k]} \cap backed \subseteq ws
           \/ /\ call'[t] = [at |-> "decref", op |-> "take", key |-> k, value |-> Null, old |-> table[k]]
              /\ call'[t] \in Call /\ call'[t] # Null /\ table[k] # Null /\ new = Null
    <2>1. CASE UNCHANGED call /\ {new, table[k]} \cap backed \subseteq ws
      BY <2>1, HeldAssumption DEF HeldTypes, Free
    <2>2. CASE new = Null /\ table[k] # Null /\ Begin(t, "decref", "take", k, Null, table[k])
      BY <1>1, <2>2, BeginRecord, HeldAssumption
    <2>3. QED
      BY <2>1, <2>2
  <1>5. HeldTypes'
    BY <1>1, <1>2, <1>4 DEF HeldTypes
  <1>6. /\ ~Busy(t, k)' /\ ~Clears(t)' /\ ~At(t, "clear")'
        /\ \A x : ~Returned(t, k, x)'
        /\ \A x : Has(t, x)' <=> call'[t] # Null /\ table[k] = x
    <2>1. CASE call'[t] = Null
      BY <2>1, InFreeNext
    <2>2. CASE call'[t] # Null
      BY <1>4, <2>2, InCallNext
    <2>3. QED
      BY <2>1, <2>2
  <1>7. CallInv(t)' /\ NameInv(t, k)'
    <2>1. NameInv(t, k)'
      BY <1>6 DEF NameInv
    <2>2. CASE call'[t] = Null
      BY <1>4, <1>6, <2>1, <2>2 DEF CallInv
    <2>3. CASE call'[t] # Null
      BY <1>4, <1>6, <2>1, <2>3 DEF CallInv
    <2>4. QED
      BY <2>1, <2>2, <2>3
  <1>8. OneName(t, k)
    <2>1. \A j \in Names \ {k} : Elsewhere(t, j)
      <3>1. Free(t)' \/ (call'[t] \in Call /\ call'[t].key = k)
        BY <1>4 DEF Free
      <3>2. QED
        BY <1>5, <3>1, OperationElsewhere
    <2>2. Marked(t, k)
      BY <1>1, <1>3, <1>6, OverlapMarks
    <2>3. QED
      BY <1>1, <1>2, <1>4, <2>1, <2>2 DEF OneName
  <1>9. ASSUME NEW x \in backed \ miscounted'
        PROVE  held'[x] + Num(Keeps(t, k, x)) + Num(Has(t, x))
                 = held[x] + Num(Keeps(t, k, x)') + Num(Has(t, x)')
    <2>1. x # Null /\ (Keeps(t, k, x) <=> table[k] = x) /\ (Keeps(t, k, x)' <=> new = x)
          /\ ~Has(t, x) /\ held'[x] = held[x] /\ held[x] \in Int
      BY <1>1, <1>3, <1>6, HeldAssumption DEF Keeps, HeldTypes
    <2>2. CASE call'[t] = Null
      <3>1. ~Has(t, x)' /\ new # x /\ table[k] # x
        BY <1>2, <1>4, <1>6, <2>2
      <3>2. QED
        BY <2>1, <3>1 DEF Num
    <2>3. CASE call'[t] # Null
      <3>1. (Has(t, x)' <=> table[k] = x) /\ new # x
        BY <1>4, <1>6, <2>1, <2>3, HeldAssumption
      <3>2. QED
        BY <2>1, <3>1 DEF Num
    <2>4. QED
      BY <2>2, <2>3
  <1>10. QED
    BY <1>5, <1>7, <1>8, <1>9, OneNameKeepsHeld

\* setdefault finds the name in use.
LEMMA DefaultKeepsHeld ==
    ASSUME NEW t \in Threads, NEW k \in Names, NEW v \in Values, HeldFinite, HeldInv, Free(t),
           Begin(t, "incref", "default", k, v, table[k]),
           Miscounts(Overlap(k, {v}) \cup ({v} \cap backed)),
           UNCHANGED <<table, held, backed, entry>>
    PROVE  HeldInv'
  <1>1. HeldTypes /\ table[k] \in Values \cup {Null}
    BY DEF HeldInv, HeldTypes
  <1>2. /\ call'[t] = [at |-> "incref", op |-> "default", key |-> k, value |-> v, old |-> table[k]]
        /\ call'[t] \in Call
        /\ \A u \in Threads \ {t} : call'[u] = call[u]
        /\ call' \in [Threads -> Call \cup Clearing \cup {Null}]
    BY <1>1, BeginRecord
  <1>3. miscounted \subseteq miscounted' /\ {v} \cap backed \subseteq miscounted' /\ miscounted' \in SUBSET Values
    <2>1. Overlap(k, {v}) \subseteq Values
      BY <1>1, OverlapTyped
    <2>2. QED
      BY <1>1, <2>1 DEF Miscounts, HeldTypes
  <1>4. HeldTypes'
    BY <1>1, <1>2, <1>3 DEF HeldTypes
  <1>5. \A x : ~Returned(t, k, x) /\ ~Has(t, x)
    BY InFree
  <1>6. ~Busy(t, k)' /\ ~At(t, "clear")' /\ \A x : ~Returned(t, k, x)' /\ ~Has(t, x)'
    BY <1>2, InCallNext
  <1>7. CallInv(t)'
    <2>1. v # Null /\ v \notin backed \ miscounted'
      BY <1>3, HeldAssumption
    <2>2. QED
      BY <1>2, <1>6, <2>1 DEF CallInv
  <1>8. NameInv(t, k)' /\ Marked(t, k)
    BY <1>6 DEF NameInv, Marked
  <1>9. OneName(t, k)
    <2>1. \A j \in Names \ {k} : Elsewhere(t, j)
      BY <1>1, <1>2, <1>4, OperationElsewhere
    <2>2. QED
      BY <1>2, <1>3, <1>8, <2>1 DEF OneName
  <1>10. ASSUME NEW x \in backed \ miscounted'
         PROVE  held'[x] + Num(Keeps(t, k, x)) + Num(Has(t, x))
                  = held[x] + Num(Keeps(t, k, x)') + Num(Has(t, x)')
    <2>1. (Keeps(t, k, x) <=> Keeps(t, k, x)') /\ ~Has(t, x) /\ ~Has(t, x)'
      BY <1>5, <1>6 DEF Keeps
    <2>2. QED
      BY <2>1 DEF Num
  <1>11. QED
    BY <1>4, <1>7, <1>8, <1>9, <1>10, OneNameKeepsHeld

\* A reference to a counted value is one more or less.
LEMMA ReferencesCount ==
    ASSUME HeldTypes, NEW v \in Values, NEW d \in Int, held' = References(v, d)
    PROVE  /\ held' \in [Values -> Int]
           /\ \A x \in Values : held'[x] = IF x = v /\ v \in backed \ miscounted THEN held[x] + d ELSE held[x]
  BY DEF HeldTypes, References

\* An operation that is busy with its name goes on.
LEMMA GoingKeepsHeld ==
    ASSUME NEW t \in Threads, HeldFinite, HeldInv, call[t] \in Call, NEW to,
           <<to, call[t].op>> \in {<<"decref", "set">>, <<"put", "set">>, <<"remove", "delete">>},
           to \in {"decref", "remove"} => call[t].old # Null,
           Go(t, to), UNCHANGED <<table, backed, entry, miscounted>>, held' \in [Values -> Int],
           \A v \in Values \ backed : held'[v] = held[v],
           \A v \in backed \ miscounted :
              LET k == call[t].key IN
              held'[v] + Num(table[k] = v /\ ~(call[t].at \in {"put", "remove"} /\ call[t].old = v))
                       + Num(call[t].op = "set" /\ call[t].at \in {"decref", "put"} /\ call[t].value = v)
                = held[v] + Num(table[k] = v /\ ~(to \in {"put", "remove"} /\ call[t].old = v))
                          + Num(call[t].op = "set" /\ call[t].value = v)
    PROVE  HeldInv'
  <1>1. HeldTypes /\ CallInv(t)
    BY DEF HeldInv
  <1>2. PICK k \in Names : k = call[t].key
    BY DEF Call
  <1>3. /\ call'[t] \in Call /\ call'[t].at = to /\ call'[t].op = call[t].op /\ call'[t].key = k
        /\ call'[t].value = call[t].value /\ call'[t].old = call[t].old
        /\ \A u \in Threads \ {t} : call'[u] = call[u]
        /\ call' \in [Threads -> Call \cup Clearing \cup {Null}]
    <2>1. to \in {"incref", "decref", "put", "remove"}
      OBVIOUS
    <2>2. call \in [Threads -> Call \cup Clearing \cup {Null}] /\ call' = [call EXCEPT ![t] = [call[t] EXCEPT !.at = to]]
      BY <1>1 DEF HeldTypes, Go
    <2>3. [call[t] EXCEPT !.at = to] \in Call
      BY <2>1 DEF Call
    <2>4. /\ [call[t] EXCEPT !.at = to].at = to /\ [call[t] EXCEPT !.at = to].op = call[t].op
          /\ [call[t] EXCEPT !.at = to].key = k /\ [call[t] EXCEPT !.at = to].value = call[t].value
          /\ [call[t] EXCEPT !.at = to].old = call[t].old
      BY <1>2 DEF Call
    <2>5. call'[t] = [call[t] EXCEPT !.at = to]
      BY <2>2
    <2>6. QED
      BY <2>2, <2>3, <2>4, <2>5
  <1>4. HeldTypes'
    BY <1>1, <1>3 DEF HeldTypes
  <1>5. /\ Busy(t, k) /\ Handled(t, k) = {call[t].value, call[t].old} /\ ~Clears(t)
        /\ \A v : Returned(t, k, v) <=> call[t].at \in {"put", "remove"} /\ call[t].old = v
        /\ \A v : Has(t, v) <=> call[t].op = "set" /\ call[t].at \in {"decref", "put"} /\ call[t].value = v
    BY <1>2, InCall
  <1>6. /\ Busy(t, k)' /\ Handled(t, k)' = {call[t].value, call[t].old} /\ ~Clears(t)' /\ ~At(t, "clear")'
        /\ \A v : Returned(t, k, v)' <=> to \in {"put", "remove"} /\ call[t].old = v
        /\ \A v : Has(t, v)' <=> call[t].op = "set" /\ call[t].value = v
    BY <1>3, InCallNext
  <1>7. CallInv(t)'
    BY <1>1, <1>3, <1>6 DEF CallInv
  <1>8. NameInv(t, k)'
    <2>1. Agrees(call[t].old, k)
      BY <1>5 DEF HeldInv, NameInv
    <2>2. Agrees(call[t].old, k)'
      BY <1>3, <2>1 DEF Agrees, Doubtful
    <2>3. QED
      BY <1>6, <2>2 DEF NameInv
  <1>9. OneName(t, k)
    <2>1. \A j \in Names \ {k} : Elsewhere(t, j)
      BY <1>1, <1>2, <1>3, <1>4, OperationElsewhere
    <2>2. Marked(t, k)
      BY <1>5, <1>6, SharedMarks
    <2>3. QED
      BY <1>3, <2>1, <2>2 DEF OneName
  <1>10. ASSUME NEW v \in backed \ miscounted'
         PROVE  held'[v] + Num(Keeps(t, k, v)) + Num(Has(t, v))
                  = held[v] + Num(Keeps(t, k, v)') + Num(Has(t, v)')
    <2>1. /\ Keeps(t, k, v) <=> table[k] = v /\ ~(call[t].at \in {"put", "remove"} /\ call[t].old = v)
          /\ Keeps(t, k, v)' <=> table[k] = v /\ ~(to \in {"put", "remove"} /\ call[t].old = v)
      BY <1>5, <1>6 DEF Keeps
    <2>2. v \in backed \ miscounted
      OBVIOUS
    <2>3. QED
      BY <1>2, <1>5, <1>6, <2>1, <2>2 DEF Num
  <1>11. QED
    BY <1>4, <1>7, <1>8, <1>9, <1>10, OneNameKeepsHeld

\* An operation ends, after its last change of the table or of a count.
LEMMA EndingKeepsHeld ==
    ASSUME NEW t \in Threads, HeldFinite, HeldInv, call[t] \in Call, Done(t),
           NEW new \in Values \cup {Null}, table' = [table EXCEPT ![call[t].key] = new],
           \/ new = table[call[t].key]
           \/ call[t].op \in {"set", "delete"} /\ new \in {call[t].value, Null},
           UNCHANGED <<backed, entry, miscounted>>, held' \in [Values -> Int],
           \A v \in Values \ backed : held'[v] = held[v],
           \A v \in backed \ miscounted :
              LET k == call[t].key IN
              held'[v] + Num(table[k] = v /\ ~(call[t].at \in {"put", "remove"} /\ call[t].old = v))
                       + Num(\/ call[t].op = "set" /\ call[t].at \in {"decref", "put"} /\ call[t].value = v
                             \/ call[t].op = "take" /\ call[t].old = v)
                = held[v] + Num(new = v)
    PROVE  HeldInv'
  <1>1. HeldTypes /\ CallInv(t)
    BY DEF HeldInv
  <1>2. PICK k \in Names : k = call[t].key
    BY DEF Call
  <1>3. /\ call'[t] = Null
        /\ \A u \in Threads \ {t} : call'[u] = call[u]
        /\ call' \in [Threads -> Call \cup Clearing \cup {Null}]
        /\ table' \in [Names -> Values \cup {Null}] /\ table'[k] = new
        /\ \A j \in Names \ {k} : table'[j] = table[j]
    BY <1>1, <1>2 DEF HeldTypes, Done
  <1>4. HeldTypes'
    BY <1>1, <1>3 DEF HeldTypes
  <1>5. /\ Busy(t, k) <=> call[t].op \in {"set", "delete"}
        /\ Handled(t, k) = {call[t].value, call[t].old}
        /\ \A v : Returned(t, k, v) <=> call[t].at \in {"put", "remove"} /\ call[t].old = v
        /\ \A v : Has(t, v) <=> \/ call[t].op = "set" /\ call[t].at \in {"decref", "put"} /\ call[t].value = v
                                \/ call[t].op = "take" /\ call[t].old = v
    BY <1>2, InCall
  <1>6. /\ ~Busy(t, k)' /\ ~At(t, "clear")' /\ call'[t] \notin Call
        /\ \A v : ~Returned(t, k, v)' /\ ~Has(t, v)'
    BY <1>3, InFreeNext, HeldAssumption
  <1>7. CallInv(t)' /\ NameInv(t, k)'
    BY <1>6 DEF CallInv, NameInv
  <1>8. OneName(t, k)
    <2>1. \A j \in Names \ {k} : Elsewhere(t, j)
      BY <1>1, <1>2, <1>3, <1>4, OperationElsewhere DEF Free
    <2>2. Marked(t, k)
      <3>1. CASE new = table[k]
        BY <1>3, <1>6, <3>1 DEF Marked
      <3>2. CASE new # table[k]
        BY <1>2, <1>3, <1>5, <1>6, <3>2, SharedMarks
      <3>3. QED
        BY <3>1, <3>2
    <2>3. QED
      BY <1>3, <2>1, <2>2 DEF OneName
  <1>9. ASSUME NEW v \in backed \ miscounted'
        PROVE  held'[v] + Num(Keeps(t, k, v)) + Num(Has(t, v))
                 = held[v] + Num(Keeps(t, k, v)') + Num(Has(t, v)')
    <2>1. /\ Keeps(t, k, v) <=> table[k] = v /\ ~(call[t].at \in {"put", "remove"} /\ call[t].old = v)
          /\ Keeps(t, k, v)' <=> new = v
      BY <1>3, <1>5, <1>6 DEF Keeps
    <2>2. v \in backed \ miscounted /\ held[v] \in Int
      BY <1>1 DEF HeldTypes
    <2>3. Num(Has(t, v)') = 0
      BY <1>6 DEF Num
    <2>4. Num(new = v) \in Int
      BY DEF Num
    <2>5. held'[v] + Num(Keeps(t, k, v)) + Num(Has(t, v)) = held[v] + Num(Keeps(t, k, v)')
      BY <1>2, <1>5, <2>1, <2>2 DEF Num
    <2>6. held[v] + Num(Keeps(t, k, v)') + Num(Has(t, v)') = held[v] + Num(Keeps(t, k, v)')
      BY <2>1, <2>2, <2>3, <2>4 DEF Num
    <2>7. QED
      BY <2>5, <2>6
  <1>10. QED
    BY <1>4, <1>7, <1>8, <1>9, OneNameKeepsHeld

\* What a call in progress is.
LEMMA CallParts ==
    ASSUME NEW t \in Threads, HeldInv, call[t] \in Call
    PROVE  /\ call[t].key \in Names /\ table[call[t].key] \in Values \cup {Null}
           /\ call[t].value \in Values \cup {Null} /\ call[t].old \in Values \cup {Null}
           /\ call[t].op \in {"set", "delete"} => Agrees(call[t].old, call[t].key)
           /\ table = [table EXCEPT ![call[t].key] = table[call[t].key]]
           /\ held \in [Values -> Int]
  <1>1. call[t].key \in Names /\ call[t].value \in Values \cup {Null} /\ call[t].old \in Values \cup {Null}
    BY DEF Call
  <1>2. table \in [Names -> Values \cup {Null}] /\ held \in [Values -> Int]
    BY DEF HeldInv, HeldTypes
  <1>3. call[t].op \in {"set", "delete"} => Busy(t, call[t].key) /\ ~Clears(t)
    BY <1>1, InCall
  <1>4. call[t].op \in {"set", "delete"} => Agrees(call[t].old, call[t].key)
    BY <1>1, <1>3 DEF HeldInv, NameInv
  <1>5. QED
    BY <1>1, <1>2, <1>4

LEMMA IncrefKeepsHeld ==
    ASSUME NEW t \in Threads, HeldFinite, HeldInv, Incref(t)
    PROVE  HeldInv'
  <1>1. HeldTypes /\ CallInv(t)
    BY DEF HeldInv
  <1>2. call[t] \in Call /\ call[t].at = "incref"
    BY <1>1 DEF Incref, At, HeldTypes, Free, Clearing
  <1>3. /\ call[t].op \in {"set", "default"} /\ call[t].value \in Values
        /\ call[t].op = "default" => call[t].value \notin backed \ miscounted
    BY <1>1, <1>2, CallParts DEF CallInv
  <1>4. held' = References(call[t].value, 1) /\ UNCHANGED <<table, backed, entry, miscounted>>
    BY <1>2 DEF Incref, Counted
  <1>5. /\ held' \in [Values -> Int]
        /\ \A x \in Values : held'[x] = IF x = call[t].value /\ call[t].value \in backed \ miscounted
                                         THEN held[x] + 1 ELSE held[x]
    BY <1>1, <1>3, <1>4, ReferencesCount
  <1>6. CASE call[t].op = "default"
    <2>1. Done(t) /\ \A x \in Values : held'[x] = held[x]
      BY <1>3, <1>5, <1>6 DEF Incref
    <2>2. PICK new \in Values \cup {Null} : new = table[call[t].key]
      BY <1>2, CallParts
    <2>3. table' = [table EXCEPT ![call[t].key] = new]
      BY <1>2, <1>4, <2>2, CallParts
    <2>4. ASSUME NEW v \in backed \ miscounted
          PROVE LET k == call[t].key IN
              held'[v] + Num(table[k] = v /\ ~(call[t].at \in {"put", "remove"} /\ call[t].old = v))
                       + Num(\/ call[t].op = "set" /\ call[t].at \in {"decref", "put"} /\ call[t].value = v
                             \/ call[t].op = "take" /\ call[t].old = v)
                = held[v] + Num(new = v)
      BY <1>1, <1>2, <1>6, <2>1, <2>2 DEF Num, HeldTypes
    <2>5. \A v \in Values \ backed : held'[v] = held[v]
      BY <2>1
    <2>6. QED
      BY <1>2, <1>4, <1>5, <2>1, <2>2, <2>3, <2>4, <2>5, EndingKeepsHeld
  <1>7. CASE call[t].op = "set"
    <2>1. PICK to \in {"decref", "put"} : Go(t, to) /\ (to = "decref" => call[t].old # Null)
                                         /\ (to = "put" => call[t].old = Null)
      <3>1. Go(t, IF call[t].old = Null THEN "put" ELSE "decref")
        BY <1>2, <1>7 DEF Incref
      <3>2. CASE call[t].old = Null
        BY <3>1, <3>2
      <3>3. CASE call[t].old # Null
        BY <3>1, <3>3
      <3>4. QED
        BY <3>2, <3>3
    <2>2. ASSUME NEW v \in backed \ miscounted
          PROVE LET k == call[t].key IN
              held'[v] + Num(table[k] = v /\ ~(call[t].at \in {"put", "remove"} /\ call[t].old = v))
                       + Num(call[t].op = "set" /\ call[t].at \in {"decref", "put"} /\ call[t].value = v)
                = held[v] + Num(table[k] = v /\ ~(to \in {"put", "remove"} /\ call[t].old = v))
                          + Num(call[t].op = "set" /\ call[t].value = v)
      <3>1. v \in Values /\ v # Null /\ held[v] \in Int /\ v \in backed
        BY <1>1, HeldAssumption DEF HeldTypes
      <3>2. held'[v] = held[v] + Num(call[t].value = v)
        BY <1>5, <3>1 DEF Num
      <3>3. QED
        BY <1>2, <1>7, <2>1, <3>1, <3>2 DEF Num
    <2>3. <<to, call[t].op>> \in {<<"decref", "set">>, <<"put", "set">>}
      BY <1>7
    <2>4. \A v \in Values \ backed : held'[v] = held[v]
      BY <1>5
    <2>5. QED
      BY <1>2, <1>4, <1>5, <2>1, <2>2, <2>3, <2>4, GoingKeepsHeld
  <1>8. QED
    BY <1>3, <1>6, <1>7

LEMMA DecrefKeepsHeld ==
    ASSUME NEW t \in Threads, HeldFinite, HeldInv, Decref(t)
    PROVE  HeldInv'
  <1>1. HeldTypes /\ CallInv(t)
    BY DEF HeldInv
  <1>2. call[t] \in Call /\ call[t].at = "decref"
    BY <1>1 DEF Decref, At, HeldTypes, Free, Clearing
  <1>3. call[t].op \in {"set", "delete", "take"} /\ call[t].old # Null /\ call[t].old \in Values
    BY <1>1, <1>2, CallParts DEF CallInv
  <1>4. held' = References(call[t].old, -1) /\ UNCHANGED <<table, backed, entry, miscounted>>
    BY <1>2 DEF Decref, Counted
  <1>5. /\ held' \in [Values -> Int]
        /\ \A x \in Values : held'[x] = IF x = call[t].old /\ call[t].old \in backed \ miscounted
                                         THEN held[x] + (-1) ELSE held[x]
    BY <1>1, <1>3, <1>4, ReferencesCount
  <1>6. \A v \in Values \ backed : held'[v] = held[v]
    BY <1>5
  <1>7. ASSUME NEW v \in backed \ miscounted
        PROVE  v \in Values /\ v # Null /\ held[v] \in Int /\ held'[v] + Num(call[t].old = v) = held[v]
    <2>1. v \in Values /\ v # Null /\ held[v] \in Int
      BY <1>1, HeldAssumption DEF HeldTypes
    <2>2. QED
      BY <1>5, <2>1 DEF Num
  <1>8. CASE call[t].op = "take"
    <2>1. Done(t)
      BY <1>2, <1>8 DEF Decref
    <2>2. ASSUME NEW v \in backed \ miscounted
          PROVE LET k == call[t].key IN
              held'[v] + Num(table[k] = v /\ ~(call[t].at \in {"put", "remove"} /\ call[t].old = v))
                       + Num(\/ call[t].op = "set" /\ call[t].at \in {"decref", "put"} /\ call[t].value = v
                             \/ call[t].op = "take" /\ call[t].old = v)
                = held[v] + Num(table[k] = v)
      BY <1>2, <1>7, <1>8, <1>5 DEF Num
    <2>3. table[call[t].key] \in Values \cup {Null} /\ table' = [table EXCEPT ![call[t].key] = table[call[t].key]]
      BY <1>2, <1>4, CallParts
    <2>4. PICK new \in Values \cup {Null} : new = table[call[t].key]
      BY <2>3
    <2>5. QED
      BY <1>2, <1>4, <1>5, <1>6, <2>1, <2>2, <2>3, <2>4, EndingKeepsHeld
  <1>9. CASE call[t].op \in {"set", "delete"}
    <2>1. PICK to \in {"put", "remove"} : Go(t, to) /\ <<to, call[t].op>> \in {<<"put", "set">>, <<"remove", "delete">>}
      BY <1>2, <1>9 DEF Decref
    <2>2. ASSUME NEW v \in backed \ miscounted
          PROVE LET k == call[t].key IN
              held'[v] + Num(table[k] = v /\ ~(call[t].at \in {"put", "remove"} /\ call[t].old = v))
                       + Num(call[t].op = "set" /\ call[t].at \in {"decref", "put"} /\ call[t].value = v)
                = held[v] + Num(table[k] = v /\ ~(to \in {"put", "remove"} /\ call[t].old = v))
                          + Num(call[t].op = "set" /\ call[t].value = v)
      <3>1. call[t].old = v => table[call[t].key] = v
        BY <1>2, <1>7, <1>9, CallParts DEF Agrees, Doubtful
      <3>2. held'[v] \in Int
        BY <1>5, <1>7
      <3>3. QED
        BY <1>2, <1>7, <2>1, <3>1, <3>2 DEF Num
    <2>3. QED
      BY <1>2, <1>3, <1>4, <1>5, <1>6, <2>1, <2>2, GoingKeepsHeld
  <1>10. QED
    BY <1>3, <1>8, <1>9

LEMMA StoringKeepsHeld ==
    ASSUME NEW t \in Threads, HeldFinite, HeldInv, Put(t) \/ RemoveName(t)
    PROVE  HeldInv'
  <1>1. HeldTypes /\ CallInv(t)
    BY DEF HeldInv
  <1>2. call[t] \in Call /\ call[t].at \in {"put", "remove"} /\ (call[t].at = "put" <=> Put(t))
    BY <1>1 DEF Put, RemoveName, At, HeldTypes, Free, Clearing
  <1>3. /\ <<call[t].at, call[t].op>> \in {<<"put", "set">>, <<"remove", "delete">>}
        /\ call[t].value = Null <=> call[t].op = "delete"
    BY <1>1, <1>2 DEF CallInv
  <1>4. PICK new \in Values \cup {Null} : new = call[t].value
    BY <1>2, CallParts
  <1>5. table' = [table EXCEPT ![call[t].key] = new] /\ Done(t) /\ UNCHANGED <<held, backed, entry, miscounted>>
    BY <1>2, <1>3, <1>4 DEF Put, RemoveName
  <1>6. ASSUME NEW v \in backed \ miscounted
        PROVE LET k == call[t].key IN
            held'[v] + Num(table[k] = v /\ ~(call[t].at \in {"put", "remove"} /\ call[t].old = v))
                     + Num(\/ call[t].op = "set" /\ call[t].at \in {"decref", "put"} /\ call[t].value = v
                           \/ call[t].op = "take" /\ call[t].old = v)
              = held[v] + Num(new = v)
    <2>1. v # Null /\ held[v] \in Int
      BY <1>1, HeldAssumption DEF HeldTypes
    <2>2. table[call[t].key] = v => call[t].old = v
      BY <1>2, <1>3, <2>1, CallParts DEF Agrees, Doubtful
    <2>3. QED
      BY <1>2, <1>3, <1>4, <1>5, <2>1, <2>2 DEF Num
  <1>7. call[t].op \in {"set", "delete"} /\ new \in {call[t].value, Null} /\ held' \in [Values -> Int]
        /\ \A v \in Values \ backed : held'[v] = held[v]
    BY <1>1, <1>3, <1>4, <1>5 DEF HeldTypes
  <1>8. QED
    BY <1>2, <1>5, <1>6, <1>7, EndingKeepsHeld

-----------------------------------------------------------------------------
(* Clearing the map.                                                       *)

\* What the operators about a thread say while it clears the map.
LEMMA InClearing ==
    ASSUME NEW t \in Threads, call[t] \in Clearing
    PROVE  /\ ~Free(t) /\ Clears(t) /\ call[t] \notin Call
           /\ At(t, "clear") <=> call[t].at = "clear"
           /\ At(t, "wipe") <=> call[t].at = "wipe"
           /\ \A k \in Names : /\ Busy(t, k) <=> call[t].at = "clear" \/ k \in call[t].left
                               /\ Handled(t, k) = {call[t].returned[k]}
           /\ \A k \in Names : \A v :
                Returned(t, k, v) <=> /\ call[t].returned[k] = v
                                      /\ (k \in call[t].left <=> call[t].at = "wipe")
           /\ \A v : ~Has(t, v)
  <1>1. ~Free(t)
    BY HeldAssumption DEF Free
  <1>2. call[t].at \in {"clear", "wipe"}
    BY DEF Clearing
  <1>3. Clears(t) /\ call[t] \notin Call
    BY <1>1, <1>2 DEF Clears, At, Call
  <1>4. QED
    BY <1>1, <1>2, <1>3 DEF At, Busy, Handled, Returned, Has

LEMMA InClearingNext ==
    ASSUME NEW t \in Threads, call'[t] \in Clearing
    PROVE  /\ ~Free(t)' /\ Clears(t)' /\ call'[t] \notin Call
           /\ At(t, "clear")' <=> call'[t].at = "clear"
           /\ At(t, "wipe")' <=> call'[t].at = "wipe"
           /\ \A k \in Names : /\ Busy(t, k)' <=> call'[t].at = "clear" \/ k \in call'[t].left
                               /\ Handled(t, k)' = {call'[t].returned[k]}
           /\ \A k \in Names : \A v :
                Returned(t, k, v)' <=> /\ call'[t].returned[k] = v
                                       /\ (k \in call'[t].left <=> call'[t].at = "wipe")
           /\ \A v : ~Has(t, v)'
  <1>1. ~Free(t)'
    BY HeldAssumption DEF Free
  <1>2. call'[t].at \in {"clear", "wipe"}
    BY DEF Clearing
  <1>3. Clears(t)' /\ call'[t] \notin Call
    BY <1>1, <1>2 DEF Clears, At, Call
  <1>4. QED
    BY <1>1, <1>2, <1>3 DEF At, Busy, Handled, Returned, Has

LEMMA ClearValueKeepsHeld ==
    ASSUME NEW t \in Threads, NEW k \in Names, HeldFinite, HeldInv, ClearValue(t, k)
    PROVE  HeldInv'
  <1>1. HeldTypes /\ CallInv(t) /\ NameInv(t, k)
    BY DEF HeldInv
  <1>2. call[t] \in Clearing /\ call[t].at = "clear" /\ k \in call[t].left
    BY <1>1 DEF ClearValue, At, HeldTypes, Free, Call
  <1>3. call[t].returned[k] = Null
    BY <1>1, <1>2, InClearing DEF CallInv
  <1>4. /\ call'[t] = [at |-> "clear", left |-> call[t].left \ {k},
                      returned |-> [call[t].returned EXCEPT ![k] = table[k]]]
        /\ \A u \in Threads \ {t} : call'[u] = call[u]
        /\ call'[t] \in Clearing /\ call' \in [Threads -> Call \cup Clearing \cup {Null}]
        /\ table[k] \in Values \cup {Null} /\ UNCHANGED <<table, backed, entry, miscounted>>
    <2>1. table[k] \in Values \cup {Null}
      BY <1>1 DEF HeldTypes
    <2>2. [at |-> "clear", left |-> call[t].left \ {k},
           returned |-> [call[t].returned EXCEPT ![k] = table[k]]] \in Clearing
      BY <1>2, <2>1 DEF Clearing
    <2>3. call \in [Threads -> Call \cup Clearing \cup {Null}]
      BY <1>1 DEF HeldTypes
    <2>4. QED
      BY <2>1, <2>2, <2>3 DEF ClearValue
  <1>5. /\ call'[t].at = "clear" /\ call'[t].left = call[t].left \ {k}
        /\ call'[t].returned[k] = table[k]
        /\ \A j \in Names \ {k} : call'[t].returned[j] = call[t].returned[j]
    BY <1>2, <1>4 DEF Clearing
  <1>6. held' \in [Values -> Int]
        /\ \A x \in Values : held'[x] = IF x = table[k] /\ x \in backed \ miscounted
                                         THEN held[x] + (-1) ELSE held[x]
    <2>1. CASE table[k] = Null
      BY <1>1, <2>1, HeldAssumption DEF ClearValue, HeldTypes
    <2>2. CASE table[k] # Null
      <3>1. table[k] \in Values /\ held' = References(table[k], -1)
        BY <1>4, <2>2 DEF ClearValue
      <3>2. QED
        BY <1>1, <3>1, ReferencesCount
    <2>3. QED
      BY <2>1, <2>2
  <1>7. HeldTypes'
    BY <1>1, <1>4, <1>6 DEF HeldTypes
  <1>8. Busy(t, k) /\ Handled(t, k) = {Null} /\ \A v : ~Has(t, v) /\ ~Returned(t, k, v)
    BY <1>2, <1>3, InClearing
  <1>9. /\ Busy(t, k)' /\ Handled(t, k)' = {table[k]} /\ Clears(t)' /\ call'[t] \notin Call
        /\ \A v : ~Has(t, v)' /\ (Returned(t, k, v)' <=> table[k] = v)
    <2>1. k \notin call'[t].left /\ call'[t].at # "wipe" /\ call'[t].at = "clear"
      BY <1>5
    <2>2. \A v : Returned(t, k, v)' <=> call'[t].returned[k] = v
      BY <1>4, <2>1, InClearingNext
    <2>3. Busy(t, k)' /\ Handled(t, k)' = {call'[t].returned[k]} /\ Clears(t)' /\ call'[t] \notin Call
          /\ \A v : ~Has(t, v)'
      BY <1>4, <2>1, InClearingNext
    <2>4. QED
      BY <1>5, <2>2, <2>3
  <1>10. CallInv(t)'
    BY <1>1, <1>2, <1>4, <1>5, <1>9, InClearing DEF CallInv, Clearing
  <1>11. NameInv(t, k)'
    BY <1>4, <1>5, <1>9 DEF NameInv, Agrees
  <1>12. OneName(t, k)
    <2>1. \A j \in Names \ {k} : Elsewhere(t, j)
      BY <1>1, <1>2, <1>4, <1>5, <1>7, ClearElsewhere DEF HeldTypes
    <2>2. Marked(t, k)
      BY <1>4, <1>8, <1>9, SharedMarks
    <2>3. QED
      BY <1>4, <2>1, <2>2 DEF OneName
  <1>13. ASSUME NEW v \in backed \ miscounted'
         PROVE  held'[v] + Num(Keeps(t, k, v)) + Num(Has(t, v))
                  = held[v] + Num(Keeps(t, k, v)') + Num(Has(t, v)')
    <2>1. (Keeps(t, k, v) <=> table[k] = v) /\ ~Keeps(t, k, v)' /\ v \in Values /\ held[v] \in Int
      BY <1>1, <1>4, <1>8, <1>9 DEF Keeps, HeldTypes
    <2>2. QED
      BY <1>4, <1>6, <1>8, <1>9, <2>1 DEF Num
  <1>14. QED
    BY <1>6, <1>7, <1>10, <1>11, <1>12, <1>13, OneNameKeepsHeld

LEMMA WipeNameKeepsHeld ==
    ASSUME NEW t \in Threads, NEW k \in Names, HeldFinite, HeldInv, WipeName(t, k)
    PROVE  HeldInv'
  <1>1. HeldTypes /\ CallInv(t) /\ NameInv(t, k)
    BY DEF HeldInv
  <1>2. call[t] \in Clearing /\ call[t].at = "wipe" /\ k \in call[t].left
    BY <1>1 DEF WipeName, At, HeldTypes, Free, Call
  <1>3. /\ call'[t] = [call[t] EXCEPT !.left = call[t].left \ {k}]
        /\ \A u \in Threads \ {t} : call'[u] = call[u]
        /\ call'[t] \in Clearing /\ call' \in [Threads -> Call \cup Clearing \cup {Null}]
        /\ table' = [table EXCEPT ![k] = Null] /\ UNCHANGED <<held, backed, entry, miscounted>>
    BY <1>1, <1>2 DEF HeldTypes, WipeName, Clearing
  <1>4. /\ call'[t].at = "wipe" /\ call'[t].left = call[t].left \ {k}
        /\ call'[t].returned = call[t].returned
        /\ table' \in [Names -> Values \cup {Null}] /\ table'[k] = Null
        /\ \A j \in Names \ {k} : table'[j] = table[j]
    BY <1>1, <1>2, <1>3 DEF Clearing, HeldTypes
  <1>5. HeldTypes'
    BY <1>1, <1>3, <1>4 DEF HeldTypes
  <1>6. /\ Busy(t, k) /\ Clears(t) /\ ~At(t, "clear")
        /\ \A v : ~Has(t, v) /\ (Returned(t, k, v) <=> call[t].returned[k] = v)
    BY <1>2, InClearing
  <1>7. /\ ~Busy(t, k)' /\ ~At(t, "clear")' /\ call'[t] \notin Call
        /\ \A v : ~Has(t, v)' /\ ~Returned(t, k, v)'
    BY <1>3, <1>4, InClearingNext
  <1>8. CallInv(t)' /\ NameInv(t, k)'
    BY <1>7 DEF CallInv, NameInv
  <1>9. OneName(t, k)
    <2>1. \A j \in Names \ {k} : Elsewhere(t, j)
      BY <1>1, <1>2, <1>3, <1>4, <1>5, ClearElsewhere
    <2>2. Marked(t, k)
      BY <1>3, <1>4, <1>6, <1>7, SharedMarks
    <2>3. QED
      BY <1>3, <1>4, <2>1, <2>2 DEF OneName
  <1>10. ASSUME NEW v \in backed \ miscounted'
         PROVE  held'[v] + Num(Keeps(t, k, v)) + Num(Has(t, v))
                  = held[v] + Num(Keeps(t, k, v)') + Num(Has(t, v)')
    <2>1. v # Null /\ v \notin Doubtful /\ held'[v] = held[v]
      BY <1>1, <1>3, HeldAssumption DEF Doubtful, HeldTypes
    <2>2. Agrees(call[t].returned[k], k)
      BY <1>1, <1>6 DEF NameInv
    <2>3. ~Keeps(t, k, v) /\ ~Keeps(t, k, v)'
      BY <1>4, <1>6, <2>1, <2>2 DEF Keeps, Agrees
    <2>4. QED
      BY <1>6, <1>7, <2>1, <2>3 DEF Num
  <1>11. QED
    BY <1>3, <1>5, <1>8, <1>9, <1>10, OneNameKeepsHeld

\* A step that changes nothing but what one thread does.
LEMMA CallStepKeepsHeld ==
    ASSUME NEW t \in Threads, HeldInv, HeldTypes', CallInv(t)',
           \A u \in Threads \ {t} : call'[u] = call[u],
           UNCHANGED <<table, held, backed>>, miscounted \subseteq miscounted',
           \A k \in Names : NameInv(t, k)' /\ Marked(t, k),
           \A k \in Names : \A v : Returned(t, k, v)' <=> Returned(t, k, v),
           \A v : Has(t, v)' <=> Has(t, v)
    PROVE  HeldInv'
  <1>1. Doubtful \subseteq Doubtful'
    BY DEF Doubtful
  <1>2. ASSUME NEW u \in Threads, u # t
        PROVE  /\ At(u, "clear")' <=> At(u, "clear")
               /\ Clears(u)' <=> Clears(u)
               /\ \A k \in Names : (Busy(u, k)' <=> Busy(u, k)) /\ Handled(u, k)' = Handled(u, k)
               /\ \A k \in Names : \A v : Returned(u, k, v)' <=> Returned(u, k, v)
               /\ \A v : Has(u, v)' <=> Has(u, v)
               /\ call'[u] = call[u] /\ CallInv(u)
    <2>1. call'[u] = call[u]
      BY <1>2
    <2>2. At(u, "clear")' <=> At(u, "clear")
      BY <2>1 DEF At, Free
    <2>3. QED
      BY <2>1, <2>2, OthersStay DEF HeldInv
  <1>3. ASSUME NEW u \in Threads PROVE CallInv(u)'
    <2>1. CASE u = t
      BY <2>1
    <2>2. CASE u # t
      BY <1>2, <2>2 DEF CallInv
    <2>3. QED
      BY <2>1, <2>2
  <1>4. ASSUME NEW u \in Threads, NEW k \in Names PROVE NameInv(u, k)'
    <2>1. CASE u = t
      BY <2>1
    <2>2. CASE u # t
      <3>1. NameInv(u, k)
        BY DEF HeldInv
      <3>2. QED
        BY <1>1, <1>2, <2>2, <3>1 DEF NameInv, Agrees
    <2>3. QED
      BY <2>1, <2>2
  <1>5. SharedInv'
    <2> SUFFICES ASSUME NEW r \in Threads, NEW u \in Threads, NEW k \in Names,
                        r # u, Busy(r, k)', Busy(u, k)'
                 PROVE  Handled(r, k)' \cup {table'[k]} \subseteq Doubtful'
      BY DEF SharedInv
    <2>1. CASE t \in {r, u}
      <3>1. PICK w \in {r, u} : w # t
        BY <2>1
      <3>2. Busy(t, k)' /\ Busy(w, k) /\ Handled(w, k)' = Handled(w, k)
        BY <1>2, <2>1, <3>1
      <3>3. /\ table'[k] \in Doubtful' /\ Handled(t, k)' \subseteq Doubtful'
            /\ Handled(w, k) \subseteq Doubtful'
        BY <3>1, <3>2 DEF Marked
      <3>4. QED
        BY <2>1, <3>1, <3>2, <3>3
    <2>2. CASE t \notin {r, u}
      <3>1. Busy(r, k) /\ Busy(u, k) /\ Handled(r, k)' = Handled(r, k)
        BY <1>2, <2>2
      <3>2. Handled(r, k) \cup {table[k]} \subseteq Doubtful
        BY <3>1 DEF HeldInv, SharedInv
      <3>3. QED
        BY <1>1, <3>1, <3>2
    <2>3. QED
      BY <2>1, <2>2
  <1>6. AccountInv'
    <2>1. ASSUME NEW v \in Values PROVE Keeping(v)' = Keeping(v) /\ Having(v)' = Having(v)
      <3>1. \A u \in Threads : /\ \A k \in Names : Returned(u, k, v)' <=> Returned(u, k, v)
                               /\ Has(u, v)' <=> Has(u, v)
        BY <1>2
      <3>2. QED
        BY <3>1 DEF Keeping, Having
    <2>2. QED
      BY <2>1 DEF HeldInv, AccountInv
  <1>7. QED
    BY <1>3, <1>4, <1>5, <1>6 DEF HeldInv

LEMMA ClearKeepsHeld ==
    ASSUME NEW t \in Threads, HeldInv, Clear(t)
    PROVE  HeldInv'
  <1>1. HeldTypes /\ Free(t)
    BY DEF HeldInv, Clear
  <1>2. /\ call'[t] = [at |-> "clear", left |-> Names, returned |-> [k \in Names |-> Null]]
        /\ call'[t] \in Clearing
        /\ \A u \in Threads \ {t} : call'[u] = call[u]
        /\ call' \in [Threads -> Call \cup Clearing \cup {Null}]
        /\ UNCHANGED <<table, held, backed, entry>>
        /\ Miscounts(UNION {Overlap(k, {}) : k \in Names})
    <2>1. [at |-> "clear", left |-> Names, returned |-> [k \in Names |-> Null]] \in Clearing
      BY DEF Clearing
    <2>2. QED
      BY <1>1, <2>1 DEF HeldTypes, Clear
  <1>3. miscounted \subseteq miscounted' /\ miscounted' \in SUBSET Values
    <2>1. \A k \in Names : Overlap(k, {}) \subseteq Values
      BY <1>1, OverlapTyped
    <2>2. QED
      BY <1>1, <1>2, <2>1 DEF Miscounts, HeldTypes
  <1>4. HeldTypes'
    BY <1>1, <1>2, <1>3 DEF HeldTypes
  <1>5. \A k \in Names : ~Busy(t, k) /\ \A v : ~Returned(t, k, v) /\ ~Has(t, v)
    BY <1>1, InFree
  <1>6. /\ Clears(t)' /\ At(t, "clear")' /\ call'[t] \notin Call /\ \A v : ~Has(t, v)'
        /\ \A k \in Names : Handled(t, k)' = {Null} /\ \A v : ~Returned(t, k, v)'
    BY <1>2, InClearingNext
  <1>7. CallInv(t)' /\ \A k \in Names : NameInv(t, k)'
    BY <1>2, <1>6 DEF CallInv, NameInv
  <1>8. ASSUME NEW k \in Names PROVE Marked(t, k)
    <2>1. Miscounts(Overlap(k, {}) \cup UNION {Overlap(j, {}) : j \in Names})
      BY <1>2 DEF Miscounts
    <2>2. QED
      BY <1>2, <1>5, <1>6, <2>1, OverlapMarks
  <1>9. \A v : Has(t, v)' <=> Has(t, v)
    BY <1>1, <1>6, InFree
  <1>10. QED
    BY <1>2, <1>3, <1>4, <1>5, <1>6, <1>7, <1>8, <1>9, CallStepKeepsHeld

LEMMA ClearingKeepsHeld ==
    ASSUME NEW t \in Threads, HeldInv, BeginWipe(t) \/ EndClear(t)
    PROVE  HeldInv'
  <1>1. HeldTypes /\ \A k \in Names : NameInv(t, k)
    BY DEF HeldInv
  <1>2. call[t] \in Clearing /\ call[t].left = {} /\ UNCHANGED <<table, held, backed, entry, miscounted>>
    BY <1>1 DEF BeginWipe, EndClear, At, HeldTypes, Free, Call
  <1>3. CASE BeginWipe(t)
    <2>1. /\ call'[t] \in Clearing /\ call'[t].at = "wipe" /\ call'[t].left = Names
          /\ call'[t].returned = call[t].returned
          /\ \A u \in Threads \ {t} : call'[u] = call[u]
          /\ call' \in [Threads -> Call \cup Clearing \cup {Null}]
      BY <1>1, <1>2, <1>3 DEF HeldTypes, BeginWipe, Clearing
    <2>2. HeldTypes'
      BY <1>1, <1>2, <2>1 DEF HeldTypes
    <2>3. /\ At(t, "clear") /\ Clears(t) /\ \A v : ~Has(t, v)
          /\ \A k \in Names : Busy(t, k) /\ Handled(t, k) = {call[t].returned[k]}
          /\ \A k \in Names : \A v : Returned(t, k, v) <=> call[t].returned[k] = v
      <3>1. call[t].at = "clear"
        BY <1>2, <1>3 DEF BeginWipe, At
      <3>2. QED
        BY <1>2, <3>1, InClearing
    <2>4. /\ ~At(t, "clear")' /\ Clears(t)' /\ call'[t] \notin Call /\ \A v : ~Has(t, v)'
          /\ \A k \in Names : Handled(t, k)' = {call[t].returned[k]}
          /\ \A k \in Names : \A v : Returned(t, k, v)' <=> call[t].returned[k] = v
      BY <2>1, InClearingNext
    <2>5. CallInv(t)'
      BY <2>4 DEF CallInv
    <2>6. ASSUME NEW k \in Names PROVE NameInv(t, k)'
      <3>1. Agrees(call[t].returned[k], k)
        BY <1>1, <1>2, <2>3 DEF NameInv
      <3>2. Agrees(call[t].returned[k], k)'
        BY <1>2, <2>1, <3>1 DEF Agrees, Doubtful
      <3>3. QED
        BY <2>4, <3>2 DEF NameInv
    <2>7. ASSUME NEW k \in Names PROVE Marked(t, k)
      BY <1>2, <2>3, <2>4, SharedMarks
    <2>8. QED
      BY <1>2, <2>1, <2>2, <2>3, <2>4, <2>5, <2>6, <2>7, CallStepKeepsHeld
  <1>4. CASE EndClear(t)
    <2>1. /\ call'[t] = Null /\ call[t].at = "wipe"
          /\ \A u \in Threads \ {t} : call'[u] = call[u]
          /\ call' \in [Threads -> Call \cup Clearing \cup {Null}]
      BY <1>1, <1>4 DEF HeldTypes, EndClear, Done, At
    <2>2. HeldTypes'
      BY <1>1, <1>2, <2>1 DEF HeldTypes
    <2>3. \A v : ~Has(t, v) /\ \A k \in Names : ~Returned(t, k, v)
      BY <1>2, <2>1, InClearing
    <2>4. /\ call'[t] \notin Call /\ ~At(t, "clear")' /\ \A v : ~Has(t, v)'
          /\ \A k \in Names : ~Busy(t, k)' /\ \A v : ~Returned(t, k, v)'
      BY <2>1, InFreeNext, HeldAssumption
    <2>5. CallInv(t)' /\ \A k \in Names : NameInv(t, k)' /\ Marked(t, k)
      BY <1>2, <2>4 DEF CallInv, NameInv, Marked
    <2>6. QED
      BY <1>2, <2>1, <2>2, <2>3, <2>4, <2>5, CallStepKeepsHeld
  <1>5. QED
    BY <1>3, <1>4

-----------------------------------------------------------------------------

\* A value that nothing uses is neither in the table nor in a call.
LEMMA NotInUse ==
    ASSUME HeldInv, NEW v \in Values, ~InUse(v)
    PROVE  /\ \A k \in Names : table[k] # v
           /\ \A t \in Threads : /\ ~Clears(t) /\ ~Has(t, v)
                                 /\ call[t] \in Call => call[t].value # v /\ call[t].old # v
  <1>1. \A k \in Names : table[k] # v
    BY DEF InUse, NamesWith
  <1>2. ASSUME NEW t \in Threads PROVE ~Uses(t, v)
    BY DEF InUse
  <1>3. ASSUME NEW t \in Threads PROVE ~Clears(t)
    BY <1>2 DEF Uses, Clears, At
  <1>4. ASSUME NEW t \in Threads, ~Free(t) PROVE call[t].value # v /\ call[t].old # v
    BY <1>2, <1>4 DEF Uses
  <1>5. QED
    BY <1>1, <1>3, <1>4, HeldAssumption DEF Has, Free

LEMMA HandleStepKeepsHeld ==
    ASSUME HeldFinite, HeldInv, NEW v \in Values, GetsHandle(v) \/ LosesHandle(v)
    PROVE  HeldInv'
  <1>1. HeldTypes /\ AccountInv /\ SharedInv
        /\ \A t \in Threads : CallInv(t) /\ \A k \in Names : NameInv(t, k)
    BY DEF HeldInv
  <1>2. UNCHANGED <<table, call, entry>>
    BY DEF GetsHandle, LosesHandle
  <1>3. /\ \A t \in Threads : /\ Clears(t)' <=> Clears(t)
                              /\ \A a : At(t, a)' <=> At(t, a)
                              /\ \A k \in Names : (Busy(t, k)' <=> Busy(t, k)) /\ Handled(t, k)' = Handled(t, k)
        /\ \A x : Keeping(x)' = Keeping(x) /\ Having(x)' = Having(x)
    BY <1>2 DEF Clears, At, Free, Busy, Handled, Keeping, Having, Returned, Has
  <1>4. CASE GetsHandle(v)
    <2>1. /\ v \notin backed /\ backed' = backed \cup {v} /\ held' = held
          /\ miscounted' = IF InUse(v) THEN miscounted \cup {v} ELSE miscounted \ {v}
      BY <1>4 DEF GetsHandle
    <2>2. HeldTypes'
      BY <1>1, <1>2, <2>1 DEF HeldTypes
    <2>3. ASSUME NEW t \in Threads PROVE CallInv(t)'
      <3>1. ASSUME call[t] \in Call, call[t].value = v PROVE v \in miscounted'
        BY <2>1, <3>1, NotInUse
      <3>2. call[t] \in Call /\ call[t].value \notin backed \ miscounted => call[t].value \notin backed' \ miscounted'
        BY <2>1, <3>1
      <3>3. QED
        BY <1>1, <1>2, <1>3, <3>2 DEF CallInv
    <2>4. ASSUME NEW t \in Threads, NEW k \in Names, Busy(t, k), NEW x \in Handled(t, k) \cup {table[k]}
          PROVE  x \in Doubtful => x \in Doubtful'
      <3>1. CASE InUse(v)
        BY <2>1, <3>1 DEF Doubtful
      <3>2. CASE ~InUse(v)
        <4>1. call[t] \in Call /\ ~Clears(t)
          BY <1>1, <2>4, <3>2, NotInUse DEF HeldTypes, Busy, At, Free, Clears, Clearing
        <4>2. x # v
          BY <2>4, <3>2, <4>1, NotInUse DEF Handled
        <4>3. QED
          BY <2>1, <3>2, <4>2 DEF Doubtful
      <3>3. QED
        BY <3>1, <3>2
    <2>5. ASSUME NEW t \in Threads, NEW k \in Names PROVE NameInv(t, k)'
      <3>1. ASSUME NEW x \in Handled(t, k), Busy(t, k), Agrees(x, k) PROVE Agrees(x, k)'
        BY <1>2, <2>4, <3>1 DEF Agrees
      <3>2. NameInv(t, k)
        BY <1>1
      <3>3. SUFFICES ASSUME Busy(t, k) PROVE NameInv(t, k)'
        BY <1>3 DEF NameInv
      <3>4. CASE Clears(t)
        <4>1. call[t].returned[k] \in Handled(t, k)
          BY <3>4 DEF Handled
        <4>2. Agrees(call[t].returned[k], k) => Agrees(call[t].returned[k], k)'
          BY <1>2, <3>1, <3>3, <4>1 DEF Agrees
        <4>3. QED
          BY <1>2, <1>3, <3>2, <3>3, <3>4, <4>2 DEF NameInv
      <3>5. CASE ~Clears(t)
        <4>1. call[t].old \in Handled(t, k)
          BY <3>5 DEF Handled
        <4>2. Agrees(call[t].old, k) => Agrees(call[t].old, k)'
          BY <1>2, <3>1, <3>3, <4>1 DEF Agrees
        <4>3. QED
          BY <1>2, <1>3, <3>2, <3>3, <3>5, <4>2 DEF NameInv
      <3>6. QED
        BY <3>4, <3>5
    <2>6. SharedInv'
      <3> SUFFICES ASSUME NEW t \in Threads, NEW u \in Threads, NEW k \in Names,
                          t # u, Busy(t, k), Busy(u, k)
                   PROVE  Handled(t, k) \cup {table[k]} \subseteq Doubtful'
        BY <1>2, <1>3 DEF SharedInv
      <3>1. Handled(t, k) \cup {table[k]} \subseteq Doubtful
        BY <1>1 DEF SharedInv
      <3>2. QED
        BY <2>4, <3>1
    <2>7. AccountInv'
      <3>1. ASSUME NEW x \in Values, x \notin backed' PROVE held'[x] = 0
        BY <1>1, <2>1, <3>1 DEF AccountInv
      <3>2. ASSUME NEW x \in Values, x \in backed' \ miscounted'
            PROVE  held'[x] = Cardinality(Keeping(x)) + Cardinality(Having(x))
        <4>1. CASE x # v
          BY <1>1, <2>1, <3>2, <4>1 DEF AccountInv
        <4>2. CASE x = v
          <5>1. ~InUse(v) /\ held'[v] = 0
            BY <1>1, <2>1, <3>2, <4>2 DEF AccountInv
          <5>2. Keeping(v) = {} /\ Having(v) = {}
            BY <5>1, NotInUse DEF Keeping, Having
          <5>3. QED
            BY <4>2, <5>1, <5>2, FS_EmptySet
        <4>3. QED
          BY <4>1, <4>2
      <3>3. QED
        BY <1>3, <3>1, <3>2 DEF AccountInv
    <2>8. QED
      BY <2>2, <2>3, <2>5, <2>6, <2>7 DEF HeldInv
  <1>5. CASE LosesHandle(v)
    <2>1. backed' = backed \ {v} /\ held' = [held EXCEPT ![v] = 0] /\ miscounted' = miscounted
      BY <1>5 DEF LosesHandle
    <2>2. HeldTypes'
      BY <1>1, <1>2, <2>1 DEF HeldTypes
    <2>3. ASSUME NEW t \in Threads PROVE CallInv(t)' /\ \A k \in Names : NameInv(t, k)'
      BY <1>1, <1>2, <1>3, <2>1 DEF CallInv, NameInv, Agrees, Doubtful
    <2>4. SharedInv'
      BY <1>1, <1>2, <1>3, <2>1 DEF SharedInv, Doubtful
    <2>5. AccountInv'
      <3>1. \A x \in Values : held'[x] = IF x = v THEN 0 ELSE held[x]
        BY <1>1, <2>1 DEF HeldTypes
      <3>2. QED
        BY <1>1, <1>3, <2>1, <3>1 DEF AccountInv
    <2>6. QED
      BY <2>2, <2>3, <2>4, <2>5 DEF HeldInv
  <1>6. QED
    BY <1>4, <1>5

LEMMA InitHeldInv == HeldFinite /\ HeldInit => HeldInv
  <1> SUFFICES ASSUME HeldFinite, HeldInit PROVE HeldInv
    OBVIOUS
  <1>1. \A v \in Values : Cardinality(NamesWith(v)) \in Nat
    <2>1. \A v : NamesWith(v) \subseteq Names
      BY DEF NamesWith
    <2>2. QED
      BY <2>1, FS_Subset, FS_CardinalityType DEF HeldFinite
  <1>2. HeldTypes
    BY <1>1 DEF HeldInit, HeldTypes
  <1>3. \A t \in Threads : Free(t)
    BY DEF HeldInit, Free
  <1>4. ASSUME NEW t \in Threads
        PROVE  CallInv(t) /\ \A k \in Names : NameInv(t, k) /\ ~Busy(t, k)
    <2>1. ~At(t, "clear") /\ call[t] \notin Call
      BY <1>3, HeldAssumption DEF At, Free
    <2>2. \A k \in Names : ~Busy(t, k)
      BY <1>3, InFree
    <2>3. QED
      BY <2>1, <2>2 DEF CallInv, NameInv
  <1>5. SharedInv
    BY <1>4 DEF SharedInv
  <1>6. ASSUME NEW v \in Values PROVE Keeping(v) = NamesWith(v) /\ Having(v) = {}
    <2>1. \A t \in Threads : ~Has(t, v) /\ \A k \in Names : ~Returned(t, k, v)
      BY <1>3, InFree
    <2>2. QED
      BY <2>1 DEF Keeping, Having, NamesWith
  <1>7. AccountInv
    <2>1. \A v \in Values : held[v] = IF v \in backed THEN Cardinality(NamesWith(v)) ELSE 0
      BY DEF HeldInit
    <2>2. Cardinality({}) = 0
      BY FS_EmptySet
    <2>3. QED
      BY <1>1, <1>6, <2>1, <2>2 DEF AccountInv
  <1>8. QED
    BY <1>2, <1>4, <1>5, <1>7 DEF HeldInv

LEMMA UnchangedKeepsHeld ==
    ASSUME HeldInv, HeldTypes', UNCHANGED <<table, held, backed, call, miscounted>>
    PROVE  HeldInv'
  <1>1. \A t \in Threads : (Free(t)' <=> Free(t)) /\ (Clears(t)' <=> Clears(t)) /\ \A a : At(t, a)' <=> At(t, a)
    BY DEF Free, Clears, At
  <1>2. \A t \in Threads, k \in Names : (Busy(t, k)' <=> Busy(t, k)) /\ Handled(t, k)' = Handled(t, k)
    BY <1>1 DEF Busy, Handled
  <1>3. \A v : Keeping(v)' = Keeping(v) /\ Having(v)' = Having(v)
    BY <1>1 DEF Keeping, Having, Returned, Has
  <1>4. \A t \in Threads : CallInv(t)'
    BY <1>1 DEF HeldInv, CallInv
  <1>5. \A t \in Threads, k \in Names : NameInv(t, k)'
    BY <1>1, <1>2 DEF HeldInv, NameInv, Agrees, Doubtful
  <1>6. SharedInv'
    BY <1>2 DEF HeldInv, SharedInv, Doubtful
  <1>7. AccountInv'
    BY <1>3 DEF HeldInv, AccountInv
  <1>8. QED
    BY <1>4, <1>5, <1>6, <1>7 DEF HeldInv

LEMMA NextHeldInv == HeldFinite /\ HeldInv /\ [HeldNext]_heldVars => HeldInv'
  <1> SUFFICES ASSUME HeldFinite, HeldInv, [HeldNext]_heldVars PROVE HeldInv'
    OBVIOUS
  <1>1. HeldTypes
    BY DEF HeldInv
  <1>2. ASSUME NEW t \in Threads, NEW k \in Names, NEW v \in Values, SetItem(t, k, v) PROVE HeldInv'
    <2>1. PICK old \in Values \cup {Null} : old = table[k]
      BY <1>1 DEF HeldTypes
    <2>2. PICK vs \in SUBSET Values, ws \in SUBSET Values : vs = {v} /\ ws = {}
      OBVIOUS
    <2>3. /\ Free(t) /\ v # Null /\ Begin(t, "incref", "set", k, v, old)
          /\ Miscounts(Overlap(k, vs) \cup ws) /\ UNCHANGED <<table, held, backed>>
          /\ entry' \in [Iterators -> (Names \X Values) \cup {Null}]
      BY <1>1, <1>2, <2>1, <2>2, HeldAssumption DEF SetItem, Miscounts, HeldTypes
    <2>4. v \in vs /\ v \in Values \cup {Null}
      BY <2>2
    <2>5. QED
      BY <2>1, <2>3, <2>4, BeginningKeepsHeld
  <1>3. ASSUME NEW t \in Threads, NEW k \in Names, DelItem(t, k) PROVE HeldInv'
    <2>1. PICK old \in Values \cup {Null} : old = table[k]
      BY <1>1 DEF HeldTypes
    <2>2. PICK v \in Values \cup {Null} : v = Null
      OBVIOUS
    <2>3. PICK vs \in SUBSET Values, ws \in SUBSET Values : vs = {} /\ ws = {}
      OBVIOUS
    <2>4. /\ Free(t) /\ old # Null /\ Begin(t, "decref", "delete", k, v, old)
          /\ Miscounts(Overlap(k, vs) \cup ws) /\ UNCHANGED <<table, held, backed>>
          /\ entry' \in [Iterators -> (Names \X Values) \cup {Null}]
      BY <1>1, <1>3, <2>1, <2>2, <2>3 DEF DelItem, Miscounts, HeldTypes
    <2>5. QED
      BY <2>1, <2>2, <2>4, BeginningKeepsHeld
  <1>4. ASSUME NEW t \in Threads, NEW i \in Iterators, EntryRemove(t, i) PROVE HeldInv'
    <2>1. PICK k \in Names, old \in Values \cup {Null} : k = entry[i][1] /\ old = entry[i][2] /\ old \in Values
      BY <1>1, <1>4 DEF EntryRemove, HeldTypes
    <2>2. PICK v \in Values \cup {Null} : v = Null
      OBVIOUS
    <2>3. PICK vs \in SUBSET Values, ws \in SUBSET Values :
             vs = {old} /\ ws = IF table[k] = old THEN {} ELSE {table[k], old} \ {Null}
      <3>1. {table[k], old} \ {Null} \subseteq Values /\ {old} \subseteq Values
        BY <1>1, <2>1 DEF HeldTypes
      <3>2. QED
        BY <3>1
    <2>4. old \in vs /\ (old = table[k] \/ {old, table[k]} \subseteq ws \cup {Null})
      BY <2>3
    <2>5. /\ Free(t) /\ old # Null /\ Begin(t, "decref", "delete", k, v, old)
          /\ Miscounts(Overlap(k, vs) \cup ws) /\ UNCHANGED <<table, held, backed>>
          /\ entry' \in [Iterators -> (Names \X Values) \cup {Null}]
      BY <1>1, <1>4, <2>1, <2>2, <2>3, HeldAssumption DEF EntryRemove, HeldTypes
    <2>6. QED
      BY <2>2, <2>4, <2>5, BeginningKeepsHeld
  <1>5. ASSUME NEW t \in Threads, NEW k \in Names, Pop(t, k) PROVE HeldInv'
    <2>1. PICK new \in Values \cup {Null} : new = Null
      OBVIOUS
    <2>2. PICK vs \in SUBSET Values, ws \in SUBSET Values : vs = {} /\ ws = {}
      OBVIOUS
    <2>3. /\ Free(t) /\ table' = [table EXCEPT ![k] = new] /\ new \in vs \cup {Null}
          /\ new = Null /\ table[k] # Null /\ Begin(t, "decref", "take", k, Null, table[k])
          /\ Miscounts(Overlap(k, vs) \cup ws) /\ UNCHANGED <<held, backed, entry>>
      BY <1>5, <2>1, <2>2 DEF Pop, Miscounts
    <2>4. QED
      BY <2>3, TableStepKeepsHeld
  <1>6. ASSUME NEW t \in Threads, NEW k \in Names, NEW v \in Values, SetDefault(t, k, v) PROVE HeldInv'
    <2>1. Free(t) /\ UNCHANGED <<held, backed, entry>> /\ Miscounts(Overlap(k, {v}) \cup ({v} \cap backed))
      BY <1>6 DEF SetDefault
    <2>2. CASE table[k] = Null
      <3>1. table' = [table EXCEPT ![k] = v] /\ UNCHANGED call
        BY <1>6, <2>2 DEF SetDefault
      <3>2. PICK vs \in SUBSET Values, ws \in SUBSET Values : vs = {v} /\ ws = {v} \cap backed
        OBVIOUS
      <3>3. PICK new \in Values \cup {Null} : new = v
        OBVIOUS
      <3>4. {new, table[k]} \cap backed \subseteq ws /\ new \in vs \cup {Null}
        BY <1>1, <2>2, <3>2, <3>3, HeldAssumption DEF HeldTypes
      <3>5. Miscounts(Overlap(k, vs) \cup ws) /\ table' = [table EXCEPT ![k] = new]
        BY <2>1, <3>1, <3>2, <3>3
      <3>6. QED
        BY <2>1, <3>1, <3>4, <3>5, TableStepKeepsHeld
    <2>3. CASE table[k] # Null
      BY <1>6, <2>1, <2>3, DefaultKeepsHeld DEF SetDefault
    <2>4. QED
      BY <2>2, <2>3
  <1>7. ASSUME NEW t \in Threads, NEW k \in Names, EntrySetRemove(t, k) PROVE HeldInv'
    <2>1. PICK new \in Values \cup {Null} : new = Null
      OBVIOUS
    <2>2. /\ Free(t) /\ table' = [table EXCEPT ![k] = new] /\ UNCHANGED <<held, backed, call, entry>>
          /\ Miscounts(Overlap(k, {}) \cup ({table[k]} \cap backed))
      BY <1>7, <2>1 DEF EntrySetRemove
    <2>3. PICK vs \in SUBSET Values, ws \in SUBSET Values : vs = {} /\ ws = {table[k]} \cap backed
      BY <1>1 DEF HeldTypes
    <2>4. {new, table[k]} \cap backed \subseteq ws /\ new \in vs \cup {Null}
      BY <1>1, <2>1, <2>3, HeldAssumption DEF HeldTypes
    <2>5. Miscounts(Overlap(k, vs) \cup ws)
      BY <2>2, <2>3
    <2>6. QED
      BY <2>2, <2>4, <2>5, TableStepKeepsHeld
  <1>8. ASSUME NEW t \in Threads, NEW i \in Iterators, NEW k \in Names, EntryNext(t, i, k) PROVE HeldInv'
    <2>1. UNCHANGED <<table, held, backed, call, miscounted>>
      BY <1>8 DEF EntryNext
    <2>2. HeldTypes'
      BY <1>1, <1>8, <2>1 DEF EntryNext, HeldTypes
    <2>3. QED
      BY <2>1, <2>2, UnchangedKeepsHeld
  <1>9. CASE UNCHANGED heldVars
    <2>1. UNCHANGED <<table, held, backed, call, miscounted>> /\ UNCHANGED entry
      BY <1>9 DEF heldVars
    <2>2. HeldTypes'
      BY <1>1, <2>1 DEF HeldTypes
    <2>3. QED
      BY <2>1, <2>2, UnchangedKeepsHeld
  <1>10. QED
    BY <1>2, <1>3, <1>4, <1>5, <1>6, <1>7, <1>8, <1>9, IncrefKeepsHeld, DecrefKeepsHeld, StoringKeepsHeld,
       ClearValueKeepsHeld, WipeNameKeepsHeld, ClearKeepsHeld, ClearingKeepsHeld, HandleStepKeepsHeld
       DEF HeldNext, ThreadStep, NameStep

LEMMA HeldInvariant ==
    ASSUME HeldFinite
    PROVE  HeldSpec => []HeldInv
  <1>1. HeldInit => HeldInv
    BY InitHeldInv
  <1>2. HeldInv /\ [HeldNext]_heldVars => HeldInv'
    BY NextHeldInv
  <1>3. QED
    BY <1>1, <1>2, PTL DEF HeldSpec

\* The dictionary of a native module holds, between the operations on a value,
\* one reference to its native side for each key, for any number of keys,
\* values, threads and iterators, unless one of the uses that miscount, or two
\* operations that overlap at a key, have concerned the value.
THEOREM MapHoldsExactly ==
    ASSUME HeldFinite
    PROVE  HeldSpec => [](HeldTypeOK /\ HeldExact)
  <1>1. HeldInv => HeldTypeOK
    <2> SUFFICES ASSUME HeldInv PROVE HeldTypeOK
      OBVIOUS
    <2>1. ASSUME NEW t \in Threads, call[t] \in Call, call[t].at = "decref" PROVE call[t].old # Null
      BY <2>1 DEF HeldInv, CallInv
    <2>2. QED
      BY <2>1 DEF HeldInv, HeldTypes, HeldTypeOK
  <1>2. HeldInv => HeldExact
    <2> SUFFICES ASSUME HeldInv, NEW v \in Values \ miscounted, \A t \in Threads : ~Uses(t, v)
                 PROVE  held[v] = IF v \in backed THEN Cardinality(NamesWith(v)) ELSE 0
      BY DEF HeldExact
    <2>1. ASSUME NEW t \in Threads PROVE ~Has(t, v) /\ \A k \in Names : ~Returned(t, k, v)
      BY DEF Uses, Has, Returned, Clears, At
    <2>2. Keeping(v) = NamesWith(v) /\ Having(v) = {}
      BY <2>1 DEF Keeping, NamesWith, Having
    <2>3. Cardinality({}) = 0 /\ Cardinality(NamesWith(v)) \in Nat
      <3>1. NamesWith(v) \subseteq Names
        BY DEF NamesWith
      <3>2. QED
        BY <3>1, FS_EmptySet, FS_Subset, FS_CardinalityType DEF HeldFinite
    <2>4. QED
      BY <2>2, <2>3 DEF HeldInv, AccountInv
  <1>3. QED
    BY <1>1, <1>2, HeldInvariant, PTL

\* In the middle of operations, too, such a value is held as long as it stays
\* in the map: nativeIncref comes before nativeDecref in __setitem__.
THEOREM StayingValuesHeld ==
    ASSUME HeldFinite
    PROVE  HeldSpec => []StayingHeld
  <1>1. HeldInv => StayingHeld
    <2> SUFFICES ASSUME HeldInv, NEW k \in Names, table[k] \in backed \ miscounted,
                        \A t \in Threads : ~Parts(t, k, table[k])
                 PROVE  held[table[k]] > 0
      BY DEF StayingHeld
    <2>1. PICK v \in Values : v = table[k] /\ v # Null
      BY HeldAssumption DEF HeldInv, HeldTypes
    <2>2. k \in Keeping(v) \/ \E t \in Threads : t \in Having(v)
      <3>1. CASE \E t \in Threads : Returned(t, k, v)
        <4>1. PICK t \in Threads : Returned(t, k, v)
          BY <3>1
        <4>2. ~Clears(t) /\ call[t].key = k /\ call[t].at \in {"put", "remove"} /\ call[t].old = v /\ ~Free(t)
          BY <2>1, <4>1 DEF Returned, Parts, Clears, At
        <4>3. call[t].value = v
          BY <2>1, <4>2 DEF Parts
        <4>4. call[t] \in Call /\ CallInv(t)
          BY <4>2 DEF HeldInv, HeldTypes, Free, Clears, At, Clearing
        <4>5. Has(t, v)
          BY <2>1, <4>2, <4>3, <4>4 DEF CallInv, Has
        <4>6. QED
          BY <4>5 DEF Having
      <3>2. CASE ~ \E t \in Threads : Returned(t, k, v)
        BY <2>1, <3>2 DEF Keeping
      <3>3. QED
        BY <3>1, <3>2
    <2>3. held[v] = Cardinality(Keeping(v)) + Cardinality(Having(v))
      BY <2>1 DEF HeldInv, AccountInv
    <2>4. /\ Cardinality(Keeping(v)) \in Nat /\ Cardinality(Having(v)) \in Nat
          /\ Cardinality(Keeping(v)) = 0 <=> Keeping(v) = {}
          /\ Cardinality(Having(v)) = 0 <=> Having(v) = {}
      <3>1. Keeping(v) \subseteq Names /\ Having(v) \subseteq Threads
        BY DEF Keeping, Having
      <3>2. IsFiniteSet(Keeping(v)) /\ IsFiniteSet(Having(v))
        BY <3>1, FS_Subset DEF HeldFinite
      <3>3. QED
        BY <3>2, FS_EmptySet, FS_CardinalityType
    <2>5. QED
      BY <2>1, <2>2, <2>3, <2>4
  <1>2. QED
    BY <1>1, HeldInvariant, PTL

-----------------------------------------------------------------------------
(* AttributeList.                                                          *)

AttributeInv == AttributeTypeOK /\ OwnedExact

Item(n, v, owned) == [name |-> n, value |-> v, owned |-> owned]

\* A name is found where it is.
LEMMA FirstIsOnly ==
    ASSUME AttributeInv, NEW n, Named(n) # {}
    PROVE  /\ First(n) \in DOMAIN attr /\ attr[First(n)].name = n
           /\ \A i \in DOMAIN attr : attr[i].name = n => i = First(n)
  <1>1. PICK i \in DOMAIN attr : attr[i].name = n
    BY DEF Named
  <1>2. \A k \in Named(n) : k = i
    BY <1>1 DEF Named, AttributeInv, OwnedExact
  <1>3. i \in Nat
    BY <1>1 DEF AttributeInv, AttributeTypeOK
  <1>4. \E j \in Named(n) : \A k \in Named(n) : j <= k
    BY <1>1, <1>2, <1>3 DEF Named
  <1>5. First(n) \in Named(n)
    BY <1>4 DEF First
  <1>6. QED
    BY <1>2, <1>5 DEF Named

\* Setting an attribute makes one attribute of the name, which owns its value
\* alone, and frees what the attribute owned before.
LEMMA SettingKeepsAttributes ==
    ASSUME AttributeInv, NEW n \in Texts \cup {Counter}, NEW v \in Blocks \cup Int,
           NEW owned \in BOOLEAN, owned <=> n \in Texts, owned => v \in Blocks \ memory,
           attr' = AddedOrSet(n, v, owned),
           memory' = (memory \cup (IF owned THEN {v} ELSE {})) \ FreedBySetting(n),
           texts' = texts
    PROVE  AttributeInv'
  <1>1. /\ attr \in Seq(Attribute)
        /\ \A i \in DOMAIN attr : (attr[i].owned <=> attr[i].name \in Texts)
                                  /\ (attr[i].owned => attr[i].value \in Blocks)
        /\ memory \in SUBSET Blocks /\ texts \in [Texts -> BOOLEAN]
        /\ memory = OwnedBy(DOMAIN attr)
        /\ \A i, k \in DOMAIN attr :
              i # k => /\ attr[i].name # attr[k].name
                       /\ attr[i].owned /\ attr[k].owned => attr[i].value # attr[k].value
    BY DEF AttributeInv, AttributeTypeOK, OwnedExact
  <1>2. /\ Item(n, v, owned) \in Attribute
        /\ Item(n, v, owned).name = n /\ Item(n, v, owned).value = v
        /\ Item(n, v, owned).owned = owned
    BY DEF Item, Attribute
  <1>3. \A x : x \in memory <=> \E i \in DOMAIN attr : attr[i].owned /\ x = attr[i].value
    BY <1>1 DEF OwnedBy
  <1>4. \A x : x \in memory' <=> /\ x \in memory \/ (owned /\ x = v)
                                 /\ x \notin FreedBySetting(n)
    OBVIOUS
  <1>5. CASE Named(n) = {}
    <2>1. attr' = <<Item(n, v, owned)>> \o attr /\ FreedBySetting(n) = {}
      BY <1>5 DEF AddedOrSet, Added, FreedBySetting, Item
    <2>2. /\ attr' \in Seq(Attribute) /\ Len(attr') = Len(attr) + 1 /\ attr'[1] = Item(n, v, owned)
          /\ \A i \in 2 .. Len(attr) + 1 : attr'[i] = attr[i - 1]
      BY <1>1, <1>2, <2>1
    <2>3. \A i \in DOMAIN attr' : i = 1 \/ (i - 1 \in DOMAIN attr /\ attr'[i] = attr[i - 1])
      BY <1>1, <2>2
    <2>4. \A i \in DOMAIN attr : i + 1 \in DOMAIN attr' /\ attr'[i + 1] = attr[i]
      BY <1>1, <2>2
    <2>5. \A i \in DOMAIN attr : attr[i].name # n /\ (attr[i].owned => attr[i].value \in memory)
      BY <1>3, <1>5 DEF Named
    <2>6. \A x : x \in memory' <=> \E i \in DOMAIN attr' : attr'[i].owned /\ x = attr'[i].value
      <3>1. ASSUME NEW x \in memory' PROVE \E i \in DOMAIN attr' : attr'[i].owned /\ x = attr'[i].value
        <4>1. CASE x \in memory
          BY <1>3, <2>4, <4>1
        <4>2. CASE owned /\ x = v
          <5>1. 1 \in DOMAIN attr'
            BY <1>1, <2>2
          <5>2. attr'[1].owned /\ attr'[1].value = x
            BY <1>2, <2>2, <4>2
          <5>3. QED
            BY <5>1, <5>2
        <4>3. QED
          BY <1>4, <3>1, <4>1, <4>2
      <3>2. ASSUME NEW i \in DOMAIN attr', attr'[i].owned PROVE attr'[i].value \in memory'
        <4>1. CASE i = 1
          BY <1>2, <1>4, <2>1, <2>2, <3>2, <4>1
        <4>2. CASE i # 1
          BY <1>3, <1>4, <2>1, <2>3, <3>2, <4>2
        <4>3. QED
          BY <4>1, <4>2
      <3>3. QED
        BY <3>1, <3>2
    <2>7. ASSUME NEW i \in DOMAIN attr', NEW k \in DOMAIN attr', i # k
          PROVE  /\ attr'[i].name # attr'[k].name
                 /\ attr'[i].owned /\ attr'[k].owned => attr'[i].value # attr'[k].value
      <3>1. CASE i = 1
        BY <1>2, <2>2, <2>3, <2>5, <2>7, <3>1
      <3>2. CASE k = 1
        BY <1>2, <2>2, <2>3, <2>5, <2>7, <3>2
      <3>3. CASE i # 1 /\ k # 1
        <4>1. i - 1 # k - 1
          BY <2>2, <2>7
        <4>2. QED
          BY <1>1, <2>3, <3>3, <4>1
      <3>4. QED
        BY <3>1, <3>2, <3>3
    <2>8. OwnedExact'
      BY <2>6, <2>7 DEF OwnedExact, OwnedBy
    <2>9. AttributeTypeOK'
      BY <1>1, <1>2, <2>1, <2>2, <2>3 DEF AttributeTypeOK
    <2>10. QED
      BY <2>8, <2>9 DEF AttributeInv
  <1>6. CASE Named(n) # {}
    <2>1. PICK j \in DOMAIN attr :
             /\ j = First(n) /\ attr[j].name = n
             /\ \A i \in DOMAIN attr \ {j} : attr[i].name # n
      BY <1>6, FirstIsOnly
    <2>2. attr' = [attr EXCEPT ![j] = Item(n, v, owned)]
      BY <1>6, <2>1 DEF AddedOrSet, Item
    <2>3. /\ attr' \in Seq(Attribute) /\ DOMAIN attr' = DOMAIN attr
          /\ attr'[j] = Item(n, v, owned)
          /\ \A i \in DOMAIN attr \ {j} : attr'[i] = attr[i]
      BY <1>1, <1>2, <2>1, <2>2
    <2>4. \A x : x \in FreedBySetting(n) <=> attr[j].owned /\ x = attr[j].value
      BY <1>6, <2>1 DEF FreedBySetting, OwnedBy
    <2>5. \A x : x \in memory' <=> \E i \in DOMAIN attr' : attr'[i].owned /\ x = attr'[i].value
      <3>1. ASSUME NEW x \in memory' PROVE \E i \in DOMAIN attr' : attr'[i].owned /\ x = attr'[i].value
        <4>1. CASE x \in memory
          <5>1. PICK i \in DOMAIN attr : attr[i].owned /\ x = attr[i].value
            BY <1>3, <4>1
          <5>2. i # j
            BY <1>4, <2>4, <3>1, <5>1
          <5>3. QED
            BY <2>3, <5>1, <5>2
        <4>2. CASE owned /\ x = v
          BY <1>2, <2>3, <4>2
        <4>3. QED
          BY <1>4, <3>1, <4>1, <4>2
      <3>2. ASSUME NEW i \in DOMAIN attr', attr'[i].owned PROVE attr'[i].value \in memory'
        <4>1. CASE i = j
          <5>1. owned /\ attr'[i].value = v
            BY <1>2, <2>3, <3>2, <4>1
          <5>2. attr[j].owned => attr[j].value \in memory
            BY <1>3
          <5>3. v \notin FreedBySetting(n)
            BY <2>4, <5>1, <5>2
          <5>4. QED
            BY <1>4, <5>1, <5>3
        <4>2. CASE i # j
          <5>1. attr'[i] = attr[i]
            BY <2>3, <4>2
          <5>2. attr[i].value \in memory
            BY <1>3, <2>3, <3>2, <5>1
          <5>3. attr[i].value \notin FreedBySetting(n)
            BY <1>1, <2>1, <2>3, <2>4, <3>2, <4>2, <5>1
          <5>4. QED
            BY <1>4, <5>1, <5>2, <5>3
        <4>3. QED
          BY <4>1, <4>2
      <3>3. QED
        BY <3>1, <3>2
    <2>6. ASSUME NEW i \in DOMAIN attr', NEW k \in DOMAIN attr', i # k
          PROVE  /\ attr'[i].name # attr'[k].name
                 /\ attr'[i].owned /\ attr'[k].owned => attr'[i].value # attr'[k].value
      <3>1. \A m \in DOMAIN attr : attr[m].owned => attr[m].value \in memory
        BY <1>3
      <3>2. CASE i = j
        BY <1>2, <2>1, <2>3, <2>6, <3>1, <3>2
      <3>3. CASE k = j
        BY <1>2, <2>1, <2>3, <2>6, <3>1, <3>3
      <3>4. CASE i # j /\ k # j
        BY <1>1, <2>3, <2>6, <3>4
      <3>5. QED
        BY <3>2, <3>3, <3>4
    <2>7. OwnedExact'
      BY <2>5, <2>6 DEF OwnedExact, OwnedBy
    <2>8. AttributeTypeOK'
      BY <1>1, <1>2, <2>3, <1>4 DEF AttributeTypeOK
    <2>9. QED
      BY <2>7, <2>8 DEF AttributeInv
  <1>7. QED
    BY <1>5, <1>6

LEMMA NextAttributeInv == AttributeInv /\ [AttributeNext]_attributeVars => AttributeInv'
  <1> SUFFICES ASSUME AttributeInv, [AttributeNext]_attributeVars PROVE AttributeInv'
    OBVIOUS
  <1>1. ASSUME NEW n \in Texts, NEW b \in Blocks, GetText(n, b) PROVE AttributeInv'
    BY <1>1, SettingKeepsAttributes DEF GetText
  <1>2. ASSUME NEW n \in Texts, ChangeText(n) PROVE AttributeInv'
    BY <1>2 DEF ChangeText, AttributeInv, AttributeTypeOK, OwnedExact, OwnedBy
  <1>3. ASSUME NEW d \in {1, -1}, CountWeakReference(d) PROVE AttributeInv'
    <2>1. Get(Counter) + d \in Int
      BY <1>3, AttributeAssumption DEF CountWeakReference
    <2>2. QED
      BY <1>3, <2>1, AttributeAssumption, SettingKeepsAttributes DEF CountWeakReference
  <1>4. CASE ConvertAgain \/ FreeModule
    <2>1. /\ attr' = << >> /\ memory' = memory \ OwnedBy(DOMAIN attr)
          /\ texts' \in [Texts -> BOOLEAN]
      BY <1>4 DEF ConvertAgain, FreeModule, ClearAttributes, AttributeInv, AttributeTypeOK
    <2>2. memory' = {}
      BY <2>1 DEF AttributeInv, OwnedExact
    <2>3. QED
      BY <2>1, <2>2 DEF AttributeInv, AttributeTypeOK, OwnedExact, OwnedBy
  <1>5. CASE UNCHANGED attributeVars
    BY <1>5 DEF attributeVars, AttributeInv, AttributeTypeOK, OwnedExact, OwnedBy
  <1>6. QED
    BY <1>1, <1>2, <1>3, <1>4, <1>5 DEF AttributeNext

\* Whatever is asked of a module, each copy that malloc returned belongs to
\* one attribute, which will free it, and a name to one attribute.
THEOREM AttributesOwnExactly ==
    AttributeSpec => [](AttributeTypeOK /\ OwnedExact)
  <1>1. AttributeInit => AttributeInv
    BY DEF AttributeInit, AttributeInv, AttributeTypeOK, OwnedExact, OwnedBy
  <1>2. AttributeInv => AttributeTypeOK /\ OwnedExact
    BY DEF AttributeInv
  <1>3. QED
    BY <1>1, <1>2, NextAttributeInv, PTL DEF AttributeSpec
-----------------------------------------------------------------------------
(* MethodResolution.                                                       *)

\* The classes that a type is merged from.
Above(c) == UNION {Members(Lists(c)[i]) : i \in DOMAIN Lists(c)}

BasesOrdered(c) == \A b \in Members(tp_bases[c]) : HasMro(b)

\* While the order of c is made: exactly what was taken from the lists is in
\* it besides c, each class once, and in the order of each list.
Merging(c) ==
    /\ c \in Types
    /\ c = acc[1]
    /\ to_merge = Lists(c)
    /\ BasesOrdered(c)
    /\ c \notin Above(c)
    /\ check_duplicates(acc)
    /\ Members(acc) \subseteq {c} \cup Above(c)
    /\ \A j \in DOMAIN to_merge : \A p \in DOMAIN to_merge[j] :
          p <= remain[j] <=> to_merge[j][p] \in Members(acc)
    /\ \A j \in DOMAIN to_merge : \A p, q \in DOMAIN to_merge[j] :
          p < q /\ q <= remain[j] =>
             \E u, v \in DOMAIN acc : u < v /\ acc[u] = to_merge[j][p] /\ acc[v] = to_merge[j][q]

MethodInv ==
    /\ MethodTypeOK
    /\ LinearizationsKept
    /\ \A c \in Types : Ready(c) => c \notin Above(c)
    /\ acc = << >> => to_merge = << >> /\ ~failed
    /\ acc # << >> => Merging(acc[1])

\* What keeps an order keeps the orders that this one keeps.
LEMMA OrderTransitive ==
    ASSUME NEW s, NEW m, NEW n, KeepsOrder(s, m), KeepsOrder(m, n)
    PROVE  KeepsOrder(s, n)
  <1>1. Members(s) \subseteq Members(n)
    BY DEF KeepsOrder
  <1>2. ASSUME NEW i \in DOMAIN s, NEW j \in DOMAIN s, i < j
        PROVE  \E p, q \in DOMAIN n : p < q /\ n[p] = s[i] /\ n[q] = s[j]
    <2>1. PICK p \in DOMAIN m, q \in DOMAIN m : p < q /\ m[p] = s[i] /\ m[q] = s[j]
      BY <1>2 DEF KeepsOrder
    <2>2. PICK u \in DOMAIN n, v \in DOMAIN n : u < v /\ n[u] = m[p] /\ n[v] = m[q]
      BY <2>1 DEF KeepsOrder
    <2>3. QED
      BY <2>1, <2>2
  <1>3. QED
    BY <1>1, <1>2 DEF KeepsOrder

LEMMA OrderReflexive == ASSUME NEW s PROVE KeepsOrder(s, s)
  BY DEF KeepsOrder

\* The lists of a type whose bases have an order.
LEMMA ListsAre ==
    ASSUME MethodTypeOK, NEW c \in Types
    PROVE  /\ tp_bases[c] \in Seq(Classes)
           /\ Lists(c) \in Seq(Seq(Classes))
           /\ Len(Lists(c)) = Len(tp_bases[c]) + 1
           /\ Lists(c)[Len(tp_bases[c]) + 1] = tp_bases[c]
           /\ \A i \in 1 .. Len(tp_bases[c]) : Lists(c)[i] = Mro(tp_bases[c][i])
           /\ Above(c) \subseteq Classes
           /\ Members(tp_bases[c]) \subseteq Above(c)
  <1>1. tp_bases[c] \in Seq(Classes)
    BY MethodResolutionAssumption DEF MethodTypeOK
  <1>2. ASSUME NEW b \in Classes PROVE Mro(b) \in Seq(Classes)
    <2>1. CASE b \in Types
      BY <2>1 DEF Mro, MethodTypeOK
    <2>2. CASE b \notin Types
      <3>1. b \in Classic
        BY <2>2 DEF Classes
      <3>2. classic_mro(b) \in Seq(Classic)
        BY <3>1, MethodResolutionAssumption
      <3>3. Seq(Classic) \subseteq Seq(Classes)
        BY DEF Classes
      <3>4. QED
        BY <2>2, <3>2, <3>3 DEF Mro
    <2>3. QED
      BY <2>1, <2>2
  <1> DEFINE n == Len(tp_bases[c])
  <1>3. n \in Nat /\ \A i \in 1 .. n : tp_bases[c][i] \in Classes
    BY <1>1
  <1>4. Lists(c) = [i \in 1 .. n + 1 |-> IF i <= n THEN Mro(tp_bases[c][i]) ELSE tp_bases[c]]
    BY DEF Lists
  <1> HIDE DEF n
  <1>5. \A i \in 1 .. n + 1 : (IF i <= n THEN Mro(tp_bases[c][i]) ELSE tp_bases[c]) \in Seq(Classes)
    BY <1>1, <1>2, <1>3
  <1>6. Lists(c) \in [1 .. n + 1 -> Seq(Classes)]
    BY <1>4, <1>5
  <1>7. Lists(c) \in Seq(Seq(Classes)) /\ Len(Lists(c)) = n + 1 /\ DOMAIN Lists(c) = 1 .. n + 1
    BY <1>3, <1>6
  <1>8. Lists(c)[n + 1] = tp_bases[c] /\ \A i \in 1 .. n : Lists(c)[i] = Mro(tp_bases[c][i])
    BY <1>3, <1>4
  <1>9. Above(c) \subseteq Classes
    <2>1. \A i \in 1 .. n + 1 : Members(Lists(c)[i]) \subseteq Classes
      BY <1>6 DEF Members
    <2>2. QED
      BY <1>7, <2>1 DEF Above
  <1>10. Members(tp_bases[c]) \subseteq Above(c)
    BY <1>3, <1>7, <1>8 DEF Above
  <1>11. QED
    BY <1>1, <1>7, <1>8, <1>9, <1>10 DEF n

\* Every new-style class above a type whose bases have an order has one, and
\* one of the lists of the type keeps it and what it was merged from.
LEMMA AncestorKept ==
    ASSUME MethodTypeOK, LinearizationsKept, NEW c \in Types, BasesOrdered(c),
           NEW d \in Above(c) \cap Types
    PROVE  /\ Ready(d)
           /\ \E i \in DOMAIN Lists(c) :
                 /\ KeepsOrder(tp_mro[d], Lists(c)[i])
                 /\ \A k \in DOMAIN Lists(d) : KeepsOrder(Lists(d)[k], Lists(c)[i])
  <1> DEFINE n == Len(tp_bases[c])
             Goal == /\ Ready(d)
                     /\ \E i \in DOMAIN Lists(c) :
                           /\ KeepsOrder(tp_mro[d], Lists(c)[i])
                           /\ \A k \in DOMAIN Lists(d) : KeepsOrder(Lists(d)[k], Lists(c)[i])
  <1>1. /\ n \in Nat /\ DOMAIN Lists(c) = 1 .. n + 1 /\ DOMAIN tp_bases[c] = 1 .. n
        /\ Lists(c)[n + 1] = tp_bases[c]
        /\ \A i \in 1 .. n : Lists(c)[i] = Mro(tp_bases[c][i]) /\ tp_bases[c][i] \in Classes
    BY ListsAre
  <1> HIDE DEF n
  <1>2. ASSUME NEW i \in 1 .. n, NEW b \in Types, b = tp_bases[c][i], d \in Members(tp_mro[b])
        PROVE  Goal
    <2>1. Ready(b)
      BY <1>1, <1>2 DEF BasesOrdered, HasMro, Members
    <2>2. /\ Ready(d) /\ KeepsOrder(tp_mro[d], tp_mro[b])
          /\ \A k \in DOMAIN Lists(d) : KeepsOrder(Lists(d)[k], tp_mro[b])
      BY <1>2, <2>1 DEF LinearizationsKept
    <2>3. i \in DOMAIN Lists(c) /\ Lists(c)[i] = tp_mro[b]
      BY <1>1, <1>2 DEF Mro
    <2>4. QED
      BY <2>2, <2>3
  <1>3. PICK i \in DOMAIN Lists(c) : d \in Members(Lists(c)[i])
    BY DEF Above
  <1>4. CASE i # n + 1
    <2>1. i \in 1 .. n /\ tp_bases[c][i] \in Classes /\ d \in Members(Mro(tp_bases[c][i]))
      BY <1>1, <1>3, <1>4
    <2>2. tp_bases[c][i] \in Types
      <3>1. SUFFICES ASSUME tp_bases[c][i] \notin Types PROVE FALSE
        OBVIOUS
      <3>2. tp_bases[c][i] \in Classic /\ d \in Members(classic_mro(tp_bases[c][i]))
        BY <2>1, <3>1 DEF Mro, Classes
      <3>3. classic_mro(tp_bases[c][i]) \in Seq(Classic)
        BY <3>2, MethodResolutionAssumption
      <3>4. d \in Classic
        BY <3>2, <3>3 DEF Members
      <3>5. QED
        BY <3>4, MethodResolutionAssumption
    <2>3. QED
      BY <1>2, <2>1, <2>2 DEF Mro
  <1>5. CASE i = n + 1
    <2>1. PICK k \in 1 .. n : d = tp_bases[c][k]
      BY <1>1, <1>3, <1>5 DEF Members
    <2>2. d \in Types /\ Ready(d)
      BY <1>1, <2>1 DEF BasesOrdered, HasMro, Members
    <2>3. tp_mro[d] \in Seq(Classes) /\ tp_mro[d] # << >> /\ tp_mro[d][1] = d
      BY <2>2 DEF LinearizationsKept, MethodTypeOK, Ready
    <2>4. d \in Members(tp_mro[d])
      BY <2>3 DEF Members
    <2>5. QED
      BY <1>2, <2>1, <2>2, <2>4
  <1>6. QED
    BY <1>4, <1>5 DEF Goal

\* A class with an order is not above itself, nor is one that has yet to get
\* one above a class whose bases have theirs.
LEMMA NotAboveItself ==
    ASSUME MethodTypeOK, LinearizationsKept, \A d \in Types : Ready(d) => d \notin Above(d),
           NEW c \in Types, BasesOrdered(c)
    PROVE  c \notin Above(c)
  BY AncestorKept

LEMMA InitMethodInv == MethodInit => MethodInv
  <1> SUFFICES ASSUME MethodInit PROVE MethodInv
    OBVIOUS
  <1>1. tp_mro \in [Types -> Seq(Classes)] /\ \A c \in Types : ~Ready(c)
    BY DEF MethodInit, Ready
  <1>2. MethodTypeOK
    <2>1. /\ << >> \in Seq(Classes) /\ << >> \in Seq(Seq(Classes)) /\ << >> \in Seq(Nat)
          /\ Len(<< >>) = 0 /\ DOMAIN << >> = {}
      OBVIOUS
    <2>2. /\ tp_bases \in Hierarchies /\ acc = << >> /\ to_merge = << >> /\ remain = << >>
          /\ failed = FALSE
      BY DEF MethodInit
    <2>3. QED
      BY <1>1, <2>1, <2>2 DEF MethodTypeOK
  <1>3. QED
    BY <1>1, <1>2 DEF MethodInit, MethodInv, LinearizationsKept

\* A step that changes no type keeps what is said of the types.
LEMMA TypesUnchanged ==
    ASSUME LinearizationsKept, \A d \in Types : Ready(d) => d \notin Above(d),
           tp_bases' = tp_bases, tp_mro' = tp_mro
    PROVE  /\ LinearizationsKept'
           /\ \A d \in Types : Ready(d)' => d \notin Above(d)'
           /\ \A d \in Types : /\ Lists(d)' = Lists(d) /\ Above(d)' = Above(d)
                             /\ (BasesOrdered(d)' <=> BasesOrdered(d))
  <1>1. ASSUME NEW d \in Types PROVE Lists(d)' = Lists(d)
    BY DEF Lists, Mro
  <1>2. ASSUME NEW d \in Types
        PROVE  Above(d)' = Above(d) /\ (BasesOrdered(d)' <=> BasesOrdered(d)) /\ (Ready(d)' <=> Ready(d))
    BY <1>1 DEF Above, BasesOrdered, HasMro, Ready
  <1>3. LinearizationsKept'
    BY <1>1, <1>2 DEF LinearizationsKept
  <1>4. QED
    BY <1>1, <1>2, <1>3

LEMMA BeginKeepsMethod ==
    ASSUME MethodInv, NEW c \in Types, mro_implementation(c)
    PROVE  MethodInv'
  <1>1. /\ acc' = <<c>> /\ to_merge' = Lists(c) /\ failed' \in BOOLEAN
        /\ remain' = [i \in DOMAIN Lists(c) |-> 0]
        /\ tp_bases' = tp_bases /\ tp_mro' = tp_mro
        /\ BasesOrdered(c)
    BY DEF mro_implementation, BasesOrdered
  <1>2. MethodTypeOK /\ LinearizationsKept /\ \A d \in Types : Ready(d) => d \notin Above(d)
    BY DEF MethodInv
  <1>3. c \notin Above(c)
    BY <1>1, <1>2, NotAboveItself
  <1>4. Lists(c) \in Seq(Seq(Classes))
    BY <1>2, ListsAre
  <1>5. MethodTypeOK'
    <2>1. remain' \in Seq(Nat) /\ Len(remain') = Len(Lists(c)) /\ \A i \in DOMAIN Lists(c) : remain'[i] = 0
      BY <1>1, <1>4
    <2>2. \A i \in DOMAIN Lists(c) : Len(Lists(c)[i]) \in Nat
      BY <1>4
    <2>3. acc' \in Seq(Classes)
      BY <1>1 DEF Classes
    <2>4. \A i \in DOMAIN Lists(c) : remain'[i] <= Len(Lists(c)[i])
      BY <2>1, <2>2
    <2>5. QED
      BY <1>1, <1>2, <1>4, <2>1, <2>3, <2>4 DEF MethodTypeOK
  <1>6. /\ LinearizationsKept'
        /\ \A d \in Types : Ready(d)' => d \notin Above(d)'
        /\ Lists(c)' = Lists(c) /\ Above(c)' = Above(c) /\ BasesOrdered(c)'
    BY <1>1, <1>2, TypesUnchanged
  <1>7. Members(acc)' = {c} /\ acc'[1] = c /\ acc' # << >> /\ DOMAIN acc' = {1}
    BY <1>1 DEF Members
  <1>8. check_duplicates(acc)'
    BY <1>7 DEF check_duplicates
  <1>9. ASSUME NEW j \in DOMAIN Lists(c), NEW p \in DOMAIN Lists(c)[j]
        PROVE  Lists(c)[j][p] # c /\ ~(p <= remain'[j])
    <2>1. Lists(c)[j][p] \in Above(c)
      BY DEF Above, Members
    <2>2. remain'[j] = 0 /\ p \in 1 .. Len(Lists(c)[j]) /\ Len(Lists(c)[j]) \in Nat
      BY <1>1, <1>4
    <2>3. QED
      BY <1>3, <2>1, <2>2
  <1>10. Merging(c)'
    BY <1>1, <1>3, <1>6, <1>7, <1>8, <1>9 DEF Merging
  <1>11. QED
    BY <1>5, <1>6, <1>7, <1>10 DEF MethodInv

LEMMA TakeKeepsMethod ==
    ASSUME MethodInv, NEW i \in DOMAIN to_merge, Take(i)
    PROVE  MethodInv'
  <1> DEFINE x == Candidate(i)
             m == Len(acc)
  <1>1. /\ tp_bases' = tp_bases /\ tp_mro' = tp_mro /\ to_merge' = to_merge /\ failed' = failed
        /\ acc' = Append(acc, x)
        /\ remain' = [j \in DOMAIN to_merge |->
                        IF HasNext(j) /\ Candidate(j) = x THEN remain[j] + 1 ELSE remain[j]]
        /\ HasNext(i)
        /\ \A j \in DOMAIN to_merge : ~tail_contains(j, x)
    BY DEF Take, Eligible
  <1>2. /\ acc \in Seq(Classes) /\ to_merge \in Seq(Seq(Classes)) /\ remain \in Seq(Nat)
        /\ DOMAIN remain = DOMAIN to_merge
        /\ \A j \in DOMAIN to_merge : remain[j] \in Nat /\ to_merge[j] \in Seq(Classes)
        /\ \A j \in DOMAIN to_merge : remain[j] <= Len(to_merge[j])
    BY DEF MethodInv, MethodTypeOK
  <1>3. PICK c \in Types : acc # << >> /\ c = acc[1] /\ Merging(c)
    BY <1>2 DEF MethodInv, Merging
  <1>4. m \in Nat \ {0} /\ DOMAIN acc = 1 .. m
    BY <1>2, <1>3
  <1>5. /\ remain[i] + 1 \in DOMAIN to_merge[i] /\ x = to_merge[i][remain[i] + 1]
        /\ x \in Classes
    BY <1>1, <1>2 DEF HasNext, Candidate
  <1>6. x \in Above(c)
    BY <1>3, <1>5 DEF Merging, Above, Members
  <1>7. x \notin Members(acc)
    BY <1>2, <1>3, <1>5 DEF Merging
  <1>8. ASSUME NEW j \in DOMAIN to_merge, NEW p \in DOMAIN to_merge[j], p > remain[j] + 1
        PROVE  to_merge[j][p] # x
    <2>1. p \in remain[j] + 2 .. Len(to_merge[j])
      BY <1>2, <1>8
    <2>2. QED
      BY <1>1, <2>1 DEF tail_contains
  <1> HIDE DEF x, m
  <1>9. acc' \in Seq(Classes) /\ DOMAIN acc' = 1 .. m + 1 /\ acc'[m + 1] = x
        /\ \A u \in 1 .. m : acc'[u] = acc[u]
    BY <1>1, <1>2, <1>4, <1>5 DEF m
  <1>10. Members(acc)' = Members(acc) \cup {x}
    BY <1>4, <1>9 DEF Members
  <1>11. acc'[1] = c /\ acc' # << >>
    BY <1>3, <1>4, <1>9
  \* What is taken from a list goes on by at most one, namely x.
  <1>12. ASSUME NEW j \in DOMAIN to_merge
         PROVE  \/ /\ remain'[j] = remain[j] + 1
                   /\ remain[j] + 1 \in DOMAIN to_merge[j] /\ to_merge[j][remain[j] + 1] = x
                \/ /\ remain'[j] = remain[j]
                   /\ remain[j] + 1 \in DOMAIN to_merge[j] => to_merge[j][remain[j] + 1] # x
    <2>1. HasNext(j) <=> remain[j] + 1 \in DOMAIN to_merge[j]
      BY <1>2 DEF HasNext
    <2>2. QED
      BY <1>1, <2>1 DEF Candidate
  <1>13. ASSUME NEW j \in DOMAIN to_merge, NEW p \in DOMAIN to_merge[j]
         PROVE  p <= remain'[j] <=> to_merge[j][p] \in Members(acc)'
    <2>1. p \in Nat /\ remain[j] \in Nat
      BY <1>2
    <2>2. p <= remain[j] <=> to_merge[j][p] \in Members(acc)
      BY <1>3 DEF Merging
    <2>3. CASE p <= remain[j]
      BY <1>10, <1>12, <2>1, <2>2, <2>3
    <2>4. CASE p = remain[j] + 1
      BY <1>10, <1>12, <2>1, <2>2, <2>4
    <2>5. CASE p > remain[j] + 1
      BY <1>8, <1>10, <1>12, <2>1, <2>2, <2>5
    <2>6. QED
      BY <2>1, <2>3, <2>4, <2>5
  <1>14. ASSUME NEW j \in DOMAIN to_merge, NEW p \in DOMAIN to_merge[j], NEW q \in DOMAIN to_merge[j],
                p < q, q <= remain'[j]
         PROVE  \E u, v \in DOMAIN acc' :
                   u < v /\ acc'[u] = to_merge[j][p] /\ acc'[v] = to_merge[j][q]
    <2>1. p \in Nat /\ q \in Nat /\ remain[j] \in Nat
      BY <1>2
    <2>2. CASE q <= remain[j]
      <3>1. PICK u \in DOMAIN acc, v \in DOMAIN acc :
               u < v /\ acc[u] = to_merge[j][p] /\ acc[v] = to_merge[j][q]
        BY <1>3, <1>14, <2>2 DEF Merging
      <3>2. u \in DOMAIN acc' /\ v \in DOMAIN acc' /\ acc'[u] = acc[u] /\ acc'[v] = acc[v]
        BY <1>4, <1>9
      <3>3. QED
        BY <3>1, <3>2
    <2>3. CASE q > remain[j]
      <3>1. q = remain[j] + 1 /\ to_merge[j][q] = x /\ p <= remain[j]
        BY <1>12, <1>14, <2>1, <2>3
      <3>2. to_merge[j][p] \in Members(acc)
        BY <1>3, <3>1 DEF Merging
      <3>3. PICK u \in 1 .. m : acc[u] = to_merge[j][p]
        BY <1>4, <3>2 DEF Members
      <3>4. u \in DOMAIN acc' /\ m + 1 \in DOMAIN acc' /\ u < m + 1 /\ acc'[u] = acc[u] /\ acc'[m + 1] = x
        BY <1>4, <1>9
      <3>5. QED
        BY <3>1, <3>3, <3>4
    <2>4. QED
      BY <2>1, <2>2, <2>3
  <1>15. check_duplicates(acc)'
    <2>1. \A u \in 1 .. m : acc[u] # x
      BY <1>4, <1>7 DEF Members
    <2>2. \A u, v \in 1 .. m : u # v => acc[u] # acc[v]
      BY <1>3, <1>4 DEF Merging, check_duplicates
    <2>3. QED
      BY <1>4, <1>9, <2>1, <2>2 DEF check_duplicates
  <1>16. /\ LinearizationsKept'
         /\ \A d \in Types : Ready(d)' => d \notin Above(d)'
         /\ Lists(c)' = Lists(c) /\ Above(c)' = Above(c) /\ BasesOrdered(c)'
    BY <1>1, <1>3, TypesUnchanged DEF MethodInv, Merging
  <1>17. MethodTypeOK'
    <2>1. /\ remain' \in Seq(Nat) /\ DOMAIN remain' = DOMAIN to_merge /\ Len(remain') = Len(to_merge)
      <3>1. \A j \in DOMAIN to_merge : (IF HasNext(j) /\ Candidate(j) = x THEN remain[j] + 1 ELSE remain[j]) \in Nat
        BY <1>2
      <3>2. remain' \in [DOMAIN to_merge -> Nat] /\ DOMAIN to_merge = 1 .. Len(to_merge)
        BY <1>1, <1>2, <3>1
      <3>3. QED
        <4>1. Len(to_merge) \in Nat
          BY <1>2
        <4>2. QED
          BY <3>2, <4>1
    <2>2. \A j \in DOMAIN to_merge : remain'[j] <= Len(to_merge[j])
      BY <1>2, <1>12
    <2>3. QED
      BY <1>1, <1>9, <2>1, <2>2 DEF MethodInv, MethodTypeOK
  <1>18. Merging(c)'
    <2>1. Members(acc)' \subseteq {c} \cup Above(c)
      BY <1>3, <1>6, <1>10 DEF Merging
    <2>2. c \notin Above(c) /\ to_merge = Lists(c)
      BY <1>3 DEF Merging
    <2>3. QED
      BY <1>1, <1>11, <1>13, <1>14, <1>15, <1>16, <2>1, <2>2 DEF Merging
  <1>19. QED
    BY <1>11, <1>16, <1>17, <1>18 DEF MethodInv

\* What is left behind once a call has returned.
LEMMA IdleKeepsMethod ==
    ASSUME Idle, tp_bases' = tp_bases, tp_bases \in Hierarchies, tp_mro' \in [Types -> Seq(Classes)],
           LinearizationsKept', \A d \in Types : Ready(d)' => d \notin Above(d)'
    PROVE  MethodInv'
  <1>1. acc' = << >> /\ to_merge' = << >> /\ remain' = << >> /\ failed' = FALSE
    BY DEF Idle
  <1>2. /\ << >> \in Seq(Classes) /\ << >> \in Seq(Seq(Classes)) /\ << >> \in Seq(Nat)
        /\ Len(<< >>) = 0 /\ DOMAIN << >> = {}
    OBVIOUS
  <1>3. MethodTypeOK'
    BY <1>1, <1>2 DEF MethodTypeOK
  <1>4. QED
    BY <1>1, <1>3 DEF MethodInv

\* A finished order is one that LinearizationsKept describes.
LEMMA FinishedOrder ==
    ASSUME MethodInv, NEW c \in Types, acc # << >>, Merging(c),
           \A i \in DOMAIN to_merge : ~HasNext(i)
    PROVE  /\ Members(acc) = {c} \cup Above(c)
           /\ \A i \in DOMAIN Lists(c) : KeepsOrder(Lists(c)[i], acc)
           /\ \A d \in Members(acc) \cap Types : d # c =>
                 /\ Ready(d)
                 /\ KeepsOrder(tp_mro[d], acc)
                 /\ \A k \in DOMAIN Lists(d) : KeepsOrder(Lists(d)[k], acc)
  <1>1. /\ acc \in Seq(Classes) /\ to_merge \in Seq(Seq(Classes)) /\ remain \in Seq(Nat)
        /\ \A i \in DOMAIN to_merge : remain[i] \in Nat /\ remain[i] <= Len(to_merge[i])
        /\ MethodTypeOK /\ LinearizationsKept
    BY DEF MethodInv, MethodTypeOK
  <1>2. to_merge = Lists(c) /\ BasesOrdered(c) /\ c = acc[1] /\ Members(acc) \subseteq {c} \cup Above(c)
    BY DEF Merging
  <1>3. ASSUME NEW i \in DOMAIN to_merge, NEW p \in DOMAIN to_merge[i]
        PROVE  p <= remain[i]
    <2>1. to_merge[i] \in Seq(Classes) /\ ~(remain[i] < Len(to_merge[i]))
      BY <1>1 DEF HasNext
    <2>2. QED
      BY <1>1, <2>1
  <1>4. ASSUME NEW i \in DOMAIN to_merge
        PROVE  KeepsOrder(to_merge[i], acc)
    <2>1. Members(to_merge[i]) \subseteq Members(acc)
      BY <1>3 DEF Merging, Members
    <2>2. QED
      BY <1>3, <2>1 DEF Merging, KeepsOrder
  <1>5. Members(acc) = {c} \cup Above(c)
    <2>1. c \in Members(acc)
      BY <1>1, <1>2 DEF Members
    <2>2. Above(c) \subseteq Members(acc)
      BY <1>2, <1>4 DEF Above, KeepsOrder
    <2>3. QED
      BY <1>2, <2>1, <2>2
  <1>6. ASSUME NEW d \in Members(acc) \cap Types, d # c
        PROVE  /\ Ready(d)
               /\ KeepsOrder(tp_mro[d], acc)
               /\ \A k \in DOMAIN Lists(d) : KeepsOrder(Lists(d)[k], acc)
    <2>1. d \in Above(c) \cap Types
      BY <1>5, <1>6
    <2>2. /\ Ready(d)
          /\ \E i \in DOMAIN Lists(c) :
                /\ KeepsOrder(tp_mro[d], Lists(c)[i])
                /\ \A k \in DOMAIN Lists(d) : KeepsOrder(Lists(d)[k], Lists(c)[i])
      BY <1>1, <1>2, <2>1, AncestorKept
    <2>3. PICK i \in DOMAIN Lists(c) :
             /\ KeepsOrder(tp_mro[d], Lists(c)[i])
             /\ \A k \in DOMAIN Lists(d) : KeepsOrder(Lists(d)[k], Lists(c)[i])
      BY <2>2
    <2>4. KeepsOrder(Lists(c)[i], acc)
      BY <1>2, <1>4
    <2>5. QED
      BY <2>2, <2>3, <2>4, OrderTransitive
  <1>7. QED
    BY <1>2, <1>4, <1>5, <1>6

\* The lists of a type whose bases were in order stay as they are when another
\* type gets its order.
LEMMA StoringKeepsLists ==
    ASSUME MethodTypeOK, NEW c \in Types, ~Ready(c), NEW d \in Types, BasesOrdered(d),
           tp_bases' = tp_bases, tp_mro' = [tp_mro EXCEPT ![c] = acc]
    PROVE  Lists(d)' = Lists(d) /\ Above(d)' = Above(d)
  <1>1. tp_mro \in [Types -> Seq(Classes)] /\ tp_bases[d] \in Seq(Classes)
    BY ListsAre DEF MethodTypeOK
  <1>2. ASSUME NEW i \in 1 .. Len(tp_bases[d])
        PROVE  Mro(tp_bases[d][i])' = Mro(tp_bases[d][i])
    <2>1. tp_bases[d][i] # c
      BY <1>1 DEF BasesOrdered, HasMro, Members
    <2>2. QED
      BY <1>1, <2>1 DEF Mro
  <1>3. Lists(d)' = Lists(d)
    <2> DEFINE n == Len(tp_bases[d])
    <2>1. n \in Nat
      BY <1>1
    <2>2. \A i \in 1 .. n + 1 :
             (IF i <= n THEN Mro(tp_bases[d][i])' ELSE tp_bases[d])
               = (IF i <= n THEN Mro(tp_bases[d][i]) ELSE tp_bases[d])
      BY <1>2, <2>1
    <2>3. Lists(d) = [i \in 1 .. n + 1 |-> IF i <= n THEN Mro(tp_bases[d][i]) ELSE tp_bases[d]]
      BY DEF Lists
    <2>4. Lists(d)' = [i \in 1 .. n + 1 |-> IF i <= n THEN Mro(tp_bases[d][i])' ELSE tp_bases[d]]
      BY DEF Lists
    <2>5. QED
      BY <2>2, <2>3, <2>4
  <1>4. QED
    BY <1>3 DEF Above

LEMMA MergedKeepsMethod ==
    ASSUME MethodInv, Merged
    PROVE  MethodInv'
  <1>1. /\ MethodTypeOK /\ LinearizationsKept /\ \A d \in Types : Ready(d) => d \notin Above(d)
        /\ tp_bases' = tp_bases /\ Idle
        /\ tp_bases \in Hierarchies /\ tp_mro \in [Types -> Seq(Classes)] /\ acc \in Seq(Classes)
    BY DEF MethodInv, Merged, MethodTypeOK
  <1>2. CASE tp_mro' = tp_mro
    BY <1>1, <1>2, TypesUnchanged, IdleKeepsMethod
  <1>3. CASE tp_mro' # tp_mro
    <2>1. PICK c \in Types : c = acc[1] /\ acc # << >> /\ Merging(c)
      BY DEF Merged, MethodInv, Merging
    <2>2. ~Ready(c) /\ tp_mro' = [tp_mro EXCEPT ![c] = acc]
      BY <1>3, <2>1 DEF Merged
    <2>3. /\ Members(acc) = {c} \cup Above(c)
          /\ \A i \in DOMAIN Lists(c) : KeepsOrder(Lists(c)[i], acc)
          /\ \A d \in Members(acc) \cap Types : d # c =>
                /\ Ready(d)
                /\ KeepsOrder(tp_mro[d], acc)
                /\ \A k \in DOMAIN Lists(d) : KeepsOrder(Lists(d)[k], acc)
      BY <2>1, FinishedOrder DEF Merged
    <2>4. ASSUME NEW d \in Types, Ready(d) PROVE BasesOrdered(d)
      BY <1>1, <2>4, ListsAre DEF LinearizationsKept, BasesOrdered, HasMro, Above
    <2>5. ASSUME NEW d \in Types, d = c \/ Ready(d)
          PROVE  Lists(d)' = Lists(d) /\ Above(d)' = Above(d)
      <3>1. BasesOrdered(d)
        BY <2>1, <2>4, <2>5 DEF Merging
      <3>2. QED
        BY <1>1, <2>2, <3>1, StoringKeepsLists
    <2>6. tp_mro' \in [Types -> Seq(Classes)]
      BY <1>1, <2>2
    <2>7. /\ tp_mro'[c] = acc /\ Ready(c)'
          /\ \A d \in Types : d # c => tp_mro'[d] = tp_mro[d] /\ (Ready(d)' <=> Ready(d))
      BY <1>1, <2>1, <2>2 DEF Ready
    <2>8. \A d \in Types : Ready(d)' => d \notin Above(d)'
      BY <1>1, <2>1, <2>5, <2>7 DEF Merging
    <2>9. ASSUME NEW e \in Types, Ready(e)'
          PROVE  /\ tp_mro'[e][1] = e
                 /\ check_duplicates(tp_mro'[e])
                 /\ Members(tp_mro'[e]) = {e} \cup Above(e)'
                 /\ \A d \in Members(tp_mro'[e]) \cap Types :
                       /\ Ready(d)'
                       /\ KeepsOrder(tp_mro'[d], tp_mro'[e])
                       /\ \A i \in DOMAIN Lists(d)' : KeepsOrder(Lists(d)'[i], tp_mro'[e])
      <3>1. CASE e = c
        <4>1. tp_mro'[e] = acc /\ acc[1] = c /\ check_duplicates(acc) /\ Members(acc) = {e} \cup Above(e)'
          BY <2>1, <2>3, <2>5, <2>7, <3>1 DEF Merging
        <4>2. ASSUME NEW d \in Members(acc) \cap Types
              PROVE  /\ Ready(d)'
                     /\ KeepsOrder(tp_mro'[d], acc)
                     /\ \A i \in DOMAIN Lists(d)' : KeepsOrder(Lists(d)'[i], acc)
          <5>1. CASE d = c
            BY <2>3, <2>5, <2>7, <5>1, OrderReflexive
          <5>2. CASE d # c
            BY <2>3, <2>5, <2>7, <5>2
          <5>3. QED
            BY <5>1, <5>2
        <4>3. Members(tp_mro'[e]) = Members(acc)
          BY <4>1
        <4>4. QED
          BY <3>1, <4>1, <4>2, <4>3
      <3>2. CASE e # c
        <4>1. tp_mro'[e] = tp_mro[e] /\ Ready(e) /\ Above(e)' = Above(e)
          BY <2>5, <2>7, <2>9, <3>2
        <4>2. /\ tp_mro[e][1] = e /\ check_duplicates(tp_mro[e])
              /\ Members(tp_mro[e]) = {e} \cup Above(e)
          BY <1>1, <4>1 DEF LinearizationsKept, Above
        <4>3. ASSUME NEW d \in Members(tp_mro[e]) \cap Types
              PROVE  /\ Ready(d)'
                     /\ KeepsOrder(tp_mro'[d], tp_mro[e])
                     /\ \A i \in DOMAIN Lists(d)' : KeepsOrder(Lists(d)'[i], tp_mro[e])
          <5>1. /\ Ready(d) /\ KeepsOrder(tp_mro[d], tp_mro[e])
                /\ \A i \in DOMAIN Lists(d) : KeepsOrder(Lists(d)[i], tp_mro[e])
            BY <1>1, <4>1 DEF LinearizationsKept
          <5>2. d # c
            BY <2>2, <5>1
          <5>3. QED
            BY <2>5, <2>7, <5>1, <5>2
        <4>4. Members(tp_mro'[e]) = Members(tp_mro[e])
          BY <4>1
        <4>5. QED
          BY <4>1, <4>2, <4>3, <4>4
      <3>3. QED
        BY <3>1, <3>2
    <2>10. LinearizationsKept'
      BY <2>9 DEF LinearizationsKept, Above
    <2>11. QED
      BY <1>1, <2>6, <2>8, <2>10, IdleKeepsMethod
  <1>4. QED
    BY <1>2, <1>3

\* pmerge gives up where each candidate is in a tail, after a candidate.
LEMMA DisagreementCycle ==
    ASSUME MethodInv, Disagree
    PROVE  FailsOnlyIfImpossible'
  <1> DEFINE s == {Candidate(i) : i \in {k \in DOMAIN to_merge : HasNext(k)}}
  <1>1. /\ to_merge' = to_merge
        /\ \E i \in DOMAIN to_merge : HasNext(i)
        /\ \A i \in DOMAIN to_merge : ~Eligible(i)
    BY DEF Disagree
  <1>2. /\ to_merge \in Seq(Seq(Classes)) /\ remain \in Seq(Nat)
        /\ \A i \in DOMAIN to_merge : remain[i] \in Nat /\ to_merge[i] \in Seq(Classes)
    BY DEF MethodInv, MethodTypeOK
  <1>3. s # {}
    BY <1>1
  <1>4. ASSUME NEW i \in DOMAIN to_merge, HasNext(i) PROVE Candidate(i) \in Classes
    BY <1>2, <1>4 DEF HasNext, Candidate
  <1>5. ASSUME NEW x \in s
        PROVE  \E j \in DOMAIN to_merge : \E p, q \in DOMAIN to_merge[j] :
                  p < q /\ to_merge[j][p] \in s /\ to_merge[j][q] = x
    <2>1. PICK i \in DOMAIN to_merge : HasNext(i) /\ x = Candidate(i)
      OBVIOUS
    <2>2. PICK j \in DOMAIN to_merge : tail_contains(j, x)
      BY <1>1, <2>1 DEF Eligible
    <2>3. PICK q \in remain[j] + 2 .. Len(to_merge[j]) : to_merge[j][q] = x
      BY <2>2 DEF tail_contains
    <2>4. /\ q \in DOMAIN to_merge[j] /\ remain[j] + 1 \in DOMAIN to_merge[j] /\ remain[j] + 1 < q
          /\ HasNext(j)
      <3>1. remain[j] \in Nat /\ Len(to_merge[j]) \in Nat /\ DOMAIN to_merge[j] = 1 .. Len(to_merge[j])
        BY <1>2
      <3>2. QED
        BY <2>3, <3>1 DEF HasNext
    <2>5. to_merge[j][remain[j] + 1] \in s
      BY <2>4 DEF Candidate
    <2>6. QED
      BY <2>3, <2>4, <2>5
  <1>6. s \in SUBSET Classes
    BY <1>4
  <1> HIDE DEF s
  <1>7. QED
    BY <1>1, <1>3, <1>5, <1>6 DEF FailsOnlyIfImpossible

\* A base that is listed twice comes after itself.
LEMMA DuplicateCycle ==
    ASSUME MethodInv, NEW c \in Types, mro_implementation(c)
    PROVE  FailsOnlyIfImpossible'
  <1>1. to_merge' = Lists(c) /\ failed' = ~check_duplicates(tp_bases[c])
    BY DEF mro_implementation
  <1>2. SUFFICES ASSUME ~check_duplicates(tp_bases[c]) PROVE FailsOnlyIfImpossible'
    BY <1>1 DEF FailsOnlyIfImpossible
  <1> DEFINE n == Len(tp_bases[c]) + 1
  <1>3. /\ tp_bases[c] \in Seq(Classes) /\ n \in DOMAIN Lists(c) /\ Lists(c)[n] = tp_bases[c]
    BY ListsAre DEF MethodInv
  <1> HIDE DEF n
  <1>4. PICK p \in DOMAIN tp_bases[c], q \in DOMAIN tp_bases[c] : p < q /\ tp_bases[c][p] = tp_bases[c][q]
    <2>1. PICK p \in DOMAIN tp_bases[c], q \in DOMAIN tp_bases[c] :
             p # q /\ tp_bases[c][p] = tp_bases[c][q]
      BY <1>2 DEF check_duplicates
    <2>2. p \in Nat /\ q \in Nat
      BY <1>3
    <2>3. QED
      BY <2>1, <2>2
  <1>5. PICK x \in Classes : x = tp_bases[c][q]
    BY <1>3
  <1>6. /\ {x} \in SUBSET Classes /\ {x} # {} /\ n \in DOMAIN to_merge' /\ to_merge'[n] = tp_bases[c]
        /\ p < q /\ tp_bases[c][p] \in {x} /\ tp_bases[c][q] = x
    BY <1>1, <1>3, <1>4, <1>5
  <1>7. \A y \in {x} : \E i \in DOMAIN to_merge' : \E k, l \in DOMAIN to_merge'[i] :
           k < l /\ to_merge'[i][k] \in {x} /\ to_merge'[i][l] = y
    BY <1>4, <1>6
  <1>8. QED
    BY <1>6, <1>7 DEF FailsOnlyIfImpossible

LEMMA NextMethodInv ==
    ASSUME MethodInv, FailsOnlyIfImpossible, [MethodNext]_typeVars
    PROVE  MethodInv' /\ FailsOnlyIfImpossible'
  <1>1. ASSUME NEW c \in Types, mro_implementation(c) PROVE MethodInv' /\ FailsOnlyIfImpossible'
    BY <1>1, BeginKeepsMethod, DuplicateCycle
  <1>2. ASSUME NEW i \in DOMAIN to_merge, ~failed, Take(i) PROVE MethodInv' /\ FailsOnlyIfImpossible'
    <2>1. ~failed'
      BY <1>2 DEF Take
    <2>2. QED
      BY <1>2, <2>1, TakeKeepsMethod DEF FailsOnlyIfImpossible
  <1>3. CASE Disagree
    <2>1. /\ failed' = TRUE /\ acc # << >> /\ tp_bases' = tp_bases /\ tp_mro' = tp_mro
          /\ acc' = acc /\ to_merge' = to_merge /\ remain' = remain
      BY <1>3 DEF Disagree
    <2>2. MethodTypeOK'
      BY <2>1 DEF MethodInv, MethodTypeOK
    <2>3. PICK c \in Types : c = acc[1] /\ Merging(c)
      BY <2>1 DEF MethodInv, Merging
    <2>4. /\ LinearizationsKept'
          /\ \A d \in Types : Ready(d)' => d \notin Above(d)'
          /\ Lists(c)' = Lists(c) /\ Above(c)' = Above(c) /\ (BasesOrdered(c)' <=> BasesOrdered(c))
      BY <2>1, TypesUnchanged DEF MethodInv
    <2>5. Merging(c)'
      BY <2>1, <2>3, <2>4 DEF Merging, check_duplicates, Members
    <2>6. MethodInv'
      BY <2>1, <2>2, <2>3, <2>4, <2>5 DEF MethodInv
    <2>7. QED
      BY <1>3, <2>6, DisagreementCycle
  <1>4. CASE Merged
    <2>1. ~failed'
      BY <1>4 DEF Merged, Idle
    <2>2. QED
      BY <1>4, <2>1, MergedKeepsMethod DEF FailsOnlyIfImpossible
  <1>5. CASE Fail
    <2>1. Idle /\ tp_bases' = tp_bases /\ tp_mro' = tp_mro /\ ~failed'
      BY <1>5 DEF Fail, Idle
    <2>2. /\ tp_bases \in Hierarchies /\ tp_mro \in [Types -> Seq(Classes)]
      BY DEF MethodInv, MethodTypeOK
    <2>3. /\ LinearizationsKept'
          /\ \A d \in Types : Ready(d)' => d \notin Above(d)'
      BY <2>1, TypesUnchanged DEF MethodInv
    <2>4. QED
      BY <2>1, <2>2, <2>3, IdleKeepsMethod DEF FailsOnlyIfImpossible
  <1>6. CASE UNCHANGED typeVars
    <2>1. /\ failed' = failed /\ tp_bases' = tp_bases /\ tp_mro' = tp_mro
          /\ acc' = acc /\ to_merge' = to_merge /\ remain' = remain
      BY <1>6 DEF typeVars, mergeVars
    <2>2. MethodTypeOK'
      BY <2>1 DEF MethodInv, MethodTypeOK
    <2>3. FailsOnlyIfImpossible'
      BY <2>1 DEF FailsOnlyIfImpossible
    <2>4. /\ LinearizationsKept'
          /\ \A d \in Types : Ready(d)' => d \notin Above(d)'
          /\ \A c \in Types : /\ Lists(c)' = Lists(c) /\ Above(c)' = Above(c)
                              /\ (BasesOrdered(c)' <=> BasesOrdered(c))
      BY <2>1, TypesUnchanged DEF MethodInv
    <2>5. ASSUME acc # << >> PROVE Merging(acc[1])'
      <3>1. PICK c \in Types : c = acc[1] /\ Merging(c)
        BY <2>5 DEF MethodInv, Merging
      <3>2. Merging(c)'
        BY <2>1, <2>4, <3>1 DEF Merging, check_duplicates, Members
      <3>3. QED
        BY <2>1, <3>1, <3>2
    <2>6. QED
      BY <2>1, <2>2, <2>3, <2>4, <2>5 DEF MethodInv
  <1>7. QED
    BY <1>1, <1>2, <1>3, <1>4, <1>5, <1>6 DEF MethodNext

LEMMA MethodInvariant == MethodSpec => [](MethodInv /\ FailsOnlyIfImpossible)
  <1>1. MethodInit => FailsOnlyIfImpossible
    BY DEF MethodInit, FailsOnlyIfImpossible
  <1>2. QED
    BY <1>1, InitMethodInv, NextMethodInv, PTL DEF MethodSpec

\* The variables of the types keep their types: the positions of pmerge stay
\* within the lists, and only classes get into an order.
THEOREM MethodTypesCorrect == MethodSpec => []MethodTypeOK
  <1>1. MethodInv => MethodTypeOK
    BY DEF MethodInv
  <1>2. QED
    BY <1>1, MethodInvariant, PTL

\* For every hierarchy of types: each order that mro_internal stores has the
\* type first and its ancestors once, as they are ordered in the type's own
\* bases, in those of every ancestor and in the order of every ancestor.
THEOREM LinearizationsAreKept == MethodSpec => []LinearizationsKept
  <1>1. MethodInv => LinearizationsKept
    BY DEF MethodInv
  <1>2. QED
    BY <1>1, MethodInvariant, PTL

\* The TypeErrors of check_duplicates and pmerge come with classes of which
\* each comes after another.
THEOREM FailuresHaveACycle == MethodSpec => []FailsOnlyIfImpossible
  BY MethodInvariant, PTL

\* No order of classes keeps all the lists of a merge that failed: C3 does not
\* turn down a type that could have an order.
NoOrder ==
    failed => ~ \E m \in Seq(Classes) :
                   /\ check_duplicates(m)
                   /\ \A i \in DOMAIN to_merge : KeepsOrder(to_merge[i], m)

LEMMA CycleHasNoOrder ==
    ASSUME MethodTypeOK, FailsOnlyIfImpossible PROVE NoOrder
  <1>1. SUFFICES ASSUME failed, NEW m \in Seq(Classes), check_duplicates(m),
                        \A i \in DOMAIN to_merge : KeepsOrder(to_merge[i], m)
                 PROVE  FALSE
    BY DEF NoOrder
  <1>2. PICK s \in SUBSET Classes :
           /\ s # {}
           /\ \A x \in s : \E i \in DOMAIN to_merge : \E p, q \in DOMAIN to_merge[i] :
                 p < q /\ to_merge[i][p] \in s /\ to_merge[i][q] = x
    BY <1>1 DEF FailsOnlyIfImpossible
  <1> DEFINE places == {k \in DOMAIN m : m[k] \in s}
             R == OpToRel(<, Nat)
  <1>3. \A k \in places : \E l \in places : l < k
    <2> SUFFICES ASSUME NEW k \in places PROVE \E l \in places : l < k
      OBVIOUS
    <2>1. PICK i \in DOMAIN to_merge : \E p, q \in DOMAIN to_merge[i] :
             p < q /\ to_merge[i][p] \in s /\ to_merge[i][q] = m[k]
      BY <1>2
    <2>2. PICK p \in DOMAIN to_merge[i], q \in DOMAIN to_merge[i] :
             p < q /\ to_merge[i][p] \in s /\ to_merge[i][q] = m[k]
      BY <2>1
    <2>3. PICK u \in DOMAIN m, v \in DOMAIN m : u < v /\ m[u] = to_merge[i][p] /\ m[v] = to_merge[i][q]
      BY <1>1, <2>2 DEF KeepsOrder
    <2>4. v = k
      BY <1>1, <2>2, <2>3 DEF check_duplicates
    <2>5. QED
      BY <2>2, <2>3, <2>4
  <1>4. places # {}
    <2>1. PICK x \in s : TRUE
      BY <1>2
    <2>2. PICK i \in DOMAIN to_merge : \E q \in DOMAIN to_merge[i] : to_merge[i][q] = x
      BY <1>2, <2>1
    <2>3. x \in Members(m)
      BY <1>1, <2>2 DEF KeepsOrder, Members
    <2>4. QED
      BY <2>1, <2>3 DEF Members
  <1>5. places \subseteq Nat
    BY <1>1
  <1> HIDE DEF places
  <1>6. IsWellFoundedOn(R, Nat)
    BY NatLessThanWellFounded
  <1> HIDE DEF R
  <1>7. PICK k \in places : \A l \in places : ~(<<l, k>> \in R)
    BY <1>4, <1>5, <1>6, WFMin
  <1>8. QED
    BY <1>3, <1>5, <1>7 DEF R, OpToRel

THEOREM FailuresHaveNoOrder == MethodSpec => []NoOrder
  <1>1. MethodInv /\ FailsOnlyIfImpossible => NoOrder
    BY CycleHasNoOrder DEF MethodInv
  <1>2. QED
    BY <1>1, MethodInvariant, PTL
=============================================================================
