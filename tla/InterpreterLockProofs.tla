----------------------- MODULE InterpreterLockProofs -----------------------
(***************************************************************************)
(* For any threads and any nesting of calls: the interpreter lock excludes,*)
(* the current thread state is its holder's, a thread waits for itself only*)
(* in Java code called with the lock, and thread states are counted.       *)
(***************************************************************************)
EXTENDS InterpreterLock, FiniteSetTheorems, SequenceTheorems, TLAPS

Calls == Holding \cup Released

\* What a call of a kind may be nested in.
Under(call) ==
    CASE call \in {"enter", "clear"} -> {"none", "callback"}
      [] call = "ensured" -> {"none", "allow"}
      [] call \in {"block", "callback", "resume"} -> {"allow"}
      [] call = "reenter" -> {"delegate"}
      [] OTHER -> NativeCode

\* Calls nest as the code allows: one that takes the GIL is never nested in
\* one that holds it, the others keep or release what they find.
Nested(s) ==
    \A i \in 1 .. Len(s) : (IF i = 1 THEN "none" ELSE s[i - 1]) \in Under(s[i])

FramesInv == \A t \in Threads : Nested(frames[t])

\* Where a call is made that has to take the lock: Java code that was called
\* with the GIL may call a method with ENTER_JyNI, but never gets further.
WantedUnder(w) ==
    CASE w = "enter" -> {"none", "callback", "delegate"}
      [] w = "reenter" -> {"none", "callback"}
      [] OTHER -> Under(w)

WantInv == \A t \in Threads : want[t] # "no" => Top(t) \in WantedUnder(want[t])

\* A thread inside a call other than clearPyCPeer has a thread state, and one
\* whose state is gone calls nothing.
LifeInv ==
    \A t \in Threads :
        /\ want[t] \in {"enter", "reenter", "ensured", "block", "resume"} => life[t] = "live"
        /\ \A i \in 1 .. Len(frames[t]) : frames[t][i] # "clear" => life[t] = "live"
        /\ life[t] = "freed" => t \in JavaThreads

Wants == {"no", "enter", "reenter", "clear", "ensured", "block", "resume"}

CallsInv ==
    /\ frames \in [Threads -> Seq(Calls)]
    /\ want \in [Threads -> Wants]
    /\ life \in [Threads -> {"none", "live", "freed"}]
    /\ counter \in [Threads -> Nat]
    /\ FramesInv /\ WantInv /\ LifeInv /\ GilstateExact

LockInv ==
    /\ locked \in BOOLEAN /\ waiting \subseteq Threads
    /\ current \in Threads \cup {NoState}
    /\ attached \subseteq Threads /\ nativelyAttached \subseteq Threads
    /\ GilExclusive
    /\ fatal = FALSE

\* The inductive invariant.
Inv == CallsInv /\ LockInv

\* No type has a destructor that releases the GIL (JyNI.c 107).
Disciplined == ~DeallocYields

Ensures(s) == {i \in DOMAIN s : s[i] \in {"ensured", "nested"}}
One(call) == IF call \in {"ensured", "nested"} THEN 1 ELSE 0

-----------------------------------------------------------------------------
(* Pushing and popping a frame.                                            *)

\* A sequence without its last element.
LEMMA FrontFacts ==
    ASSUME NEW s \in Seq(Calls), s # <<>>
    PROVE  LET r == SubSeq(s, 1, Len(s) - 1) IN
           /\ Len(s) \in Nat \ {0} /\ r \in Seq(Calls) /\ Len(r) = Len(s) - 1
           /\ \A i \in 1 .. Len(s) - 1 : r[i] = s[i] /\ i \in 1 .. Len(s)
  <1> DEFINE k == Len(s) - 1
  <1>1. Len(s) \in Nat \ {0}
    OBVIOUS
  <1>2. k \in Nat /\ \A i \in 1 .. k : s[i] \in Calls /\ i \in 1 .. Len(s)
    BY <1>1
  <1>3. SubSeq(s, 1, k) \in Seq(Calls) /\ Len(SubSeq(s, 1, k)) = k
        /\ \A i \in 1 .. k : SubSeq(s, 1, k)[i] = s[i]
    <2> HIDE DEF k
    <2>1. /\ SubSeq(s, 1, k) \in Seq(Calls)
          /\ Len(SubSeq(s, 1, k)) = IF 1 <= k THEN k - 1 + 1 ELSE 0
          /\ \A i \in 1 .. k - 1 + 1 : SubSeq(s, 1, k)[i] = s[1 + i - 1]
      BY <1>2, SubSeqProperties
    <2> QED
      BY <1>2, <2>1
  <1> QED
    BY <1>1, <1>2, <1>3

\* The innermost call after a call.
LEMMA PushTop ==
    ASSUME frames \in [Threads -> Seq(Calls)],
           NEW t \in Threads, NEW call \in Calls, Push(t, call)
    PROVE  /\ Top(t)' = call
           /\ \A u \in Threads \ {t} : Top(u)' = Top(u) /\ frames'[u] = frames[u]
           /\ frames'[t] = Append(frames[t], call)
           /\ frames' \in [Threads -> Seq(Calls)]
  BY DEF Push, Top

\* The innermost call after a return is one that the call can be nested in.
LEMMA PopTop ==
    ASSUME frames \in [Threads -> Seq(Calls)],
           FramesInv, NEW t \in Threads, Top(t) # "none", Pop(t)
    PROVE  /\ Top(t)' \in Under(Top(t))
           /\ \A u \in Threads \ {t} : Top(u)' = Top(u) /\ frames'[u] = frames[u]
           /\ frames'[t] = SubSeq(frames[t], 1, Len(frames[t]) - 1)
           /\ Len(frames[t]) \in Nat \ {0} /\ Top(t) = frames[t][Len(frames[t])]
           /\ frames' \in [Threads -> Seq(Calls)]
  <1> DEFINE s == frames[t]
             n == Len(s)
  <1>1. s \in Seq(Calls) /\ s # <<>> /\ n \in Nat \ {0} /\ Top(t) = s[n]
    BY DEF Top
  <1>2. frames'[t] = SubSeq(s, 1, n - 1)
    BY DEF Pop
  <1>3. /\ SubSeq(s, 1, n - 1) \in Seq(Calls) /\ Len(SubSeq(s, 1, n - 1)) = n - 1
        /\ \A i \in 1 .. n - 1 : SubSeq(s, 1, n - 1)[i] = s[i]
    BY <1>1, FrontFacts
  <1>4. \A u \in Threads \ {t} : Top(u)' = Top(u) /\ frames'[u] = frames[u]
    BY DEF Pop, Top
  <1>5. frames' \in [Threads -> Seq(Calls)]
    BY <1>3 DEF Pop
  <1>6. (IF n = 1 THEN "none" ELSE s[n - 1]) \in Under(s[n])
    <2>1. Nested(s) /\ n \in 1 .. Len(s)
      BY <1>1 DEF FramesInv
    <2> QED
      BY <2>1 DEF Nested
  <1>7. CASE n = 1
    <2>1. frames'[t] = <<>>
      BY <1>2, <1>3, <1>7
    <2> QED
      BY <2>1, <1>1, <1>2, <1>4, <1>5, <1>6, <1>7 DEF Top
  <1>8. CASE n > 1
    <2>1. /\ n - 1 \in 1 .. n - 1
          /\ Len(frames'[t]) = n - 1 /\ frames'[t][n - 1] = s[n - 1]
      BY <1>1, <1>2, <1>3, <1>8
    <2>2. frames'[t] # <<>>
      BY <1>1, <1>8, <2>1
    <2> QED
      BY <2>1, <2>2, <1>1, <1>2, <1>4, <1>5, <1>6, <1>8 DEF Top
  <1>9. n = 1 \/ n > 1
    <2> HIDE DEF n
    <2> QED
      BY <1>1
  <1> QED
    BY <1>7, <1>8, <1>9

\* A well-nested sequence of calls stays so.
LEMMA PushNested ==
    ASSUME frames \in [Threads -> Seq(Calls)],
           FramesInv, NEW t \in Threads, NEW call \in Calls,
           Push(t, call), Top(t) \in Under(call)
    PROVE  FramesInv'
  <1> DEFINE s == frames[t]
             n == Len(s)
             r == Append(s, call)
  <1>1. s \in Seq(Calls) /\ n \in Nat
    OBVIOUS
  <1>2. Len(r) = n + 1 /\ r[n + 1] = call /\ \A i \in 1 .. n : r[i] = s[i]
    BY <1>1
  <1>3. frames'[t] = r /\ \A u \in Threads \ {t} : frames'[u] = frames[u]
    BY PushTop
  <1>4. Nested(s)
    BY DEF FramesInv
  <1>5. (IF n = 0 THEN "none" ELSE s[n]) \in Under(call)
    BY <1>1 DEF Top
  <1>6. ASSUME NEW i \in 1 .. n + 1
        PROVE  (IF i = 1 THEN "none" ELSE r[i - 1]) \in Under(r[i])
    <2>1. CASE i = n + 1
      BY <1>1, <1>2, <1>5, <2>1
    <2>2. CASE i # n + 1
      <3>1. i \in 1 .. n /\ (i # 1 => i - 1 \in 1 .. n)
        BY <1>1, <2>2
      <3> QED
        BY <1>2, <1>4, <3>1 DEF Nested
    <2> QED
      BY <2>1, <2>2
  <1>7. Nested(r)
    BY <1>2, <1>6 DEF Nested
  <1> QED
    BY <1>3, <1>7 DEF FramesInv

LEMMA PopNested ==
    ASSUME frames \in [Threads -> Seq(Calls)],
           FramesInv, NEW t \in Threads, Top(t) # "none", Pop(t)
    PROVE  FramesInv'
  <1> DEFINE s == frames[t]
             n == Len(s)
             r == SubSeq(s, 1, n - 1)
  <1>1. s \in Seq(Calls) /\ n \in Nat \ {0} /\ s # <<>> /\ frames'[t] = r
    BY PopTop
  <1>2. Len(r) = n - 1 /\ \A i \in 1 .. n - 1 : r[i] = s[i]
    BY <1>1, FrontFacts
  <1>3. Nested(r)
    <2> SUFFICES ASSUME NEW i \in 1 .. n - 1
                 PROVE  (IF i = 1 THEN "none" ELSE r[i - 1]) \in Under(r[i])
      BY <1>2 DEF Nested
    <2>1. i \in 1 .. n /\ (i # 1 => i - 1 \in 1 .. n - 1)
      BY <1>1
    <2> QED
      BY <1>2, <2>1 DEF FramesInv, Nested
  <1> QED
    BY <1>1, <1>3, PopTop DEF FramesInv

\* The calls of PyGILState_Ensure that are open.
LEMMA PushEnsures ==
    ASSUME NEW s \in Seq(Calls), NEW call \in Calls
    PROVE  /\ Cardinality(Ensures(Append(s, call))) = Cardinality(Ensures(s)) + One(call)
           /\ Cardinality(Ensures(s)) \in Nat
  <1> DEFINE n == Len(s)
             r == Append(s, call)
  <1>1. n \in Nat /\ DOMAIN s = 1 .. n /\ DOMAIN r = 1 .. n + 1
    OBVIOUS
  <1>2. r[n + 1] = call /\ \A i \in 1 .. n : r[i] = s[i]
    OBVIOUS
  <1>3. IsFiniteSet(Ensures(s))
    <2>1. IsFiniteSet(1 .. n)
      BY <1>1, FS_Interval
    <2>2. Ensures(s) \subseteq 1 .. n
      BY <1>1 DEF Ensures
    <2> QED
      BY <2>1, <2>2, FS_Subset
  <1>4. CASE One(call) = 1
    <2>1. Ensures(r) = Ensures(s) \cup {n + 1} /\ n + 1 \notin Ensures(s)
      BY <1>1, <1>2, <1>4 DEF Ensures, One
    <2> QED
      BY <1>3, <1>4, <2>1, FS_AddElement, FS_CardinalityType
  <1>5. CASE One(call) = 0
    <2>1. Ensures(r) = Ensures(s)
      BY <1>1, <1>2, <1>5 DEF Ensures, One
    <2> QED
      BY <1>3, <1>5, <2>1, FS_CardinalityType
  <1> QED
    BY <1>4, <1>5 DEF One

LEMMA PopEnsures ==
    ASSUME NEW s \in Seq(Calls), s # <<>>
    PROVE  Cardinality(Ensures(s)) =
           Cardinality(Ensures(SubSeq(s, 1, Len(s) - 1))) + One(s[Len(s)])
  <1> DEFINE n == Len(s)
             r == SubSeq(s, 1, n - 1)
  <1>1. n \in Nat \ {0} /\ r \in Seq(Calls) /\ s[n] \in Calls
    OBVIOUS
  <1>2. Append(r, s[n]) = s
    OBVIOUS
  <1> QED
    BY <1>1, <1>2, PushEnsures

-----------------------------------------------------------------------------
(* What a step does to the lock.                                           *)

\* A thread takes the free lock.
LEMMA TakeLock ==
    ASSUME GilExclusive, current \in Threads \cup {NoState},
           NEW t \in Threads, ~locked, locked' = TRUE,
           Top(t)' \in Holding, \A u \in Threads \ {t} : Top(u)' = Top(u),
           \/ current' = t /\ Top(t)' # "clear"
           \/ UNCHANGED current /\ Top(t)' = "clear"
    PROVE  GilExclusive' /\ current = NoState
  <1>1. \A u \in Threads : Top(u) \notin Holding
    BY DEF GilExclusive, Holds
  <1>2. current = NoState
    BY <1>1 DEF GilExclusive, Holds
  <1>3. t # NoState
    BY InterpreterLockAssumption DEF Threads
  <1> QED
    BY <1>1, <1>2, <1>3 DEF GilExclusive, Holds

\* Its holder gives it back.
LEMMA GiveLock ==
    ASSUME GilExclusive, current \in Threads \cup {NoState},
           NEW t \in Threads, Top(t) \in Holding, locked' = FALSE,
           Top(t)' \notin Holding, \A u \in Threads \ {t} : Top(u)' = Top(u),
           current' = NoState \/ (UNCHANGED current /\ Top(t) = "clear")
    PROVE  GilExclusive'
  <1>1. \A u \in Threads : Top(u)' \notin Holding
    BY DEF GilExclusive, Holds
  <1>2. current' = NoState
    BY DEF GilExclusive, Holds
  <1> QED
    BY <1>1, <1>2 DEF GilExclusive, Holds

\* A thread calls or returns without a change of the lock.
LEMMA KeepLock ==
    ASSUME GilExclusive, current \in Threads \cup {NoState},
           NEW t \in Threads, UNCHANGED <<locked, current>>,
           Top(t)' \in Holding <=> Top(t) \in Holding,
           Top(t)' = "clear" <=> Top(t) = "clear",
           \A u \in Threads \ {t} : Top(u)' = Top(u)
    PROVE  GilExclusive'
  <1>1. \A u \in Threads : (Top(u)' \in Holding <=> Top(u) \in Holding)
                           /\ (Top(u)' = "clear" <=> Top(u) = "clear")
    OBVIOUS
  <1> QED
    BY <1>1 DEF GilExclusive, Holds

-----------------------------------------------------------------------------
(* What a step does to frames, wants and counts.                           *)

\* The counts in terms of Ensures.
LEMMA CountsByEnsures ==
    GilstateExact <=>
    \A t \in Threads :
        counter[t] = (IF life[t] = "live" THEN 1 ELSE 0) + Cardinality(Ensures(frames[t]))
  BY DEF GilstateExact, Ensures

\* A call: its frame is pushed, and PyGILState_Ensure is counted.
LEMMA PushPreserves ==
    ASSUME CallsInv, NEW t \in Threads, NEW call \in Calls, Push(t, call),
           Top(t) \in Under(call), call # "clear" => life[t] = "live",
           want' = [want EXCEPT ![t] = "no"], UNCHANGED life,
           counter' = [counter EXCEPT ![t] = @ + One(call)]
    PROVE  CallsInv'
  <1> USE DEF CallsInv
  <1>1. /\ Top(t)' = call
        /\ \A u \in Threads \ {t} : Top(u)' = Top(u) /\ frames'[u] = frames[u]
        /\ frames'[t] = Append(frames[t], call)
        /\ frames' \in [Threads -> Seq(Calls)]
    BY PushTop
  <1>2. FramesInv'
    BY PushNested
  <1>3. want' \in [Threads -> Wants] /\ WantInv'
    BY <1>1 DEF WantInv, Wants
  <1>4. counter' \in [Threads -> Nat]
    BY DEF One
  <1>5. GilstateExact'
    <2> SUFFICES ASSUME NEW u \in Threads
                 PROVE  counter'[u] = (IF life[u] = "live" THEN 1 ELSE 0)
                                      + Cardinality(Ensures(frames'[u]))
      BY DEF GilstateExact, Ensures
    <2>1. counter[u] = (IF life[u] = "live" THEN 1 ELSE 0)
                       + Cardinality(Ensures(frames[u]))
      BY CountsByEnsures
    <2>2. CASE u = t
      <3>1. frames[t] \in Seq(Calls)
        OBVIOUS
      <3>2. /\ Cardinality(Ensures(frames'[t])) = Cardinality(Ensures(frames[t])) + One(call)
            /\ Cardinality(Ensures(frames[t])) \in Nat
        BY <1>1, <3>1, PushEnsures
      <3>3. counter'[t] = counter[t] + One(call) /\ One(call) \in Nat
        BY DEF One
      <3> QED
        BY <2>1, <2>2, <3>2, <3>3
    <2>3. CASE u # t
      BY <1>1, <2>1, <2>3
    <2> QED
      BY <2>2, <2>3
  <1>6. LifeInv'
    <2> SUFFICES ASSUME NEW u \in Threads
                 PROVE  /\ want'[u] \in {"enter", "reenter", "ensured", "block", "resume"} => life[u] = "live"
                        /\ \A i \in 1 .. Len(frames'[u]) :
                               frames'[u][i] # "clear" => life[u] = "live"
                        /\ life[u] = "freed" => u \in JavaThreads
      BY DEF LifeInv
    <2>1. CASE u = t
      <3>1. frames[t] \in Seq(Calls) /\ Len(frames[t]) \in Nat
        OBVIOUS
      <3>2. ASSUME NEW i \in 1 .. Len(frames'[t]), frames'[t][i] # "clear"
            PROVE  life[t] = "live"
        <4>1. CASE i = Len(frames[t]) + 1
          BY <1>1, <3>1, <3>2, <4>1
        <4>2. CASE i # Len(frames[t]) + 1
          <5>1. i \in 1 .. Len(frames[t]) /\ frames'[t][i] = frames[t][i]
            BY <1>1, <3>1, <4>2
          <5> QED
            BY <3>2, <5>1 DEF LifeInv
        <4> QED
          BY <4>1, <4>2
      <3> QED
        BY <2>1, <3>2 DEF LifeInv
    <2>2. CASE u # t
      BY <1>1, <2>2 DEF LifeInv
    <2> QED
      BY <2>1, <2>2
  <1> QED
    BY <1>1, <1>2, <1>3, <1>4, <1>5, <1>6

\* A return: the frame goes, and PyGILState_Release is counted.
LEMMA PopPreserves ==
    ASSUME CallsInv, NEW t \in Threads, Top(t) # "none", Pop(t),
           want' = [want EXCEPT ![t] = "no"], UNCHANGED life,
           counter' = [counter EXCEPT ![t] = @ - One(Top(t))]
    PROVE  CallsInv'
  <1> USE DEF CallsInv
  <1>1. /\ \A u \in Threads \ {t} : Top(u)' = Top(u) /\ frames'[u] = frames[u]
        /\ frames'[t] = SubSeq(frames[t], 1, Len(frames[t]) - 1)
        /\ Len(frames[t]) \in Nat \ {0} /\ Top(t) = frames[t][Len(frames[t])]
        /\ frames' \in [Threads -> Seq(Calls)]
    BY PopTop
  <1>2. FramesInv'
    BY PopNested
  <1>3. want' \in [Threads -> Wants] /\ WantInv'
    BY <1>1 DEF WantInv, Wants
  <1>4. counter'[t] \in Nat /\ counter'[t] = (IF life[t] = "live" THEN 1 ELSE 0)
                                             + Cardinality(Ensures(frames'[t]))
    <2>1. frames[t] \in Seq(Calls) /\ frames[t] # <<>> /\ frames'[t] \in Seq(Calls)
      BY <1>1
    <2>2. Cardinality(Ensures(frames[t])) = Cardinality(Ensures(frames'[t])) + One(Top(t))
      BY <1>1, <2>1, PopEnsures
    <2>3. Cardinality(Ensures(frames'[t])) \in Nat
      BY <2>1, PushEnsures DEF Calls, Holding
    <2>4. counter[t] = (IF life[t] = "live" THEN 1 ELSE 0) + Cardinality(Ensures(frames[t]))
      BY CountsByEnsures
    <2>5. counter'[t] = counter[t] - One(Top(t)) /\ One(Top(t)) \in Nat
      BY DEF One
    <2> QED
      BY <2>2, <2>3, <2>4, <2>5
  <1>5. counter' \in [Threads -> Nat]
    BY <1>4
  <1>6. GilstateExact'
    <2> SUFFICES ASSUME NEW u \in Threads
                 PROVE  counter'[u] = (IF life[u] = "live" THEN 1 ELSE 0)
                                      + Cardinality(Ensures(frames'[u]))
      BY DEF GilstateExact, Ensures
    <2> QED
      BY <1>1, <1>4, CountsByEnsures
  <1>7. LifeInv'
    <2> SUFFICES ASSUME NEW u \in Threads
                 PROVE  /\ want'[u] \in {"enter", "reenter", "ensured", "block", "resume"} => life[u] = "live"
                        /\ \A i \in 1 .. Len(frames'[u]) :
                               frames'[u][i] # "clear" => life[u] = "live"
                        /\ life[u] = "freed" => u \in JavaThreads
      BY DEF LifeInv
    <2>1. CASE u = t
      <3>1. /\ Len(frames'[t]) = Len(frames[t]) - 1
            /\ \A i \in 1 .. Len(frames'[t]) : i \in 1 .. Len(frames[t]) /\ frames'[t][i] = frames[t][i]
        <4>1. frames[t] \in Seq(Calls) /\ frames[t] # <<>>
          BY <1>1
        <4> QED
          BY <1>1, <4>1, FrontFacts
      <3> QED
        BY <2>1, <3>1 DEF LifeInv
    <2>2. CASE u # t
      BY <1>1, <2>2 DEF LifeInv
    <2> QED
      BY <2>1, <2>2
  <1> QED
    BY <1>1, <1>2, <1>3, <1>5, <1>6, <1>7

\* A call that has to take the lock first.
LEMMA WantPreserves ==
    ASSUME CallsInv, NEW t \in Threads, NEW w \in Wants \ {"no"},
           UNCHANGED frames, want' = [want EXCEPT ![t] = w], Top(t) \in WantedUnder(w),
           \/ Prepare(t) /\ life[t] # "freed"
           \/ UNCHANGED <<life, counter>> /\ (w = "clear" \/ life[t] = "live")
    PROVE  CallsInv'
  <1> USE DEF CallsInv
  <1>1. \A u \in Threads : Top(u)' = Top(u)
    BY DEF Top
  <1>2. FramesInv'
    BY DEF FramesInv, Nested, Under
  <1>3. want' \in [Threads -> Wants] /\ WantInv'
    BY <1>1 DEF WantInv
  <1>4. /\ life' = life \/ (life[t] = "none" /\ life' = [life EXCEPT ![t] = "live"]
                                            /\ counter' = [counter EXCEPT ![t] = 1])
        /\ life' = life => UNCHANGED counter
        /\ w # "clear" => life'[t] = "live"
    BY DEF Prepare
  <1>5. /\ life' \in [Threads -> {"none", "live", "freed"}]
        /\ counter' \in [Threads -> Nat]
    <2>1. CASE life' = life
      <3>1. counter' = counter
        BY <1>4, <2>1
      <3> QED
        BY <2>1, <3>1
    <2>2. CASE life' # life
      <3>1. /\ life' = [life EXCEPT ![t] = "live"]
            /\ counter' = [counter EXCEPT ![t] = 1]
        BY <1>4, <2>2
      <3>2. life' \in [Threads -> {"none", "live", "freed"}]
        BY <3>1
      <3>3. counter' \in [Threads -> Nat]
        BY <3>1
      <3> QED
        BY <3>2, <3>3
    <2> QED
      BY <2>1, <2>2
  <1>6. LifeInv'
    BY <1>4 DEF LifeInv
  <1>7. GilstateExact'
    <2> SUFFICES ASSUME NEW u \in Threads
                 PROVE  counter'[u] = (IF life'[u] = "live" THEN 1 ELSE 0)
                                      + Cardinality(Ensures(frames'[u]))
      BY DEF GilstateExact, Ensures
    <2>1. /\ counter[u] = (IF life[u] = "live" THEN 1 ELSE 0) + Cardinality(Ensures(frames[u]))
          /\ frames'[u] = frames[u]
      BY CountsByEnsures
    <2>2. CASE life' = life
      BY <1>4, <2>1, <2>2
    <2>3. CASE life' # life
      <3>1. CASE u = t
        <4>1. life[t] = "none" /\ life'[t] = "live" /\ counter'[t] = 1
          BY <1>4, <2>3
        <4>2. \A i \in 1 .. Len(frames[t]) : frames[t][i] = "clear"
          BY <4>1 DEF LifeInv
        <4>3. Ensures(frames[t]) = {}
          <5>1. frames[t] \in Seq(Calls) /\ DOMAIN frames[t] = 1 .. Len(frames[t])
            OBVIOUS
          <5> QED
            BY <4>2, <5>1 DEF Ensures
        <4> QED
          BY <2>1, <3>1, <4>1, <4>3, FS_EmptySet
      <3>2. CASE u # t
        BY <1>4, <2>1, <2>3, <3>2
      <3> QED
        BY <3>1, <3>2
    <2> QED
      BY <2>2, <2>3
  <1> QED
    BY <1>2, <1>3, <1>5, <1>6, <1>7

\* The end of a thread: its state is freed, as no PyGILState_Ensure is open.
LEMMA EndPreserves ==
    ASSUME CallsInv, NEW t \in Threads, ThreadEnds(t)
    PROVE  CallsInv'
  <1> USE DEF CallsInv
  <1>1. /\ UNCHANGED <<frames, want>> /\ t \in JavaThreads
        /\ frames[t] = <<>> /\ life[t] = "live" /\ want[t] = "no"
        /\ counter' = [counter EXCEPT ![t] = @ - 1]
        /\ life' = [life EXCEPT ![t] = IF counter'[t] = 0 THEN "freed" ELSE @]
    BY DEF ThreadEnds, Running
  <1>2. Ensures(frames[t]) = {}
    BY <1>1 DEF Ensures
  <1>3. counter[t] = 1
    <2>1. counter[t] = (IF life[t] = "live" THEN 1 ELSE 0) + Cardinality(Ensures(frames[t]))
      BY CountsByEnsures
    <2> QED
      BY <1>1, <1>2, <2>1, FS_EmptySet
  <1>4. /\ counter' = [counter EXCEPT ![t] = 0]
        /\ life' = [life EXCEPT ![t] = "freed"]
    BY <1>1, <1>3
  <1>5. FramesInv' /\ WantInv'
    BY <1>1 DEF FramesInv, Nested, Under, WantInv, Top
  <1>6. LifeInv'
    BY <1>1, <1>4 DEF LifeInv
  <1>7. GilstateExact'
    <2> SUFFICES ASSUME NEW u \in Threads
                 PROVE  counter'[u] = (IF life'[u] = "live" THEN 1 ELSE 0)
                                      + Cardinality(Ensures(frames'[u]))
      BY DEF GilstateExact, Ensures
    <2>1. /\ counter[u] = (IF life[u] = "live" THEN 1 ELSE 0) + Cardinality(Ensures(frames[u]))
          /\ frames'[u] = frames[u]
      BY <1>1, CountsByEnsures
    <2>2. CASE u = t
      <3>1. Cardinality(Ensures(frames'[t])) = 0
        BY <1>1, <1>2, FS_EmptySet
      <3>2. counter'[t] = 0 /\ life'[t] = "freed"
        BY <1>4
      <3> QED
        BY <2>2, <3>1, <3>2
    <2>3. CASE u # t
      BY <1>4, <2>1, <2>3
    <2> QED
      BY <2>2, <2>3
  <1> QED
    BY <1>1, <1>4, <1>5, <1>6, <1>7

-----------------------------------------------------------------------------
(* The steps.                                                              *)

\* Calls that may surround each kind.
LEMMA UnderFacts ==
    /\ Under("enter") = {"none", "callback"} /\ Under("clear") = {"none", "callback"}
    /\ Under("ensured") = {"none", "allow"}
    /\ Under("block") = {"allow"} /\ Under("callback") = {"allow"}
    /\ Under("resume") = {"allow"} /\ Under("reenter") = {"delegate"}
    /\ Under("nested") = NativeCode /\ Under("delegate") = NativeCode
    /\ Under("allow") = NativeCode
    /\ WantedUnder("enter") = {"none", "callback", "delegate"}
    /\ WantedUnder("reenter") = {"none", "callback"}
    /\ WantedUnder("clear") = {"none", "callback"}
    /\ WantedUnder("ensured") = {"none", "allow"}
    /\ WantedUnder("block") = {"allow"} /\ WantedUnder("resume") = {"allow"}
  BY DEF Under, WantedUnder

\* A thread in native code is the current one, and has a thread state.
LEMMA InsideFacts ==
    ASSUME Inv, NEW t \in Threads
    PROVE  /\ Top(t) \in Holding \ {"clear"} => current = t
           /\ current = t => Top(t) \in Holding \ {"clear"}
           /\ Top(t) \notin {"none", "clear"} => life[t] = "live"
           /\ t # NoState
           /\ want[t] # "no" => Top(t) \in WantedUnder(want[t])
           /\ Top(t) \in Calls \cup {"none"}
  <1>1. t # NoState
    BY InterpreterLockAssumption DEF Threads
  <1>2. frames[t] \in Seq(Calls)
    BY DEF Inv, CallsInv
  <1>3. Top(t) # "none" => Len(frames[t]) \in 1 .. Len(frames[t])
                           /\ Top(t) = frames[t][Len(frames[t])]
    BY <1>2 DEF Top
  <1>4. Top(t) \in Calls \cup {"none"}
    BY <1>2, <1>3
  <1>5. Top(t) \notin {"none", "clear"} => life[t] = "live"
    BY <1>3 DEF Inv, CallsInv, LifeInv
  <1> QED
    BY <1>1, <1>4, <1>5 DEF Inv, CallsInv, LockInv, WantInv, GilExclusive, Holds

\* What does not change is as if reset or not counted.
LEMMA SameWant ==
    ASSUME CallsInv, NEW t \in Threads, want[t] = "no", UNCHANGED want
    PROVE  want' = [want EXCEPT ![t] = "no"]
  BY DEF CallsInv

LEMMA SameCount ==
    ASSUME CallsInv, NEW t \in Threads, NEW call \in Calls,
           call \notin {"ensured", "nested"}, UNCHANGED counter
    PROVE  /\ counter' = [counter EXCEPT ![t] = @ + One(call)]
           /\ counter' = [counter EXCEPT ![t] = @ - One(call)]
  BY DEF CallsInv, One

\* A step that keeps calls, current thread state and lock flag.
LEMMA SameLock ==
    ASSUME LockInv, UNCHANGED <<locked, current, frames, fatal>>,
           waiting' \subseteq Threads, attached' \subseteq Threads,
           nativelyAttached' \subseteq Threads
    PROVE  LockInv'
  BY DEF LockInv, GilExclusive, Holds, Top

\* Steps that wait for the lock or take it.
LEMMA LockStepPreserves ==
    ASSUME Inv, NEW t \in Threads, LockStep(t)
    PROVE  Inv'
  <1> USE DEF Inv
  <1>1. CASE AcquireWaits(t) \/ Interrupt(t)
    <2>1. UNCHANGED <<locked, current, frames, want, life, counter, attached,
                      nativelyAttached, fatal>> /\ waiting' \subseteq Threads
      BY <1>1 DEF AcquireWaits, Interrupt, LockInv, states
    <2>2. LockInv'
      BY <2>1, SameLock DEF LockInv
    <2>3. CallsInv'
      BY <2>1 DEF CallsInv, FramesInv, WantInv, Top, LifeInv, GilstateExact
    <2> QED
      BY <2>2, <2>3
  <1>2. ASSUME NEW call \in Calls, NEW w \in {call, "reenter"},
               Push(t, call), Acquire(t, w), w = "reenter" => call = "enter",
               UNCHANGED <<life, attached, nativelyAttached>>,
               call \in {"enter", "block", "ensured", "clear"},
               counter' = [counter EXCEPT ![t] = @ + One(call)],
               IF call = "clear" THEN UNCHANGED current ELSE current' = t,
               fatal' = FALSE \/ fatal' = (current # NoState)
        PROVE  Inv'
    <2>1. /\ ~locked /\ locked' = TRUE /\ UNCHANGED waiting
          /\ want[t] = w /\ want' = [want EXCEPT ![t] = "no"]
      BY <1>2 DEF Acquire
    \* The lock is free: nobody is in Java code that was called with it.
    <2>a. Top(t) \notin Holding
      BY <2>1 DEF LockInv, GilExclusive, Holds
    <2>b. Top(t) \in WantedUnder(w)
      BY <1>2, <2>1, InsideFacts
    <2>c. Top(t) \in Under(call)
      <3>1. CASE call = "enter"
        BY <1>2, <2>a, <2>b, <3>1, UnderFacts DEF Holding
      <3>2. CASE call # "enter"
        BY <1>2, <2>b, <3>2, UnderFacts
      <3> QED
        BY <3>1, <3>2
    <2>2. Top(t) \in Under(call) /\ (call # "clear" => life[t] = "live")
      BY <1>2, <2>1, <2>c DEF CallsInv, LifeInv
    <2>3. CallsInv'
      BY <1>2, <2>1, <2>2, PushPreserves
    <2>4. Top(t)' = call /\ \A u \in Threads \ {t} : Top(u)' = Top(u)
      BY <1>2, PushTop DEF CallsInv
    <2>5. GilExclusive' /\ current = NoState
      BY <1>2, <2>1, <2>4, TakeLock DEF LockInv, Holding, NativeCode
    <2> QED
      BY <1>2, <2>1, <2>3, <2>5 DEF LockInv
  <1>3. CASE Enter(t)
    <2>1. PICK w \in {"enter", "reenter"} : Acquire(t, w)
      BY <1>3 DEF Enter
    <2>2. "enter" \in Calls /\ w \in {"enter", "reenter"}
      BY DEF Calls, Holding, NativeCode
    <2>3. /\ Push(t, "enter") /\ fatal' = (current # NoState) /\ current' = t
          /\ UNCHANGED <<life, counter, attached, nativelyAttached>>
      BY <1>3 DEF Enter, states
    <2>4. counter' = [counter EXCEPT ![t] = @ + One("enter")]
      BY <2>2, <2>3, SameCount
    <2> QED
      BY <1>2, <2>1, <2>2, <2>3, <2>4
  <1>4. CASE ClearPyCPeer(t)
    BY <1>2, <1>4, SameCount DEF ClearPyCPeer, states, Calls, Holding, LockInv
  <1>5. CASE BlockThreads(t)
    BY <1>2, <1>5, SameCount
       DEF BlockThreads, RestoreThread, states, Calls, Holding, NativeCode, LockInv
  <1>6. CASE Ensured(t)
    BY <1>2, <1>6 DEF Ensured, RestoreThread, Calls, Holding, NativeCode, LockInv, One
  <1>7. CASE EndAllow(t)
    <2>1. /\ ~locked /\ locked' = TRUE /\ UNCHANGED waiting
          /\ want[t] = "resume" /\ want' = [want EXCEPT ![t] = "no"]
          /\ current' = t /\ fatal' = FALSE /\ Pop(t)
          /\ UNCHANGED <<life, counter, attached, nativelyAttached>>
      BY <1>7 DEF EndAllow, RestoreThread, Acquire, states, LockInv
    <2>2. Top(t) = "allow"
      BY <2>1, InsideFacts, UnderFacts
    <2>3. CallsInv'
      BY <2>1, <2>2, PopPreserves, SameCount DEF Calls, Released
    <2>4. Top(t)' \in NativeCode /\ \A u \in Threads \ {t} : Top(u)' = Top(u)
      BY <2>1, <2>2, PopTop, UnderFacts DEF CallsInv
    <2>5. GilExclusive'
      BY <2>1, <2>4, TakeLock DEF LockInv, Holding, NativeCode
    <2> QED
      BY <2>1, <2>3, <2>5 DEF LockInv
  <1> QED
    BY <1>1, <1>3, <1>4, <1>5, <1>6, <1>7 DEF LockStep

\* Steps that call.
LEMMA CallStepPreserves ==
    ASSUME Inv, Disciplined, NEW t \in Threads, CallStep(t)
    PROVE  Inv'
  <1> USE DEF Inv
  \* Calls for which the thread has to take the lock first.
  <1>1. ASSUME NEW w \in Wants \ {"no"}, want' = [want EXCEPT ![t] = w],
               UNCHANGED <<locked, waiting, current, frames, fatal>>,
               attached' \subseteq Threads, nativelyAttached' \subseteq Threads,
               Top(t) \in WantedUnder(w),
               \/ Prepare(t) /\ life[t] # "freed"
               \/ UNCHANGED <<life, counter>> /\ (w = "clear" \/ life[t] = "live")
        PROVE  Inv'
    <2>1. CallsInv'
      BY <1>1, WantPreserves
    <2>2. LockInv'
      BY <1>1, SameLock DEF LockInv
    <2> QED
      BY <2>1, <2>2
  \* Calls that leave the lock as it is.
  <1>2. ASSUME NEW call \in Calls, Push(t, call), Top(t) \in Under(call),
               call # "clear" => life[t] = "live", want[t] = "no",
               UNCHANGED <<locked, waiting, current, want, life, fatal>>,
               attached' \subseteq Threads, nativelyAttached' \subseteq Threads,
               counter' = [counter EXCEPT ![t] = @ + One(call)],
               Top(t) # "clear", call # "clear",
               call \in Holding <=> Top(t) \in Holding
        PROVE  Inv'
    <2>1. CallsInv'
      BY <1>2, SameWant, PushPreserves
    <2>2. Top(t)' = call /\ \A u \in Threads \ {t} : Top(u)' = Top(u)
      BY <1>2, PushTop DEF CallsInv
    <2>3. GilExclusive'
      BY <1>2, <2>2, KeepLock DEF LockInv
    <2> QED
      BY <1>2, <2>1, <2>3 DEF LockInv
  <1>3. CASE CallEnter(t)
    <2>1. /\ Top(t) \in {"none", "callback", "delegate"}
          /\ Top(t) = "none" => life[t] # "freed"
      BY <1>3 DEF CallEnter, InJava
    <2>2. life[t] # "freed"
      BY <2>1, InsideFacts
    <2> QED
      BY <1>1, <1>3, <2>1, <2>2, UnderFacts DEF CallEnter, lock, Wants, LockInv
  <1>4. CASE CallReEnter(t)
    <2>1. /\ Top(t) \in {"none", "callback", "delegate"} /\ want[t] = "no"
          /\ Top(t) = "none" => life[t] # "freed"
          /\ Prepare(t)
          /\ UNCHANGED <<locked, waiting, current, attached, nativelyAttached, fatal>>
      BY <1>4 DEF CallReEnter, InJava, MayCall, Running, lock
    <2>2. CASE current = t
      <3>1. Top(t) = "delegate" /\ life[t] = "live"
        BY <2>1, <2>2, InsideFacts DEF Holding, NativeCode
      <3>2. Push(t, "reenter") /\ UNCHANGED <<want, life, counter>>
        BY <1>4, <2>1, <2>2, <3>1 DEF CallReEnter, Prepare
      <3>3. counter' = [counter EXCEPT ![t] = @ + One("reenter")]
        BY <3>2, SameCount DEF Calls, Holding, NativeCode
      <3> QED
        BY <1>2, <2>1, <3>1, <3>2, <3>3, UnderFacts
           DEF Calls, Holding, NativeCode, LockInv
    <2>3. CASE current # t
      <3>1. want' = [want EXCEPT ![t] = "reenter"] /\ UNCHANGED frames
        BY <1>4, <2>3 DEF CallReEnter
      <3>2. Top(t) \in {"none", "callback"}
        BY <2>1, <2>3, InsideFacts DEF Holding
      <3>3. life[t] # "freed"
        BY <2>1, InsideFacts
      <3> QED
        BY <1>1, <2>1, <3>1, <3>2, <3>3, UnderFacts DEF Wants, LockInv
    <2> QED
      BY <2>2, <2>3
  <1>5. CASE CallClear(t)
    <2>1. Top(t) \in {"none", "callback"}
      BY <1>5 DEF CallClear, InJava
    <2> QED
      BY <1>1, <1>5, <2>1, UnderFacts DEF CallClear, lock, states, Wants, LockInv
  <1>6. CASE CallDelegate(t)
    <2>1. Top(t) \in NativeCode /\ life[t] = "live"
      BY <1>6, InsideFacts DEF CallDelegate, InNativeCode, NativeCode
    <2>2. counter' = [counter EXCEPT ![t] = @ + One("delegate")]
      BY <1>6, SameCount DEF CallDelegate, states, Calls, Holding
    <2> QED
      BY <1>2, <1>6, <2>1, <2>2, UnderFacts
         DEF CallDelegate, MayCall, Running, lock, states, Calls, Holding,
             NativeCode, LockInv
  <1>7. CASE CallFunction(t)
    <2>1. Top(t) = "allow" /\ life[t] = "live"
      BY <1>7, InsideFacts DEF CallFunction
    <2>2. counter' = [counter EXCEPT ![t] = @ + One("callback")]
      BY <1>7, SameCount DEF CallFunction, states, Calls, Released
    <2> QED
      BY <1>2, <1>7, <2>1, <2>2, UnderFacts
         DEF CallFunction, MayCall, Running, lock, states, Calls, Holding,
             Released, NativeCode, LockInv
  <1>8. CASE BeginAllow(t)
    <2>1. /\ Top(t) \in NativeCode /\ want[t] = "no" /\ Push(t, "allow")
          /\ locked' = FALSE /\ current' = NoState
          /\ waiting' = IF locked THEN {} ELSE waiting
          /\ fatal' = (current = NoState)
          /\ UNCHANGED <<want, life, counter, attached, nativelyAttached>>
      BY <1>8 DEF BeginAllow, InNativeCode, Disciplined, MayCall, Running,
                  SaveThread, Release, states
    <2>2. current = t /\ life[t] = "live" /\ t # NoState
      BY <2>1, InsideFacts DEF Holding, NativeCode
    <2>3. CallsInv'
      BY <2>1, <2>2, SameWant, SameCount, PushPreserves, UnderFacts DEF Calls, Released
    <2>4. Top(t)' = "allow" /\ \A u \in Threads \ {t} : Top(u)' = Top(u)
      BY <2>1, PushTop DEF CallsInv, Calls, Released
    <2>5. GilExclusive'
      BY <2>1, <2>4, GiveLock DEF LockInv, Holding, NativeCode
    <2> QED
      BY <2>1, <2>2, <2>3, <2>5 DEF LockInv
  <1>9. CASE WantBack(t)
    <2>1. Top(t) = "allow" /\ life[t] = "live"
      BY <1>9, InsideFacts DEF WantBack
    <2> QED
      BY <1>1, <1>9, <2>1, UnderFacts DEF WantBack, lock, states, Wants, LockInv
  <1>10. CASE Ensure(t)
    <2>1. /\ Top(t) \in NativeCode \cup {"allow", "none"} /\ want[t] = "no"
          /\ Top(t) = "none" => t \in NativeThreads
          /\ UNCHANGED <<locked, waiting, current, fatal>>
      BY <1>10 DEF Ensure, InNativeCode, NativeCode, MayCall, Running, lock
    <2> attached' \subseteq Threads /\ nativelyAttached' \subseteq Threads
      BY <1>10 DEF Ensure, LockInv
    <2>2. CASE current = t
      <3>1. Top(t) \in NativeCode /\ life[t] = "live"
        BY <2>1, <2>2, InsideFacts DEF Holding, NativeCode
      <3>2. /\ Push(t, "nested") /\ UNCHANGED <<life, want>>
            /\ counter' = [counter EXCEPT ![t] = @ + One("nested")]
        BY <1>10, <2>2 DEF Ensure, One
      <3> QED
        BY <1>2, <2>1, <3>1, <3>2, UnderFacts DEF Calls, Holding, NativeCode
    <2>3. CASE current # t
      <3>1. Prepare(t) /\ want' = [want EXCEPT ![t] = "ensured"] /\ UNCHANGED frames
        BY <1>10, <2>3 DEF Ensure
      <3>2. Top(t) \in {"none", "allow"}
        BY <2>1, <2>3, InsideFacts DEF Holding, NativeCode
      <3>3. life[t] # "freed"
        <4>1. CASE Top(t) = "allow"
          BY <4>1, InsideFacts
        <4>2. CASE Top(t) = "none"
          BY <2>1, <4>2, InterpreterLockAssumption DEF CallsInv, LifeInv
        <4> QED
          BY <3>2, <4>1, <4>2
      <3> QED
        BY <1>1, <2>1, <3>1, <3>2, <3>3, UnderFacts DEF Wants
    <2> QED
      BY <2>2, <2>3
  <1> QED
    BY <1>3, <1>4, <1>5, <1>6, <1>7, <1>8, <1>9, <1>10 DEF CallStep

\* Steps that return.
LEMMA ReturnStepPreserves ==
    ASSUME Inv, NEW t \in Threads, ReturnStep(t)
    PROVE  Inv'
  <1> USE DEF Inv
  \* Returns that give the lock back.
  <1>1. ASSUME Top(t) \in Holding, Pop(t), want[t] = "no",
               Under(Top(t)) \cap Holding = {},
               counter' = [counter EXCEPT ![t] = @ - One(Top(t))],
               UNCHANGED <<want, life>>,
               locked' = FALSE, waiting' = IF locked THEN {} ELSE waiting,
               current' = NoState \/ (UNCHANGED current /\ Top(t) = "clear"),
               fatal' = FALSE,
               UNCHANGED <<attached, nativelyAttached>>
        PROVE  Inv'
    <2>0. Top(t) # "none"
      BY <1>1 DEF Holding, NativeCode
    <2>1. CallsInv'
      BY <1>1, <2>0, SameWant, PopPreserves
    <2>2. Top(t)' \notin Holding /\ \A u \in Threads \ {t} : Top(u)' = Top(u)
      BY <1>1, <2>0, PopTop DEF CallsInv
    <2>3. GilExclusive'
      BY <1>1, <2>2, GiveLock DEF LockInv
    <2> QED
      BY <1>1, <2>1, <2>3 DEF LockInv
  \* Returns that leave the lock as it is.
  <1>2. ASSUME Top(t) \notin {"none", "clear"}, Pop(t), want[t] = "no",
               IF Top(t) \in Holding THEN Under(Top(t)) \subseteq Holding \ {"clear"}
                                     ELSE Under(Top(t)) \cap Holding = {},
               counter' = [counter EXCEPT ![t] = @ - One(Top(t))],
               UNCHANGED <<locked, waiting, current, want, life, fatal>>,
               UNCHANGED <<attached, nativelyAttached>>
        PROVE  Inv'
    <2>1. CallsInv'
      BY <1>2, SameWant, PopPreserves
    <2>2. Top(t)' \in Under(Top(t)) /\ \A u \in Threads \ {t} : Top(u)' = Top(u)
      BY <1>2, PopTop DEF CallsInv
    <2>3. Top(t)' # "clear" /\ (Top(t)' \in Holding <=> Top(t) \in Holding)
      BY <1>2, <2>2 DEF Holding
    <2>4. GilExclusive'
      BY <1>2, <2>2, <2>3, KeepLock DEF LockInv
    <2> QED
      BY <1>2, <2>1, <2>4 DEF LockInv
  <1>3. CASE Leave(t)
    <2>1. counter' = [counter EXCEPT ![t] = @ - One("enter")]
      BY <1>3, SameCount DEF Leave, states, Calls, Holding, NativeCode
    <2> QED
      BY <1>1, <1>3, <2>1, UnderFacts
         DEF Leave, Running, Release, states, Holding, NativeCode, LockInv
  <1>4. CASE ReLeave(t)
    <2>1. counter' = [counter EXCEPT ![t] = @ - One("reenter")]
      BY <1>4, SameCount DEF ReLeave, states, Calls, Holding, NativeCode
    <2> QED
      BY <1>2, <1>4, <2>1, UnderFacts
         DEF ReLeave, Running, lock, states, Holding, NativeCode
  <1>5. CASE ClearReturns(t)
    <2>1. counter' = [counter EXCEPT ![t] = @ - One("clear")]
      BY <1>5, SameCount DEF ClearReturns, states, Calls, Holding
    <2> QED
      BY <1>1, <1>5, <2>1, UnderFacts
         DEF ClearReturns, Running, Release, states, Holding, NativeCode, LockInv
  <1>6. CASE JavaReturns(t)
    <2>1. /\ Top(t) \in {"callback", "delegate"} /\ want[t] = "no" /\ Pop(t)
          /\ UNCHANGED <<locked, waiting, current, want, life, counter, fatal>>
          /\ UNCHANGED <<attached, nativelyAttached>>
      BY <1>6 DEF JavaReturns, Running, lock, states
    <2>2. counter' = [counter EXCEPT ![t] = @ - One(Top(t))]
      BY <2>1, SameCount DEF Calls, Holding, Released
    <2>3. CASE Top(t) = "callback"
      <3>1. Top(t) \notin Holding /\ Under(Top(t)) \cap Holding = {}
        BY <2>3, UnderFacts DEF Holding, NativeCode
      <3> QED
        BY <1>2, <2>1, <2>2, <3>1
    <2>4. CASE Top(t) = "delegate"
      <3>1. Top(t) \in Holding /\ Under(Top(t)) \subseteq Holding \ {"clear"}
        BY <2>4, UnderFacts DEF Holding, NativeCode
      <3> QED
        BY <1>2, <2>1, <2>2, <3>1
    <2> QED
      BY <2>1, <2>3, <2>4
  <1>7. CASE UnblockThreads(t)
    <2>1. counter' = [counter EXCEPT ![t] = @ - One("block")]
      BY <1>7, SameCount DEF UnblockThreads, states, Calls, Holding, NativeCode
    <2>2. Top(t) = "block" /\ current = t /\ current # NoState
      BY <1>7, InsideFacts DEF UnblockThreads, Holding, NativeCode
    <2> QED
      BY <1>1, <1>7, <2>1, <2>2, UnderFacts
         DEF UnblockThreads, Running, SaveThread, Release, states, Holding, NativeCode
  <1>8. CASE EnsureReleased(t)
    <2>1. /\ Top(t) \in {"ensured", "nested"} /\ want[t] = "no" /\ Pop(t)
          /\ counter' = [counter EXCEPT ![t] = @ - 1]
          /\ counter' = [counter EXCEPT ![t] = @ - One(Top(t))]
          /\ UNCHANGED <<want, nativelyAttached>>
      BY <1>8 DEF EnsureReleased, Running, DecrementCounter, One
    <2>2. current = t /\ life[t] = "live" /\ t # NoState
      BY <2>1, InsideFacts DEF Holding, NativeCode
    \* The count of the JyTState remains.
    <2>3. counter'[t] # 0
      <3>1. counter[t] = 1 + Cardinality(Ensures(frames[t]))
        BY <2>2, CountsByEnsures DEF CallsInv
      <3>2. /\ frames[t] \in Seq(Calls) /\ frames[t] # <<>>
            /\ Top(t) = frames[t][Len(frames[t])]
        BY <2>1 DEF Top, CallsInv
      <3>3. SubSeq(frames[t], 1, Len(frames[t]) - 1) \in Seq(Calls)
        BY <3>2, FrontFacts
      <3>4. Cardinality(Ensures(frames[t])) =
            Cardinality(Ensures(SubSeq(frames[t], 1, Len(frames[t]) - 1))) + One(Top(t))
        BY <3>2, PopEnsures
      <3>5. Cardinality(Ensures(SubSeq(frames[t], 1, Len(frames[t]) - 1))) \in Nat
        BY <3>3, PushEnsures DEF Calls, Released
      <3>6. One(Top(t)) = 1 /\ counter'[t] = counter[t] - 1
        BY <2>1 DEF One, CallsInv
      <3> QED
        BY <3>1, <3>4, <3>5, <3>6
    <2>4. /\ UNCHANGED <<life, attached>>
          /\ IF Top(t) = "ensured" THEN SaveThread
             ELSE fatal' = FALSE /\ UNCHANGED <<locked, waiting, current>>
      BY <1>8, <2>2, <2>3 DEF EnsureReleased, lock
    <2>5. CASE Top(t) = "ensured"
      BY <1>1, <2>1, <2>2, <2>4, <2>5, UnderFacts
         DEF SaveThread, Release, Holding, NativeCode
    <2>6. CASE Top(t) = "nested"
      <3>1. Top(t) \in Holding /\ Under(Top(t)) \subseteq Holding \ {"clear"}
        BY <2>6, UnderFacts DEF Holding, NativeCode
      <3> QED
        BY <1>2, <2>1, <2>4, <2>6, <3>1 DEF LockInv
    <2> QED
      BY <2>1, <2>5, <2>6
  <1>9. CASE ThreadEnds(t)
    <2>1. CallsInv'
      BY <1>9, EndPreserves
    <2>2. LockInv'
      BY <1>9, SameLock DEF ThreadEnds, lock, LockInv
    <2> QED
      BY <2>1, <2>2
  <1> QED
    BY <1>3, <1>4, <1>5, <1>6, <1>7, <1>8, <1>9 DEF ReturnStep

-----------------------------------------------------------------------------
(* The theorems.                                                           *)

\* The invariant holds at first.
LEMMA InitInv == Init => Inv
  <1> SUFFICES ASSUME Init PROVE Inv
    OBVIOUS
  <1>1. \A t \in Threads : Top(t) = "none" /\ frames[t] = <<>> /\ Ensures(frames[t]) = {}
    BY DEF Init, Top, Ensures
  <1>2. GilstateExact
    <2> SUFFICES ASSUME NEW t \in Threads
                 PROVE  counter[t] = (IF life[t] = "live" THEN 1 ELSE 0)
                                     + Cardinality(Ensures(frames[t]))
      BY CountsByEnsures
    <2>1. Cardinality(Ensures(frames[t])) = 0
      BY <1>1, FS_EmptySet
    <2> QED
      BY <2>1 DEF Init
  <1>3. FramesInv /\ WantInv /\ LifeInv
    BY <1>1 DEF FramesInv, Nested, WantInv, LifeInv, Init
  <1>4. LockInv
    BY <1>1 DEF Init, LockInv, GilExclusive, Holds, Holding, NativeCode, Threads
  <1>5. CallsInv
    BY <1>2, <1>3 DEF CallsInv, Init, Wants
  <1> QED
    BY <1>4, <1>5 DEF Inv

\* No step breaks it.
LEMMA NextInv == Disciplined /\ Inv /\ [Next]_vars => Inv'
  <1> SUFFICES ASSUME Disciplined, Inv, [Next]_vars PROVE Inv'
    OBVIOUS
  <1>1. CASE Next
    BY <1>1, LockStepPreserves, CallStepPreserves, ReturnStepPreserves DEF Next
  <1>2. CASE UNCHANGED vars
    BY <1>2 DEF vars, Inv, CallsInv, LockInv, FramesInv, WantInv, LifeInv,
                GilstateExact, GilExclusive, Holds, Top
  <1> QED
    BY <1>1, <1>2

LEMMA InvHolds == ASSUME Disciplined PROVE Spec => []Inv
  <1>1. Disciplined /\ Inv /\ [Next]_vars => Inv'
    BY NextInv
  <1> QED
    BY <1>1, InitInv, PTL DEF Spec

\* The state keeps its type: in particular, no count becomes negative.
THEOREM LockTypeCorrect == ASSUME Disciplined PROVE Spec => []TypeOK
  <1>1. Inv => TypeOK
    BY DEF Inv, CallsInv, LockInv, TypeOK, Calls, Wants
  <1> QED
    BY <1>1, InvHolds, PTL

\* However calls nest, the GIL excludes and the current thread state is its
\* holder's (JyNI.h 67-91, ceval.c 370-395).
THEOREM GilExcludes == ASSUME Disciplined PROVE Spec => []GilExclusive
  <1>1. Inv => GilExclusive
    BY DEF Inv, LockInv
  <1> QED
    BY <1>1, InvHolds, PTL

\* Py_FatalError is never called because of a thread state.
THEOREM NeverFatal == ASSUME Disciplined PROVE Spec => []NoFatalError
  <1>1. Inv => NoFatalError
    BY DEF Inv, LockInv, NoFatalError
  <1> QED
    BY <1>1, InvHolds, PTL

\* A thread waits for a lock that it holds only in Java code that native code
\* called with the GIL, in a method with ENTER_JyNI (funcobject.c 640).
THEOREM OnlyDelegates == ASSUME Disciplined PROVE Spec => []OnlyDelegatesDeadlock
  <1>1. Inv => OnlyDelegatesDeadlock
    <2> SUFFICES ASSUME Inv, NEW t \in Threads, want[t] # "no", Holds(t)
                 PROVE  want[t] = "enter" /\ Top(t) = "delegate"
      BY DEF OnlyDelegatesDeadlock, WaitsForItself
    <2>1. want[t] \in {"enter", "reenter", "clear", "ensured", "block", "resume"}
      BY DEF Inv, CallsInv, Wants
    <2>2. Top(t) \in WantedUnder(want[t])
      BY InsideFacts
    <2>3. Top(t) \notin {"none", "callback", "allow"}
      BY DEF Holds, Holding, NativeCode
    <2> QED
      BY <2>1, <2>2, <2>3, UnderFacts
  <1> QED
    BY <1>1, InvHolds, PTL

\* A thread state counts its JyTState and the open calls of PyGILState_Ensure.
THEOREM GilstateCounts == ASSUME Disciplined PROVE Spec => []GilstateExact
  <1>1. Inv => GilstateExact
    BY DEF Inv, CallsInv
  <1> QED
    BY <1>1, InvHolds, PTL

\* A thread is left waiting only for a lock that is taken, whatever
\* destructors do (JyLock.java 70-77).
THEOREM WakeupsReach == Spec => []NoLostWakeup
  <1>1. Init => NoLostWakeup
    BY DEF Init, NoLostWakeup
  <1>2. NoLostWakeup /\ [Next]_vars => NoLostWakeup'
    <2> SUFFICES ASSUME NoLostWakeup, [Next]_vars PROVE NoLostWakeup'
      OBVIOUS
    <2> USE DEF NoLostWakeup
    <2>1. CASE UNCHANGED vars
      BY <2>1 DEF vars
    <2>2. ASSUME NEW t \in Threads, LockStep(t) PROVE NoLostWakeup'
      BY <2>2 DEF LockStep, AcquireWaits, Interrupt, Enter, ClearPyCPeer, EndAllow,
                  BlockThreads, Ensured, RestoreThread, Acquire
    <2>3. ASSUME NEW t \in Threads, CallStep(t) PROVE NoLostWakeup'
      BY <2>3 DEF CallStep, CallEnter, CallReEnter, CallClear, CallDelegate,
                  CallFunction, BeginAllow, WantBack, Ensure, SaveThread, Release, lock
    <2>4. ASSUME NEW t \in Threads, ReturnStep(t) PROVE NoLostWakeup'
      BY <2>4 DEF ReturnStep, Leave, ReLeave, ClearReturns, JavaReturns, UnblockThreads,
                  EnsureReleased, ThreadEnds, SaveThread, Release, lock
    <2> QED
      BY <2>1, <2>2, <2>3, <2>4 DEF Next
  <1> QED
    BY <1>1, <1>2, PTL DEF Spec
=============================================================================
