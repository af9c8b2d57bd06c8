--------------------------- MODULE ListSortProofs ---------------------------
(***************************************************************************)
(* Proofs about ListSort, for lists of any length and any comparison.      *)
(***************************************************************************)
EXTENDS ListSort, SequenceTheorems, WellFoundedInduction, TLAPS

-----------------------------------------------------------------------------
(* Loops.  The searches are loops over a pair of positions: a function     *)
(* that is defined by a loop exists if a measure decreases, and its value  *)
(* is in a set if the loop keeps its invariant and ends there.             *)

LEMMA LeastNumber ==
    ASSUME NEW T \in SUBSET Nat, T # {}
    PROVE  \E n \in T : \A m \in T : n <= m
  <1> DEFINE R == OpToRel(<, Nat)
  <1>1. \A m, n \in Nat : <<m, n>> \in R <=> m < n
    BY DEF OpToRel
  <1>2. IsWellFoundedOn(R, Nat)
    BY NatLessThanWellFounded
  <1> HIDE DEF R
  <1>3. PICK n \in T : \A m \in T : ~ (<<m, n>> \in R)
    BY <1>2, WFMin
  <1>4. \A m \in T : ~(m < n)
    BY <1>1, <1>3
  <1>5. QED
    BY <1>4

Loop(f, D, done, result, next) ==
    f = [p \in D |-> IF p \in done THEN result[p] ELSE f[next[p]]]

Terminates(D, done, next, measure, bound) ==
    /\ bound \in Nat
    /\ \A p \in D : measure[p] \in 0 .. bound
    /\ \A p \in D \ done : next[p] \in D /\ measure[next[p]] < measure[p]

LEMMA LoopExists ==
    ASSUME NEW D, NEW done, NEW result, NEW next, NEW measure, NEW bound,
           Terminates(D, done, next, measure, bound)
    PROVE  \E f : Loop(f, D, done, result, next)
  <1> USE DEF Loop, Terminates
  <1> DEFINE Below(n) == {p \in D : measure[p] <= n}
             Solves(f, n) ==
                 f = [p \in Below(n) |-> IF p \in done THEN result[p] ELSE f[next[p]]]
             Unsolved == {n \in Nat : ~ \E f : Solves(f, n)}
  <1>1. ASSUME Unsolved # {} PROVE FALSE
    <2>1. PICK n \in Unsolved : \A m \in Unsolved : n <= m
      BY <1>1, LeastNumber
    <2>2. CASE n = 0
      <3> DEFINE f == [p \in Below(0) |-> result[p]]
      <3>1. \A p \in Below(0) : p \in done
        OBVIOUS
      <3>2. Solves(f, 0)
        BY <3>1
      <3>3. QED
        BY <2>1, <2>2, <3>2
    <2>3. CASE n # 0
      <3>1. n - 1 \in Nat /\ n - 1 \notin Unsolved
        BY <2>1, <2>3
      <3>2. PICK f : Solves(f, n - 1)
        BY <3>1
      <3> DEFINE g == [p \in Below(n) |-> IF p \in done THEN result[p] ELSE f[next[p]]]
      <3>3. \A p \in Below(n) \ done : next[p] \in Below(n - 1)
        BY <2>1
      <3>4. \A q \in Below(n - 1) : q \in Below(n) /\ g[q] = f[q]
        BY <2>1, <3>2
      <3>5. \A p \in Below(n) \ done : f[next[p]] = g[next[p]]
        BY <3>3, <3>4
      <3> HIDE DEF Below
      <3>6. Solves(g, n)
        BY <3>5
      <3>7. QED
        BY <2>1, <3>6
    <2>4. QED
      BY <2>2, <2>3
  <1>2. PICK f : Solves(f, bound)
    BY <1>1
  <1>3. Below(bound) = D
    OBVIOUS
  <1>4. QED
    BY <1>2, <1>3

Delivers(Kept, done, result, next, Good) ==
    /\ \A p \in Kept \ done : next[p] \in Kept
    /\ \A p \in Kept \cap done : result[p] \in Good

LEMMA LoopEnds ==
    ASSUME NEW D, NEW done, NEW result, NEW next, NEW measure, NEW bound,
           Terminates(D, done, next, measure, bound),
           NEW f, Loop(f, D, done, result, next),
           NEW Kept \in SUBSET D, NEW Good,
           Delivers(Kept, done, result, next, Good)
    PROVE  \A p \in Kept : f[p] \in Good
  <1> USE DEF Loop, Terminates, Delivers
  <1> DEFINE Bad == {p \in Kept : f[p] \notin Good}
             Measures == {measure[p] : p \in Bad}
  <1>1. ASSUME Bad # {} PROVE FALSE
    <2>1. Measures # {} /\ Measures \in SUBSET Nat
      <3>1. \A p \in Bad : measure[p] \in Nat
        BY DEF Bad
      <3> HIDE DEF Bad
      <3>2. QED
        BY <1>1, <3>1
    <2>2. PICK n \in Measures : \A m \in Measures : n <= m
      BY <2>1, LeastNumber
    <2>3. PICK p \in Bad : measure[p] = n
      BY <2>2
    <2>4. p \notin done
      BY <2>3
    <2>5. next[p] \in Kept /\ f[p] = f[next[p]] /\ measure[next[p]] < n
      BY <2>3, <2>4
    <2>6. next[p] \in Bad /\ measure[next[p]] \in Measures
      BY <2>3, <2>5
    <2>7. measure[next[p]] < n /\ n <= measure[next[p]]
      BY <2>2, <2>5, <2>6
    <2>8. n \in Nat /\ measure[next[p]] \in Nat
      BY <2>1, <2>2, <2>6
    <2> HIDE DEF Bad, Measures
    <2>9. QED
      BY <2>7, <2>8
  <1>2. QED
    BY <1>1

-----------------------------------------------------------------------------
(* The loops of the sort.                                                  *)

\* Bisection ends where a test that held, or the lower end, is followed by one
\* that fails, or by the upper end.
LEMMA BisectFinds ==
    ASSUME NEW r \in Nat, NEW l \in 0 .. r, NEW holds
    PROVE  LET k == Bisect(l, r, holds)
           IN  k \in l .. r /\ (k = l \/ k - 1 \in holds) /\ (k = r \/ k \notin holds)
  <1> DEFINE D == (0 .. r) \X (0 .. r)
             Mid(p) == p[1] + (p[2] - p[1]) \div 2
             done == {p \in D : p[1] >= p[2]}
             result == [p \in D |-> p[1]]
             next == [p \in D |-> IF Mid(p) \in holds THEN <<Mid(p) + 1, p[2]>>
                                                       ELSE <<p[1], Mid(p)>>]
             measure == [p \in D |-> IF p[1] >= p[2] THEN 0 ELSE p[2] - p[1]]
             Kept == {p \in D : /\ l <= p[1] /\ p[1] <= p[2]
                                /\ p[1] = l \/ p[1] - 1 \in holds
                                /\ p[2] = r \/ p[2] \notin holds}
             Good == {k \in l .. r : (k = l \/ k - 1 \in holds) /\ (k = r \/ k \notin holds)}
             Search(f) == f = [p \in D |->
                           LET mid == p[1] + (p[2] - p[1]) \div 2
                           IN  IF p[1] >= p[2] THEN p[1]
                               ELSE IF mid \in holds THEN f[<<mid + 1, p[2]>>]
                                                     ELSE f[<<p[1], mid>>]]
             search == CHOOSE f : Search(f)
  <1>1. Bisect(l, r, holds) = search[<<l, r>>]
    BY DEF Bisect
  <1>2. \A f : Search(f) <=> Loop(f, D, done, result, next)
    <2> SUFFICES ASSUME NEW f PROVE Search(f) <=> Loop(f, D, done, result, next)
      OBVIOUS
    <2>1. \A p \in D : (LET mid == p[1] + (p[2] - p[1]) \div 2
                        IN  IF p[1] >= p[2] THEN p[1]
                            ELSE IF mid \in holds THEN f[<<mid + 1, p[2]>>]
                                                  ELSE f[<<p[1], mid>>])
                       = IF p \in done THEN result[p] ELSE f[next[p]]
      OBVIOUS
    <2>2. QED
      BY <2>1 DEF Loop
  <1>3. \A p \in D : measure[p] \in 0 .. r
    OBVIOUS
  <1>4. ASSUME NEW p \in D \ done
        PROVE  next[p] \in D /\ measure[next[p]] < measure[p] /\ (p \in Kept => next[p] \in Kept)
    <2>1. /\ p = <<p[1], p[2]>> /\ p[1] \in 0 .. r /\ p[2] \in 0 .. r /\ p[1] < p[2]
          /\ Mid(p) \in p[1] .. p[2] - 1
      OBVIOUS
    <2>2. CASE Mid(p) \in holds
      <3>1. next[p] = <<Mid(p) + 1, p[2]>>
        BY <2>2
      <3> HIDE DEF Mid
      <3>2. (Mid(p) + 1) - 1 \in holds
        BY <2>1, <2>2
      <3>3. QED
        BY <2>1, <3>1, <3>2
    <2>3. CASE Mid(p) \notin holds
      <3>1. next[p] = <<p[1], Mid(p)>>
        BY <2>3
      <3> HIDE DEF Mid
      <3>2. QED
        BY <2>1, <2>3, <3>1
    <2>4. QED
      BY <2>2, <2>3
  <1>5. \A p \in Kept \cap done : result[p] \in Good
    OBVIOUS
  <1>6. <<l, r>> \in Kept /\ Kept \in SUBSET D
    OBVIOUS
  <1> HIDE DEF D, done, result, next, measure, Kept
  <1>7. Terminates(D, done, next, measure, r)
    BY <1>3, <1>4 DEF Terminates
  <1>8. Delivers(Kept, done, result, next, Good)
    BY <1>4, <1>5, <1>6 DEF Delivers
  <1> HIDE DEF Search
  <1>9. Loop(search, D, done, result, next)
    BY <1>2, <1>7, LoopExists
  <1> HIDE DEF search, Good
  <1>10. \A p \in Kept : search[p] \in Good
    BY <1>6, <1>7, <1>8, <1>9, LoopEnds
  <1>11. QED
    BY <1>1, <1>6, <1>10 DEF Good

\* Galloping brackets the position: below it a test that held, or the start;
\* above it one that fails, or the end.
LEMMA GallopBrackets ==
    ASSUME NEW maxofs \in Nat \ {0}, NEW holds
    PROVE  LET p == Gallop(maxofs, holds)
           IN  /\ p[1] \in 0 .. maxofs - 1 /\ p[2] \in p[1] + 1 .. maxofs
               /\ p[1] = 0 \/ p[1] \in holds
               /\ p[2] = maxofs \/ p[2] \notin holds
  <1> DEFINE D == (0 .. maxofs) \X (1 .. 2 * maxofs + 1)
             done == {p \in D : ~(p[2] < maxofs /\ p[2] \in holds)}
             result == [p \in D |-> <<p[1], IF p[2] > maxofs THEN maxofs ELSE p[2]>>]
             next == [p \in D |-> <<p[2], 2 * p[2] + 1>>]
             measure == [p \in D |-> IF p[2] > maxofs THEN 0 ELSE maxofs - p[2]]
             Kept == {p \in D : /\ p[1] < p[2] /\ p[1] < maxofs
                                /\ p[1] = 0 \/ p[1] \in holds}
             Good == {p \in (0 .. maxofs) \X (0 .. maxofs) :
                         /\ p[1] < p[2]
                         /\ p[1] = 0 \/ p[1] \in holds
                         /\ p[2] = maxofs \/ p[2] \notin holds}
             Search(f) == f = [p \in D |->
                           IF p[2] < maxofs /\ p[2] \in holds
                           THEN f[<<p[2], 2 * p[2] + 1>>]
                           ELSE <<p[1], IF p[2] > maxofs THEN maxofs ELSE p[2]>>]
             step == CHOOSE f : Search(f)
  <1>1. Gallop(maxofs, holds) = step[<<0, 1>>]
    BY DEF Gallop
  <1>2. \A f : Search(f) <=> Loop(f, D, done, result, next)
    <2> SUFFICES ASSUME NEW f PROVE Search(f) <=> Loop(f, D, done, result, next)
      OBVIOUS
    <2>1. \A p \in D : (IF p[2] < maxofs /\ p[2] \in holds
                        THEN f[<<p[2], 2 * p[2] + 1>>]
                        ELSE <<p[1], IF p[2] > maxofs THEN maxofs ELSE p[2]>>)
                       = IF p \in done THEN result[p] ELSE f[next[p]]
      OBVIOUS
    <2>2. QED
      BY <2>1 DEF Loop
  <1>3. \A p \in D : measure[p] \in 0 .. maxofs
    OBVIOUS
  <1>4. ASSUME NEW p \in D \ done
        PROVE  next[p] \in D /\ measure[next[p]] < measure[p] /\ (p \in Kept => next[p] \in Kept)
    <2>1. /\ p[1] \in 0 .. maxofs /\ p[2] \in 1 .. maxofs - 1 /\ p[2] \in holds
          /\ next[p] = <<p[2], 2 * p[2] + 1>>
      OBVIOUS
    <2>2. next[p] \in D
      BY <2>1
    <2>3. measure[p] = maxofs - p[2]
          /\ measure[next[p]] = IF 2 * p[2] + 1 > maxofs THEN 0 ELSE maxofs - (2 * p[2] + 1)
      BY <2>1, <2>2
    <2>4. QED
      BY <2>1, <2>2, <2>3
  <1>5. \A p \in Kept \cap done : result[p] \in Good
    <2> SUFFICES ASSUME NEW p \in Kept, p \in done PROVE result[p] \in Good
      OBVIOUS
    <2>1. p[1] \in 0 .. maxofs - 1 /\ p[2] \in p[1] + 1 .. 2 * maxofs + 1
      OBVIOUS
    <2>2. CASE p[2] > maxofs
      BY <2>1, <2>2
    <2>3. CASE ~(p[2] > maxofs)
      BY <2>1, <2>3
    <2>4. QED
      BY <2>2, <2>3
  <1>6. <<0, 1>> \in Kept /\ Kept \in SUBSET D
    OBVIOUS
  <1> HIDE DEF D, done, result, next, measure, Kept
  <1>7. Terminates(D, done, next, measure, maxofs)
    BY <1>3, <1>4 DEF Terminates
  <1>8. Delivers(Kept, done, result, next, Good)
    BY <1>4, <1>5, <1>6 DEF Delivers
  <1> HIDE DEF Search
  <1>9. Loop(step, D, done, result, next)
    BY <1>2, <1>7, LoopExists
  <1> HIDE DEF step, Good
  <1>10. \A p \in Kept : step[p] \in Good
    BY <1>6, <1>7, <1>8, <1>9, LoopEnds
  <1>11. QED
    BY <1>1, <1>6, <1>10 DEF Good

\* A search finds the end of what is before the key, if there is one end.
LEMMA GallopFinds ==
    ASSUME NEW n \in Nat, NEW hint \in 0 .. n - 1, NEW before
    PROVE  LET k == GallopWith(n, hint, before)
           IN  k \in 0 .. n /\ (k = 0 \/ k - 1 \in before) /\ (k = n \/ k \notin before)
  <1>1. CASE hint \in before
    <2> DEFINE holds == {d \in 1 .. n : hint + d \in before}
               p == Gallop(n - hint, holds)
               k == Bisect(hint + p[1] + 1, hint + p[2], before)
    <2>1. /\ p[1] \in 0 .. (n - hint) - 1 /\ p[2] \in p[1] + 1 .. n - hint
          /\ p[1] = 0 \/ p[1] \in holds
          /\ p[2] = n - hint \/ p[2] \notin holds
      <3>1. n - hint \in Nat \ {0}
        OBVIOUS
      <3> HIDE DEF holds
      <3>2. QED
        BY <3>1, GallopBrackets
    <2>2. hint + p[1] \in before /\ (hint + p[2] = n \/ hint + p[2] \notin before)
      BY <1>1, <2>1
    <2> HIDE DEF p
    <2>3. /\ k \in hint + p[1] + 1 .. hint + p[2]
          /\ k = hint + p[1] + 1 \/ k - 1 \in before
          /\ k = hint + p[2] \/ k \notin before
      <3>1. hint + p[2] \in Nat /\ hint + p[1] + 1 \in 0 .. hint + p[2]
        BY <2>1
      <3>2. QED
        BY <3>1, BisectFinds
    <2>4. GallopWith(n, hint, before) = k
      BY <1>1 DEF GallopWith, p
    <2> HIDE DEF k
    <2>5. k \in 0 .. n
      BY <2>1, <2>3
    <2>6. k - 1 \in before
      BY <2>1, <2>2, <2>3
    <2>7. QED
      BY <2>2, <2>3, <2>4, <2>5, <2>6
  <1>2. CASE hint \notin before
    <2> DEFINE holds == {d \in 1 .. n : hint - d \notin before}
               p == Gallop(hint + 1, holds)
               k == Bisect(hint - p[2] + 1, hint - p[1], before)
    <2>1. /\ p[1] \in 0 .. (hint + 1) - 1 /\ p[2] \in p[1] + 1 .. hint + 1
          /\ p[1] = 0 \/ p[1] \in holds
          /\ p[2] = hint + 1 \/ p[2] \notin holds
      <3>1. hint + 1 \in Nat \ {0}
        OBVIOUS
      <3> HIDE DEF holds
      <3>2. QED
        BY <3>1, GallopBrackets
    <2>2. hint - p[1] \notin before /\ (hint - p[2] + 1 = 0 \/ hint - p[2] \in before)
      BY <1>2, <2>1
    <2> HIDE DEF p
    <2>3. /\ k \in hint - p[2] + 1 .. hint - p[1]
          /\ k = hint - p[2] + 1 \/ k - 1 \in before
          /\ k = hint - p[1] \/ k \notin before
      <3>1. hint - p[1] \in Nat /\ hint - p[2] + 1 \in 0 .. hint - p[1]
        BY <2>1
      <3>2. QED
        BY <3>1, BisectFinds
    <2>4. GallopWith(n, hint, before) = k
      BY <1>2 DEF GallopWith, p
    <2> HIDE DEF k
    <2>5. k \in 0 .. n
      BY <2>1, <2>3
    <2>6. k = 0 \/ k - 1 \in before
      BY <2>1, <2>2, <2>3
    <2>7. k \notin before
      BY <2>1, <2>2, <2>3
    <2>8. QED
      BY <2>4, <2>5, <2>6, <2>7
  <1>3. QED
    BY <1>1, <1>2

\* The length below which runs are extended is a number.
LEMMA MinRunTyped ==
    ASSUME NEW n \in Nat
    PROVE  MinRun(n) \in Nat
  <1> DEFINE D == (0 .. n) \X {0, 1}
             done == {p \in D : ~(p[1] >= RunLimit)}
             result == [p \in D |-> p[1] + p[2]]
             next == [p \in D |-> <<p[1] \div 2, IF p[1] % 2 = 1 THEN 1 ELSE p[2]>>]
             measure == [p \in D |-> p[1]]
             Search(f) == f = [p \in D |->
                           IF p[1] >= RunLimit
                           THEN f[<<p[1] \div 2, IF p[1] % 2 = 1 THEN 1 ELSE p[2]>>]
                           ELSE p[1] + p[2]]
             shift == CHOOSE f : Search(f)
  <1>1. MinRun(n) = shift[<<n, 0>>]
    BY DEF MinRun
  <1>2. \A f : Search(f) <=> Loop(f, D, done, result, next)
    <2> SUFFICES ASSUME NEW f PROVE Search(f) <=> Loop(f, D, done, result, next)
      OBVIOUS
    <2>1. \A p \in D : (IF p[1] >= RunLimit
                        THEN f[<<p[1] \div 2, IF p[1] % 2 = 1 THEN 1 ELSE p[2]>>]
                        ELSE p[1] + p[2])
                       = IF p \in done THEN result[p] ELSE f[next[p]]
      OBVIOUS
    <2>2. QED
      BY <2>1 DEF Loop
  <1>3. \A p \in D : measure[p] \in 0 .. n
    OBVIOUS
  <1>4. ASSUME NEW p \in D \ done
        PROVE  next[p] \in D /\ measure[next[p]] < measure[p]
    <2>1. p[1] \in 2 .. n /\ p[2] \in {0, 1}
      BY SortAssumption
    <2>2. p[1] \div 2 \in 0 .. p[1] - 1 /\ next[p][1] = p[1] \div 2 /\ next[p][2] \in {0, 1}
      BY <2>1
    <2>3. next[p] \in D
      BY <2>1
    <2>4. QED
      BY <2>1, <2>2, <2>3
  <1>5. \A p \in D : result[p] \in Nat
    OBVIOUS
  <1>6. <<n, 0>> \in D
    OBVIOUS
  <1> HIDE DEF D, done, result, next, measure
  <1>7. Terminates(D, done, next, measure, n)
    BY <1>3, <1>4 DEF Terminates
  <1>8. Delivers(D, done, result, next, Nat)
    BY <1>4, <1>5 DEF Delivers
  <1> HIDE DEF Search
  <1>9. Loop(shift, D, done, result, next)
    BY <1>2, <1>7, LoopExists
  <1> HIDE DEF shift
  <1>10. \A p \in D : shift[p] \in Nat
    BY <1>7, <1>8, <1>9, LoopEnds
  <1>11. QED
    BY <1>1, <1>6, <1>10 DEF shift
-----------------------------------------------------------------------------
(* Sequences.                                                              *)

LEMMA TakeIs ==
    ASSUME NEW S, NEW s \in Seq(S), NEW k \in 0 .. Len(s)
    PROVE  /\ Take(s, k) \in Seq(S) /\ Len(Take(s, k)) = k
           /\ \A i \in 1 .. k : Take(s, k)[i] = s[i]
  <1>1. Len(s) \in Nat
    BY LenProperties
  <1>2. \A i \in 1 .. k : s[i] \in S
    BY <1>1, ElementOfSeq
  <1>3. QED
    BY <1>1, <1>2, SubSeqProperties DEF Take

LEMMA PartIs ==
    ASSUME NEW S, NEW s \in Seq(S), NEW l \in 0 .. Len(s), NEW r \in l .. Len(s)
    PROVE  /\ SubSeq(s, l + 1, r) \in Seq(S) /\ Len(SubSeq(s, l + 1, r)) = r - l
           /\ \A i \in 1 .. r - l : SubSeq(s, l + 1, r)[i] = s[l + i]
  <1>1. Len(s) \in Nat /\ l \in Nat /\ r \in Nat /\ l <= r
    BY LenProperties
  <1>2. \A i \in l + 1 .. r : s[i] \in S
    BY <1>1, ElementOfSeq
  <1> DEFINE t == SubSeq(s, l + 1, r)
  <1>3. /\ t \in Seq(S) /\ Len(t) = (IF l + 1 <= r THEN r - (l + 1) + 1 ELSE 0)
        /\ \A i \in 1 .. r - (l + 1) + 1 : t[i] = s[l + 1 + i - 1]
    BY <1>1, <1>2, SubSeqProperties
  <1> HIDE DEF t
  <1>4. Len(t) = r - l /\ \A i \in 1 .. r - l : t[i] = s[l + i]
    BY <1>1, <1>3
  <1>5. QED
    BY <1>3, <1>4 DEF t

LEMMA DropIs ==
    ASSUME NEW S, NEW s \in Seq(S), NEW k \in 0 .. Len(s)
    PROVE  /\ Drop(s, k) \in Seq(S) /\ Len(Drop(s, k)) = Len(s) - k
           /\ \A i \in 1 .. Len(s) - k : Drop(s, k)[i] = s[k + i]
  <1>1. Len(s) \in Nat
    BY LenProperties
  <1>2. Len(s) \in k .. Len(s)
    BY <1>1
  <1>3. QED
    BY <1>2, PartIs DEF Drop

LEMMA JoinIs ==
    ASSUME NEW S, NEW s \in Seq(S), NEW t \in Seq(S)
    PROVE  /\ s \o t \in Seq(S) /\ Len(s \o t) = Len(s) + Len(t)
           /\ Len(s) \in Nat /\ Len(t) \in Nat
           /\ \A i \in 1 .. Len(s) : (s \o t)[i] = s[i]
           /\ \A i \in 1 .. Len(t) : (s \o t)[Len(s) + i] = t[i]
  <1>1. Len(s) \in Nat /\ Len(t) \in Nat
    BY LenProperties
  <1> DEFINE u == s \o t
  <1>2. /\ u \in Seq(S) /\ Len(u) = Len(s) + Len(t)
        /\ \A i \in 1 .. Len(s) + Len(t) : u[i] = IF i <= Len(s) THEN s[i] ELSE t[i - Len(s)]
    BY ConcatProperties
  <1> HIDE DEF u
  <1>3. \A i \in 1 .. Len(s) : u[i] = s[i]
    BY <1>1, <1>2
  <1>4. ASSUME NEW i \in 1 .. Len(t) PROVE u[Len(s) + i] = t[i]
    <2>1. Len(s) + i \in 1 .. Len(s) + Len(t) /\ ~(Len(s) + i <= Len(s)) /\ (Len(s) + i) - Len(s) = i
      BY <1>1
    <2>2. QED
      BY <1>2, <2>1
  <1>5. QED
    BY <1>1, <1>2, <1>3, <1>4 DEF u

LEMMA ToSetIs ==
    ASSUME NEW S, NEW s \in Seq(S)
    PROVE  /\ ToSet(s) \in SUBSET S
           /\ \A x : x \in ToSet(s) <=> \E i \in 1 .. Len(s) : x = s[i]
           /\ ToSet(s) = {} <=> Len(s) = 0
  <1>1. DOMAIN s = 1 .. Len(s) /\ Len(s) \in Nat
    BY LenProperties
  <1>2. \A x : x \in ToSet(s) <=> \E i \in 1 .. Len(s) : x = s[i]
    BY <1>1 DEF ToSet
  <1>3. \A i \in 1 .. Len(s) : s[i] \in S
    BY ElementOfSeq
  <1>4. ToSet(s) \in SUBSET S
    BY <1>2, <1>3
  <1>5. ASSUME Len(s) # 0 PROVE s[1] \in ToSet(s)
    <2>1. 1 \in 1 .. Len(s)
      BY <1>1, <1>5
    <2>2. QED
      BY <1>2, <2>1
  <1>6. ASSUME Len(s) = 0 PROVE ToSet(s) = {}
    BY <1>2, <1>6
  <1>7. QED
    BY <1>2, <1>4, <1>5, <1>6

LEMMA JoinSet ==
    ASSUME NEW S, NEW s \in Seq(S), NEW t \in Seq(S)
    PROVE  ToSet(s \o t) = ToSet(s) \cup ToSet(t)
  <1> DEFINE u == s \o t
  <1>1. /\ u \in Seq(S) /\ Len(u) = Len(s) + Len(t) /\ Len(s) \in Nat /\ Len(t) \in Nat
        /\ \A i \in 1 .. Len(s) : u[i] = s[i]
        /\ \A i \in 1 .. Len(t) : u[Len(s) + i] = t[i]
    BY JoinIs
  <1> HIDE DEF u
  <1>2. /\ \A x : x \in ToSet(s) <=> \E i \in 1 .. Len(s) : x = s[i]
        /\ \A x : x \in ToSet(t) <=> \E i \in 1 .. Len(t) : x = t[i]
        /\ \A x : x \in ToSet(u) <=> \E i \in 1 .. Len(u) : x = u[i]
    BY <1>1, ToSetIs
  <1>3. ASSUME NEW x \in ToSet(u) PROVE x \in ToSet(s) \cup ToSet(t)
    <2>1. PICK i \in 1 .. Len(u) : x = u[i]
      BY <1>2
    <2>2. CASE i <= Len(s)
      <3>1. i \in 1 .. Len(s)
        BY <1>1, <2>2
      <3>2. QED
        BY <1>1, <1>2, <2>1, <3>1
    <2>3. CASE ~(i <= Len(s))
      <3>1. i - Len(s) \in 1 .. Len(t) /\ Len(s) + (i - Len(s)) = i
        BY <1>1, <2>3
      <3>2. x = t[i - Len(s)]
        BY <1>1, <2>1, <3>1
      <3>3. QED
        BY <1>2, <3>1, <3>2
    <2>4. QED
      BY <2>2, <2>3
  <1>4. ASSUME NEW x \in ToSet(s) PROVE x \in ToSet(u)
    <2>1. PICK i \in 1 .. Len(s) : x = s[i]
      BY <1>2
    <2>2. i \in 1 .. Len(u)
      BY <1>1
    <2>3. QED
      BY <1>1, <1>2, <2>1, <2>2
  <1>5. ASSUME NEW x \in ToSet(t) PROVE x \in ToSet(u)
    <2>1. PICK i \in 1 .. Len(t) : x = t[i]
      BY <1>2
    <2>2. Len(s) + i \in 1 .. Len(u)
      BY <1>1
    <2>3. QED
      BY <1>1, <1>2, <2>1, <2>2
  <1>6. QED
    BY <1>3, <1>4, <1>5 DEF u

LEMMA SplitIs ==
    ASSUME NEW S, NEW s \in Seq(S), NEW k \in 0 .. Len(s)
    PROVE  /\ Take(s, k) \o Drop(s, k) = s
           /\ ToSet(s) = ToSet(Take(s, k)) \cup ToSet(Drop(s, k))
  <1> DEFINE t == Take(s, k)
             d == Drop(s, k)
  <1>1. t \in Seq(S) /\ Len(t) = k /\ \A i \in 1 .. k : t[i] = s[i]
    BY TakeIs
  <1>2. d \in Seq(S) /\ Len(d) = Len(s) - k /\ \A i \in 1 .. Len(s) - k : d[i] = s[k + i]
    BY DropIs
  <1>3. Len(s) \in Nat
    BY LenProperties
  <1> HIDE DEF t, d
  <1>4. /\ t \o d \in Seq(S) /\ Len(t \o d) = k + (Len(s) - k)
        /\ \A i \in 1 .. k : (t \o d)[i] = t[i]
        /\ \A i \in 1 .. Len(s) - k : (t \o d)[k + i] = d[i]
    BY <1>1, <1>2, JoinIs
  <1>5. Len(t \o d) = Len(s)
    BY <1>3, <1>4
  <1>6. ASSUME NEW i \in 1 .. Len(s) PROVE (t \o d)[i] = s[i]
    <2>1. CASE i <= k
      <3>1. i \in 1 .. k
        BY <1>3, <2>1
      <3>2. QED
        BY <1>1, <1>4, <3>1
    <2>2. CASE ~(i <= k)
      <3>1. i - k \in 1 .. Len(s) - k /\ k + (i - k) = i
        BY <1>3, <2>2
      <3>2. QED
        BY <1>2, <1>4, <3>1
    <2>3. QED
      BY <2>1, <2>2
  <1>7. t \o d = s
    BY <1>4, <1>5, <1>6, SeqEqual
  <1>8. ToSet(t \o d) = ToSet(t) \cup ToSet(d)
    <2>1. t \in Seq(S) /\ d \in Seq(S)
      BY <1>1, <1>2
    <2>2. QED
      BY <2>1, JoinSet
  <1>9. QED
    BY <1>7, <1>8 DEF t, d

\* The same of sequences of items, for steps that need no more.
LEMMA ItemParts ==
    ASSUME NEW s \in Seq(Item), NEW k \in 0 .. Len(s)
    PROVE  /\ Take(s, k) \in Seq(Item) /\ Len(Take(s, k)) = k
           /\ Drop(s, k) \in Seq(Item) /\ Len(Drop(s, k)) = Len(s) - k
           /\ ToSet(s) = ToSet(Take(s, k)) \cup ToSet(Drop(s, k))
  <1>1. Take(s, k) \in Seq(Item) /\ Len(Take(s, k)) = k
    BY TakeIs
  <1>2. Drop(s, k) \in Seq(Item) /\ Len(Drop(s, k)) = Len(s) - k
    BY DropIs
  <1>3. ToSet(s) = ToSet(Take(s, k)) \cup ToSet(Drop(s, k))
    BY SplitIs
  <1>4. QED
    BY <1>1, <1>2, <1>3

LEMMA ItemsJoin ==
    ASSUME NEW s \in Seq(Item), NEW t \in Seq(Item)
    PROVE  /\ s \o t \in Seq(Item) /\ Len(s \o t) = Len(s) + Len(t)
           /\ ToSet(s \o t) = ToSet(s) \cup ToSet(t)
  <1>1. s \o t \in Seq(Item) /\ Len(s \o t) = Len(s) + Len(t)
    BY JoinIs
  <1>2. ToSet(s \o t) = ToSet(s) \cup ToSet(t)
    BY JoinSet
  <1>3. QED
    BY <1>1, <1>2

LEMMA ReverseIs ==
    ASSUME NEW S, NEW s \in Seq(S)
    PROVE  /\ Reverse(s) \in Seq(S) /\ Len(Reverse(s)) = Len(s)
           /\ \A i \in 1 .. Len(s) : Reverse(s)[i] = s[Len(s) + 1 - i]
           /\ ToSet(Reverse(s)) = ToSet(s)
  <1> DEFINE n == Len(s)
             r == Reverse(s)
  <1>1. n \in Nat /\ \A i \in 1 .. n : s[i] \in S
    BY LenProperties, ElementOfSeq
  <1>2. \A i \in 1 .. n : n + 1 - i \in 1 .. n /\ (n - i) + 1 = n + 1 - i
    BY <1>1
  <1>3. r = [i \in 1 .. n |-> s[(n - i) + 1]]
    BY DEF Reverse
  <1> HIDE DEF n, r
  <1>4. \A i \in 1 .. n : r[i] = s[n + 1 - i]
    BY <1>2, <1>3
  <1>5. r \in Seq(S) /\ Len(r) = n
    <2>1. r \in [1 .. n -> S]
      BY <1>1, <1>2, <1>3
    <2>2. QED
      BY <1>1, <2>1
  <1>6. ToSet(r) = ToSet(s)
    <2>1. /\ \A x : x \in ToSet(s) <=> \E i \in 1 .. n : x = s[i]
          /\ \A x : x \in ToSet(r) <=> \E i \in 1 .. n : x = r[i]
      BY <1>5, ToSetIs DEF n
    <2>2. \A i \in 1 .. n : n + 1 - (n + 1 - i) = i
      BY <1>1
    <2>3. ASSUME NEW i \in 1 .. n PROVE s[i] = r[n + 1 - i]
      BY <1>2, <1>4, <2>2
    <2>4. \A i \in 1 .. n : n + 1 - i \in 1 .. n
      BY <1>1
    <2>5. ASSUME NEW x \in ToSet(r) PROVE x \in ToSet(s)
      <3>1. PICK i \in 1 .. n : x = r[i]
        BY <2>1
      <3>2. QED
        BY <1>4, <2>1, <2>4, <3>1
    <2>6. ASSUME NEW x \in ToSet(s) PROVE x \in ToSet(r)
      <3>1. PICK i \in 1 .. n : x = s[i]
        BY <2>1
      <3>2. QED
        BY <2>1, <2>3, <2>4, <3>1
    <2>7. QED
      BY <2>5, <2>6
  <1>7. QED
    BY <1>4, <1>5, <1>6 DEF n, r
-----------------------------------------------------------------------------
(* What a step leaves of a list.                                           *)

Segment(s, l, r) == {s[i] : i \in l + 1 .. r}

\* t is s but for the order of the items between l and r.
Rearranged(s, t, l, r) ==
    /\ t \in Seq(Item) /\ Len(t) = Len(s)
    /\ \A i \in 1 .. Len(s) : i <= l \/ i > r => t[i] = s[i]
    /\ Segment(t, l, r) = Segment(s, l, r)

LEMMA RearrangedSet ==
    ASSUME NEW s \in Seq(Item), NEW t, NEW l \in 0 .. Len(s), NEW r \in l .. Len(s),
           Rearranged(s, t, l, r)
    PROVE  ToSet(t) = ToSet(s)
  <1>1. t \in Seq(Item) /\ Len(t) = Len(s) /\ Len(s) \in Nat
    BY LenProperties DEF Rearranged
  <1>2. /\ \A x : x \in ToSet(s) <=> \E i \in 1 .. Len(s) : x = s[i]
        /\ \A x : x \in ToSet(t) <=> \E i \in 1 .. Len(s) : x = t[i]
    BY <1>1, ToSetIs
  <1>3. ASSUME NEW i \in 1 .. Len(s) PROVE s[i] \in ToSet(t) /\ t[i] \in ToSet(s)
    <2>1. CASE i <= l \/ i > r
      BY <1>2, <2>1 DEF Rearranged
    <2>2. CASE ~(i <= l \/ i > r)
      <3>1. i \in l + 1 .. r /\ l + 1 .. r \subseteq 1 .. Len(s)
        BY <1>1, <2>2
      <3>2. s[i] \in Segment(t, l, r) /\ t[i] \in Segment(s, l, r)
        BY <3>1 DEF Rearranged, Segment
      <3>3. QED
        BY <1>2, <3>1, <3>2 DEF Segment
    <2>3. QED
      BY <2>1, <2>2
  <1>4. QED
    BY <1>2, <1>3

\* A part is replaced by another with the same items.
LEMMA PartReplaced ==
    ASSUME NEW s \in Seq(Item), NEW l \in 0 .. Len(s), NEW r \in l .. Len(s),
           NEW u \in Seq(Item), Len(u) = r - l, ToSet(u) = Segment(s, l, r)
    PROVE  /\ Rearranged(s, Take(s, l) \o u \o Drop(s, r), l, r)
           /\ \A i \in 1 .. r - l : (Take(s, l) \o u \o Drop(s, r))[l + i] = u[i]
  <1> DEFINE p == Take(s, l)
             d == Drop(s, r)
             v == p \o u
             t == v \o d
  <1>1. Len(s) \in Nat /\ l \in Nat /\ r \in Nat /\ l <= r /\ r <= Len(s)
    BY LenProperties
  <1>2. p \in Seq(Item) /\ Len(p) = l /\ \A i \in 1 .. l : p[i] = s[i]
    BY TakeIs
  <1>3. d \in Seq(Item) /\ Len(d) = Len(s) - r /\ \A i \in 1 .. Len(s) - r : d[i] = s[r + i]
    <2>1. r \in 0 .. Len(s)
      BY <1>1
    <2>2. QED
      BY <2>1, DropIs
  <1> HIDE DEF p, d
  <1>4. /\ v \in Seq(Item) /\ Len(v) = l + (r - l)
        /\ \A i \in 1 .. l : v[i] = p[i]
        /\ \A i \in 1 .. r - l : v[l + i] = u[i]
    <2>1. /\ v \in Seq(Item) /\ Len(v) = Len(p) + Len(u)
          /\ \A i \in 1 .. Len(p) : v[i] = p[i]
          /\ \A i \in 1 .. Len(u) : v[Len(p) + i] = u[i]
      <3>1. p \in Seq(Item)
        BY <1>2
      <3>2. /\ v \in Seq(Item) /\ Len(v) = Len(p) + Len(u)
            /\ \A i \in 1 .. Len(p) : v[i] = p[i]
        BY <3>1, JoinIs
      <3>3. \A i \in 1 .. Len(u) : v[Len(p) + i] = u[i]
        BY <3>1, JoinIs
      <3>4. QED
        BY <3>2, <3>3
    <2> HIDE DEF v
    <2>2. QED
      BY <1>2, <2>1
  <1>5. Len(v) = r
    BY <1>1, <1>4
  <1> HIDE DEF v
  <1>6. /\ t \in Seq(Item) /\ Len(t) = r + (Len(s) - r)
        /\ \A i \in 1 .. r : t[i] = v[i]
        /\ \A i \in 1 .. Len(s) - r : t[r + i] = d[i]
    BY <1>3, <1>4, <1>5, JoinIs
  <1> HIDE DEF t
  <1>7. Len(t) = Len(s)
    BY <1>1, <1>6
  <1>8. ASSUME NEW i \in 1 .. r - l PROVE t[l + i] = u[i]
    <2>1. l + i \in 1 .. r
      BY <1>1
    <2>2. QED
      BY <1>4, <1>6, <2>1
  <1>9. ASSUME NEW i \in 1 .. Len(s), i <= l \/ i > r PROVE t[i] = s[i]
    <2>1. CASE i <= l
      <3>1. i \in 1 .. l /\ i \in 1 .. r
        BY <1>1, <2>1
      <3>2. QED
        BY <1>2, <1>4, <1>6, <3>1
    <2>2. CASE i > r
      <3>1. i - r \in 1 .. Len(s) - r /\ r + (i - r) = i
        BY <1>1, <2>2
      <3>2. QED
        BY <1>3, <1>6, <3>1
    <2>3. QED
      BY <1>9, <2>1, <2>2
  <1>10. Segment(t, l, r) = ToSet(u)
    <2>1. \A x : x \in ToSet(u) <=> \E i \in 1 .. r - l : x = u[i]
      BY ToSetIs
    <2>2. \A x : x \in Segment(t, l, r) <=> \E j \in l + 1 .. r : x = t[j]
      BY DEF Segment
    <2>3. \A j \in l + 1 .. r : j - l \in 1 .. r - l /\ l + (j - l) = j
      BY <1>1
    <2>4. \A i \in 1 .. r - l : l + i \in l + 1 .. r
      BY <1>1
    <2>5. ASSUME NEW j \in l + 1 .. r PROVE t[j] = u[j - l]
      BY <1>8, <2>3
    <2>6. ASSUME NEW x \in Segment(t, l, r) PROVE x \in ToSet(u)
      <3>1. PICK j \in l + 1 .. r : x = t[j]
        BY <2>2
      <3>2. QED
        BY <2>1, <2>3, <2>5, <3>1
    <2>7. ASSUME NEW x \in ToSet(u) PROVE x \in Segment(t, l, r)
      <3>1. PICK i \in 1 .. r - l : x = u[i]
        BY <2>1
      <3>2. t[l + i] = u[i]
        BY <1>8
      <3>3. QED
        BY <2>2, <2>4, <3>1, <3>2
    <2>8. QED
      BY <2>6, <2>7
  <1>11. QED
    BY <1>6, <1>7, <1>8, <1>9, <1>10 DEF Rearranged, t, v, p, d

\* The items of a part.
LEMMA PartSet ==
    ASSUME NEW s \in Seq(Item), NEW l \in 0 .. Len(s), NEW r \in l .. Len(s)
    PROVE  ToSet(SubSeq(s, l + 1, r)) = Segment(s, l, r)
  <1> DEFINE t == SubSeq(s, l + 1, r)
  <1>1. t \in Seq(Item) /\ Len(t) = r - l /\ \A i \in 1 .. r - l : t[i] = s[l + i]
    BY PartIs
  <1> HIDE DEF t
  <1>2. \A x : x \in ToSet(t) <=> \E i \in 1 .. r - l : x = t[i]
    BY <1>1, ToSetIs
  <1>3. \A x : x \in Segment(s, l, r) <=> \E j \in l + 1 .. r : x = s[j]
    BY DEF Segment
  <1>4. Len(s) \in Nat
    BY LenProperties
  <1>5. \A j \in l + 1 .. r : j - l \in 1 .. r - l /\ l + (j - l) = j
    BY <1>4
  <1>6. \A i \in 1 .. r - l : l + i \in l + 1 .. r
    BY <1>4
  <1>7. ASSUME NEW j \in l + 1 .. r PROVE s[j] = t[j - l]
    BY <1>1, <1>5
  <1> HIDE DEF t
  <1>8. ASSUME NEW x \in Segment(s, l, r) PROVE x \in ToSet(t)
    <2>1. PICK j \in l + 1 .. r : x = s[j]
      BY <1>3
    <2>2. QED
      BY <1>1, <1>2, <1>5, <1>7, <2>1
  <1>9. ASSUME NEW x \in ToSet(t) PROVE x \in Segment(s, l, r)
    <2>1. PICK i \in 1 .. r - l : x = t[i]
      BY <1>1, <1>2
    <2>2. QED
      BY <1>1, <1>3, <1>6, <2>1
  <1>10. QED
    BY <1>8, <1>9 DEF t

\* Two adjacent parts.
LEMMA PartsSet ==
    ASSUME NEW s, NEW l \in Nat, NEW k \in Nat, NEW r \in Nat, l <= k, k <= r
    PROVE  Segment(s, l, r) = Segment(s, l, k) \cup Segment(s, k, r)
  <1>1. l + 1 .. r = (l + 1 .. k) \cup (k + 1 .. r)
    OBVIOUS
  <1>2. QED
    BY <1>1 DEF Segment

-----------------------------------------------------------------------------
(* Merges.                                                                 *)

Total(m) == Len(m.a) + Len(m.b) + Len(m.out)
Items(m) == ToSet(m.a) \cup ToSet(m.b) \cup ToSet(m.out)

LEMMA MergeLengths ==
    ASSUME NEW m \in Merge
    PROVE  /\ m.a \in Seq(Item) /\ m.b \in Seq(Item) /\ m.out \in Seq(Item)
           /\ Len(m.a) \in Nat /\ Len(m.b) \in Nat /\ Len(m.out) \in Nat
           /\ m.base \in Nat /\ Total(m) \in Nat
           /\ m.a = << >> <=> Len(m.a) = 0
           /\ m.b = << >> <=> Len(m.b) = 0
           /\ m.out = << >> <=> Len(m.out) = 0
  <1>1. m.a \in Seq(Item) /\ m.b \in Seq(Item) /\ m.out \in Seq(Item) /\ m.base \in Nat
    BY DEF Merge
  <1>2. Len(m.a) \in Nat /\ Len(m.b) \in Nat /\ Len(m.out) \in Nat
    BY <1>1, LenProperties
  <1>3. \A s \in Seq(Item) : s = << >> <=> Len(s) = 0
    BY EmptySeq
  <1>4. Total(m) \in Nat
    <2> DEFINE x == Len(m.a)
               y == Len(m.b)
               z == Len(m.out)
    <2>1. x \in Nat /\ y \in Nat /\ z \in Nat /\ Total(m) = x + y + z
      BY <1>2 DEF Total
    <2> HIDE DEF x, y, z
    <2>2. QED
      BY <2>1
  <1>5. QED
    BY <1>1, <1>2, <1>3, <1>4

\* Moving k items leaves the total.
LEMMA TotalKept ==
    ASSUME NEW m, NEW n, NEW k \in Nat,
           Len(m.a) \in Nat, Len(m.b) \in Nat, Len(m.out) \in Nat,
           Len(n.out) = Len(m.out) + k,
           \/ Len(n.a) = Len(m.a) - k /\ Len(n.b) = Len(m.b)
           \/ Len(n.a) = Len(m.a) /\ Len(n.b) = Len(m.b) - k
    PROVE  Total(n) = Total(m)
  <1> DEFINE x == Len(m.a)
             y == Len(m.b)
             z == Len(m.out)
  <1>1. x \in Nat /\ y \in Nat /\ z \in Nat /\ Total(m) = x + y + z
    BY DEF Total
  <1>2. \/ Total(n) = (x - k) + y + (z + k)
        \/ Total(n) = x + (y - k) + (z + k)
    BY DEF Total
  <1> HIDE DEF x, y, z
  <1>3. QED
    BY <1>1, <1>2

\* Moving items changes neither which items take part nor how many.
LEMMA MoveAIs ==
    ASSUME NEW m \in Merge, NEW k \in 0 .. Len(m.a)
    PROVE  LET n == MoveA(m, k)
           IN  /\ n \in Merge
               /\ n.dir = m.dir /\ n.base = m.base /\ n.mode = m.mode
               /\ n.acount = m.acount /\ n.bcount = m.bcount /\ n.b = m.b
               /\ Len(n.a) = Len(m.a) - k /\ Len(n.out) = Len(m.out) + k
               /\ Total(n) = Total(m) /\ Items(n) = Items(m)
               /\ m.dir = "lo" => n.a = Drop(m.a, k) /\ n.out = m.out \o Take(m.a, k)
               /\ m.dir = "hi" => /\ n.a = Take(m.a, Len(m.a) - k)
                                  /\ n.out = Drop(m.a, Len(m.a) - k) \o m.out
  <1> DEFINE n == MoveA(m, k)
  <1>1. /\ m.a \in Seq(Item) /\ m.b \in Seq(Item) /\ m.out \in Seq(Item)
        /\ Len(m.a) \in Nat /\ Len(m.b) \in Nat /\ Len(m.out) \in Nat
    BY MergeLengths
  <1>2. CASE m.dir = "lo"
    <2>1. /\ Take(m.a, k) \in Seq(Item) /\ Len(Take(m.a, k)) = k
          /\ Drop(m.a, k) \in Seq(Item) /\ Len(Drop(m.a, k)) = Len(m.a) - k
          /\ ToSet(m.a) = ToSet(Take(m.a, k)) \cup ToSet(Drop(m.a, k))
      BY <1>1, ItemParts
    <2>2. /\ m.out \o Take(m.a, k) \in Seq(Item)
          /\ Len(m.out \o Take(m.a, k)) = Len(m.out) + k
          /\ ToSet(m.out \o Take(m.a, k)) = ToSet(m.out) \cup ToSet(Take(m.a, k))
      <3>1. /\ m.out \o Take(m.a, k) \in Seq(Item)
            /\ Len(m.out \o Take(m.a, k)) = Len(m.out) + Len(Take(m.a, k))
            /\ ToSet(m.out \o Take(m.a, k)) = ToSet(m.out) \cup ToSet(Take(m.a, k))
        BY <1>1, <2>1, ItemsJoin
      <3>2. QED
        BY <2>1, <3>1
    <2>3. n = [m EXCEPT !.a = Drop(m.a, k), !.out = m.out \o Take(m.a, k)]
      BY <1>2 DEF MoveA
    <2>4. /\ n \in Merge /\ n.a = Drop(m.a, k) /\ n.out = m.out \o Take(m.a, k) /\ n.b = m.b
          /\ n.dir = m.dir /\ n.base = m.base /\ n.mode = m.mode
          /\ n.acount = m.acount /\ n.bcount = m.bcount
      BY <2>1, <2>2, <2>3 DEF Merge
    <2> HIDE DEF n
    <2>9. k \in Nat
      BY <1>1
    <2>5. Len(n.a) = Len(m.a) - k /\ Len(n.out) = Len(m.out) + k /\ Len(n.b) = Len(m.b)
      BY <2>1, <2>2, <2>4
    <2>6. Total(n) = Total(m)
      BY <1>1, <2>5, <2>9, TotalKept
    <2>7. Items(n) = Items(m)
      BY <2>1, <2>2, <2>4 DEF Items
    <2>8. QED
      BY <1>2, <2>4, <2>5, <2>6, <2>7 DEF n
  <1>3. CASE m.dir = "hi"
    <2> DEFINE j == Len(m.a) - k
    <2>0. j \in 0 .. Len(m.a) /\ Len(m.a) - j = k /\ j = Len(m.a) - k
      BY <1>1
    <2> HIDE DEF j
    <2>1. /\ Take(m.a, j) \in Seq(Item) /\ Len(Take(m.a, j)) = j
          /\ Drop(m.a, j) \in Seq(Item) /\ Len(Drop(m.a, j)) = k
          /\ ToSet(m.a) = ToSet(Take(m.a, j)) \cup ToSet(Drop(m.a, j))
      <3>1. /\ Take(m.a, j) \in Seq(Item) /\ Len(Take(m.a, j)) = j
            /\ Drop(m.a, j) \in Seq(Item) /\ Len(Drop(m.a, j)) = Len(m.a) - j
            /\ ToSet(m.a) = ToSet(Take(m.a, j)) \cup ToSet(Drop(m.a, j))
        BY <1>1, <2>0, ItemParts
      <3>2. QED
        BY <2>0, <3>1
    <2>2. /\ Drop(m.a, j) \o m.out \in Seq(Item)
          /\ Len(Drop(m.a, j) \o m.out) = Len(m.out) + k
          /\ ToSet(Drop(m.a, j) \o m.out) = ToSet(Drop(m.a, j)) \cup ToSet(m.out)
      <3>1. /\ Drop(m.a, j) \o m.out \in Seq(Item)
            /\ Len(Drop(m.a, j) \o m.out) = Len(Drop(m.a, j)) + Len(m.out)
            /\ ToSet(Drop(m.a, j) \o m.out) = ToSet(Drop(m.a, j)) \cup ToSet(m.out)
        BY <1>1, <2>1, ItemsJoin
      <3>2. QED
        BY <2>1, <3>1
    <2>3. n = [m EXCEPT !.a = Take(m.a, j), !.out = Drop(m.a, j) \o m.out]
      BY <1>3 DEF MoveA, j
    <2>4. /\ n \in Merge /\ n.a = Take(m.a, j) /\ n.out = Drop(m.a, j) \o m.out /\ n.b = m.b
          /\ n.dir = m.dir /\ n.base = m.base /\ n.mode = m.mode
          /\ n.acount = m.acount /\ n.bcount = m.bcount
      BY <2>1, <2>2, <2>3 DEF Merge
    <2> HIDE DEF n
    <2>9. k \in Nat
      BY <1>1
    <2>5. Len(n.a) = Len(m.a) - k /\ Len(n.out) = Len(m.out) + k /\ Len(n.b) = Len(m.b)
      BY <1>1, <2>0, <2>1, <2>2, <2>4, <2>9
    <2>6. Total(n) = Total(m)
      BY <1>1, <2>5, <2>9, TotalKept
    <2>7. Items(n) = Items(m)
      BY <2>1, <2>2, <2>4 DEF Items
    <2>8. QED
      BY <1>3, <2>4, <2>5, <2>6, <2>7 DEF n, j
  <1>4. QED
    BY <1>2, <1>3 DEF Merge

LEMMA MoveBIs ==
    ASSUME NEW m \in Merge, NEW k \in 0 .. Len(m.b)
    PROVE  LET n == MoveB(m, k)
           IN  /\ n \in Merge
               /\ n.dir = m.dir /\ n.base = m.base /\ n.mode = m.mode
               /\ n.acount = m.acount /\ n.bcount = m.bcount /\ n.a = m.a
               /\ Len(n.b) = Len(m.b) - k /\ Len(n.out) = Len(m.out) + k
               /\ Total(n) = Total(m) /\ Items(n) = Items(m)
               /\ m.dir = "lo" => n.b = Drop(m.b, k) /\ n.out = m.out \o Take(m.b, k)
               /\ m.dir = "hi" => /\ n.b = Take(m.b, Len(m.b) - k)
                                  /\ n.out = Drop(m.b, Len(m.b) - k) \o m.out
  <1> DEFINE n == MoveB(m, k)
  <1>1. /\ m.a \in Seq(Item) /\ m.b \in Seq(Item) /\ m.out \in Seq(Item)
        /\ Len(m.a) \in Nat /\ Len(m.b) \in Nat /\ Len(m.out) \in Nat
    BY MergeLengths
  <1>2. CASE m.dir = "lo"
    <2>1. /\ Take(m.b, k) \in Seq(Item) /\ Len(Take(m.b, k)) = k
          /\ Drop(m.b, k) \in Seq(Item) /\ Len(Drop(m.b, k)) = Len(m.b) - k
          /\ ToSet(m.b) = ToSet(Take(m.b, k)) \cup ToSet(Drop(m.b, k))
      BY <1>1, ItemParts
    <2>2. /\ m.out \o Take(m.b, k) \in Seq(Item)
          /\ Len(m.out \o Take(m.b, k)) = Len(m.out) + k
          /\ ToSet(m.out \o Take(m.b, k)) = ToSet(m.out) \cup ToSet(Take(m.b, k))
      <3>1. /\ m.out \o Take(m.b, k) \in Seq(Item)
            /\ Len(m.out \o Take(m.b, k)) = Len(m.out) + Len(Take(m.b, k))
            /\ ToSet(m.out \o Take(m.b, k)) = ToSet(m.out) \cup ToSet(Take(m.b, k))
        BY <1>1, <2>1, ItemsJoin
      <3>2. QED
        BY <2>1, <3>1
    <2>3. n = [m EXCEPT !.b = Drop(m.b, k), !.out = m.out \o Take(m.b, k)]
      BY <1>2 DEF MoveB
    <2>4. /\ n \in Merge /\ n.b = Drop(m.b, k) /\ n.out = m.out \o Take(m.b, k) /\ n.a = m.a
          /\ n.dir = m.dir /\ n.base = m.base /\ n.mode = m.mode
          /\ n.acount = m.acount /\ n.bcount = m.bcount
      BY <2>1, <2>2, <2>3 DEF Merge
    <2> HIDE DEF n
    <2>9. k \in Nat
      BY <1>1
    <2>5. Len(n.b) = Len(m.b) - k /\ Len(n.out) = Len(m.out) + k /\ Len(n.a) = Len(m.a)
      BY <2>1, <2>2, <2>4
    <2>6. Total(n) = Total(m)
      BY <1>1, <2>5, <2>9, TotalKept
    <2>7. Items(n) = Items(m)
      BY <2>1, <2>2, <2>4 DEF Items
    <2>8. QED
      BY <1>2, <2>4, <2>5, <2>6, <2>7 DEF n
  <1>3. CASE m.dir = "hi"
    <2> DEFINE j == Len(m.b) - k
    <2>0. j \in 0 .. Len(m.b) /\ Len(m.b) - j = k /\ j = Len(m.b) - k
      BY <1>1
    <2> HIDE DEF j
    <2>1. /\ Take(m.b, j) \in Seq(Item) /\ Len(Take(m.b, j)) = j
          /\ Drop(m.b, j) \in Seq(Item) /\ Len(Drop(m.b, j)) = k
          /\ ToSet(m.b) = ToSet(Take(m.b, j)) \cup ToSet(Drop(m.b, j))
      <3>1. /\ Take(m.b, j) \in Seq(Item) /\ Len(Take(m.b, j)) = j
            /\ Drop(m.b, j) \in Seq(Item) /\ Len(Drop(m.b, j)) = Len(m.b) - j
            /\ ToSet(m.b) = ToSet(Take(m.b, j)) \cup ToSet(Drop(m.b, j))
        BY <1>1, <2>0, ItemParts
      <3>2. QED
        BY <2>0, <3>1
    <2>2. /\ Drop(m.b, j) \o m.out \in Seq(Item)
          /\ Len(Drop(m.b, j) \o m.out) = Len(m.out) + k
          /\ ToSet(Drop(m.b, j) \o m.out) = ToSet(Drop(m.b, j)) \cup ToSet(m.out)
      <3>1. /\ Drop(m.b, j) \o m.out \in Seq(Item)
            /\ Len(Drop(m.b, j) \o m.out) = Len(Drop(m.b, j)) + Len(m.out)
            /\ ToSet(Drop(m.b, j) \o m.out) = ToSet(Drop(m.b, j)) \cup ToSet(m.out)
        BY <1>1, <2>1, ItemsJoin
      <3>2. QED
        BY <2>1, <3>1
    <2>3. n = [m EXCEPT !.b = Take(m.b, j), !.out = Drop(m.b, j) \o m.out]
      BY <1>3 DEF MoveB, j
    <2>4. /\ n \in Merge /\ n.b = Take(m.b, j) /\ n.out = Drop(m.b, j) \o m.out /\ n.a = m.a
          /\ n.dir = m.dir /\ n.base = m.base /\ n.mode = m.mode
          /\ n.acount = m.acount /\ n.bcount = m.bcount
      BY <2>1, <2>2, <2>3 DEF Merge
    <2> HIDE DEF n
    <2>9. k \in Nat
      BY <1>1
    <2>5. Len(n.b) = Len(m.b) - k /\ Len(n.out) = Len(m.out) + k /\ Len(n.a) = Len(m.a)
      BY <1>1, <2>0, <2>1, <2>2, <2>4, <2>9
    <2>6. Total(n) = Total(m)
      BY <1>1, <2>5, <2>9, TotalKept
    <2>7. Items(n) = Items(m)
      BY <2>1, <2>2, <2>4 DEF Items
    <2>8. QED
      BY <1>3, <2>4, <2>5, <2>6, <2>7 DEF n, j
  <1>4. QED
    BY <1>2, <1>3 DEF Merge

LEMMA Join3Is ==
    ASSUME NEW s \in Seq(Item), NEW t \in Seq(Item), NEW u \in Seq(Item)
    PROVE  /\ s \o t \o u \in Seq(Item)
           /\ Len(s \o t \o u) = Len(s) + Len(t) + Len(u)
           /\ ToSet(s \o t \o u) = ToSet(s) \cup ToSet(t) \cup ToSet(u)
  <1> DEFINE v == s \o t
  <1>1. v \in Seq(Item) /\ Len(v) = Len(s) + Len(t)
    BY JoinIs
  <1>2. ToSet(v) = ToSet(s) \cup ToSet(t)
    BY JoinSet
  <1> HIDE DEF v
  <1>3. v \o u \in Seq(Item) /\ Len(v \o u) = Len(v) + Len(u)
    BY <1>1, JoinIs
  <1>4. ToSet(v \o u) = ToSet(v) \cup ToSet(u)
    BY <1>1, JoinSet
  <1>5. QED
    BY <1>1, <1>2, <1>3, <1>4 DEF v

\* However a merge ends, all its items are put back.
LEMMA MergedIs ==
    ASSUME NEW m \in Merge
    PROVE  /\ Restored(m) \in Seq(Item) /\ Len(Restored(m)) = Total(m)
           /\ ToSet(Restored(m)) = Items(m)
           /\ Merged(m) \in Seq(Item) /\ Len(Merged(m)) = Total(m)
           /\ ToSet(Merged(m)) = Items(m)
  <1>1. /\ m.a \in Seq(Item) /\ m.b \in Seq(Item) /\ m.out \in Seq(Item)
        /\ Len(m.a) \in Nat /\ Len(m.b) \in Nat /\ Len(m.out) \in Nat
    BY MergeLengths
  <1> DEFINE Is(s) == s \in Seq(Item) /\ Len(s) = Total(m) /\ ToSet(s) = Items(m)
             a == m.a
             b == m.b
             o == m.out
  <1>2. \A s : Is(s) <=> /\ s \in Seq(Item) /\ Len(s) = Len(a) + Len(b) + Len(o)
                         /\ ToSet(s) = ToSet(a) \cup ToSet(b) \cup ToSet(o)
    BY DEF Total, Items
  <1> HIDE DEF Is, a, b, o
  <1>3. /\ a \in Seq(Item) /\ b \in Seq(Item) /\ o \in Seq(Item)
        /\ Len(a) \in Nat /\ Len(b) \in Nat /\ Len(o) \in Nat
    BY <1>1 DEF a, b, o
  <1>9. ASSUME NEW s \in Seq(Item), NEW t \in Seq(Item), NEW u \in Seq(Item),
               {a, b, o} = {s, t, u},
               Len(s) + Len(t) + Len(u) = Len(a) + Len(b) + Len(o)
        PROVE  Is(s \o t \o u)
    <2>1. /\ s \o t \o u \in Seq(Item) /\ Len(s \o t \o u) = Len(s) + Len(t) + Len(u)
          /\ ToSet(s \o t \o u) = ToSet(s) \cup ToSet(t) \cup ToSet(u)
      BY Join3Is
    <2>2. /\ ToSet(s) \cup ToSet(t) \cup ToSet(u) = UNION {ToSet(x) : x \in {s, t, u}}
          /\ ToSet(a) \cup ToSet(b) \cup ToSet(o) = UNION {ToSet(x) : x \in {a, b, o}}
      BY Zenon
    <2>3. ToSet(s) \cup ToSet(t) \cup ToSet(u) = ToSet(a) \cup ToSet(b) \cup ToSet(o)
      BY <1>9, <2>2
    <2>4. QED
      BY <1>2, <1>9, <2>1, <2>3
  <1>4. Is(o \o a \o b) /\ Is(a \o b \o o)
    <2>1. /\ Len(o) + Len(a) + Len(b) = Len(a) + Len(b) + Len(o)
          /\ {a, b, o} = {o, a, b}
      BY <1>3
    <2>2. QED
      BY <1>3, <1>9, <2>1
  <1>5. Is(o \o b \o a) /\ Is(b \o a \o o)
    <2>1. /\ Len(o) + Len(b) + Len(a) = Len(a) + Len(b) + Len(o)
          /\ Len(b) + Len(a) + Len(o) = Len(a) + Len(b) + Len(o)
          /\ {a, b, o} = {o, b, a} /\ {a, b, o} = {b, a, o}
      BY <1>3
    <2>2. QED
      BY <1>3, <1>9, <2>1
  <1>6. Is(Restored(m))
    BY <1>4 DEF Restored, a, b, o
  <1>7. Is(Merged(m))
    BY <1>5, <1>6 DEF Merged, a, b, o
  <1>8. QED
    BY <1>6, <1>7 DEF Is

-----------------------------------------------------------------------------
(* Natural runs.                                                           *)

\* A natural run of two items at least is found.
LEMMA CountRunIs ==
    ASSUME NEW s \in Seq(Item), Len(s) >= 2
    PROVE  LET n == CountRun(s)
           IN  /\ n \in 2 .. Len(s)
               /\ \A i \in 2 .. n : Descending(s, i) = Descending(s, 2)
  <1> DEFINE Holds(n) == /\ \A i \in 2 .. n : Descending(s, i) = Descending(s, 2)
                         /\ n < Len(s) => Descending(s, n + 1) # Descending(s, 2)
             Ends == {n \in 2 .. Len(s) : n < Len(s) => Descending(s, n + 1) # Descending(s, 2)}
  <1>1. Len(s) \in Nat
    BY LenProperties
  <1>2. Ends \in SUBSET Nat /\ Len(s) \in Ends
    BY <1>1
  <1>3. PICK n \in Ends : \A m \in Ends : n <= m
    <2> HIDE DEF Ends
    <2>1. QED
      BY <1>2, LeastNumber
  <1>4. ASSUME NEW i \in 2 .. n PROVE Descending(s, i) = Descending(s, 2)
    <2>1. CASE i = 2
      BY <2>1
    <2>2. CASE i # 2
      <3>1. i - 1 \in 2 .. Len(s) /\ i - 1 < n /\ i - 1 < Len(s) /\ (i - 1) + 1 = i
        BY <1>1, <1>3, <2>2
      <3>2. i - 1 \notin Ends
        <4> HIDE DEF Ends
        <4>1. i - 1 \in Ends => n <= i - 1
          BY <1>3
        <4>2. n \in Nat /\ i \in Nat
          BY <1>2, <1>3
        <4>3. QED
          BY <3>1, <4>1, <4>2
      <3>3. QED
        BY <3>1, <3>2
    <2>3. QED
      BY <2>1, <2>2
  <1>5. n \in 2 .. Len(s) /\ Holds(n)
    BY <1>3, <1>4
  <1> HIDE DEF Holds
  <1>6. CountRun(s) = CHOOSE m \in 2 .. Len(s) : Holds(m)
    BY DEF CountRun, Holds
  <1>7. CountRun(s) \in 2 .. Len(s) /\ Holds(CountRun(s))
    BY <1>5, <1>6
  <1>8. QED
    BY <1>7 DEF Holds

\* What is left after two parts.
LEMMA DropDrop ==
    ASSUME NEW s \in Seq(Item), NEW l \in 0 .. Len(s), NEW n \in 0 .. Len(s) - l
    PROVE  Drop(Drop(s, l), n) = Drop(s, l + n)
  <1> DEFINE t == Drop(s, l)
             u == Drop(t, n)
             v == Drop(s, l + n)
  <1>1. Len(s) \in Nat /\ l + n \in 0 .. Len(s)
    BY LenProperties
  <1>2. t \in Seq(Item) /\ Len(t) = Len(s) - l /\ \A i \in 1 .. Len(s) - l : t[i] = s[l + i]
    BY DropIs
  <1>3. v \in Seq(Item) /\ Len(v) = Len(s) - (l + n)
        /\ \A i \in 1 .. Len(s) - (l + n) : v[i] = s[(l + n) + i]
    BY <1>1, DropIs
  <1> HIDE DEF t, v
  <1>4. u \in Seq(Item) /\ Len(u) = (Len(s) - l) - n
        /\ \A i \in 1 .. (Len(s) - l) - n : u[i] = t[n + i]
    <2>1. n \in 0 .. Len(t) /\ t \in Seq(Item)
      BY <1>2
    <2>2. /\ u \in Seq(Item) /\ Len(u) = Len(t) - n
          /\ \A i \in 1 .. Len(t) - n : u[i] = t[n + i]
      BY <2>1, DropIs
    <2> HIDE DEF u
    <2>3. QED
      BY <1>2, <2>2
  <1> HIDE DEF u
  <1>5. Len(u) = Len(v)
    BY <1>1, <1>3, <1>4
  <1>6. ASSUME NEW i \in 1 .. Len(u) PROVE u[i] = v[i]
    <2>1. /\ i \in 1 .. (Len(s) - l) - n /\ n + i \in 1 .. Len(s) - l
          /\ i \in 1 .. Len(s) - (l + n) /\ l + (n + i) = (l + n) + i
      BY <1>1, <1>4
    <2>2. u[i] = s[l + (n + i)] /\ v[i] = s[(l + n) + i]
      BY <1>2, <1>3, <1>4, <2>1
    <2>3. QED
      BY <2>1, <2>2
  <1>7. u = v
    BY <1>3, <1>4, <1>5, <1>6, SeqEqual
  <1>8. QED
    BY <1>7 DEF u, v, t

\* The first items of what is left.
LEMMA DropTake ==
    ASSUME NEW s \in Seq(Item), NEW l \in 0 .. Len(s), NEW n \in 0 .. Len(s) - l
    PROVE  Take(Drop(s, l), n) = SubSeq(s, l + 1, l + n)
  <1> DEFINE t == Drop(s, l)
             u == Take(t, n)
             v == SubSeq(s, l + 1, l + n)
  <1>1. Len(s) \in Nat /\ l + n \in l .. Len(s)
    BY LenProperties
  <1>2. t \in Seq(Item) /\ Len(t) = Len(s) - l /\ \A i \in 1 .. Len(s) - l : t[i] = s[l + i]
    BY DropIs
  <1>3. v \in Seq(Item) /\ Len(v) = (l + n) - l
        /\ \A i \in 1 .. (l + n) - l : v[i] = s[l + i]
    BY <1>1, PartIs
  <1> HIDE DEF t, v
  <1>4. u \in Seq(Item) /\ Len(u) = n /\ \A i \in 1 .. n : u[i] = t[i]
    BY <1>2, TakeIs
  <1> HIDE DEF u
  <1>5. Len(u) = Len(v)
    BY <1>1, <1>3, <1>4
  <1>6. ASSUME NEW i \in 1 .. Len(u) PROVE u[i] = v[i]
    <2>1. i \in 1 .. n /\ i \in 1 .. Len(s) - l /\ i \in 1 .. (l + n) - l
      BY <1>1, <1>4
    <2>2. QED
      BY <1>2, <1>3, <1>4, <2>1
  <1>7. u = v
    BY <1>3, <1>4, <1>5, <1>6, SeqEqual
  <1>8. QED
    BY <1>7 DEF u, v, t

\* A part of a part.
LEMMA PartOfPart ==
    ASSUME NEW s \in Seq(Item), NEW l \in 0 .. Len(s), NEW r \in l .. Len(s),
           NEW k \in 0 .. r - l
    PROVE  LET t == SubSeq(s, l + 1, r)
           IN  /\ Take(t, k) = SubSeq(s, l + 1, l + k)
               /\ Drop(t, k) = SubSeq(s, l + k + 1, r)
  <1> DEFINE t == SubSeq(s, l + 1, r)
  <1>1. Len(s) \in Nat /\ l + k \in l .. Len(s) /\ l + k \in 0 .. Len(s) /\ r \in l + k .. Len(s)
    BY LenProperties
  <1>2. t \in Seq(Item) /\ Len(t) = r - l /\ \A i \in 1 .. r - l : t[i] = s[l + i]
    BY PartIs
  <1> HIDE DEF t
  <1>3. Take(t, k) = SubSeq(s, l + 1, l + k)
    <2> DEFINE u == Take(t, k)
               v == SubSeq(s, l + 1, l + k)
    <2>1. u \in Seq(Item) /\ Len(u) = k /\ \A i \in 1 .. k : u[i] = t[i]
      BY <1>2, TakeIs
    <2>2. v \in Seq(Item) /\ Len(v) = (l + k) - l /\ \A i \in 1 .. (l + k) - l : v[i] = s[l + i]
      BY <1>1, PartIs
    <2> HIDE DEF u, v
    <2>3. (l + k) - l = k /\ \A i \in 1 .. k : i \in 1 .. r - l
      BY <1>1
    <2>4. \A i \in 1 .. Len(u) : u[i] = v[i]
      BY <1>2, <2>1, <2>2, <2>3
    <2>5. u = v
      BY <2>1, <2>2, <2>3, <2>4, SeqEqual
    <2>6. QED
      BY <2>5 DEF u, v
  <1>4. Drop(t, k) = SubSeq(s, l + k + 1, r)
    <2> DEFINE u == Drop(t, k)
               v == SubSeq(s, l + k + 1, r)
    <2>1. u \in Seq(Item) /\ Len(u) = (r - l) - k /\ \A i \in 1 .. (r - l) - k : u[i] = t[k + i]
      <3>1. k \in 0 .. Len(t) /\ t \in Seq(Item)
        BY <1>2
      <3>2. /\ u \in Seq(Item) /\ Len(u) = Len(t) - k
            /\ \A i \in 1 .. Len(t) - k : u[i] = t[k + i]
        BY <3>1, DropIs
      <3> HIDE DEF u
      <3>3. QED
        BY <1>2, <3>2
    <2>2. v \in Seq(Item) /\ Len(v) = r - (l + k)
          /\ \A i \in 1 .. r - (l + k) : v[i] = s[(l + k) + i]
      BY <1>1, PartIs
    <2> HIDE DEF u, v
    <2>3. (r - l) - k = r - (l + k)
      BY <1>1
    <2>4. ASSUME NEW i \in 1 .. Len(u) PROVE u[i] = v[i]
      <3>1. i \in 1 .. (r - l) - k /\ k + i \in 1 .. r - l /\ l + (k + i) = (l + k) + i
        BY <1>1, <2>1
      <3>2. QED
        BY <1>2, <2>1, <2>2, <2>3, <3>1
    <2>5. u = v
      BY <2>1, <2>2, <2>3, <2>4, SeqEqual
    <2>6. QED
      BY <2>5 DEF u, v
  <1>5. QED
    BY <1>3, <1>4 DEF t

-----------------------------------------------------------------------------
(* The stack.                                                              *)

\* Where the i-th run ends.
EndOf(p, i) == IF i = 0 THEN 0 ELSE p[i].base + p[i].len

LEMMA EndIs ==
    ASSUME NEW p \in Seq(Slice)
    PROVE  /\ Len(p) \in Nat /\ DOMAIN p = 1 .. Len(p)
           /\ \A i \in 0 .. Len(p) : End(Take(p, i)) = EndOf(p, i) /\ EndOf(p, i) \in Nat
           /\ End(p) = EndOf(p, Len(p))
           /\ \A i \in 1 .. Len(p) : p[i] \in Slice
  <1>1. Len(p) \in Nat /\ DOMAIN p = 1 .. Len(p) /\ (p # << >> => Len(p) # 0) /\ Len(<< >>) = 0
    BY LenProperties, EmptySeq
  <1>2. \A i \in 1 .. Len(p) : p[i] \in Slice
    BY ElementOfSeq
  <1>3. ASSUME NEW i \in 0 .. Len(p)
        PROVE  End(Take(p, i)) = EndOf(p, i) /\ EndOf(p, i) \in Nat
    <2> DEFINE t == Take(p, i)
    <2>1. t \in Seq(Slice) /\ Len(t) = i /\ \A j \in 1 .. i : t[j] = p[j]
      BY TakeIs
    <2>2. t = << >> <=> i = 0
      BY <2>1, EmptySeq
    <2> HIDE DEF t
    <2>3. CASE i = 0
      BY <2>2, <2>3 DEF End, EndOf, t
    <2>4. CASE i # 0
      <3>1. i \in 1 .. i /\ i \in 1 .. Len(p)
        BY <1>1, <2>4
      <3>2. Last(t) = p[i]
        BY <2>1, <3>1 DEF Last
      <3>3. p[i].base \in Nat /\ p[i].len \in Nat
        BY <1>2, <3>1 DEF Slice
      <3>4. EndOf(p, i) \in Nat
        BY <2>4, <3>3 DEF EndOf
      <3>5. QED
        BY <2>2, <2>4, <3>2, <3>4 DEF End, EndOf, t
    <2>5. QED
      BY <2>3, <2>4
  <1>4. End(p) = EndOf(p, Len(p))
    BY <1>1 DEF End, EndOf, Last
  <1>5. QED
    BY <1>1, <1>2, <1>3, <1>4

\* On a stack of adjacent runs each one begins where the one below it ends.
LEMMA StackIs ==
    ASSUME NEW p \in Seq(Slice), Adjacent(p)
    PROVE  /\ \A i \in 1 .. Len(p) : /\ p[i].base \in Nat /\ p[i].len \in Nat \ {0}
                                     /\ p[i].base = EndOf(p, i - 1)
                                     /\ EndOf(p, i) = EndOf(p, i - 1) + p[i].len
           /\ \A i \in 0 .. Len(p) : EndOf(p, i) <= End(p)
  <1>1. /\ Len(p) \in Nat /\ DOMAIN p = 1 .. Len(p)
        /\ \A i \in 0 .. Len(p) : End(Take(p, i)) = EndOf(p, i) /\ EndOf(p, i) \in Nat
        /\ End(p) = EndOf(p, Len(p))
        /\ \A i \in 1 .. Len(p) : p[i] \in Slice
    BY EndIs
  <1>2. ASSUME NEW i \in 1 .. Len(p)
        PROVE  /\ p[i].base \in Nat /\ p[i].len \in Nat \ {0}
               /\ p[i].base = EndOf(p, i - 1)
               /\ EndOf(p, i) = EndOf(p, i - 1) + p[i].len
    <2>1. i - 1 \in 0 .. Len(p) /\ i # 0
      BY <1>1
    <2>2. p[i].base = EndOf(p, i - 1)
      BY <1>1, <2>1 DEF Adjacent
    <2>3. p[i].base \in Nat /\ p[i].len \in Nat \ {0}
      BY <1>1 DEF Slice
    <2>4. EndOf(p, i) = p[i].base + p[i].len
      BY <2>1 DEF EndOf
    <2>5. QED
      BY <2>2, <2>3, <2>4
  <1> DEFINE Bad == {d \in 0 .. Len(p) : ~(EndOf(p, Len(p) - d) <= EndOf(p, Len(p)))}
  <1>3. ASSUME Bad # {} PROVE FALSE
    <2>1. Bad \in SUBSET Nat
      BY <1>1
    <2>2. PICK d \in Bad : \A m \in Bad : d <= m
      <3> HIDE DEF Bad
      <3>1. QED
        BY <1>3, <2>1, LeastNumber
    <2>3. d # 0
      <3>1. d = 0 => ~(EndOf(p, Len(p)) <= EndOf(p, Len(p)))
        BY <1>1
      <3>2. EndOf(p, Len(p)) \in Nat
        BY <1>1
      <3>3. QED
        BY <3>1, <3>2
    <2>4. /\ d - 1 \in 0 .. Len(p) /\ d - 1 < d /\ d \in Nat
          /\ Len(p) - d + 1 \in 1 .. Len(p) /\ Len(p) - (d - 1) = Len(p) - d + 1
          /\ (Len(p) - d + 1) - 1 = Len(p) - d /\ Len(p) - d \in 0 .. Len(p)
      BY <1>1, <2>3
    <2>5. d - 1 \notin Bad
      <3> HIDE DEF Bad
      <3>1. d - 1 \in Bad => d <= d - 1
        BY <2>2
      <3>2. QED
        BY <2>4, <3>1
    <2> DEFINE x == EndOf(p, Len(p) - d)
               y == EndOf(p, Len(p) - d + 1)
               z == EndOf(p, Len(p))
               w == p[Len(p) - d + 1].len
    <2>6. y <= z
      BY <2>4, <2>5
    <2>7. y = x + w /\ w \in Nat
      BY <1>2, <2>4
    <2>8. x \in Nat /\ y \in Nat /\ z \in Nat
      BY <1>1, <2>4
    <2>9. ~(x <= z)
      BY <2>2
    <2> HIDE DEF x, y, z, w
    <2>10. QED
      BY <2>6, <2>7, <2>8, <2>9
  <1>4. ASSUME NEW i \in 0 .. Len(p) PROVE EndOf(p, i) <= End(p)
    <2>1. Len(p) - i \in 0 .. Len(p) /\ Len(p) - (Len(p) - i) = i
      BY <1>1
    <2>2. Len(p) - i \notin Bad
      BY <1>3
    <2>3. QED
      BY <1>1, <2>1, <2>2
  <1>5. QED
    BY <1>2, <1>4

\* Two neighbours on the stack become one, which ends where the upper one did.
LEMMA StackMerged ==
    ASSUME NEW p \in Seq(Slice), Adjacent(p), NEW i \in 1 .. Len(p) - 1
    PROVE  LET t == Take(p, i - 1) \o <<[p[i] EXCEPT !.len = @ + p[i + 1].len]>> \o Drop(p, i + 1)
           IN  /\ t \in Seq(Slice) /\ Adjacent(t) /\ End(t) = End(p) /\ t # << >>
               /\ Len(t) = Len(p) - 1
               /\ \A j \in 0 .. Len(p) - 1 :
                     EndOf(t, j) = IF j < i THEN EndOf(p, j) ELSE EndOf(p, j + 1)
  <1> DEFINE x == [p[i] EXCEPT !.len = @ + p[i + 1].len]
             a == Take(p, i - 1)
             d == Drop(p, i + 1)
             u == a \o <<x>>
             t == u \o d
             n == Len(p)
  <1>1. /\ n \in Nat
        /\ \A j \in 0 .. n : EndOf(p, j) \in Nat
        /\ End(p) = EndOf(p, n)
        /\ \A j \in 1 .. n : p[j] \in Slice
    BY EndIs
  <1>2. \A j \in 1 .. n : /\ p[j].base \in Nat /\ p[j].len \in Nat \ {0}
                          /\ p[j].base = EndOf(p, j - 1)
                          /\ EndOf(p, j) = EndOf(p, j - 1) + p[j].len
    BY StackIs
  <1>3. i \in 1 .. n /\ i + 1 \in 1 .. n /\ (i + 1) - 1 = i /\ i - 1 \in 0 .. n /\ i + 1 \in 0 .. n
    BY <1>1
  <1>4. x.base = EndOf(p, i - 1) /\ x.len \in Nat \ {0} /\ x.base + x.len = EndOf(p, i + 1)
        /\ x \in Slice
    <2> DEFINE y == p[i].len
               z == p[i + 1].len
    <2>1. p[i] \in Slice /\ y \in Nat \ {0} /\ z \in Nat \ {0}
      BY <1>1, <1>2, <1>3
    <2>2. EndOf(p, i) = EndOf(p, i - 1) + y /\ EndOf(p, i + 1) = EndOf(p, i) + z
      BY <1>2, <1>3
    <2>3. x.base = p[i].base /\ x.len = y + z
      BY <2>1 DEF Slice
    <2>4. x.base = EndOf(p, i - 1) /\ EndOf(p, i - 1) \in Nat
      BY <1>1, <1>2, <1>3, <2>3
    <2> HIDE DEF y, z
    <2>5. y + z \in Nat \ {0}
      BY <2>1
    <2>6. x \in Slice
      BY <2>1, <2>5 DEF Slice, y, z
    <2> HIDE DEF x
    <2>7. QED
      BY <2>1, <2>2, <2>3, <2>4, <2>5, <2>6
  <1> HIDE DEF x
  <1>5. a \in Seq(Slice) /\ Len(a) = i - 1 /\ \A j \in 1 .. i - 1 : a[j] = p[j]
    BY <1>3, TakeIs
  <1>6. d \in Seq(Slice) /\ Len(d) = n - (i + 1) /\ \A j \in 1 .. n - (i + 1) : d[j] = p[(i + 1) + j]
    BY <1>3, DropIs
  <1> HIDE DEF a, d
  <1>7. /\ <<x>> \in Seq(Slice) /\ Len(<<x>>) = 1 /\ <<x>>[1] = x
    BY <1>4
  <1>8. /\ u \in Seq(Slice) /\ Len(u) = i
        /\ \A j \in 1 .. i - 1 : u[j] = p[j]
        /\ u[i] = x
    <2> DEFINE v == <<x>>
    <2>1. v \in Seq(Slice) /\ Len(v) = 1 /\ v[1] = x /\ u = a \o v
      BY <1>7
    <2> HIDE DEF v, u
    <2>2. /\ u \in Seq(Slice) /\ Len(u) = Len(a) + Len(v)
          /\ \A j \in 1 .. Len(a) : u[j] = a[j]
          /\ \A j \in 1 .. Len(v) : u[Len(a) + j] = v[j]
      <3>1. a \in Seq(Slice) /\ v \in Seq(Slice)
        BY <1>5, <2>1
      <3>2. /\ a \o v \in Seq(Slice) /\ Len(a \o v) = Len(a) + Len(v)
            /\ \A j \in 1 .. Len(a) : (a \o v)[j] = a[j]
            /\ \A j \in 1 .. Len(v) : (a \o v)[Len(a) + j] = v[j]
        BY <3>1, JoinIs
      <3>3. QED
        BY <2>1, <3>2
    <2>3. 1 \in 1 .. Len(v) /\ Len(a) + 1 = i
      BY <1>3, <1>5, <2>1
    <2>4. u[i] = x
      BY <2>1, <2>2, <2>3
    <2>5. Len(u) = i
      BY <2>1, <2>2, <2>3
    <2>6. QED
      BY <1>5, <2>2, <2>4, <2>5
  <1> HIDE DEF u
  <1>9. /\ t \in Seq(Slice) /\ Len(t) = n - 1
        /\ \A j \in 1 .. i - 1 : t[j] = p[j]
        /\ t[i] = x
        /\ \A j \in i + 1 .. n - 1 : t[j] = p[j + 1]
    <2>1. /\ t \in Seq(Slice) /\ Len(t) = Len(u) + Len(d)
          /\ \A j \in 1 .. Len(u) : t[j] = u[j]
          /\ \A j \in 1 .. Len(d) : t[Len(u) + j] = d[j]
      <3>1. u \in Seq(Slice) /\ d \in Seq(Slice)
        BY <1>6, <1>8
      <3>2. /\ t \in Seq(Slice) /\ Len(t) = Len(u) + Len(d)
            /\ \A j \in 1 .. Len(u) : t[j] = u[j]
        BY <3>1, JoinIs
      <3>3. \A j \in 1 .. Len(d) : t[Len(u) + j] = d[j]
        BY <3>1, JoinIs
      <3>4. QED
        BY <3>2, <3>3
    <2> HIDE DEF t
    <2>2. Len(t) = n - 1
      BY <1>1, <1>3, <1>6, <1>8, <2>1
    <2>3. \A j \in 1 .. i - 1 : t[j] = p[j]
      <3>1. \A j \in 1 .. i - 1 : j \in 1 .. i
        BY <1>3
      <3>2. QED
        BY <1>8, <2>1, <3>1
    <2>4. t[i] = x
      BY <1>3, <1>8, <2>1
    <2>5. ASSUME NEW j \in i + 1 .. n - 1 PROVE t[j] = p[j + 1]
      <3>1. j - i \in 1 .. n - (i + 1) /\ i + (j - i) = j /\ (i + 1) + (j - i) = j + 1
        BY <1>1, <1>3
      <3>2. t[i + (j - i)] = d[j - i]
        BY <1>6, <1>8, <2>1, <3>1
      <3>3. d[j - i] = p[(i + 1) + (j - i)]
        BY <1>6, <3>1
      <3>4. QED
        BY <3>1, <3>2, <3>3
    <2>6. QED
      BY <2>1, <2>2, <2>3, <2>4, <2>5
  <1> HIDE DEF t, n
  <1>10. /\ n \in Nat /\ n - 1 \in Nat /\ n - 1 >= 1 /\ i \in Nat \ {0} /\ i <= n - 1
    BY <1>1, <1>3 DEF n
  <1>11. \A j \in 0 .. n - 1 : EndOf(t, j) = IF j < i THEN EndOf(p, j) ELSE EndOf(p, j + 1)
    <2>1. ASSUME NEW j \in 0 .. n - 1
          PROVE  EndOf(t, j) = IF j < i THEN EndOf(p, j) ELSE EndOf(p, j + 1)
      <3>1. CASE j < i
        <4>1. j = 0 \/ j \in 1 .. i - 1
          BY <1>10, <3>1
        <4>2. QED
          BY <1>9, <3>1, <4>1 DEF EndOf
      <3>2. CASE j = i
        <4>1. i # 0 /\ ~(j < i) /\ EndOf(t, j) = x.base + x.len
          BY <1>9, <1>10, <3>2 DEF EndOf
        <4>2. QED
          BY <1>4, <3>2, <4>1
      <3>3. CASE j > i
        <4>1. j \in i + 1 .. n - 1 /\ j # 0 /\ j + 1 # 0 /\ ~(j < i)
          BY <1>10, <3>3
        <4>2. QED
          BY <1>9, <4>1 DEF EndOf
      <3>4. QED
        BY <1>10, <3>1, <3>2, <3>3
    <2>2. QED
      BY <2>1
  <1>12. Adjacent(t)
    <2>1. /\ DOMAIN t = 1 .. n - 1
          /\ \A j \in 0 .. n - 1 : End(Take(t, j)) = EndOf(t, j)
      BY <1>9, EndIs
    <2>2. ASSUME NEW j \in 1 .. n - 1 PROVE t[j].base = EndOf(t, j - 1)
      <3>0. j - 1 \in 0 .. n - 1
        BY <1>10
      <3>1. CASE j < i
        <4>1. j \in 1 .. i - 1 /\ j \in 1 .. n /\ j - 1 < i
          BY <1>10, <3>1
        <4>2. QED
          BY <1>2, <1>9, <1>11, <3>0, <4>1 DEF n
      <3>2. CASE j = i
        <4>1. j - 1 < i
          BY <1>10, <3>2
        <4>2. QED
          BY <1>4, <1>9, <1>11, <3>0, <3>2, <4>1
      <3>3. CASE j > i
        <4>1. j \in i + 1 .. n - 1 /\ j + 1 \in 1 .. n /\ ~(j - 1 < i)
              /\ (j - 1) + 1 = j /\ (j + 1) - 1 = j
          BY <1>10, <3>3
        <4>2. t[j].base = p[j + 1].base /\ p[j + 1].base = EndOf(p, (j + 1) - 1)
          BY <1>2, <1>9, <4>1 DEF n
        <4>3. EndOf(t, j - 1) = EndOf(p, (j - 1) + 1)
          BY <1>11, <3>0, <4>1
        <4>4. QED
          BY <4>1, <4>2, <4>3
      <3>4. QED
        BY <1>10, <3>1, <3>2, <3>3
    <2>3. \A j \in 1 .. n - 1 : j - 1 \in 0 .. n - 1
      BY <1>10
    <2>4. QED
      BY <2>1, <2>2, <2>3 DEF Adjacent
  <1>13. End(t) = End(p)
    <2>1. End(t) = EndOf(t, n - 1)
      BY <1>9, EndIs
    <2>2. n - 1 \in 0 .. n - 1 /\ ~(n - 1 < i) /\ (n - 1) + 1 = n
      BY <1>1, <1>10 DEF n
    <2>3. EndOf(t, n - 1) = EndOf(p, n)
      BY <1>11, <2>2
    <2>4. QED
      BY <1>1, <2>1, <2>3 DEF n
  <1>14. t # << >>
    <2>1. Len(t) # 0
      BY <1>9, <1>10
    <2>2. QED
      BY <2>1, EmptySeq
  <1>15. t = Take(p, i - 1) \o <<[p[i] EXCEPT !.len = @ + p[i + 1].len]>> \o Drop(p, i + 1)
    BY DEF t, u, a, d, x
  <1>16. QED
    BY <1>9, <1>11, <1>12, <1>13, <1>14, <1>15, Zenon DEF n

\* A run is put on the stack where the one below it ends.
LEMMA StackPushed ==
    ASSUME NEW p \in Seq(Slice), Adjacent(p), NEW l \in Nat \ {0}
    PROVE  LET t == Append(p, [base |-> End(p), len |-> l])
           IN  t \in Seq(Slice) /\ Adjacent(t) /\ End(t) = End(p) + l /\ t # << >>
  <1> DEFINE x == [base |-> End(p), len |-> l]
             t == Append(p, x)
             n == Len(p)
  <1>1. /\ n \in Nat
        /\ \A j \in 0 .. n : EndOf(p, j) \in Nat
        /\ End(p) = EndOf(p, n)
        /\ \A j \in 1 .. n : p[j] \in Slice
    BY EndIs
  <1>2. \A j \in 1 .. n : p[j].base = EndOf(p, j - 1)
    BY StackIs
  <1>3. x \in Slice /\ x.base = EndOf(p, n) /\ x.len = l
    <2>1. End(p) \in Nat
      BY <1>1
    <2>2. QED
      BY <1>1, <2>1 DEF Slice
  <1> HIDE DEF x
  <1>4. /\ t \in Seq(Slice) /\ Len(t) = n + 1
        /\ \A j \in 1 .. n : t[j] = p[j]
        /\ t[n + 1] = x
    BY <1>1, <1>3, LenProperties
  <1> HIDE DEF t, n
  <1>5. \A j \in 0 .. n : EndOf(t, j) = EndOf(p, j)
    <2>1. \A j \in 0 .. n : j = 0 \/ j \in 1 .. n
      BY <1>1 DEF n
    <2>2. QED
      BY <1>4, <2>1 DEF EndOf
  <1>6. /\ DOMAIN t = 1 .. n + 1 /\ End(t) = EndOf(t, n + 1)
        /\ \A j \in 0 .. n + 1 : End(Take(t, j)) = EndOf(t, j)
    BY <1>4, EndIs
  <1>7. n \in Nat
    BY <1>1 DEF n
  <1>8. ASSUME NEW j \in 1 .. n + 1 PROVE t[j].base = End(Take(t, j - 1))
    <2>1. j - 1 \in 0 .. n /\ j - 1 \in 0 .. n + 1
      BY <1>7
    <2>2. CASE j = n + 1
      <3>1. j - 1 = n
        BY <1>7, <2>2
      <3>2. QED
        BY <1>3, <1>4, <1>5, <1>6, <2>1, <2>2, <3>1
    <2>3. CASE j # n + 1
      <3>1. j \in 1 .. n
        BY <1>7, <2>3
      <3>2. QED
        BY <1>2, <1>4, <1>5, <1>6, <2>1, <3>1 DEF n
    <2>4. QED
      BY <2>2, <2>3
  <1>9. Adjacent(t)
    BY <1>6, <1>8 DEF Adjacent
  <1>10. End(t) = End(p) + l
    <2>1. n + 1 # 0
      BY <1>7
    <2>2. EndOf(t, n + 1) = x.base + x.len
      BY <1>4, <2>1 DEF EndOf
    <2>3. QED
      BY <1>1, <1>3, <1>6, <2>2 DEF n
  <1>11. t # << >>
    <2>1. Len(t) # 0
      BY <1>4, <1>7
    <2>2. QED
      BY <2>1, EmptySeq
  <1>12. QED
    BY <1>4, <1>9, <1>10, <1>11 DEF t, x

-----------------------------------------------------------------------------
(* The merge under way.                                                    *)

\* A merge has the items of the part of the list that it leaves to be written.
MergeFits(m, s) ==
    /\ m \in Merge
    /\ m.base + Total(m) <= Len(s)
    /\ Items(m) = Segment(s, m.base, m.base + Total(m))

Counts(m) == m.acount <= Len(m.out) /\ m.bcount <= Len(m.out)

LEMMA TypeIs ==
    ASSUME NEW m \in Merge, m.base + Total(m) <= Len(slice), Counts(m), m.out # << >>,
           ~Ended(m), slice \in Seq(Item)
    PROVE  TypeOfMerge(m)
  <1>1. /\ Len(m.a) \in Nat /\ Len(m.b) \in Nat /\ m.base \in Nat /\ Total(m) \in Nat
        /\ m.a = << >> <=> Len(m.a) = 0
        /\ m.b = << >> <=> Len(m.b) = 0
    BY MergeLengths
  <1>2. m.base <= Len(slice)
    <2> DEFINE x == m.base
               y == Total(m)
               z == Len(slice)
    <2>1. x \in Nat /\ y \in Nat /\ z \in Nat /\ x + y <= z
      BY <1>1, LenProperties
    <2> HIDE DEF x, y, z
    <2>2. x <= z
      BY <2>1
    <2>3. QED
      BY <2>2 DEF x, z
  <1>3. m.dir \in {"lo", "hi"}
    BY DEF Merge
  <1>4. m.a # << >> /\ m.b # << >> /\ Len(IF m.dir = "lo" THEN m.a ELSE m.b) > 1
    BY <1>1, <1>3 DEF Ended
  <1>5. QED
    BY <1>2, <1>4 DEF TypeOfMerge, Counts

\* What a merge writes back.
LEMMA AroundIs ==
    ASSUME NEW m, MergeFits(m, slice), slice \in Seq(Item),
           NEW u \in Seq(Item), Len(u) = Total(m), ToSet(u) = Items(m)
    PROVE  /\ Rearranged(slice, Around(m, u), m.base, m.base + Total(m))
           /\ \A i \in 1 .. Total(m) : Around(m, u)[m.base + i] = u[i]
  <1> DEFINE l == m.base
             n == Total(m)
             r == l + n
  <1>1. l \in Nat /\ n \in Nat /\ r <= Len(slice) /\ Len(slice) \in Nat
    BY MergeLengths, LenProperties DEF MergeFits
  <1>2. l \in 0 .. Len(slice) /\ r \in l .. Len(slice) /\ r - l = n
    <2> HIDE DEF l, n
    <2>1. QED
      BY <1>1
  <1>3. ToSet(u) = Segment(slice, l, r) /\ Len(u) = n
    BY DEF MergeFits
  <1>4. Around(m, u) = Take(slice, l) \o u \o Drop(slice, r)
    BY <1>3 DEF Around
  <1> HIDE DEF l, n, r
  <1>5. Len(u) = r - l
    BY <1>2, <1>3
  <1>6. /\ Rearranged(slice, Take(slice, l) \o u \o Drop(slice, r), l, r)
        /\ \A i \in 1 .. r - l : (Take(slice, l) \o u \o Drop(slice, r))[l + i] = u[i]
    BY <1>2, <1>3, <1>5, PartReplaced
  <1>7. QED
    BY <1>2, <1>4, <1>6 DEF l, n, r

\* A step of a merge goes on with it or writes it back.
LEMMA ContinueIs ==
    ASSUME NEW m, MergeFits(m, slice), Counts(m), m.out # << >>, slice \in Seq(Item),
           Continue(m)
    PROVE  /\ slice' \in Seq(Item) /\ Len(slice') = Len(slice) /\ ToSet(slice') = ToSet(slice)
           /\ merge' # NoMerge => MergeFits(merge', slice')
           /\ TypeOfMerge(merge)'
  <1>1. m \in Merge
    BY DEF MergeFits
  <1>2. CASE Ended(m)
    <2>1. merge' = NoMerge /\ slice' = Around(m, Merged(m))
      BY <1>2 DEF Continue
    <2>2. Merged(m) \in Seq(Item) /\ Len(Merged(m)) = Total(m) /\ ToSet(Merged(m)) = Items(m)
      BY <1>1, MergedIs
    <2>3. Rearranged(slice, slice', m.base, m.base + Total(m))
      BY <2>1, <2>2, AroundIs
    <2>4. m.base \in 0 .. Len(slice) /\ m.base + Total(m) \in m.base .. Len(slice)
      <3> DEFINE x == m.base
                 y == Total(m)
                 z == Len(slice)
      <3>1. x \in Nat /\ y \in Nat /\ z \in Nat /\ x + y <= z
        BY <1>1, MergeLengths, LenProperties DEF MergeFits
      <3> HIDE DEF x, y, z
      <3>2. x \in 0 .. z /\ x + y \in x .. z
        BY <3>1
      <3>3. QED
        BY <3>2 DEF x, y, z
    <2>5. ToSet(slice') = ToSet(slice)
      BY <2>3, <2>4, RearrangedSet
    <2>6. TypeOfMerge(merge)'
      BY <2>1 DEF TypeOfMerge
    <2>7. QED
      BY <2>1, <2>3, <2>5, <2>6 DEF Rearranged
  <1>3. CASE ~Ended(m)
    <2>1. merge' = m /\ slice' = slice
      BY <1>3 DEF Continue
    <2>2. TypeOfMerge(m)
      BY <1>1, <1>3, TypeIs DEF MergeFits
    <2>3. TypeOfMerge(merge)'
      BY <2>1, <2>2 DEF TypeOfMerge
    <2>4. QED
      BY <2>1, <2>3
  <1>4. QED
    BY <1>2, <1>3

\* A merge that moves items fits as before.
LEMMA FitsStill ==
    ASSUME NEW m, NEW s, MergeFits(m, s), NEW n \in Merge,
           n.base = m.base, Total(n) = Total(m), Items(n) = Items(m)
    PROVE  MergeFits(n, s)
  BY DEF MergeFits

\* What a merge counts does not matter.
LEMMA FitsCounted ==
    ASSUME NEW m, NEW s, MergeFits(m, s), NEW n \in Merge,
           n.base = m.base, n.a = m.a, n.b = m.b, n.out = m.out
    PROVE  MergeFits(n, s)
  <1>1. Total(n) = Total(m) /\ Items(n) = Items(m)
    BY DEF Total, Items
  <1>2. QED
    BY <1>1, FitsStill

LEMMA FitsMoved ==
    ASSUME NEW m, NEW s, MergeFits(m, s), NEW k \in Nat
    PROVE  /\ k <= Len(m.a) => /\ MergeFits(MoveA(m, k), s)
                               /\ Len(MoveA(m, k).out) = Len(m.out) + k
                               /\ MoveA(m, k).acount = m.acount
                               /\ MoveA(m, k).bcount = m.bcount
           /\ k <= Len(m.b) => /\ MergeFits(MoveB(m, k), s)
                               /\ Len(MoveB(m, k).out) = Len(m.out) + k
                               /\ MoveB(m, k).acount = m.acount
                               /\ MoveB(m, k).bcount = m.bcount
  <1>1. m \in Merge
    BY DEF MergeFits
  <1>2. Len(m.a) \in Nat /\ Len(m.b) \in Nat
    BY <1>1, MergeLengths
  <1>3. ASSUME k <= Len(m.a)
        PROVE  /\ MergeFits(MoveA(m, k), s) /\ Len(MoveA(m, k).out) = Len(m.out) + k
               /\ MoveA(m, k).acount = m.acount /\ MoveA(m, k).bcount = m.bcount
    <2>1. k \in 0 .. Len(m.a)
      BY <1>2, <1>3
    <2> DEFINE n == MoveA(m, k)
    <2>2. /\ n \in Merge /\ n.base = m.base /\ Total(n) = Total(m) /\ Items(n) = Items(m)
          /\ Len(n.out) = Len(m.out) + k /\ n.acount = m.acount /\ n.bcount = m.bcount
      BY <1>1, <2>1, MoveAIs
    <2> HIDE DEF n
    <2>3. MergeFits(n, s)
      BY <2>2, FitsStill
    <2>4. QED
      BY <2>2, <2>3 DEF n
  <1>4. ASSUME k <= Len(m.b)
        PROVE  /\ MergeFits(MoveB(m, k), s) /\ Len(MoveB(m, k).out) = Len(m.out) + k
               /\ MoveB(m, k).acount = m.acount /\ MoveB(m, k).bcount = m.bcount
    <2>1. k \in 0 .. Len(m.b)
      BY <1>2, <1>4
    <2> DEFINE n == MoveB(m, k)
    <2>2. /\ n \in Merge /\ n.base = m.base /\ Total(n) = Total(m) /\ Items(n) = Items(m)
          /\ Len(n.out) = Len(m.out) + k /\ n.acount = m.acount /\ n.bcount = m.bcount
      BY <1>1, <2>1, MoveBIs
    <2> HIDE DEF n
    <2>3. MergeFits(n, s)
      BY <2>2, FitsStill
    <2>4. QED
      BY <2>2, <2>3 DEF n
  <1>5. QED
    BY <1>3, <1>4

\* The merge of two neighbouring runs of x and y items, less what is in place.
Opening(s, l, x, y, k, n, dir) ==
    [dir |-> dir, base |-> l + k,
     a |-> Drop(SubSeq(s, l + 1, l + x), k),
     b |-> Take(SubSeq(s, l + x + 1, l + x + y), n),
     out |-> << >>, mode |-> "single", acount |-> 0, bcount |-> 0]

Neighbours(s, l, x, y) == l \in Nat /\ x \in Nat /\ y \in Nat /\ l + x + y <= Len(s)

Opened(m, s, x, y) ==
    /\ MergeFits(m, s) /\ Counts(m) /\ Len(m.a) = x /\ Len(m.b) = y
    /\ m.out = << >> /\ m.acount = 0 /\ m.bcount = 0

\* It has the items of its part of the list to write.
LEMMA MergeBegins ==
    ASSUME NEW s \in Seq(Item), NEW l, NEW x, NEW y, Neighbours(s, l, x, y),
           NEW k \in 0 .. x, NEW n \in 0 .. y, NEW dir \in {"lo", "hi"}
    PROVE  LET m == Opening(s, l, x, y, k, n, dir)
           IN  Opened(m, s, x - k, n)
  <1> DEFINE a == SubSeq(s, l + 1, l + x)
             b == SubSeq(s, l + x + 1, l + x + y)
             c == Drop(a, k)
             d == Take(b, n)
             m == [dir |-> dir, base |-> l + k, a |-> c, b |-> d,
                   out |-> << >>, mode |-> "single", acount |-> 0, bcount |-> 0]
  <1>1. /\ Len(s) \in Nat /\ l \in 0 .. Len(s) /\ l + x \in l .. Len(s)
        /\ k \in 0 .. (l + x) - l /\ l + k \in 0 .. Len(s) /\ l + x \in l + k .. Len(s)
        /\ l + x \in 0 .. Len(s) /\ l + x + y \in l + x .. Len(s)
        /\ n \in 0 .. (l + x + y) - (l + x) /\ l + x + n \in l + x .. Len(s)
    BY LenProperties DEF Neighbours
  <1>2. c = SubSeq(s, l + k + 1, l + x) /\ d = SubSeq(s, l + x + 1, l + x + n)
    <2>1. c = SubSeq(s, l + k + 1, l + x)
      BY <1>1, PartOfPart
    <2>2. d = SubSeq(s, l + x + 1, l + x + n)
      BY <1>1, PartOfPart
    <2>3. QED
      BY <2>1, <2>2
  <1>3. c \in Seq(Item) /\ Len(c) = (l + x) - (l + k) /\ ToSet(c) = Segment(s, l + k, l + x)
    <2> HIDE DEF c
    <2>1. c \in Seq(Item) /\ Len(c) = (l + x) - (l + k)
      BY <1>1, <1>2, PartIs
    <2>2. ToSet(c) = Segment(s, l + k, l + x)
      BY <1>1, <1>2, PartSet
    <2>3. QED
      BY <2>1, <2>2
  <1>4. d \in Seq(Item) /\ Len(d) = (l + x + n) - (l + x)
        /\ ToSet(d) = Segment(s, l + x, l + x + n)
    <2> HIDE DEF d
    <2>1. d \in Seq(Item) /\ Len(d) = (l + x + n) - (l + x)
      BY <1>1, <1>2, PartIs
    <2>2. ToSet(d) = Segment(s, l + x, l + x + n)
      BY <1>1, <1>2, PartSet
    <2>3. QED
      BY <2>1, <2>2
  <1> HIDE DEF c, d
  <1>0. l \in Nat /\ x \in Nat /\ y \in Nat
    BY DEF Neighbours
  <1>5. Len(c) = x - k /\ Len(d) = n /\ l + k \in Nat
    BY <1>0, <1>1, <1>3, <1>4
  <1>6. /\ << >> \in Seq(Item) /\ Len(<< >>) = 0
    BY EmptySeq
  <1>7. /\ m \in Merge /\ m.a = c /\ m.b = d /\ m.out = << >> /\ m.base = l + k
        /\ m.acount = 0 /\ m.bcount = 0
    BY <1>3, <1>4, <1>5, <1>6 DEF Merge
  <1> HIDE DEF m
  <1>8. Counts(m)
    BY <1>6, <1>7 DEF Counts
  <1>9. Total(m) = (x - k) + n + 0 /\ m.base + Total(m) = l + x + n
    <2>1. Total(m) = (x - k) + n + 0
      BY <1>5, <1>6, <1>7 DEF Total
    <2>2. QED
      BY <1>0, <1>7, <2>1
  <1>10. Items(m) = Segment(s, l + k, l + x + n)
    <2>1. ToSet(m.out) = {}
      BY <1>6, <1>7, ToSetIs
    <2>2. Items(m) = Segment(s, l + k, l + x) \cup Segment(s, l + x, l + x + n)
      BY <1>3, <1>4, <1>7, <2>1 DEF Items
    <2>3. l + k <= l + x /\ l + x <= l + x + n /\ l + x \in Nat /\ l + x + n \in Nat /\ l + k \in Nat
      BY <1>0, <1>1
    <2>4. QED
      BY <2>2, <2>3, PartsSet
  <1>11. m.base + Total(m) <= Len(s)
    BY <1>1, <1>9
  <1>12. MergeFits(m, s)
    <2>1. m.base = l + k
      BY <1>7
    <2>2. QED
      BY <1>7, <1>9, <1>10, <1>11, <2>1 DEF MergeFits
  <1>13. QED
    <2>1. m = Opening(s, l, x, y, k, n, dir)
      BY DEF Opening, m, c, d
    <2>2. QED
      BY <1>5, <1>7, <1>8, <1>12, <2>1 DEF Opened

-----------------------------------------------------------------------------
(* The invariant.                                                          *)

\* What is known of the stages.
Stages ==
    /\ merge # NoMerge => stage \in {"collapse", "force"}
    /\ stage = "start" => pending = << >>
    /\ stage = "run" => lo < Len(input)
    /\ stage = "insert" => run.length # 0
    /\ stage \in {"collapse", "force"} => pending # << >>
    /\ stage = "force" => lo = Len(input)

SameItems(s) == Len(s) = Len(input) /\ ToSet(s) = ToSet(input)

\* The items, without those of the merge under way if it has begun to write.
Content ==
    /\ SameItems(slice)
    /\ merge # NoMerge => MergeFits(merge, slice)
    /\ stage \in {"returned", "raised"} => SameItems(shown)

SortInv == SortTypeOK /\ Stages /\ Content

LEMMA InitHolds == SortInit => SortInv
  <1> SUFFICES ASSUME SortInit PROVE SortInv
    OBVIOUS
  <1>1. PICK keys \in (IF ordered THEN Inputs ELSE {[i \in 1 .. n |-> 0] : n \in Lengths}) :
            input = [i \in DOMAIN keys |-> [key |-> keys[i], place |-> i]]
    BY DEF SortInit
  <1>2. \E n \in Nat : DOMAIN keys = 1 .. n /\ \A i \in 1 .. n : keys[i] \in Int
    <2>1. CASE ordered
      <3>1. keys \in Seq(Int)
        BY <1>1, <2>1, SortAssumption
      <3>2. DOMAIN keys = 1 .. Len(keys) /\ Len(keys) \in Nat
        BY <3>1, LenProperties
      <3>3. \A i \in 1 .. Len(keys) : keys[i] \in Int
        BY <3>1, ElementOfSeq
      <3>4. QED
        BY <3>2, <3>3
    <2>2. CASE ~ordered
      <3>1. PICK n \in Lengths : keys = [i \in 1 .. n |-> 0]
        BY <1>1, <2>2
      <3>2. n \in Nat
        BY SortAssumption
      <3>3. QED
        BY <3>1, <3>2
    <2>3. QED
      BY <2>1, <2>2
  <1>3. PICK n \in Nat : DOMAIN keys = 1 .. n /\ \A i \in 1 .. n : keys[i] \in Int
    BY <1>2
  <1>4. input \in Seq(Item)
    <2>1. \A i \in 1 .. n : [key |-> keys[i], place |-> i] \in Item
      BY <1>3 DEF Item
    <2>2. input = [i \in 1 .. n |-> [key |-> keys[i], place |-> i]]
      BY <1>1, <1>3
    <2>3. input \in [1 .. n -> Item]
      BY <2>1, <2>2
    <2>4. QED
      BY <2>3, SeqDef
  <1>5. Len(input) \in Nat
    BY <1>4, LenProperties
  <1>6. lo = 0 /\ << >> \in Seq(Slice) /\ Adjacent(<< >>)
    BY DEF SortInit, lo, End, Adjacent
  <1>7. SortTypeOK
    <2>1. input \in Seq(Item) /\ shown \in Seq(Item) /\ slice \in Seq(Item)
      BY <1>4 DEF SortInit
    <2>2. ordered \in BOOLEAN /\ reverse \in BOOLEAN /\ touched \in BOOLEAN
      BY DEF SortInit
    <2>3. run \in [sorted : Nat, length : Nat] /\ run.sorted = 0 /\ run.length = 0
      BY DEF SortInit
    <2>4. pending \in Seq(Slice) /\ Adjacent(pending)
      BY <1>6 DEF SortInit
    <2>5. minGallop \in Nat \ {0} /\ TypeOfMerge(merge) /\ stage = "start"
      BY SortAssumption DEF SortInit, TypeOfMerge
    <2>6. run.sorted <= run.length /\ lo + run.length <= Len(input)
      BY <1>5, <1>6, <2>3
    <2>7. QED
      BY <2>1, <2>2, <2>3, <2>4, <2>5, <2>6 DEF SortTypeOK
  <1>8. Stages
    BY DEF SortInit, Stages
  <1>9. Content
    BY DEF SortInit, Content, SameItems
  <1>10. QED
    BY <1>7, <1>8, <1>9 DEF SortInv

\* What every step may use.
LEMMA Facts ==
    ASSUME SortInv
    PROVE  /\ input \in Seq(Item) /\ slice \in Seq(Item) /\ shown \in Seq(Item)
           /\ Len(input) \in Nat /\ Len(slice) = Len(input)
           /\ pending \in Seq(Slice) /\ Adjacent(pending) /\ lo \in Nat /\ lo <= Len(slice)
           /\ run.sorted \in Nat /\ run.length \in Nat /\ run.sorted <= run.length
           /\ lo + run.length <= Len(input)
  <1>1. /\ input \in Seq(Item) /\ slice \in Seq(Item) /\ shown \in Seq(Item)
        /\ pending \in Seq(Slice) /\ Adjacent(pending)
        /\ run \in [sorted : Nat, length : Nat] /\ run.sorted <= run.length
        /\ lo + run.length <= Len(input)
    BY DEF SortInv, SortTypeOK
  <1>2. Len(slice) = Len(input)
    BY DEF SortInv, Content, SameItems
  <1>3. Len(input) \in Nat
    BY <1>1, LenProperties
  <1>4. lo \in Nat
    BY <1>1, EndIs DEF lo
  <1>5. lo <= Len(slice)
    BY <1>1, <1>2, <1>3, <1>4
  <1>6. QED
    BY <1>1, <1>2, <1>3, <1>4, <1>5

LEMMA BeginKeeps ==
    ASSUME SortInv, Begin
    PROVE  SortInv'
  <1> USE DEF Begin
  <1>1. slice' \in Seq(Item) /\ Len(slice') = Len(slice) /\ ToSet(slice') = ToSet(slice)
    BY Facts, ReverseIs
  <1>2. merge = NoMerge /\ merge' = NoMerge
    BY DEF SortInv, Stages
  <1>3. pending = << >> /\ lo = 0 /\ lo' = 0
    BY DEF SortInv, Stages, lo, End
  <1>4. stage' = "run" => 0 < Len(input)
    BY Facts
  <1>5. SortTypeOK'
    <2>1. TypeOfMerge(merge)'
      BY <1>2 DEF TypeOfMerge
    <2>2. Adjacent(pending)'
      BY DEF SortInv, SortTypeOK, Adjacent
    <2>3. << >> \in Seq(Item)
      OBVIOUS
    <2>4. (stage = "sorted" /\ Len(input) > 1)' => FALSE
      BY Facts
    <2>5. QED
      BY <1>1, <1>3, <2>1, <2>2, <2>3, <2>4 DEF SortInv, SortTypeOK
  <1>6. Stages'
    BY <1>2, <1>3, <1>4 DEF Stages
  <1>7. Content'
    BY <1>1, <1>2 DEF SortInv, Content, SameItems
  <1>8. QED
    BY <1>5, <1>6, <1>7 DEF SortInv

\* A run that is found is reversed, or left as it is.
LEMMA FindRunIs ==
    ASSUME NEW s \in Seq(Item), NEW l \in 0 .. Len(s), NEW n \in 0 .. Len(s) - l
    PROVE  Rearranged(s, Take(s, l) \o Reverse(Take(Drop(s, l), n)) \o Drop(Drop(s, l), n),
                      l, l + n)
  <1> DEFINE t == Take(Drop(s, l), n)
             u == Reverse(t)
  <1>1. Len(s) \in Nat /\ l + n \in l .. Len(s) /\ (l + n) - l = n
    BY LenProperties
  <1>2. t = SubSeq(s, l + 1, l + n)
    BY DropTake
  <1>3. t \in Seq(Item) /\ Len(t) = n
    <2> HIDE DEF t
    <2>1. t \in Seq(Item) /\ Len(t) = (l + n) - l
      BY <1>1, <1>2, PartIs
    <2>2. QED
      BY <1>1, <2>1
  <1>4. ToSet(t) = Segment(s, l, l + n)
    BY <1>1, <1>2, PartSet
  <1> HIDE DEF t
  <1>5. u \in Seq(Item) /\ Len(u) = n /\ ToSet(u) = Segment(s, l, l + n)
    BY <1>3, <1>4, ReverseIs
  <1>6. Drop(Drop(s, l), n) = Drop(s, l + n)
    BY DropDrop
  <1> HIDE DEF u
  <1>7. Rearranged(s, Take(s, l) \o u \o Drop(s, l + n), l, l + n)
    BY <1>1, <1>5, PartReplaced
  <1>8. QED
    BY <1>6, <1>7 DEF u, t

LEMMA NextRunKeeps ==
    ASSUME SortInv, NextRun
    PROVE  SortInv'
  <1> DEFINE rest == Drop(slice, lo)
  <1>1. stage = "run" /\ stage' = "insert"
        /\ UNCHANGED <<input, ordered, reverse, shown, touched, pending, merge, minGallop>>
    BY DEF NextRun
  <1>2. lo' = lo /\ lo < Len(input)
    BY <1>1 DEF SortInv, Stages, lo
  <1>3. merge = NoMerge /\ merge' = NoMerge
    BY <1>1 DEF SortInv, Stages
  <1>4. lo \in 0 .. Len(slice) /\ Len(slice) \in Nat
    BY Facts
  <1>5. rest \in Seq(Item) /\ Len(rest) = Len(slice) - lo /\ Len(rest) \in Nat \ {0}
    <2>1. rest \in Seq(Item) /\ Len(rest) = Len(slice) - lo
      BY <1>4, Facts, DropIs
    <2> HIDE DEF rest
    <2>2. QED
      BY <1>2, <1>4, <2>1, Facts
  <1>6. \E n \in 1 .. Len(rest), down \in BOOLEAN : FindRun(n, down)
    <2>1. CASE Len(rest) = 1
      <3>1. FindRun(1, FALSE)
        BY <1>1, <2>1 DEF NextRun
      <3>2. 1 \in 1 .. Len(rest)
        BY <2>1
      <3>3. QED
        BY <3>1, <3>2
    <2>2. CASE Len(rest) # 1 /\ ordered
      <3>1. FindRun(CountRun(rest), Descending(rest, 2))
        BY <2>2 DEF NextRun
      <3>2. Len(rest) >= 2
        BY <1>5, <2>2
      <3>3. CountRun(rest) \in 2 .. Len(rest)
        BY <1>5, <3>2, CountRunIs
      <3>4. Descending(rest, 2) \in BOOLEAN
        BY DEF Descending, Lt
      <3> HIDE DEF rest
      <3>5. CountRun(rest) \in 1 .. Len(rest)
        BY <1>5, <3>3
      <3>6. QED
        BY <3>1, <3>4, <3>5
    <2>3. CASE Len(rest) # 1 /\ ~ordered
      <3>1. \E n \in 2 .. Len(rest), down \in BOOLEAN : FindRun(n, down)
        BY <2>3 DEF NextRun
      <3> HIDE DEF rest
      <3>2. \A n \in 2 .. Len(rest) : n \in 1 .. Len(rest)
        BY <1>5
      <3>3. QED
        BY <3>1, <3>2
    <2>4. QED
      BY <2>1, <2>2, <2>3
  <1>7. PICK n \in 1 .. Len(rest), down \in BOOLEAN : FindRun(n, down)
    BY <1>6
  <1>8. slice' \in Seq(Item) /\ Len(slice') = Len(slice) /\ ToSet(slice') = ToSet(slice)
    <2>1. CASE ~down
      BY <1>7, <2>1, Facts DEF FindRun
    <2>2. CASE down
      <3>1. n \in 0 .. Len(slice) - lo /\ lo + n \in lo .. Len(slice)
        BY <1>4, <1>5
      <3>2. slice' = Take(slice, lo) \o Reverse(Take(Drop(slice, lo), n)) \o Drop(Drop(slice, lo), n)
        BY <1>7, <2>2 DEF FindRun
      <3>3. Rearranged(slice, slice', lo, lo + n)
        BY <1>4, <3>1, <3>2, FindRunIs, Facts
      <3>4. ToSet(slice') = ToSet(slice)
        BY <1>4, <3>1, <3>3, RearrangedSet, Facts
      <3>5. QED
        BY <3>3, <3>4 DEF Rearranged
    <2>3. QED
      BY <2>1, <2>2
  <1>9. /\ run' \in [sorted : Nat, length : Nat] /\ run'.sorted <= run'.length
        /\ lo + run'.length <= Len(input) /\ run'.length # 0
    <2> DEFINE minrun == MinRun(Len(input))
               force == IF Len(rest) <= minrun THEN Len(rest) ELSE minrun
               length == IF n < minrun THEN force ELSE n
    <2>1. run' = [sorted |-> n, length |-> length]
      BY <1>7 DEF FindRun
    <2>2. minrun \in Nat
      BY Facts, MinRunTyped
    <2> HIDE DEF rest, minrun
    <2>3. n \in Nat \ {0} /\ length \in Nat /\ n <= length /\ length <= Len(rest) /\ length # 0
      BY <1>5, <1>7, <2>2
    <2> HIDE DEF length
    <2>4. lo + length <= Len(input)
      BY <1>2, <1>4, <1>5, <2>3, Facts
    <2>5. QED
      BY <2>1, <2>3, <2>4
  <1>10. SortTypeOK'
    <2>1. TypeOfMerge(merge)'
      BY <1>3 DEF TypeOfMerge
    <2>2. Adjacent(pending)'
      BY <1>1 DEF SortInv, SortTypeOK, Adjacent
    <2>3. QED
      BY <1>1, <1>2, <1>8, <1>9, <2>1, <2>2 DEF SortInv, SortTypeOK
  <1>11. Stages'
    BY <1>1, <1>3, <1>9 DEF Stages
  <1>12. Content'
    BY <1>1, <1>3, <1>8 DEF SortInv, Content, SameItems
  <1>13. QED
    BY <1>10, <1>11, <1>12 DEF SortInv

LEMMA JoinAssociative ==
    ASSUME NEW s \in Seq(Item), NEW t \in Seq(Item), NEW u \in Seq(Item)
    PROVE  (s \o t) \o u = s \o (t \o u)
  BY ConcatAssociative


\* One item is put among the sorted ones before it.
LEMMA InsertIs ==
    ASSUME NEW s \in Seq(Item), NEW l \in Nat, NEW n \in Nat, l + n + 1 <= Len(s),
           NEW k \in 0 .. n
    PROVE  LET before == SubSeq(s, l + 1, l + n)
               u == Take(before, k) \o <<s[l + n + 1]>> \o Drop(before, k)
           IN  /\ Take(s, l) \o Take(before, k) \o <<s[l + n + 1]>> \o Drop(before, k)
                  \o Drop(s, l + n + 1) = Take(s, l) \o u \o Drop(s, l + n + 1)
               /\ Rearranged(s, Take(s, l) \o u \o Drop(s, l + n + 1), l, l + n + 1)
               /\ \A i \in 1 .. n + 1 :
                     (Take(s, l) \o u \o Drop(s, l + n + 1))[l + i] = u[i]
  <1> DEFINE before == SubSeq(s, l + 1, l + n)
             x == s[l + n + 1]
             p == Take(s, l)
             a == Take(before, k)
             b == Drop(before, k)
             d == Drop(s, l + n + 1)
             e == <<x>>
             u == a \o e \o b
  <1>1. /\ Len(s) \in Nat /\ l \in 0 .. Len(s) /\ l + n \in l .. Len(s)
        /\ l + n + 1 \in l .. Len(s) /\ l + n + 1 \in 0 .. Len(s) /\ l + n + 1 \in l + n .. Len(s)
        /\ l + n + 1 \in 1 .. Len(s) /\ l + n \in 0 .. Len(s) /\ (l + n) - l = n
    BY LenProperties
  <1>2. p \in Seq(Item)
    BY <1>1, TakeIs
  <1>3. d \in Seq(Item)
    BY <1>1, DropIs
  <1>4. before \in Seq(Item) /\ Len(before) = n
    <2> HIDE DEF before
    <2>1. before \in Seq(Item) /\ Len(before) = (l + n) - l
      BY <1>1, PartIs DEF before
    <2>2. QED
      BY <1>1, <2>1
  <1>5. ToSet(before) = Segment(s, l, l + n)
    BY <1>1, PartSet
  <1>6. x \in Item
    BY <1>1, ElementOfSeq
  <1> HIDE DEF p, d, before, x
  <1>7. a \in Seq(Item) /\ Len(a) = k
    BY <1>4, TakeIs
  <1>8. b \in Seq(Item) /\ Len(b) = n - k
    <2>1. b \in Seq(Item) /\ Len(b) = Len(before) - k
      BY <1>4, DropIs
    <2> HIDE DEF b
    <2>2. QED
      BY <1>4, <2>1
  <1>9. ToSet(before) = ToSet(a) \cup ToSet(b)
    BY <1>4, SplitIs
  <1>10. e \in Seq(Item) /\ Len(e) = 1 /\ ToSet(e) = {x}
    <2>1. e \in Seq(Item) /\ Len(e) = 1 /\ e[1] = x
      BY <1>6
    <2> HIDE DEF e
    <2>2. \A y : y \in ToSet(e) <=> \E i \in 1 .. 1 : y = e[i]
      BY <2>1, ToSetIs
    <2>3. \A i \in 1 .. 1 : i = 1
      OBVIOUS
    <2>4. 1 \in 1 .. 1
      OBVIOUS
    <2>5. QED
      BY <2>1, <2>2, <2>3, <2>4
  <1> HIDE DEF a, b, e
  <1>20. a \in Seq(Item) /\ b \in Seq(Item) /\ e \in Seq(Item)
    BY <1>7, <1>8, <1>10
  <1>11. /\ u \in Seq(Item) /\ Len(u) = Len(a) + Len(e) + Len(b)
         /\ ToSet(u) = ToSet(a) \cup ToSet(e) \cup ToSet(b)
    BY <1>20, Join3Is
  <1>12. a \o e \in Seq(Item)
    BY <1>7, <1>10, JoinIs
  <1>13. p \o a \o e \o b \o d = p \o u \o d
    <2>1. p \in Seq(Item)
      BY <1>2
    <2> DEFINE h == a \o e
    <2>2. h \in Seq(Item)
      BY <1>12
    <2>3. (p \o a) \o e = p \o h
      BY <1>20, <2>1, JoinAssociative
    <2>4. h \o b = u
      OBVIOUS
    <2> HIDE DEF h, u
    <2>5. (p \o h) \o b = p \o (h \o b)
      <3>1. p \in Seq(Item) /\ h \in Seq(Item) /\ b \in Seq(Item)
        BY <1>20, <2>1, <2>2
      <3> HIDE DEF p
      <3>2. QED
        BY <3>1, JoinAssociative
    <2> DEFINE f == (p \o a) \o e
               g == p \o h
    <2>6. f = g /\ g \o b = p \o u
      BY <2>3, <2>4, <2>5
    <2>7. f \o b \o d = p \o u \o d
      <3> HIDE DEF f, g
      <3>1. f \o b = p \o u
        BY <2>6
      <3>2. QED
        BY <3>1
    <2>8. QED
      BY <2>7
  <1>14. Segment(s, l, l + n + 1) = Segment(s, l, l + n) \cup {x}
    <2>1. Segment(s, l, l + n + 1) = Segment(s, l, l + n) \cup Segment(s, l + n, l + n + 1)
      <3>1. l + n \in Nat /\ l + n + 1 \in Nat /\ l <= l + n /\ l + n <= l + n + 1
        OBVIOUS
      <3>2. QED
        BY <3>1, PartsSet
    <2>2. Segment(s, l + n, l + n + 1) = {x}
      <3>1. l + n + 1 .. l + n + 1 = {l + n + 1}
        OBVIOUS
      <3>2. QED
        BY <3>1 DEF Segment, x
    <2>3. QED
      BY <2>1, <2>2
  <1>15. Len(u) = (l + n + 1) - l /\ (l + n + 1) - l = n + 1
    BY <1>7, <1>8, <1>10, <1>11
  <1>16. ToSet(u) = Segment(s, l, l + n + 1)
    BY <1>5, <1>9, <1>10, <1>11, <1>14
  <1> HIDE DEF u
  <1>17. /\ Rearranged(s, Take(s, l) \o u \o Drop(s, l + n + 1), l, l + n + 1)
         /\ \A i \in 1 .. (l + n + 1) - l :
               (Take(s, l) \o u \o Drop(s, l + n + 1))[l + i] = u[i]
    BY <1>1, <1>11, <1>15, <1>16, PartReplaced
  <1>18. \A i \in 1 .. n + 1 : (Take(s, l) \o u \o Drop(s, l + n + 1))[l + i] = u[i]
    BY <1>15, <1>17
  <1>19. QED
    BY <1>13, <1>17, <1>18 DEF u, a, b, e, d, p, before, x

LEMMA InsertKeeps ==
    ASSUME SortInv, InsertNext
    PROVE  SortInv'
  <1> DEFINE before == SubSeq(slice, lo + 1, lo + run.sorted)
             pivot == slice[lo + run.sorted + 1]
  <1>1. stage = "insert" /\ stage' = "insert" /\ run.sorted < run.length
        /\ run' = [run EXCEPT !.sorted = @ + 1]
        /\ UNCHANGED <<input, ordered, reverse, shown, touched, pending, merge, minGallop>>
    BY DEF InsertNext
  <1>2. lo' = lo
    BY <1>1 DEF lo
  <1>3. merge = NoMerge /\ merge' = NoMerge
    BY <1>1 DEF SortInv, Stages
  <1>4. /\ lo \in 0 .. Len(slice) /\ Len(slice) \in Nat /\ lo \in Nat /\ run.sorted \in Nat
        /\ lo + run.sorted + 1 <= Len(slice) /\ lo + run.sorted \in lo .. Len(slice)
    <2> DEFINE x == run.sorted
               y == run.length
               z == Len(slice)
    <2>1. x \in Nat /\ y \in Nat /\ z \in Nat /\ lo \in Nat /\ lo + y <= z /\ x < y /\ lo <= z
      BY <1>1, Facts
    <2> HIDE DEF x, y, z
    <2>2. lo \in 0 .. z /\ lo + x + 1 <= z /\ lo + x \in lo .. z
      BY <2>1
    <2>3. QED
      BY <2>1, <2>2 DEF x, y, z
  <1>5. PICK k \in Found(BehindEquals(before, pivot), run.sorted) :
            slice' = Take(slice, lo) \o Take(before, k) \o <<pivot>>
                     \o Drop(before, k) \o Drop(slice, lo + run.sorted + 1)
    BY DEF InsertNext
  <1>6. Len(before) = run.sorted
    <2> HIDE DEF before
    <2>1. Len(before) = (lo + run.sorted) - lo
      BY <1>4, PartIs, Facts DEF before
    <2>2. QED
      BY <1>4, <2>1
  <1>7. k \in 0 .. run.sorted
    <2> HIDE DEF before, pivot
    <2>1. BehindEquals(before, pivot) \in 0 .. run.sorted
      <3>1. 0 \in 0 .. run.sorted
        BY <1>4
      <3>2. QED
        BY <1>4, <1>6, <3>1, BisectFinds DEF BehindEquals
    <2>2. QED
      BY <2>1 DEF Found
  <1>8. Rearranged(slice, slice', lo, lo + run.sorted + 1)
    <2> DEFINE n == run.sorted
    <2>1. n \in Nat /\ lo + n + 1 <= Len(slice) /\ k \in 0 .. n
      BY <1>4, <1>7
    <2>2. slice' = Take(slice, lo) \o Take(SubSeq(slice, lo + 1, lo + n), k) \o <<slice[lo + n + 1]>>
                   \o Drop(SubSeq(slice, lo + 1, lo + n), k) \o Drop(slice, lo + n + 1)
      BY <1>5
    <2> HIDE DEF n
    <2>3. Rearranged(slice, slice', lo, lo + n + 1)
      BY <1>4, <2>1, <2>2, InsertIs, Facts
    <2>4. QED
      BY <2>3 DEF n
  <1>9. ToSet(slice') = ToSet(slice)
    <2>1. lo + run.sorted + 1 \in lo .. Len(slice)
      BY <1>4
    <2>2. QED
      BY <1>4, <1>8, <2>1, RearrangedSet, Facts
  <1>10. slice' \in Seq(Item) /\ Len(slice') = Len(slice)
    BY <1>8 DEF Rearranged
  <1>11. /\ run' \in [sorted : Nat, length : Nat] /\ run'.sorted <= run'.length
         /\ run'.length = run.length
    <2> DEFINE x == run.sorted
               y == run.length
    <2>1. run' = [sorted |-> x + 1, length |-> y]
      BY <1>1 DEF SortInv, SortTypeOK
    <2>2. x \in Nat /\ y \in Nat /\ x < y
      BY <1>1, Facts
    <2> HIDE DEF x, y
    <2>3. x + 1 \in Nat /\ x + 1 <= y
      BY <2>2
    <2>4. QED
      BY <2>1, <2>2, <2>3 DEF y
  <1>12. SortTypeOK'
    <2>1. TypeOfMerge(merge)'
      BY <1>3 DEF TypeOfMerge
    <2>2. Adjacent(pending)'
      BY <1>1 DEF SortInv, SortTypeOK, Adjacent
    <2>3. QED
      BY <1>1, <1>2, <1>10, <1>11, <2>1, <2>2 DEF SortInv, SortTypeOK
  <1>13. Stages'
    BY <1>1, <1>3, <1>11 DEF Stages, SortInv
  <1>14. Content'
    BY <1>1, <1>3, <1>9, <1>10 DEF SortInv, Content, SameItems
  <1>15. QED
    BY <1>12, <1>13, <1>14 DEF SortInv

LEMMA PushKeeps ==
    ASSUME SortInv, Push
    PROVE  SortInv'
  <1>1. /\ stage = "insert" /\ stage' = "collapse" /\ run.sorted = run.length
        /\ pending' = Append(pending, [base |-> lo, len |-> run.length])
        /\ run' = [sorted |-> 0, length |-> 0]
        /\ UNCHANGED <<input, ordered, reverse, shown, touched, slice, merge, minGallop>>
    BY DEF Push
  <1>2. merge = NoMerge /\ merge' = NoMerge
    BY <1>1 DEF SortInv, Stages
  <1>3. run.length \in Nat \ {0}
    BY <1>1, Facts DEF SortInv, Stages
  <1>4. pending' \in Seq(Slice) /\ Adjacent(pending') /\ lo' = lo + run.length /\ pending' # << >>
    <2>1. pending' = Append(pending, [base |-> End(pending), len |-> run.length])
      BY <1>1 DEF lo
    <2>2. /\ pending' \in Seq(Slice) /\ Adjacent(pending') /\ pending' # << >>
          /\ End(pending') = End(pending) + run.length
      BY <1>3, <2>1, StackPushed, Facts
    <2>3. QED
      BY <2>2 DEF lo
  <1>5. Adjacent(pending)'
    BY <1>4 DEF Adjacent
  <1>6. /\ run' \in [sorted : Nat, length : Nat] /\ run'.sorted <= run'.length
        /\ lo' + run'.length <= Len(input)
    <2>1. run'.sorted = 0 /\ run'.length = 0
      BY <1>1
    <2>2. lo + run.length <= Len(input) /\ lo + run.length \in Nat
      BY <1>3, Facts
    <2>3. lo' + 0 <= Len(input)
      BY <1>4, <2>2
    <2>4. QED
      BY <1>1, <2>1, <2>3
  <1>7. SortTypeOK'
    <2>1. TypeOfMerge(merge)'
      BY <1>2 DEF TypeOfMerge
    <2>2. QED
      BY <1>1, <1>4, <1>5, <1>6, <2>1 DEF SortInv, SortTypeOK
  <1>8. Stages'
    BY <1>1, <1>2, <1>4 DEF Stages
  <1>9. Content'
    BY <1>1, <1>2 DEF SortInv, Content, SameItems
  <1>10. QED
    BY <1>7, <1>8, <1>9 DEF SortInv

\* One run is left when no two are to be merged.
LEMMA EndCollapseKeeps ==
    ASSUME SortInv, EndCollapse
    PROVE  SortInv'
  <1>1. /\ stage \in {"collapse", "force"} /\ merge = NoMerge /\ MergePlace = 0
        /\ UNCHANGED <<input, ordered, reverse, shown, touched, slice, run, pending,
                       merge, minGallop>>
        /\ stage' = (CASE stage = "force" -> "sorted"
                      [] stage = "collapse" /\ lo < Len(input) -> "run"
                      [] OTHER -> "force")
    BY DEF EndCollapse
  <1>2. /\ stage = "force" => stage' = "sorted"
        /\ stage = "collapse" => stage' = IF lo < Len(input) THEN "run" ELSE "force"
    BY <1>1
  <1>3. pending # << >> /\ (stage = "force" => lo = Len(input))
    BY <1>1 DEF SortInv, Stages
  <1>4. lo' = lo /\ merge' = NoMerge
    BY <1>1 DEF lo
  <1>5. ASSUME stage = "force"
        PROVE  pending = <<[base |-> 0, len |-> Len(input)]>>
    <2>1. ForceAt(pending) = 0
      BY <1>1, <1>5 DEF MergePlace
    <2>2. Len(pending) \in Nat \ {0}
      BY <1>3, Facts, EmptySeq
    <2>3. Len(pending) = 1
      <3> DEFINE n == Len(pending) - 1
                 small == pending[n - 1].len < pending[n + 1].len
      <3>1. n \in Nat /\ (IF n > 1 /\ small THEN n - 1 ELSE n) = 0
        BY <2>1, <2>2 DEF ForceAt
      <3> HIDE DEF small
      <3>2. n = 0
        <4> HIDE DEF n
        <4>1. QED
          BY <3>1
      <3>3. QED
        BY <2>2, <3>2
    <2>4. 1 \in 1 .. Len(pending)
      BY <2>3
    <2>5. /\ pending[1] \in Slice /\ pending[1].base = EndOf(pending, 1 - 1)
          /\ End(pending) = EndOf(pending, 1)
      BY <2>3, <2>4, EndIs, StackIs, Facts
    <2>6. pending[1].base = 0
      BY <2>5 DEF EndOf
    <2>7. pending[1].base + pending[1].len = Len(input)
      BY <1>3, <1>5, <2>5 DEF EndOf, lo
    <2>8. pending[1].len = Len(input)
      <3> DEFINE x == pending[1].len
                 y == Len(input)
      <3>1. x \in Nat /\ 0 + x = y
        BY <2>5, <2>6, <2>7 DEF Slice
      <3> HIDE DEF x, y
      <3>2. x = y
        BY <3>1
      <3>3. QED
        BY <3>2 DEF x, y
    <2>9. pending[1] = [base |-> 0, len |-> Len(input)]
      BY <2>5, <2>6, <2>8 DEF Slice
    <2>10. pending = <<pending[1]>>
      <3> DEFINE t == <<pending[1]>>
      <3>1. t \in Seq(Slice) /\ Len(t) = 1 /\ t[1] = pending[1]
        BY <2>5
      <3> HIDE DEF t
      <3>2. \A i \in 1 .. Len(pending) : i = 1
        BY <2>3
      <3>3. \A i \in 1 .. Len(pending) : pending[i] = t[i]
        BY <3>1, <3>2
      <3>4. pending \in Seq(Slice) /\ Len(pending) = Len(t)
        BY <2>3, <3>1, Facts
      <3>5. pending = t
        BY <3>1, <3>3, <3>4, SeqEqual
      <3>6. QED
        BY <3>5 DEF t
    <2>11. QED
      BY <2>9, <2>10
  <1>6. SortTypeOK'
    <2>1. TypeOfMerge(merge)'
      BY <1>4 DEF TypeOfMerge
    <2>2. Adjacent(pending)'
      BY <1>1 DEF SortInv, SortTypeOK, Adjacent
    <2>3. stage' = "sorted" => stage = "force"
      BY <1>1, <1>2
    <2>4. (stage = "sorted" /\ Len(input) > 1 => pending = <<[base |-> 0, len |-> Len(input)]>>)'
      BY <1>1, <1>5, <2>3
    <2>5. QED
      BY <1>1, <1>2, <1>4, <2>1, <2>2, <2>4 DEF SortInv, SortTypeOK
  <1>7. Stages'
    <2>1. ~(lo < Len(input)) => lo = Len(input)
      BY Facts
    <2>2. QED
      BY <1>1, <1>2, <1>3, <1>4, <2>1 DEF Stages
  <1>8. Content'
    BY <1>1, <1>2, <1>4 DEF SortInv, Content, SameItems
  <1>9. QED
    BY <1>6, <1>7, <1>8 DEF SortInv

\* A merge goes on, or ends, or there is nothing to merge.
LEMMA MergeStepKeeps ==
    ASSUME SortInv, stage \in {"collapse", "force"},
           UNCHANGED <<input, ordered, reverse, shown, touched, run, stage>>,
           pending' \in Seq(Slice), Adjacent(pending'), pending' # << >>, lo' = lo,
           minGallop' \in Nat \ {0},
           \/ UNCHANGED <<slice, merge>>
           \/ \E m : MergeFits(m, slice) /\ Counts(m) /\ m.out # << >> /\ Continue(m)
    PROVE  SortInv'
  <1>1. /\ slice' \in Seq(Item) /\ Len(slice') = Len(slice) /\ ToSet(slice') = ToSet(slice)
        /\ merge' # NoMerge => MergeFits(merge', slice')
        /\ TypeOfMerge(merge)'
    <2>1. CASE UNCHANGED <<slice, merge>>
      <3>1. TypeOfMerge(merge)' /\ slice' \in Seq(Item)
        BY <2>1 DEF SortInv, SortTypeOK, TypeOfMerge
      <3>2. merge' # NoMerge => MergeFits(merge', slice')
        BY <2>1 DEF SortInv, Content
      <3>3. QED
        BY <2>1, <3>1, <3>2
    <2>2. CASE \E m : MergeFits(m, slice) /\ Counts(m) /\ m.out # << >> /\ Continue(m)
      <3>1. PICK m : MergeFits(m, slice) /\ Counts(m) /\ m.out # << >> /\ Continue(m)
        BY <2>2
      <3>2. slice \in Seq(Item)
        BY Facts
      <3>3. QED
        BY <3>1, <3>2, ContinueIs
    <2>3. QED
      BY <2>1, <2>2
  <1>2. SortTypeOK'
    <2>1. Adjacent(pending)'
      BY DEF Adjacent
    <2>2. QED
      BY <1>1, <2>1 DEF SortInv, SortTypeOK
  <1>3. Stages'
    BY DEF SortInv, Stages
  <1>4. Content'
    BY <1>1 DEF SortInv, Content, SameItems
  <1>5. QED
    BY <1>2, <1>3, <1>4 DEF SortInv

LEMMA MergePlaceIs ==
    ASSUME SortInv, MergePlace # 0
    PROVE  /\ merge = NoMerge /\ stage \in {"collapse", "force"}
           /\ MergePlace \in 1 .. Len(pending) - 1
  <1>1. merge = NoMerge
    BY DEF MergePlace
  <1>2. /\ stage = "collapse" => MergePlace = CollapseAt(pending)
        /\ stage = "force" => MergePlace = ForceAt(pending)
        /\ stage \notin {"collapse", "force"} => MergePlace = 0
    BY <1>1 DEF MergePlace
  <1> DEFINE n == Len(pending) - 1
             i == MergePlace
  <1>3. stage \in {"collapse", "force"}
    BY <1>2
  <1>4. n \in Nat
    <2>1. pending # << >>
      BY <1>3 DEF SortInv, Stages
    <2>2. Len(pending) \in Nat \ {0}
      BY <2>1, EmptySeq, Facts
    <2>3. QED
      BY <2>2
  <1>5. \/ n > 1 /\ (i = n - 1 \/ i = n)
        \/ n > 0 /\ i = n
        \/ i = 0
        \/ i = n
    BY <1>2, <1>3 DEF CollapseAt, ForceAt
  <1>6. i # 0
    OBVIOUS
  <1> HIDE DEF n, i
  <1>7. i \in 1 .. n
    BY <1>4, <1>5, <1>6
  <1>8. QED
    BY <1>1, <1>3, <1>7 DEF n, i

LEMMA FoundIn ==
    ASSUME NEW n, NEW f \in 0 .. n, NEW k \in Found(f, n)
    PROVE  k \in 0 .. n
  BY DEF Found

LEMMA GallopIn ==
    ASSUME NEW s \in Seq(Item), NEW x, NEW hint \in 0 .. Len(s) - 1
    PROVE  GallopLeft(x, s, hint) \in 0 .. Len(s) /\ GallopRight(x, s, hint) \in 0 .. Len(s)
  <1>1. Len(s) \in Nat
    BY LenProperties
  <1>2. QED
    BY <1>1, GallopFinds DEF GallopLeft, GallopRight

\* What the first step of a merge of two runs does.
LEMMA StartMergeIs ==
    ASSUME slice \in Seq(Item), NEW l \in Nat, NEW x \in Nat, NEW y \in Nat,
           l + x + y <= Len(slice), NEW k \in 0 .. x, NEW n \in 0 .. y,
           StartMerge(l, SubSeq(slice, l + 1, l + x), SubSeq(slice, l + x + 1, l + x + y), k, n)
    PROVE  \/ UNCHANGED <<slice, merge>>
           \/ \E m : MergeFits(m, slice) /\ Counts(m) /\ m.out # << >> /\ Continue(m)
  <1> DEFINE a == SubSeq(slice, l + 1, l + x)
             b == SubSeq(slice, l + x + 1, l + x + y)
             dir == IF Len(a) - k <= n THEN "lo" ELSE "hi"
             m == Opening(slice, l, x, y, k, n, dir)
  <1>1. Len(a) = x
    <2>1. l \in 0 .. Len(slice) /\ l + x \in l .. Len(slice) /\ (l + x) - l = x
      BY LenProperties
    <2> HIDE DEF a
    <2>2. Len(a) = (l + x) - l
      BY <2>1, PartIs DEF a
    <2>3. QED
      BY <2>1, <2>2
  <1>2. dir \in {"lo", "hi"}
    OBVIOUS
  <1> HIDE DEF dir
  <1>3. /\ MergeFits(m, slice) /\ Counts(m) /\ Len(m.a) = x - k /\ Len(m.b) = n
        /\ m.out = << >> /\ m.acount = 0 /\ m.bcount = 0
    <2>1. Neighbours(slice, l, x, y)
      BY DEF Neighbours
    <2>2. Opened(m, slice, x - k, n)
      BY <1>2, <2>1, MergeBegins
    <2> HIDE DEF m
    <2>3. QED
      BY <2>2 DEF Opened
  <1>4. IF k = Len(a) \/ n = 0 THEN UNCHANGED <<slice, merge>>
        ELSE Continue(IF m.dir = "lo" THEN MoveB(m, 1) ELSE MoveA(m, 1))
    BY DEF StartMerge, dir, Opening
  <1> HIDE DEF m, a, b
  <1>6. CASE k = x \/ n = 0
    BY <1>1, <1>4, <1>6
  <1>7. CASE ~(k = x \/ n = 0)
    <2>1. 1 <= Len(m.a) /\ 1 <= Len(m.b) /\ 1 \in Nat
      BY <1>3, <1>7
    <2> DEFINE o == IF m.dir = "lo" THEN MoveB(m, 1) ELSE MoveA(m, 1)
    <2>2. MergeFits(o, slice) /\ Len(o.out) = Len(m.out) + 1 /\ o.acount = 0 /\ o.bcount = 0
      BY <1>3, <2>1, FitsMoved
    <2>3. Continue(o)
      BY <1>1, <1>4, <1>7
    <2> HIDE DEF o
    <2>4. Len(o.out) = 1
      BY <1>3, <2>2, EmptySeq
    <2>5. Counts(o) /\ o.out # << >>
      BY <2>2, <2>4, EmptySeq DEF Counts
    <2>6. QED
      BY <2>2, <2>3, <2>5
  <1>8. QED
    BY <1>6, <1>7

LEMMA MergeAtKeeps ==
    ASSUME SortInv, MergeAt
    PROVE  SortInv'
  <1> DEFINE i == MergePlace
             p == pending[i]
             q == pending[i + 1]
             a == SubSeq(slice, p.base + 1, p.base + p.len)
             b == SubSeq(slice, q.base + 1, q.base + q.len)
  <1>1. /\ MergePlace # 0
        /\ UNCHANGED <<input, ordered, reverse, shown, touched, run, minGallop, stage>>
        /\ pending' = Take(pending, i - 1) \o <<[p EXCEPT !.len = @ + q.len]>>
                      \o Drop(pending, i + 1)
        /\ \E k \in Found(GallopRight(b[1], a, 0), Len(a)) :
              IF k = Len(a) THEN UNCHANGED <<slice, merge>>
              ELSE \E n \in Found(GallopLeft(Last(a), b, Len(b) - 1), Len(b)) :
                      StartMerge(p.base, a, b, k, n)
    BY DEF MergeAt
  <1>2. stage \in {"collapse", "force"} /\ i \in 1 .. Len(pending) - 1
    BY <1>1, MergePlaceIs
  <1>3. Len(pending) \in Nat /\ i \in 1 .. Len(pending) /\ i + 1 \in 1 .. Len(pending)
        /\ (i + 1) - 1 = i /\ i + 1 \in 0 .. Len(pending)
    <2> HIDE DEF i
    <2>1. Len(pending) \in Nat
      BY Facts, LenProperties
    <2>2. QED
      BY <1>2, <2>1
  <1> HIDE DEF i
  <1>4. /\ pending' \in Seq(Slice) /\ Adjacent(pending') /\ pending' # << >> /\ lo' = lo
    <2>1. /\ pending' \in Seq(Slice) /\ Adjacent(pending') /\ pending' # << >>
          /\ End(pending') = End(pending)
      BY <1>1, <1>2, Facts, StackMerged
    <2>2. QED
      BY <2>1 DEF lo
  <1>5. /\ p.base \in Nat /\ p.len \in Nat \ {0} /\ q.len \in Nat \ {0}
        /\ q.base = p.base + p.len
        /\ p.base + p.len + q.len <= Len(slice)
    <2>1. /\ p.base \in Nat /\ p.len \in Nat \ {0} /\ p.base = EndOf(pending, i - 1)
          /\ EndOf(pending, i) = EndOf(pending, i - 1) + p.len
      BY <1>3, Facts, StackIs
    <2>2. /\ q.len \in Nat \ {0} /\ q.base = EndOf(pending, i)
          /\ EndOf(pending, i + 1) = EndOf(pending, i) + q.len
      BY <1>3, Facts, StackIs
    <2>3. EndOf(pending, i + 1) <= lo
      BY <1>3, Facts, StackIs DEF lo
    <2>4. lo <= Len(slice) /\ lo \in Nat /\ Len(slice) \in Nat
      BY Facts
    <2> DEFINE x == p.base
               y == p.len
               z == q.len
               e == EndOf(pending, i + 1)
               w == Len(slice)
    <2>5. x \in Nat /\ y \in Nat /\ z \in Nat /\ e = x + y + z /\ e <= lo /\ lo <= w
          /\ lo \in Nat /\ w \in Nat
      BY <2>1, <2>2, <2>3, <2>4
    <2>6. q.base = x + y
      BY <2>1, <2>2
    <2> HIDE DEF x, y, z, e, w
    <2>7. x + y + z <= w
      BY <2>5
    <2>8. QED
      BY <2>1, <2>2, <2>6, <2>7 DEF x, y, z, w
  <1> DEFINE l == p.base
             x == p.len
             y == q.len
  <1>6. l \in Nat /\ x \in Nat \ {0} /\ y \in Nat \ {0} /\ l + x + y <= Len(slice) /\ q.base = l + x
    BY <1>5
  <1>7. a = SubSeq(slice, l + 1, l + x) /\ b = SubSeq(slice, l + x + 1, l + x + y)
    BY <1>6
  <1> HIDE DEF l, x, y, p, q, a, b
  <1>8. a \in Seq(Item) /\ Len(a) = x /\ b \in Seq(Item) /\ Len(b) = y
    <2>1. /\ slice \in Seq(Item) /\ Len(slice) \in Nat
          /\ l \in 0 .. Len(slice) /\ l + x \in l .. Len(slice)
          /\ l + x \in 0 .. Len(slice) /\ l + x + y \in l + x .. Len(slice)
          /\ (l + x) - l = x /\ (l + x + y) - (l + x) = y
      BY <1>6, Facts
    <2>2. a \in Seq(Item) /\ Len(a) = (l + x) - l
      BY <1>7, <2>1, PartIs
    <2>3. b \in Seq(Item) /\ Len(b) = (l + x + y) - (l + x)
      BY <1>7, <2>1, PartIs
    <2>4. QED
      BY <2>1, <2>2, <2>3
  <1>9. GallopRight(b[1], a, 0) \in 0 .. x
    <2>1. 0 \in 0 .. Len(a) - 1
      BY <1>6, <1>8
    <2>2. QED
      BY <1>8, <2>1, GallopIn
  <1>10. GallopLeft(Last(a), b, Len(b) - 1) \in 0 .. y
    <2>1. Len(b) - 1 \in 0 .. Len(b) - 1
      BY <1>6, <1>8
    <2>2. QED
      BY <1>8, <2>1, GallopIn
  <1>11. PICK k \in Found(GallopRight(b[1], a, 0), Len(a)) :
              IF k = Len(a) THEN UNCHANGED <<slice, merge>>
              ELSE \E n \in Found(GallopLeft(Last(a), b, Len(b) - 1), Len(b)) :
                      StartMerge(l, a, b, k, n)
    BY <1>1 DEF l, p, q, a, b
  <1>12. k \in 0 .. x
    BY <1>8, <1>9, FoundIn
  <1>13. \/ UNCHANGED <<slice, merge>>
         \/ \E m : MergeFits(m, slice) /\ Counts(m) /\ m.out # << >> /\ Continue(m)
    <2>1. CASE k = Len(a)
      BY <1>11, <2>1
    <2>2. CASE k # Len(a)
      <3>1. PICK n \in Found(GallopLeft(Last(a), b, Len(b) - 1), Len(b)) :
                 StartMerge(l, a, b, k, n)
        BY <1>11, <2>2
      <3>2. n \in 0 .. y
        BY <1>8, <1>10, FoundIn
      <3>3. slice \in Seq(Item) /\ x \in Nat /\ y \in Nat
        BY <1>6, Facts
      <3>4. StartMerge(l, SubSeq(slice, l + 1, l + x), SubSeq(slice, l + x + 1, l + x + y), k, n)
        BY <1>7, <3>1
      <3>5. QED
        BY <1>6, <1>12, <3>2, <3>3, <3>4, StartMergeIs
    <2>3. QED
      BY <2>1, <2>2
  <1>14. minGallop' \in Nat \ {0}
    BY <1>1 DEF SortInv, SortTypeOK
  <1>15. QED
    BY <1>1, <1>2, <1>4, <1>13, <1>14, MergeStepKeeps

\* What is known of the merge under way.
LEMMA MergeFacts ==
    ASSUME SortInv, merge # NoMerge
    PROVE  /\ MergeFits(merge, slice) /\ merge \in Merge /\ Counts(merge)
           /\ stage \in {"collapse", "force"}
           /\ merge.a \in Seq(Item) /\ merge.b \in Seq(Item)
           /\ Len(merge.a) \in Nat \ {0} /\ Len(merge.b) \in Nat \ {0}
           /\ Len(merge.out) \in Nat \ {0} /\ merge.acount \in Nat /\ merge.bcount \in Nat
  <1>1. MergeFits(merge, slice) /\ stage \in {"collapse", "force"}
    BY DEF SortInv, Content, Stages
  <1>2. merge \in Merge
    BY <1>1 DEF MergeFits
  <1>3. /\ merge.a # << >> /\ merge.b # << >> /\ merge.out # << >>
        /\ merge.acount <= Len(merge.out) /\ merge.bcount <= Len(merge.out)
    BY DEF SortInv, SortTypeOK, TypeOfMerge
  <1>4. merge.acount \in Nat /\ merge.bcount \in Nat
    BY <1>2 DEF Merge
  <1>5. /\ merge.a \in Seq(Item) /\ merge.b \in Seq(Item)
        /\ Len(merge.a) \in Nat /\ Len(merge.b) \in Nat /\ Len(merge.out) \in Nat
        /\ merge.a = << >> <=> Len(merge.a) = 0
        /\ merge.b = << >> <=> Len(merge.b) = 0
        /\ merge.out = << >> <=> Len(merge.out) = 0
    BY <1>2, MergeLengths
  <1>6. QED
    BY <1>1, <1>2, <1>3, <1>4, <1>5 DEF Counts

\* What a step that moves items hands to Continue.
Ready(m) == MergeFits(m, slice) /\ Counts(m) /\ m.out # << >>

LEMMA ReadyIs ==
    ASSUME NEW o, MergeFits(o, slice), NEW m, m \in Merge, m.base = o.base,
           m.a = o.a, m.b = o.b, m.out = o.out, NEW n \in Nat \ {0}, Len(o.out) = n,
           m.acount <= n, m.bcount <= n
    PROVE  Ready(m)
  <1>1. MergeFits(m, slice)
    BY FitsCounted
  <1>2. Counts(m) /\ m.out # << >>
    BY EmptySeq DEF Counts
  <1>3. QED
    BY <1>1, <1>2 DEF Ready

LEMMA StepKeeps ==
    ASSUME SortInv, merge # NoMerge, NEW m, Ready(m), Continue(m),
           UNCHANGED <<input, ordered, reverse, shown, touched, run, pending, stage>>,
           minGallop' \in Nat \ {0}
    PROVE  SortInv'
  <1>1. stage \in {"collapse", "force"}
    BY MergeFacts
  <1>2. /\ pending' \in Seq(Slice) /\ Adjacent(pending') /\ lo' = lo
    BY Facts DEF lo
  <1>3. pending' # << >>
    BY <1>1 DEF SortInv, Stages
  <1>4. \E n : MergeFits(n, slice) /\ Counts(n) /\ n.out # << >> /\ Continue(n)
    BY DEF Ready
  <1>5. QED
    BY <1>1, <1>2, <1>3, <1>4, MergeStepKeeps

LEMMA StraightKeeps ==
    ASSUME SortInv, Straight
    PROVE  SortInv'
  <1> DEFINE m == merge
             moved(less) == IF less <=> m.dir = "lo"
                            THEN [MoveB(m, 1) EXCEPT !.bcount = @ + 1, !.acount = 0]
                            ELSE [MoveA(m, 1) EXCEPT !.acount = @ + 1, !.bcount = 0]
             wins(less) == moved(less).acount >= minGallop \/ moved(less).bcount >= minGallop
             next(less) == [moved(less) EXCEPT !.mode = IF wins(less) THEN "gallop a" ELSE @]
  <1>1. /\ merge # NoMerge
        /\ UNCHANGED <<input, ordered, reverse, shown, touched, run, pending, minGallop, stage>>
    BY DEF Straight, MergeMode
  <1>2. PICK less \in BOOLEAN : Continue(next(less))
    <2>1. BLess(m) \in BOOLEAN
      <3>1. CASE m.dir = "lo"
        BY <3>1 DEF BLess, Lt
      <3>2. CASE m.dir # "lo"
        BY <3>2 DEF BLess, Lt
      <3>3. QED
        BY <3>1, <3>2
    <2>2. \E less \in IF ordered THEN {BLess(merge)} ELSE BOOLEAN : Continue(next(less))
      BY DEF Straight
    <2> HIDE DEF next, m
    <2>3. QED
      BY <2>1, <2>2 DEF m
  <1>3. /\ MergeFits(m, slice) /\ m \in Merge /\ Counts(m)
        /\ Len(m.a) \in Nat \ {0} /\ Len(m.b) \in Nat \ {0} /\ Len(m.out) \in Nat
        /\ m.acount \in Nat /\ m.bcount \in Nat
    BY <1>1, MergeFacts
  <1>4. Ready(next(less))
    <2>1. CASE less <=> m.dir = "lo"
      <3> DEFINE o == MoveB(m, 1)
                 n == Len(m.out) + 1
                 c == m.bcount + 1
      <3>1. 1 <= Len(m.b) /\ 1 \in Nat
        BY <1>3
      <3>2. MergeFits(o, slice) /\ Len(o.out) = n /\ o.acount = m.acount /\ o.bcount = m.bcount
        BY <1>3, <3>1, FitsMoved
      <3>3. o \in Merge
        BY <3>2 DEF MergeFits
      <3>4. n \in Nat \ {0} /\ c <= n /\ c \in Nat /\ 0 <= n
        BY <1>3 DEF Counts
      <3>5. PICK mode \in {"single", "gallop a", "gallop b"} :
               next(less) = [o EXCEPT !.bcount = c, !.acount = 0, !.mode = mode]
        <4>1. moved(less) = [o EXCEPT !.bcount = c, !.acount = 0]
          BY <2>1, <3>2
        <4> HIDE DEF o, moved
        <4>2. moved(less).mode = o.mode /\ o.mode \in {"single", "gallop a", "gallop b"}
          BY <3>3, <4>1 DEF Merge
        <4>3. next(less) = [moved(less) EXCEPT !.mode = IF wins(less) THEN "gallop a" ELSE @]
          OBVIOUS
        <4> HIDE DEF next, wins
        <4>4. CASE wins(less)
          <5>1. next(less) = [o EXCEPT !.bcount = c, !.acount = 0, !.mode = "gallop a"]
            BY <3>3, <4>1, <4>3, <4>4 DEF Merge
          <5>2. QED
            BY <5>1
        <4>5. CASE ~wins(less)
          <5>1. next(less) = [o EXCEPT !.bcount = c, !.acount = 0, !.mode = o.mode]
            BY <3>3, <4>1, <4>3, <4>5 DEF Merge
          <5>2. QED
            BY <4>2, <5>1
        <4>6. QED
          BY <4>4, <4>5
      <3> HIDE DEF o, n, c, next
      <3>8. PICK w : w = next(less)
        OBVIOUS
      <3>6. /\ w \in Merge /\ w.base = o.base /\ w.a = o.a
            /\ w.b = o.b /\ w.out = o.out
            /\ w.acount = 0 /\ w.bcount = c
        <4>1. c \in Nat /\ mode \in {"single", "gallop a", "gallop b"}
          BY <3>4, <3>5
        <4>2. w = [o EXCEPT !.bcount = c, !.acount = 0, !.mode = mode]
          BY <3>5, <3>8
        <4>3. QED
          BY <3>3, <4>1, <4>2 DEF Merge
      <3>7. QED
        BY <3>2, <3>4, <3>6, <3>8, ReadyIs
    <2>2. CASE ~(less <=> m.dir = "lo")
      <3> DEFINE o == MoveA(m, 1)
                 n == Len(m.out) + 1
                 c == m.acount + 1
      <3>1. 1 <= Len(m.a) /\ 1 \in Nat
        BY <1>3
      <3>2. MergeFits(o, slice) /\ Len(o.out) = n /\ o.acount = m.acount /\ o.bcount = m.bcount
        BY <1>3, <3>1, FitsMoved
      <3>3. o \in Merge
        BY <3>2 DEF MergeFits
      <3>4. n \in Nat \ {0} /\ c <= n /\ c \in Nat /\ 0 <= n
        BY <1>3 DEF Counts
      <3>5. PICK mode \in {"single", "gallop a", "gallop b"} :
               next(less) = [o EXCEPT !.acount = c, !.bcount = 0, !.mode = mode]
        <4>1. moved(less) = [o EXCEPT !.acount = c, !.bcount = 0]
          BY <2>2, <3>2
        <4> HIDE DEF o, moved
        <4>2. moved(less).mode = o.mode /\ o.mode \in {"single", "gallop a", "gallop b"}
          BY <3>3, <4>1 DEF Merge
        <4>3. next(less) = [moved(less) EXCEPT !.mode = IF wins(less) THEN "gallop a" ELSE @]
          OBVIOUS
        <4> HIDE DEF next, wins
        <4>4. CASE wins(less)
          <5>1. next(less) = [o EXCEPT !.acount = c, !.bcount = 0, !.mode = "gallop a"]
            BY <3>3, <4>1, <4>3, <4>4 DEF Merge
          <5>2. QED
            BY <5>1
        <4>5. CASE ~wins(less)
          <5>1. next(less) = [o EXCEPT !.acount = c, !.bcount = 0, !.mode = o.mode]
            BY <3>3, <4>1, <4>3, <4>5 DEF Merge
          <5>2. QED
            BY <4>2, <5>1
        <4>6. QED
          BY <4>4, <4>5
      <3> HIDE DEF o, n, c, next
      <3>8. PICK w : w = next(less)
        OBVIOUS
      <3>6. /\ w \in Merge /\ w.base = o.base /\ w.a = o.a
            /\ w.b = o.b /\ w.out = o.out
            /\ w.acount = c /\ w.bcount = 0
        <4>1. c \in Nat /\ mode \in {"single", "gallop a", "gallop b"}
          BY <3>4, <3>5
        <4>2. w = [o EXCEPT !.acount = c, !.bcount = 0, !.mode = mode]
          BY <3>5, <3>8
        <4>3. QED
          BY <3>3, <4>1, <4>2 DEF Merge
      <3>7. QED
        BY <3>2, <3>4, <3>6, <3>8, ReadyIs
    <2>3. QED
      BY <2>1, <2>2
  <1>5. minGallop' \in Nat \ {0}
    BY <1>1 DEF SortInv, SortTypeOK
  <1> HIDE DEF next
  <1>6. QED
    BY <1>1, <1>2, <1>4, <1>5, StepKeeps

\* What is galloped over is a number of items of the run.
LEMMA GallopedIn ==
    ASSUME NEW m \in Merge, Len(m.a) \in Nat \ {0}, Len(m.b) \in Nat \ {0}
    PROVE  GallopedA(m) \in 0 .. Len(m.a) /\ GallopedB(m) \in 0 .. Len(m.b)
  <1> DEFINE x == Len(m.a)
             y == Len(m.b)
  <1>1. m.a \in Seq(Item) /\ m.b \in Seq(Item) /\ x \in Nat \ {0} /\ y \in Nat \ {0}
    BY MergeLengths
  <1>2. ASSUME NEW z PROVE /\ GallopRight(z, m.a, 0) \in 0 .. x
                           /\ GallopRight(z, m.a, x - 1) \in 0 .. x
    <2>1. 0 \in 0 .. x - 1 /\ x - 1 \in 0 .. x - 1
      <3> HIDE DEF x
      <3>1. QED
        BY <1>1
    <2>2. QED
      BY <1>1, <2>1, GallopIn
  <1>3. ASSUME NEW z PROVE /\ GallopLeft(z, m.b, 0) \in 0 .. y
                           /\ GallopLeft(z, m.b, y - 1) \in 0 .. y
    <2>1. 0 \in 0 .. y - 1 /\ y - 1 \in 0 .. y - 1
      <3> HIDE DEF y
      <3>1. QED
        BY <1>1
    <2>2. QED
      BY <1>1, <2>1, GallopIn
  <1>4. \A k \in 0 .. x : x - k \in 0 .. x
    BY <1>1
  <1>5. \A k \in 0 .. y : y - k \in 0 .. y
    BY <1>1
  <1>6. GallopedA(m) \in 0 .. x
    BY <1>2, <1>4 DEF GallopedA
  <1>7. GallopedB(m) \in 0 .. y
    BY <1>3, <1>5 DEF GallopedB
  <1>8. QED
    BY <1>6, <1>7

LEMMA GallopAKeeps ==
    ASSUME SortInv, GallopA
    PROVE  SortInv'
  <1> DEFINE m == merge
             o(k) == MoveA(m, k)
             moved(k) == [MoveA(m, k) EXCEPT !.acount = k, !.mode = "gallop b"]
             next(k) == IF Ended(moved(k)) THEN moved(k) ELSE MoveB(moved(k), 1)
  <1>1. /\ merge # NoMerge
        /\ UNCHANGED <<input, ordered, reverse, shown, touched, run, pending, minGallop, stage>>
    BY DEF GallopA, MergeMode
  <1>2. /\ MergeFits(m, slice) /\ m \in Merge /\ Counts(m)
        /\ Len(m.a) \in Nat \ {0} /\ Len(m.b) \in Nat \ {0} /\ Len(m.out) \in Nat \ {0}
        /\ m.acount \in Nat /\ m.bcount \in Nat
    BY <1>1, MergeFacts
  <1>3. PICK k \in 0 .. Len(m.a) : Continue(next(k))
    <2>1. PICK k \in Found(GallopedA(merge), Len(merge.a)) : Continue(next(k))
      BY DEF GallopA
    <2>2. k \in 0 .. Len(m.a)
      BY <1>2, GallopedIn, FoundIn
    <2>3. QED
      BY <2>1, <2>2
  <1>4. Ready(next(k))
    <2> DEFINE n == Len(m.out) + k
    <2>1. k \in Nat /\ k <= Len(m.a)
      BY <1>2
    <2>2. /\ MergeFits(o(k), slice) /\ Len(o(k).out) = n
          /\ o(k).acount = m.acount /\ o(k).bcount = m.bcount
      BY <1>2, <2>1, FitsMoved
    <2>3. o(k) \in Merge
      BY <2>2 DEF MergeFits
    <2>4. n \in Nat \ {0} /\ k <= n /\ m.bcount <= n
      BY <1>2, <2>1 DEF Counts
    <2>5. moved(k) = [o(k) EXCEPT !.acount = k, !.mode = "gallop b"]
      OBVIOUS
    <2> HIDE DEF o, moved
    <2>6. /\ moved(k) \in Merge /\ moved(k).base = o(k).base /\ moved(k).a = o(k).a
          /\ moved(k).b = o(k).b /\ moved(k).out = o(k).out
          /\ moved(k).acount = k /\ moved(k).bcount = m.bcount
      BY <2>1, <2>2, <2>3, <2>5 DEF Merge
    <2> HIDE DEF n
    <2>7. Ready(moved(k))
      BY <2>2, <2>4, <2>6, ReadyIs
    <2>8. CASE Ended(moved(k))
      BY <2>7, <2>8
    <2>9. CASE ~Ended(moved(k))
      <3>1. next(k) = MoveB(moved(k), 1)
        BY <2>9
      <3>2. Len(moved(k).b) \in Nat /\ (moved(k).b = << >> <=> Len(moved(k).b) = 0)
            /\ moved(k).dir \in {"lo", "hi"}
        BY <2>6, MergeLengths DEF Merge
      <3>3. 1 <= Len(moved(k).b) /\ 1 \in Nat
        BY <2>9, <3>2 DEF Ended
      <3>4. MergeFits(moved(k), slice)
        BY <2>7 DEF Ready
      <3>5. /\ MergeFits(next(k), slice) /\ Len(next(k).out) = Len(moved(k).out) + 1
            /\ next(k).acount = k /\ next(k).bcount = m.bcount
        BY <2>6, <3>1, <3>3, <3>4, FitsMoved
      <3> HIDE DEF next
      <3>6. Len(next(k).out) = n + 1
        BY <2>2, <2>6, <3>5
      <3>7. n + 1 \in Nat \ {0} /\ k <= n + 1 /\ m.bcount <= n + 1
        BY <1>2, <2>1, <2>4
      <3>8. next(k) \in Merge
        BY <3>5 DEF MergeFits
      <3>9. QED
        BY <3>5, <3>6, <3>7, <3>8, ReadyIs
    <2>10. QED
      BY <2>8, <2>9
  <1>5. minGallop' \in Nat \ {0}
    BY <1>1 DEF SortInv, SortTypeOK
  <1> HIDE DEF next
  <1>6. QED
    BY <1>1, <1>3, <1>4, <1>5, StepKeeps

LEMMA GallopBKeeps ==
    ASSUME SortInv, GallopB
    PROVE  SortInv'
  <1> DEFINE m == merge
             o(k) == MoveB(m, k)
             moved(k) == [MoveB(m, k) EXCEPT !.bcount = k]
             both(k) == MoveA(moved(k), 1)
             again(k) == merge.acount >= MIN_GALLOP \/ k >= MIN_GALLOP
             onward(k) == [both(k) EXCEPT !.mode = "gallop a"]
             single(k) == [both(k) EXCEPT !.mode = "single", !.acount = 0, !.bcount = 0]
  <1>1. /\ merge # NoMerge
        /\ UNCHANGED <<input, ordered, reverse, shown, touched, run, pending, stage>>
    BY DEF GallopB, MergeMode
  <1>2. /\ MergeFits(m, slice) /\ m \in Merge /\ Counts(m)
        /\ Len(m.a) \in Nat \ {0} /\ Len(m.b) \in Nat \ {0} /\ Len(m.out) \in Nat \ {0}
        /\ m.acount \in Nat /\ m.bcount \in Nat
    BY <1>1, MergeFacts
  <1>3. PICK k \in 0 .. Len(m.b) :
          IF Ended(moved(k)) \/ Ended(both(k))
          THEN /\ Continue(IF Ended(moved(k)) THEN moved(k) ELSE both(k))
               /\ UNCHANGED minGallop
          ELSE IF again(k)
          THEN /\ Continue(onward(k))
               /\ minGallop' = IF minGallop > 1 THEN minGallop - 1 ELSE 1
          ELSE /\ Continue(single(k))
               /\ minGallop' = minGallop + 1
    <2> DEFINE Step(k) ==
          IF Ended(moved(k)) \/ Ended(both(k))
          THEN /\ Continue(IF Ended(moved(k)) THEN moved(k) ELSE both(k))
               /\ UNCHANGED minGallop
          ELSE IF again(k)
          THEN /\ Continue(onward(k))
               /\ minGallop' = IF minGallop > 1 THEN minGallop - 1 ELSE 1
          ELSE /\ Continue(single(k))
               /\ minGallop' = minGallop + 1
    <2>1. PICK k \in Found(GallopedB(merge), Len(merge.b)) : Step(k)
      BY DEF GallopB
    <2>2. k \in 0 .. Len(m.b)
      BY <1>2, GallopedIn, FoundIn
    <2>3. QED
      BY <2>1, <2>2
  <1> DEFINE n == Len(m.out) + k
  <1>4. k \in Nat /\ k <= Len(m.b)
    BY <1>2
  <1>5. /\ MergeFits(o(k), slice) /\ Len(o(k).out) = n
        /\ o(k).acount = m.acount /\ o(k).bcount = m.bcount /\ o(k).a = m.a
    <2>1. MoveB(m, k).a = m.a
      BY <1>2, MoveBIs
    <2>2. QED
      BY <1>2, <1>4, <2>1, FitsMoved
  <1>6. o(k) \in Merge
    BY <1>5 DEF MergeFits
  <1>7. n \in Nat \ {0} /\ k <= n /\ m.acount <= n /\ n + 1 \in Nat \ {0} /\ k <= n + 1
        /\ m.acount <= n + 1 /\ 0 <= n + 1
    BY <1>2, <1>4 DEF Counts
  <1>8. moved(k) = [o(k) EXCEPT !.bcount = k]
    OBVIOUS
  <1> HIDE DEF o, moved
  <1>9. /\ moved(k) \in Merge /\ moved(k).base = o(k).base /\ moved(k).a = o(k).a
        /\ moved(k).b = o(k).b /\ moved(k).out = o(k).out
        /\ moved(k).acount = m.acount /\ moved(k).bcount = k
    BY <1>4, <1>5, <1>6, <1>8 DEF Merge
  <1>10. Ready(moved(k))
    <2> HIDE DEF n
    <2>1. QED
      BY <1>5, <1>7, <1>9, ReadyIs
  <1>11. /\ MergeFits(both(k), slice) /\ Len(both(k).out) = n + 1
         /\ both(k).acount = m.acount /\ both(k).bcount = k
    <2>1. 1 <= Len(moved(k).a) /\ 1 \in Nat
      BY <1>2, <1>5, <1>9
    <2>2. MergeFits(moved(k), slice)
      BY <1>10 DEF Ready
    <2>3. /\ MergeFits(both(k), slice) /\ Len(both(k).out) = Len(moved(k).out) + 1
          /\ both(k).acount = moved(k).acount /\ both(k).bcount = moved(k).bcount
      BY <2>1, <2>2, FitsMoved
    <2> HIDE DEF both
    <2>4. QED
      BY <1>5, <1>9, <2>3
  <1> HIDE DEF both, n
  <1>12. both(k) \in Merge
    BY <1>11 DEF MergeFits
  <1>13. Ready(both(k))
    BY <1>7, <1>11, <1>12, ReadyIs
  <1>14. Ready(onward(k))
    <2>1. /\ onward(k) \in Merge /\ onward(k).base = both(k).base /\ onward(k).a = both(k).a
          /\ onward(k).b = both(k).b /\ onward(k).out = both(k).out
          /\ onward(k).acount = m.acount /\ onward(k).bcount = k
      BY <1>11, <1>12 DEF Merge
    <2> HIDE DEF onward
    <2>2. QED
      BY <1>7, <1>11, <2>1, ReadyIs
  <1>15. Ready(single(k))
    <2>1. /\ single(k) \in Merge /\ single(k).base = both(k).base /\ single(k).a = both(k).a
          /\ single(k).b = both(k).b /\ single(k).out = both(k).out
          /\ single(k).acount = 0 /\ single(k).bcount = 0
      BY <1>11, <1>12 DEF Merge
    <2> HIDE DEF single
    <2>2. QED
      BY <1>7, <1>11, <2>1, ReadyIs
  <1>16. minGallop \in Nat \ {0}
    BY DEF SortInv, SortTypeOK
  <1> HIDE DEF onward, single, again
  <1>17. CASE Ended(moved(k)) \/ Ended(both(k))
    <2>1. /\ Continue(IF Ended(moved(k)) THEN moved(k) ELSE both(k))
          /\ minGallop' = minGallop
      BY <1>3, <1>17
    <2>2. CASE Ended(moved(k))
      <3>1. Continue(moved(k))
        BY <2>1, <2>2
      <3>2. QED
        BY <1>1, <1>10, <1>16, <2>1, <3>1, StepKeeps
    <2>3. CASE ~Ended(moved(k))
      <3>1. Continue(both(k))
        BY <2>1, <2>3
      <3>2. QED
        BY <1>1, <1>13, <1>16, <2>1, <3>1, StepKeeps
    <2>4. QED
      BY <2>2, <2>3
  <1>18. CASE ~(Ended(moved(k)) \/ Ended(both(k))) /\ again(k)
    <2>1. /\ Continue(onward(k))
          /\ minGallop' = IF minGallop > 1 THEN minGallop - 1 ELSE 1
      BY <1>3, <1>18
    <2>2. minGallop' \in Nat \ {0}
      BY <1>16, <2>1
    <2>3. QED
      BY <1>1, <1>14, <2>1, <2>2, StepKeeps
  <1>19. CASE ~(Ended(moved(k)) \/ Ended(both(k))) /\ ~again(k)
    <2>1. Continue(single(k)) /\ minGallop' = minGallop + 1
      BY <1>3, <1>19
    <2>2. minGallop' \in Nat \ {0}
      BY <1>16, <2>1
    <2>3. QED
      BY <1>1, <1>15, <2>1, <2>2, StepKeeps
  <1>20. QED
    BY <1>17, <1>18, <1>19

\* The elements, also when a merge ends early.
LEMMA WholeIs ==
    ASSUME SortInv
    PROVE  Whole \in Seq(Item) /\ SameItems(Whole)
  <1>1. slice \in Seq(Item) /\ Len(slice) = Len(input) /\ ToSet(slice) = ToSet(input)
    BY Facts DEF SortInv, Content, SameItems
  <1>2. CASE merge = NoMerge
    BY <1>1, <1>2 DEF Whole, SameItems
  <1>3. CASE merge # NoMerge
    <2>1. MergeFits(merge, slice) /\ merge \in Merge
      BY <1>3, MergeFacts
    <2>2. /\ Restored(merge) \in Seq(Item) /\ Len(Restored(merge)) = Total(merge)
          /\ ToSet(Restored(merge)) = Items(merge)
      BY <2>1, MergedIs
    <2>3. Whole = Around(merge, Restored(merge))
      BY <1>3 DEF Whole
    <2>4. Rearranged(slice, Whole, merge.base, merge.base + Total(merge))
      <3>1. Rearranged(slice, Around(merge, Restored(merge)), merge.base,
                       merge.base + Total(merge))
        BY <1>1, <2>1, <2>2, AroundIs
      <3>2. QED
        BY <2>3, <3>1
    <2>5. merge.base \in 0 .. Len(slice)
          /\ merge.base + Total(merge) \in merge.base .. Len(slice)
      <3> DEFINE x == merge.base
                 y == Total(merge)
                 z == Len(slice)
      <3>1. x \in Nat /\ y \in Nat /\ z \in Nat /\ x + y <= z
        BY <1>1, <2>1, MergeLengths, LenProperties DEF MergeFits
      <3> HIDE DEF x, y, z
      <3>2. x \in 0 .. z /\ x + y \in x .. z
        BY <3>1
      <3>3. QED
        BY <3>2 DEF x, y, z
    <2>6. ToSet(Whole) = ToSet(slice)
      BY <1>1, <2>4, <2>5, RearrangedSet
    <2>7. QED
      BY <1>1, <2>4, <2>6 DEF Rearranged, SameItems
  <1>4. QED
    BY <1>2, <1>3

LEMMA RaiseKeeps ==
    ASSUME SortInv, Raise
    PROVE  SortInv'
  <1>1. /\ slice' = Whole /\ merge' = NoMerge /\ stage' = "failed"
        /\ UNCHANGED <<input, ordered, reverse, shown, touched, run, pending, minGallop>>
    BY DEF Raise
  <1>2. slice' \in Seq(Item) /\ Len(slice') = Len(input) /\ ToSet(slice') = ToSet(input)
    BY <1>1, WholeIs DEF SameItems
  <1>3. lo' = lo
    BY <1>1 DEF lo
  <1>4. SortTypeOK'
    <2>1. TypeOfMerge(merge)'
      BY <1>1 DEF TypeOfMerge
    <2>2. Adjacent(pending)'
      BY <1>1 DEF SortInv, SortTypeOK, Adjacent
    <2>3. QED
      BY <1>1, <1>2, <1>3, <2>1, <2>2 DEF SortInv, SortTypeOK
  <1>5. Stages'
    BY <1>1 DEF Stages
  <1>6. Content'
    BY <1>1, <1>2 DEF Content, SameItems
  <1>7. QED
    BY <1>4, <1>5, <1>6 DEF SortInv

\* Where items are compared, the list is not empty.
LEMMA ComparesSome ==
    ASSUME SortInv, Compares
    PROVE  /\ Len(input) >= 1
           /\ stage \in {"run", "insert", "collapse", "force"}
  <1> DEFINE n == Len(input)
  <1>1. n \in Nat /\ lo \in Nat /\ lo <= n /\ run.sorted \in Nat /\ run.length \in Nat
        /\ lo + run.length <= n
    BY Facts
  <1>2. CASE stage = "run" /\ n - lo > 1
    <2> HIDE DEF n
    <2>1. n >= 1
      BY <1>1, <1>2
    <2>2. QED
      BY <1>2, <2>1 DEF n
  <1>3. CASE stage = "insert" /\ run.sorted < run.length
    <2> DEFINE x == run.sorted
               y == run.length
    <2>1. x \in Nat /\ y \in Nat /\ lo + y <= n /\ x < y
      BY <1>1, <1>3
    <2> HIDE DEF x, y, n
    <2>2. n >= 1
      BY <1>1, <2>1
    <2>3. QED
      BY <1>3, <2>2 DEF n
  <1>4. CASE MergePlace # 0 \/ merge # NoMerge
    <2>1. stage \in {"collapse", "force"}
      BY <1>4, MergePlaceIs, MergeFacts
    <2>2. pending # << >>
      BY <2>1 DEF SortInv, Stages
    <2>3. Len(pending) \in Nat \ {0} /\ pending \in Seq(Slice) /\ Adjacent(pending)
      BY <2>2, EmptySeq, Facts
    <2>4. 1 \in 1 .. Len(pending) /\ 1 \in 0 .. Len(pending)
      BY <2>3
    <2> DEFINE e == EndOf(pending, 1)
               d == EndOf(pending, 0)
               l == pending[1].len
    <2>5. l \in Nat \ {0} /\ e = EndOf(pending, 1 - 1) + l /\ e <= lo
      BY <2>3, <2>4, StackIs DEF lo
    <2>6. 1 - 1 = 0 /\ EndOf(pending, 0) = 0
      BY DEF EndOf
    <2>7. e = 0 + l
      BY <2>5, <2>6
    <2> HIDE DEF e, l, n
    <2>8. n >= 1
      BY <1>1, <2>5, <2>7
    <2>9. QED
      BY <2>1, <2>8 DEF n
  <1>5. QED
    BY <1>2, <1>3, <1>4 DEF Compares

LEMMA TouchKeeps ==
    ASSUME SortInv, Touch
    PROVE  SortInv'
  <1>1. /\ Compares /\ shown' = Take(input, 1) /\ touched' = TRUE
        /\ UNCHANGED <<input, ordered, reverse, slice, run, pending, merge, minGallop, stage>>
    BY DEF Touch
  <1>2. stage \in {"run", "insert", "collapse", "force"} /\ shown' \in Seq(Item)
    <2>1. Len(input) >= 1 /\ stage \in {"run", "insert", "collapse", "force"}
      BY <1>1, ComparesSome
    <2>2. 1 \in 0 .. Len(input)
      BY <2>1, Facts
    <2>3. QED
      BY <1>1, <2>1, <2>2, TakeIs, Facts
  <1>3. lo' = lo
    BY <1>1 DEF lo
  <1>4. SortTypeOK'
    <2>1. TypeOfMerge(merge)'
      BY <1>1 DEF SortInv, SortTypeOK, TypeOfMerge
    <2>2. Adjacent(pending)'
      BY <1>1 DEF SortInv, SortTypeOK, Adjacent
    <2>3. QED
      BY <1>1, <1>2, <1>3, <2>1, <2>2 DEF SortInv, SortTypeOK
  <1>5. Stages'
    BY <1>1, <1>3 DEF SortInv, Stages
  <1>6. Content'
    BY <1>1, <1>2 DEF SortInv, Content, SameItems
  <1>7. QED
    BY <1>4, <1>5, <1>6 DEF SortInv

LEMMA FinishKeeps ==
    ASSUME SortInv, Finish
    PROVE  SortInv'
  <1>1. /\ stage \in {"sorted", "failed"}
        /\ shown' = IF reverse THEN Reverse(slice) ELSE slice
        /\ stage' \in {"returned", "raised"}
        /\ UNCHANGED <<input, ordered, reverse, touched, slice, run, pending, merge, minGallop>>
    BY DEF Finish
  <1>2. merge = NoMerge /\ merge' = NoMerge
    BY <1>1 DEF SortInv, Stages
  <1>3. Len(slice) = Len(input) /\ ToSet(slice) = ToSet(input) /\ slice \in Seq(Item)
    BY Facts DEF SortInv, Content, SameItems
  <1>4. shown' \in Seq(Item) /\ Len(shown') = Len(input) /\ ToSet(shown') = ToSet(input)
    BY <1>1, <1>3, ReverseIs
  <1>5. lo' = lo
    BY <1>1 DEF lo
  <1>6. SortTypeOK'
    <2>1. TypeOfMerge(merge)'
      BY <1>2 DEF TypeOfMerge
    <2>2. Adjacent(pending)'
      BY <1>1 DEF SortInv, SortTypeOK, Adjacent
    <2>3. QED
      BY <1>1, <1>4, <1>5, <2>1, <2>2 DEF SortInv, SortTypeOK
  <1>7. Stages'
    BY <1>1, <1>2 DEF Stages
  <1>8. Content'
    BY <1>1, <1>2, <1>3, <1>4 DEF Content, SameItems
  <1>9. QED
    BY <1>6, <1>7, <1>8 DEF SortInv

LEMMA StutterKeeps ==
    ASSUME SortInv, UNCHANGED sortVars
    PROVE  SortInv'
  <1> USE DEF sortVars
  <1>1. lo' = lo
    BY DEF lo
  <1>2. SortTypeOK'
    <2>1. TypeOfMerge(merge)'
      BY DEF SortInv, SortTypeOK, TypeOfMerge
    <2>2. Adjacent(pending)'
      BY DEF SortInv, SortTypeOK, Adjacent
    <2>3. QED
      BY <1>1, <2>1, <2>2 DEF SortInv, SortTypeOK
  <1>3. Stages'
    BY <1>1 DEF SortInv, Stages
  <1>4. Content'
    BY DEF SortInv, Content, SameItems
  <1>5. QED
    BY <1>2, <1>3, <1>4 DEF SortInv

THEOREM InvariantHolds == SortSpec => []SortInv
  <1>1. SortInit => SortInv
    BY InitHolds
  <1>2. SortInv /\ [SortNext]_sortVars => SortInv'
    <2> SUFFICES ASSUME SortInv, [SortNext]_sortVars PROVE SortInv'
      OBVIOUS
    <2>1. CASE Begin
      BY <2>1, BeginKeeps
    <2>2. CASE NextRun
      BY <2>2, NextRunKeeps
    <2>3. CASE InsertNext
      BY <2>3, InsertKeeps
    <2>4. CASE Push
      BY <2>4, PushKeeps
    <2>5. CASE EndCollapse
      BY <2>5, EndCollapseKeeps
    <2>6. CASE MergeAt
      BY <2>6, MergeAtKeeps
    <2>7. CASE Straight
      BY <2>7, StraightKeeps
    <2>8. CASE GallopA
      BY <2>8, GallopAKeeps
    <2>9. CASE GallopB
      BY <2>9, GallopBKeeps
    <2>10. CASE Raise
      BY <2>10, RaiseKeeps
    <2>11. CASE Touch
      BY <2>11, TouchKeeps
    <2>12. CASE Finish
      BY <2>12, FinishKeeps
    <2>13. CASE UNCHANGED sortVars
      BY <2>13, StutterKeeps
    <2>14. QED
      BY <2>1, <2>2, <2>3, <2>4, <2>5, <2>6, <2>7, <2>8, <2>9, <2>10, <2>11, <2>12, <2>13
         DEF SortNext
  <1>3. QED
    BY <1>1, <1>2, PTL DEF SortSpec

\* The variables have their types, and the assertions of the merges and of
\* binarysort hold: each merge begins with two neighbours on the stack that
\* are not empty, and the one run that is left at the end is the whole list.
THEOREM SortTypeCorrect == SortSpec => []SortTypeOK
  <1>1. SortInv => SortTypeOK
    BY DEF SortInv
  <1>2. QED
    BY <1>1, InvariantHolds, PTL

\* "Even in case of error, the list will be some permutation of its input
\* state": no item is lost, whatever the comparisons answer and wherever one
\* of them raises.
THEOREM NothingIsLost == SortSpec => []NothingLost
  <1>1. SortInv => NothingLost
    <2> SUFFICES ASSUME SortInv PROVE NothingLost
      OBVIOUS
    <2>1. stage \in {"returned", "raised"} => SameItems(shown)
      BY DEF SortInv, Content
    <2>2. SameItems(Whole)
      BY WholeIs
    <2>3. QED
      BY <2>1, <2>2 DEF NothingLost, SameItems
  <1>2. QED
    BY <1>1, InvariantHolds, PTL

\* Below the topmost two runs, the stack is in order at any time; when
\* merge_collapse is done, also the topmost two are.
Descends(p, n) == \A i \in 1 .. n - 1 : p[i].len > p[i + 1].len

PendingInv ==
    LET n == Len(pending)
    IN  /\ stage = "collapse" => Descends(pending, n - 2)
        /\ stage \in {"run", "insert"} => Descends(pending, n)

LEMMA DescendsPart ==
    ASSUME NEW p, NEW m \in Int, NEW n \in Int, Descends(p, n), m <= n
    PROVE  Descends(p, m)
  <1> SUFFICES ASSUME NEW i \in 1 .. m - 1 PROVE p[i].len > p[i + 1].len
    BY DEF Descends
  <1>1. i \in 1 .. n - 1
    OBVIOUS
  <1>2. QED
    BY <1>1 DEF Descends

LEMMA DescendsSame ==
    ASSUME NEW p, NEW q, NEW n \in Int, Descends(p, n),
           \A j \in 1 .. n : q[j] = p[j]
    PROVE  Descends(q, n)
  <1> SUFFICES ASSUME NEW i \in 1 .. n - 1 PROVE q[i].len > q[i + 1].len
    BY DEF Descends
  <1>1. i \in 1 .. n /\ i + 1 \in 1 .. n
    OBVIOUS
  <1>2. QED
    BY <1>1 DEF Descends

\* No two of the topmost three are to be merged, and below the topmost two
\* the stack is in order: all of it is.
LEMMA CollapsedDescends ==
    ASSUME NEW p \in Seq(Slice), Adjacent(p), CollapseAt(p) = 0, Descends(p, Len(p) - 2)
    PROVE  Descends(p, Len(p))
  <1> DEFINE n == Len(p) - 1
             far == p[n - 1].len <= p[n].len + p[n + 1].len
             near == p[n].len <= p[n + 1].len
             small == p[n - 1].len < p[n + 1].len
  <1>1. Len(p) \in Nat /\ n \in Int /\ n + 1 = Len(p)
    BY LenProperties
  <1>2. (IF n > 1 /\ far THEN IF small THEN n - 1 ELSE n
         ELSE IF n > 0 /\ near THEN n ELSE 0) = 0
    BY DEF CollapseAt
  <1>3. (n > 1 => ~far) /\ (n > 0 => ~near)
    <2> HIDE DEF far, near, small, n
    <2>1. QED
      BY <1>1, <1>2
  <1>4. \A i \in 1 .. Len(p) : p[i].len \in Nat
    BY StackIs
  <1>5. ASSUME n > 1
        PROVE  p[n - 1].len > p[n].len
    <2>1. n - 1 \in 1 .. Len(p) /\ n \in 1 .. Len(p) /\ n + 1 \in 1 .. Len(p)
      BY <1>1, <1>5
    <2> DEFINE x == p[n - 1].len
               y == p[n].len
               z == p[n + 1].len
    <2>2. ~(x <= y + z) /\ x \in Nat /\ y \in Nat /\ z \in Nat
      BY <1>3, <1>4, <1>5, <2>1
    <2> HIDE DEF x, y, z
    <2>3. x > y
      BY <2>2
    <2>4. QED
      BY <2>3 DEF x, y
  <1>6. ASSUME n > 0
        PROVE  p[n].len > p[n + 1].len
    <2>1. n \in 1 .. Len(p) /\ n + 1 \in 1 .. Len(p)
      BY <1>1, <1>6
    <2> DEFINE y == p[n].len
               z == p[n + 1].len
    <2>2. ~(y <= z) /\ y \in Nat /\ z \in Nat
      BY <1>3, <1>4, <1>6, <2>1
    <2> HIDE DEF y, z
    <2>3. y > z
      BY <2>2
    <2>4. QED
      BY <2>3 DEF y, z
  <1> HIDE DEF far, near, small
  <1>7. ASSUME NEW i \in 1 .. Len(p) - 1
        PROVE  p[i].len > p[i + 1].len
    <2>1. i \in 1 .. (Len(p) - 2) - 1 \/ (i = n - 1 /\ n > 1) \/ (i = n /\ n > 0)
      <3> DEFINE k == Len(p)
      <3>1. k \in Nat /\ n \in Int /\ n + 1 = k /\ i \in 1 .. k - 1
        BY <1>1, <1>7
      <3> HIDE DEF k, n
      <3>2. i \in 1 .. (k - 2) - 1 \/ (i = n - 1 /\ n > 1) \/ (i = n /\ n > 0)
        BY <3>1
      <3>3. QED
        BY <3>2 DEF k
    <2>2. CASE i \in 1 .. (Len(p) - 2) - 1
      BY <2>2 DEF Descends
    <2>3. CASE i = n - 1 /\ n > 1
      <3>1. i + 1 = n
        BY <1>1, <2>3
      <3>2. QED
        BY <1>5, <2>3, <3>1
    <2>4. CASE i = n /\ n > 0
      BY <1>6, <2>4
    <2>5. QED
      BY <2>1, <2>2, <2>3, <2>4
  <1>8. QED
    BY <1>7 DEF Descends

\* A merge takes place at the top of the stack and leaves the rest alone.
LEMMA MergeKeepsRest ==
    ASSUME SortInv, MergeAt, stage = "collapse"
    PROVE  /\ Len(pending) \in Nat /\ Len(pending') = Len(pending) - 1
           /\ \A j \in 1 .. Len(pending) - 3 : pending'[j] = pending[j]
  <1> DEFINE i == MergePlace
             n == Len(pending)
             x == [pending[i] EXCEPT !.len = @ + pending[i + 1].len]
  <1>1. i # 0 /\ pending' = Take(pending, i - 1) \o <<x>> \o Drop(pending, i + 1)
    BY DEF MergeAt
  <1>2. i \in 1 .. n - 1 /\ merge = NoMerge
    BY <1>1, MergePlaceIs
  <1>3. n \in Nat /\ pending \in Seq(Slice) /\ Adjacent(pending)
    BY Facts, LenProperties
  <1>4. i = CollapseAt(pending)
    BY <1>2 DEF MergePlace
  <1>5. i \in {n - 2, n - 1}
    <2>1. CollapseAt(pending) \in {0, (n - 1) - 1, n - 1}
      BY DEF CollapseAt
    <2> HIDE DEF i, n
    <2>2. QED
      BY <1>1, <1>3, <1>4, <2>1
  <1>6. Len(pending') = n - 1
    BY <1>1, <1>2, <1>3, StackMerged
  <1>7. x \in Slice
    <2>1. i \in 1 .. n /\ i + 1 \in 1 .. n
      <3> HIDE DEF i, n
      <3>1. QED
        BY <1>2, <1>3
    <2>2. /\ pending[i] \in Slice /\ pending[i].len \in Nat \ {0}
          /\ pending[i + 1].len \in Nat \ {0}
      BY <1>3, <2>1, EndIs, StackIs
    <2>3. pending[i].len + pending[i + 1].len \in Nat \ {0}
      BY <2>2
    <2>4. QED
      BY <2>2, <2>3 DEF Slice
  <1>8. /\ i - 1 \in 0 .. n /\ i + 1 \in 0 .. n
    <2> HIDE DEF i, n
    <2>1. QED
      BY <1>2, <1>3
  <1> DEFINE a == Take(pending, i - 1)
             u == a \o <<x>>
             d == Drop(pending, i + 1)
  <1>9. a \in Seq(Slice) /\ Len(a) = i - 1 /\ \A j \in 1 .. i - 1 : a[j] = pending[j]
    BY <1>3, <1>8, TakeIs
  <1>10. d \in Seq(Slice)
    BY <1>3, <1>8, DropIs
  <1> HIDE DEF a, d, x
  <1>11. /\ u \in Seq(Slice) /\ Len(u) = Len(a) + Len(<<x>>)
         /\ \A j \in 1 .. Len(a) : u[j] = a[j]
    <2>1. <<x>> \in Seq(Slice)
      BY <1>7
    <2> DEFINE v == <<x>>
    <2> HIDE DEF v
    <2>2. v \in Seq(Slice)
      BY <2>1 DEF v
    <2>3. /\ a \o v \in Seq(Slice) /\ Len(a \o v) = Len(a) + Len(v)
          /\ \A j \in 1 .. Len(a) : (a \o v)[j] = a[j]
      BY <1>9, <2>2, JoinIs
    <2>4. QED
      BY <2>3 DEF v
  <1>12. Len(u) = i
    <2>1. Len(<<x>>) = 1 /\ i \in Int
      BY <1>2
    <2>2. QED
      BY <1>9, <1>11, <2>1
  <1>13. pending' = u \o d
    BY <1>1 DEF a, d, x
  <1> HIDE DEF u
  <1>14. \A j \in 1 .. Len(u) : (u \o d)[j] = u[j]
    BY <1>10, <1>11, JoinIs
  <1>15. ASSUME NEW j \in 1 .. n - 3 PROVE pending'[j] = pending[j]
    <2>1. j \in 1 .. i - 1 /\ j \in 1 .. i
      <3> HIDE DEF i, n
      <3>1. QED
        BY <1>2, <1>3, <1>5
    <2>2. QED
      BY <1>9, <1>11, <1>12, <1>13, <1>14, <2>1
  <1>16. QED
    BY <1>3, <1>6, <1>15

\* Whenever merge_collapse is done, every pending run is longer than the next
\* one: merge_collapse merges at the top, and stops only when the topmost
\* three are in order.
THEOREM PendingRunsGrow == SortSpec => []PendingGrow
  <1>1. SortInit => PendingInv
    BY DEF SortInit, PendingInv
  <1>2. SortInv /\ PendingInv /\ [SortNext]_sortVars => PendingInv'
    <2> SUFFICES ASSUME SortInv, PendingInv, [SortNext]_sortVars
                 PROVE  PendingInv'
      OBVIOUS
    <2>1. CASE pending' = pending /\ (stage' = stage \/ (stage = "run" /\ stage' = "insert"))
      BY <2>1 DEF PendingInv
    <2>2. CASE stage' \notin {"run", "insert", "collapse"}
      BY <2>2 DEF PendingInv
    <2>3. CASE Begin
      <3>1. pending = << >> /\ pending' = << >>
        BY <2>3 DEF Begin, SortInv, Stages
      <3>2. stage' \in {"sorted", "run"}
        BY <2>3 DEF Begin
      <3>3. Len(pending') = 0
        BY <3>1
      <3>4. Descends(pending', Len(pending'))
        BY <3>3 DEF Descends
      <3>5. QED
        BY <3>2, <3>4 DEF PendingInv
    <2>4. CASE EndCollapse
      <3>1. /\ stage \in {"collapse", "force"} /\ merge = NoMerge /\ MergePlace = 0
            /\ pending' = pending /\ stage' \in {"sorted", "run", "force"}
            /\ stage' = "run" => stage = "collapse"
        BY <2>4 DEF EndCollapse
      <3>2. CASE stage' = "run"
        <4>1. CollapseAt(pending) = 0 /\ Descends(pending, Len(pending) - 2)
          BY <3>1, <3>2 DEF MergePlace, PendingInv
        <4>2. pending \in Seq(Slice) /\ Adjacent(pending)
          BY Facts
        <4>3. Descends(pending, Len(pending))
          BY <4>1, <4>2, CollapsedDescends
        <4>4. QED
          BY <3>1, <3>2, <4>3 DEF PendingInv
      <3>3. QED
        BY <2>2, <3>1, <3>2
    <2>5. CASE NextRun \/ InsertNext \/ Touch
      BY <2>1, <2>5 DEF NextRun, InsertNext, Touch
    <2>6. CASE Push
      <3> DEFINE x == [base |-> lo, len |-> run.length]
                 n == Len(pending)
      <3>1. stage = "insert" /\ stage' = "collapse" /\ pending' = Append(pending, x)
        BY <2>6 DEF Push
      <3>2. n \in Nat /\ pending \in Seq(Slice)
        BY Facts, LenProperties
      <3>3. Len(pending') = n + 1 /\ \A j \in 1 .. n : pending'[j] = pending[j]
        BY <3>1, <3>2, AppendProperties
      <3>4. Descends(pending, n)
        BY <3>1 DEF PendingInv
      <3> HIDE DEF n, x
      <3>5. Descends(pending, n - 1)
        BY <3>2, <3>4, DescendsPart
      <3>6. Descends(pending', n - 1)
        BY <3>2, <3>3, <3>5, DescendsSame
      <3>7. Len(pending') - 2 = n - 1
        BY <3>2, <3>3
      <3>8. QED
        BY <3>1, <3>6, <3>7 DEF PendingInv
    <2>7. CASE Raise \/ Finish
      BY <2>2, <2>7 DEF Raise, Finish
    <2>8. CASE MergeAt
      <3>1. stage' = stage /\ stage \in {"collapse", "force"}
        BY <2>8, MergePlaceIs DEF MergeAt
      <3>2. CASE stage = "collapse"
        <4> DEFINE n == Len(pending)
        <4>1. /\ n \in Nat /\ Len(pending') = n - 1
              /\ \A j \in 1 .. n - 3 : pending'[j] = pending[j]
          BY <2>8, <3>2, MergeKeepsRest
        <4>2. Descends(pending, n - 2)
          BY <3>2 DEF PendingInv
        <4> HIDE DEF n
        <4>3. Descends(pending, n - 3)
          BY <4>1, <4>2, DescendsPart
        <4>4. Descends(pending', n - 3)
          BY <4>1, <4>3, DescendsSame
        <4>5. Len(pending') - 2 = n - 3
          BY <4>1
        <4>6. QED
          BY <3>1, <3>2, <4>4, <4>5 DEF PendingInv
      <3>3. QED
        BY <2>2, <3>1, <3>2
    <2>9. CASE Straight \/ GallopA \/ GallopB
      <3>1. ASSUME Straight
            PROVE  UNCHANGED <<input, ordered, reverse, shown, touched, run, pending, minGallop, stage>>
        BY <3>1 DEF Straight
      <3>2. ASSUME GallopA
            PROVE  UNCHANGED <<input, ordered, reverse, shown, touched, run, pending, minGallop, stage>>
        BY <3>2 DEF GallopA
      <3>3. ASSUME GallopB
            PROVE  UNCHANGED <<input, ordered, reverse, shown, touched, run, pending, stage>>
        BY <3>3 DEF GallopB
      <3>4. QED
        BY <2>1, <2>9, <3>1, <3>2, <3>3
    <2>10. CASE UNCHANGED sortVars
      BY <2>1, <2>10 DEF sortVars
    <2>11. QED
      BY <2>3, <2>4, <2>5, <2>6, <2>7, <2>8, <2>9, <2>10 DEF SortNext
  <1>3. SortInv /\ PendingInv => PendingGrow
    <2> SUFFICES ASSUME SortInv, PendingInv, stage \in {"run", "insert"},
                        NEW i \in DOMAIN pending, i + 1 \in DOMAIN pending
                 PROVE  pending[i].len > pending[i + 1].len
      BY DEF PendingGrow
    <2>1. Descends(pending, Len(pending))
      BY DEF PendingInv
    <2>2. Len(pending) \in Nat /\ DOMAIN pending = 1 .. Len(pending)
      BY Facts, LenProperties
    <2>3. i \in 1 .. Len(pending) - 1
      BY <2>2
    <2>4. QED
      BY <2>1, <2>3 DEF Descends
  <1>4. QED
    BY <1>1, <1>2, <1>3, InvariantHolds, PTL DEF SortSpec

-----------------------------------------------------------------------------
(* Order.  Prior relates the items as they came, Before as they should go, *)
(* as sets of pairs.                                                       *)

Prior == {p \in Item \X Item : IF reverse THEN p[2].place < p[1].place
                                          ELSE p[1].place < p[2].place}
Before == {p \in Item \X Item : p[1].key < p[2].key \/ (p[1].key = p[2].key /\ p \in Prior)}

\* R relates each x in X to each y in Y.
Leads(R, X, Y) == \A x \in X, y \in Y : <<x, y>> \in R

\* R relates each item of s to each later one.
Sorted(R, s) == \A i, j \in 1 .. Len(s) : i < j => <<s[i], s[j]>> \in R

\* The items of s between l and r are sorted, but for those between x and y.
SortedBut(R, s, l, r, x, y) ==
    \A i, j \in l + 1 .. r : i < j => <<s[i], s[j]>> \in R \/ (x < i /\ j <= y)

\* What is below b leads to what is above.
Split(P, s, b) == Leads(P, Segment(s, 0, b), Segment(s, b, Len(s)))

\* Runs have not mixed: everything below the end of a run, or behind the d
\* items of the next run that are sorted, was there before what is above.
Unmixed(P, s, p, d) ==
    /\ \A r \in 0 .. Len(p) : Split(P, s, EndOf(p, r))
    /\ \A b \in End(p) + d .. Len(s) : Split(P, s, b)

\* Each run is sorted, but for what is between x and y.
RunsSorted(R, s, p, x, y) ==
    \A r \in 1 .. Len(p) : SortedBut(R, s, EndOf(p, r - 1), EndOf(p, r), x, y)

\* A run covers what is between x and y.
InOneRun(p, x, y) == \E r \in 1 .. Len(p) : EndOf(p, r - 1) <= x /\ y <= EndOf(p, r)

\* What is left of both runs and what has its place are sorted; a was before
\* b; what has its place goes before the rest, or behind it; and the item that
\* is to be moved last, the end of a or the beginning of b, goes last.
MergeSorted(P, R, m) ==
    /\ Sorted(R, m.a) /\ Sorted(R, m.b) /\ Sorted(R, m.out)
    /\ Leads(P, ToSet(m.a), ToSet(m.b))
    /\ m.dir = "lo" => /\ Leads(R, ToSet(m.out), ToSet(m.a) \cup ToSet(m.b))
                       /\ m.a # << >> => Leads(R, ToSet(m.b), {Last(m.a)})
    /\ m.dir = "hi" => /\ Leads(R, ToSet(m.a) \cup ToSet(m.b), ToSet(m.out))
                       /\ m.b # << >> => Leads(R, {m.b[1]}, ToSet(m.a))

\* The merge m of two neighbours that are one run of p by now.
MergeInOrder(P, R, m, s, p) ==
    /\ InOneRun(p, m.base, m.base + Total(m))
    /\ RunsSorted(R, s, p, m.base, m.base + Total(m))
    /\ MergeSorted(P, R, m)

\* An item's place tells where it was in the input.
Placed == \A i \in DOMAIN input : input[i].place = i

\* The list while it is sorted.
Arranged ==
    /\ Unmixed(Prior, slice, pending, run.sorted)
    /\ SortedBut(Before, slice, lo, lo + run.sorted, 0, 0)
    /\ stage # "insert" => run.sorted = 0
    /\ IF merge = NoMerge THEN RunsSorted(Before, slice, pending, 0, 0)
                          ELSE MergeInOrder(Prior, Before, merge, slice, pending)

\* The invariant, for a comparison that orders the keys.
OrderInv ==
    ordered =>
        /\ Placed
        /\ stage = "start" => slice = input /\ run.sorted = 0
        /\ stage \in {"run", "insert", "collapse", "force", "sorted"} => Arranged
        /\ stage = "returned" => InOrder(shown, reverse)

-----------------------------------------------------------------------------
(* Sorted sequences, by any relation that the comparison decides.          *)

Transitive(R) ==
    \A x, y, z \in Item : <<x, y>> \in R /\ <<y, z>> \in R => <<x, z>> \in R

\* Asked whether an item is less than one that came before it, the
\* comparison tells where it goes.
Decides(P, R) ==
    \A x, y \in Item :
        <<x, y>> \in P => IF Lt(y, x) THEN <<y, x>> \in R ELSE <<x, y>> \in R

\* The comparison decides the order of items of which one came first.
LEMMA OrderIs == Transitive(Before) /\ Decides(Prior, Before)
  <1>1. \A x, y \in Item :
            /\ x.key \in Int /\ y.key \in Int /\ x.place \in Nat /\ y.place \in Nat
            /\ <<x, y>> \in Prior <=> IF reverse THEN y.place < x.place ELSE x.place < y.place
            /\ <<x, y>> \in Before <=> x.key < y.key \/ (x.key = y.key /\ <<x, y>> \in Prior)
    BY DEF Prior, Before, Item
  <1>2. ASSUME NEW x \in Item, NEW y \in Item, NEW z \in Item,
               <<x, y>> \in Prior, <<y, z>> \in Prior
        PROVE  <<x, z>> \in Prior
    <2>1. /\ x.place \in Nat /\ y.place \in Nat /\ z.place \in Nat
          /\ IF reverse THEN y.place < x.place ELSE x.place < y.place
          /\ IF reverse THEN z.place < y.place ELSE y.place < z.place
      BY <1>1, <1>2
    <2>2. IF reverse THEN z.place < x.place ELSE x.place < z.place
      BY <2>1
    <2>3. QED
      BY <1>1, <2>2
  <1>3. ASSUME NEW x \in Item, NEW y \in Item, NEW z \in Item,
               <<x, y>> \in Before, <<y, z>> \in Before
        PROVE  <<x, z>> \in Before
    <2>1. /\ x.key \in Int /\ y.key \in Int /\ z.key \in Int
          /\ x.key < y.key \/ (x.key = y.key /\ <<x, y>> \in Prior)
          /\ y.key < z.key \/ (y.key = z.key /\ <<y, z>> \in Prior)
      BY <1>1, <1>3
    <2>2. x.key < z.key \/ (x.key = z.key /\ <<x, z>> \in Prior)
      BY <1>2, <2>1
    <2>3. QED
      BY <1>1, <2>2
  <1>4. ASSUME NEW x \in Item, NEW y \in Item, <<x, y>> \in Prior
        PROVE  IF Lt(y, x) THEN <<y, x>> \in Before ELSE <<x, y>> \in Before
    <2>1. x.key \in Int /\ y.key \in Int /\ (Lt(y, x) <=> y.key < x.key)
      BY <1>1 DEF Lt
    <2>2. QED
      BY <1>1, <1>4, <2>1
  <1>5. QED
    BY <1>3, <1>4 DEF Transitive, Decides

\* Sorted sequences join to one if the first leads to the second.
LEMMA SortedJoin ==
    ASSUME NEW R, NEW s \in Seq(Item), NEW t \in Seq(Item),
           Sorted(R, s), Sorted(R, t), Leads(R, ToSet(s), ToSet(t))
    PROVE  Sorted(R, s \o t)
  <1>1. /\ Len(s) \in Nat /\ Len(t) \in Nat /\ Len(s \o t) = Len(s) + Len(t)
        /\ \A i \in 1 .. Len(s) : (s \o t)[i] = s[i]
        /\ \A i \in 1 .. Len(t) : (s \o t)[Len(s) + i] = t[i]
    BY JoinIs
  <1> DEFINE u == s \o t
             x == Len(s)
             y == Len(t)
  <1>2. SUFFICES ASSUME NEW i \in 1 .. Len(u), NEW j \in 1 .. Len(u), i < j
                 PROVE  <<u[i], u[j]>> \in R
    BY DEF Sorted
  <1>3. (\A k \in 1 .. x : s[k] \in ToSet(s)) /\ \A k \in 1 .. y : t[k] \in ToSet(t)
    BY ToSetIs
  <1>4. /\ x \in Nat /\ y \in Nat /\ Len(u) = x + y
        /\ \A k \in 1 .. x : u[k] = s[k]
        /\ \A k \in 1 .. y : u[x + k] = t[k]
    BY <1>1
  <1> HIDE DEF u
  <1>5. CASE j <= x
    <2>1. i \in 1 .. x /\ j \in 1 .. x
      BY <1>2, <1>4, <1>5
    <2>2. QED
      BY <1>2, <1>4, <2>1 DEF Sorted
  <1>6. CASE i > x
    <2>1. i - x \in 1 .. y /\ j - x \in 1 .. y /\ i - x < j - x
          /\ x + (i - x) = i /\ x + (j - x) = j
      BY <1>2, <1>4, <1>6
    <2>2. u[i] = t[i - x] /\ u[j] = t[j - x]
      BY <1>4, <2>1
    <2>3. QED
      BY <2>1, <2>2 DEF Sorted
  <1>7. CASE i <= x /\ j > x
    <2>1. i \in 1 .. x /\ j - x \in 1 .. y /\ x + (j - x) = j
      BY <1>2, <1>4, <1>7
    <2>2. u[i] = s[i] /\ u[j] = t[j - x]
      BY <1>4, <2>1
    <2>3. QED
      BY <1>3, <2>1, <2>2 DEF Leads
  <1>8. QED
    BY <1>2, <1>4, <1>5, <1>6, <1>7

\* Both parts of a sorted sequence are sorted, and the first leads to the second.
LEMMA SortedParts ==
    ASSUME NEW R, NEW s \in Seq(Item), NEW k \in 0 .. Len(s), Sorted(R, s)
    PROVE  /\ Sorted(R, Take(s, k)) /\ Sorted(R, Drop(s, k))
           /\ Leads(R, ToSet(Take(s, k)), ToSet(Drop(s, k)))
  <1> DEFINE t == Take(s, k)
             u == Drop(s, k)
             n == Len(s)
  <1>1. n \in Nat /\ k \in 0 .. n
    BY LenProperties
  <1>2. t \in Seq(Item) /\ Len(t) = k /\ \A i \in 1 .. k : t[i] = s[i]
    BY TakeIs
  <1>3. u \in Seq(Item) /\ Len(u) = n - k /\ \A i \in 1 .. n - k : u[i] = s[k + i]
    BY DropIs
  <1>4. /\ \A x : x \in ToSet(t) <=> \E i \in 1 .. k : x = t[i]
        /\ \A x : x \in ToSet(u) <=> \E i \in 1 .. n - k : x = u[i]
    <2> HIDE DEF t, u, n
    <2>1. \A x : x \in ToSet(t) <=> \E i \in 1 .. Len(t) : x = t[i]
      BY <1>2, ToSetIs
    <2>2. \A x : x \in ToSet(u) <=> \E i \in 1 .. Len(u) : x = u[i]
      BY <1>3, ToSetIs
    <2>3. QED
      BY <1>2, <1>3, <2>1, <2>2
  <1> HIDE DEF t, u
  <1>5. Sorted(R, t)
    BY <1>1, <1>2 DEF Sorted
  <1>6. Sorted(R, u)
    <2>1. ASSUME NEW i \in 1 .. n - k, NEW j \in 1 .. n - k, i < j
          PROVE  <<u[i], u[j]>> \in R
      <3>1. k + i \in 1 .. n /\ k + j \in 1 .. n /\ k + i < k + j
        BY <1>1, <2>1
      <3>2. QED
        BY <1>3, <3>1 DEF Sorted
    <2>2. QED
      BY <1>3, <2>1 DEF Sorted
  <1>7. Leads(R, ToSet(t), ToSet(u))
    <2>1. ASSUME NEW i \in 1 .. k, NEW j \in 1 .. n - k
          PROVE  <<t[i], u[j]>> \in R
      <3>1. i \in 1 .. n /\ k + j \in 1 .. n /\ i < k + j
        BY <1>1
      <3>2. QED
        BY <1>2, <1>3, <3>1 DEF Sorted
    <2>2. QED
      BY <1>4, <2>1 DEF Leads
  <1>8. QED
    BY <1>5, <1>6, <1>7 DEF t, u

\* What leads to an item leads to all that the item leads to.
LEMMA LeadsThrough ==
    ASSUME NEW R, Transitive(R), NEW X \in SUBSET Item, NEW Y \in SUBSET Item,
           NEW z \in Item, Leads(R, X, {z}), Leads(R, {z}, Y)
    PROVE  Leads(R, X, Y)
  BY DEF Leads, Transitive

\* What comes before the first item comes before all.
LEMMA LeadsFirst ==
    ASSUME NEW R, Transitive(R), NEW s \in Seq(Item), Len(s) # 0, Sorted(R, s)
    PROVE  /\ s[1] \in ToSet(s) /\ s[1] \in Item
           /\ \A x \in Item : <<x, s[1]>> \in R => Leads(R, {x}, ToSet(s))
  <1>1. Len(s) \in Nat /\ 1 \in 1 .. Len(s)
    BY LenProperties
  <1>2. ToSet(s) \in SUBSET Item /\ \A x : x \in ToSet(s) <=> \E i \in 1 .. Len(s) : x = s[i]
    BY ToSetIs
  <1>3. s[1] \in ToSet(s) /\ s[1] \in Item
    BY <1>1, <1>2
  <1>4. ASSUME NEW x \in Item, <<x, s[1]>> \in R, NEW i \in 1 .. Len(s)
        PROVE  <<x, s[i]>> \in R
    <2>1. i = 1 \/ 1 < i
      BY <1>1
    <2>2. CASE 1 < i
      <3>1. <<s[1], s[i]>> \in R /\ s[i] \in Item
        BY <1>1, <1>2, <2>2 DEF Sorted
      <3>2. QED
        BY <1>3, <1>4, <3>1 DEF Transitive
    <2>3. QED
      BY <1>4, <2>1, <2>2
  <1>5. QED
    BY <1>2, <1>3, <1>4 DEF Leads

\* What comes behind the last item comes behind all.
LEMMA LeadsLast ==
    ASSUME NEW R, Transitive(R), NEW s \in Seq(Item), Len(s) # 0, Sorted(R, s)
    PROVE  /\ Last(s) \in ToSet(s) /\ Last(s) \in Item
           /\ \A x \in Item : <<Last(s), x>> \in R => Leads(R, ToSet(s), {x})
  <1> DEFINE n == Len(s)
  <1>1. n \in Nat /\ n \in 1 .. n /\ Last(s) = s[n]
    BY LenProperties DEF Last
  <1>2. ToSet(s) \in SUBSET Item /\ \A x : x \in ToSet(s) <=> \E i \in 1 .. n : x = s[i]
    BY ToSetIs
  <1>3. s[n] \in ToSet(s) /\ s[n] \in Item
    BY <1>1, <1>2
  <1>4. ASSUME NEW x \in Item, <<s[n], x>> \in R, NEW i \in 1 .. n
        PROVE  <<s[i], x>> \in R
    <2>1. i = n \/ i < n
      BY <1>1
    <2>2. CASE i < n
      <3>1. <<s[i], s[n]>> \in R /\ s[i] \in Item
        BY <1>1, <1>2, <2>2 DEF Sorted
      <3>2. QED
        BY <1>3, <1>4, <3>1 DEF Transitive
    <2>3. QED
      BY <1>4, <2>1, <2>2
  <1>5. QED
    BY <1>1, <1>2, <1>3, <1>4 DEF Leads

-----------------------------------------------------------------------------
(* Searches in sorted sequences.                                           *)

\* x belongs behind the first k items of s.
Belongs(R, x, s, k) ==
    /\ k \in 0 .. Len(s)
    /\ Leads(R, ToSet(Take(s, k)), {x})
    /\ Leads(R, {x}, ToSet(Drop(s, k)))

\* It is enough to look at its neighbours.
LEMMA BelongsIs ==
    ASSUME NEW R, Transitive(R), NEW s \in Seq(Item), Sorted(R, s), NEW x \in Item,
           NEW k \in 0 .. Len(s),
           k = 0 \/ <<s[k], x>> \in R, k = Len(s) \/ <<x, s[k + 1]>> \in R
    PROVE  Belongs(R, x, s, k)
  <1> DEFINE t == Take(s, k)
             u == Drop(s, k)
             n == Len(s)
  <1>1. n \in Nat /\ k \in 0 .. n
    BY LenProperties
  <1>2. t \in Seq(Item) /\ Len(t) = k /\ \A i \in 1 .. k : t[i] = s[i]
    BY TakeIs
  <1>3. u \in Seq(Item) /\ Len(u) = n - k /\ \A i \in 1 .. n - k : u[i] = s[k + i]
    BY DropIs
  <1>4. Sorted(R, t) /\ Sorted(R, u)
    BY SortedParts
  <1>5. Leads(R, ToSet(t), {x})
    <2>1. CASE k = 0
      <3>1. ToSet(t) = {}
        BY <1>2, <2>1, ToSetIs
      <3>2. QED
        BY <3>1 DEF Leads
    <2>2. CASE k # 0
      <3>1. k \in 1 .. k /\ Last(t) = s[k]
        BY <1>1, <1>2, <2>2 DEF Last
      <3>2. <<Last(t), x>> \in R
        BY <2>2, <3>1
      <3> HIDE DEF t
      <3>3. QED
        BY <1>2, <1>4, <2>2, <3>2, LeadsLast
    <2>3. QED
      BY <2>1, <2>2
  <1>6. Leads(R, {x}, ToSet(u))
    <2>1. CASE k = n
      <3>1. Len(u) = 0
        BY <1>1, <1>3, <2>1
      <3> HIDE DEF u
      <3>2. ToSet(u) = {}
        BY <1>3, <3>1, ToSetIs
      <3>3. QED
        BY <3>2 DEF Leads
    <2>2. CASE k # n
      <3>1. 1 \in 1 .. n - k /\ u[1] = s[k + 1] /\ Len(u) # 0
        BY <1>1, <1>3, <2>2
      <3>2. <<x, u[1]>> \in R
        BY <2>2, <3>1
      <3> HIDE DEF u
      <3>3. QED
        BY <1>3, <1>4, <3>1, <3>2, LeadsFirst
    <2>3. QED
      BY <2>1, <2>2
  <1>7. QED
    BY <1>1, <1>5, <1>6 DEF Belongs

\* An item that came later belongs behind what is not greater.
LEMMA NotGreaterIs ==
    ASSUME NEW P, NEW R, Transitive(R), Decides(P, R), NEW s \in Seq(Item), Sorted(R, s),
           NEW x \in Item, Leads(P, ToSet(s), {x}), NEW k \in 0 .. Len(s),
           k = 0 \/ k - 1 \in NotGreater(s, x), k = Len(s) \/ k \notin NotGreater(s, x)
    PROVE  Belongs(R, x, s, k)
  <1> DEFINE n == Len(s)
  <1>1. n \in Nat /\ k \in 0 .. n
    BY LenProperties
  <1>2. \A i \in 1 .. n : s[i] \in Item /\ <<s[i], x>> \in P
    BY ToSetIs DEF Leads
  <1>3. \A i \in 0 .. n - 1 : i \in NotGreater(s, x) <=> ~Lt(x, s[i + 1])
    BY DEF NotGreater
  <1>4. k = 0 \/ <<s[k], x>> \in R
    <2>1. CASE k # 0
      <3>1. k - 1 \in 0 .. n - 1 /\ (k - 1) + 1 = k /\ k \in 1 .. n
        BY <1>1, <2>1
      <3>2. ~Lt(x, s[k])
        BY <1>3, <2>1, <3>1
      <3>3. QED
        BY <1>2, <3>1, <3>2 DEF Decides
    <2>2. QED
      BY <2>1
  <1>5. k = n \/ <<x, s[k + 1]>> \in R
    <2>1. CASE k # n
      <3>1. k \in 0 .. n - 1 /\ k + 1 \in 1 .. n
        BY <1>1, <2>1
      <3>2. Lt(x, s[k + 1])
        BY <1>3, <2>1, <3>1
      <3>3. QED
        BY <1>2, <3>1, <3>2 DEF Decides
    <2>2. QED
      BY <2>1
  <1>6. QED
    BY <1>4, <1>5, BelongsIs

\* An item that came earlier belongs behind what is less.
LEMMA LessIs ==
    ASSUME NEW P, NEW R, Transitive(R), Decides(P, R), NEW s \in Seq(Item), Sorted(R, s),
           NEW x \in Item, Leads(P, {x}, ToSet(s)), NEW k \in 0 .. Len(s),
           k = 0 \/ k - 1 \in Less(s, x), k = Len(s) \/ k \notin Less(s, x)
    PROVE  Belongs(R, x, s, k)
  <1> DEFINE n == Len(s)
  <1>1. n \in Nat /\ k \in 0 .. n
    BY LenProperties
  <1>2. \A i \in 1 .. n : s[i] \in Item /\ <<x, s[i]>> \in P
    BY ToSetIs DEF Leads
  <1>3. \A i \in 0 .. n - 1 : i \in Less(s, x) <=> Lt(s[i + 1], x)
    BY DEF Less
  <1>4. k = 0 \/ <<s[k], x>> \in R
    <2>1. CASE k # 0
      <3>1. k - 1 \in 0 .. n - 1 /\ (k - 1) + 1 = k /\ k \in 1 .. n
        BY <1>1, <2>1
      <3>2. Lt(s[k], x)
        BY <1>3, <2>1, <3>1
      <3>3. QED
        BY <1>2, <3>1, <3>2 DEF Decides
    <2>2. QED
      BY <2>1
  <1>5. k = n \/ <<x, s[k + 1]>> \in R
    <2>1. CASE k # n
      <3>1. k \in 0 .. n - 1 /\ k + 1 \in 1 .. n
        BY <1>1, <2>1
      <3>2. ~Lt(s[k + 1], x)
        BY <1>3, <2>1, <3>1
      <3>3. QED
        BY <1>2, <3>1, <3>2 DEF Decides
    <2>2. QED
      BY <2>1
  <1>6. QED
    BY <1>4, <1>5, BelongsIs

\* The searches find where an item belongs.
LEMMA SearchesFind ==
    ASSUME NEW P, NEW R, Transitive(R), Decides(P, R), NEW s \in Seq(Item), Sorted(R, s),
           NEW x \in Item, NEW hint \in 0 .. Len(s) - 1
    PROVE  /\ Leads(P, ToSet(s), {x}) => Belongs(R, x, s, GallopRight(x, s, hint))
           /\ Leads(P, {x}, ToSet(s)) => Belongs(R, x, s, GallopLeft(x, s, hint))
  <1>1. Len(s) \in Nat
    BY LenProperties
  <1>2. ASSUME Leads(P, ToSet(s), {x})
        PROVE  Belongs(R, x, s, GallopRight(x, s, hint))
    <2> DEFINE k == GallopRight(x, s, hint)
               before == NotGreater(s, x)
    <2>1. k \in 0 .. Len(s) /\ (k = 0 \/ k - 1 \in before) /\ (k = Len(s) \/ k \notin before)
      <3> HIDE DEF before
      <3>1. GallopRight(x, s, hint) = GallopWith(Len(s), hint, before)
        BY DEF GallopRight, before
      <3>2. QED
        BY <1>1, <3>1, GallopFinds
    <2> HIDE DEF k
    <2>2. Belongs(R, x, s, k)
      BY <1>2, <2>1, NotGreaterIs
    <2>3. QED
      BY <2>2 DEF k
  <1>3. ASSUME Leads(P, {x}, ToSet(s))
        PROVE  Belongs(R, x, s, GallopLeft(x, s, hint))
    <2> DEFINE k == GallopLeft(x, s, hint)
               before == Less(s, x)
    <2>1. k \in 0 .. Len(s) /\ (k = 0 \/ k - 1 \in before) /\ (k = Len(s) \/ k \notin before)
      <3> HIDE DEF before
      <3>1. GallopLeft(x, s, hint) = GallopWith(Len(s), hint, before)
        BY DEF GallopLeft, before
      <3>2. QED
        BY <1>1, <3>1, GallopFinds
    <2> HIDE DEF k
    <2>2. Belongs(R, x, s, k)
      BY <1>3, <2>1, LessIs
    <2>3. QED
      BY <2>2 DEF k
  <1>4. QED
    BY <1>2, <1>3

\* bisect of binarysort finds where the pivot belongs, to the right of its equals.
LEMMA BisectionFinds ==
    ASSUME NEW P, NEW R, Transitive(R), Decides(P, R), NEW s \in Seq(Item), Sorted(R, s),
           NEW x \in Item, Leads(P, ToSet(s), {x})
    PROVE  Belongs(R, x, s, BehindEquals(s, x))
  <1> DEFINE n == Len(s)
             before == NotGreater(s, x)
             k == BehindEquals(s, x)
  <1>1. n \in Nat /\ 0 \in 0 .. n
    BY LenProperties
  <1>2. k \in 0 .. n /\ (k = 0 \/ k - 1 \in before) /\ (k = n \/ k \notin before)
    <2> HIDE DEF before, n
    <2>1. k = Bisect(0, n, before)
      BY DEF BehindEquals, before, n
    <2> HIDE DEF k
    <2>2. QED
      BY <1>1, <2>1, BisectFinds
  <1> HIDE DEF k
  <1>3. Belongs(R, x, s, k)
    BY <1>2, NotGreaterIs
  <1>4. QED
    BY <1>3 DEF k

-----------------------------------------------------------------------------
(* Merges keep the order.                                                  *)

\* A part that reaches an end of the sequence has its end.
LEMMA EndsOfParts ==
    ASSUME NEW s \in Seq(Item), NEW k \in 0 .. Len(s)
    PROVE  /\ Drop(s, k) # << >> => s # << >> /\ Last(Drop(s, k)) = Last(s)
           /\ Take(s, k) # << >> => s # << >> /\ Take(s, k)[1] = s[1]
  <1> DEFINE n == Len(s)
             t == Take(s, k)
             u == Drop(s, k)
  <1>1. n \in Nat /\ k \in 0 .. n /\ (n # 0 => s # << >>)
    BY LenProperties, EmptySeq
  <1>2. t \in Seq(Item) /\ Len(t) = k /\ \A i \in 1 .. k : t[i] = s[i]
    BY TakeIs
  <1>3. u \in Seq(Item) /\ Len(u) = n - k /\ \A i \in 1 .. n - k : u[i] = s[k + i]
    BY DropIs
  <1>4. (u # << >> => Len(u) # 0) /\ (t # << >> => Len(t) # 0)
    <2> HIDE DEF t, u
    <2>1. QED
      BY <1>2, <1>3, EmptySeq
  <1>5. ASSUME u # << >> PROVE s # << >> /\ Last(u) = Last(s)
    <2>1. n - k # 0
      BY <1>3, <1>4, <1>5
    <2>2. n - k \in 1 .. n - k /\ k + (n - k) = n /\ n # 0
      BY <1>1, <2>1
    <2>3. Last(u) = u[n - k] /\ Last(s) = s[n]
      BY <1>3 DEF Last
    <2>4. QED
      BY <1>1, <1>3, <2>2, <2>3
  <1>6. ASSUME t # << >> PROVE s # << >> /\ t[1] = s[1]
    <2>1. k # 0
      BY <1>2, <1>4, <1>6
    <2>2. 1 \in 1 .. k /\ n # 0
      BY <1>1, <2>1
    <2>3. QED
      BY <1>1, <1>2, <2>2
  <1>7. QED
    BY <1>5, <1>6

\* A merge stays sorted when items of a that come next go to their place.
LEMMA MoveASorted ==
    ASSUME NEW P, NEW R, NEW m \in Merge, MergeSorted(P, R, m), NEW k \in 0 .. Len(m.a),
           m.dir = "lo" => Leads(R, ToSet(Take(m.a, k)), ToSet(m.b)),
           m.dir = "hi" => Leads(R, ToSet(m.b), ToSet(Drop(m.a, Len(m.a) - k)))
    PROVE  MergeSorted(P, R, MoveA(m, k))
  <1> DEFINE n == MoveA(m, k)
  <1>1. /\ m.a \in Seq(Item) /\ m.b \in Seq(Item) /\ m.out \in Seq(Item)
        /\ Len(m.a) \in Nat /\ m.dir \in {"lo", "hi"}
    BY MergeLengths DEF Merge
  <1>2. /\ n.dir = m.dir /\ n.b = m.b
        /\ m.dir = "lo" => n.a = Drop(m.a, k) /\ n.out = m.out \o Take(m.a, k)
        /\ m.dir = "hi" => /\ n.a = Take(m.a, Len(m.a) - k)
                           /\ n.out = Drop(m.a, Len(m.a) - k) \o m.out
    BY MoveAIs
  <1>3. /\ Sorted(R, m.a) /\ Sorted(R, m.b) /\ Sorted(R, m.out)
        /\ Leads(P, ToSet(m.a), ToSet(m.b))
    BY DEF MergeSorted
  <1> HIDE DEF n
  <1>4. CASE m.dir = "lo"
    <2> DEFINE t == Take(m.a, k)
               u == Drop(m.a, k)
    <2>1. t \in Seq(Item) /\ u \in Seq(Item) /\ ToSet(m.a) = ToSet(t) \cup ToSet(u)
      BY <1>1, ItemParts
    <2>2. Sorted(R, t) /\ Sorted(R, u) /\ Leads(R, ToSet(t), ToSet(u))
      BY <1>1, <1>3, SortedParts
    <2>3. u # << >> => m.a # << >> /\ Last(u) = Last(m.a)
      BY <1>1, EndsOfParts
    <2>4. n.a = u /\ n.out = m.out \o t
      BY <1>2, <1>4
    <2>5. /\ Leads(R, ToSet(m.out), ToSet(m.a) \cup ToSet(m.b))
          /\ m.a # << >> => Leads(R, ToSet(m.b), {Last(m.a)})
      BY <1>4 DEF MergeSorted
    <2>6. Leads(R, ToSet(t), ToSet(m.b))
      BY <1>4
    <2> HIDE DEF t, u
    <2>7. Sorted(R, n.out)
      <3>1. Leads(R, ToSet(m.out), ToSet(t))
        BY <2>1, <2>5 DEF Leads
      <3>2. QED
        BY <1>1, <1>3, <2>1, <2>2, <2>4, <3>1, SortedJoin
    <2>8. Leads(P, ToSet(n.a), ToSet(n.b))
      BY <1>2, <1>3, <2>1, <2>4 DEF Leads
    <2>9. Leads(R, ToSet(n.out), ToSet(n.a) \cup ToSet(n.b))
      <3>1. ToSet(n.out) = ToSet(m.out) \cup ToSet(t)
        BY <1>1, <2>1, <2>4, JoinSet
      <3>2. QED
        BY <1>2, <2>1, <2>2, <2>4, <2>5, <2>6, <3>1 DEF Leads
    <2>10. n.a # << >> => Leads(R, ToSet(n.b), {Last(n.a)})
      BY <1>2, <2>3, <2>4, <2>5
    <2>11. n.dir = "lo"
      BY <1>2, <1>4
    <2>12. QED
      BY <1>2, <1>3, <2>2, <2>4, <2>7, <2>8, <2>9, <2>10, <2>11 DEF MergeSorted, n
  <1>5. CASE m.dir = "hi"
    <2> DEFINE r == Len(m.a) - k
               t == Take(m.a, r)
               u == Drop(m.a, r)
    <2>1. r \in 0 .. Len(m.a)
      BY <1>1
    <2>2. n.a = t /\ n.out = u \o m.out
      BY <1>2, <1>5
    <2>3. Leads(R, ToSet(m.b), ToSet(u))
      BY <1>5
    <2> HIDE DEF r
    <2>4. t \in Seq(Item) /\ u \in Seq(Item) /\ ToSet(m.a) = ToSet(t) \cup ToSet(u)
      BY <1>1, <2>1, TakeIs, DropIs, SplitIs
    <2>5. Sorted(R, t) /\ Sorted(R, u) /\ Leads(R, ToSet(t), ToSet(u))
      BY <1>1, <1>3, <2>1, SortedParts
    <2>6. /\ Leads(R, ToSet(m.a) \cup ToSet(m.b), ToSet(m.out))
          /\ m.b # << >> => Leads(R, {m.b[1]}, ToSet(m.a))
      BY <1>5 DEF MergeSorted
    <2> HIDE DEF t, u
    <2>7. Sorted(R, n.out)
      <3>1. Leads(R, ToSet(u), ToSet(m.out))
        BY <2>4, <2>6 DEF Leads
      <3>2. QED
        BY <1>1, <1>3, <2>4, <2>5, <2>2, <3>1, SortedJoin
    <2>8. Leads(P, ToSet(n.a), ToSet(n.b))
      BY <1>2, <1>3, <2>4, <2>2 DEF Leads
    <2>9. Leads(R, ToSet(n.a) \cup ToSet(n.b), ToSet(n.out))
      <3>1. ToSet(n.out) = ToSet(u) \cup ToSet(m.out)
        BY <1>1, <2>4, <2>2, JoinSet
      <3>2. QED
        BY <1>2, <2>4, <2>5, <2>2, <2>6, <2>3, <3>1 DEF Leads
    <2>10. n.b # << >> => Leads(R, {n.b[1]}, ToSet(n.a))
      BY <1>2, <2>4, <2>2, <2>6 DEF Leads
    <2>11. n.dir = "hi"
      BY <1>2, <1>5
    <2>12. QED
      BY <1>2, <1>3, <2>5, <2>2, <2>7, <2>8, <2>9, <2>10, <2>11 DEF MergeSorted, n
  <1>6. QED
    BY <1>1, <1>4, <1>5

\* The same for items of b.
LEMMA MoveBSorted ==
    ASSUME NEW P, NEW R, NEW m \in Merge, MergeSorted(P, R, m), NEW k \in 0 .. Len(m.b),
           m.dir = "lo" => Leads(R, ToSet(Take(m.b, k)), ToSet(m.a)),
           m.dir = "hi" => Leads(R, ToSet(m.a), ToSet(Drop(m.b, Len(m.b) - k)))
    PROVE  MergeSorted(P, R, MoveB(m, k))
  <1> DEFINE n == MoveB(m, k)
  <1>1. /\ m.a \in Seq(Item) /\ m.b \in Seq(Item) /\ m.out \in Seq(Item)
        /\ Len(m.b) \in Nat /\ m.dir \in {"lo", "hi"}
    BY MergeLengths DEF Merge
  <1>2. /\ n.dir = m.dir /\ n.a = m.a
        /\ m.dir = "lo" => n.b = Drop(m.b, k) /\ n.out = m.out \o Take(m.b, k)
        /\ m.dir = "hi" => /\ n.b = Take(m.b, Len(m.b) - k)
                           /\ n.out = Drop(m.b, Len(m.b) - k) \o m.out
    BY MoveBIs
  <1>3. /\ Sorted(R, m.a) /\ Sorted(R, m.b) /\ Sorted(R, m.out)
        /\ Leads(P, ToSet(m.a), ToSet(m.b))
    BY DEF MergeSorted
  <1> HIDE DEF n
  <1>4. CASE m.dir = "lo"
    <2> DEFINE t == Take(m.b, k)
               u == Drop(m.b, k)
    <2>1. t \in Seq(Item) /\ u \in Seq(Item) /\ ToSet(m.b) = ToSet(t) \cup ToSet(u)
      BY <1>1, ItemParts
    <2>2. Sorted(R, t) /\ Sorted(R, u) /\ Leads(R, ToSet(t), ToSet(u))
      BY <1>1, <1>3, SortedParts
    <2>3. n.b = u /\ n.out = m.out \o t
      BY <1>2, <1>4
    <2>4. /\ Leads(R, ToSet(m.out), ToSet(m.a) \cup ToSet(m.b))
          /\ m.a # << >> => Leads(R, ToSet(m.b), {Last(m.a)})
      BY <1>4 DEF MergeSorted
    <2>5. Leads(R, ToSet(t), ToSet(m.a))
      BY <1>4
    <2> HIDE DEF t, u
    <2>6. Sorted(R, n.out)
      <3>1. Leads(R, ToSet(m.out), ToSet(t))
        BY <2>1, <2>4 DEF Leads
      <3>2. QED
        BY <1>1, <1>3, <2>1, <2>2, <2>3, <3>1, SortedJoin
    <2>7. Leads(P, ToSet(n.a), ToSet(n.b))
      BY <1>2, <1>3, <2>1, <2>3 DEF Leads
    <2>8. Leads(R, ToSet(n.out), ToSet(n.a) \cup ToSet(n.b))
      <3>1. ToSet(n.out) = ToSet(m.out) \cup ToSet(t)
        BY <1>1, <2>1, <2>3, JoinSet
      <3>2. QED
        BY <1>2, <2>1, <2>2, <2>3, <2>4, <2>5, <3>1 DEF Leads
    <2>9. n.a # << >> => Leads(R, ToSet(n.b), {Last(n.a)})
      BY <1>2, <2>1, <2>3, <2>4 DEF Leads
    <2>10. n.dir = "lo"
      BY <1>2, <1>4
    <2>11. QED
      BY <1>2, <1>3, <2>2, <2>3, <2>6, <2>7, <2>8, <2>9, <2>10 DEF MergeSorted, n
  <1>5. CASE m.dir = "hi"
    <2> DEFINE r == Len(m.b) - k
               t == Take(m.b, r)
               u == Drop(m.b, r)
    <2>1. r \in 0 .. Len(m.b)
      BY <1>1
    <2>2. n.b = t /\ n.out = u \o m.out
      BY <1>2, <1>5
    <2>3. Leads(R, ToSet(m.a), ToSet(u))
      BY <1>5
    <2> HIDE DEF r
    <2>4. t \in Seq(Item) /\ u \in Seq(Item) /\ ToSet(m.b) = ToSet(t) \cup ToSet(u)
      BY <1>1, <2>1, TakeIs, DropIs, SplitIs
    <2>5. Sorted(R, t) /\ Sorted(R, u) /\ Leads(R, ToSet(t), ToSet(u))
      BY <1>1, <1>3, <2>1, SortedParts
    <2>6. t # << >> => m.b # << >> /\ t[1] = m.b[1]
      BY <1>1, <2>1, EndsOfParts
    <2>7. /\ Leads(R, ToSet(m.a) \cup ToSet(m.b), ToSet(m.out))
          /\ m.b # << >> => Leads(R, {m.b[1]}, ToSet(m.a))
      BY <1>5 DEF MergeSorted
    <2> HIDE DEF t, u
    <2>8. Sorted(R, n.out)
      <3>1. Leads(R, ToSet(u), ToSet(m.out))
        BY <2>4, <2>7 DEF Leads
      <3>2. QED
        BY <1>1, <1>3, <2>4, <2>5, <2>2, <3>1, SortedJoin
    <2>9. Leads(P, ToSet(n.a), ToSet(n.b))
      BY <1>2, <1>3, <2>2, <2>4 DEF Leads
    <2>10. Leads(R, ToSet(n.a) \cup ToSet(n.b), ToSet(n.out))
      <3>1. ToSet(n.out) = ToSet(u) \cup ToSet(m.out)
        BY <1>1, <2>2, <2>4, JoinSet
      <3>2. QED
        BY <1>2, <2>2, <2>3, <2>4, <2>5, <2>7, <3>1 DEF Leads
    <2>11. n.b # << >> => Leads(R, {n.b[1]}, ToSet(n.a))
      BY <1>2, <2>2, <2>6, <2>7
    <2>12. n.dir = "hi"
      BY <1>2, <1>5
    <2>13. QED
      BY <1>2, <1>3, <2>2, <2>5, <2>8, <2>9, <2>10, <2>11, <2>12 DEF MergeSorted, n
  <1>6. QED
    BY <1>1, <1>4, <1>5

\* Three sorted sequences join to one.
LEMMA SortedJoin3 ==
    ASSUME NEW R, NEW s \in Seq(Item), NEW t \in Seq(Item), NEW u \in Seq(Item),
           Sorted(R, s), Sorted(R, t), Sorted(R, u), Leads(R, ToSet(s), ToSet(t)),
           Leads(R, ToSet(s) \cup ToSet(t), ToSet(u))
    PROVE  Sorted(R, s \o t \o u)
  <1>1. s \o t \in Seq(Item) /\ ToSet(s \o t) = ToSet(s) \cup ToSet(t)
    BY JoinIs, JoinSet
  <1>2. Sorted(R, s \o t)
    BY SortedJoin
  <1>3. QED
    BY <1>1, <1>2, SortedJoin

\* A merge that has ended leaves its part of the list sorted.
LEMMA MergedSorted ==
    ASSUME NEW P, NEW R, NEW m \in Merge, MergeSorted(P, R, m), Ended(m)
    PROVE  Sorted(R, Merged(m))
  <1> DEFINE a == m.a
             b == m.b
             o == m.out
  <1>1. /\ a \in Seq(Item) /\ b \in Seq(Item) /\ o \in Seq(Item)
        /\ Len(a) \in Nat /\ Len(b) \in Nat /\ m.dir \in {"lo", "hi"}
    BY MergeLengths DEF Merge
  <1>2. Sorted(R, a) /\ Sorted(R, b) /\ Sorted(R, o)
    BY DEF MergeSorted
  <1>3. ASSUME NEW s \in Seq(Item), Len(s) = 1
        PROVE  s # << >> /\ ToSet(s) = {s[1]} /\ Last(s) = s[1]
    <2>1. \A x : x \in ToSet(s) <=> \E i \in 1 .. Len(s) : x = s[i]
      BY ToSetIs
    <2>2. \A x : x \in ToSet(s) <=> x = s[1]
      BY <1>3, <2>1
    <2>3. QED
      BY <1>3, <2>2, EmptySeq DEF Last
  <1>4. ASSUME NEW s \in Seq(Item), s = << >> \/ Len(s) = 0
        PROVE  ToSet(s) = {}
    <2>1. Len(s) = 0
      BY <1>4, EmptySeq
    <2>2. QED
      BY <2>1, ToSetIs
  <1>5. CASE m.dir = "lo"
    <2>1. /\ Leads(R, ToSet(o), ToSet(a) \cup ToSet(b))
          /\ a # << >> => Leads(R, ToSet(b), {Last(a)})
          /\ b = << >> \/ Len(a) < 2
      BY <1>5 DEF MergeSorted, Ended
    <2>2. CASE Len(a) = 1
      <3>1. a # << >> /\ ToSet(a) = {Last(a)}
        BY <1>1, <1>3, <2>2
      <3>2. Merged(m) = o \o b \o a
        BY <1>5, <2>2 DEF Merged
      <3> HIDE DEF a, b, o
      <3>3. Leads(R, ToSet(o), ToSet(b)) /\ Leads(R, ToSet(o) \cup ToSet(b), ToSet(a))
        BY <2>1, <3>1 DEF Leads
      <3>4. QED
        BY <1>1, <1>2, <3>2, <3>3, SortedJoin3
    <2>3. CASE Len(a) # 1
      <3>1. Merged(m) = o \o a \o b
        BY <1>5, <2>3 DEF Merged, Restored
      <3>2. b = << >> \/ Len(a) = 0
        <4>1. \A x \in Nat : x # 1 /\ x < 2 => x = 0
          OBVIOUS
        <4>2. Len(a) \in Nat
          BY <1>1
        <4>3. QED
          BY <2>1, <2>3, <4>1, <4>2
      <3> HIDE DEF a, b, o
      <3>3. ToSet(b) = {} \/ ToSet(a) = {}
        BY <1>1, <1>4, <3>2
      <3>4. Leads(R, ToSet(o), ToSet(a)) /\ Leads(R, ToSet(o) \cup ToSet(a), ToSet(b))
        BY <2>1, <3>3 DEF Leads
      <3>5. QED
        BY <1>1, <1>2, <3>1, <3>4, SortedJoin3
    <2>4. QED
      BY <2>2, <2>3
  <1>6. CASE m.dir = "hi"
    <2>1. /\ Leads(R, ToSet(a) \cup ToSet(b), ToSet(o))
          /\ b # << >> => Leads(R, {b[1]}, ToSet(a))
          /\ a = << >> \/ Len(b) < 2
      BY <1>6 DEF MergeSorted, Ended
    <2>2. CASE Len(b) = 1
      <3>1. b # << >> /\ ToSet(b) = {b[1]}
        BY <1>1, <1>3, <2>2
      <3>2. Merged(m) = b \o a \o o
        BY <1>6, <2>2 DEF Merged
      <3> HIDE DEF a, b, o
      <3>3. Leads(R, ToSet(b), ToSet(a)) /\ Leads(R, ToSet(b) \cup ToSet(a), ToSet(o))
        BY <2>1, <3>1 DEF Leads
      <3>4. QED
        BY <1>1, <1>2, <3>2, <3>3, SortedJoin3
    <2>3. CASE Len(b) # 1
      <3>1. Merged(m) = a \o b \o o
        BY <1>6, <2>3 DEF Merged, Restored
      <3>2. a = << >> \/ Len(b) = 0
        <4>1. \A x \in Nat : x # 1 /\ x < 2 => x = 0
          OBVIOUS
        <4>2. Len(b) \in Nat
          BY <1>1
        <4>3. QED
          BY <2>1, <2>3, <4>1, <4>2
      <3> HIDE DEF a, b, o
      <3>3. ToSet(b) = {} \/ ToSet(a) = {}
        BY <1>1, <1>4, <3>2
      <3>4. Leads(R, ToSet(a), ToSet(b)) /\ Leads(R, ToSet(a) \cup ToSet(b), ToSet(o))
        BY <2>1, <3>3 DEF Leads
      <3>5. QED
        BY <1>1, <1>2, <3>1, <3>4, SortedJoin3
    <2>4. QED
      BY <2>2, <2>3
  <1>7. QED
    BY <1>1, <1>5, <1>6

\* Two sorted runs make a sorted merge, if it is known where the first item
\* of the second and the last of the first belong.
LEMMA OpeningSorted ==
    ASSUME NEW P, NEW R, NEW s \in Seq(Item), NEW t \in Seq(Item),
           Sorted(R, s), Sorted(R, t), Leads(P, ToSet(s), ToSet(t)),
           NEW k, Belongs(R, t[1], s, k), NEW n, Belongs(R, Last(s), t, n),
           NEW m, m.a = Drop(s, k), m.b = Take(t, n), m.out = << >>
    PROVE  MergeSorted(P, R, m)
  <1>1. k \in 0 .. Len(s) /\ n \in 0 .. Len(t)
    BY DEF Belongs
  <1>2. /\ m.a \in Seq(Item) /\ Sorted(R, m.a) /\ ToSet(m.a) \subseteq ToSet(s)
        /\ m.a # << >> => Last(m.a) = Last(s)
    <2>1. Drop(s, k) \in Seq(Item) /\ Sorted(R, Drop(s, k))
      BY <1>1, DropIs, SortedParts
    <2>2. ToSet(Drop(s, k)) \subseteq ToSet(s)
      BY <1>1, SplitIs
    <2>3. Drop(s, k) # << >> => Last(Drop(s, k)) = Last(s)
      BY <1>1, EndsOfParts
    <2>4. QED
      BY <2>1, <2>2, <2>3
  <1>3. /\ m.b \in Seq(Item) /\ Sorted(R, m.b) /\ ToSet(m.b) \subseteq ToSet(t)
        /\ m.b # << >> => m.b[1] = t[1]
    <2>1. Take(t, n) \in Seq(Item) /\ Sorted(R, Take(t, n))
      BY <1>1, TakeIs, SortedParts
    <2>2. ToSet(Take(t, n)) \subseteq ToSet(t)
      BY <1>1, SplitIs
    <2>3. Take(t, n) # << >> => Take(t, n)[1] = t[1]
      BY <1>1, EndsOfParts
    <2>4. QED
      BY <2>1, <2>2, <2>3
  <1>4. Len(m.out) = 0 /\ ToSet(m.out) = {}
    <2>1. << >> \in Seq(Item) /\ Len(<< >>) = 0
      BY EmptySeq
    <2>2. QED
      BY <2>1, ToSetIs
  <1>5. Sorted(R, m.out)
    BY <1>4 DEF Sorted
  <1>6. Leads(P, ToSet(m.a), ToSet(m.b))
    BY <1>2, <1>3 DEF Leads
  <1>7. m.a # << >> => Leads(R, ToSet(m.b), {Last(m.a)})
    BY <1>2 DEF Belongs
  <1>8. m.b # << >> => Leads(R, {m.b[1]}, ToSet(m.a))
    BY <1>3 DEF Belongs
  <1>9. /\ Leads(R, ToSet(m.out), ToSet(m.a) \cup ToSet(m.b))
        /\ Leads(R, ToSet(m.a) \cup ToSet(m.b), ToSet(m.out))
    BY <1>4 DEF Leads
  <1>10. QED
    BY <1>2, <1>3, <1>5, <1>6, <1>7, <1>8, <1>9 DEF MergeSorted

\* The mode and the counters of a merge have no part in its order.
LEMMA SortedStill ==
    ASSUME NEW P, NEW R, NEW m, MergeSorted(P, R, m),
           NEW n, n.dir = m.dir, n.a = m.a, n.b = m.b, n.out = m.out
    PROVE  MergeSorted(P, R, n)
  BY DEF MergeSorted

-----------------------------------------------------------------------------
(* Order in a list of which a part is rearranged.                          *)

\* A segment keeps its items if it lies beside what is rearranged or around it.
LEMMA SegmentKept ==
    ASSUME NEW s \in Seq(Item), NEW t, NEW l \in 0 .. Len(s), NEW r \in l .. Len(s),
           Rearranged(s, t, l, r), NEW x \in 0 .. Len(s), NEW y \in x .. Len(s),
           y <= l \/ x >= r \/ (x <= l /\ r <= y)
    PROVE  Segment(t, x, y) = Segment(s, x, y)
  <1> DEFINE n == Len(s)
  <1>1. n \in Nat /\ l \in Nat /\ r \in Nat /\ l <= r /\ r <= n
        /\ x \in Nat /\ y \in Nat /\ x <= y /\ y <= n
    BY LenProperties
  <1>2. \A i \in 1 .. n : i <= l \/ i > r => t[i] = s[i]
    BY DEF Rearranged
  <1>3. ASSUME NEW u \in Nat, NEW v \in Nat, v <= n, v <= l \/ u >= r
        PROVE  Segment(t, u, v) = Segment(s, u, v)
    <2>1. \A i \in u + 1 .. v : t[i] = s[i]
      BY <1>1, <1>2, <1>3
    <2>2. QED
      BY <2>1 DEF Segment
  <1>4. CASE y <= l \/ x >= r
    BY <1>1, <1>3, <1>4
  <1>5. CASE x <= l /\ r <= y
    <2>1. /\ Segment(t, x, l) = Segment(s, x, l)
          /\ Segment(t, r, y) = Segment(s, r, y)
      BY <1>1, <1>3
    <2>2. Segment(t, l, r) = Segment(s, l, r)
      BY DEF Rearranged
    <2>3. ASSUME NEW w
          PROVE  Segment(w, x, y) = Segment(w, x, l) \cup Segment(w, l, r) \cup Segment(w, r, y)
      <3>1. Segment(w, x, y) = Segment(w, x, l) \cup Segment(w, l, y)
        BY <1>1, <1>5, PartsSet
      <3>2. Segment(w, l, y) = Segment(w, l, r) \cup Segment(w, r, y)
        BY <1>1, <1>5, PartsSet
      <3>3. QED
        BY <3>1, <3>2
    <2>4. QED
      BY <2>1, <2>2, <2>3
  <1>6. QED
    BY <1>4, <1>5

\* So a split stays one if it lies beside what is rearranged.
LEMMA SplitKept ==
    ASSUME NEW P, NEW s \in Seq(Item), NEW t, NEW l \in 0 .. Len(s), NEW r \in l .. Len(s),
           Rearranged(s, t, l, r), NEW b \in 0 .. Len(s), b <= l \/ b >= r, Split(P, s, b)
    PROVE  Split(P, t, b)
  <1>1. Len(s) \in Nat /\ Len(t) = Len(s)
    BY LenProperties DEF Rearranged
  <1>2. 0 \in 0 .. Len(s) /\ b \in 0 .. Len(s) /\ Len(s) \in b .. Len(s)
        /\ 0 <= l /\ r <= Len(s)
    BY <1>1
  <1>3. Segment(t, 0, b) = Segment(s, 0, b)
    BY <1>2, SegmentKept
  <1>4. Segment(t, b, Len(s)) = Segment(s, b, Len(s))
    BY <1>2, SegmentKept
  <1>5. QED
    BY <1>1, <1>3, <1>4 DEF Split

\* A sorted run keeps its order where nothing changes, ...
LEMMA OtherKept ==
    ASSUME NEW R, NEW s \in Seq(Item), NEW t, NEW l \in 0 .. Len(s), NEW r \in l .. Len(s),
           Rearranged(s, t, l, r), NEW x \in 0 .. Len(s), NEW y \in 0 .. Len(s),
           y <= l \/ x >= r, SortedBut(R, s, x, y, l, r)
    PROVE  SortedBut(R, t, x, y, 0, 0)
  <1>1. Len(s) \in Nat /\ \A i \in 1 .. Len(s) : i <= l \/ i > r => t[i] = s[i]
    BY LenProperties DEF Rearranged
  <1>2. ASSUME NEW i \in x + 1 .. y, NEW j \in x + 1 .. y, i < j
        PROVE  <<t[i], t[j]>> \in R
    <2>1. /\ i \in 1 .. Len(s) /\ j \in 1 .. Len(s)
          /\ i <= l \/ i > r
          /\ j <= l \/ j > r
          /\ ~(l < i /\ j <= r)
      BY <1>1, <1>2
    <2>2. <<s[i], s[j]>> \in R
      BY <1>2, <2>1 DEF SortedBut
    <2>3. QED
      BY <1>1, <2>1, <2>2
  <1>3. QED
    BY <1>2 DEF SortedBut

\* ... and a run in which a part gets sorted is sorted.
LEMMA FilledSorted ==
    ASSUME NEW R, NEW s \in Seq(Item), NEW t, NEW l \in 0 .. Len(s), NEW r \in l .. Len(s),
           Rearranged(s, t, l, r), NEW x \in 0 .. Len(s), NEW y \in 0 .. Len(s),
           x <= l, r <= y, SortedBut(R, s, x, y, l, r), SortedBut(R, t, l, r, 0, 0)
    PROVE  SortedBut(R, t, x, y, 0, 0)
  <1> DEFINE n == Len(s)
  <1>1. n \in Nat /\ l \in Nat /\ r \in Nat /\ l <= r /\ r <= n
        /\ x \in Nat /\ y \in Nat /\ y <= n
    BY LenProperties
  <1>2. \A i \in 1 .. n : i <= l \/ i > r => t[i] = s[i]
    BY DEF Rearranged
  <1>3. ASSUME NEW i \in l + 1 .. r PROVE \E k \in l + 1 .. r : t[i] = s[k]
    <2>1. t[i] \in Segment(t, l, r)
      BY DEF Segment
    <2>2. t[i] \in Segment(s, l, r)
      BY <2>1 DEF Rearranged
    <2>3. QED
      BY <2>2 DEF Segment
  <1>4. ASSUME NEW i \in x + 1 .. y, NEW j \in x + 1 .. y, i < j
        PROVE  <<t[i], t[j]>> \in R
    <2>1. i \in 1 .. n /\ j \in 1 .. n
      BY <1>1
    <2>2. CASE i \in l + 1 .. r /\ j \in l + 1 .. r
      <3>1. ~(0 < i /\ j <= 0)
        BY <2>1
      <3>2. QED
        BY <1>4, <2>2, <3>1 DEF SortedBut
    <2>3. CASE i \notin l + 1 .. r /\ j \notin l + 1 .. r
      <3>1. (i <= l \/ i > r) /\ (j <= l \/ j > r) /\ ~(l < i /\ j <= r)
        BY <1>1, <1>4, <2>1, <2>3
      <3>2. <<s[i], s[j]>> \in R
        BY <1>4, <3>1 DEF SortedBut
      <3>3. QED
        BY <1>2, <2>1, <3>1, <3>2
    <2>4. CASE i \notin l + 1 .. r /\ j \in l + 1 .. r
      <3>1. PICK k \in l + 1 .. r : t[j] = s[k]
        BY <1>3, <2>4
      <3>2. i <= l /\ i < k /\ k \in x + 1 .. y /\ ~(l < i)
        BY <1>1, <1>4, <2>1, <2>4
      <3>3. <<s[i], s[k]>> \in R
        BY <3>2 DEF SortedBut
      <3>4. QED
        BY <1>2, <2>1, <3>1, <3>2, <3>3
    <2>5. CASE i \in l + 1 .. r /\ j \notin l + 1 .. r
      <3>1. PICK k \in l + 1 .. r : t[i] = s[k]
        BY <1>3, <2>5
      <3>2. j > r /\ k < j /\ k \in x + 1 .. y /\ ~(j <= r)
        BY <1>1, <1>4, <2>1, <2>5
      <3>3. <<s[k], s[j]>> \in R
        BY <3>2 DEF SortedBut
      <3>4. QED
        BY <1>2, <2>1, <3>1, <3>2, <3>3
    <2>6. QED
      BY <2>2, <2>3, <2>4, <2>5
  <1>5. QED
    BY <1>4 DEF SortedBut

-----------------------------------------------------------------------------
(* Order of the runs.                                                      *)

\* The ends of the runs ascend.
LEMMA EndsGrow ==
    ASSUME NEW p \in Seq(Slice), Adjacent(p), NEW i \in 0 .. Len(p), NEW j \in i .. Len(p)
    PROVE  EndOf(p, i) <= EndOf(p, j) /\ EndOf(p, i) \in Nat /\ EndOf(p, j) \in Nat
  <1> DEFINE n == Len(p)
             Bad == {d \in 0 .. n : i + d \in 0 .. n /\ ~(EndOf(p, i) <= EndOf(p, i + d))}
  <1>1. n \in Nat /\ i \in Nat /\ j \in Nat /\ i <= n /\ i <= j /\ j <= n
        /\ \A k \in 0 .. n : EndOf(p, k) \in Nat
    BY EndIs
  <1>2. \A k \in 1 .. n : p[k].len \in Nat /\ EndOf(p, k) = EndOf(p, k - 1) + p[k].len
    BY StackIs
  <1>3. ASSUME Bad # {} PROVE FALSE
    <2>1. Bad \in SUBSET Nat
      BY <1>1
    <2>2. PICK d \in Bad : \A m \in Bad : d <= m
      <3> HIDE DEF Bad
      <3>1. QED
        BY <1>3, <2>1, LeastNumber
    <2>3. d \in Nat /\ i + d \in 0 .. n /\ ~(EndOf(p, i) <= EndOf(p, i + d))
      BY <1>1, <2>2
    <2>4. d # 0
      <3>1. d = 0 => i + d = i /\ EndOf(p, i) \in Nat
        BY <1>1
      <3>2. QED
        BY <2>3, <3>1
    <2>5. /\ d - 1 \in 0 .. n /\ i + (d - 1) \in 0 .. n /\ i + (d - 1) = (i + d) - 1
          /\ i + d \in 1 .. n /\ d - 1 < d
      BY <1>1, <2>3, <2>4
    <2>6. d - 1 \notin Bad
      <3> HIDE DEF Bad
      <3>1. d - 1 \in Bad => d <= d - 1
        BY <2>2
      <3>2. QED
        BY <2>3, <2>5, <3>1
    <2> DEFINE u == EndOf(p, i)
               v == EndOf(p, (i + d) - 1)
               w == EndOf(p, i + d)
    <2>7. u <= v
      BY <2>5, <2>6
    <2>8. \E z \in Nat : w = v + z
      BY <1>2, <2>5
    <2>9. u \in Nat /\ v \in Nat /\ w \in Nat
      BY <1>1, <2>5
    <2>10. ~(u <= w)
      BY <2>3
    <2> HIDE DEF u, v, w
    <2>11. QED
      BY <2>7, <2>8, <2>9, <2>10
  <1>4. j - i \in 0 .. n /\ i + (j - i) = j
    BY <1>1
  <1>5. EndOf(p, i) <= EndOf(p, i + (j - i))
    <2>1. j - i \notin Bad
      BY <1>3
    <2>2. i + (j - i) \in 0 .. n
      BY <1>1, <1>4
    <2>3. QED
      BY <1>4, <2>1, <2>2
  <1>6. i \in 0 .. n /\ j \in 0 .. n
    BY <1>1
  <1>7. QED
    BY <1>1, <1>4, <1>5, <1>6

\* A part of one run is rearranged and sorted.
LEMMA RunFilled ==
    ASSUME NEW P, NEW R, NEW s \in Seq(Item), NEW t,
           NEW p \in Seq(Slice), Adjacent(p), End(p) <= Len(s),
           NEW l \in 0 .. Len(s), NEW r \in l .. Len(s), InOneRun(p, l, r),
           Rearranged(s, t, l, r), SortedBut(R, t, l, r, 0, 0),
           Unmixed(P, s, p, 0), RunsSorted(R, s, p, l, r)
    PROVE  Unmixed(P, t, p, 0) /\ RunsSorted(R, t, p, 0, 0)
  <1> DEFINE n == Len(s)
             k == Len(p)
  <1>1. n \in Nat /\ l \in Nat /\ r \in Nat /\ l <= r /\ r <= n /\ Len(t) = n
    BY LenProperties DEF Rearranged
  <1>2. k \in Nat /\ End(p) = EndOf(p, k)
    BY EndIs
  <1>3. \A i \in 0 .. k : EndOf(p, i) \in Nat /\ EndOf(p, i) <= n
    <2>1. \A i \in 0 .. k : EndOf(p, i) \in Nat /\ EndOf(p, i) <= End(p)
      BY EndIs, StackIs
    <2>2. End(p) \in Nat
      BY <1>2, <2>1
    <2>3. QED
      BY <1>1, <2>1, <2>2
  <1>4. PICK q \in 1 .. k : EndOf(p, q - 1) <= l /\ r <= EndOf(p, q)
    BY DEF InOneRun
  <1>5. ASSUME NEW i \in 0 .. k
        PROVE  IF i < q THEN EndOf(p, i) <= l ELSE EndOf(p, i) >= r
    <2>1. q - 1 \in 0 .. k /\ q \in 0 .. k /\ (i < q => q - 1 \in i .. k) /\ (~(i < q) => i \in q .. k)
      BY <1>2
    <2>2. CASE i < q
      <3>1. EndOf(p, i) <= EndOf(p, q - 1) /\ EndOf(p, i) \in Nat /\ EndOf(p, q - 1) \in Nat
        BY <2>1, <2>2, EndsGrow
      <3>2. QED
        BY <1>1, <1>4, <2>2, <3>1
    <2>3. CASE ~(i < q)
      <3>1. EndOf(p, q) <= EndOf(p, i) /\ EndOf(p, i) \in Nat /\ EndOf(p, q) \in Nat
        BY <2>1, <2>3, EndsGrow
      <3>2. QED
        BY <1>1, <1>4, <2>3, <3>1
    <2>4. QED
      BY <2>2, <2>3
  <1>6. Unmixed(P, t, p, 0)
    <2>1. ASSUME NEW i \in 0 .. k PROVE Split(P, t, EndOf(p, i))
      <3> DEFINE b == EndOf(p, i)
      <3>1. b \in 0 .. n /\ Split(P, s, b)
        BY <1>1, <1>3 DEF Unmixed
      <3>2. b <= l \/ b >= r
        BY <1>5
      <3> HIDE DEF b
      <3>3. Split(P, t, b)
        BY <3>1, <3>2, SplitKept
      <3>4. QED
        BY <3>3 DEF b
    <2>2. ASSUME NEW b \in End(p) + 0 .. Len(t) PROVE Split(P, t, b)
      <3>1. k \in 0 .. k /\ ~(k < q)
        BY <1>2
      <3>2. End(p) \in Nat /\ End(p) >= r
        BY <1>2, <1>3, <1>5, <3>1
      <3>3. b \in 0 .. n /\ b >= r /\ b \in End(p) + 0 .. n
        BY <1>1, <3>2
      <3>4. Split(P, s, b)
        BY <3>3 DEF Unmixed
      <3>5. QED
        BY <3>3, <3>4, SplitKept
    <2>3. QED
      BY <2>1, <2>2 DEF Unmixed
  <1>7. ASSUME NEW i \in 1 .. k
        PROVE  SortedBut(R, t, EndOf(p, i - 1), EndOf(p, i), 0, 0)
    <2> DEFINE x == EndOf(p, i - 1)
               y == EndOf(p, i)
    <2>1. i - 1 \in 0 .. k /\ i \in 0 .. k
      BY <1>2
    <2>2. x \in 0 .. n /\ y \in 0 .. n
      BY <1>1, <1>3, <2>1
    <2>3. SortedBut(R, s, x, y, l, r)
      BY DEF RunsSorted
    <2>4. CASE i = q
      <3>1. x <= l /\ r <= y
        BY <1>4, <2>4
      <3> HIDE DEF x, y
      <3>2. SortedBut(R, t, x, y, 0, 0)
        BY <2>2, <2>3, <3>1, FilledSorted
      <3>3. QED
        BY <3>2 DEF x, y
    <2>5. CASE i # q
      <3>1. i < q \/ ~(i - 1 < q)
        BY <1>2, <2>5
      <3>2. y <= l \/ x >= r
        BY <1>5, <2>1, <3>1
      <3> HIDE DEF x, y
      <3>3. SortedBut(R, t, x, y, 0, 0)
        BY <2>2, <2>3, <3>2, OtherKept
      <3>4. QED
        BY <3>3 DEF x, y
    <2>6. QED
      BY <2>4, <2>5
  <1>8. QED
    BY <1>6, <1>7 DEF RunsSorted

\* A step of a merge keeps the order of the runs.
LEMMA ContinueSorted ==
    ASSUME slice \in Seq(Item), NEW P, NEW R, NEW m, MergeFits(m, slice), Continue(m),
           NEW p \in Seq(Slice), Adjacent(p), End(p) <= Len(slice),
           Unmixed(P, slice, p, 0), MergeInOrder(P, R, m, slice, p)
    PROVE  /\ Unmixed(P, slice', p, 0)
           /\ IF merge' = NoMerge THEN RunsSorted(R, slice', p, 0, 0)
                                  ELSE MergeInOrder(P, R, merge', slice', p)
  <1>1. m \in Merge /\ m # NoMerge
    <2>1. m \in Merge
      BY DEF MergeFits
    <2>2. m.dir \in {"lo", "hi"}
      BY <2>1 DEF Merge
    <2>3. NoMerge.dir = "none"
      BY DEF NoMerge
    <2>4. QED
      BY <2>1, <2>2, <2>3
  <1>2. CASE Ended(m)
    <2> DEFINE u == Merged(m)
               l == m.base
               r == m.base + Total(m)
    <2>1. merge' = NoMerge /\ slice' = Around(m, u)
      BY <1>2 DEF Continue
    <2>2. u \in Seq(Item) /\ Len(u) = Total(m) /\ ToSet(u) = Items(m)
      BY <1>1, MergedIs
    <2>3. Sorted(R, u)
      BY <1>1, <1>2, MergedSorted DEF MergeInOrder
    <2> HIDE DEF u
    <2>4. Rearranged(slice, slice', l, r) /\ \A i \in 1 .. Total(m) : slice'[l + i] = u[i]
      BY <2>1, <2>2, AroundIs
    <2>5. l \in Nat /\ Total(m) \in Nat /\ l + Total(m) <= Len(slice) /\ Len(slice) \in Nat
      BY <1>1, MergeLengths, LenProperties DEF MergeFits
    <2>6. SortedBut(R, slice', l, r, 0, 0)
      <3>1. ASSUME NEW i \in l + 1 .. r, NEW j \in l + 1 .. r, i < j
            PROVE  <<slice'[i], slice'[j]>> \in R
        <4> DEFINE n == Total(m)
                   b == m.base
        <4>1. b \in Nat /\ n \in Nat /\ i \in b + 1 .. b + n /\ j \in b + 1 .. b + n
          BY <2>5, <3>1
        <4> HIDE DEF n, b
        <4>2. /\ i - b \in 1 .. n /\ j - b \in 1 .. n /\ i - b < j - b
              /\ b + (i - b) = i /\ b + (j - b) = j
          BY <3>1, <4>1
        <4>3. slice'[i] = u[i - b] /\ slice'[j] = u[j - b]
          BY <2>4, <4>2 DEF b, n
        <4>4. Len(u) = n
          BY <2>2 DEF n
        <4>5. QED
          BY <2>3, <4>2, <4>3, <4>4 DEF Sorted
      <3>2. QED
        BY <3>1 DEF SortedBut
    <2>7. l \in 0 .. Len(slice) /\ r \in l .. Len(slice)
      <3> DEFINE n == Total(m)
                 b == m.base
                 x == Len(slice)
      <3>1. b \in Nat /\ n \in Nat /\ x \in Nat /\ b + n <= x
        BY <2>5
      <3> HIDE DEF n, b, x
      <3>2. b \in 0 .. x /\ b + n \in b .. x
        BY <3>1
      <3>3. QED
        BY <3>2 DEF n, b, x
    <2>8. InOneRun(p, l, r) /\ RunsSorted(R, slice, p, l, r)
      BY DEF MergeInOrder
    <2> HIDE DEF l, r
    <2>9. Unmixed(P, slice', p, 0) /\ RunsSorted(R, slice', p, 0, 0)
      BY <2>4, <2>6, <2>7, <2>8, RunFilled
    <2>10. QED
      BY <2>1, <2>9
  <1>3. CASE ~Ended(m)
    <2>1. merge' = m /\ slice' = slice
      BY <1>3 DEF Continue
    <2>2. QED
      BY <1>1, <2>1
  <1>4. QED
    BY <1>2, <1>3

\* The orders depend on the input and the direction alone.
LEMMA SameOrder ==
    ASSUME UNCHANGED <<input, reverse>>
    PROVE  Prior' = Prior /\ Before' = Before /\ (Placed <=> Placed')
  BY DEF Prior, Before, Placed

\* While the sort goes on, there is nothing to show but Arranged.
LEMMA ArrangedKeeps ==
    ASSUME OrderInv, UNCHANGED <<input, ordered, reverse>>,
           stage' \in {"run", "insert", "collapse", "force", "sorted"}, ordered => Arranged'
    PROVE  OrderInv'
  BY SameOrder DEF OrderInv

\* What is known while runs are merged.
LEMMA WhileMerging ==
    ASSUME SortInv, OrderInv, ordered, stage \in {"collapse", "force"}
    PROVE  /\ Arranged /\ run.sorted = 0 /\ End(pending) <= Len(slice)
           /\ Unmixed(Prior, slice, pending, 0)
           /\ slice \in Seq(Item) /\ pending \in Seq(Slice) /\ Adjacent(pending)
  <1>1. Arranged
    BY DEF OrderInv
  <1>2. run.sorted = 0
    BY <1>1 DEF Arranged
  <1>3. /\ End(pending) <= Len(slice)
        /\ slice \in Seq(Item) /\ pending \in Seq(Slice) /\ Adjacent(pending)
    BY Facts DEF lo
  <1>4. Unmixed(Prior, slice, pending, 0)
    BY <1>1, <1>2 DEF Arranged
  <1>5. QED
    BY <1>1, <1>2, <1>3, <1>4

\* A step of a merge keeps the invariant if the next merge, before it is
\* put back into the list, is in order.
LEMMA MergeStepOrders ==
    ASSUME SortInv, OrderInv, stage \in {"collapse", "force"},
           UNCHANGED <<input, ordered, reverse, run, stage>>,
           pending' \in Seq(Slice), Adjacent(pending'), lo' = lo,
           ordered => /\ Unmixed(Prior, slice, pending', 0)
                      /\ \/ UNCHANGED <<slice, merge>> /\ merge = NoMerge
                            /\ RunsSorted(Before, slice, pending', 0, 0)
                         \/ \E m : /\ MergeFits(m, slice) /\ Continue(m)
                                   /\ MergeInOrder(Prior, Before, m, slice, pending')
    PROVE  OrderInv'
  <1>1. ASSUME ordered PROVE Arranged'
    <2>1. /\ run.sorted = 0 /\ End(pending) <= Len(slice) /\ slice \in Seq(Item)
      BY <1>1, WhileMerging
    <2>2. End(pending') <= Len(slice)
      BY <2>1 DEF lo
    <2>3. /\ Unmixed(Prior, slice', pending', 0)
          /\ IF merge' = NoMerge THEN RunsSorted(Before, slice', pending', 0, 0)
                                 ELSE MergeInOrder(Prior, Before, merge', slice', pending')
      <3>1. CASE UNCHANGED <<slice, merge>> /\ merge = NoMerge
                 /\ RunsSorted(Before, slice, pending', 0, 0)
        BY <1>1, <3>1
      <3>2. CASE \E m : /\ MergeFits(m, slice) /\ Continue(m)
                        /\ MergeInOrder(Prior, Before, m, slice, pending')
        <4>1. PICK m : /\ MergeFits(m, slice) /\ Continue(m)
                       /\ MergeInOrder(Prior, Before, m, slice, pending')
          BY <3>2
        <4>2. Unmixed(Prior, slice, pending', 0)
          BY <1>1
        <4>3. QED
          BY <2>1, <2>2, <4>1, <4>2, ContinueSorted
      <3>3. QED
        BY <1>1, <3>1, <3>2
    <2>4. Prior' = Prior /\ Before' = Before
      BY SameOrder
    <2>5. run.sorted' = 0 /\ stage' # "insert"
      BY <2>1
    <2>6. lo' \in Nat
      BY Facts
    <2>7. SortedBut(Before, slice', lo', lo' + run.sorted', 0, 0)
      <3>1. lo' + 1 .. lo' + run.sorted' = {}
        BY <2>5, <2>6
      <3>2. QED
        BY <3>1 DEF SortedBut
    <2>8. QED
      BY <2>3, <2>4, <2>5, <2>7 DEF Arranged
  <1>2. stage' \in {"run", "insert", "collapse", "force", "sorted"}
    OBVIOUS
  <1>3. QED
    BY <1>1, <1>2, ArrangedKeeps

-----------------------------------------------------------------------------
(* The steps of a merge.                                                   *)

\* The next item of b, or of a, is in front of all of the other run.
NextIsB(R, m) == /\ m.dir = "lo" => Leads(R, {m.b[1]}, ToSet(m.a))
                 /\ m.dir = "hi" => Leads(R, ToSet(m.a), {Last(m.b)})
NextIsA(R, m) == /\ m.dir = "lo" => Leads(R, {m.a[1]}, ToSet(m.b))
                 /\ m.dir = "hi" => Leads(R, ToSet(m.b), {Last(m.a)})

\* The parts of one item at both ends.
LEMMA FirstAndLast ==
    ASSUME NEW s \in Seq(Item), Len(s) # 0
    PROVE  ToSet(Take(s, 1)) = {s[1]} /\ ToSet(Drop(s, Len(s) - 1)) = {Last(s)}
  <1> DEFINE n == Len(s)
             t == Take(s, 1)
             u == Drop(s, n - 1)
  <1>1. n \in Nat /\ 1 \in 0 .. n /\ n - 1 \in 0 .. n /\ n - (n - 1) = 1 /\ (n - 1) + 1 = n
    BY LenProperties
  <1>2. t \in Seq(Item) /\ Len(t) = 1 /\ \A i \in 1 .. 1 : t[i] = s[i]
    BY <1>1, TakeIs
  <1>3. u \in Seq(Item) /\ Len(u) = 1 /\ \A i \in 1 .. 1 : u[i] = s[(n - 1) + i]
    <2>1. u \in Seq(Item) /\ Len(u) = n - (n - 1)
          /\ \A i \in 1 .. n - (n - 1) : u[i] = s[(n - 1) + i]
      BY <1>1, DropIs
    <2>2. QED
      BY <1>1, <2>1
  <1>4. t[1] = s[1] /\ u[1] = s[n]
    BY <1>1, <1>2, <1>3
  <1> HIDE DEF t, u
  <1>5. ASSUME NEW v \in Seq(Item), Len(v) = 1 PROVE ToSet(v) = {v[1]}
    <2>1. \A x : x \in ToSet(v) <=> \E i \in 1 .. Len(v) : x = v[i]
      BY ToSetIs
    <2>2. QED
      BY <1>5, <2>1
  <1>6. ToSet(t) = {s[1]} /\ ToSet(u) = {s[n]}
    BY <1>2, <1>3, <1>4, <1>5
  <1>7. QED
    BY <1>6 DEF t, u, Last

\* A move of the next item keeps a merge sorted.
LEMMA NextMoves ==
    ASSUME NEW P, NEW R, NEW m \in Merge, MergeSorted(P, R, m)
    PROVE  /\ Len(m.a) # 0 /\ NextIsA(R, m) => MergeSorted(P, R, MoveA(m, 1))
           /\ Len(m.b) # 0 /\ NextIsB(R, m) => MergeSorted(P, R, MoveB(m, 1))
  <1>1. /\ m.a \in Seq(Item) /\ m.b \in Seq(Item) /\ Len(m.a) \in Nat /\ Len(m.b) \in Nat
    BY MergeLengths
  <1>2. ASSUME Len(m.a) # 0, NextIsA(R, m) PROVE MergeSorted(P, R, MoveA(m, 1))
    <2>1. /\ ToSet(Take(m.a, 1)) = {m.a[1]}
          /\ ToSet(Drop(m.a, Len(m.a) - 1)) = {Last(m.a)}
      BY <1>1, <1>2, FirstAndLast
    <2>2. 1 \in 0 .. Len(m.a)
      BY <1>1, <1>2
    <2>3. /\ m.dir = "lo" => Leads(R, ToSet(Take(m.a, 1)), ToSet(m.b))
          /\ m.dir = "hi" => Leads(R, ToSet(m.b), ToSet(Drop(m.a, Len(m.a) - 1)))
      BY <1>2, <2>1 DEF NextIsA
    <2>4. QED
      BY <2>2, <2>3, MoveASorted
  <1>3. ASSUME Len(m.b) # 0, NextIsB(R, m) PROVE MergeSorted(P, R, MoveB(m, 1))
    <2>1. /\ ToSet(Take(m.b, 1)) = {m.b[1]}
          /\ ToSet(Drop(m.b, Len(m.b) - 1)) = {Last(m.b)}
      BY <1>1, <1>3, FirstAndLast
    <2>2. 1 \in 0 .. Len(m.b)
      BY <1>1, <1>3
    <2>3. /\ m.dir = "lo" => Leads(R, ToSet(Take(m.b, 1)), ToSet(m.a))
          /\ m.dir = "hi" => Leads(R, ToSet(m.a), ToSet(Drop(m.b, Len(m.b) - 1)))
      BY <1>3, <2>1 DEF NextIsB
    <2>4. QED
      BY <2>2, <2>3, MoveBSorted
  <1>4. QED
    BY <1>2, <1>3

\* What the items at the ends of a and of b say of the rest of both.
LEMMA MergeEnds ==
    ASSUME NEW P, NEW R, Transitive(R), Decides(P, R), NEW m \in Merge, MergeSorted(P, R, m),
           Len(m.a) # 0, Len(m.b) # 0
    PROVE  /\ m.a[1] \in Item /\ m.b[1] \in Item /\ Last(m.a) \in Item /\ Last(m.b) \in Item
           /\ Leads(P, ToSet(m.a), {m.b[1], Last(m.b)})
           /\ Leads(P, {m.a[1], Last(m.a)}, ToSet(m.b))
           /\ \A x \in Item : /\ <<x, m.a[1]>> \in R => Leads(R, {x}, ToSet(m.a))
                              /\ <<x, m.b[1]>> \in R => Leads(R, {x}, ToSet(m.b))
                              /\ <<Last(m.a), x>> \in R => Leads(R, ToSet(m.a), {x})
                              /\ <<Last(m.b), x>> \in R => Leads(R, ToSet(m.b), {x})
  <1>1. m.a \in Seq(Item) /\ m.b \in Seq(Item)
    BY MergeLengths
  <1>2. Sorted(R, m.a) /\ Sorted(R, m.b) /\ Leads(P, ToSet(m.a), ToSet(m.b))
    BY DEF MergeSorted
  <1>3. /\ m.a[1] \in ToSet(m.a) /\ m.a[1] \in Item
        /\ \A x \in Item : <<x, m.a[1]>> \in R => Leads(R, {x}, ToSet(m.a))
    BY <1>1, <1>2, LeadsFirst
  <1>4. /\ m.b[1] \in ToSet(m.b) /\ m.b[1] \in Item
        /\ \A x \in Item : <<x, m.b[1]>> \in R => Leads(R, {x}, ToSet(m.b))
    BY <1>1, <1>2, LeadsFirst
  <1>5. /\ Last(m.a) \in ToSet(m.a) /\ Last(m.a) \in Item
        /\ \A x \in Item : <<Last(m.a), x>> \in R => Leads(R, ToSet(m.a), {x})
    BY <1>1, <1>2, LeadsLast
  <1>6. /\ Last(m.b) \in ToSet(m.b) /\ Last(m.b) \in Item
        /\ \A x \in Item : <<Last(m.b), x>> \in R => Leads(R, ToSet(m.b), {x})
    BY <1>1, <1>2, LeadsLast
  <1>7. /\ Leads(P, ToSet(m.a), {m.b[1], Last(m.b)})
        /\ Leads(P, {m.a[1], Last(m.a)}, ToSet(m.b))
    BY <1>2, <1>3, <1>4, <1>5, <1>6 DEF Leads
  <1>8. QED
    BY <1>3, <1>4, <1>5, <1>6, <1>7

\* A comparison of the next two items tells which is next.
LEMMA ComparisonTells ==
    ASSUME NEW P, NEW R, Transitive(R), Decides(P, R), NEW m \in Merge, MergeSorted(P, R, m),
           Len(m.a) # 0, Len(m.b) # 0
    PROVE  IF BLess(m) <=> m.dir = "lo" THEN NextIsB(R, m) ELSE NextIsA(R, m)
  <1> DEFINE a1 == m.a[1]
             b1 == m.b[1]
             az == Last(m.a)
             bz == Last(m.b)
  <1>1. a1 \in Item /\ b1 \in Item /\ az \in Item /\ bz \in Item
    BY MergeEnds
  <1>2. <<a1, b1>> \in P /\ <<az, bz>> \in P
    <2>1. m.a \in Seq(Item) /\ m.b \in Seq(Item) /\ Sorted(R, m.a) /\ Sorted(R, m.b)
          /\ Leads(P, ToSet(m.a), ToSet(m.b))
      BY MergeLengths DEF MergeSorted
    <2>2. a1 \in ToSet(m.a) /\ b1 \in ToSet(m.b)
      BY <2>1, LeadsFirst
    <2>3. az \in ToSet(m.a) /\ bz \in ToSet(m.b)
      BY <2>1, LeadsLast
    <2>4. QED
      BY <2>1, <2>2, <2>3 DEF Leads
  <1>3. \A x \in Item : /\ <<x, a1>> \in R => Leads(R, {x}, ToSet(m.a))
                        /\ <<x, b1>> \in R => Leads(R, {x}, ToSet(m.b))
                        /\ <<az, x>> \in R => Leads(R, ToSet(m.a), {x})
                        /\ <<bz, x>> \in R => Leads(R, ToSet(m.b), {x})
    BY MergeEnds
  <1>4. m.dir \in {"lo", "hi"}
    BY DEF Merge
  <1>5. CASE m.dir = "lo"
    <2>1. BLess(m) <=> Lt(b1, a1)
      BY <1>5 DEF BLess
    <2>2. IF Lt(b1, a1) THEN <<b1, a1>> \in R ELSE <<a1, b1>> \in R
      BY <1>1, <1>2 DEF Decides
    <2> HIDE DEF a1, b1, az, bz
    <2>3. IF Lt(b1, a1) THEN Leads(R, {b1}, ToSet(m.a)) ELSE Leads(R, {a1}, ToSet(m.b))
      BY <1>1, <1>3, <2>2
    <2>4. CASE Lt(b1, a1)
      <3>1. NextIsB(R, m)
        BY <1>5, <2>3, <2>4 DEF NextIsB, b1
      <3>2. QED
        BY <1>5, <2>1, <2>4, <3>1
    <2>5. CASE ~Lt(b1, a1)
      <3>1. NextIsA(R, m)
        BY <1>5, <2>3, <2>5 DEF NextIsA, a1
      <3>2. QED
        BY <1>5, <2>1, <2>5, <3>1
    <2>6. QED
      BY <2>4, <2>5
  <1>6. CASE m.dir = "hi"
    <2>1. BLess(m) <=> Lt(bz, az)
      BY <1>6 DEF BLess
    <2>2. IF Lt(bz, az) THEN <<bz, az>> \in R ELSE <<az, bz>> \in R
      BY <1>1, <1>2 DEF Decides
    <2> HIDE DEF a1, b1, az, bz
    <2>3. IF Lt(bz, az) THEN Leads(R, ToSet(m.b), {az}) ELSE Leads(R, ToSet(m.a), {bz})
      BY <1>1, <1>3, <2>2
    <2>4. CASE Lt(bz, az)
      <3>1. NextIsA(R, m)
        BY <1>6, <2>3, <2>4 DEF NextIsA, az
      <3>2. QED
        BY <1>6, <2>1, <2>4, <3>1
    <2>5. CASE ~Lt(bz, az)
      <3>1. NextIsB(R, m)
        BY <1>6, <2>3, <2>5 DEF NextIsB, bz
      <3>2. QED
        BY <1>6, <2>1, <2>5, <3>1
    <2>6. QED
      BY <2>4, <2>5
  <1>7. QED
    BY <1>4, <1>5, <1>6

\* Galloping over a leaves the next item of b in front, ...
LEMMA GallopsA ==
    ASSUME NEW P, NEW R, Transitive(R), Decides(P, R), NEW m \in Merge, MergeSorted(P, R, m),
           Len(m.a) # 0, Len(m.b) # 0
    PROVE  /\ GallopedA(m) \in 0 .. Len(m.a)
           /\ MergeSorted(P, R, MoveA(m, GallopedA(m)))
           /\ NextIsB(R, MoveA(m, GallopedA(m)))
  <1> DEFINE a == m.a
             b1 == m.b[1]
             bz == Last(m.b)
             k == GallopedA(m)
             n == MoveA(m, k)
  <1>1. /\ a \in Seq(Item) /\ m.b \in Seq(Item) /\ Sorted(R, a) /\ m.dir \in {"lo", "hi"}
        /\ Len(a) \in Nat /\ Len(m.b) \in Nat
    BY MergeLengths DEF MergeSorted, Merge
  <1>2. /\ b1 \in Item /\ bz \in Item
        /\ Leads(P, ToSet(a), {b1}) /\ Leads(P, ToSet(a), {bz})
        /\ \A x \in Item : /\ <<x, b1>> \in R => Leads(R, {x}, ToSet(m.b))
                           /\ <<bz, x>> \in R => Leads(R, ToSet(m.b), {x})
    <2>1. b1 \in Item /\ bz \in Item /\ Leads(P, ToSet(a), {b1, bz})
      BY MergeEnds
    <2>2. \A x \in Item : /\ <<x, b1>> \in R => Leads(R, {x}, ToSet(m.b))
                          /\ <<bz, x>> \in R => Leads(R, ToSet(m.b), {x})
      BY MergeEnds
    <2>3. QED
      BY <2>1, <2>2 DEF Leads
  <1>3. k \in 0 .. Len(a)
    BY <1>1, GallopedIn
  <1>4. /\ n.dir = m.dir /\ n.b = m.b
        /\ m.dir = "lo" => n.a = Drop(a, k)
        /\ m.dir = "hi" => n.a = Take(a, Len(a) - k)
    BY <1>3, MoveAIs
  <1>5. 0 \in 0 .. Len(a) - 1 /\ Len(a) - 1 \in 0 .. Len(a) - 1
    <2> DEFINE x == Len(a)
    <2>1. x \in Nat /\ x # 0
      BY <1>1
    <2> HIDE DEF x
    <2>2. 0 \in 0 .. x - 1 /\ x - 1 \in 0 .. x - 1
      BY <2>1
    <2>3. QED
      BY <2>2 DEF x
  <1>6. CASE m.dir = "lo"
    <2>1. k = GallopRight(b1, a, 0)
      BY <1>6 DEF GallopedA
    <2> HIDE DEF k, n, b1, bz, a
    <2>2. Belongs(R, b1, a, k)
      BY <1>1, <1>2, <1>5, <2>1, SearchesFind
    <2>3. Leads(R, ToSet(Take(a, k)), ToSet(m.b))
      <3>1. ToSet(Take(a, k)) \in SUBSET Item
        BY <1>1, <1>3, TakeIs, ToSetIs
      <3>2. QED
        BY <1>2, <2>2, <3>1 DEF Belongs, Leads
    <2>4. MergeSorted(P, R, n)
      BY <1>3, <1>6, <2>3, MoveASorted DEF n, a
    <2>5. NextIsB(R, n)
      BY <1>4, <1>6, <2>2 DEF NextIsB, Belongs, b1
    <2>6. QED
      BY <1>3, <2>4, <2>5 DEF n, k, a
  <1>7. CASE m.dir = "hi"
    <2> DEFINE r == GallopRight(bz, a, Len(a) - 1)
    <2>1. k = Len(a) - r
      BY <1>7 DEF GallopedA
    <2> HIDE DEF k, n, b1, bz, r, a
    <2>2. Belongs(R, bz, a, r)
      BY <1>1, <1>2, <1>5, SearchesFind DEF r
    <2>3. r \in 0 .. Len(a) /\ Len(a) - k = r
      <3>1. r \in 0 .. Len(a)
        BY <2>2 DEF Belongs
      <3>2. QED
        BY <1>1, <2>1, <3>1
    <2>4. Leads(R, ToSet(m.b), ToSet(Drop(a, Len(a) - k)))
      <3>1. ToSet(Drop(a, r)) \in SUBSET Item
        BY <1>1, <2>3, DropIs, ToSetIs
      <3>2. Leads(R, ToSet(m.b), ToSet(Drop(a, r)))
        BY <1>2, <2>2, <3>1 DEF Belongs, Leads
      <3>3. QED
        BY <2>3, <3>2
    <2>5. MergeSorted(P, R, n)
      BY <1>3, <1>7, <2>4, MoveASorted DEF n, a
    <2>6. NextIsB(R, n)
      BY <1>4, <1>7, <2>2, <2>3 DEF NextIsB, Belongs, bz
    <2>7. QED
      BY <1>3, <2>5, <2>6 DEF n, k, a
  <1>8. QED
    BY <1>1, <1>6, <1>7

\* ... and galloping over b the next item of a.
LEMMA GallopsB ==
    ASSUME NEW P, NEW R, Transitive(R), Decides(P, R), NEW m \in Merge, MergeSorted(P, R, m),
           Len(m.a) # 0, Len(m.b) # 0
    PROVE  /\ GallopedB(m) \in 0 .. Len(m.b)
           /\ MergeSorted(P, R, MoveB(m, GallopedB(m)))
           /\ NextIsA(R, MoveB(m, GallopedB(m)))
  <1> DEFINE b == m.b
             a1 == m.a[1]
             az == Last(m.a)
             k == GallopedB(m)
             n == MoveB(m, k)
  <1>1. /\ b \in Seq(Item) /\ m.a \in Seq(Item) /\ Sorted(R, b) /\ m.dir \in {"lo", "hi"}
        /\ Len(b) \in Nat /\ Len(m.a) \in Nat
    BY MergeLengths DEF MergeSorted, Merge
  <1>2. /\ a1 \in Item /\ az \in Item
        /\ Leads(P, {a1}, ToSet(b)) /\ Leads(P, {az}, ToSet(b))
        /\ \A x \in Item : /\ <<x, a1>> \in R => Leads(R, {x}, ToSet(m.a))
                           /\ <<az, x>> \in R => Leads(R, ToSet(m.a), {x})
    <2>1. a1 \in Item /\ az \in Item /\ Leads(P, {a1, az}, ToSet(b))
      BY MergeEnds
    <2>2. \A x \in Item : /\ <<x, a1>> \in R => Leads(R, {x}, ToSet(m.a))
                          /\ <<az, x>> \in R => Leads(R, ToSet(m.a), {x})
      BY MergeEnds
    <2>3. QED
      BY <2>1, <2>2 DEF Leads
  <1>3. k \in 0 .. Len(b)
    BY <1>1, GallopedIn
  <1>4. /\ n.dir = m.dir /\ n.a = m.a
        /\ m.dir = "lo" => n.b = Drop(b, k)
        /\ m.dir = "hi" => n.b = Take(b, Len(b) - k)
    BY <1>3, MoveBIs
  <1>5. 0 \in 0 .. Len(b) - 1 /\ Len(b) - 1 \in 0 .. Len(b) - 1
    <2> DEFINE x == Len(b)
    <2>1. x \in Nat /\ x # 0
      BY <1>1
    <2> HIDE DEF x
    <2>2. 0 \in 0 .. x - 1 /\ x - 1 \in 0 .. x - 1
      BY <2>1
    <2>3. QED
      BY <2>2 DEF x
  <1>6. CASE m.dir = "lo"
    <2>1. k = GallopLeft(a1, b, 0)
      BY <1>6 DEF GallopedB
    <2> HIDE DEF k, n, a1, az, b
    <2>2. Belongs(R, a1, b, k)
      BY <1>1, <1>2, <1>5, <2>1, SearchesFind
    <2>3. Leads(R, ToSet(Take(b, k)), ToSet(m.a))
      <3>1. ToSet(Take(b, k)) \in SUBSET Item
        BY <1>1, <1>3, TakeIs, ToSetIs
      <3>2. QED
        BY <1>2, <2>2, <3>1 DEF Belongs, Leads
    <2>4. MergeSorted(P, R, n)
      BY <1>3, <1>6, <2>3, MoveBSorted DEF n, b
    <2>5. NextIsA(R, n)
      BY <1>4, <1>6, <2>2 DEF NextIsA, Belongs, a1
    <2>6. QED
      BY <1>3, <2>4, <2>5 DEF n, k, b
  <1>7. CASE m.dir = "hi"
    <2> DEFINE r == GallopLeft(az, b, Len(b) - 1)
    <2>1. k = Len(b) - r
      BY <1>7 DEF GallopedB
    <2> HIDE DEF k, n, a1, az, r, b
    <2>2. Belongs(R, az, b, r)
      BY <1>1, <1>2, <1>5, SearchesFind DEF r
    <2>3. r \in 0 .. Len(b) /\ Len(b) - k = r
      <3>1. r \in 0 .. Len(b)
        BY <2>2 DEF Belongs
      <3>2. QED
        BY <1>1, <2>1, <3>1
    <2>4. Leads(R, ToSet(m.a), ToSet(Drop(b, Len(b) - k)))
      <3>1. ToSet(Drop(b, r)) \in SUBSET Item
        BY <1>1, <2>3, DropIs, ToSetIs
      <3>2. Leads(R, ToSet(m.a), ToSet(Drop(b, r)))
        BY <1>2, <2>2, <3>1 DEF Belongs, Leads
      <3>3. QED
        BY <2>3, <3>2
    <2>5. MergeSorted(P, R, n)
      BY <1>3, <1>7, <2>4, MoveBSorted DEF n, b
    <2>6. NextIsA(R, n)
      BY <1>4, <1>7, <2>2, <2>3 DEF NextIsA, Belongs, az
    <2>7. QED
      BY <1>3, <2>5, <2>6 DEF n, k, b
  <1>8. QED
    BY <1>1, <1>6, <1>7

\* A merge that is merge after some moves, with its runs in order.
InPlace(w) ==
    /\ w \in Merge
    /\ w.base = merge.base /\ Total(w) = Total(merge) /\ Items(w) = Items(merge)
    /\ MergeSorted(Prior, Before, w)

\* The mode and the counters have no part in InPlace either.
LEMMA InPlaceStill ==
    ASSUME NEW o, InPlace(o), NEW w \in Merge, w.dir = o.dir, w.base = o.base,
           w.a = o.a, w.b = o.b, w.out = o.out
    PROVE  InPlace(w)
  <1>1. MergeSorted(Prior, Before, w)
    BY SortedStill DEF InPlace
  <1>2. Total(w) = Total(o) /\ Items(w) = Items(o)
    BY DEF Total, Items
  <1>3. QED
    BY <1>1, <1>2 DEF InPlace

\* A move of the next item keeps a merge in its place.
LEMMA InPlaceMoved ==
    ASSUME NEW o, InPlace(o)
    PROVE  /\ Len(o.a) # 0 /\ NextIsA(Before, o) => InPlace(MoveA(o, 1))
           /\ Len(o.b) # 0 /\ NextIsB(Before, o) => InPlace(MoveB(o, 1))
  <1>1. /\ o \in Merge /\ MergeSorted(Prior, Before, o)
        /\ o.base = merge.base /\ Total(o) = Total(merge) /\ Items(o) = Items(merge)
    BY DEF InPlace
  <1>2. Len(o.a) \in Nat /\ Len(o.b) \in Nat
    BY <1>1, MergeLengths
  <1>3. ASSUME Len(o.a) # 0, NextIsA(Before, o) PROVE InPlace(MoveA(o, 1))
    <2>1. 1 \in 0 .. Len(o.a)
      BY <1>2, <1>3
    <2>2. /\ MoveA(o, 1) \in Merge /\ MoveA(o, 1).base = o.base
          /\ Total(MoveA(o, 1)) = Total(o) /\ Items(MoveA(o, 1)) = Items(o)
      BY <1>1, <2>1, MoveAIs
    <2>3. MergeSorted(Prior, Before, MoveA(o, 1))
      BY <1>1, <1>3, NextMoves
    <2>4. QED
      BY <1>1, <2>2, <2>3 DEF InPlace
  <1>4. ASSUME Len(o.b) # 0, NextIsB(Before, o) PROVE InPlace(MoveB(o, 1))
    <2>1. 1 \in 0 .. Len(o.b)
      BY <1>2, <1>4
    <2>2. /\ MoveB(o, 1) \in Merge /\ MoveB(o, 1).base = o.base
          /\ Total(MoveB(o, 1)) = Total(o) /\ Items(MoveB(o, 1)) = Items(o)
      BY <1>1, <2>1, MoveBIs
    <2>3. MergeSorted(Prior, Before, MoveB(o, 1))
      BY <1>1, <1>4, NextMoves
    <2>4. QED
      BY <1>1, <2>2, <2>3 DEF InPlace
  <1>5. QED
    BY <1>3, <1>4

\* What is known of the merge under way.
LEMMA MergeKnown ==
    ASSUME SortInv, OrderInv, ordered, merge # NoMerge
    PROVE  /\ merge \in Merge /\ InPlace(merge) /\ MergeSorted(Prior, Before, merge)
           /\ Len(merge.a) # 0 /\ Len(merge.b) # 0
           /\ Transitive(Before) /\ Decides(Prior, Before)
  <1>1. /\ merge \in Merge /\ stage \in {"collapse", "force"}
        /\ Len(merge.a) # 0 /\ Len(merge.b) # 0
    BY MergeFacts
  <1>2. Arranged
    BY <1>1, WhileMerging
  <1>3. MergeSorted(Prior, Before, merge)
    BY <1>2 DEF Arranged, MergeInOrder
  <1>4. QED
    BY <1>1, <1>3, OrderIs DEF InPlace

\* A step keeps the invariant if it continues with a merge in its place.
LEMMA StepOrders ==
    ASSUME SortInv, OrderInv, merge # NoMerge, NEW m, Continue(m), ordered => InPlace(m),
           UNCHANGED <<input, ordered, reverse, run, pending, stage>>
    PROVE  OrderInv'
  <1>1. stage \in {"collapse", "force"} /\ MergeFits(merge, slice)
    BY MergeFacts
  <1>2. pending' \in Seq(Slice) /\ Adjacent(pending') /\ lo' = lo
    BY Facts DEF lo
  <1>3. ASSUME ordered
        PROVE  /\ Unmixed(Prior, slice, pending', 0)
               /\ \E n : /\ MergeFits(n, slice) /\ Continue(n)
                         /\ MergeInOrder(Prior, Before, n, slice, pending')
    <2>1. Arranged /\ Unmixed(Prior, slice, pending, 0)
      BY <1>1, <1>3, WhileMerging
    <2>2. MergeInOrder(Prior, Before, merge, slice, pending)
      BY <2>1 DEF Arranged
    <2>3. InPlace(m)
      BY <1>3
    <2>4. MergeFits(m, slice)
      BY <1>1, <2>3, FitsStill DEF InPlace
    <2>5. MergeInOrder(Prior, Before, m, slice, pending)
      BY <2>2, <2>3 DEF MergeInOrder, InPlace
    <2>6. QED
      BY <2>1, <2>4, <2>5
  <1>4. QED
    BY <1>1, <1>2, <1>3, MergeStepOrders

LEMMA StraightOrders ==
    ASSUME SortInv, OrderInv, Straight
    PROVE  OrderInv'
  <1> DEFINE m == merge
             moved(less) == IF less <=> m.dir = "lo"
                            THEN [MoveB(m, 1) EXCEPT !.bcount = @ + 1, !.acount = 0]
                            ELSE [MoveA(m, 1) EXCEPT !.acount = @ + 1, !.bcount = 0]
             wins(less) == moved(less).acount >= minGallop \/ moved(less).bcount >= minGallop
             next(less) == [moved(less) EXCEPT !.mode = IF wins(less) THEN "gallop a" ELSE @]
  <1>1. /\ merge # NoMerge
        /\ UNCHANGED <<input, ordered, reverse, run, pending, stage>>
    BY DEF Straight, MergeMode
  <1>2. \E w : Continue(w) /\ (ordered => w = next(BLess(merge)))
    <2>1. PICK less \in (IF ordered THEN {BLess(merge)} ELSE BOOLEAN) : Continue(next(less))
      BY DEF Straight
    <2> HIDE DEF next, moved, wins
    <2>2. QED
      BY <2>1
  <1>3. PICK w : Continue(w) /\ (ordered => w = next(BLess(merge)))
    BY <1>2
  <1>4. ASSUME ordered PROVE InPlace(w)
    <2>1. /\ m \in Merge /\ InPlace(m) /\ MergeSorted(Prior, Before, m)
          /\ Len(m.a) # 0 /\ Len(m.b) # 0
          /\ Transitive(Before) /\ Decides(Prior, Before)
      BY <1>1, <1>4, MergeKnown
    <2>2. IF BLess(m) <=> m.dir = "lo" THEN NextIsB(Before, m) ELSE NextIsA(Before, m)
      BY <2>1, ComparisonTells
    <2>3. CASE BLess(m) <=> m.dir = "lo"
      <3> DEFINE o == MoveB(m, 1)
                 c == o.bcount + 1
      <3>1. InPlace(o)
        BY <2>1, <2>2, <2>3, InPlaceMoved
      <3>2. o \in Merge
        BY <3>1 DEF InPlace
      <3>3. c \in Nat
        <4> HIDE DEF o
        <4>1. o.acount \in Nat /\ o.bcount \in Nat
          BY <3>2 DEF Merge
        <4>2. QED
          BY <4>1
      <3>4. PICK mode \in {"single", "gallop a", "gallop b"} :
               w = [o EXCEPT !.bcount = c, !.acount = 0, !.mode = mode]
        <4> DEFINE x == moved(BLess(m))
        <4>1. x = [o EXCEPT !.bcount = c, !.acount = 0]
          BY <2>3
        <4>2. \E won \in BOOLEAN : w = [x EXCEPT !.mode = IF won THEN "gallop a" ELSE @]
          BY <1>3, <1>4
        <4> HIDE DEF o, x, c
        <4>3. x.mode = o.mode /\ o.mode \in {"single", "gallop a", "gallop b"}
          BY <3>2, <4>1 DEF Merge
        <4>4. w = [x EXCEPT !.mode = "gallop a"] \/ w = [x EXCEPT !.mode = x.mode]
          BY <4>2
        <4>5. CASE w = [x EXCEPT !.mode = "gallop a"]
          <5>1. w = [o EXCEPT !.bcount = c, !.acount = 0, !.mode = "gallop a"]
            BY <3>2, <4>1, <4>5 DEF Merge
          <5>2. QED
            BY <5>1
        <4>6. CASE w = [x EXCEPT !.mode = x.mode]
          <5>1. w = [o EXCEPT !.bcount = c, !.acount = 0, !.mode = o.mode]
            BY <3>2, <4>1, <4>3, <4>6 DEF Merge
          <5>2. QED
            BY <4>3, <5>1
        <4>7. QED
          BY <4>4, <4>5, <4>6
      <3> HIDE DEF o, c
      <3>5. /\ w \in Merge /\ w.dir = o.dir /\ w.base = o.base
            /\ w.a = o.a /\ w.b = o.b /\ w.out = o.out
        BY <3>2, <3>3, <3>4 DEF Merge
      <3>6. QED
        BY <3>1, <3>5, InPlaceStill
    <2>4. CASE ~(BLess(m) <=> m.dir = "lo")
      <3> DEFINE o == MoveA(m, 1)
                 c == o.acount + 1
      <3>1. InPlace(o)
        BY <2>1, <2>2, <2>4, InPlaceMoved
      <3>2. o \in Merge
        BY <3>1 DEF InPlace
      <3>3. c \in Nat
        <4> HIDE DEF o
        <4>1. o.acount \in Nat /\ o.bcount \in Nat
          BY <3>2 DEF Merge
        <4>2. QED
          BY <4>1
      <3>4. PICK mode \in {"single", "gallop a", "gallop b"} :
               w = [o EXCEPT !.acount = c, !.bcount = 0, !.mode = mode]
        <4> DEFINE x == moved(BLess(m))
        <4>1. x = [o EXCEPT !.acount = c, !.bcount = 0]
          BY <2>4
        <4>2. \E won \in BOOLEAN : w = [x EXCEPT !.mode = IF won THEN "gallop a" ELSE @]
          BY <1>3, <1>4
        <4> HIDE DEF o, x, c
        <4>3. x.mode = o.mode /\ o.mode \in {"single", "gallop a", "gallop b"}
          BY <3>2, <4>1 DEF Merge
        <4>4. w = [x EXCEPT !.mode = "gallop a"] \/ w = [x EXCEPT !.mode = x.mode]
          BY <4>2
        <4>5. CASE w = [x EXCEPT !.mode = "gallop a"]
          <5>1. w = [o EXCEPT !.acount = c, !.bcount = 0, !.mode = "gallop a"]
            BY <3>2, <4>1, <4>5 DEF Merge
          <5>2. QED
            BY <5>1
        <4>6. CASE w = [x EXCEPT !.mode = x.mode]
          <5>1. w = [o EXCEPT !.acount = c, !.bcount = 0, !.mode = o.mode]
            BY <3>2, <4>1, <4>3, <4>6 DEF Merge
          <5>2. QED
            BY <4>3, <5>1
        <4>7. QED
          BY <4>4, <4>5, <4>6
      <3> HIDE DEF o, c
      <3>5. /\ w \in Merge /\ w.dir = o.dir /\ w.base = o.base
            /\ w.a = o.a /\ w.b = o.b /\ w.out = o.out
        BY <3>2, <3>3, <3>4 DEF Merge
      <3>6. QED
        BY <3>1, <3>5, InPlaceStill
    <2>5. QED
      BY <2>3, <2>4
  <1>5. QED
    BY <1>1, <1>3, <1>4, StepOrders

LEMMA GallopAOrders ==
    ASSUME SortInv, OrderInv, GallopA
    PROVE  OrderInv'
  <1> DEFINE m == merge
             k == GallopedA(m)
             o == MoveA(m, k)
             moved(j) == [MoveA(m, j) EXCEPT !.acount = j, !.mode = "gallop b"]
             next(j) == IF Ended(moved(j)) THEN moved(j) ELSE MoveB(moved(j), 1)
  <1>1. /\ merge # NoMerge
        /\ UNCHANGED <<input, ordered, reverse, run, pending, stage>>
    BY DEF GallopA, MergeMode
  <1>2. \E w : Continue(w) /\ (ordered => w = next(k))
    <2>1. PICK j \in Found(k, Len(m.a)) : Continue(next(j))
      BY DEF GallopA
    <2>2. ordered => j = k
      BY <2>1 DEF Found
    <2> HIDE DEF next, moved, k
    <2>3. QED
      BY <2>1, <2>2
  <1>3. PICK w : Continue(w) /\ (ordered => w = next(k))
    BY <1>2
  <1>4. ASSUME ordered PROVE InPlace(w)
    <2>1. /\ m \in Merge /\ InPlace(m) /\ MergeSorted(Prior, Before, m)
          /\ Len(m.a) # 0 /\ Len(m.b) # 0
          /\ Transitive(Before) /\ Decides(Prior, Before)
      BY <1>1, <1>4, MergeKnown
    <2>2. k \in 0 .. Len(m.a) /\ MergeSorted(Prior, Before, o) /\ NextIsB(Before, o)
      BY <2>1, GallopsA
    <2>3. o \in Merge /\ o.base = m.base /\ Total(o) = Total(m) /\ Items(o) = Items(m)
      BY <2>1, <2>2, MoveAIs
    <2>4. InPlace(o)
      BY <2>2, <2>3 DEF InPlace
    <2> DEFINE x == moved(k)
    <2>5. x = [o EXCEPT !.acount = k, !.mode = "gallop b"]
      OBVIOUS
    <2>6. k \in Nat
      <3>1. Len(m.a) \in Nat
        BY <2>1, MergeLengths
      <3>2. QED
        BY <2>2, <3>1
    <2>7. w = IF Ended(x) THEN x ELSE MoveB(x, 1)
      BY <1>3, <1>4
    <2> HIDE DEF x, o, k
    <2>8. /\ x \in Merge /\ x.dir = o.dir /\ x.base = o.base
          /\ x.a = o.a /\ x.b = o.b /\ x.out = o.out
      BY <2>3, <2>5, <2>6 DEF Merge
    <2>9. InPlace(x)
      BY <2>4, <2>8, InPlaceStill
    <2>10. NextIsB(Before, x)
      BY <2>2, <2>8 DEF NextIsB
    <2>11. CASE ~Ended(x)
      <3>1. Len(x.b) # 0
        <4>1. /\ Len(x.b) \in Nat /\ (x.b = << >> <=> Len(x.b) = 0) /\ x.dir \in {"lo", "hi"}
          BY <2>8, MergeLengths DEF Merge
        <4>2. QED
          BY <2>11, <4>1 DEF Ended
      <3>2. QED
        BY <2>7, <2>9, <2>10, <2>11, <3>1, InPlaceMoved
    <2>12. QED
      BY <2>7, <2>9, <2>11
  <1>5. QED
    BY <1>1, <1>3, <1>4, StepOrders

LEMMA GallopBOrders ==
    ASSUME SortInv, OrderInv, GallopB
    PROVE  OrderInv'
  <1> DEFINE m == merge
             k == GallopedB(m)
             o == MoveB(m, k)
             moved(j) == [MoveB(m, j) EXCEPT !.bcount = j]
             both(j) == MoveA(moved(j), 1)
             onward(j) == [both(j) EXCEPT !.mode = "gallop a"]
             single(j) == [both(j) EXCEPT !.mode = "single", !.acount = 0, !.bcount = 0]
             Goes(j, w) == IF Ended(moved(j)) THEN w = moved(j)
                           ELSE w \in {both(j), onward(j), single(j)}
  <1>1. /\ merge # NoMerge
        /\ UNCHANGED <<input, ordered, reverse, run, pending, stage>>
    BY DEF GallopB, MergeMode
  <1>2. \E w : Continue(w) /\ (ordered => Goes(k, w))
    <2> DEFINE again(j) == merge.acount >= MIN_GALLOP \/ j >= MIN_GALLOP
               Step(j) == IF Ended(moved(j)) \/ Ended(both(j))
                          THEN Continue(IF Ended(moved(j)) THEN moved(j) ELSE both(j))
                          ELSE IF again(j) THEN Continue(onward(j)) ELSE Continue(single(j))
    <2>1. \E j \in Found(k, Len(m.b)) : Step(j)
      BY DEF GallopB
    <2>2. PICK j \in Found(k, Len(m.b)) : Step(j)
      BY <2>1
    <2>3. ordered => j = k
      BY <2>2 DEF Found
    <2> HIDE DEF moved, both, onward, single, again, k
    <2>4. \E w : Continue(w) /\ Goes(j, w)
      <3>1. CASE Ended(moved(j))
        <4>1. Continue(moved(j))
          BY <2>2, <3>1
        <4>2. QED
          BY <3>1, <4>1
      <3>2. CASE ~Ended(moved(j))
        <4>1. Continue(both(j)) \/ Continue(onward(j)) \/ Continue(single(j))
          BY <2>2, <3>2
        <4>2. QED
          BY <3>2, <4>1
      <3>3. QED
        BY <3>1, <3>2
    <2> HIDE DEF Goes
    <2>5. QED
      BY <2>3, <2>4
  <1>3. PICK w : Continue(w) /\ (ordered => Goes(k, w))
    BY <1>2
  <1>4. ASSUME ordered PROVE InPlace(w)
    <2>1. /\ m \in Merge /\ InPlace(m) /\ MergeSorted(Prior, Before, m)
          /\ Len(m.a) # 0 /\ Len(m.b) # 0
          /\ Transitive(Before) /\ Decides(Prior, Before)
      BY <1>1, <1>4, MergeKnown
    <2>2. k \in 0 .. Len(m.b) /\ MergeSorted(Prior, Before, o) /\ NextIsA(Before, o)
      BY <2>1, GallopsB
    <2>3. /\ o \in Merge /\ o.base = m.base /\ Total(o) = Total(m) /\ Items(o) = Items(m)
          /\ o.a = m.a
      BY <2>1, <2>2, MoveBIs
    <2>4. InPlace(o)
      BY <2>2, <2>3 DEF InPlace
    <2> DEFINE x == moved(k)
               y == MoveA(x, 1)
    <2>5. x = [o EXCEPT !.bcount = k]
      OBVIOUS
    <2>6. k \in Nat
      <3>1. Len(m.b) \in Nat
        BY <2>1, MergeLengths
      <3>2. QED
        BY <2>2, <3>1
    <2>7. \/ w = x
          \/ w = y
          \/ w = [y EXCEPT !.mode = "gallop a"]
          \/ w = [y EXCEPT !.mode = "single", !.acount = 0, !.bcount = 0]
      <3>1. Goes(k, w)
        BY <1>3, <1>4
      <3>2. both(k) = y /\ moved(k) = x
        OBVIOUS
      <3>3. /\ onward(k) = [y EXCEPT !.mode = "gallop a"]
            /\ single(k) = [y EXCEPT !.mode = "single", !.acount = 0, !.bcount = 0]
        OBVIOUS
      <3> HIDE DEF moved, both, onward, single, x, y, k
      <3>4. QED
        BY <3>1, <3>2, <3>3
    <2> HIDE DEF x, o, k
    <2>8. /\ x \in Merge /\ x.dir = o.dir /\ x.base = o.base
          /\ x.a = o.a /\ x.b = o.b /\ x.out = o.out
      BY <2>3, <2>5, <2>6 DEF Merge
    <2>9. InPlace(x)
      BY <2>4, <2>8, InPlaceStill
    <2>10. NextIsA(Before, x) /\ Len(x.a) # 0
      BY <2>1, <2>2, <2>3, <2>8 DEF NextIsA
    <2>11. InPlace(y)
      BY <2>9, <2>10, InPlaceMoved
    <2>12. y \in Merge
      BY <2>11 DEF InPlace
    <2> HIDE DEF y
    <2>13. CASE w = [y EXCEPT !.mode = "gallop a"]
      <3>1. /\ w \in Merge /\ w.dir = y.dir /\ w.base = y.base
            /\ w.a = y.a /\ w.b = y.b /\ w.out = y.out
        BY <2>12, <2>13 DEF Merge
      <3>2. QED
        BY <2>11, <3>1, InPlaceStill
    <2>14. CASE w = [y EXCEPT !.mode = "single", !.acount = 0, !.bcount = 0]
      <3>1. /\ w \in Merge /\ w.dir = y.dir /\ w.base = y.base
            /\ w.a = y.a /\ w.b = y.b /\ w.out = y.out
        BY <2>12, <2>14 DEF Merge
      <3>2. QED
        BY <2>11, <3>1, InPlaceStill
    <2>15. QED
      BY <2>7, <2>9, <2>11, <2>13, <2>14
  <1>5. QED
    BY <1>1, <1>3, <1>4, StepOrders

-----------------------------------------------------------------------------
(* The steps that move no item.                                            *)

LEMMA InitOrders ==
    ASSUME SortInit
    PROVE  OrderInv
  <1>1. PICK keys \in (IF ordered THEN Inputs ELSE {[i \in 1 .. n |-> 0] : n \in Lengths}) :
            input = [i \in DOMAIN keys |-> [key |-> keys[i], place |-> i]]
    BY DEF SortInit
  <1>2. Placed
    BY <1>1 DEF Placed
  <1>3. stage = "start" /\ slice = input /\ run.sorted = 0
    BY DEF SortInit
  <1>4. QED
    BY <1>2, <1>3 DEF OrderInv

LEMMA RaiseOrders ==
    ASSUME OrderInv, Raise
    PROVE  OrderInv'
  <1>1. stage' = "failed" /\ UNCHANGED <<input, ordered, reverse>>
    BY DEF Raise
  <1>2. Placed <=> Placed'
    BY <1>1, SameOrder
  <1>3. QED
    BY <1>1, <1>2 DEF OrderInv

\* The arrangement depends on what a step leaves alone.
LEMMA ArrangedStill ==
    ASSUME Arranged, stage' # "insert" => run.sorted = 0,
           UNCHANGED <<input, ordered, reverse, slice, run, pending, merge>>
    PROVE  Arranged'
  <1>1. Prior' = Prior /\ Before' = Before
    BY SameOrder
  <1>2. lo' = lo
    BY DEF lo
  <1>3. Unmixed(Prior', slice', pending', run'.sorted)
    BY <1>1 DEF Arranged
  <1>4. SortedBut(Before', slice', lo', lo' + run'.sorted, 0, 0)
    BY <1>1, <1>2 DEF Arranged
  <1>5. stage' # "insert" => run'.sorted = 0
    BY DEF Arranged
  <1>6. IF merge' = NoMerge THEN RunsSorted(Before', slice', pending', 0, 0)
        ELSE MergeInOrder(Prior', Before', merge', slice', pending')
    BY <1>1 DEF Arranged
  <1>7. QED
    BY <1>3, <1>4, <1>5, <1>6 DEF Arranged

LEMMA EndCollapseOrders ==
    ASSUME SortInv, OrderInv, EndCollapse
    PROVE  OrderInv'
  <1>1. /\ stage \in {"collapse", "force"} /\ stage' \in {"run", "force", "sorted"}
        /\ UNCHANGED <<input, ordered, reverse, slice, run, pending, merge>>
    BY DEF EndCollapse
  <1>2. ASSUME ordered PROVE Arranged'
    <2>1. Arranged /\ run.sorted = 0
      BY <1>1, <1>2, WhileMerging
    <2>2. QED
      BY <1>1, <2>1, ArrangedStill
  <1>3. QED
    BY <1>1, <1>2, ArrangedKeeps

LEMMA TouchOrders ==
    ASSUME SortInv, OrderInv, Touch
    PROVE  OrderInv'
  <1>1. /\ Compares
        /\ UNCHANGED <<input, ordered, reverse, slice, run, pending, merge, stage>>
    BY DEF Touch
  <1>2. stage \in {"run", "insert", "collapse", "force"}
    BY <1>1, ComparesSome
  <1>3. ASSUME ordered PROVE Arranged'
    <2>1. Arranged
      BY <1>2, <1>3 DEF OrderInv
    <2>2. stage' # "insert" => run.sorted = 0
      BY <1>1, <2>1 DEF Arranged
    <2>3. QED
      BY <1>1, <2>1, <2>2, ArrangedStill
  <1>4. QED
    BY <1>1, <1>2, <1>3, ArrangedKeeps

LEMMA StutterOrders ==
    ASSUME OrderInv, UNCHANGED sortVars
    PROVE  OrderInv'
  <1> USE DEF sortVars
  <1>1. Placed <=> Placed'
    BY SameOrder
  <1>2. ASSUME Arranged PROVE Arranged'
    <2>1. stage' # "insert" => run.sorted = 0
      BY <1>2 DEF Arranged
    <2>2. QED
      BY <1>2, <2>1, ArrangedStill
  <1>3. InOrder(shown', reverse') <=> InOrder(shown, reverse)
    OBVIOUS
  <1>4. QED
    BY <1>1, <1>2, <1>3 DEF OrderInv

\* Items that are sorted by what comes before what are in the order that the
\* sort promises, once they are turned back.
LEMMA SortedInOrder ==
    ASSUME NEW s \in Seq(Item), Sorted(Before, s)
    PROVE  InOrder(IF reverse THEN Reverse(s) ELSE s, reverse)
  <1> DEFINE n == Len(s)
  <1>1. n \in Nat /\ \A i \in 1 .. n : s[i] \in Item
    BY LenProperties, ElementOfSeq
  <1>2. \A x, y \in Item :
            /\ x.key \in Int /\ y.key \in Int /\ x.place \in Nat /\ y.place \in Nat
            /\ <<x, y>> \in Prior <=> IF reverse THEN y.place < x.place ELSE x.place < y.place
            /\ <<x, y>> \in Before <=> x.key < y.key \/ (x.key = y.key /\ <<x, y>> \in Prior)
    BY DEF Prior, Before, Item
  <1>3. ASSUME NEW i \in 1 .. n, NEW j \in 1 .. n, i < j
        PROVE  /\ s[i].key \in Int /\ s[j].key \in Int
               /\ \/ s[i].key < s[j].key
                  \/ /\ s[i].key = s[j].key
                     /\ IF reverse THEN s[j].place < s[i].place ELSE s[i].place < s[j].place
    <2>1. <<s[i], s[j]>> \in Before
      BY <1>3 DEF Sorted
    <2>2. QED
      BY <1>1, <1>2, <2>1
  <1>4. CASE ~reverse
    <2>1. \A i, j \in 1 .. n :
             i < j => IF s[i].key = s[j].key THEN s[i].place < s[j].place
                      ELSE s[i].key < s[j].key <=> TRUE
      BY <1>3, <1>4
    <2>2. DOMAIN s = 1 .. n
      BY LenProperties
    <2>3. InOrder(s, reverse)
      BY <1>4, <2>1, <2>2 DEF InOrder
    <2>4. QED
      BY <1>4, <2>3
  <1>5. CASE reverse
    <2> DEFINE t == Reverse(s)
    <2>1. /\ t \in Seq(Item) /\ Len(t) = n
          /\ \A i \in 1 .. n : t[i] = s[n + 1 - i]
      BY ReverseIs
    <2> HIDE DEF t
    <2>2. DOMAIN t = 1 .. n
      BY <2>1, LenProperties
    <2>3. ASSUME NEW i \in 1 .. n, NEW j \in 1 .. n, i < j
          PROVE  IF t[i].key = t[j].key THEN t[i].place < t[j].place
                 ELSE ~(t[i].key < t[j].key)
      <3> DEFINE x == n + 1 - i
                 y == n + 1 - j
      <3>1. x \in 1 .. n /\ y \in 1 .. n /\ y < x
        BY <1>1, <2>3
      <3>2. t[i] = s[x] /\ t[j] = s[y]
        BY <2>1
      <3> HIDE DEF x, y
      <3> DEFINE kx == s[x].key
                 ky == s[y].key
      <3>3. /\ kx \in Int /\ ky \in Int
            /\ ky < kx \/ (ky = kx /\ s[x].place < s[y].place)
        BY <1>3, <1>5, <3>1
      <3> HIDE DEF kx, ky
      <3>4. IF kx = ky THEN s[x].place < s[y].place ELSE ~(kx < ky)
        BY <3>3
      <3>5. QED
        BY <3>2, <3>4 DEF kx, ky
    <2>4. InOrder(t, reverse)
      BY <1>5, <2>2, <2>3 DEF InOrder
    <2>5. QED
      BY <1>5, <2>4 DEF t
  <1>6. QED
    BY <1>4, <1>5

LEMMA FinishOrders ==
    ASSUME SortInv, OrderInv, Finish
    PROVE  OrderInv'
  <1>1. /\ stage \in {"sorted", "failed"}
        /\ shown' = IF reverse THEN Reverse(slice) ELSE slice
        /\ stage' = IF stage = "sorted" /\ ~touched THEN "returned" ELSE "raised"
        /\ UNCHANGED <<input, ordered, reverse, touched, slice, run, pending, merge, minGallop>>
    BY DEF Finish
  <1>2. stage' \in {"returned", "raised"} /\ (stage' = "returned" => stage = "sorted")
    BY <1>1
  <1>3. ordered => Placed'
    BY <1>1, SameOrder DEF OrderInv
  <1>4. ASSUME ordered, stage = "sorted" PROVE InOrder(shown', reverse')
    <2> DEFINE n == Len(slice)
    <2>1. slice \in Seq(Item) /\ n = Len(input) /\ n \in Nat
      BY Facts
    <2>2. merge = NoMerge
      BY <1>4 DEF SortInv, Stages
    <2>3. RunsSorted(Before, slice, pending, 0, 0)
      BY <1>4, <2>2 DEF OrderInv, Arranged
    <2>4. Sorted(Before, slice)
      <3>1. CASE n < 2
        <4>1. \A i, j \in 1 .. n : ~(i < j)
          BY <2>1, <3>1
        <4>2. QED
          BY <4>1 DEF Sorted
      <3>2. CASE ~(n < 2)
        <4>1. pending = <<[base |-> 0, len |-> n]>>
          BY <1>4, <2>1, <3>2 DEF SortInv, SortTypeOK
        <4>2. Len(pending) = 1 /\ pending[1].base = 0 /\ pending[1].len = n
          BY <4>1
        <4>3. 1 \in 1 .. Len(pending) /\ EndOf(pending, 1 - 1) = 0 /\ EndOf(pending, 1) = n
          BY <2>1, <4>2 DEF EndOf
        <4>4. SortedBut(Before, slice, 0, n, 0, 0)
          BY <2>3, <4>3 DEF RunsSorted
        <4>5. ASSUME NEW i \in 1 .. n, NEW j \in 1 .. n, i < j
              PROVE  <<slice[i], slice[j]>> \in Before
          <5>1. i \in 0 + 1 .. n /\ j \in 0 + 1 .. n /\ ~(j <= 0)
            BY <2>1
          <5>2. QED
            BY <4>4, <4>5, <5>1 DEF SortedBut
        <4>6. QED
          BY <4>5 DEF Sorted
      <3>3. QED
        BY <3>1, <3>2
    <2>5. QED
      BY <1>1, <2>1, <2>4, SortedInOrder
  <1>5. QED
    BY <1>1, <1>2, <1>3, <1>4 DEF OrderInv

-----------------------------------------------------------------------------
(* Runs before they are merged.                                            *)

\* A sorted list is split anywhere.
LEMMA SortedSplit ==
    ASSUME NEW P, NEW s \in Seq(Item), Sorted(P, s), NEW b \in Nat
    PROVE  Split(P, s, b)
  <1>1. Len(s) \in Nat
    BY LenProperties
  <1>2. ASSUME NEW i \in 0 + 1 .. b, NEW j \in b + 1 .. Len(s)
        PROVE  <<s[i], s[j]>> \in P
    <2>1. i \in 1 .. Len(s) /\ j \in 1 .. Len(s) /\ i < j
      BY <1>1
    <2>2. QED
      BY <2>1 DEF Sorted
  <1>3. QED
    BY <1>2 DEF Split, Leads, Segment

\* No part of a list is sorted that has no items.
LEMMA NoneSorted ==
    ASSUME NEW R, NEW s, NEW l \in Nat
    PROVE  SortedBut(R, s, l, l + 0, 0, 0)
  <1>1. l + 1 .. l + 0 = {}
    OBVIOUS
  <1>2. QED
    BY <1>1 DEF SortedBut

LEMMA BeginOrders ==
    ASSUME SortInv, OrderInv, Begin
    PROVE  OrderInv'
  <1>1. /\ stage = "start" /\ stage' \in {"run", "sorted"}
        /\ slice' = IF reverse THEN Reverse(slice) ELSE slice
        /\ UNCHANGED <<input, ordered, reverse, touched, run, pending, merge, minGallop>>
    BY DEF Begin
  <1>2. pending = << >> /\ pending' = << >> /\ lo' = 0 /\ merge' = NoMerge
    BY <1>1 DEF SortInv, Stages, lo, End
  <1>3. Prior' = Prior /\ Before' = Before
    BY <1>1, SameOrder
  <1>4. ASSUME ordered PROVE Arranged'
    <2>1. slice = input /\ run.sorted = 0 /\ Placed
      BY <1>1, <1>4 DEF OrderInv
    <2> DEFINE n == Len(slice)
    <2>2. slice \in Seq(Item) /\ n \in Nat /\ \A i \in 1 .. n : slice[i].place = i
      BY <2>1, Facts, LenProperties DEF Placed
    <2>3. \A i \in 1 .. n : slice[i] \in Item
      BY <2>2, ElementOfSeq
    <2>4. \A x, y \in Item :
              <<x, y>> \in Prior <=> IF reverse THEN y.place < x.place ELSE x.place < y.place
      BY DEF Prior
    <2>5. slice' \in Seq(Item) /\ Sorted(Prior, slice')
      <3>1. CASE ~reverse
        <4>1. ASSUME NEW i \in 1 .. n, NEW j \in 1 .. n, i < j
              PROVE  <<slice[i], slice[j]>> \in Prior
          BY <2>2, <2>3, <2>4, <3>1, <4>1
        <4>2. QED
          BY <1>1, <2>2, <3>1, <4>1 DEF Sorted
      <3>2. CASE reverse
        <4> DEFINE t == Reverse(slice)
        <4>1. /\ t \in Seq(Item) /\ Len(t) = n
              /\ \A i \in 1 .. n : t[i] = slice[n + 1 - i]
          BY <2>2, ReverseIs
        <4>2. slice' = t
          BY <1>1, <3>2
        <4> HIDE DEF t
        <4>3. ASSUME NEW i \in 1 .. n, NEW j \in 1 .. n, i < j
              PROVE  <<t[i], t[j]>> \in Prior
          <5> DEFINE x == n + 1 - i
                     y == n + 1 - j
          <5>1. x \in 1 .. n /\ y \in 1 .. n /\ y < x
            BY <2>2, <4>3
          <5>2. t[i] = slice[x] /\ t[j] = slice[y]
            BY <4>1
          <5> HIDE DEF x, y
          <5>3. QED
            BY <2>2, <2>3, <2>4, <3>2, <5>1, <5>2
        <4>4. QED
          BY <4>1, <4>2, <4>3 DEF Sorted
      <3>3. QED
        BY <3>1, <3>2
    <2>6. Unmixed(Prior, slice', << >>, 0)
      <3>1. Len(<< >>) = 0 /\ End(<< >>) = 0 /\ EndOf(<< >>, 0) = 0
        BY DEF End, EndOf
      <3>2. \A b \in Nat : Split(Prior, slice', b)
        BY <2>5, SortedSplit
      <3>3. Len(slice') \in Nat
        BY <2>5, LenProperties
      <3>4. \A b \in 0 + 0 .. Len(slice') : b \in Nat
        BY <3>3
      <3>5. \A r \in 0 .. 0 : r = 0
        OBVIOUS
      <3>6. QED
        BY <3>1, <3>2, <3>4, <3>5 DEF Unmixed
    <2>7. SortedBut(Before, slice', 0, 0 + 0, 0, 0)
      BY NoneSorted
    <2>8. RunsSorted(Before, slice', << >>, 0, 0)
      BY DEF RunsSorted
    <2>9. run.sorted' = 0
      BY <1>1, <2>1
    <2>10. QED
      BY <1>1, <1>2, <1>3, <2>6, <2>7, <2>8, <2>9 DEF Arranged
  <1>5. QED
    BY <1>1, <1>4, ArrangedKeeps

\* A run that is sorted is one more on the stack.
LEMMA PushedSorted ==
    ASSUME NEW P, NEW R, NEW s \in Seq(Item), NEW p \in Seq(Slice), Adjacent(p),
           NEW l \in Nat \ {0}, End(p) + l <= Len(s), Unmixed(P, s, p, l),
           RunsSorted(R, s, p, 0, 0), SortedBut(R, s, End(p), End(p) + l, 0, 0)
    PROVE  LET t == Append(p, [base |-> End(p), len |-> l])
           IN  Unmixed(P, s, t, 0) /\ RunsSorted(R, s, t, 0, 0)
  <1> DEFINE e == End(p)
             n == Len(p)
             z == Len(s)
             w == [base |-> e, len |-> l]
             t == Append(p, w)
  <1>1. n \in Nat /\ e \in Nat /\ e = EndOf(p, n) /\ z \in Nat /\ e + l <= z
    BY EndIs, LenProperties
  <1>2. t \in Seq(Slice) /\ Len(t) = n + 1 /\ t[n + 1] = w /\ \A i \in 1 .. n : t[i] = p[i]
    <2>1. w \in Slice
      BY <1>1 DEF Slice
    <2> HIDE DEF w
    <2>2. QED
      BY <2>1, AppendProperties
  <1>3. \A i \in 0 .. n : EndOf(t, i) = EndOf(p, i)
    <2>1. \A i \in 0 .. n : i = 0 \/ i \in 1 .. n
      BY <1>1
    <2> HIDE DEF t
    <2>2. QED
      BY <1>2, <2>1 DEF EndOf
  <1>4. EndOf(t, n + 1) = e + l
    <2>1. n + 1 # 0 /\ t[n + 1].base = e /\ t[n + 1].len = l
      BY <1>1, <1>2
    <2>2. QED
      BY <2>1 DEF EndOf
  <1>5. End(t) = e + l
    BY <1>1, StackPushed
  <1>6. /\ \A i \in 0 .. n + 1 : i \in 0 .. n \/ i = n + 1
        /\ \A i \in 1 .. n + 1 : i \in 1 .. n \/ i = n + 1
        /\ \A i \in 1 .. n : i \in 0 .. n /\ i - 1 \in 0 .. n
        /\ (n + 1) - 1 = n /\ n \in 0 .. n
    BY <1>1
  <1> HIDE DEF t, w
  <1>7. Unmixed(P, s, t, 0)
    <2>1. \A b \in e + l .. z : Split(P, s, b)
      BY DEF Unmixed
    <2>2. e + l \in e + l .. z /\ \A b \in (e + l) + 0 .. z : b \in e + l .. z
      BY <1>1
    <2>3. \A i \in 0 .. n : Split(P, s, EndOf(t, i))
      BY <1>3 DEF Unmixed
    <2>4. Split(P, s, EndOf(t, n + 1))
      BY <1>4, <2>1, <2>2
    <2>5. \A i \in 0 .. Len(t) : Split(P, s, EndOf(t, i))
      BY <1>2, <1>6, <2>3, <2>4
    <2>6. \A b \in End(t) + 0 .. Len(s) : Split(P, s, b)
      BY <1>5, <2>1, <2>2
    <2>7. QED
      BY <2>5, <2>6 DEF Unmixed
  <1>8. RunsSorted(R, s, t, 0, 0)
    <2>1. \A i \in 1 .. n : SortedBut(R, s, EndOf(t, i - 1), EndOf(t, i), 0, 0)
      BY <1>3, <1>6 DEF RunsSorted
    <2>2. EndOf(t, (n + 1) - 1) = e
      BY <1>1, <1>3, <1>6
    <2>3. SortedBut(R, s, EndOf(t, (n + 1) - 1), EndOf(t, n + 1), 0, 0)
      BY <1>4, <2>2
    <2>4. QED
      BY <1>2, <1>6, <2>1, <2>3 DEF RunsSorted
  <1>9. QED
    BY <1>7, <1>8 DEF t, w

LEMMA PushOrders ==
    ASSUME SortInv, OrderInv, Push
    PROVE  OrderInv'
  <1>1. /\ stage = "insert" /\ stage' = "collapse" /\ run.sorted = run.length
        /\ pending' = Append(pending, [base |-> lo, len |-> run.length])
        /\ run' = [sorted |-> 0, length |-> 0]
        /\ UNCHANGED <<input, ordered, reverse, shown, touched, slice, merge, minGallop>>
    BY DEF Push
  <1>2. merge = NoMerge /\ merge' = NoMerge
    BY <1>1 DEF SortInv, Stages
  <1>3. /\ run.length \in Nat \ {0} /\ lo + run.length <= Len(slice)
        /\ slice \in Seq(Item) /\ pending \in Seq(Slice) /\ Adjacent(pending)
    BY <1>1, Facts DEF SortInv, Stages
  <1>4. lo' \in Nat
    <2>1. pending' \in Seq(Slice)
      BY <1>1, <1>3, StackPushed DEF lo
    <2>2. QED
      BY <2>1, EndIs DEF lo
  <1>5. ASSUME ordered PROVE Arranged'
    <2> DEFINE l == run.length
    <2>1. Arranged
      BY <1>1, <1>5 DEF OrderInv
    <2>2. /\ Unmixed(Prior, slice, pending, l)
          /\ SortedBut(Before, slice, lo, lo + l, 0, 0)
          /\ RunsSorted(Before, slice, pending, 0, 0)
      BY <1>1, <1>2, <2>1 DEF Arranged
    <2>3. l \in Nat \ {0} /\ End(pending) + l <= Len(slice)
      BY <1>3 DEF lo
    <2>4. SortedBut(Before, slice, End(pending), End(pending) + l, 0, 0)
      BY <2>2 DEF lo
    <2>5. pending' = Append(pending, [base |-> End(pending), len |-> l])
      BY <1>1 DEF lo
    <2> HIDE DEF l
    <2>6. Unmixed(Prior, slice, pending', 0) /\ RunsSorted(Before, slice, pending', 0, 0)
      BY <1>3, <2>2, <2>3, <2>4, <2>5, PushedSorted
    <2>7. Prior' = Prior /\ Before' = Before
      BY <1>1, SameOrder
    <2>8. run.sorted' = 0 /\ SortedBut(Before, slice, lo', lo' + 0, 0, 0)
      BY <1>1, <1>4, NoneSorted
    <2>9. QED
      BY <1>1, <1>2, <2>6, <2>7, <2>8 DEF Arranged
  <1>6. QED
    BY <1>1, <1>5, ArrangedKeeps

\* A part of a list is sorted where its items are.
LEMMA PartSorted ==
    ASSUME NEW R, NEW s \in Seq(Item), NEW l \in 0 .. Len(s), NEW r \in l .. Len(s),
           NEW u \in Seq(Item), Len(u) = r - l, \A i \in 1 .. r - l : s[l + i] = u[i]
    PROVE  Sorted(R, u) <=> SortedBut(R, s, l, r, 0, 0)
  <1> DEFINE n == r - l
  <1>1. l \in Nat /\ r \in Nat /\ n \in Nat /\ l + n = r
    BY LenProperties
  <1>2. ASSUME Sorted(R, u), NEW i \in l + 1 .. r, NEW j \in l + 1 .. r, i < j
        PROVE  <<s[i], s[j]>> \in R
    <2>1. /\ i - l \in 1 .. n /\ j - l \in 1 .. n /\ i - l < j - l
          /\ l + (i - l) = i /\ l + (j - l) = j
      BY <1>1, <1>2
    <2>2. s[i] = u[i - l] /\ s[j] = u[j - l]
      BY <2>1
    <2>3. <<u[i - l], u[j - l]>> \in R
      BY <1>2, <2>1 DEF Sorted
    <2>4. QED
      BY <2>2, <2>3
  <1>3. ASSUME SortedBut(R, s, l, r, 0, 0), NEW i \in 1 .. n, NEW j \in 1 .. n, i < j
        PROVE  <<u[i], u[j]>> \in R
    <2>1. /\ l + i \in l + 1 .. r /\ l + j \in l + 1 .. r /\ l + i < l + j /\ ~(l + j <= 0)
      BY <1>1, <1>3
    <2>2. <<s[l + i], s[l + j]>> \in R
      BY <1>3, <2>1 DEF SortedBut
    <2>3. QED
      BY <2>2
  <1>4. Sorted(R, u) => SortedBut(R, s, l, r, 0, 0)
    BY <1>2 DEF SortedBut
  <1>5. SortedBut(R, s, l, r, 0, 0) => Sorted(R, u)
    BY <1>3 DEF Sorted
  <1>6. QED
    BY <1>4, <1>5

\* What changes behind the runs on the stack does not disturb them.
LEMMA BehindRuns ==
    ASSUME NEW P, NEW R, NEW s \in Seq(Item), NEW t, NEW p \in Seq(Slice), Adjacent(p),
           NEW d \in Nat, NEW e \in Nat, d <= e, End(p) + e <= Len(s),
           Rearranged(s, t, End(p), End(p) + e), Unmixed(P, s, p, d), RunsSorted(R, s, p, 0, 0)
    PROVE  Unmixed(P, t, p, e) /\ RunsSorted(R, t, p, 0, 0)
  <1> DEFINE l == End(p)
             z == Len(s)
             n == Len(p)
             r == l + e
  <1>1. /\ n \in Nat /\ l \in Nat /\ z \in Nat /\ Len(t) = z
        /\ \A i \in 0 .. n : EndOf(p, i) \in Nat /\ EndOf(p, i) <= l
    BY EndIs, StackIs, LenProperties DEF Rearranged
  <1>2. l \in 0 .. z /\ r \in l .. z /\ \A i \in 0 .. n : EndOf(p, i) \in 0 .. z
    BY <1>1
  <1>3. ASSUME NEW b \in 0 .. z, b <= l \/ b >= r, Split(P, s, b)
        PROVE  Split(P, t, b)
    BY <1>2, <1>3, SplitKept
  <1>4. ASSUME NEW i \in 0 .. n PROVE Split(P, t, EndOf(p, i))
    <2>1. Split(P, s, EndOf(p, i))
      BY DEF Unmixed
    <2>2. QED
      BY <1>1, <1>2, <1>3, <2>1
  <1>5. ASSUME NEW b \in l + e .. z PROVE Split(P, t, b)
    <2>1. b \in 0 .. z /\ b >= r /\ b \in l + d .. z
      BY <1>1
    <2>2. Split(P, s, b)
      BY <2>1 DEF Unmixed
    <2>3. QED
      BY <1>3, <2>1, <2>2
  <1>6. ASSUME NEW i \in 1 .. n
        PROVE  SortedBut(R, t, EndOf(p, i - 1), EndOf(p, i), 0, 0)
    <2> DEFINE x == EndOf(p, i - 1)
               y == EndOf(p, i)
    <2>1. i - 1 \in 0 .. n /\ i \in 0 .. n
      BY <1>1
    <2>2. x \in 0 .. z /\ y \in 0 .. z /\ y <= l
      BY <1>1, <1>2, <2>1
    <2>3. SortedBut(R, s, x, y, 0, 0)
      BY DEF RunsSorted
    <2> HIDE DEF x, y
    <2>4. SortedBut(R, s, x, y, l, r)
      <3>1. \A j \in x + 1 .. y : ~(j <= 0)
        BY <2>2
      <3>2. QED
        BY <2>3, <3>1 DEF SortedBut
    <2>5. SortedBut(R, t, x, y, 0, 0)
      BY <1>2, <2>2, <2>4, OtherKept
    <2>6. QED
      BY <2>5 DEF x, y
  <1>7. QED
    BY <1>1, <1>4, <1>5, <1>6 DEF Unmixed, RunsSorted

\* What nobody has touched yet is in the order in which it came.
LEMMA RestInOrder ==
    ASSUME NEW P, NEW s \in Seq(Item), NEW p \in Seq(Slice), NEW d \in Nat, Unmixed(P, s, p, d)
    PROVE  \A i \in 1 .. Len(s), j \in End(p) + d + 1 .. Len(s) : i < j => <<s[i], s[j]>> \in P
  <1>1. End(p) \in Nat /\ Len(s) \in Nat
    BY EndIs, LenProperties
  <1>2. SUFFICES ASSUME NEW i \in 1 .. Len(s), NEW j \in End(p) + d + 1 .. Len(s), i < j
                 PROVE  <<s[i], s[j]>> \in P
    OBVIOUS
  <1>3. j - 1 \in End(p) + d .. Len(s) /\ i \in 0 + 1 .. j - 1 /\ j \in (j - 1) + 1 .. Len(s)
    BY <1>1, <1>2
  <1>4. Split(P, s, j - 1)
    BY <1>3 DEF Unmixed
  <1>5. s[i] \in Segment(s, 0, j - 1) /\ s[j] \in Segment(s, j - 1, Len(s))
    BY <1>3 DEF Segment
  <1>6. QED
    BY <1>4, <1>5 DEF Split, Leads

\* It is enough to compare neighbours.
LEMMA NeighboursSorted ==
    ASSUME NEW R, Transitive(R), NEW s \in Seq(Item),
           \A i \in 2 .. Len(s) : <<s[i - 1], s[i]>> \in R
    PROVE  Sorted(R, s)
  <1> DEFINE n == Len(s)
  <1>1. n \in Nat /\ \A i \in 1 .. n : s[i] \in Item
    BY LenProperties, ElementOfSeq
  <1>2. SUFFICES ASSUME NEW i \in 1 .. n, NEW j \in 1 .. n, i < j
                 PROVE  <<s[i], s[j]>> \in R
    BY DEF Sorted
  <1> DEFINE Bad == {k \in Nat : k \in i + 1 .. n /\ <<s[i], s[k]>> \notin R}
  <1>3. ASSUME Bad # {} PROVE FALSE
    <2>1. Bad \in SUBSET Nat
      OBVIOUS
    <2>2. PICK k \in Bad : \A m \in Bad : k <= m
      <3> HIDE DEF Bad
      <3>1. QED
        BY <1>3, <2>1, LeastNumber
    <2>3. k \in i + 1 .. n /\ <<s[i], s[k]>> \notin R
      BY <2>2
    <2>4. k \in 2 .. n /\ k \in 1 .. n /\ k - 1 \in 1 .. n /\ k - 1 \in Nat /\ ~(k <= k - 1)
      BY <1>1, <2>3
    <2>5. <<s[k - 1], s[k]>> \in R
      BY <2>4
    <2>6. k - 1 # i
      BY <2>3, <2>5
    <2>7. k - 1 \in i + 1 .. n
      BY <1>1, <2>3, <2>6
    <2>8. k - 1 \notin Bad
      <3> HIDE DEF Bad
      <3>1. QED
        BY <2>2, <2>4
    <2>9. <<s[i], s[k - 1]>> \in R
      BY <2>4, <2>7, <2>8
    <2>10. <<s[i], s[k]>> \in R
      BY <1>1, <2>4, <2>5, <2>9 DEF Transitive
    <2>11. QED
      BY <2>3, <2>10
  <1>4. j \in Nat /\ j \in i + 1 .. n
    BY <1>1, <1>2
  <1>5. j \notin Bad
    BY <1>3
  <1>6. QED
    BY <1>4, <1>5

LEMMA InsertOrders ==
    ASSUME SortInv, OrderInv, InsertNext
    PROVE  OrderInv'
  <1> DEFINE before == SubSeq(slice, lo + 1, lo + run.sorted)
             pivot == slice[lo + run.sorted + 1]
  <1>1. stage = "insert" /\ stage' = "insert" /\ run.sorted < run.length
        /\ run' = [run EXCEPT !.sorted = @ + 1]
        /\ UNCHANGED <<input, ordered, reverse, shown, touched, pending, merge, minGallop>>
    BY DEF InsertNext
  <1>2. lo' = lo
    BY <1>1 DEF lo
  <1>3. merge = NoMerge /\ merge' = NoMerge
    BY <1>1 DEF SortInv, Stages
  <1>4. PICK k \in Found(BehindEquals(before, pivot), run.sorted) :
            slice' = Take(slice, lo) \o Take(before, k) \o <<pivot>>
                     \o Drop(before, k) \o Drop(slice, lo + run.sorted + 1)
    BY DEF InsertNext
  <1>5. run'.sorted = run.sorted + 1
    <2> DEFINE x == run.sorted
    <2>1. run' = [sorted |-> x + 1, length |-> run.length]
      BY <1>1 DEF SortInv, SortTypeOK
    <2>2. QED
      BY <2>1
  <1>6. ASSUME ordered PROVE Arranged'
    <2> DEFINE n == run.sorted
               l == End(pending)
               z == Len(slice)
               s == slice
    <2>1. /\ n \in Nat /\ l \in Nat /\ z \in Nat /\ l + n + 1 <= z /\ l = lo
          /\ s \in Seq(Item) /\ pending \in Seq(Slice) /\ Adjacent(pending)
      <3> DEFINE y == run.length
      <3>1. n \in Nat /\ y \in Nat /\ z \in Nat /\ lo \in Nat /\ lo + y <= z /\ n < y
        BY <1>1, Facts
      <3> HIDE DEF n, y, z
      <3>2. lo + n + 1 <= z
        BY <3>1
      <3>3. QED
        BY <3>1, <3>2, Facts DEF lo
    <2>2. Arranged
      BY <1>1, <1>6 DEF OrderInv
    <2>3. /\ Unmixed(Prior, s, pending, n)
          /\ SortedBut(Before, s, l, l + n, 0, 0)
          /\ RunsSorted(Before, s, pending, 0, 0)
      BY <1>3, <2>1, <2>2 DEF Arranged
    <2>4. before = SubSeq(s, l + 1, l + n) /\ pivot = s[l + n + 1]
      BY <2>1
    <2>5. k \in Found(BehindEquals(before, pivot), n)
      OBVIOUS
    <2>6. ordered => k = BehindEquals(before, pivot)
      BY <2>5 DEF Found
    <2>7. slice' = Take(s, l) \o Take(before, k) \o <<pivot>>
                   \o Drop(before, k) \o Drop(s, l + n + 1)
      BY <1>4, <2>1
    <2> HIDE DEF n, l, z, s, before, pivot
    <2>8. l \in 0 .. Len(s) /\ l + n \in l .. Len(s) /\ l + n + 1 \in l .. Len(s)
          /\ (l + n) - l = n /\ (l + n + 1) - l = n + 1 /\ l + n + 1 \in 1 .. Len(s)
      BY <2>1 DEF z, s
    <2>9. /\ before \in Seq(Item) /\ Len(before) = n
          /\ \A i \in 1 .. n : before[i] = s[l + i]
      <3>1. /\ before \in Seq(Item) /\ Len(before) = (l + n) - l
            /\ \A i \in 1 .. (l + n) - l : before[i] = s[l + i]
        BY <2>1, <2>4, <2>8, PartIs
      <3>2. QED
        BY <2>8, <3>1
    <2>10. Sorted(Before, before)
      <3>1. SortedBut(Before, s, l, l + n, 0, 0)
        BY <2>3
      <3>2. /\ s \in Seq(Item) /\ Len(before) = (l + n) - l
            /\ \A i \in 1 .. (l + n) - l : s[l + i] = before[i]
        BY <2>1, <2>8, <2>9
      <3>3. QED
        BY <2>8, <2>9, <3>1, <3>2, PartSorted
    <2>11. pivot \in Item
      BY <2>1, <2>4, <2>8, ElementOfSeq
    <2>12. Leads(Prior, ToSet(before), {pivot})
      <3>1. \A x : x \in ToSet(before) <=> \E i \in 1 .. n : x = before[i]
        BY <2>9, ToSetIs
      <3>2. ASSUME NEW i \in 1 .. n PROVE <<before[i], pivot>> \in Prior
        <4>1. l + i \in 1 .. Len(s) /\ l + n + 1 \in l + n + 1 .. Len(s) /\ l + i < l + n + 1
          BY <2>1, <2>8
        <4>2. <<s[l + i], s[l + n + 1]>> \in Prior
          BY <2>1, <2>3, <4>1, RestInOrder DEF l
        <4>3. QED
          BY <2>4, <2>9, <4>2
      <3>3. QED
        BY <3>1, <3>2 DEF Leads
    <2>13. Belongs(Before, pivot, before, k)
      BY <1>6, <2>6, <2>9, <2>10, <2>11, <2>12, OrderIs, BisectionFinds
    <2>14. k \in 0 .. n
      BY <2>9, <2>13 DEF Belongs
    <2> DEFINE u == Take(before, k) \o <<pivot>> \o Drop(before, k)
               t == Take(s, l) \o u \o Drop(s, l + n + 1)
    <2>15. /\ slice' = t
           /\ Rearranged(s, t, l, l + n + 1)
           /\ \A i \in 1 .. n + 1 : t[l + i] = u[i]
      <3> DEFINE c == SubSeq(s, l + 1, l + n)
                 e == Take(c, k) \o <<s[l + n + 1]>> \o Drop(c, k)
                 w == Take(s, l) \o e \o Drop(s, l + n + 1)
      <3>1. l \in Nat /\ n \in Nat /\ s \in Seq(Item) /\ l + n + 1 <= Len(s)
        BY <2>1 DEF z, s
      <3>2. /\ Take(s, l) \o Take(c, k) \o <<s[l + n + 1]>> \o Drop(c, k)
                  \o Drop(s, l + n + 1) = w
            /\ Rearranged(s, w, l, l + n + 1)
            /\ \A i \in 1 .. n + 1 : w[l + i] = e[i]
        BY <2>14, <3>1, InsertIs
      <3>3. c = before /\ s[l + n + 1] = pivot
        BY <2>4
      <3> HIDE DEF c
      <3>4. u = e /\ t = w
        BY <3>3
      <3>5. slice' = w
        BY <2>7, <3>2, <3>3
      <3> HIDE DEF e, w, u, t
      <3>6. QED
        BY <3>2, <3>4, <3>5
    <2>16. u \in Seq(Item) /\ Len(u) = n + 1 /\ Sorted(Before, u)
      <3> DEFINE c == Take(before, k)
                 e == Drop(before, k)
                 w == <<pivot>>
      <3>1. c \in Seq(Item) /\ Len(c) = k
        BY <2>9, <2>14, TakeIs
      <3>2. e \in Seq(Item) /\ Len(e) = n - k
        BY <2>9, <2>14, DropIs
      <3>3. w \in Seq(Item) /\ Len(w) = 1 /\ w[1] = pivot
        BY <2>11
      <3>4. Sorted(Before, c) /\ Sorted(Before, e) /\ Leads(Before, ToSet(c), ToSet(e))
        BY <2>9, <2>10, <2>14, SortedParts
      <3>5. Leads(Before, ToSet(c), {pivot}) /\ Leads(Before, {pivot}, ToSet(e))
        BY <2>13 DEF Belongs
      <3>6. u = c \o w \o e
        OBVIOUS
      <3> HIDE DEF c, e, w, u
      <3>7. ToSet(w) = {pivot}
        <4>1. \A x : x \in ToSet(w) <=> \E i \in 1 .. Len(w) : x = w[i]
          BY <3>3, ToSetIs
        <4>2. QED
          BY <3>3, <4>1
      <3>8. Sorted(Before, w)
        <4>1. \A i, j \in 1 .. Len(w) : ~(i < j)
          BY <3>3
        <4>2. QED
          BY <4>1 DEF Sorted
      <3>9. Leads(Before, ToSet(c), ToSet(w)) /\ Leads(Before, ToSet(c) \cup ToSet(w), ToSet(e))
        BY <3>4, <3>5, <3>7 DEF Leads
      <3>10. Sorted(Before, c \o w \o e)
        BY <3>1, <3>2, <3>3, <3>4, <3>8, <3>9, SortedJoin3
      <3>11. c \o w \o e \in Seq(Item) /\ Len(c \o w \o e) = Len(c) + Len(w) + Len(e)
        BY <3>1, <3>2, <3>3, Join3Is
      <3>12. Len(c) + Len(w) + Len(e) = n + 1
        BY <2>1, <2>14, <3>1, <3>2, <3>3
      <3>13. QED
        BY <3>6, <3>10, <3>11, <3>12
    <2> HIDE DEF u, t
    <2>17. SortedBut(Before, t, l, l + n + 1, 0, 0)
      <3>1. t \in Seq(Item) /\ Len(t) = Len(s)
        BY <2>15 DEF Rearranged
      <3>2. l \in 0 .. Len(t) /\ l + n + 1 \in l .. Len(t) /\ Len(u) = (l + n + 1) - l
            /\ \A i \in 1 .. (l + n + 1) - l : t[l + i] = u[i]
        BY <2>8, <2>15, <2>16, <3>1
      <3>3. QED
        BY <2>16, <3>1, <3>2, PartSorted
    <2> DEFINE m == n + 1
    <2>18. /\ m \in Nat /\ n <= m /\ l + m = l + n + 1 /\ l + m <= Len(s)
      BY <2>1, <2>8
    <2> HIDE DEF m
    <2>19. Rearranged(s, t, l, l + m) /\ SortedBut(Before, t, l, l + m, 0, 0)
      BY <2>15, <2>17, <2>18
    <2>20. Unmixed(Prior, t, pending, m) /\ RunsSorted(Before, t, pending, 0, 0)
      BY <2>1, <2>3, <2>18, <2>19, BehindRuns DEF l
    <2>21. Prior' = Prior /\ Before' = Before
      BY <1>1, SameOrder
    <2>22. run'.sorted = m /\ lo' = l
      BY <1>2, <1>5, <2>1 DEF m, n
    <2>23. QED
      BY <1>1, <1>3, <2>15, <2>19, <2>20, <2>21, <2>22 DEF Arranged
  <1>7. QED
    BY <1>1, <1>6, ArrangedKeeps

\* What count_run counts is sorted, once it is turned if it descends.
LEMMA CountedSorted ==
    ASSUME NEW P, NEW R, Transitive(R), Decides(P, R), NEW s \in Seq(Item), Sorted(P, s),
           NEW down \in BOOLEAN, \A i \in 2 .. Len(s) : Descending(s, i) = down
    PROVE  Sorted(R, IF down THEN Reverse(s) ELSE s)
  <1> DEFINE n == Len(s)
  <1>1. n \in Nat /\ \A i \in 1 .. n : s[i] \in Item
    BY LenProperties, ElementOfSeq
  <1>2. ASSUME NEW i \in 2 .. n
        PROVE  IF down THEN <<s[i], s[i - 1]>> \in R ELSE <<s[i - 1], s[i]>> \in R
    <2>1. i \in 1 .. n /\ i - 1 \in 1 .. n /\ i - 1 < i
      BY <1>1
    <2>2. <<s[i - 1], s[i]>> \in P
      BY <2>1 DEF Sorted
    <2>3. Lt(s[i], s[i - 1]) <=> down
      <3>1. Descending(s, i) = down
        BY <1>2
      <3>2. Descending(s, i) = Lt(s[i], s[i - 1])
        BY DEF Descending
      <3>3. QED
        BY <3>1, <3>2 DEF Lt
    <2>4. QED
      BY <1>1, <2>1, <2>2, <2>3 DEF Decides
  <1>3. CASE ~down
    <2>1. \A i \in 2 .. n : <<s[i - 1], s[i]>> \in R
      BY <1>2, <1>3
    <2>2. QED
      BY <1>3, <2>1, NeighboursSorted
  <1>4. CASE down
    <2> DEFINE t == Reverse(s)
    <2>1. /\ t \in Seq(Item) /\ Len(t) = n
          /\ \A i \in 1 .. n : t[i] = s[n + 1 - i]
      BY ReverseIs
    <2> HIDE DEF t
    <2>2. ASSUME NEW i \in 2 .. n PROVE <<t[i - 1], t[i]>> \in R
      <3> DEFINE x == n + 1 - (i - 1)
      <3>1. x \in 2 .. n /\ x - 1 = n + 1 - i /\ i \in 1 .. n /\ i - 1 \in 1 .. n
        BY <1>1
      <3>2. t[i - 1] = s[x] /\ t[i] = s[x - 1]
        BY <2>1, <3>1
      <3> HIDE DEF x
      <3>3. QED
        BY <1>2, <1>4, <3>1, <3>2
    <2>3. Sorted(R, t)
      BY <2>1, <2>2, NeighboursSorted
    <2>4. QED
      BY <1>4, <2>3 DEF t
  <1>5. QED
    BY <1>3, <1>4

LEMMA NextRunOrders ==
    ASSUME SortInv, OrderInv, NextRun
    PROVE  OrderInv'
  <1> DEFINE rest == Drop(slice, lo)
             Alike(n, down) == \A i \in 2 .. n : Descending(rest, i) = down
  <1>1. stage = "run" /\ stage' = "insert"
        /\ UNCHANGED <<input, ordered, reverse, shown, touched, pending, merge, minGallop>>
    BY DEF NextRun
  <1>2. lo' = lo /\ lo < Len(input)
    BY <1>1 DEF SortInv, Stages, lo
  <1>3. merge = NoMerge /\ merge' = NoMerge
    BY <1>1 DEF SortInv, Stages
  <1>4. lo \in 0 .. Len(slice) /\ Len(slice) \in Nat
    BY Facts
  <1>5. /\ rest \in Seq(Item) /\ Len(rest) = Len(slice) - lo /\ Len(rest) \in Nat \ {0}
        /\ \A i \in 1 .. Len(slice) - lo : rest[i] = slice[lo + i]
    <2>1. /\ rest \in Seq(Item) /\ Len(rest) = Len(slice) - lo
          /\ \A i \in 1 .. Len(slice) - lo : rest[i] = slice[lo + i]
      BY <1>4, Facts, DropIs
    <2> HIDE DEF rest
    <2>2. QED
      BY <1>2, <1>4, <2>1, Facts
  <1>6. ASSUME ordered
        PROVE  \E n \in 1 .. Len(rest), down \in BOOLEAN : FindRun(n, down) /\ Alike(n, down)
    <2>1. CASE Len(rest) = 1
      <3>1. FindRun(1, FALSE)
        BY <1>1, <2>1 DEF NextRun
      <3>2. 1 \in 1 .. Len(rest) /\ 2 .. 1 = {}
        BY <2>1
      <3>3. Alike(1, FALSE)
        BY <3>2
      <3>4. QED
        BY <3>1, <3>2, <3>3
    <2>2. CASE Len(rest) # 1
      <3>1. FindRun(CountRun(rest), Descending(rest, 2))
        BY <1>6, <2>2 DEF NextRun
      <3>2. Len(rest) >= 2
        BY <1>5, <2>2
      <3>3. /\ CountRun(rest) \in 2 .. Len(rest)
            /\ \A i \in 2 .. CountRun(rest) : Descending(rest, i) = Descending(rest, 2)
        BY <1>5, <3>2, CountRunIs
      <3>4. Descending(rest, 2) \in BOOLEAN
        BY DEF Descending, Lt
      <3> HIDE DEF rest
      <3>5. CountRun(rest) \in 1 .. Len(rest)
        BY <1>5, <3>3
      <3>6. QED
        BY <3>1, <3>3, <3>4, <3>5
    <2>3. QED
      BY <2>1, <2>2
  <1>7. ASSUME ordered PROVE Arranged'
    <2>1. PICK n \in 1 .. Len(rest), down \in BOOLEAN : FindRun(n, down) /\ Alike(n, down)
      BY <1>6, <1>7
    <2>2. run'.sorted = n
      BY <2>1 DEF FindRun
    <2> DEFINE l == End(pending)
               s == slice
               z == Len(slice)
               part == Take(rest, n)
               u == IF down THEN Reverse(part) ELSE part
    <2>3. /\ slice' = IF down THEN Take(s, l) \o Reverse(Take(Drop(s, l), n)) \o Drop(Drop(s, l), n)
                              ELSE s
          /\ rest = Drop(s, l) /\ l = lo
      BY <2>1 DEF FindRun, lo
    <2>4. /\ s \in Seq(Item) /\ pending \in Seq(Slice) /\ Adjacent(pending)
          /\ l \in Nat /\ z \in Nat /\ n \in Nat /\ n \in 0 .. Len(rest)
          /\ n \in 0 .. z - l /\ l + n <= z /\ (l + n) - l = n
          /\ l \in 0 .. z /\ l + n \in l .. z
      <3> DEFINE r == Len(rest)
      <3>1. l \in Nat /\ z \in Nat /\ r = z - l /\ r \in Nat /\ n \in 1 .. r
        BY <1>4, <1>5, <2>3
      <3> HIDE DEF l, z, r
      <3>2. /\ n \in Nat /\ n \in 0 .. r /\ n \in 0 .. z - l /\ l + n <= z /\ (l + n) - l = n
            /\ l \in 0 .. z /\ l + n \in l .. z
        BY <3>1
      <3>3. QED
        BY <3>1, <3>2, Facts DEF r
    <2>5. Arranged
      BY <1>1, <1>7 DEF OrderInv
    <2>6. /\ Unmixed(Prior, s, pending, 0) /\ RunsSorted(Before, s, pending, 0, 0)
      BY <1>1, <1>3, <2>5 DEF Arranged
    <2>7. /\ part \in Seq(Item) /\ Len(part) = n
          /\ \A i \in 1 .. n : part[i] = s[l + i] /\ part[i] = rest[i]
      <3>1. part \in Seq(Item) /\ Len(part) = n /\ \A i \in 1 .. n : part[i] = rest[i]
        BY <1>5, <2>4, TakeIs
      <3>2. \A i \in 1 .. n : rest[i] = s[lo + i]
        <4>1. \A i \in 1 .. n : i \in 1 .. z - lo
          BY <2>3, <2>4
        <4>2. QED
          BY <1>5, <4>1
      <3>3. QED
        BY <2>3, <3>1, <3>2
    <2>8. Rearranged(s, slice', l, l + n)
      <3>1. CASE down
        BY <2>3, <2>4, <3>1, FindRunIs
      <3>2. CASE ~down
        BY <2>3, <2>4, <3>2 DEF Rearranged
      <3>3. QED
        BY <3>1, <3>2
    <2>9. \A i \in 2 .. n : Descending(rest, i) = down
      BY <2>1
    <2>10. slice' = IF down THEN Take(s, l) \o Reverse(part) \o Drop(s, l + n) ELSE s
      <3>1. Drop(Drop(s, l), n) = Drop(s, l + n)
        BY <2>4, DropDrop
      <3>2. QED
        BY <2>3, <3>1
    <2> HIDE DEF part, u, rest, l, s, z, Alike
    <2>11. Sorted(Prior, part)
      <3>1. ASSUME NEW i \in 1 .. n, NEW j \in 1 .. n, i < j
            PROVE  <<part[i], part[j]>> \in Prior
        <4>1. l + i \in 1 .. z /\ l + j \in l + 0 + 1 .. z /\ l + i < l + j
          BY <2>4, <3>1
        <4>2. <<s[l + i], s[l + j]>> \in Prior
          BY <2>4, <2>6, <4>1, RestInOrder DEF l, z, s
        <4>3. QED
          BY <2>7, <4>2
      <3>2. QED
        BY <2>7, <3>1 DEF Sorted
    <2>12. \A i \in 2 .. n : Descending(part, i) = down
      <3>1. ASSUME NEW i \in 2 .. n PROVE Descending(part, i) = down
        <4>1. i \in 1 .. n /\ i - 1 \in 1 .. n
          BY <2>4
        <4>2. part[i] = rest[i] /\ part[i - 1] = rest[i - 1]
          BY <2>7, <4>1
        <4>3. Descending(part, i) = Descending(rest, i)
          BY <4>2 DEF Descending
        <4>4. QED
          BY <2>9, <4>3
      <3>2. QED
        BY <3>1
    <2>13. u \in Seq(Item) /\ Len(u) = n /\ ToSet(u) = ToSet(part) /\ Sorted(Before, u)
      <3>1. Sorted(Before, IF down THEN Reverse(part) ELSE part)
        BY <2>7, <2>11, <2>12, OrderIs, CountedSorted
      <3>2. Reverse(part) \in Seq(Item) /\ Len(Reverse(part)) = n
            /\ ToSet(Reverse(part)) = ToSet(part)
        BY <2>7, ReverseIs
      <3>3. QED
        BY <2>7, <3>1, <3>2 DEF u
    <2>14. \A i \in 1 .. n : slice'[l + i] = u[i]
      <3>1. CASE ~down
        BY <2>7, <2>10, <3>1 DEF u
      <3>2. CASE down
        <4>1. slice' = Take(s, l) \o u \o Drop(s, l + n)
          BY <2>10, <3>2 DEF u
        <4>2. part = SubSeq(s, l + 1, l + n)
          <5>1. part = Take(Drop(s, l), n)
            BY <2>3 DEF part
          <5>2. QED
            BY <2>4, <5>1, DropTake DEF z, s
        <4>3. l \in 0 .. Len(s) /\ l + n \in l .. Len(s)
          BY <2>4 DEF z, s
        <4>4. ToSet(part) = Segment(s, l, l + n)
          BY <2>4, <4>2, <4>3, PartSet
        <4>5. Len(u) = (l + n) - l /\ ToSet(u) = Segment(s, l, l + n)
          BY <2>4, <2>13, <4>4
        <4>6. \A i \in 1 .. (l + n) - l : (Take(s, l) \o u \o Drop(s, l + n))[l + i] = u[i]
          BY <2>4, <2>13, <4>3, <4>5, PartReplaced
        <4>7. QED
          BY <2>4, <4>1, <4>6
      <3>3. QED
        BY <3>1, <3>2
    <2>15. SortedBut(Before, slice', l, l + n, 0, 0)
      <3>1. slice' \in Seq(Item) /\ Len(slice') = Len(s)
        BY <2>8 DEF Rearranged
      <3>2. l \in 0 .. Len(slice') /\ l + n \in l .. Len(slice') /\ Len(u) = (l + n) - l
            /\ \A i \in 1 .. (l + n) - l : slice'[l + i] = u[i]
        BY <2>4, <2>13, <2>14, <3>1 DEF z, s
      <3>3. QED
        BY <2>13, <3>1, <3>2, PartSorted
    <2>16. Unmixed(Prior, slice', pending, n) /\ RunsSorted(Before, slice', pending, 0, 0)
      <3>1. 0 \in Nat /\ n \in Nat /\ 0 <= n /\ l + n <= Len(s)
        BY <2>4 DEF z, s
      <3>2. QED
        BY <2>4, <2>6, <2>8, <3>1, BehindRuns DEF l
    <2>17. Prior' = Prior /\ Before' = Before
      BY <1>1, SameOrder
    <2>18. lo' = l
      BY <1>2, <2>3
    <2>19. QED
      BY <1>1, <1>3, <2>2, <2>15, <2>16, <2>17, <2>18 DEF Arranged
  <1>8. QED
    BY <1>1, <1>7, ArrangedKeeps

-----------------------------------------------------------------------------
(* Two neighbours on the stack get merged.                                 *)

\* Where an item belongs in a run tells of pairs of items of two runs.
LEMMA Crossing ==
    ASSUME NEW R, Transitive(R), NEW a \in Seq(Item), NEW b \in Seq(Item),
           Len(a) # 0, Len(b) # 0, Sorted(R, a), Sorted(R, b)
    PROVE  /\ \A k : Belongs(R, b[1], a, k) =>
                        \A i \in 1 .. k, j \in 1 .. Len(b) : <<a[i], b[j]>> \in R
           /\ \A n : Belongs(R, Last(a), b, n) =>
                        \A i \in 1 .. Len(a), j \in n + 1 .. Len(b) : <<a[i], b[j]>> \in R
  <1>1. /\ Len(a) \in Nat /\ Len(b) \in Nat
        /\ \A i \in 1 .. Len(a) : a[i] \in Item
        /\ \A i \in 1 .. Len(b) : b[i] \in Item
    BY LenProperties, ElementOfSeq
  <1>2. \A i \in 1 .. Len(a) : a[i] \in ToSet(a)
    BY ToSetIs
  <1>3. \A i \in 1 .. Len(b) : b[i] \in ToSet(b)
    BY ToSetIs
  <1>4. \A x \in Item : <<x, b[1]>> \in R => Leads(R, {x}, ToSet(b))
    BY LeadsFirst
  <1>5. \A x \in Item : <<Last(a), x>> \in R => Leads(R, ToSet(a), {x})
    BY LeadsLast
  <1>6. ASSUME NEW k, Belongs(R, b[1], a, k), NEW i \in 1 .. k, NEW j \in 1 .. Len(b)
        PROVE  <<a[i], b[j]>> \in R
    <2>1. k \in 0 .. Len(a) /\ i \in 1 .. Len(a)
      BY <1>1, <1>6 DEF Belongs
    <2> DEFINE t == Take(a, k)
    <2>2. t \in Seq(Item) /\ Len(t) = k /\ \A q \in 1 .. k : t[q] = a[q]
      BY <2>1, TakeIs
    <2>3. Leads(R, ToSet(t), {b[1]})
      BY <1>6 DEF Belongs
    <2> HIDE DEF t
    <2>4. t[i] \in ToSet(t)
      BY <1>6, <2>2, ToSetIs
    <2>5. <<a[i], b[1]>> \in R
      BY <1>6, <2>2, <2>3, <2>4 DEF Leads
    <2>6. Leads(R, {a[i]}, ToSet(b))
      BY <1>1, <1>4, <2>1, <2>5
    <2>7. QED
      BY <1>3, <1>6, <2>6 DEF Leads
  <1>7. ASSUME NEW n, Belongs(R, Last(a), b, n),
               NEW i \in 1 .. Len(a), NEW j \in n + 1 .. Len(b)
        PROVE  <<a[i], b[j]>> \in R
    <2>1. n \in 0 .. Len(b)
      BY <1>7 DEF Belongs
    <2>2. j \in 1 .. Len(b) /\ j - n \in 1 .. Len(b) - n /\ n + (j - n) = j
      BY <1>1, <1>7, <2>1
    <2> DEFINE t == Drop(b, n)
    <2>3. t \in Seq(Item) /\ Len(t) = Len(b) - n /\ \A q \in 1 .. Len(b) - n : t[q] = b[n + q]
      BY <2>1, DropIs
    <2>4. Leads(R, {Last(a)}, ToSet(t))
      BY <1>7 DEF Belongs
    <2> HIDE DEF t
    <2>5. t[j - n] \in ToSet(t)
      BY <2>2, <2>3, ToSetIs
    <2>6. t[j - n] = b[j]
      BY <2>2, <2>3
    <2>7. <<Last(a), b[j]>> \in R
      BY <2>4, <2>5, <2>6 DEF Leads
    <2>8. Leads(R, ToSet(a), {b[j]})
      BY <1>1, <1>5, <2>2, <2>7
    <2>9. QED
      BY <1>2, <1>7, <2>8 DEF Leads
  <1>8. QED
    BY <1>6, <1>7

\* Two sorted neighbours are one run that is sorted but for what is between
\* the places that were found.
LEMMA HoleSorted ==
    ASSUME NEW R, NEW s, NEW l \in Nat, NEW x \in Nat, NEW y \in Nat, NEW c, NEW d,
           SortedBut(R, s, l, l + x, 0, 0), SortedBut(R, s, l + x, l + x + y, 0, 0),
           \A i \in 1 .. x, j \in 1 .. y :
               <<s[l + i], s[l + x + j]>> \in R \/ (c < l + i /\ l + x + j <= d)
    PROVE  SortedBut(R, s, l, l + x + y, c, d)
  <1>1. SUFFICES ASSUME NEW i \in l + 1 .. l + x + y, NEW j \in l + 1 .. l + x + y, i < j
                 PROVE  <<s[i], s[j]>> \in R \/ (c < i /\ j <= d)
    BY DEF SortedBut
  <1>2. CASE j <= l + x
    <2>1. i \in l + 1 .. l + x /\ j \in l + 1 .. l + x /\ ~(j <= 0)
      BY <1>1, <1>2
    <2>2. QED
      BY <1>1, <2>1 DEF SortedBut
  <1>3. CASE i > l + x
    <2>1. i \in l + x + 1 .. l + x + y /\ j \in l + x + 1 .. l + x + y /\ ~(j <= 0)
      BY <1>1, <1>3
    <2>2. QED
      BY <1>1, <2>1 DEF SortedBut
  <1>4. CASE i <= l + x /\ j > l + x
    <2> DEFINE u == i - l
               v == j - (l + x)
    <2>1. u \in 1 .. x /\ v \in 1 .. y /\ l + u = i /\ l + x + v = j
      BY <1>1, <1>4
    <2> HIDE DEF u, v
    <2>2. <<s[l + u], s[l + x + v]>> \in R \/ (c < l + u /\ l + x + v <= d)
      BY <2>1
    <2>3. QED
      BY <2>1, <2>2
  <1>5. QED
    BY <1>1, <1>2, <1>3, <1>4

\* The i-th run and the next one are one run from now on.
Joins(p, i, t) ==
    /\ t \in Seq(Slice) /\ Len(t) = Len(p) - 1 /\ End(t) = End(p)
    /\ \A j \in 0 .. Len(p) - 1 : EndOf(t, j) = IF j < i THEN EndOf(p, j) ELSE EndOf(p, j + 1)

\* Two neighbours become one run: it is unmixed with the rest, and sorted but
\* for what is still to be merged.
LEMMA JoinedRuns ==
    ASSUME NEW P, NEW R, NEW s, NEW p \in Seq(Slice), Adjacent(p), NEW i \in 1 .. Len(p) - 1,
           NEW t, Joins(p, i, t), Unmixed(P, s, p, 0), RunsSorted(R, s, p, 0, 0)
    PROVE  /\ Unmixed(P, s, t, 0)
           /\ \A c, d : /\ EndOf(p, i - 1) <= c /\ d <= EndOf(p, i + 1) => InOneRun(t, c, d)
                        /\ SortedBut(R, s, EndOf(p, i - 1), EndOf(p, i + 1), c, d)
                              => RunsSorted(R, s, t, c, d)
  <1> DEFINE n == Len(p)
  <1>1. n \in Nat /\ \A j \in 0 .. n : EndOf(p, j) \in Nat
    BY EndIs
  <1>2. /\ Len(t) = n - 1 /\ End(t) = End(p)
        /\ \A j \in 0 .. n - 1 : EndOf(t, j) = IF j < i THEN EndOf(p, j) ELSE EndOf(p, j + 1)
    BY DEF Joins
  <1>3. i \in Nat \ {0} /\ i \in 1 .. n - 1 /\ i \in 0 .. n - 1 /\ i - 1 \in 0 .. n - 1 /\ i - 1 < i
        /\ ~(i < i)
    BY <1>1
  <1>4. EndOf(t, i - 1) = EndOf(p, i - 1) /\ EndOf(t, i) = EndOf(p, i + 1)
    BY <1>2, <1>3
  <1> HIDE DEF n
  <1>5. Unmixed(P, s, t, 0)
    <2>1. ASSUME NEW j \in 0 .. n - 1 PROVE Split(P, s, EndOf(t, j))
      <3>1. j \in 0 .. n /\ j + 1 \in 0 .. n
        BY <1>1
      <3>2. Split(P, s, EndOf(p, j)) /\ Split(P, s, EndOf(p, j + 1))
        BY <3>1 DEF Unmixed, n
      <3>3. QED
        BY <1>2, <3>2
    <2>2. QED
      BY <1>2, <2>1 DEF Unmixed
  <1>6. ASSUME NEW c, NEW d, EndOf(p, i - 1) <= c, d <= EndOf(p, i + 1)
        PROVE  InOneRun(t, c, d)
    <2>1. i \in 1 .. Len(t)
      BY <1>2, <1>3
    <2>2. QED
      BY <1>4, <1>6, <2>1 DEF InOneRun
  <1>7. ASSUME NEW c, NEW d, SortedBut(R, s, EndOf(p, i - 1), EndOf(p, i + 1), c, d)
        PROVE  RunsSorted(R, s, t, c, d)
    <2>1. ASSUME NEW j \in 1 .. n - 1
          PROVE  SortedBut(R, s, EndOf(t, j - 1), EndOf(t, j), c, d)
      <3>1. CASE j = i
        BY <1>4, <1>7, <3>1
      <3>2. CASE j # i
        <4> DEFINE q == IF j < i THEN j ELSE j + 1
        <4>1. q \in 1 .. n /\ EndOf(t, j - 1) = EndOf(p, q - 1) /\ EndOf(t, j) = EndOf(p, q)
          <5>1. CASE j < i
            <6>1. j - 1 \in 0 .. n - 1 /\ j \in 0 .. n - 1 /\ j - 1 < i /\ j \in 1 .. n
              BY <1>1, <1>3, <5>1
            <6>2. QED
              BY <1>2, <5>1, <6>1
          <5>2. CASE ~(j < i)
            <6>1. j - 1 \in 0 .. n - 1 /\ j \in 0 .. n - 1 /\ ~(j - 1 < i) /\ j + 1 \in 1 .. n
                  /\ (j - 1) + 1 = (j + 1) - 1
              BY <1>1, <1>3, <3>2, <5>2
            <6>2. EndOf(t, j - 1) = EndOf(p, (j - 1) + 1) /\ EndOf(t, j) = EndOf(p, j + 1)
              BY <1>2, <5>2, <6>1
            <6>3. QED
              BY <5>2, <6>1, <6>2
          <5>3. QED
            BY <5>1, <5>2
        <4> HIDE DEF q
        <4>2. SortedBut(R, s, EndOf(p, q - 1), EndOf(p, q), 0, 0)
          BY <4>1 DEF RunsSorted, n
        <4>3. q - 1 \in 0 .. n /\ q \in 0 .. n
          BY <1>1, <4>1
        <4>4. EndOf(p, q - 1) \in Nat /\ EndOf(p, q) \in Nat
          BY <1>1, <4>3 DEF n
        <4> DEFINE u == EndOf(p, q - 1)
                   v == EndOf(p, q)
        <4> HIDE DEF u, v
        <4>5. \A w \in u + 1 .. v : ~(w <= 0)
          BY <4>4 DEF u, v
        <4>6. SortedBut(R, s, u, v, c, d)
          BY <4>2, <4>5 DEF SortedBut, u, v
        <4>7. QED
          BY <4>1, <4>6 DEF u, v
      <3>3. QED
        BY <3>1, <3>2
    <2>2. QED
      BY <1>2, <2>1 DEF RunsSorted
  <1>8. QED
    BY <1>5, <1>6, <1>7

\* a and b are sorted neighbours, which begin at l.
Beside(P, R, l, a, b) ==
    /\ a \in Seq(Item) /\ b \in Seq(Item) /\ Len(a) # 0 /\ Len(b) # 0
    /\ l \in Nat /\ l + Len(a) + Len(b) <= Len(slice)
    /\ a = SubSeq(slice, l + 1, l + Len(a))
    /\ b = SubSeq(slice, l + Len(a) + 1, l + Len(a) + Len(b))
    /\ Sorted(R, a) /\ Sorted(R, b) /\ Leads(P, ToSet(a), ToSet(b))

\* The merge of a and b, which begin at l, as it starts: the places found are
\* k and n, and the first move is made.
Started(l, a, b, k, n) ==
    LET dir == IF Len(a) - k <= n THEN "lo" ELSE "hi"
        m == [dir |-> dir, base |-> l + k, a |-> Drop(a, k), b |-> Take(b, n),
              out |-> << >>, mode |-> "single", acount |-> 0, bcount |-> 0]
    IN  IF dir = "lo" THEN MoveB(m, 1) ELSE MoveA(m, 1)

\* k and n are the places of the other's end in a and in b, and the merge has
\* something to do.
Starts(P, R, l, a, b, k, n) ==
    /\ Beside(P, R, l, a, b)
    /\ Belongs(R, b[1], a, k) /\ k # Len(a)
    /\ Belongs(R, Last(a), b, n) /\ n # 0

\* A merge starts with what is between the places that were found.
LEMMA StartSorted ==
    ASSUME slice \in Seq(Item), NEW P, NEW R, Transitive(R), NEW l, NEW a, NEW b,
           NEW k, NEW n, Starts(P, R, l, a, b, k, n)
    PROVE  LET o == Started(l, a, b, k, n)
           IN  /\ MergeFits(o, slice) /\ MergeSorted(P, R, o)
               /\ o.base = l + k /\ o.base + Total(o) = l + Len(a) + n
  <1> DEFINE x == Len(a)
             y == Len(b)
  <1>0. /\ l \in Nat /\ x \in Nat \ {0} /\ y \in Nat \ {0} /\ l + x + y <= Len(slice)
        /\ a = SubSeq(slice, l + 1, l + x)
        /\ b = SubSeq(slice, l + x + 1, l + x + y)
        /\ a \in Seq(Item) /\ b \in Seq(Item) /\ Len(a) = x /\ Len(b) = y
        /\ Sorted(R, a) /\ Sorted(R, b) /\ Leads(P, ToSet(a), ToSet(b))
        /\ k \in 0 .. x /\ n \in 0 .. y /\ k # x /\ n # 0
    BY LenProperties DEF Starts, Beside, Belongs
  <1> HIDE DEF x, y
  <1> DEFINE dir == IF Len(a) - k <= n THEN "lo" ELSE "hi"
             m == Opening(slice, l, x, y, k, n, dir)
             c == Drop(a, k)
             d == Take(b, n)
             o == Started(l, a, b, k, n)
  <1>1. dir \in {"lo", "hi"}
    OBVIOUS
  <1>3. o = IF dir = "lo" THEN MoveB(m, 1) ELSE MoveA(m, 1)
    <2>1. m = [dir |-> dir, base |-> l + k, a |-> c, b |-> d,
               out |-> << >>, mode |-> "single", acount |-> 0, bcount |-> 0]
      <3> HIDE DEF dir
      <3>1. SubSeq(slice, l + 1, l + x) = a /\ SubSeq(slice, l + x + 1, l + x + y) = b
        BY <1>0
      <3>2. QED
        BY <3>1, Zenon DEF Opening
    <2> HIDE DEF m
    <2>2. QED
      BY <2>1, Zenon DEF Started
  <1> HIDE DEF dir, o
  <1>2. m.dir = dir /\ m.base = l + k /\ m.a = c /\ m.b = d /\ m.out = << >>
    BY <1>0 DEF Opening
  <1>4. MergeFits(m, slice) /\ m \in Merge /\ Len(m.a) = x - k /\ Len(m.b) = n
    <2>1. Neighbours(slice, l, x, y)
      BY <1>0 DEF Neighbours
    <2>2. Opened(m, slice, x - k, n)
      BY <1>0, <1>1, <2>1, MergeBegins
    <2> HIDE DEF m
    <2>3. QED
      BY <2>2 DEF Opened, MergeFits
  <1>5. MergeSorted(P, R, m)
    <2> HIDE DEF m, c, d
    <2>1. m.a = Drop(a, k) /\ m.b = Take(b, n) /\ m.out = << >>
      BY <1>2 DEF c, d
    <2>2. /\ a \in Seq(Item) /\ b \in Seq(Item) /\ Sorted(R, a) /\ Sorted(R, b)
          /\ Leads(P, ToSet(a), ToSet(b))
      BY <1>0
    <2>3. Belongs(R, b[1], a, k) /\ Belongs(R, Last(a), b, n)
      BY DEF Starts
    <2>4. QED
      BY <2>1, <2>2, <2>3, OpeningSorted
  <1>6. Total(m) = (x - k) + n /\ l + k + Total(m) = l + x + n
    <2>1. Len(m.out) = 0
      BY <1>2
    <2>2. Total(m) = (x - k) + n + 0
      BY <1>4, <2>1 DEF Total
    <2>3. QED
      BY <1>0, <2>2
  <1> HIDE DEF m
  <1>11. 1 <= Len(m.a) /\ 1 <= Len(m.b) /\ Len(m.a) # 0 /\ Len(m.b) # 0
         /\ 1 \in 0 .. Len(m.a) /\ 1 \in 0 .. Len(m.b)
    BY <1>0, <1>4
  <1>12. Last(m.a) = Last(a) /\ m.b[1] = b[1]
    <2>1. m.a # << >> /\ m.b # << >>
      BY <1>4, <1>11, MergeLengths
    <2>2. k \in 0 .. Len(a) /\ n \in 0 .. Len(b)
      BY <1>0
    <2>3. c # << >> => Last(c) = Last(a)
      BY <1>0, <2>2, EndsOfParts
    <2>4. d # << >> => d[1] = b[1]
      BY <1>0, <2>2, EndsOfParts
    <2>5. QED
      BY <1>2, <2>1, <2>3, <2>4
  <1>13. Leads(R, {b[1]}, ToSet(c)) /\ Leads(R, ToSet(d), {Last(a)})
    BY DEF Starts, Belongs
  <1> HIDE DEF c, d
  <1>14. /\ m.dir = "lo" => NextIsB(R, m)
         /\ m.dir = "hi" => NextIsA(R, m)
    BY <1>2, <1>12, <1>13 DEF NextIsA, NextIsB
  <1>15. /\ m.dir = "lo" \/ m.dir = "hi"
         /\ o = IF m.dir = "lo" THEN MoveB(m, 1) ELSE MoveA(m, 1)
    BY <1>1, <1>2, <1>3
  <1>16. MergeSorted(P, R, o)
    <2>1. /\ NextIsA(R, m) => MergeSorted(P, R, MoveA(m, 1))
          /\ NextIsB(R, m) => MergeSorted(P, R, MoveB(m, 1))
      BY <1>4, <1>5, <1>11, NextMoves
    <2>2. CASE m.dir = "lo"
      <3>1. NextIsB(R, m) /\ o = MoveB(m, 1)
        BY <1>14, <1>15, <2>2
      <3>2. QED
        BY <2>1, <3>1
    <2>3. CASE m.dir = "hi"
      <3>1. NextIsA(R, m) /\ o = MoveA(m, 1)
        BY <1>14, <1>15, <2>3
      <3>2. QED
        BY <2>1, <3>1
    <2>4. QED
      BY <1>15, <2>2, <2>3
  <1>17. o \in Merge /\ o.base = m.base /\ Total(o) = Total(m) /\ Items(o) = Items(m)
    <2>1. CASE m.dir = "lo"
      BY <1>4, <1>11, <1>15, <2>1, MoveBIs
    <2>2. CASE m.dir # "lo"
      BY <1>4, <1>11, <1>15, <2>2, MoveAIs
    <2>3. QED
      BY <2>1, <2>2
  <1>19. MergeFits(o, slice)
    BY <1>4, <1>17, FitsStill
  <1>20. o.base = l + k /\ o.base + Total(o) = l + x + n
    BY <1>2, <1>6, <1>17
  <1>21. QED
    <2>1. l + x + n = l + Len(a) + n
      BY <1>0
    <2>2. QED
      BY <1>16, <1>19, <1>20, <2>1 DEF o

LEMMA MergeAtOrders ==
    ASSUME SortInv, OrderInv, MergeAt
    PROVE  OrderInv'
  <1> DEFINE i == MergePlace
             p == pending[i]
             q == pending[i + 1]
             a == SubSeq(slice, p.base + 1, p.base + p.len)
             b == SubSeq(slice, q.base + 1, q.base + q.len)
             f == GallopRight(b[1], a, 0)
             g == GallopLeft(Last(a), b, Len(b) - 1)
             t == Take(pending, i - 1) \o <<[pending[i] EXCEPT !.len = @ + pending[i + 1].len]>>
                  \o Drop(pending, i + 1)
  <1>1. /\ MergePlace # 0
        /\ UNCHANGED <<input, ordered, reverse, shown, touched, run, minGallop, stage>>
        /\ pending' = t
        /\ \E k \in Found(f, Len(a)) :
              IF k = Len(a) THEN UNCHANGED <<slice, merge>>
              ELSE \E n \in Found(g, Len(b)) : StartMerge(p.base, a, b, k, n)
    BY DEF MergeAt
  <1>2. /\ stage \in {"collapse", "force"} /\ merge = NoMerge
        /\ i \in 1 .. Len(pending) - 1
    BY <1>1, MergePlaceIs
  <1>3. ASSUME ordered
        PROVE  IF f = Len(a) THEN UNCHANGED <<slice, merge>> ELSE StartMerge(p.base, a, b, f, g)
    <2> HIDE DEF f, g, p, a, b, i, t
    <2>1. Found(f, Len(a)) = {f} /\ Found(g, Len(b)) = {g}
      BY <1>3 DEF Found
    <2>2. QED
      BY <1>1, <2>1
  <1>4. Joins(pending, i, t) /\ Adjacent(t) /\ End(t) = End(pending)
    <2> HIDE DEF i
    <2>1. /\ t \in Seq(Slice) /\ Adjacent(t) /\ End(t) = End(pending)
          /\ Len(t) = Len(pending) - 1
          /\ \A j \in 0 .. Len(pending) - 1 :
                EndOf(t, j) = IF j < i THEN EndOf(pending, j) ELSE EndOf(pending, j + 1)
      BY <1>2, Facts, StackMerged
    <2> HIDE DEF t
    <2>2. QED
      BY <2>1 DEF Joins
  <1> HIDE DEF t
  <1>5. pending' \in Seq(Slice) /\ Adjacent(pending') /\ lo' = lo
    <2>1. t \in Seq(Slice) /\ Adjacent(t) /\ End(t) = End(pending) /\ pending' = t
      BY <1>1, <1>4 DEF Joins
    <2>2. QED
      BY <2>1 DEF lo
  <1>6. Len(pending) \in Nat /\ i \in 1 .. Len(pending) /\ i + 1 \in 1 .. Len(pending)
        /\ (i + 1) - 1 = i /\ i + 1 \in 0 .. Len(pending) /\ i \in 0 .. Len(pending)
    <2> HIDE DEF i
    <2>1. Len(pending) \in Nat
      BY Facts, LenProperties
    <2>2. QED
      BY <1>2, <2>1
  <1> HIDE DEF i
  <1>7. /\ p.base \in Nat /\ p.len \in Nat \ {0} /\ q.len \in Nat \ {0}
        /\ q.base = p.base + p.len
        /\ p.base + p.len + q.len <= Len(slice)
        /\ EndOf(pending, i - 1) = p.base /\ EndOf(pending, i) = p.base + p.len
        /\ EndOf(pending, i + 1) = p.base + p.len + q.len
    <2>1. /\ p.base \in Nat /\ p.len \in Nat \ {0} /\ p.base = EndOf(pending, i - 1)
          /\ EndOf(pending, i) = EndOf(pending, i - 1) + p.len
      BY <1>6, Facts, StackIs
    <2>2. /\ q.len \in Nat \ {0} /\ q.base = EndOf(pending, i)
          /\ EndOf(pending, i + 1) = EndOf(pending, i) + q.len
      BY <1>6, Facts, StackIs
    <2>3. EndOf(pending, i + 1) <= lo
      BY <1>6, Facts, StackIs DEF lo
    <2>4. lo <= Len(slice) /\ lo \in Nat /\ Len(slice) \in Nat
      BY Facts
    <2> DEFINE x == p.base
               y == p.len
               z == q.len
               e == EndOf(pending, i + 1)
               w == Len(slice)
    <2>5. x \in Nat /\ y \in Nat /\ z \in Nat /\ e = x + y + z /\ e <= lo /\ lo <= w
          /\ lo \in Nat /\ w \in Nat
      BY <2>1, <2>2, <2>3, <2>4
    <2>6. q.base = x + y /\ EndOf(pending, i) = x + y
      BY <2>1, <2>2
    <2> HIDE DEF x, y, z, e, w
    <2>7. x + y + z <= w
      BY <2>5
    <2>8. QED
      BY <2>1, <2>2, <2>5, <2>6, <2>7 DEF x, y, z, e, w
  <1> DEFINE l == p.base
             x == p.len
             y == q.len
  <1>8. /\ l \in Nat /\ x \in Nat \ {0} /\ y \in Nat \ {0} /\ l + x + y <= Len(slice)
        /\ EndOf(pending, i - 1) = l /\ EndOf(pending, i) = l + x
        /\ EndOf(pending, i + 1) = l + x + y /\ q.base = l + x
    BY <1>7
  <1>9. a = SubSeq(slice, l + 1, l + x) /\ b = SubSeq(slice, l + x + 1, l + x + y)
    BY <1>8
  <1>10. ordered => IF f = Len(a) THEN UNCHANGED <<slice, merge>> ELSE StartMerge(l, a, b, f, g)
    BY <1>3
  <1> HIDE DEF l, x, y, p, q, a, b, f, g
  <1>11. /\ slice \in Seq(Item) /\ Len(slice) \in Nat
         /\ l \in 0 .. Len(slice) /\ l + x \in l .. Len(slice)
         /\ l + x \in 0 .. Len(slice) /\ l + x + y \in l + x .. Len(slice)
         /\ (l + x) - l = x /\ (l + x + y) - (l + x) = y
    BY <1>8, Facts
  <1>12. a \in Seq(Item) /\ Len(a) = x /\ \A j \in 1 .. x : slice[l + j] = a[j]
    <2>1. a \in Seq(Item) /\ Len(a) = (l + x) - l /\ \A j \in 1 .. (l + x) - l : a[j] = slice[l + j]
      BY <1>9, <1>11, PartIs
    <2>2. QED
      BY <1>11, <2>1
  <1>13. b \in Seq(Item) /\ Len(b) = y /\ \A j \in 1 .. y : slice[l + x + j] = b[j]
    <2>1. /\ b \in Seq(Item) /\ Len(b) = (l + x + y) - (l + x)
          /\ \A j \in 1 .. (l + x + y) - (l + x) : b[j] = slice[(l + x) + j]
      BY <1>9, <1>11, PartIs
    <2>2. QED
      BY <1>11, <2>1
  <1>14. ASSUME ordered
         PROVE  /\ Unmixed(Prior, slice, pending', 0)
                /\ \/ UNCHANGED <<slice, merge>> /\ merge = NoMerge
                      /\ RunsSorted(Before, slice, pending', 0, 0)
                   \/ \E m : /\ MergeFits(m, slice) /\ Continue(m)
                             /\ MergeInOrder(Prior, Before, m, slice, pending')
    <2>1. /\ Arranged /\ Unmixed(Prior, slice, pending, 0)
          /\ pending \in Seq(Slice) /\ Adjacent(pending)
      BY <1>2, <1>14, WhileMerging
    <2>2. RunsSorted(Before, slice, pending, 0, 0)
      BY <1>2, <2>1 DEF Arranged
    <2>3. /\ Unmixed(Prior, slice, t, 0)
          /\ \A c, d : /\ l <= c /\ d <= l + x + y => InOneRun(t, c, d)
                       /\ SortedBut(Before, slice, l, l + x + y, c, d)
                             => RunsSorted(Before, slice, t, c, d)
      BY <1>2, <1>4, <1>8, <2>1, <2>2, JoinedRuns
    <2>4. /\ SortedBut(Before, slice, l, l + x, 0, 0)
          /\ SortedBut(Before, slice, l + x, l + x + y, 0, 0)
      <3>1. SortedBut(Before, slice, EndOf(pending, i - 1), EndOf(pending, i), 0, 0)
        BY <1>6, <2>2 DEF RunsSorted
      <3>2. SortedBut(Before, slice, EndOf(pending, (i + 1) - 1), EndOf(pending, i + 1), 0, 0)
        BY <1>6, <2>2 DEF RunsSorted
      <3>3. QED
        BY <1>6, <1>8, <3>1, <3>2
    <2>5. Sorted(Before, a)
      <3>1. Len(a) = (l + x) - l /\ \A j \in 1 .. (l + x) - l : slice[l + j] = a[j]
        BY <1>11, <1>12
      <3>2. QED
        BY <1>11, <1>12, <2>4, <3>1, PartSorted
    <2>6. Sorted(Before, b)
      <3>1. /\ Len(b) = (l + x + y) - (l + x)
            /\ \A j \in 1 .. (l + x + y) - (l + x) : slice[(l + x) + j] = b[j]
        BY <1>11, <1>13
      <3>2. QED
        BY <1>11, <1>13, <2>4, <3>1, PartSorted
    <2>7. Leads(Prior, ToSet(a), ToSet(b))
      <3>1. Split(Prior, slice, l + x)
        BY <1>6, <1>8, <2>1 DEF Unmixed
      <3>2. ToSet(a) = Segment(slice, l, l + x) /\ ToSet(b) = Segment(slice, l + x, l + x + y)
        BY <1>9, <1>11, PartSet
      <3>3. /\ Segment(slice, l, l + x) \subseteq Segment(slice, 0, l + x)
            /\ Segment(slice, l + x, l + x + y) \subseteq Segment(slice, l + x, Len(slice))
        <4>1. /\ \A j \in l + 1 .. l + x : j \in 0 + 1 .. l + x
              /\ \A j \in l + x + 1 .. l + x + y : j \in l + x + 1 .. Len(slice)
          BY <1>8, <1>11
        <4>2. QED
          BY <4>1 DEF Segment
      <3>4. QED
        BY <3>1, <3>2, <3>3 DEF Split, Leads
    <2>8. Transitive(Before) /\ Decides(Prior, Before) /\ Len(a) # 0 /\ Len(b) # 0
      BY <1>8, <1>12, <1>13, OrderIs
    <2>0. Beside(Prior, Before, l, a, b)
      BY <1>8, <1>9, <1>12, <1>13, <2>5, <2>6, <2>7 DEF Beside
    <2>9. Belongs(Before, b[1], a, f) /\ f \in 0 .. x
      <3>1. b[1] \in Item /\ b[1] \in ToSet(b)
        BY <1>13, <2>6, <2>8, LeadsFirst
      <3>2. Leads(Prior, ToSet(a), {b[1]})
        BY <2>7, <3>1 DEF Leads
      <3>3. 0 \in 0 .. Len(a) - 1
        BY <1>8, <1>12
      <3>4. Belongs(Before, b[1], a, f)
        BY <1>12, <2>5, <2>8, <3>1, <3>2, <3>3, SearchesFind DEF f
      <3>5. QED
        BY <1>12, <3>4 DEF Belongs
    <2>10. Belongs(Before, Last(a), b, g) /\ g \in 0 .. y
      <3>1. Last(a) \in Item /\ Last(a) \in ToSet(a)
        BY <1>12, <2>5, <2>8, LeadsLast
      <3>2. Leads(Prior, {Last(a)}, ToSet(b))
        BY <2>7, <3>1 DEF Leads
      <3>3. Len(b) - 1 \in 0 .. Len(b) - 1
        BY <1>8, <1>13
      <3>4. Belongs(Before, Last(a), b, g)
        BY <1>13, <2>6, <2>8, <3>1, <3>2, <3>3, SearchesFind DEF g
      <3>5. QED
        BY <1>13, <3>4 DEF Belongs
    <2>11. /\ \A u \in 1 .. f, v \in 1 .. y : <<a[u], b[v]>> \in Before
           /\ \A u \in 1 .. x, v \in g + 1 .. y : <<a[u], b[v]>> \in Before
      BY <1>12, <1>13, <2>5, <2>6, <2>8, <2>9, <2>10, Crossing
    <2>12. ASSUME NEW c, NEW d,
                  \A u \in 1 .. x, v \in 1 .. y :
                     u \in 1 .. f \/ v \in g + 1 .. y \/ (c < l + u /\ l + x + v <= d)
           PROVE  RunsSorted(Before, slice, t, c, d)
      <3>1. \A u \in 1 .. x, v \in 1 .. y :
               <<slice[l + u], slice[l + x + v]>> \in Before \/ (c < l + u /\ l + x + v <= d)
        BY <1>12, <1>13, <2>11, <2>12
      <3>2. SortedBut(Before, slice, l, l + x + y, c, d)
        BY <1>8, <2>4, <3>1, HoleSorted
      <3>3. QED
        BY <2>3, <3>2
    <2>13. CASE f = x \/ g = 0
      <3>1. UNCHANGED <<slice, merge>>
        <4>1. CASE f = Len(a)
          BY <1>10, <1>14, <4>1
        <4>2. CASE f # Len(a)
          <5>1. StartMerge(l, a, b, f, g)
            BY <1>10, <1>14, <4>2
          <5>2. f = Len(a) \/ g = 0
            BY <1>12, <2>13
          <5>3. QED
            BY <5>1, <5>2 DEF StartMerge
        <4>3. QED
          BY <4>1, <4>2
      <3>2. \A u \in 1 .. x, v \in 1 .. y : u \in 1 .. f \/ v \in g + 1 .. y
        BY <1>8, <2>9, <2>10, <2>13
      <3>3. RunsSorted(Before, slice, t, 0, 0)
        BY <2>12, <3>2
      <3>4. QED
        BY <1>1, <1>2, <2>3, <3>1, <3>3
    <2>14. CASE ~(f = x \/ g = 0)
      <3>1. StartMerge(l, a, b, f, g)
        BY <1>10, <1>12, <1>14, <2>14
      <3>2. PICK m : /\ MergeFits(m, slice) /\ Continue(m) /\ MergeSorted(Prior, Before, m)
                     /\ m.base = l + f /\ m.base + Total(m) = l + x + g
        <4>1. f # Len(a) /\ g # 0
          BY <1>12, <2>14
        <4>2. PICK m : m = Started(l, a, b, f, g)
          OBVIOUS
        <4>3. /\ MergeFits(m, slice) /\ MergeSorted(Prior, Before, m)
              /\ m.base = l + f /\ m.base + Total(m) = l + Len(a) + g
          <5>1. Starts(Prior, Before, l, a, b, f, g)
            BY <2>0, <2>9, <2>10, <4>1 DEF Starts
          <5>2. QED
            BY <1>11, <2>8, <4>2, <5>1, StartSorted
        <4>4. Continue(m)
          BY <3>1, <4>1, <4>2 DEF StartMerge, Started
        <4>5. l + Len(a) + g = l + x + g
          BY <1>12
        <4>6. QED
          BY <4>3, <4>4, <4>5
      <3> DEFINE c == l + f
                 d == l + x + g
      <3>3. c \in Nat /\ d \in Nat /\ l <= c /\ d <= l + x + y
        BY <1>8, <2>9, <2>10
      <3>4. \A u \in 1 .. x, v \in 1 .. y :
               u \in 1 .. f \/ v \in g + 1 .. y \/ (c < l + u /\ l + x + v <= d)
        BY <1>8, <2>9, <2>10
      <3> HIDE DEF c, d
      <3>5. InOneRun(t, c, d) /\ RunsSorted(Before, slice, t, c, d)
        BY <2>3, <2>12, <3>3, <3>4
      <3>6. MergeInOrder(Prior, Before, m, slice, t)
        BY <3>2, <3>5 DEF MergeInOrder, c, d
      <3>7. QED
        BY <1>1, <2>3, <3>2, <3>6
    <2>15. QED
      BY <2>13, <2>14
  <1>15. QED
    BY <1>1, <1>2, <1>5, <1>14, MergeStepOrders

-----------------------------------------------------------------------------
(* "An adaptive, stable, natural mergesort" (listobject.c:2114): when      *)
(* comparisons order the keys and none raises, list.sort returns with the  *)
(* keys in order, and with equal ones in the order that they had; in the   *)
(* opposite order of keys if it was called with reverse.                   *)
THEOREM SortIsStable == SortSpec => []SortedStable
  <1>1. SortInit => OrderInv
    BY InitOrders
  <1>2. SortInv /\ OrderInv /\ [SortNext]_sortVars => OrderInv'
    <2> SUFFICES ASSUME SortInv, OrderInv, [SortNext]_sortVars PROVE OrderInv'
      OBVIOUS
    <2>1. CASE Begin
      BY <2>1, BeginOrders
    <2>2. CASE NextRun
      BY <2>2, NextRunOrders
    <2>3. CASE InsertNext
      BY <2>3, InsertOrders
    <2>4. CASE Push
      BY <2>4, PushOrders
    <2>5. CASE EndCollapse
      BY <2>5, EndCollapseOrders
    <2>6. CASE MergeAt
      BY <2>6, MergeAtOrders
    <2>7. CASE Straight
      BY <2>7, StraightOrders
    <2>8. CASE GallopA
      BY <2>8, GallopAOrders
    <2>9. CASE GallopB
      BY <2>9, GallopBOrders
    <2>10. CASE Raise
      BY <2>10, RaiseOrders
    <2>11. CASE Touch
      BY <2>11, TouchOrders
    <2>12. CASE Finish
      BY <2>12, FinishOrders
    <2>13. CASE UNCHANGED sortVars
      BY <2>13, StutterOrders
    <2>14. QED
      BY <2>1, <2>2, <2>3, <2>4, <2>5, <2>6, <2>7, <2>8, <2>9, <2>10, <2>11, <2>12, <2>13
         DEF SortNext
  <1>3. OrderInv => SortedStable
    BY DEF OrderInv, SortedStable
  <1>4. QED
    BY <1>1, <1>2, <1>3, InvariantHolds, PTL DEF SortSpec

=============================================================================
