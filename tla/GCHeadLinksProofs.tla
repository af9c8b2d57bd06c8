------------------------- MODULE GCHeadLinksProofs -------------------------
(***************************************************************************)
(* For any objects, any referents and a stack of any size, and calls that  *)
(* overlap in any way: the exploration stack is exact, every call ends     *)
(* with all tracked objects explored, the comparison before finalization   *)
(* delays it exactly when it must, the links follow the objects except for *)
(* what they are known to have missed, and the comparison repairs them.    *)
(***************************************************************************)
EXTENDS GCHeadLinks, SequenceTheorems, TLAPS

-----------------------------------------------------------------------------
(* The exploration stack: pushing, popping and removing act on it as on a  *)
(* set, for blocks of any size and any number of them (gcmodule.c          *)
(* 104-212).                                                               *)

(* Every object is on the stack at most once.                              *)
Distinct ==
    /\ IsInjective(base)
    /\ \A j \in DOMAIN overflow :
          /\ IsInjective(overflow[j])
          /\ Range(overflow[j]) \cap Range(base) = {}
          /\ \A k \in DOMAIN overflow \ {j} : Range(overflow[j]) \cap Range(overflow[k]) = {}

StackInv == StackTypeOK /\ Distinct

-----------------------------------------------------------------------------
(* One block.                                                              *)

LEMMA AppendBlock ==
    ASSUME NEW S, NEW b \in Seq(S), NEW e \in S
    PROVE  /\ Append(b, e) \in Seq(S)
           /\ Range(Append(b, e)) = Range(b) \cup {e}
           /\ (IsInjective(b) /\ e \notin Range(b)) => IsInjective(Append(b, e))
<1> DEFINE a == Append(b, e)
<1>1. Len(b) \in Nat /\ DOMAIN b = 1 .. Len(b)  BY LenProperties
<1>2. /\ a \in Seq(S) /\ Len(a) = Len(b) + 1
      /\ \A i \in 1 .. Len(b) : a[i] = b[i]
      /\ a[Len(b) + 1] = e
  BY AppendProperties
<1> HIDE DEF a
<1>3. DOMAIN a = 1 .. Len(b) + 1  BY <1>1, <1>2, LenProperties
<1>4. \A i \in DOMAIN a : i \in DOMAIN b \/ i = Len(b) + 1  BY <1>1, <1>3
<1>5. DOMAIN b \subseteq DOMAIN a /\ Len(b) + 1 \in DOMAIN a  BY <1>1, <1>3
<1>6. Range(a) = Range(b) \cup {e}
  BY <1>1, <1>2, <1>4, <1>5 DEF Range
<1>7. ASSUME IsInjective(b), e \notin Range(b)
      PROVE  IsInjective(a)
  BY <1>1, <1>2, <1>4, <1>7 DEF IsInjective, Range
<1> QED  BY <1>2, <1>6, <1>7 DEF a

LEMMA FrontBlock ==
    ASSUME NEW S, NEW b \in Seq(S), b # <<>>
    PROVE  /\ Front(b) \in Seq(S)
           /\ Len(Front(b)) = Len(b) - 1
           /\ \A i \in 1 .. Len(b) - 1 : Front(b)[i] = b[i]
           /\ Last(b) \in Range(b) /\ Last(b) \in S
           /\ Len(b) = 1 => Range(b) = {Last(b)}
           /\ IsInjective(b) => IsInjective(Front(b))
           /\ IsInjective(b) => Range(Front(b)) = Range(b) \ {Last(b)}
<1> DEFINE f == Front(b)
<1> DEFINE n == Len(b)
<1>1. n \in Nat \ {0} /\ DOMAIN b = 1 .. n  BY EmptySeq, LenProperties
<1>2. \A i \in 1 .. n - 1 : b[i] \in S  BY <1>1, ElementOfSeq
<1>3. f \in Seq(S) /\ Len(f) = n - 1 /\ \A i \in 1 .. n - 1 : f[i] = b[i]
  BY <1>1, <1>2, SubSeqProperties DEF Front
<1> HIDE DEF f
<1>4. DOMAIN f = 1 .. n - 1  BY <1>3, LenProperties
<1>5. Last(b) = b[n]  BY DEF Last
<1>6. \A i \in DOMAIN b : i \in DOMAIN f \/ i = n  BY <1>1, <1>4
<1>7. DOMAIN f \subseteq DOMAIN b /\ n \in DOMAIN b /\ n \notin DOMAIN f
  BY <1>1, <1>4
<1>8. b[n] \in S  BY <1>1, ElementOfSeq
<1>9. Last(b) \in Range(b)  BY <1>5, <1>7 DEF Range
<1>10. n = 1 => DOMAIN b = {n}  BY <1>1
<1>11. n = 1 => Range(b) = {Last(b)}  BY <1>5, <1>10 DEF Range
<1>12. \A i \in DOMAIN f : f[i] = b[i]  BY <1>3, <1>4
<1> HIDE DEF n
<1>13. IsInjective(b) => IsInjective(f)
  BY <1>7, <1>12 DEF IsInjective
<1>14. IsInjective(b) => Range(f) = Range(b) \ {Last(b)}
  BY <1>5, <1>6, <1>7, <1>12 DEF IsInjective, Range
<1> QED  BY <1>3, <1>5, <1>8, <1>9, <1>11, <1>13, <1>14 DEF f, n

LEMMA WithoutBlock ==
    ASSUME NEW S, NEW b \in Seq(S), NEW e, IsInjective(b)
    PROVE  /\ Without(b, e) \in Seq(S)
           /\ IsInjective(Without(b, e))
           /\ Range(Without(b, e)) = Range(b) \ {e}
<1>1. CASE e \notin Range(b)
  BY <1>1 DEF Without
<1>2. CASE e \in Range(b)
  <2> DEFINE i == CHOOSE j \in DOMAIN b : b[j] = e
             c == [b EXCEPT ![i] = Last(b)]
             f == Front(c)
             n == Len(b)
  <2>1. i \in DOMAIN b /\ b[i] = e  BY <1>2 DEF Range
  <2> HIDE DEF i
  <2>2. n \in Nat /\ DOMAIN b = 1 .. n  BY LenProperties
  <2>3. b # <<>> /\ n \in 1 .. n  BY <2>1, <2>2, EmptySeq
  <2>4. Last(b) = b[n] /\ Last(b) \in S  BY <2>3, FrontBlock DEF Last
  <2>4a. \A j \in 1 .. n - 1 : j \in DOMAIN b /\ n \in DOMAIN b /\ j # n
    <3> HIDE DEF n
    <3> QED  BY <2>2, <2>3
  <2>5. /\ c \in Seq(S) /\ Len(c) = n
        /\ \A j \in 1 .. n : c[j] = IF j = i THEN b[n] ELSE b[j]
    BY <2>1, <2>2, <2>4, ExceptSeq
  <2> HIDE DEF c
  <2>6. c # <<>>  BY <2>2, <2>3, <2>5, EmptySeq
  <2>7. f \in Seq(S) /\ Len(f) = n - 1 /\ \A j \in 1 .. n - 1 : f[j] = c[j]
    <3>1. c \in Seq(S) /\ c # <<>> /\ Len(c) = n  BY <2>5, <2>6
    <3>2. /\ f \in Seq(S) /\ Len(f) = Len(c) - 1
          /\ \A j \in 1 .. Len(c) - 1 : f[j] = c[j]
      BY <3>1, FrontBlock
    <3> HIDE DEF f, n
    <3> QED  BY <3>1, <3>2
  <2> HIDE DEF f
  <2>8. DOMAIN f = 1 .. n - 1  BY <2>7, LenProperties
  <2>9. \A j \in 1 .. n - 1 : f[j] = IF j = i THEN b[n] ELSE b[j]
    <3> HIDE DEF n
    <3>1. \A j \in 1 .. n - 1 : j \in 1 .. n  BY <2>2
    <3>2. QED  BY <2>5, <2>7, <3>1
  <2>10. IsInjective(f)
    <3> SUFFICES ASSUME NEW j \in 1 .. n - 1, NEW k \in 1 .. n - 1, f[j] = f[k]
                 PROVE  j = k
      BY <2>8 DEF IsInjective
    <3>1. j \in DOMAIN b /\ k \in DOMAIN b /\ n \in DOMAIN b /\ j # n /\ k # n
      BY <2>4a
    <3> QED  BY <2>9, <3>1 DEF IsInjective
  <2>11. Range(f) \subseteq Range(b) \ {e}
    <3> SUFFICES ASSUME NEW j \in 1 .. n - 1
                 PROVE  f[j] \in Range(b) /\ f[j] # e
      BY <2>8 DEF Range
    <3>1. j \in DOMAIN b /\ n \in DOMAIN b /\ j # n  BY <2>4a
    <3>2. f[j] = b[n] \/ (j # i /\ f[j] = b[j])  BY <2>9
    <3>3. f[j] = b[n] => i # n
      <4> SUFFICES ASSUME f[j] = b[n], i = n PROVE FALSE  OBVIOUS
      <4>1. f[j] = b[j]  BY <2>9, <3>1
      <4> QED  BY <3>1, <4>1 DEF IsInjective
    <3> HIDE DEF n
    <3> QED  BY <2>1, <3>1, <3>2, <3>3 DEF Range, IsInjective
  <2>12. Range(b) \ {e} \subseteq Range(f)
    <3> SUFFICES ASSUME NEW j \in DOMAIN b, b[j] # e
                 PROVE  \E k \in DOMAIN f : f[k] = b[j]
      BY DEF Range
    <3>1. CASE j = n
      <4>1. i \in 1 .. n - 1  BY <2>1, <2>2, <3>1
      <4> QED  BY <2>8, <2>9, <3>1, <4>1
    <3>2. CASE j # n
      <4>1. j \in 1 .. n - 1 /\ j # i  BY <2>1, <2>2, <3>2
      <4> QED  BY <2>8, <2>9, <4>1
    <3> QED  BY <3>1, <3>2
  <2>13. Without(b, e) = f  BY <1>2 DEF Without, i, c, f
  <2> QED  BY <2>7, <2>10, <2>11, <2>12, <2>13
<1> QED  BY <1>1, <1>2
-----------------------------------------------------------------------------
(* The list of blocks.                                                     *)

LEMMA BlocksAre ==
    ASSUME StackTypeOK
    PROVE  /\ Len(overflow) \in Nat /\ DOMAIN overflow = 1 .. Len(overflow)
           /\ \A j \in DOMAIN overflow : overflow[j] \in Seq(Objects)
           /\ overflow # <<>> => 1 \in DOMAIN overflow /\ Head(overflow) = overflow[1]
           /\ overflow = <<>> => DOMAIN overflow = {}
<1>1. overflow \in Seq(Seq(Objects))  BY DEF StackTypeOK
<1>2. Len(overflow) \in Nat /\ DOMAIN overflow = 1 .. Len(overflow)
  BY <1>1, LenProperties
<1>3. \A j \in DOMAIN overflow : overflow[j] \in Seq(Objects)
  BY <1>1, <1>2, ElementOfSeq
<1>4. overflow # <<>> => 1 \in DOMAIN overflow  BY <1>1, <1>2, EmptySeq
<1>5. overflow # <<>> => Head(overflow) = overflow[1]  BY <1>1
<1>6. overflow = <<>> => DOMAIN overflow = {}  BY <1>2, EmptySeq
<1> QED  BY <1>2, <1>3, <1>4, <1>5, <1>6

LEMMA ReplaceTop ==
    ASSUME NEW S, NEW t \in Seq(S), t # <<>>, NEW e \in S
    PROVE  /\ <<e>> \o Tail(t) \in Seq(S)
           /\ DOMAIN (<<e>> \o Tail(t)) = DOMAIN t
           /\ 1 \in DOMAIN t
           /\ \A j \in DOMAIN t : (<<e>> \o Tail(t))[j] = IF j = 1 THEN e ELSE t[j]
<1> DEFINE u == Tail(t)
           h == <<e>>
           r == h \o u
           n == Len(t)
<1>1. n \in Nat \ {0} /\ DOMAIN t = 1 .. n  BY EmptySeq, LenProperties
<1>2. /\ u \in Seq(S) /\ Len(u) = n - 1
      /\ \A i \in 1 .. n - 1 : u[i] = t[i + 1]
  BY HeadTailProperties
<1>3. h \in Seq(S) /\ Len(h) = 1 /\ h[1] = e  OBVIOUS
<1> HIDE DEF u, h
<1>4. /\ r \in Seq(S) /\ Len(r) = 1 + (n - 1)
      /\ \A i \in 1 .. 1 + (n - 1) : r[i] = IF i <= 1 THEN h[i] ELSE u[i - 1]
  <2>1. /\ r \in Seq(S) /\ Len(r) = Len(h) + Len(u)
        /\ \A i \in 1 .. Len(h) + Len(u) :
              r[i] = IF i <= Len(h) THEN h[i] ELSE u[i - Len(h)]
    <3>1. h \in Seq(S) /\ u \in Seq(S)  BY <1>2, <1>3
    <3> QED  BY ONLY <3>1, ConcatProperties DEF r
  <2> HIDE DEF r, n
  <2> QED  BY <1>2, <1>3, <2>1
<1> HIDE DEF r, n
<1>5. DOMAIN r = 1 .. n  BY <1>1, <1>4, LenProperties
<1>6. ASSUME NEW j \in 1 .. n PROVE r[j] = IF j = 1 THEN e ELSE t[j]
  <2>1. CASE j = 1  BY <1>1, <1>3, <1>4, <2>1
  <2>2. CASE j # 1
    <3>1. j - 1 \in 1 .. n - 1 /\ ~(j <= 1) /\ (j - 1) + 1 = j  BY <1>1, <2>2
    <3>2. r[j] = u[j - 1]  BY <1>1, <1>4, <3>1
    <3>3. u[j - 1] = t[j]  BY <1>2, <3>1
    <3> QED  BY <2>2, <3>2, <3>3
  <2> QED  BY <2>1, <2>2
<1> QED  BY <1>1, <1>4, <1>5, <1>6 DEF r, u, h, n

LEMMA AddTop ==
    ASSUME NEW S, NEW t \in Seq(S), NEW e \in S
    PROVE  /\ <<e>> \o t \in Seq(S)
           /\ DOMAIN (<<e>> \o t) = 1 .. Len(t) + 1
           /\ (<<e>> \o t)[1] = e
           /\ \A j \in 2 .. Len(t) + 1 : j - 1 \in DOMAIN t /\ (<<e>> \o t)[j] = t[j - 1]
           /\ \A j \in DOMAIN t : j + 1 \in 2 .. Len(t) + 1 /\ (<<e>> \o t)[j + 1] = t[j]
<1> DEFINE h == <<e>>
           r == h \o t
           n == Len(t)
<1>1. n \in Nat /\ DOMAIN t = 1 .. n  BY LenProperties
<1>2. h \in Seq(S) /\ Len(h) = 1 /\ h[1] = e  OBVIOUS
<1> HIDE DEF h
<1>3. /\ r \in Seq(S) /\ Len(r) = 1 + n
      /\ \A i \in 1 .. 1 + n : r[i] = IF i <= 1 THEN h[i] ELSE t[i - 1]
  <2>1. /\ r \in Seq(S) /\ Len(r) = Len(h) + Len(t)
        /\ \A i \in 1 .. Len(h) + Len(t) :
              r[i] = IF i <= Len(h) THEN h[i] ELSE t[i - Len(h)]
    BY <1>2, ConcatProperties
  <2> HIDE DEF r
  <2> QED  BY <1>2, <2>1
<1> HIDE DEF r, n
<1>4. DOMAIN r = 1 .. n + 1  BY <1>1, <1>3, LenProperties
<1>5. r[1] = e  BY <1>1, <1>2, <1>3
<1>6. \A j \in 2 .. n + 1 : j - 1 \in DOMAIN t /\ r[j] = t[j - 1]
  BY <1>1, <1>3
<1>7. \A j \in DOMAIN t : j + 1 \in 2 .. n + 1 /\ (j + 1) - 1 = j
  BY <1>1
<1>8. \A j \in DOMAIN t : j + 1 \in 2 .. n + 1 /\ r[j + 1] = t[j]
  BY <1>6, <1>7
<1> QED  BY <1>3, <1>4, <1>5, <1>6, <1>8 DEF r, h, n

LEMMA DropTop ==
    ASSUME NEW S, NEW t \in Seq(S), t # <<>>
    PROVE  /\ Tail(t) \in Seq(S)
           /\ 1 \in DOMAIN t
           /\ \A j \in DOMAIN Tail(t) : j + 1 \in DOMAIN t \ {1} /\ Tail(t)[j] = t[j + 1]
           /\ \A j \in DOMAIN t \ {1} : j - 1 \in DOMAIN Tail(t) /\ Tail(t)[j - 1] = t[j]
<1> DEFINE u == Tail(t)
           n == Len(t)
<1>1. n \in Nat \ {0} /\ DOMAIN t = 1 .. n  BY EmptySeq, LenProperties
<1>2. /\ u \in Seq(S) /\ Len(u) = n - 1
      /\ \A i \in 1 .. n - 1 : u[i] = t[i + 1]
  BY HeadTailProperties
<1> HIDE DEF u
<1>3. DOMAIN u = 1 .. n - 1  BY <1>2, LenProperties
<1>4. \A j \in 1 .. n - 1 : j + 1 \in (1 .. n) \ {1}  BY <1>1
<1>5. \A j \in (1 .. n) \ {1} : j - 1 \in 1 .. n - 1 /\ (j - 1) + 1 = j  BY <1>1
<1> QED  BY <1>1, <1>2, <1>3, <1>4, <1>5 DEF u

-----------------------------------------------------------------------------
LEMMA OnStack ==
    /\ \A z : z \in Content <=>
          \/ z \in Range(base)
          \/ \E k \in DOMAIN overflow : z \in Range(overflow[k])
    /\ \A z : z \in Content' <=>
          \/ z \in Range(base')
          \/ \E k \in DOMAIN overflow' : z \in Range(overflow'[k])
BY DEF Content

(* One block changes, by one object that is in no other block.             *)
LEMMA OneBlockChanges ==
    ASSUME StackInv, NEW i \in DOMAIN overflow, NEW o, NEW top,
           UNCHANGED base, DOMAIN overflow' = DOMAIN overflow, overflow'[i] = top,
           \A j \in DOMAIN overflow \ {i} : overflow'[j] = overflow[j],
           IsInjective(top), Range(top) \subseteq Range(overflow[i]) \cup {o},
           o \notin Range(base),
           \A j \in DOMAIN overflow \ {i} : o \notin Range(overflow[j])
    PROVE  Distinct'
<1>1. ASSUME NEW j \in DOMAIN overflow
      PROVE  /\ IsInjective(overflow'[j])
             /\ Range(overflow'[j]) \cap Range(base) = {}
             /\ \A k \in DOMAIN overflow \ {j} : Range(overflow'[j]) \cap Range(overflow'[k]) = {}
  <2>1. /\ IsInjective(overflow[j])
        /\ Range(overflow[j]) \cap Range(base) = {}
        /\ \A k \in DOMAIN overflow \ {j} : Range(overflow[j]) \cap Range(overflow[k]) = {}
    BY DEF StackInv, Distinct
  <2>2. CASE j = i
    <3>1. ASSUME NEW k \in DOMAIN overflow \ {j}
          PROVE  Range(overflow'[j]) \cap Range(overflow'[k]) = {}
      <4>1. overflow'[k] = overflow[k] /\ o \notin Range(overflow[k])  BY <2>2
      <4>2. overflow'[j] = top  BY <2>2
      <4> QED  BY <2>1, <2>2, <4>1, <4>2
    <3> QED  BY <2>1, <2>2, <3>1
  <2>3. CASE j # i
    <3>1. overflow'[j] = overflow[j] /\ o \notin Range(overflow[j])  BY <2>3
    <3>2. ASSUME NEW k \in DOMAIN overflow \ {j}
          PROVE  Range(overflow'[j]) \cap Range(overflow'[k]) = {}
      <4>1. CASE k = i
        <5>1. Range(overflow[j]) \cap Range(overflow[i]) = {}  BY <2>1, <2>3
        <5> QED  BY <3>1, <4>1, <5>1
      <4>2. CASE k # i
        BY <2>1, <3>1, <4>2
      <4> QED  BY <4>1, <4>2
    <3> QED  BY <2>1, <3>1, <3>2
  <2> QED  BY <2>2, <2>3
<1>2. IsInjective(base')  BY DEF StackInv, Distinct
<1> QED  BY <1>1, <1>2 DEF Distinct

(* A push adds the object, whichever block takes it.                       *)
LEMMA PushAdds ==
    ASSUME StackInv, NEW o \in Objects, o \notin Content, PushExStack(o)
    PROVE  StackInv' /\ Content' = Content \cup {o}
<1>1. base \in Seq(Objects) /\ overflow \in Seq(Seq(Objects)) /\ wild \in BOOLEAN
  BY DEF StackInv, StackTypeOK
<1>2. o \notin Range(base) /\ \A j \in DOMAIN overflow : o \notin Range(overflow[j])
  BY DEF Content
<1>3. CASE PushOnBase(o)
  <2>1. base' = Append(base, o) /\ overflow' = overflow /\ wild' = wild
    BY <1>3 DEF PushOnBase
  <2>2. /\ base' \in Seq(Objects) /\ Range(base') = Range(base) \cup {o}
        /\ IsInjective(base')
    BY <1>1, <1>2, <2>1, AppendBlock DEF StackInv, Distinct
  <2>3. StackTypeOK'  BY <1>1, <2>1, <2>2 DEF StackTypeOK
  <2>4. Distinct'  BY <1>2, <2>1, <2>2 DEF StackInv, Distinct
  <2>5. Content' = Content \cup {o}  BY <2>1, <2>2 DEF Content
  <2> QED  BY <2>3, <2>4, <2>5 DEF StackInv
<1>4. CASE PushOnTop(o)
  <2> DEFINE top == Append(overflow[1], o)
  <2>1. overflow # <<>> /\ 1 \in DOMAIN overflow /\ Head(overflow) = overflow[1]
    BY <1>4, BlocksAre DEF PushOnTop, StackInv
  <2>2. overflow[1] \in Seq(Objects)
    BY <2>1, BlocksAre DEF StackInv
  <2>3. overflow' = <<top>> \o Tail(overflow) /\ base' = base /\ wild' = wild
    BY <1>4, <2>1 DEF PushOnTop
  <2>4. /\ top \in Seq(Objects) /\ Range(top) = Range(overflow[1]) \cup {o}
        /\ IsInjective(top)
    BY <1>2, <2>1, <2>2, AppendBlock DEF StackInv, Distinct
  <2> HIDE DEF top
  <2>5. /\ overflow' \in Seq(Seq(Objects)) /\ DOMAIN overflow' = DOMAIN overflow
        /\ \A j \in DOMAIN overflow :
              overflow'[j] = IF j = 1 THEN top ELSE overflow[j]
    <3> DEFINE S == Seq(Objects)
               t == <<top>> \o Tail(overflow)
    <3>1. overflow \in Seq(S) /\ top \in S  BY <1>1, <2>4
    <3> HIDE DEF S
    <3>2. /\ t \in Seq(S) /\ DOMAIN t = DOMAIN overflow
          /\ \A j \in DOMAIN overflow : t[j] = IF j = 1 THEN top ELSE overflow[j]
      BY <2>1, <3>1, ReplaceTop
    <3> QED  BY <2>3, <3>2 DEF S
  <2>6. StackTypeOK'  BY <1>1, <2>3, <2>5 DEF StackTypeOK
  <2>5a. overflow'[1] = top /\ \A j \in DOMAIN overflow \ {1} : overflow'[j] = overflow[j]
    BY <2>1, <2>5
  <2>7. Distinct'
    BY <1>2, <2>1, <2>3, <2>4, <2>5, <2>5a, OneBlockChanges
  <2>8. Content' = Content \cup {o}
    <3>1. ASSUME NEW z \in Content' PROVE z \in Content \cup {o}
      <4>1. CASE z \in Range(base)  BY <4>1, OnStack
      <4>2. CASE \E k \in DOMAIN overflow : z \in Range(overflow'[k])
        <5>1. PICK k \in DOMAIN overflow : z \in Range(overflow'[k])  BY <4>2
        <5>2. z \in Range(overflow[k]) \cup {o}  BY <2>4, <2>5a, <5>1
        <5> QED  BY <5>2, OnStack
      <4> QED  BY <2>3, <2>5, <3>1, <4>1, <4>2, OnStack
    <3>2. o \in Content'  BY <2>1, <2>4, <2>5, <2>5a, OnStack
    <3>3. ASSUME NEW z \in Content PROVE z \in Content'
      <4>1. CASE z \in Range(base)  BY <2>3, <4>1, OnStack
      <4>2. CASE \E k \in DOMAIN overflow : z \in Range(overflow[k])
        <5>1. PICK k \in DOMAIN overflow : z \in Range(overflow[k])  BY <4>2
        <5>2. z \in Range(overflow'[k])  BY <2>4, <2>5a, <5>1
        <5> QED  BY <2>5, <5>2, OnStack
      <4> QED  BY <3>3, <4>1, <4>2, OnStack
    <3> QED  BY <3>1, <3>2, <3>3
  <2> QED  BY <2>6, <2>7, <2>8 DEF StackInv
<1>5. CASE PushOnNewBlock(o)
  <2> DEFINE top == <<o>>
             n == Len(overflow)
  <2>1. overflow' = <<top>> \o overflow /\ base' = base /\ wild' = wild
    BY <1>5 DEF PushOnNewBlock
  <2>2. top \in Seq(Objects) /\ DOMAIN top = {1} /\ top[1] = o  OBVIOUS
  <2> HIDE DEF top
  <2>3. Range(top) = {o} /\ IsInjective(top)
    BY <2>2 DEF Range, IsInjective
  <2>4. /\ overflow' \in Seq(Seq(Objects)) /\ DOMAIN overflow' = 1 .. n + 1
        /\ overflow'[1] = top
        /\ \A j \in 2 .. n + 1 : j - 1 \in DOMAIN overflow /\ overflow'[j] = overflow[j - 1]
        /\ \A j \in DOMAIN overflow : j + 1 \in 2 .. n + 1 /\ overflow'[j + 1] = overflow[j]
    BY <1>1, <2>1, <2>2, AddTop
  <2>5. n \in Nat  BY <1>1, LenProperties
  <2>6. \A j \in 1 .. n + 1 : j = 1 \/ j \in 2 .. n + 1  BY <2>5
  <2>7. \A j, k \in 2 .. n + 1 : j # k => j - 1 # k - 1  BY <2>5
  <2>8. 1 \in 1 .. n + 1 /\ \A j \in 2 .. n + 1 : j \in 1 .. n + 1  BY <2>5
  <2>9. StackTypeOK'  BY <1>1, <2>1, <2>4 DEF StackTypeOK
  <2>10. Content' = Content \cup {o}
    <3>1. ASSUME NEW z \in Content' PROVE z \in Content \cup {o}
      BY <2>1, <2>3, <2>4, <2>6, <3>1 DEF Content
    <3>2. o \in Content'  BY <2>3, <2>4, <2>8 DEF Content
    <3>3. ASSUME NEW z \in Content PROVE z \in Content'
      <4>1. CASE z \in Range(base)  BY <2>1, <4>1, OnStack
      <4>2. CASE \E k \in DOMAIN overflow : z \in Range(overflow[k])
        <5>1. PICK k \in DOMAIN overflow : z \in Range(overflow[k])  BY <4>2
        <5>2. k + 1 \in DOMAIN overflow' /\ overflow'[k + 1] = overflow[k]
          BY <2>4, <2>8, <5>1
        <5> QED  BY <5>1, <5>2, OnStack
      <4> QED  BY <3>3, <4>1, <4>2, OnStack
    <3> QED  BY <3>1, <3>2, <3>3
  <2>11. ASSUME NEW j \in 1 .. n + 1
         PROVE  /\ IsInjective(overflow'[j])
                /\ Range(overflow'[j]) \cap Range(base) = {}
                /\ \A k \in (1 .. n + 1) \ {j} : Range(overflow'[j]) \cap Range(overflow'[k]) = {}
    <3>1. CASE j = 1
      BY <1>2, <2>3, <2>4, <2>6, <3>1
    <3>2. CASE j \in 2 .. n + 1
      <4>1. j - 1 \in DOMAIN overflow /\ overflow'[j] = overflow[j - 1]
        BY <2>4, <3>2
      <4>2. /\ IsInjective(overflow[j - 1])
            /\ Range(overflow[j - 1]) \cap Range(base) = {}
            /\ \A k \in DOMAIN overflow \ {j - 1} :
                  Range(overflow[j - 1]) \cap Range(overflow[k]) = {}
        BY <4>1 DEF StackInv, Distinct
      <4>3. ASSUME NEW k \in (1 .. n + 1) \ {j}
            PROVE  Range(overflow'[j]) \cap Range(overflow'[k]) = {}
        <5>1. CASE k = 1
          BY <1>2, <2>3, <2>4, <4>1, <5>1
        <5>2. CASE k \in 2 .. n + 1
          <6>1. /\ k - 1 \in DOMAIN overflow /\ overflow'[k] = overflow[k - 1]
                /\ k - 1 # j - 1
            BY <2>4, <2>7, <3>2, <4>3, <5>2
          <6> QED  BY <4>1, <4>2, <6>1
        <5> QED  BY <2>6, <5>1, <5>2
      <4> QED  BY <4>1, <4>2, <4>3
    <3> QED  BY <2>6, <3>1, <3>2
  <2>12. Distinct'
    BY <2>1, <2>4, <2>11 DEF StackInv, Distinct
  <2> QED  BY <2>9, <2>10, <2>12 DEF StackInv
<1> QED  BY <1>3, <1>4, <1>5 DEF PushExStack

(* Taking an object out of the stack, wherever it is, removes only it.     *)
LEMMA RemoveRemoves ==
    ASSUME StackInv, NEW o, RemoveObjectExStack(o)
    PROVE  StackInv' /\ Content' = Content \ {o}
<1>1. base \in Seq(Objects) /\ overflow \in Seq(Seq(Objects)) /\ wild \in BOOLEAN
  BY DEF StackInv, StackTypeOK
<1>2. /\ base' = Without(base, o) /\ wild' = wild
      /\ overflow' = [k \in DOMAIN overflow |-> Without(overflow[k], o)]
  BY DEF RemoveObjectExStack
<1>3. /\ base' \in Seq(Objects) /\ IsInjective(base')
      /\ Range(base') = Range(base) \ {o}
  BY <1>1, <1>2, WithoutBlock DEF StackInv, Distinct
<1>4. \A j \in DOMAIN overflow :
         /\ Without(overflow[j], o) \in Seq(Objects)
         /\ IsInjective(Without(overflow[j], o))
         /\ Range(Without(overflow[j], o)) = Range(overflow[j]) \ {o}
  BY BlocksAre, WithoutBlock DEF StackInv, Distinct
<1>5. DOMAIN overflow = 1 .. Len(overflow) /\ Len(overflow) \in Nat
  BY <1>1, LenProperties
<1>6. /\ DOMAIN overflow' = DOMAIN overflow
      /\ \A j \in DOMAIN overflow : /\ overflow'[j] = Without(overflow[j], o)
                                   /\ overflow'[j] \in Seq(Objects)
  BY <1>2, <1>4
<1>7. overflow' \in [1 .. Len(overflow) -> Seq(Objects)]
  BY <1>2, <1>4, <1>5
<1>8. overflow' \in Seq(Seq(Objects))
  BY <1>5, <1>7, SeqDef
<1>9. StackTypeOK'  BY <1>1, <1>2, <1>3, <1>8 DEF StackTypeOK
<1>10. Distinct'
  BY <1>3, <1>4, <1>6 DEF StackInv, Distinct
<1>11. Content' = Content \ {o}
  BY <1>3, <1>4, <1>6 DEF Content
<1> QED  BY <1>9, <1>10, <1>11 DEF StackInv

(* A pop takes one object from the stack.                                  *)
LEMMA PopTakes ==
    ASSUME StackInv, NEW o, PopExStack(o)
    PROVE  StackInv' /\ o \in Content /\ Content' = Content \ {o}
<1>1. base \in Seq(Objects) /\ overflow \in Seq(Seq(Objects)) /\ wild \in BOOLEAN
  BY DEF StackInv, StackTypeOK
<1>2. wild' = wild  BY DEF PopExStack
<1>3. CASE /\ overflow = <<>> /\ base # <<>> /\ o = Last(base)
           /\ base' = Front(base) /\ UNCHANGED overflow
  <2>1. /\ base' \in Seq(Objects) /\ IsInjective(base') /\ o \in Range(base)
        /\ Range(base') = Range(base) \ {o}
    BY <1>1, <1>3, FrontBlock DEF StackInv, Distinct
  <2>2. DOMAIN overflow = {}  BY <1>3, BlocksAre DEF StackInv
  <2>3. StackTypeOK'  BY <1>1, <1>2, <1>3, <2>1 DEF StackTypeOK
  <2>4. Distinct'  BY <1>3, <2>1, <2>2 DEF Distinct
  <2>5. o \in Content /\ Content' = Content \ {o}
    BY <1>3, <2>1, <2>2 DEF Content
  <2> QED  BY <2>3, <2>4, <2>5 DEF StackInv
<1>4. CASE /\ overflow # <<>> /\ Head(overflow) # <<>> /\ o = Last(Head(overflow))
           /\ overflow' = IF Len(Head(overflow)) > 1
                          THEN <<Front(Head(overflow))>> \o Tail(overflow)
                          ELSE Tail(overflow)
           /\ UNCHANGED base
  <2>1. 1 \in DOMAIN overflow /\ Head(overflow) = overflow[1] /\ overflow[1] \in Seq(Objects)
    BY <1>4, BlocksAre DEF StackInv
  <2> DEFINE top == Front(overflow[1])
  <2>2. /\ top \in Seq(Objects) /\ IsInjective(top) /\ o \in Range(overflow[1])
        /\ Range(top) = Range(overflow[1]) \ {o}
        /\ Len(overflow[1]) = 1 => Range(overflow[1]) = {o}
    BY <1>4, <2>1, FrontBlock DEF StackInv, Distinct
  <2> HIDE DEF top
  <2>3. o \in Content  BY <2>1, <2>2 DEF Content
  <2>4. /\ o \notin Range(base)
        /\ \A j \in DOMAIN overflow \ {1} : o \notin Range(overflow[j])
    BY <2>1, <2>2 DEF StackInv, Distinct
  <2>5. CASE Len(overflow[1]) > 1
    <3>1. overflow' = <<top>> \o Tail(overflow)
      BY <1>4, <2>1, <2>5 DEF top
    <3>2. /\ overflow' \in Seq(Seq(Objects)) /\ DOMAIN overflow' = DOMAIN overflow
          /\ \A j \in DOMAIN overflow :
                overflow'[j] = IF j = 1 THEN top ELSE overflow[j]
      <4> DEFINE S == Seq(Objects)
                 t == <<top>> \o Tail(overflow)
      <4>1. overflow \in Seq(S) /\ top \in S /\ overflow # <<>>  BY <1>1, <1>4, <2>2
      <4> HIDE DEF S
      <4>2. /\ t \in Seq(S) /\ DOMAIN t = DOMAIN overflow
            /\ \A j \in DOMAIN overflow : t[j] = IF j = 1 THEN top ELSE overflow[j]
        BY <4>1, ReplaceTop
      <4> QED  BY <3>1, <4>2 DEF S
    <3>3. StackTypeOK'  BY <1>1, <1>2, <1>4, <3>2 DEF StackTypeOK
    <3>2a. overflow'[1] = top /\ \A j \in DOMAIN overflow \ {1} : overflow'[j] = overflow[j]
      BY <2>1, <3>2
    <3>4. Distinct'
      BY <1>4, <2>1, <2>2, <2>4, <3>2, <3>2a, OneBlockChanges
    <3>5. Content' = Content \ {o}
      <4>1. ASSUME NEW z \in Content' PROVE z \in Content /\ z # o
        <5>1. CASE z \in Range(base)  BY <2>4, <5>1, OnStack
        <5>2. CASE \E k \in DOMAIN overflow : z \in Range(overflow'[k])
          <6>1. PICK k \in DOMAIN overflow : z \in Range(overflow'[k])  BY <5>2
          <6>2. z \in Range(overflow[k]) /\ z # o
            BY <2>2, <2>4, <3>2a, <6>1
          <6> QED  BY <6>2, OnStack
        <5> QED  BY <1>4, <3>2, <4>1, <5>1, <5>2, OnStack
      <4>2. ASSUME NEW z \in Content, z # o PROVE z \in Content'
        <5>1. CASE z \in Range(base)  BY <1>4, <5>1, OnStack
        <5>2. CASE \E k \in DOMAIN overflow : z \in Range(overflow[k])
          <6>1. PICK k \in DOMAIN overflow : z \in Range(overflow[k])  BY <5>2
          <6>2. z \in Range(overflow'[k])  BY <2>2, <3>2a, <4>2, <6>1
          <6> QED  BY <3>2, <6>2, OnStack
        <5> QED  BY <4>2, <5>1, <5>2, OnStack
      <4> QED  BY <4>1, <4>2
    <3> QED  BY <2>3, <3>3, <3>4, <3>5 DEF StackInv
  <2>6. CASE ~(Len(overflow[1]) > 1)
    <3>1. overflow' = Tail(overflow)  BY <1>4, <2>1, <2>6
    <3>2. /\ overflow' \in Seq(Seq(Objects))
          /\ \A j \in DOMAIN overflow' :
                j + 1 \in DOMAIN overflow \ {1} /\ overflow'[j] = overflow[j + 1]
          /\ \A j \in DOMAIN overflow \ {1} :
                j - 1 \in DOMAIN overflow' /\ overflow'[j - 1] = overflow[j]
      BY <1>1, <1>4, <3>1, DropTop
    <3>3. Len(overflow[1]) \in Nat \ {0}  BY <1>4, <2>1, EmptySeq
    <3>3a. Len(overflow[1]) = 1
      <4>1. \A n \in Nat \ {0} : ~(n > 1) => n = 1  OBVIOUS
      <4> QED  BY <2>6, <3>3, <4>1
    <3>4. Range(overflow[1]) = {o}  BY <1>4, <2>1, <2>2, <3>3a
    <3>5. StackTypeOK'  BY <1>1, <1>2, <1>4, <3>2 DEF StackTypeOK
    <3>6. Content' = Content \ {o}
      <4>1. ASSUME NEW z \in Content' PROVE z \in Content /\ z # o
        <5>1. CASE z \in Range(base)  BY <2>4, <5>1, OnStack
        <5>2. CASE \E k \in DOMAIN overflow' : z \in Range(overflow'[k])
          <6>1. PICK k \in DOMAIN overflow' : z \in Range(overflow'[k])  BY <5>2
          <6>2. k + 1 \in DOMAIN overflow \ {1} /\ overflow'[k] = overflow[k + 1]
            BY <3>2, <6>1
          <6> QED  BY <2>4, <6>1, <6>2, OnStack
        <5> QED  BY <1>4, <4>1, <5>1, <5>2, OnStack
      <4>2. ASSUME NEW z \in Content, z # o PROVE z \in Content'
        <5>1. CASE z \in Range(base)  BY <1>4, <5>1, OnStack
        <5>2. CASE \E k \in DOMAIN overflow : z \in Range(overflow[k])
          <6>1. PICK k \in DOMAIN overflow : z \in Range(overflow[k])  BY <5>2
          <6>2. k # 1  BY <3>4, <4>2, <6>1
          <6>3. k - 1 \in DOMAIN overflow' /\ overflow'[k - 1] = overflow[k]
            BY <3>2, <6>1, <6>2
          <6> QED  BY <6>1, <6>3, OnStack
        <5> QED  BY <4>2, <5>1, <5>2, OnStack
      <4> QED  BY <4>1, <4>2
    <3>7. DOMAIN overflow' \subseteq Nat
      BY <3>2, LenProperties
    <3>8. \A j, k \in DOMAIN overflow' : j # k => j + 1 # k + 1
      BY <3>7
    <3>9. Distinct'
      <4>1. ASSUME NEW j \in DOMAIN overflow'
            PROVE  /\ IsInjective(overflow'[j])
                   /\ Range(overflow'[j]) \cap Range(base) = {}
                   /\ \A k \in DOMAIN overflow' \ {j} :
                         Range(overflow'[j]) \cap Range(overflow'[k]) = {}
        BY <3>2, <3>8 DEF StackInv, Distinct
      <4>2. IsInjective(base')  BY <1>4 DEF StackInv, Distinct
      <4> QED  BY <1>4, <4>1, <4>2 DEF Distinct
    <3> QED  BY <2>3, <3>5, <3>6, <3>9 DEF StackInv
  <2> QED  BY <2>5, <2>6
<1> QED  BY <1>3, <1>4 DEF PopExStack

LEMMA EmptyHoldsNothing ==
    ASSUME StackInv, IsExStackEmpty
    PROVE  Content = {}
<1>1. DOMAIN overflow = {}  BY BlocksAre DEF IsExStackEmpty, StackInv
<1>2. Range(base) = {}
  <2>1. base \in Seq(Objects)  BY DEF StackInv, StackTypeOK
  <2>2. Len(base) = 0  BY EmptySeq DEF IsExStackEmpty
  <2>3. DOMAIN base = {}  BY <2>1, <2>2, LenProperties
  <2> QED  BY <2>3 DEF Range
<1> QED  BY <1>1, <1>2 DEF Content

-----------------------------------------------------------------------------
(* Heads and links.                                                        *)

Slots == Referents \cup {Null}

-----------------------------------------------------------------------------
(* Sequences.                                                              *)

LEMMA PrefixAt ==
    ASSUME NEW S, NEW s \in Seq(S), NEW t \in Seq(S)
    PROVE  IsPrefix(s, t) <=> /\ Len(s) <= Len(t)
                              /\ \A j \in 1 .. Len(s) : s[j] = t[j]
<1>1. Len(s) \in Nat /\ Len(t) \in Nat  BY LenProperties
<1>2. SUFFICES ASSUME Len(s) <= Len(t)
               PROVE  SubSeq(s, 1, Len(s)) = SubSeq(t, 1, Len(s))
                          <=> \A j \in 1 .. Len(s) : s[j] = t[j]
  BY DEF IsPrefix
<1> DEFINE p == SubSeq(s, 1, Len(s))
           q == SubSeq(t, 1, Len(s))
<1>3. \A j \in 1 .. Len(s) : s[j] \in S /\ t[j] \in S
  BY <1>1, <1>2, ElementOfSeq
<1>4. p \in Seq(S) /\ Len(p) = Len(s) /\ \A j \in 1 .. Len(s) : p[j] = s[j]
  BY <1>1, <1>3, SubSeqProperties
<1>5. q \in Seq(S) /\ Len(q) = Len(s) /\ \A j \in 1 .. Len(s) : q[j] = t[j]
  BY <1>1, <1>3, SubSeqProperties
<1> HIDE DEF p, q
<1>6. p = q <=> \A j \in 1 .. Len(s) : p[j] = q[j]  BY <1>4, <1>5, SeqEqual
<1>7. p = q <=> \A j \in 1 .. Len(s) : s[j] = t[j]  BY <1>4, <1>5, <1>6
<1> QED  BY <1>7 DEF p, q

LEMMA FirstOf ==
    ASSUME NEW S, NEW s \in Seq(S), NEW n \in 0 .. Len(s)
    PROVE  /\ SubSeq(s, 1, n) \in Seq(S)
           /\ Len(SubSeq(s, 1, n)) = n
           /\ \A j \in 1 .. n : SubSeq(s, 1, n)[j] = s[j]
<1>1. Len(s) \in Nat  BY LenProperties
<1>2. \A j \in 1 .. n : s[j] \in S  BY <1>1, ElementOfSeq
<1> QED  BY <1>1, <1>2, SubSeqProperties

LEMMA AllOf ==
    ASSUME NEW S, NEW s \in Seq(S)
    PROVE  SubSeq(s, 1, Len(s)) = s
BY SubSeqFull

LEMMA SlotChanged ==
    ASSUME NEW S, NEW s \in Seq(S), NEW i \in DOMAIN s, NEW e \in S
    PROVE  /\ [s EXCEPT ![i] = e] \in Seq(S)
           /\ Len([s EXCEPT ![i] = e]) = Len(s)
           /\ \A j \in 1 .. Len(s) : [s EXCEPT ![i] = e][j] = IF j = i THEN e ELSE s[j]
BY LenProperties, ExceptSeq

LEMMA SlotInserted ==
    ASSUME NEW S, NEW s \in Seq(S), NEW i \in 1 .. Len(s) + 1, NEW e \in S
    PROVE  /\ InsertAt(s, i, e) \in Seq(S)
           /\ Len(InsertAt(s, i, e)) = Len(s) + 1
           /\ \A j \in 1 .. Len(s) + 1 :
                 InsertAt(s, i, e)[j] = IF j < i THEN s[j]
                                        ELSE IF j = i THEN e ELSE s[j - 1]
<1> DEFINE n == Len(s)
           p == SubSeq(s, 1, i - 1)
           q == SubSeq(s, i, n)
           r == p \o <<e>>
<1>1. n \in Nat /\ i \in Nat /\ 1 <= i /\ i <= n + 1  BY LenProperties
<1>2. \A j \in 1 .. n : s[j] \in S  BY ElementOfSeq
<1>3. p \in Seq(S) /\ Len(p) = i - 1 /\ \A j \in 1 .. i - 1 : p[j] = s[j]
  <2> HIDE DEF n
  <2>1. i - 1 \in 0 .. n  BY <1>1
  <2> QED  BY <2>1, FirstOf DEF n
<1>4. q \in Seq(S) /\ Len(q) = n - i + 1 /\ \A j \in 1 .. n - i + 1 : q[j] = s[i + j - 1]
  <2> HIDE DEF n
  <2>1. \A j \in i .. n : s[j] \in S  BY <1>1, <1>2
  <2>2. /\ q \in Seq(S) /\ Len(q) = (IF i <= n THEN n - i + 1 ELSE 0)
        /\ \A j \in 1 .. n - i + 1 : q[j] = s[i + j - 1]
    BY <1>1, <2>1, SubSeqProperties
  <2> HIDE DEF q
  <2> QED  BY <1>1, <2>2
<1>5. <<e>> \in Seq(S) /\ Len(<<e>>) = 1 /\ <<e>>[1] = e  OBVIOUS
<1> HIDE DEF p, q, n
<1>6. /\ r \in Seq(S) /\ Len(r) = i
      /\ \A j \in 1 .. i : r[j] = IF j < i THEN s[j] ELSE e
  <2>1. /\ r \in Seq(S) /\ Len(r) = Len(p) + Len(<<e>>)
        /\ \A j \in 1 .. Len(p) + Len(<<e>>) :
              r[j] = IF j <= Len(p) THEN p[j] ELSE <<e>>[j - Len(p)]
    BY <1>3, <1>5, ConcatProperties
  <2> HIDE DEF r
  <2>2. Len(r) = i  BY <1>1, <1>3, <1>5, <2>1
  <2>3. ASSUME NEW j \in 1 .. i
        PROVE  r[j] = IF j < i THEN s[j] ELSE e
    <3>1. CASE j < i
      <4>1. j \in 1 .. i - 1 /\ j \in 1 .. Len(p) + Len(<<e>>) /\ j <= Len(p)
        BY <1>1, <1>3, <1>5, <3>1
      <4>2. r[j] = p[j] /\ p[j] = s[j]  BY <1>3, <2>1, <4>1
      <4> QED  BY <3>1, <4>2
    <3>2. CASE j = i
      <4>1. j \in 1 .. Len(p) + Len(<<e>>) /\ ~(j <= Len(p)) /\ j - Len(p) = 1
        <5>1. j \in Int /\ j = i /\ Len(p) = i - 1 /\ Len(<<e>>) = 1
          BY <1>3, <1>5, <3>2
        <5> QED  BY <1>1, <5>1
      <4>2. r[j] = <<e>>[j - Len(p)]  BY <2>1, <4>1
      <4> QED  BY <1>1, <1>5, <3>2, <4>1, <4>2
    <3> QED  BY <1>1, <3>1, <3>2
  <2> QED  BY <2>1, <2>2, <2>3
<1> HIDE DEF r
<1>7. /\ r \o q \in Seq(S) /\ Len(r \o q) = n + 1
      /\ \A j \in 1 .. n + 1 : (r \o q)[j] = IF j <= i THEN r[j] ELSE q[j - i]
  <2>1. /\ r \o q \in Seq(S) /\ Len(r \o q) = Len(r) + Len(q)
        /\ \A j \in 1 .. Len(r) + Len(q) :
              (r \o q)[j] = IF j <= Len(r) THEN r[j] ELSE q[j - Len(r)]
    BY <1>4, <1>6, ConcatProperties
  <2>2. Len(r) = i /\ Len(r) + Len(q) = n + 1  BY <1>1, <1>4, <1>6
  <2> QED  BY <2>1, <2>2
<1>8. ASSUME NEW j \in 1 .. n + 1
      PROVE  (r \o q)[j] = IF j < i THEN s[j] ELSE IF j = i THEN e ELSE s[j - 1]
  <2>1. CASE j <= i
    <3>1. j \in 1 .. i  BY <1>1, <2>1
    <3>2. (r \o q)[j] = r[j]  BY <1>7, <2>1
    <3>3. r[j] = IF j < i THEN s[j] ELSE e  BY <1>6, <3>1
    <3>4. j < i \/ j = i  BY <1>1, <2>1
    <3> QED  BY <3>2, <3>3, <3>4
  <2>2. CASE j > i
    <3>1. j - i \in 1 .. n - i + 1 /\ i + (j - i) - 1 = j - 1  BY <1>1, <2>2
    <3>2. q[j - i] = s[j - 1]  BY <1>4, <3>1
    <3>3. ~(j <= i) /\ ~(j < i) /\ j # i  BY <1>1, <2>2
    <3>4. (r \o q)[j] = q[j - i]  BY <1>7, <3>3
    <3> QED  BY <3>2, <3>3, <3>4
  <2>3. j <= i \/ j > i  BY <1>1
  <2> QED  BY <2>1, <2>2, <2>3
<1>9. r \o q = InsertAt(s, i, e)  BY DEF r, p, q, n, InsertAt
<1> QED  BY <1>7, <1>8, <1>9 DEF n

(* What an insertion leaves in the links of a head.                        *)
LEMMA LinkInserted ==
    ASSUME NEW k \in Seq(Slots), NEW i \in 1 .. Len(k) + 1, NEW r \in Slots
    PROVE  /\ Len(InsertAt(k, i, r)) = Len(k) + 1
           /\ \A j \in 1 .. Len(k) + 1 :
                 InsertAt(k, i, r)[j] = IF j < i THEN k[j]
                                        ELSE IF j = i THEN r ELSE k[j - 1]
<1> DEFINE S == Slots
<1>1. k \in Seq(S) /\ r \in S  OBVIOUS
<1> HIDE DEF S
<1> QED  BY <1>1, SlotInserted

-----------------------------------------------------------------------------
(* Slots and links.                                                        *)

LEMMA VisitedSlots ==
    ASSUME NEW s \in Seq(Slots)
    PROVE  Visited(s) \in Seq(Slots) /\ OnHeap(s) \in Seq(Slots)
BY EmptySeq DEF Visited, OnHeap

LEMMA PaddedSlots ==
    ASSUME NEW s \in Seq(Slots), NEW n \in Nat
    PROVE  /\ Padded(s, n) \in Seq(Slots)
           /\ Len(s) = n => Padded(s, n) = s
<1>1. Null \in Slots  BY DEF Slots
<1>2. Len(s) \in Nat /\ \A i \in 1 .. Len(s) : s[i] \in Slots
  BY LenProperties, ElementOfSeq
<1>3. Padded(s, n) \in [1 .. n -> Slots]  BY <1>1, <1>2 DEF Padded
<1>4. Padded(s, n) \in Seq(Slots) /\ Len(Padded(s, n)) = n  BY <1>3
<1>5. ASSUME Len(s) = n  PROVE Padded(s, n) = s
  <2>1. \A i \in 1 .. n : Padded(s, n)[i] = s[i]  BY <1>5 DEF Padded
  <2> QED  BY <1>4, <1>5, <2>1, SeqEqual
<1> QED  BY <1>4, <1>5

(* JyGC_validateGCHead answers what finalization needs to know: whether a  *)
(* referent is missing among the old links.                                *)
LEMMA DelaysForNewReferents ==
    ASSUME NEW v \in Seq(Slots), NEW old \in Seq(Slots)
    PROVE  ValidateResult(v, old) <=> ~(Range(v) \subseteq Range(old))
<1>1. /\ Len(v) \in Nat /\ DOMAIN v = 1 .. Len(v)
      /\ Len(old) \in Nat /\ DOMAIN old = 1 .. Len(old)
  BY LenProperties
<1>2. ASSUME ValidateResult(v, old)
      PROVE  ~(Range(v) \subseteq Range(old))
  <2>1. PICK i \in ChangedPositions(v, old) : old = <<>> \/ v[i] \notin Range(old)
    BY <1>2 DEF ValidateResult
  <2>2. i \in DOMAIN v  BY DEF ChangedPositions
  <2>3. CASE old = <<>>
    <3>1. Len(old) = 0  BY <2>3, EmptySeq
    <3>2. Range(old) = {}  BY <1>1, <3>1 DEF Range
    <3> QED  BY <2>2, <3>2 DEF Range
  <2>4. CASE v[i] \notin Range(old)  BY <2>2, <2>4 DEF Range
  <2> QED  BY <2>1, <2>3, <2>4
<1>3. ASSUME ~(Range(v) \subseteq Range(old))
      PROVE  ValidateResult(v, old)
  <2>1. PICK i \in DOMAIN v : v[i] \notin Range(old)  BY <1>3 DEF Range
  <2>2. i > Len(old) \/ v[i] # old[i]  BY <1>1, <2>1 DEF Range
  <2>3. i \in ChangedPositions(v, old)  BY <2>2 DEF ChangedPositions
  <2> QED  BY <2>1, <2>3 DEF ValidateResult
<1> QED  BY <1>2, <1>3

LEMMA StoredSlots ==
    ASSUME HeadTypeOK, NEW o \in Objects
    PROVE  /\ Storable(o) \subseteq Referents
           /\ Contents(o) \subseteq Seq(Referents)
           /\ Seq(Referents) \subseteq Seq(Slots)
<1>1. Storable(o) \subseteq Referents
  BY HeadAssumption DEF Storable, Referents
<1>2. ASSUME NEW s \in Contents(o)  PROVE s \in Seq(Referents)
  <2>1. PICK n \in 0 .. MaxItems : s \in [1 .. n -> Storable(o)]  BY <1>2 DEF Contents
  <2>2. n \in Nat /\ s \in [1 .. n -> Referents]  BY <1>1, <2>1, HeadAssumption
  <2> QED  BY <2>2
<1>3. Seq(Referents) \subseteq Seq(Slots)  BY SeqMonotonic DEF Slots
<1> QED  BY <1>1, <1>2, <1>3

LEMMA ExploredSlots ==
    ASSUME NEW o
    PROVE  /\ items[o] \in Seq(Slots) => ExploredLinks(o) \in Seq(Slots)
           /\ (items[o] \in Seq(Slots))' => (ExploredLinks(o) \in Seq(Slots))'
<1>1. ArraySize \in Nat  BY HeadAssumption
<1>2. ASSUME items[o] \in Seq(Slots)  PROVE ExploredLinks(o) \in Seq(Slots)
  BY <1>1, <1>2, VisitedSlots, PaddedSlots DEF ExploredLinks
<1>3. ASSUME (items[o] \in Seq(Slots))'  PROVE (ExploredLinks(o) \in Seq(Slots))'
  BY <1>1, <1>3, VisitedSlots, PaddedSlots DEF ExploredLinks
<1> QED  BY <1>2, <1>3

(* What an update of the links leaves behind.                              *)
LEMMA SyncedSlots ==
    ASSUME HeadTypeOK, NEW o \in Objects, NEW s \in Seq(Slots)
    PROVE  /\ SyncedLinks(o, s) \in [Objects -> Seq(Slots)]
           /\ o \notin Singles /\ Len(s) <= Len(links[o]) =>
                 SyncedLinks(o, s) = [links EXCEPT ![o] = s]
           /\ o \notin Singles /\ Len(s) > Len(links[o]) =>
                 SyncedLinks(o, s) = [links EXCEPT ![o] = SubSeq(s, 1, Len(links[o]))]
           /\ Len(s) > Len(links[o]) => Len(links[o]) \in 0 .. Len(s)
<1> DEFINE n == Len(links[o])
           k == IF Len(s) < n THEN Len(s) ELSE n
<1>1. links \in [Objects -> Seq(Slots)]  BY DEF HeadTypeOK, Slots
<1>2. n \in Nat /\ Len(s) \in Nat  BY <1>1, LenProperties
<1>3. k \in 0 .. Len(s)  BY <1>2
<1>4. CASE o \in Singles
  <2>1. SyncedLinks(o, s) = links  BY <1>4 DEF SyncedLinks
  <2> QED  BY <1>1, <1>2, <1>4, <2>1
<1>5. CASE o \notin Singles
  <2>1. SyncedLinks(o, s) = [links EXCEPT ![o] = SubSeq(s, 1, k)]
    BY <1>5 DEF SyncedLinks
  <2> HIDE DEF k
  <2>2. SubSeq(s, 1, k) \in Seq(Slots)  BY <1>3, FirstOf
  <2>3. ASSUME Len(s) <= n  PROVE k = Len(s)  BY <1>2, <2>3 DEF k
  <2>4. ASSUME Len(s) > n  PROVE k = n /\ n \in 0 .. Len(s)  BY <1>2, <2>4 DEF k
  <2>5. SubSeq(s, 1, Len(s)) = s  BY AllOf
  <2> QED  BY <1>1, <2>1, <2>2, <2>3, <2>4, <2>5
<1> QED  BY <1>4, <1>5

LEMMA SetSlots ==
    ASSUME HeadTypeOK, NEW o \in Objects, NEW i, NEW r \in Slots
    PROVE  SetLink(o, i, r) \in [Objects -> Seq(Slots)]
<1>1. links \in [Objects -> Seq(Slots)]  BY DEF HeadTypeOK, Slots
<1>2. CASE i \in DOMAIN links[o]
  <2>1. [links[o] EXCEPT ![i] = r] \in Seq(Slots)  BY <1>1, <1>2, SlotChanged
  <2>2. SetLink(o, i, r) = [links EXCEPT ![o] = [links[o] EXCEPT ![i] = r]]
    BY <1>1, <1>2 DEF SetLink
  <2> QED  BY <1>1, <2>1, <2>2
<1> QED  BY <1>1, <1>2 DEF SetLink

-----------------------------------------------------------------------------
(* The stack.                                                              *)

(* An object that is being converted is tracked.                           *)
HeadInv == HeadTypeOK /\ StackSound /\ \A o \in converting : Tracked(o)

LEMMA HeadInvStack == HeadInv => StackInv
BY DEF HeadInv, HeadTypeOK, StackSound, StackInv, Distinct

LEMMA StackHoldsObjects == StackInv => Content \subseteq Objects
<1> SUFFICES ASSUME StackInv, NEW z \in Content  PROVE z \in Objects
  OBVIOUS
<1>1. base \in Seq(Objects) /\ \A j \in DOMAIN overflow : overflow[j] \in Seq(Objects)
  BY BlocksAre DEF StackInv, StackTypeOK
<1> QED  BY <1>1, OnStack, RangeOfSeq

LEMMA SoundStack ==
    ASSUME StackInv',
           \A o \in Content' : gcrefs'[o] \in {"reachable", "explored"},
           \A o \in Objects : gcrefs'[o] = "reachable" => o \in Content'
    PROVE  StackSound'
BY DEF StackInv, Distinct, StackSound, Tracked

LEMMA QuietStack ==
    ASSUME HeadInv, UNCHANGED <<base, overflow, wild>>
    PROVE  StackInv' /\ Content' = Content
<1>1. StackInv  BY HeadInvStack
<1>2. StackInv'  BY <1>1 DEF StackInv, StackTypeOK, Distinct
<1>3. Content' = Content  BY DEF Content
<1> QED  BY <1>2, <1>3

(* The stack keeps exactly the objects that are still to be explored,      *)
(* together with explored ones.                                            *)
LEMMA StackKept ==
    ASSUME HeadInv, HeadNext
    PROVE  StackInv' /\ StackSound' /\ gcrefs' \in [Objects -> GcRefs]
<1>1. StackInv  BY HeadInvStack
<1>2. gcrefs \in [Objects -> GcRefs]  BY DEF HeadInv, HeadTypeOK
<1>3. /\ \A o \in Content : gcrefs[o] \in {"reachable", "explored"}
      /\ \A o \in Objects : gcrefs[o] = "reachable" => o \in Content
  BY DEF HeadInv, StackSound, Tracked
<1>4. CASE UNCHANGED stackVars /\ UNCHANGED gcrefs
  <2>1. StackInv' /\ Content' = Content  BY <1>4, QuietStack DEF stackVars
  <2> QED  BY <1>2, <1>3, <1>4, <2>1, SoundStack
<1>5. ASSUME NEW o \in Objects, UNCHANGED stackVars,
             \/ gcrefs' = [gcrefs EXCEPT ![o] = "explored"]
             \/ gcrefs[o] = "free" /\ gcrefs' = [gcrefs EXCEPT ![o] = "untracked"]
      PROVE  StackInv' /\ StackSound' /\ gcrefs' \in [Objects -> GcRefs]
  <2>1. StackInv' /\ Content' = Content  BY <1>5, QuietStack DEF stackVars
  <2>2. gcrefs' \in [Objects -> GcRefs]  BY <1>2, <1>5 DEF GcRefs
  <2>3. /\ \A p \in Content' : gcrefs'[p] \in {"reachable", "explored"}
        /\ \A p \in Objects : gcrefs'[p] = "reachable" => p \in Content'
    <3>1. Content \subseteq Objects  BY <1>1, StackHoldsObjects
    <3> QED  BY <1>2, <1>3, <1>5, <2>1, <3>1
  <2> QED  BY <2>1, <2>2, <2>3, SoundStack
<1>6. ASSUME NEW o \in Objects, ExploreNext(o)
      PROVE  StackInv' /\ StackSound' /\ gcrefs' \in [Objects -> GcRefs]
  <2>1. StackInv' /\ o \in Content /\ Content' = Content \ {o}
    BY <1>1, <1>6, PopTakes DEF ExploreNext
  <2>2. gcrefs'[o] = "explored" /\ \A p \in Objects \ {o} : gcrefs'[p] = gcrefs[p]
    BY <1>2, <1>3, <1>6, <2>1
    DEF ExploreNext, ExploreObject, ExploreNow, IsUnexplored
  <2>3. gcrefs' \in [Objects -> GcRefs]
    BY <1>2, <1>6 DEF ExploreNext, ExploreObject, ExploreNow, GcRefs
  <2>4. Content \subseteq Objects  BY <1>1, StackHoldsObjects
  <2>5. /\ \A p \in Content' : gcrefs'[p] \in {"reachable", "explored"}
        /\ \A p \in Objects : gcrefs'[p] = "reachable" => p \in Content'
    BY <1>3, <2>1, <2>2, <2>4
  <2> QED  BY <2>1, <2>3, <2>5, SoundStack
<1>7. ASSUME NEW o \in Objects, NEW n, Track(o) \/ BeginConversion(o, n)
      PROVE  StackInv' /\ StackSound' /\ gcrefs' \in [Objects -> GcRefs]
  <2>1. /\ gcrefs[o] \in {"untracked", "free"}
        /\ gcrefs' = [gcrefs EXCEPT ![o] = "reachable"]
        /\ PushExStack(o)
    BY <1>7 DEF Track, BeginConversion
  <2>2. o \notin Content  BY <1>3, <2>1
  <2>3. StackInv' /\ Content' = Content \cup {o}
    BY <1>1, <2>1, <2>2, PushAdds
  <2>4. gcrefs' \in [Objects -> GcRefs]  BY <1>2, <2>1 DEF GcRefs
  <2>5. Content \subseteq Objects  BY <1>1, StackHoldsObjects
  <2>6. /\ \A p \in Content' : gcrefs'[p] \in {"reachable", "explored"}
        /\ \A p \in Objects : gcrefs'[p] = "reachable" => p \in Content'
    BY <1>2, <1>3, <2>1, <2>3, <2>5
  <2> QED  BY <2>3, <2>4, <2>6, SoundStack
<1>8. ASSUME NEW o \in Objects, Dealloc(o)
      PROVE  StackInv' /\ StackSound' /\ gcrefs' \in [Objects -> GcRefs]
  <2>1. gcrefs' = [gcrefs EXCEPT ![o] = "free"]  BY <1>8 DEF Dealloc
  <2>2. StackInv' /\ Content' = Content \ {o}
    <3>1. CASE Tracked(o)  BY <1>1, <1>8, <3>1, RemoveRemoves DEF Dealloc
    <3>2. CASE ~Tracked(o)
      <4>1. o \notin Content  BY <1>3, <3>2 DEF Tracked
      <4>2. UNCHANGED <<base, overflow, wild>>  BY <1>8, <3>2 DEF Dealloc, stackVars
      <4> QED  BY <4>1, <4>2, QuietStack
    <3> QED  BY <3>1, <3>2
  <2>3. gcrefs' \in [Objects -> GcRefs]  BY <1>2, <2>1 DEF GcRefs
  <2>4. Content \subseteq Objects  BY <1>1, StackHoldsObjects
  <2>5. /\ \A p \in Content' : gcrefs'[p] \in {"reachable", "explored"}
        /\ \A p \in Objects : gcrefs'[p] = "reachable" => p \in Content'
    BY <1>2, <1>3, <2>1, <2>2, <2>4
  <2> QED  BY <2>2, <2>3, <2>5, SoundStack
<1>9. CASE EnterCall \/ LeaveCall \/ ReturnToJava \/ ValidateGCHead
  BY <1>4, <1>9 DEF EnterCall, LeaveCall, ReturnToJava, ValidateGCHead, objectVars
<1>10. CASE StackRunsWild
  <2>1. UNCHANGED <<base, overflow, gcrefs>> /\ wild' = TRUE
    BY <1>10 DEF StackRunsWild, PushWild, PopWild, GoWild, objectVars
  <2>2. StackInv' /\ Content' = Content
    BY <1>1, <2>1 DEF StackInv, StackTypeOK, Distinct, Content
  <2> QED  BY <1>2, <1>3, <2>1, <2>2, SoundStack
<1>11. ASSUME NEW o \in Objects, NEW n, NewObject(o, n)
       PROVE  StackInv' /\ StackSound' /\ gcrefs' \in [Objects -> GcRefs]
  BY <1>5, <1>11 DEF NewObject
<1>12. ASSUME NEW o \in Objects, EndConversion(o)
       PROVE  StackInv' /\ StackSound' /\ gcrefs' \in [Objects -> GcRefs]
  BY <1>4, <1>5, <1>12 DEF EndConversion, ExploreObject, ExploreNow
<1>13. ASSUME NEW o \in Objects, ExploreList(o)
       PROVE  StackInv' /\ StackSound' /\ gcrefs' \in [Objects -> GcRefs]
  BY <1>5, <1>13 DEF ExploreList, ExploreNow
<1>14. ASSUME NEW o \in Objects,
              \/ ReadOldLinks(o)
              \/ \E n \in 0 .. MaxItems : Shrink(o, n)
              \/ \E s \in Contents(o) : Fill(o, s) \/ Replace(o, s)
              \/ \E r \in Storable(o) : App1(o, r)
              \/ \E r \in Storable(o) \cup {Null} : SetCell(o, r)
              \/ \E i \in 1 .. MaxItems + 1, r \in Storable(o) :
                    SetItem(o, i, r) \/ Insert(o, i, r) \/ MacroSet(o, i, r)
       PROVE  StackInv' /\ StackSound' /\ gcrefs' \in [Objects -> GcRefs]
  <2>1. UNCHANGED <<stackVars, gcrefs>>
    BY <1>14 DEF ReadOldLinks, Shrink, Fill, Replace, App1, SetCell, SetItem, Insert,
                 MacroSet, objectVars
  <2> QED  BY <1>4, <2>1
<1> QED
  BY <1>6, <1>7, <1>8, <1>9, <1>10, <1>11, <1>12, <1>13, <1>14 DEF HeadNext

LEMMA ConvertingKept ==
    ASSUME HeadInv, HeadNext
    PROVE  \A o \in converting' : Tracked(o)'
<1>1. /\ gcrefs \in [Objects -> GcRefs]
      /\ converting \in SUBSET Objects
      /\ \A o \in converting : gcrefs[o] \in {"reachable", "explored"}
  BY DEF HeadInv, HeadTypeOK, Tracked
<1>2. CASE UNCHANGED <<gcrefs, converting>>  BY <1>1, <1>2 DEF Tracked
<1>3. ASSUME NEW o \in Objects, converting' \subseteq converting \cup {o},
             \/ gcrefs' = [gcrefs EXCEPT ![o] = "explored"]
             \/ gcrefs' = [gcrefs EXCEPT ![o] = "reachable"]
      PROVE  \A p \in converting' : Tracked(p)'
  <2>1. ASSUME NEW p \in converting'  PROVE gcrefs'[p] \in {"reachable", "explored"}
    BY <1>1, <1>3, <2>1
  <2> QED  BY <2>1 DEF Tracked
<1>4. ASSUME NEW o \in Objects, NEW v, o \notin converting, UNCHANGED converting,
             gcrefs' = [gcrefs EXCEPT ![o] = v]
      PROVE  \A p \in converting' : Tracked(p)'
  <2>1. ASSUME NEW p \in converting'  PROVE gcrefs'[p] \in {"reachable", "explored"}
    BY <1>1, <1>4, <2>1
  <2> QED  BY <2>1 DEF Tracked
<1>5. CASE EnterCall \/ LeaveCall \/ ReturnToJava \/ ValidateGCHead \/ StackRunsWild
  BY <1>2, <1>5 DEF EnterCall, LeaveCall, ReturnToJava, ValidateGCHead, StackRunsWild,
                    objectVars
<1>6. ASSUME NEW o \in Objects, ExploreNext(o) \/ ExploreList(o)
      PROVE  \A p \in converting' : Tracked(p)'
  BY <1>2, <1>3, <1>6 DEF ExploreNext, ExploreList, ExploreObject, ExploreNow
<1>7. ASSUME NEW o \in Objects, EndConversion(o)
      PROVE  \A p \in converting' : Tracked(p)'
  <2>1. converting' \subseteq converting  BY <1>7 DEF EndConversion
  <2>2. CASE IsUnexplored(o)
    BY <1>3, <1>7, <2>1, <2>2 DEF EndConversion, ExploreObject, ExploreNow
  <2>3. CASE UNCHANGED gcrefs  BY <1>1, <2>1, <2>3 DEF Tracked
  <2> QED  BY <1>7, <2>2, <2>3 DEF EndConversion, ExploreObject
<1>8. ASSUME NEW o \in Objects, NEW n,
             Track(o) \/ Dealloc(o) \/ NewObject(o, n) \/ BeginConversion(o, n)
      PROVE  \A p \in converting' : Tracked(p)'
  <2>1. CASE Track(o)  BY <1>3, <2>1 DEF Track
  <2>2. CASE BeginConversion(o, n)  BY <1>3, <2>2 DEF BeginConversion
  <2>3. CASE Dealloc(o)  BY <1>4, <2>3 DEF Dealloc
  <2>4. CASE NewObject(o, n)
    <3>1. o \notin converting  BY <1>1, <2>4 DEF NewObject
    <3> QED  BY <1>4, <2>4, <3>1 DEF NewObject
  <2> QED  BY <1>8, <2>1, <2>2, <2>3, <2>4
<1>9. ASSUME NEW o \in Objects,
             \/ ReadOldLinks(o)
             \/ \E n \in 0 .. MaxItems : Shrink(o, n)
             \/ \E s \in Contents(o) : Fill(o, s) \/ Replace(o, s)
             \/ \E r \in Storable(o) : App1(o, r)
             \/ \E r \in Storable(o) \cup {Null} : SetCell(o, r)
             \/ \E i \in 1 .. MaxItems + 1, r \in Storable(o) :
                   SetItem(o, i, r) \/ Insert(o, i, r) \/ MacroSet(o, i, r)
      PROVE  \A p \in converting' : Tracked(p)'
  <2>1. UNCHANGED <<gcrefs, converting>>
    BY <1>9 DEF ReadOldLinks, Shrink, Fill, Replace, App1, SetCell, SetItem, Insert,
                MacroSet, objectVars
  <2> QED  BY <1>2, <2>1
<1> QED  BY <1>5, <1>6, <1>7, <1>8, <1>9 DEF HeadNext

-----------------------------------------------------------------------------
(* The types.                                                              *)

DataTypeOK ==
    /\ items \in [Objects -> Seq(Slots)]
    /\ heads \in SUBSET Critical
    /\ links \in [Objects -> Seq(Slots)]
    /\ behind \in [Objects -> Misses]
    /\ converting \in SUBSET Objects
    /\ phase \in {"out", "in", "exploring"}
    /\ checking \in [object : Critical \cup {Null}, old : Seq(Slots)]

LEMMA CriticalObjects == Critical \subseteq Objects
BY HeadAssumption DEF Critical

LEMMA TypeParts ==
    /\ HeadTypeOK <=> StackTypeOK /\ gcrefs \in [Objects -> GcRefs] /\ DataTypeOK
    /\ (HeadTypeOK <=> StackTypeOK /\ gcrefs \in [Objects -> GcRefs] /\ DataTypeOK)'
<1>1. HeadTypeOK <=> StackTypeOK /\ gcrefs \in [Objects -> GcRefs] /\ DataTypeOK
  BY DEF HeadTypeOK, DataTypeOK, Slots
<1>2. (HeadTypeOK <=> StackTypeOK /\ gcrefs \in [Objects -> GcRefs] /\ DataTypeOK)'
  BY DEF HeadTypeOK, DataTypeOK, Slots
<1> QED  BY <1>1, <1>2

LEMMA ExploredType ==
    ASSUME DataTypeOK, NEW o \in Objects, ExploreNow(o), UNCHANGED <<phase, checking>>,
           converting' \subseteq converting
    PROVE  DataTypeOK'
<1>1. ExploredLinks(o) \in Seq(Slots)  BY ExploredSlots DEF DataTypeOK
<1> QED  BY <1>1 DEF DataTypeOK, ExploreNow, GivenHeads, Misses

LEMMA SyncedType ==
    ASSUME HeadTypeOK, NEW o \in Objects, NEW s \in Seq(Slots), SyncLinks(o, s)
    PROVE  /\ heads' \in SUBSET Critical
           /\ links' \in [Objects -> Seq(Slots)]
           /\ behind' \in [Objects -> Misses]
<1>1. DataTypeOK  BY TypeParts
<1>2. SyncedLinks(o, s) \in [Objects -> Seq(Slots)]  BY SyncedSlots
<1>3. MissedEnd(o, s) \in [Objects -> Misses]  BY <1>1 DEF DataTypeOK, MissedEnd, Misses
<1> QED  BY <1>1, <1>2, <1>3 DEF DataTypeOK, SyncLinks, GivenHeads, headVars

LEMMA DataTyped ==
    ASSUME HeadInv, HeadNext
    PROVE  DataTypeOK'
<1>1. HeadTypeOK /\ DataTypeOK  BY TypeParts DEF HeadInv
<1>2. Referents \subseteq Slots /\ Null \in Slots  BY DEF Slots
<1>3. CASE EnterCall \/ LeaveCall \/ ReturnToJava \/ StackRunsWild
  BY <1>1, <1>3 DEF DataTypeOK, EnterCall, LeaveCall, ReturnToJava, StackRunsWild,
                    objectVars, headVars
<1>4. CASE ValidateGCHead
  <2> DEFINE o == checking.object
  <2>1. o \in Objects /\ Visited(items[o]) \in Seq(Slots)
    BY <1>1, <1>4, VisitedSlots, CriticalObjects DEF DataTypeOK, ValidateGCHead
  <2>2. /\ heads' \in SUBSET Critical
        /\ links' \in [Objects -> Seq(Slots)]
        /\ behind' \in [Objects -> Misses]
    <3>1. CASE UNCHANGED headVars  BY <1>1, <3>1 DEF DataTypeOK, headVars
    <3>2. CASE SyncLinks(o, Visited(items[o]))  BY <1>1, <2>1, <3>2, SyncedType
    <3> QED  BY <1>4, <3>1, <3>2 DEF ValidateGCHead
  <2>3. NotChecking \in [object : Critical \cup {Null}, old : Seq(Slots)]
    BY EmptySeq DEF NotChecking
  <2> QED  BY <1>1, <1>4, <2>2, <2>3 DEF DataTypeOK, ValidateGCHead, objectVars
<1>5. ASSUME NEW o \in Objects, ExploreNext(o) \/ ExploreList(o) \/ EndConversion(o)
      PROVE  DataTypeOK'
  <2>1. UNCHANGED <<phase, checking>> /\ converting' \subseteq converting
    BY <1>5 DEF ExploreNext, ExploreList, EndConversion
  <2>2. CASE ExploreNow(o)  BY <1>1, <2>1, <2>2, ExploredType
  <2>3. CASE UNCHANGED <<gcrefs, items, headVars>>
    BY <1>1, <2>1, <2>3 DEF DataTypeOK, headVars
  <2> QED
    BY <1>5, <2>2, <2>3 DEF ExploreNext, ExploreList, EndConversion, ExploreObject
<1>6. ASSUME NEW o \in Objects, Track(o) \/ Dealloc(o) \/ ReadOldLinks(o)
      PROVE  DataTypeOK'
  <2>1. CASE Track(o)  BY <1>1, <2>1 DEF DataTypeOK, Track, headVars
  <2>2. CASE Dealloc(o)  BY <1>1, <2>2, EmptySeq DEF DataTypeOK, Dealloc, Misses
  <2>3. CASE ReadOldLinks(o)
    BY <1>1, <2>3 DEF DataTypeOK, ReadOldLinks, objectVars, headVars
  <2> QED  BY <1>6, <2>1, <2>2, <2>3
<1>7. ASSUME NEW o \in Objects, NEW n \in 0 .. MaxItems,
             NewObject(o, n) \/ BeginConversion(o, n) \/ Shrink(o, n)
      PROVE  DataTypeOK'
  <2>1. n \in Nat  BY HeadAssumption
  <2>2. CASE NewObject(o, n) \/ BeginConversion(o, n)
    <3>1. [i \in 1 .. n |-> Null] \in [1 .. n -> Slots]  BY <1>2
    <3>2. [i \in 1 .. n |-> Null] \in Seq(Slots)  BY <2>1, <3>1
    <3> QED  BY <1>1, <2>2, <3>2 DEF DataTypeOK, NewObject, BeginConversion, headVars
  <2>3. CASE Shrink(o, n)
    <3>1. items[o] \in Seq(Slots) /\ items[o] # <<>>
      BY <1>1, <2>3 DEF DataTypeOK, Shrink
    <3>2. Len(items[o]) \in Nat \ {0}  BY <3>1, EmptySeq
    <3>3. n \in 0 .. Len(items[o])  BY <2>1, <2>3, <3>2 DEF Shrink
    <3>4. SubSeq(items[o], 1, n) \in Seq(Slots)  BY <3>1, <3>3, FirstOf
    <3> QED  BY <1>1, <2>3, <3>4 DEF DataTypeOK, Shrink, headVars
  <2> QED  BY <1>7, <2>2, <2>3
<1>8. ASSUME NEW o \in Objects, NEW s \in Seq(Slots),
             Fill(o, s) \/ Replace(o, s)
      PROVE  DataTypeOK'
  <2>1. CASE Fill(o, s)  BY <1>1, <2>1 DEF DataTypeOK, Fill, MarkChanged, Misses
  <2>2. CASE Replace(o, s)
    <3>1. /\ items' = [items EXCEPT ![o] = s] /\ SyncLinks(o, s)
          /\ UNCHANGED <<phase, converting, checking>>
      BY <2>2 DEF Replace
    <3>2. items' \in [Objects -> Seq(Slots)]  BY <1>1, <3>1 DEF DataTypeOK
    <3>3. /\ heads' \in SUBSET Critical
          /\ links' \in [Objects -> Seq(Slots)]
          /\ behind' \in [Objects -> Misses]
      BY <1>1, <3>1, SyncedType
    <3> QED  BY <1>1, <3>1, <3>2, <3>3 DEF DataTypeOK
  <2> QED  BY <1>8, <2>1, <2>2
<1>9. ASSUME NEW o \in Objects, NEW r \in Slots, App1(o, r)
      PROVE  DataTypeOK'
  <2>1. Append(items[o], r) \in Seq(Slots)  BY <1>1, AppendProperties DEF DataTypeOK
  <2> QED  BY <1>8, <1>9, <2>1 DEF App1
<1>10. ASSUME NEW o \in Objects, NEW i \in 1 .. MaxItems + 1, NEW r \in Slots,
              SetItem(o, i, r) \/ Insert(o, i, r) \/ MacroSet(o, i, r)
       PROVE  DataTypeOK'
  <2>1. items[o] \in Seq(Slots) /\ links[o] \in Seq(Slots)  BY <1>1 DEF DataTypeOK
  <2>2. ASSUME i \in DOMAIN items[o]
        PROVE  [items EXCEPT ![o][i] = r] \in [Objects -> Seq(Slots)]
    <3>1. [items[o] EXCEPT ![i] = r] \in Seq(Slots)  BY <2>1, <2>2, SlotChanged
    <3>2. [items EXCEPT ![o][i] = r] = [items EXCEPT ![o] = [items[o] EXCEPT ![i] = r]]
      BY <1>1 DEF DataTypeOK
    <3> QED  BY <1>1, <3>1, <3>2 DEF DataTypeOK
  <2>3. CASE SetItem(o, i, r)
    <3>1. SetLink(o, i, r) \in [Objects -> Seq(Slots)]  BY <1>1, SetSlots
    <3> QED  BY <1>1, <2>2, <2>3, <3>1 DEF DataTypeOK, SetItem, GivenHeads
  <2>4. CASE Insert(o, i, r)
    <3>1. i \in 1 .. Len(items[o]) + 1  BY <2>4 DEF Insert
    <3>2. InsertAt(items[o], i, r) \in Seq(Slots)  BY <2>1, <3>1, SlotInserted
    <3>3. ASSUME i <= Len(links[o]) + 1
          PROVE  InsertAt(links[o], i, r) \in Seq(Slots)
      <4>1. Len(links[o]) \in Nat /\ MaxItems \in Nat
        BY <2>1, LenProperties, HeadAssumption
      <4>2. i \in 1 .. Len(links[o]) + 1  BY <3>3, <4>1
      <4> QED  BY <2>1, <4>2, SlotInserted
    <3> QED  BY <1>1, <2>4, <3>2, <3>3 DEF DataTypeOK, Insert, GivenHeads
  <2>5. CASE MacroSet(o, i, r)
    BY <1>1, <2>2, <2>5 DEF DataTypeOK, MacroSet, MarkChanged, Misses
  <2> QED  BY <1>10, <2>3, <2>4, <2>5
<1>11. ASSUME NEW o \in Objects, NEW r \in Slots, SetCell(o, r)
       PROVE  DataTypeOK'
  <2>1. <<r>> \in Seq(Slots)  OBVIOUS
  <2> QED  BY <1>1, <1>11, <2>1 DEF DataTypeOK, SetCell, MarkChanged, GivenHeads, Misses
<1>12. \A o \in Objects : Contents(o) \subseteq Seq(Slots) /\ Storable(o) \subseteq Slots
  BY <1>1, <1>2, StoredSlots
<1> QED
  BY <1>2, <1>3, <1>4, <1>5, <1>6, <1>7, <1>8, <1>9, <1>10, <1>11, <1>12 DEF HeadNext

LEMMA HeadInvariant == HeadSpec => []HeadInv
<1>1. HeadInit => HeadInv
  <2> SUFFICES ASSUME HeadInit  PROVE HeadInv
    OBVIOUS
  <2>1. <<>> \in Seq(Objects) /\ <<>> \in Seq(Slots) /\ <<>> \in Seq(Seq(Objects))
    BY EmptySeq
  <2>2. DOMAIN <<>> = {}  OBVIOUS
  <2>3. StackTypeOK /\ Distinct /\ Content = {}
    BY <2>1, <2>2
    DEF HeadInit, StackInit, StackTypeOK, Distinct, Content, IsInjective, Range
  <2>4. gcrefs \in [Objects -> GcRefs]  BY DEF HeadInit, GcRefs
  <2>5. DataTypeOK  BY <2>1 DEF HeadInit, DataTypeOK, NotChecking, Misses
  <2>6. HeadTypeOK  BY <2>3, <2>4, <2>5, TypeParts
  <2>7. StackSound  BY <2>3 DEF HeadInit, StackSound, Distinct
  <2>8. converting = {}  BY DEF HeadInit
  <2> QED  BY <2>6, <2>7, <2>8 DEF HeadInv
<1>2. HeadInv /\ [HeadNext]_headLinkVars => HeadInv'
  <2> SUFFICES ASSUME HeadInv, [HeadNext]_headLinkVars  PROVE HeadInv'
    OBVIOUS
  <2>1. CASE HeadNext
    <3>1. StackTypeOK' /\ StackSound' /\ gcrefs' \in [Objects -> GcRefs] /\ DataTypeOK'
      BY <2>1, StackKept, DataTyped DEF StackInv
    <3>2. \A o \in converting' : Tracked(o)'  BY <2>1, ConvertingKept
    <3> QED  BY <3>1, <3>2, TypeParts DEF HeadInv
  <2>2. CASE UNCHANGED headLinkVars
    <3>1. UNCHANGED <<base, overflow, wild, gcrefs, items, converting, heads, links,
                      behind, phase, checking>>
      BY <2>2 DEF headLinkVars, stackVars, objectVars, headVars
    <3>2. HeadTypeOK'  BY <3>1 DEF HeadInv, HeadTypeOK, StackTypeOK
    <3>3. StackInv' /\ Content' = Content  BY <3>1, QuietStack
    <3>4. StackSound'  BY <3>1, <3>3 DEF HeadInv, StackSound, Tracked
    <3>5. \A o \in converting' : Tracked(o)'  BY <3>1 DEF HeadInv, Tracked
    <3> QED  BY <3>2, <3>4, <3>5 DEF HeadInv
  <2> QED  BY <2>1, <2>2
<1> QED  BY <1>1, <1>2, PTL DEF HeadSpec

(* Every variable has its type: gcmodule.c and listobject.c only store     *)
(* objects in slots and heads of their referents in links.                 *)
THEOREM HeadTypeCorrect == HeadSpec => []HeadTypeOK
<1>1. HeadInv => HeadTypeOK  BY DEF HeadInv
<1> QED  BY <1>1, HeadInvariant, PTL

(* The exploration stack never holds a freed object, holds each object at  *)
(* most once and loses none that is still to be explored: pushExStack,     *)
(* popExStack and removeObjectExStack with their callers.                  *)
THEOREM StackExact == HeadSpec => []StackSound
<1>1. HeadInv => StackSound  BY DEF HeadInv
<1> QED  BY <1>1, HeadInvariant, PTL

(* Finalization is delayed exactly when a referent is missing among the    *)
(* links that Java read: JyGC_validateGCHead.                              *)
THEOREM DelaysExactly == HeadSpec => []DelayExact
<1>1. HeadInv => DelayExact
  <2> SUFFICES ASSUME HeadInv, checking.object # Null
               PROVE  LET visited == Visited(items[checking.object])
                      IN  ValidateResult(visited, checking.old)
                             <=> ~(Range(visited) \subseteq Range(checking.old))
    BY DEF DelayExact
  <2>1. DataTypeOK  BY TypeParts DEF HeadInv
  <2>2. checking.object \in Objects /\ checking.old \in Seq(Slots)
    BY <2>1, CriticalObjects DEF DataTypeOK
  <2>3. Visited(items[checking.object]) \in Seq(Slots)
    BY <2>1, <2>2, VisitedSlots DEF DataTypeOK
  <2> QED  BY <2>2, <2>3, DelaysForNewReferents
<1> QED  BY <1>1, HeadInvariant, PTL

-----------------------------------------------------------------------------
(* The promise.                                                            *)

(* Whatever native code tracks and untracks, every tracked object has been *)
(* explored when a call returns to Java: JyNI_GC_Explore.                  *)
THEOREM ImplementsTrackedObjects == HeadSpec => ImplementsPromise
<1> DEFINE tr == {o \in Objects : Tracked(o) /\ (o \in converting => Explored(o))}
           ex == {o \in Objects : Explored(o)}
<1>1. HeadInit => Promise!TrackedInit
  BY DEF HeadInit, Promise!TrackedInit, Tracked, Explored
<1>2. HeadInv /\ [HeadNext]_headLinkVars => [Promise!TrackedNext]_(Promise!trackedVars)
  <2> SUFFICES ASSUME HeadInv, [HeadNext]_headLinkVars
               PROVE  [Promise!TrackedNext]_(Promise!trackedVars)
    OBVIOUS
  <2>1. /\ gcrefs \in [Objects -> GcRefs] /\ converting \in SUBSET Objects
        /\ \A o \in converting : Tracked(o)
    BY DEF HeadInv, HeadTypeOK
  <2>2. CASE UNCHANGED <<gcrefs, converting, phase>>
    BY <2>2 DEF Promise!trackedVars, Tracked, Explored
  <2>3. CASE EnterCall
    BY <2>3 DEF EnterCall, objectVars, Promise!TrackedNext, Promise!BeginCall, Tracked, Explored
  <2>4. CASE LeaveCall
    BY <2>4 DEF LeaveCall, objectVars, Promise!trackedVars, Tracked, Explored
  <2>5. CASE ReturnToJava
    <3>1. Content = {}  BY <2>5, HeadInvStack, EmptyHoldsNothing DEF ReturnToJava
    <3>2. tr \subseteq ex
      BY <3>1 DEF HeadInv, StackSound, Tracked, Explored
    <3>3. UNCHANGED <<tr, ex>>  BY <2>5 DEF ReturnToJava, objectVars, Tracked, Explored
    <3> HIDE DEF tr, ex
    <3>4. Promise!EndCall  BY <2>5, <3>2, <3>3 DEF ReturnToJava, Promise!EndCall, tr, ex
    <3> QED  BY <3>4 DEF Promise!TrackedNext
  <2>6. ASSUME NEW o \in Objects, gcrefs[o] = "reachable",
               o \notin converting => phase # "out" /\ o \notin converting',
               converting' \subseteq converting, converting \ {o} \subseteq converting',
               gcrefs' = [gcrefs EXCEPT ![o] = "explored"], UNCHANGED phase
        PROVE  Promise!TrackedNext
    <3>1. tr' = tr \cup {o} /\ ex' = ex \cup {o}
      BY <2>1, <2>6 DEF Tracked, Explored
    <3>2. o \notin ex /\ (o \in tr <=> o \notin converting)
      BY <2>6 DEF Tracked, Explored
    <3> HIDE DEF tr, ex
    <3>3. CASE o \in tr
      <4>1. phase # "out" /\ tr' = tr  BY <2>6, <3>1, <3>2, <3>3
      <4>2. Promise!ExploreObject(o)
        BY <2>6, <3>1, <3>2, <3>3, <4>1 DEF Promise!ExploreObject, tr, ex
      <4> QED  BY <4>2 DEF Promise!TrackedNext
    <3>4. CASE o \notin tr
      <4>1. Promise!AdoptObject(o)
        BY <2>6, <3>1, <3>4 DEF Promise!AdoptObject, tr, ex
      <4> QED  BY <4>1 DEF Promise!TrackedNext
    <3> QED  BY <3>3, <3>4
  <2>7. ASSUME NEW o \in Objects, ExploreNext(o)
        PROVE  [Promise!TrackedNext]_(Promise!trackedVars)
    <3>1. o \in Content  BY <2>7, HeadInvStack, PopTakes DEF ExploreNext
    <3>2. Tracked(o)  BY <3>1 DEF HeadInv, StackSound
    <3>3. CASE IsUnexplored(o)
      <4>1. gcrefs[o] = "reachable"  BY <3>2, <3>3 DEF Tracked, IsUnexplored
      <4>2. /\ gcrefs' = [gcrefs EXCEPT ![o] = "explored"]
            /\ phase # "out" /\ UNCHANGED <<phase, converting>>
        BY <2>7, <3>3 DEF ExploreNext, ExploreObject, ExploreNow
      <4> QED  BY <2>6, <4>1, <4>2
    <3>4. CASE ~IsUnexplored(o)
      BY <2>2, <2>7, <3>4 DEF ExploreNext, ExploreObject
    <3> QED  BY <3>3, <3>4
  <2>8. ASSUME NEW o \in Objects, ExploreList(o)
        PROVE  Promise!TrackedNext
    BY <2>6, <2>8 DEF ExploreList, ExploreNow
  <2>9. ASSUME NEW o \in Objects, EndConversion(o)
        PROVE  [Promise!TrackedNext]_(Promise!trackedVars)
    <3>1. o \in converting /\ converting' = converting \ {o} /\ UNCHANGED phase
      BY <2>9 DEF EndConversion
    <3>2. Tracked(o)  BY <2>1, <3>1
    <3>3. CASE IsUnexplored(o)
      <4>1. gcrefs[o] = "reachable"  BY <3>2, <3>3 DEF Tracked, IsUnexplored
      <4>2. gcrefs' = [gcrefs EXCEPT ![o] = "explored"]
        BY <2>9, <3>3 DEF EndConversion, ExploreObject, ExploreNow
      <4> QED  BY <2>6, <3>1, <4>1, <4>2
    <3>4. CASE ~IsUnexplored(o)
      <4>1. UNCHANGED gcrefs  BY <2>9, <3>4 DEF EndConversion, ExploreObject
      <4>2. Explored(o)  BY <3>2, <3>4 DEF Tracked, Explored, IsUnexplored
      <4>3. UNCHANGED <<tr, ex>>
        <5>1. ASSUME NEW p \in Objects
              PROVE  /\ Tracked(p)' <=> Tracked(p)
                     /\ Explored(p)' <=> Explored(p)
                     /\ p \in converting' <=> p \in converting /\ p # o
          BY <3>1, <4>1 DEF Tracked, Explored
        <5> QED  BY <4>2, <5>1
      <4> HIDE DEF tr, ex
      <4> QED  BY <3>1, <4>3 DEF Promise!trackedVars, tr, ex
    <3> QED  BY <3>3, <3>4
  <2>10. ASSUME NEW o \in Objects, Track(o)
         PROVE  Promise!TrackedNext
    <3>1. /\ gcrefs[o] = "untracked" /\ gcrefs' = [gcrefs EXCEPT ![o] = "reachable"]
          /\ phase = "in" /\ UNCHANGED <<phase, converting>>
      BY <2>10 DEF Track
    <3>2. o \notin converting  BY <2>1, <3>1 DEF Tracked
    <3>3. o \notin tr /\ tr' = tr \cup {o} /\ ex' = ex
      BY <2>1, <3>1, <3>2 DEF Tracked, Explored
    <3> HIDE DEF tr, ex
    <3>4. Promise!TrackObject(o)  BY <3>1, <3>3 DEF Promise!TrackObject, tr, ex
    <3> QED  BY <3>4 DEF Promise!TrackedNext
  <2>11. ASSUME NEW o \in Objects, Dealloc(o)
         PROVE  [Promise!TrackedNext]_(Promise!trackedVars)
    <3>1. /\ gcrefs' = [gcrefs EXCEPT ![o] = "free"] /\ phase = "in"
          /\ UNCHANGED <<phase, converting>>
      BY <2>11 DEF Dealloc
    <3>2. tr' = tr \ {o} /\ ex' = ex \ {o}
      BY <2>1, <3>1 DEF Tracked, Explored
    <3>3. ex \subseteq tr  BY DEF Tracked, Explored
    <3> HIDE DEF tr, ex
    <3>4. CASE o \in tr
      <4>1. Promise!UntrackObject(o)  BY <3>1, <3>2, <3>4 DEF Promise!UntrackObject, tr, ex
      <4> QED  BY <4>1 DEF Promise!TrackedNext
    <3>5. CASE o \notin tr
      <4>1. tr' = tr /\ ex' = ex  BY <3>2, <3>3, <3>5
      <4> QED  BY <3>1, <4>1 DEF Promise!trackedVars, tr, ex
    <3> QED  BY <3>4, <3>5
  <2>12. ASSUME NEW o \in Objects, NEW n, NewObject(o, n) \/ BeginConversion(o, n)
         PROVE  UNCHANGED Promise!trackedVars
    <3>1. /\ gcrefs[o] = "free" /\ UNCHANGED phase
          /\ \/ gcrefs' = [gcrefs EXCEPT ![o] = "untracked"] /\ UNCHANGED converting
             \/ /\ gcrefs' = [gcrefs EXCEPT ![o] = "reachable"]
                /\ converting' = converting \cup {o}
      BY <2>12 DEF NewObject, BeginConversion
    <3>2. tr' = tr /\ ex' = ex
      <4>1. ~Tracked(o) /\ ~Explored(o) /\ ~Explored(o)'
        BY <2>1, <3>1 DEF Tracked, Explored
      <4>2. Tracked(o)' => o \in converting'  BY <2>1, <3>1 DEF Tracked
      <4>3. ASSUME NEW p \in Objects \ {o}
            PROVE  /\ Tracked(p)' <=> Tracked(p)
                   /\ Explored(p)' <=> Explored(p)
                   /\ p \in converting' <=> p \in converting
        BY <2>1, <3>1 DEF Tracked, Explored
      <4> QED  BY <4>1, <4>2, <4>3
    <3> HIDE DEF tr, ex
    <3> QED  BY <3>1, <3>2 DEF Promise!trackedVars, tr, ex
  <2>13. CASE ValidateGCHead \/ StackRunsWild
    BY <2>2, <2>13 DEF ValidateGCHead, StackRunsWild, objectVars
  <2>14. ASSUME NEW o \in Objects,
                \/ ReadOldLinks(o)
                \/ \E n \in 0 .. MaxItems : Shrink(o, n)
                \/ \E s \in Contents(o) : Fill(o, s) \/ Replace(o, s)
                \/ \E r \in Storable(o) : App1(o, r)
                \/ \E r \in Storable(o) \cup {Null} : SetCell(o, r)
                \/ \E i \in 1 .. MaxItems + 1, r \in Storable(o) :
                      SetItem(o, i, r) \/ Insert(o, i, r) \/ MacroSet(o, i, r)
         PROVE  UNCHANGED Promise!trackedVars
    <3>1. UNCHANGED <<gcrefs, converting, phase>>
      BY <2>14 DEF ReadOldLinks, Shrink, Fill, Replace, App1, SetCell, SetItem, Insert,
                   MacroSet, objectVars
    <3> QED  BY <3>1 DEF Promise!trackedVars, Tracked, Explored
  <2>15. CASE UNCHANGED headLinkVars  BY <2>2, <2>15 DEF headLinkVars, objectVars
  <2> QED
    BY <2>3, <2>4, <2>5, <2>7, <2>8, <2>9, <2>10, <2>11, <2>12, <2>13, <2>14, <2>15
    DEF HeadNext
<1> QED  BY <1>1, <1>2, HeadInvariant, PTL
         DEF HeadSpec, ImplementsPromise, Promise!TrackedSpec

-----------------------------------------------------------------------------
(* The links.                                                              *)

(* Two sequences agree as far as both go.                                  *)
Along(s, k) == \A j \in 1 .. Len(s) : j <= Len(k) => s[j] = k[j]

(* A list agrees with its links until a macro changes it, and has as many  *)
(* unless an update found fewer.                                           *)
ListFollows(o) ==
    behind[o] # "change" =>
        /\ Along(Visited(items[o]), links[o])
        /\ behind[o] = "nothing" => Len(Visited(items[o])) <= Len(links[o])

(* An array has a link for each item, which is the item or, if it was      *)
(* stored after the exploration, missing.                                  *)
ArrayFollows(o) ==
    /\ behind[o] # "end"
    /\ Len(links[o]) = ArraySize
    /\ behind[o] = "nothing" => links[o] = items[o]
    /\ \A i \in 1 .. ArraySize : links[o][i] \in {Null, items[o][i]}

SingleFollows(o) ==
    /\ behind[o] # "end"
    /\ behind[o] = "nothing" => links[o] = OnHeap(Visited(items[o]))

(* An array keeps its size and is filled as a whole.                       *)
ArrayItems(o) ==
    /\ Len(items[o]) = ArraySize
    /\ Filled(o) \/ \A i \in 1 .. ArraySize : items[o][i] = Null

ObjectInv(o) ==
    /\ o \in Arrays /\ gcrefs[o] # "free" => ArrayItems(o)
    /\ Explored(o) => /\ o \in Lists => ListFollows(o)
                      /\ o \in Arrays => ArrayFollows(o)
                      /\ o \in Singles => SingleFollows(o)

LinkInv == \A o \in Objects : ObjectInv(o)

LEMMA FilledSlots ==
    ASSUME NEW s \in Seq(Slots)
    PROVE  Null \notin Range(s) <=> s \in Seq(Referents)
<1>1. ASSUME Null \notin Range(s)  PROVE s \in Seq(Referents)
  <2>1. Range(s) \subseteq Referents  BY <1>1, RangeOfSeq DEF Slots
  <2>2. s \in Seq(Range(s))  BY SeqOfRange
  <2> QED  BY <2>1, <2>2, SeqMonotonic
<1>2. ASSUME s \in Seq(Referents)  PROVE Null \notin Range(s)
  <2>1. Range(s) \subseteq Referents  BY <1>2, RangeOfSeq
  <2> QED  BY <2>1, HeadAssumption DEF Referents
<1> QED  BY <1>1, <1>2

LEMMA VisitedFilled ==
    ASSUME NEW s \in Seq(Referents)
    PROVE  s \in Seq(Slots) /\ Visited(s) = s
<1>1. s \in Seq(Slots)  BY SeqMonotonic DEF Slots
<1> QED  BY <1>1, FilledSlots DEF Visited

LEMMA OtherObject ==
    ASSUME NEW p, ObjectInv(p),
           items'[p] = items[p], links'[p] = links[p], gcrefs'[p] = gcrefs[p],
           behind'[p] = behind[p]
    PROVE  ObjectInv(p)'
BY DEF ObjectInv, Explored, ListFollows, ArrayFollows, SingleFollows, ArrayItems, Filled

LEMMA UnexploredObject ==
    ASSUME NEW o, gcrefs'[o] # "explored",
           o \in Arrays /\ gcrefs'[o] # "free" => ArrayItems(o)'
    PROVE  ObjectInv(o)'
BY DEF ObjectInv, Explored

LEMMA ListKept ==
    ASSUME NEW o \in Lists, Explored(o)' => ListFollows(o)'
    PROVE  ObjectInv(o)'
BY HeadAssumption DEF ObjectInv

LEMMA SingleKept ==
    ASSUME NEW o \in Singles, Explored(o)' => SingleFollows(o)'
    PROVE  ObjectInv(o)'
BY HeadAssumption DEF ObjectInv

LEMMA ArrayKept ==
    ASSUME NEW o \in Arrays, gcrefs'[o] # "free" => ArrayItems(o)',
           Explored(o)' => ArrayFollows(o)'
    PROVE  ObjectInv(o)'
BY HeadAssumption DEF ObjectInv

(* An exploration makes the links follow the object, filled or not.        *)
LEMMA ObjectExplored ==
    ASSUME NEW o \in Objects, items[o] \in Seq(Slots), items'[o] = items[o],
           o \in Arrays => ArrayItems(o),
           links'[o] = ExploredLinks(o), behind'[o] = "nothing"
    PROVE  ObjectInv(o)'
<1> DEFINE s == items[o]
           v == Visited(s)
<1>1. v \in Seq(Slots)  BY VisitedSlots
<1>2. CASE o \in Lists
  <2>1. links'[o] = v /\ Visited(items'[o]) = v  BY <1>2 DEF ExploredLinks
  <2>2. Len(v) \in Nat  BY <1>1, LenProperties
  <2> HIDE DEF v
  <2>3. ListFollows(o)'  BY <2>1, <2>2 DEF ListFollows, Along
  <2> QED  BY <1>2, <2>3, ListKept
<1>3. CASE o \in Arrays
  <2>1. links'[o] = Padded(v, ArraySize)
    BY <1>3, HeadAssumption DEF ExploredLinks
  <2>2. ArraySize \in Nat /\ DOMAIN s = 1 .. Len(s) /\ Len(s) = ArraySize
    BY <1>3, LenProperties, HeadAssumption DEF ArrayItems
  <2>3. links'[o] = s
    <3>1. CASE Filled(o)
      <4>1. v = s  BY <3>1 DEF Filled, Visited
      <4> QED  BY <2>1, <2>2, <4>1, PaddedSlots
    <3>2. CASE ~Filled(o)
      <4>1. \A i \in 1 .. ArraySize : s[i] = Null  BY <1>3, <3>2 DEF ArrayItems
      <4>2. v = <<>>  BY <3>2 DEF Filled, Visited
      <4>3. Len(v) = 0  BY <4>2
      <4>4. links'[o] = [i \in 1 .. ArraySize |-> Null]
        BY <2>1, <2>2, <4>3 DEF Padded
      <4>5. links'[o] \in Seq(Slots) /\ Len(links'[o]) = ArraySize
        <5>1. Null \in Slots  BY DEF Slots
        <5> QED  BY <2>2, <4>4, <5>1
      <4> QED  BY <2>2, <4>1, <4>4, <4>5, SeqEqual
    <3> QED  BY <3>1, <3>2
  <2>4. ArrayItems(o)'  BY <1>3 DEF ArrayItems, Filled
  <2>5. ArrayFollows(o)'  BY <2>2, <2>3 DEF ArrayFollows
  <2> QED  BY <1>3, <2>4, <2>5, ArrayKept
<1>4. CASE o \in Singles
  <2>1. o \notin Lists /\ o \notin Arrays  BY <1>4, HeadAssumption
  <2>2. links'[o] = OnHeap(v)  BY <2>1 DEF ExploredLinks
  <2>3. SingleFollows(o)'  BY <2>2 DEF SingleFollows
  <2> QED  BY <1>4, <2>3, SingleKept
<1> QED  BY <1>2, <1>3, <1>4, HeadAssumption

(* An update of all links of a list.                                       *)
LEMMA LinksSynced ==
    ASSUME HeadTypeOK, NEW o \in Lists, NEW s \in Seq(Slots), Visited(items'[o]) = s,
           SyncLinks(o, s), UNCHANGED gcrefs
    PROVE  /\ ObjectInv(o)'
           /\ \A p \in Objects \ {o} : links'[p] = links[p] /\ behind'[p] = behind[p]
<1>1. o \in Objects /\ o \notin Singles  BY HeadAssumption
<1>2. links \in [Objects -> Seq(Slots)] /\ behind \in [Objects -> Misses]
  BY DEF HeadTypeOK, Slots
<1>3. CASE Explored(o)
  <2> DEFINE n == Len(links[o])
  <2>1. /\ links' = SyncedLinks(o, s)
        /\ behind' = [behind EXCEPT ![o] = IF Len(s) > n THEN "end" ELSE "nothing"]
    BY <1>1, <1>3 DEF SyncLinks, MissedEnd
  <2>2. n \in Nat /\ Len(s) \in Nat  BY <1>1, <1>2, LenProperties
  <2>3. ASSUME Len(s) > n  PROVE ObjectInv(o)'
    <3>1. links'[o] = SubSeq(s, 1, n) /\ n \in 0 .. Len(s)
      BY <1>1, <1>2, <2>1, <2>3, SyncedSlots
    <3>2. Len(links'[o]) = n /\ \A j \in 1 .. n : links'[o][j] = s[j]
      BY <3>1, FirstOf
    <3>3. behind'[o] = "end"  BY <1>1, <1>2, <2>1, <2>3
    <3> HIDE DEF n
    <3>4. ListFollows(o)'
      BY <2>2, <3>2, <3>3 DEF ListFollows, Along
    <3> QED  BY <3>4, ListKept
  <2>4. ASSUME ~(Len(s) > n)  PROVE ObjectInv(o)'
    <3>1. Len(s) <= n  BY <2>2, <2>4
    <3>2. links'[o] = s  BY <1>1, <1>2, <2>1, <3>1, SyncedSlots
    <3>3. ListFollows(o)'  BY <2>2, <3>2 DEF ListFollows, Along
    <3> QED  BY <3>3, ListKept
  <2>5. \A p \in Objects \ {o} : links'[p] = links[p] /\ behind'[p] = behind[p]
    BY <1>1, <1>2, <2>1 DEF SyncedLinks
  <2> QED  BY <2>3, <2>4, <2>5
<1>4. CASE ~Explored(o)
  <2>1. UNCHANGED <<links, behind>>  BY <1>4 DEF SyncLinks, headVars
  <2>2. ~Explored(o)'  BY <1>4 DEF Explored
  <2> QED  BY <2>1, <2>2, ListKept
<1> QED  BY <1>3, <1>4

LEMMA LinksKept ==
    ASSUME HeadInv, LinkInv, HeadNext
    PROVE  LinkInv'
<1>1. HeadTypeOK  BY DEF HeadInv
<1>2. /\ gcrefs \in [Objects -> GcRefs]
      /\ items \in [Objects -> Seq(Slots)]
      /\ links \in [Objects -> Seq(Slots)]
      /\ behind \in [Objects -> Misses]
  BY <1>1 DEF HeadTypeOK, Slots
<1>3. \A o \in Objects : Filled(o) <=> items[o] \in Seq(Referents)
  BY <1>2, FilledSlots DEF Filled
<1>4. Lists \subseteq Objects /\ Arrays \subseteq Objects /\ Singles \subseteq Objects
  BY HeadAssumption
<1>5. ASSUME NEW o \in Objects,
             \A p \in Objects \ {o} :
                /\ items'[p] = items[p] /\ links'[p] = links[p] /\ gcrefs'[p] = gcrefs[p]
                /\ behind'[p] = behind[p],
             ObjectInv(o)'
      PROVE  LinkInv'
  <2>1. ASSUME NEW p \in Objects \ {o}  PROVE ObjectInv(p)'
    BY <1>5, <2>1, OtherObject DEF LinkInv
  <2> QED  BY <1>5, <2>1 DEF LinkInv
<1>6. ASSUME UNCHANGED <<gcrefs, items, headVars>>
      PROVE  LinkInv'
  BY <1>6, OtherObject DEF LinkInv, headVars
<1>7. CASE EnterCall \/ LeaveCall \/ ReturnToJava \/ StackRunsWild
  BY <1>6, <1>7 DEF EnterCall, LeaveCall, ReturnToJava, StackRunsWild, objectVars
<1>8. CASE ValidateGCHead
  <2>1. PICK o \in Critical : o = checking.object
    BY <1>1, <1>8 DEF HeadTypeOK, ValidateGCHead
  <2>2. o \in Objects  BY <2>1, CriticalObjects
  <2>3. UNCHANGED items /\ UNCHANGED gcrefs  BY <1>8 DEF ValidateGCHead, objectVars
  <2>4. UNCHANGED headVars \/ SyncLinks(o, Visited(items[o]))
    BY <1>8, <2>1 DEF ValidateGCHead
  <2>5. CASE UNCHANGED headVars  BY <1>6, <2>3, <2>5
  <2>6. CASE SyncLinks(o, Visited(items[o])) /\ o \in Lists
    <3> DEFINE s == Visited(items[o])
    <3>1. s \in Seq(Slots)  BY <1>2, <2>2, VisitedSlots
    <3>2. Visited(items'[o]) = s  BY <2>3
    <3>3. SyncLinks(o, s) /\ o \in Lists  BY <2>6
    <3> HIDE DEF s
    <3>4. /\ ObjectInv(o)'
          /\ \A p \in Objects \ {o} : links'[p] = links[p] /\ behind'[p] = behind[p]
      BY <1>1, <2>3, <3>1, <3>2, <3>3, LinksSynced
    <3>5. \A p \in Objects \ {o} : items'[p] = items[p] /\ gcrefs'[p] = gcrefs[p]
      BY <2>3
    <3> QED  BY <1>5, <2>2, <3>4, <3>5
  <2>7. CASE SyncLinks(o, Visited(items[o])) /\ o \in Singles
    <3>1. UNCHANGED <<links, behind>>
      BY <2>7 DEF SyncLinks, SyncedLinks, MissedEnd, headVars
    <3> QED  BY <2>3, <3>1, OtherObject DEF LinkInv
  <2> QED  BY <2>1, <2>4, <2>5, <2>6, <2>7 DEF Critical
<1>9. ASSUME NEW o \in Objects, ExploreNow(o), gcrefs[o] # "free"
      PROVE  LinkInv'
  <2>1. UNCHANGED items /\ links'[o] = ExploredLinks(o) /\ behind'[o] = "nothing"
    BY <1>2, <1>9 DEF ExploreNow
  <2>2. o \in Arrays => ArrayItems(o)  BY <1>9 DEF LinkInv, ObjectInv
  <2>3. ObjectInv(o)'  BY <1>2, <2>1, <2>2, ObjectExplored
  <2>4. \A p \in Objects \ {o} :
           /\ items'[p] = items[p] /\ links'[p] = links[p] /\ gcrefs'[p] = gcrefs[p]
           /\ behind'[p] = behind[p]
    BY <1>2, <1>9, <2>1 DEF ExploreNow
  <2> QED  BY <1>5, <2>3, <2>4
<1>10. ASSUME NEW o \in Objects, ExploreNext(o) \/ ExploreList(o) \/ EndConversion(o)
       PROVE  LinkInv'
  <2>1. CASE ExploreNow(o) /\ gcrefs[o] # "free"  BY <1>9, <2>1
  <2>2. CASE UNCHANGED <<gcrefs, items, headVars>>  BY <1>6, <2>2
  <2> QED
    BY <1>10, <2>1, <2>2
    DEF ExploreNext, ExploreList, EndConversion, ExploreObject, IsUnexplored
<1>11. ASSUME NEW o \in Objects, Track(o) \/ Dealloc(o)
       PROVE  LinkInv'
  <2>1. gcrefs'[o] # "explored"  BY <1>2, <1>11 DEF Track, Dealloc
  <2>2. ASSUME o \in Arrays, gcrefs'[o] # "free"  PROVE ArrayItems(o)'
    <3>1. gcrefs[o] # "free" /\ items'[o] = items[o]
      BY <1>2, <1>11, <2>2 DEF Track, Dealloc
    <3>2. ArrayItems(o)  BY <2>2, <3>1 DEF LinkInv, ObjectInv
    <3> QED  BY <3>1, <3>2 DEF ArrayItems, Filled
  <2>3. ObjectInv(o)'  BY <2>1, <2>2, UnexploredObject
  <2>4. \A p \in Objects \ {o} :
           /\ items'[p] = items[p] /\ links'[p] = links[p] /\ gcrefs'[p] = gcrefs[p]
           /\ behind'[p] = behind[p]
    BY <1>2, <1>11 DEF Track, Dealloc, headVars
  <2> QED  BY <1>5, <2>3, <2>4
<1>12. ASSUME NEW o \in Objects, ReadOldLinks(o)
       PROVE  LinkInv'
  BY <1>6, <1>12 DEF ReadOldLinks, objectVars
<1>13. ASSUME NEW o \in Objects, NEW n \in 0 .. MaxItems,
              NewObject(o, n) \/ BeginConversion(o, n)
       PROVE  LinkInv'
  <2>1. gcrefs'[o] # "explored"  BY <1>2, <1>13 DEF NewObject, BeginConversion
  <2>2. items'[o] = [i \in 1 .. n |-> Null] /\ n \in Nat
    BY <1>2, <1>13, HeadAssumption DEF NewObject, BeginConversion
  <2>3. Len(items'[o]) = n /\ \A i \in 1 .. n : items'[o][i] = Null  BY <2>2
  <2>4. o \in Arrays => n = ArraySize
    BY <1>13, HeadAssumption DEF NewObject, BeginConversion, Sizes
  <2>5. o \in Arrays => ArrayItems(o)'  BY <2>3, <2>4 DEF ArrayItems
  <2>6. ObjectInv(o)'  BY <2>1, <2>5, UnexploredObject
  <2>7. \A p \in Objects \ {o} :
           /\ items'[p] = items[p] /\ links'[p] = links[p] /\ gcrefs'[p] = gcrefs[p]
           /\ behind'[p] = behind[p]
    BY <1>2, <1>13 DEF NewObject, BeginConversion, headVars
  <2> QED  BY <1>5, <2>6, <2>7
<1>14. ASSUME NEW o \in Objects, NEW n \in 0 .. MaxItems, Shrink(o, n)
       PROVE  LinkInv'
  <2> DEFINE s == items[o]
             u == SubSeq(s, 1, n)
             k == links[o]
  <2>1. /\ o \in Lists /\ Filled(o) /\ s # <<>> /\ n \in {0, Len(s) - 1}
        /\ items' = [items EXCEPT ![o] = u]
        /\ UNCHANGED <<gcrefs, links, behind>>
    BY <1>14 DEF Shrink, headVars
  <2>2. s \in Seq(Referents) /\ Visited(s) = s  BY <1>3, <2>1, VisitedFilled
  <2>3. Len(s) \in Nat \ {0} /\ Len(k) \in Nat  BY <1>2, <2>1, <2>2, EmptySeq, LenProperties
  <2>4. n \in 0 .. Len(s) /\ n <= Len(s)  BY <2>1, <2>3
  <2>5. u \in Seq(Referents) /\ Len(u) = n /\ \A j \in 1 .. n : u[j] = s[j]
    BY <2>2, <2>4, FirstOf
  <2>6. items'[o] = u /\ links'[o] = k /\ behind'[o] = behind[o]  BY <1>2, <2>1
  <2>7. Visited(items'[o]) = u  BY <2>5, <2>6, VisitedFilled
  <2> HIDE DEF u, k
  <2>8. ASSUME Explored(o)'  PROVE ListFollows(o)'
    <3>1. ListFollows(o)  BY <2>1, <2>8 DEF Explored, LinkInv, ObjectInv
    <3>2. behind[o] # "change" => Along(s, k) /\ (behind[o] = "nothing" => Len(s) <= Len(k))
      BY <2>2, <3>1 DEF ListFollows, k
    <3>3. Along(s, k) => Along(u, k)  BY <2>3, <2>4, <2>5 DEF Along
    <3>4. Len(s) <= Len(k) => Len(u) <= Len(k)  BY <2>3, <2>4, <2>5
    <3> QED  BY <2>6, <2>7, <3>2, <3>3, <3>4 DEF ListFollows
  <2>9. ObjectInv(o)'  BY <2>1, <2>8, ListKept
  <2>10. \A p \in Objects \ {o} :
           /\ items'[p] = items[p] /\ links'[p] = links[p] /\ gcrefs'[p] = gcrefs[p]
           /\ behind'[p] = behind[p]
    BY <1>2, <2>1
  <2> QED  BY <1>5, <2>9, <2>10
<1>15. ASSUME NEW o \in Objects, NEW s \in Seq(Referents), Fill(o, s)
       PROVE  LinkInv'
  <2>1. /\ gcrefs[o] # "free" /\ Visited(items[o]) = <<>> /\ items[o] # <<>>
        /\ Len(s) = Len(items[o]) /\ items' = [items EXCEPT ![o] = s]
        /\ UNCHANGED <<gcrefs, links>>
        /\ behind' = IF Explored(o) THEN [behind EXCEPT ![o] = "change"] ELSE behind
    BY <1>15 DEF Fill, MarkChanged
  <2>2. ~Filled(o)  BY <2>1 DEF Filled, Visited
  <2>3. items'[o] = s /\ links'[o] = links[o]  BY <1>2, <2>1
  <2>4. s \in Seq(Slots) /\ Filled(o)'  BY <2>3, VisitedFilled, FilledSlots DEF Filled
  <2>5. Explored(o)' <=> Explored(o)  BY <2>1 DEF Explored
  <2>6. Explored(o) => behind'[o] = "change"  BY <1>2, <2>1
  <2>7. CASE o \in Lists
    <3>1. Explored(o)' => ListFollows(o)'  BY <2>5, <2>6 DEF ListFollows
    <3> QED  BY <1>5, <1>2, <2>1, <2>7, <3>1, ListKept
  <2>8. CASE o \in Singles
    <3>1. Explored(o)' => SingleFollows(o)'  BY <2>5, <2>6 DEF SingleFollows
    <3> QED  BY <1>5, <1>2, <2>1, <2>8, <3>1, SingleKept
  <2>9. CASE o \in Arrays
    <3>1. ArrayItems(o)  BY <2>1, <2>9 DEF LinkInv, ObjectInv
    <3>2. ArrayItems(o)'  BY <2>1, <2>3, <2>4, <3>1 DEF ArrayItems
    <3>3. ASSUME Explored(o)'  PROVE ArrayFollows(o)'
      <4>1. ArrayFollows(o)  BY <2>5, <2>9, <3>3 DEF LinkInv, ObjectInv
      <4>2. \A i \in 1 .. ArraySize : items[o][i] = Null
        BY <2>2, <3>1 DEF ArrayItems
      <4>3. \A i \in 1 .. ArraySize : links[o][i] = Null
        BY <4>1, <4>2 DEF ArrayFollows
      <4>4. Len(links'[o]) = ArraySize  BY <2>3, <4>1 DEF ArrayFollows
      <4> QED  BY <2>3, <2>5, <2>6, <3>3, <4>3, <4>4 DEF ArrayFollows
    <3> QED  BY <1>5, <1>2, <2>1, <2>9, <3>2, <3>3, ArrayKept
  <2> QED  BY <2>7, <2>8, <2>9, HeadAssumption
<1>16. ASSUME NEW o \in Objects, NEW s \in Seq(Referents), Replace(o, s)
       PROVE  LinkInv'
  <2>1. /\ o \in Lists
        /\ items' = [items EXCEPT ![o] = s] /\ SyncLinks(o, s)
        /\ UNCHANGED gcrefs
    BY <1>16 DEF Replace
  <2>2. items'[o] = s /\ \A p \in Objects \ {o} : items'[p] = items[p]
    BY <1>2, <2>1
  <2>3. s \in Seq(Slots) /\ Visited(items'[o]) = s  BY <2>2, VisitedFilled
  <2>4. /\ ObjectInv(o)'
        /\ \A p \in Objects \ {o} : links'[p] = links[p] /\ behind'[p] = behind[p]
    BY <1>1, <2>1, <2>3, LinksSynced
  <2> QED  BY <1>5, <2>1, <2>2, <2>4
<1>17. ASSUME NEW o \in Objects, NEW r \in Referents, App1(o, r)
       PROVE  LinkInv'
  <2>1. Replace(o, Append(items[o], r))  BY <1>17 DEF App1
  <2>2. items[o] \in Seq(Referents)  BY <1>3, <2>1 DEF Replace
  <2>3. Append(items[o], r) \in Seq(Referents)  BY <2>2, AppendProperties
  <2> QED  BY <1>16, <2>1, <2>3
<1>18. ASSUME NEW o \in Objects, NEW i \in 1 .. MaxItems + 1, NEW r \in Referents,
              SetItem(o, i, r)
       PROVE  LinkInv'
  <2> DEFINE s == items[o]
             u == [s EXCEPT ![i] = r]
             k == links[o]
             w == links'[o]
  <2>1. /\ i \in DOMAIN s /\ Filled(o) /\ o \notin Singles /\ gcrefs[o] # "free"
        /\ items' = [items EXCEPT ![o][i] = r]
        /\ Explored(o) => links' = SetLink(o, i, r)
        /\ ~Explored(o) => links' = links
        /\ UNCHANGED <<gcrefs, behind>>
    BY <1>18 DEF SetItem, Mutable
  <2>2. s \in Seq(Referents) /\ k \in Seq(Slots)  BY <1>2, <1>3, <2>1
  <2>3. /\ u \in Seq(Referents) /\ Len(u) = Len(s)
        /\ \A j \in 1 .. Len(s) : u[j] = IF j = i THEN r ELSE s[j]
    BY <2>1, <2>2, SlotChanged
  <2>4. items'[o] = u /\ \A p \in Objects \ {o} : items'[p] = items[p]
    BY <1>2, <2>1
  <2>5. \A p \in Objects \ {o} : links'[p] = links[p]
    BY <1>2, <2>1 DEF SetLink
  <2>6. Explored(o)' <=> Explored(o)  BY <2>1 DEF Explored
  <2>7. ObjectInv(o)  BY DEF LinkInv
  <2>8. DOMAIN s = 1 .. Len(s) /\ DOMAIN k = 1 .. Len(k) /\ Len(s) \in Nat /\ Len(k) \in Nat
    BY <2>2, LenProperties
  <2>9. ASSUME Explored(o)
        PROVE  /\ Len(w) = Len(k)
               /\ \A j \in 1 .. Len(k) : w[j] = IF j = i THEN r ELSE k[j]
    <3>1. CASE i \in DOMAIN k
      <4>1. r \in Slots  BY DEF Slots
      <4>2. w = [k EXCEPT ![i] = r]  BY <1>2, <2>1, <2>9, <3>1 DEF SetLink
      <4> QED  BY <2>2, <3>1, <4>1, <4>2, SlotChanged
    <3>2. CASE i \notin DOMAIN k
      <4>1. w = k  BY <2>1, <2>9, <3>2 DEF SetLink
      <4> QED  BY <2>8, <3>2, <4>1
    <3> QED  BY <3>1, <3>2
  <2>10. Visited(s) = s /\ Visited(u) = u /\ Filled(o)'
    BY <2>2, <2>3, <2>4, VisitedFilled, FilledSlots DEF Filled
  <2>11. behind'[o] = behind[o]  BY <2>1
  <2> HIDE DEF u, w
  <2>12. ASSUME o \in Lists  PROVE ObjectInv(o)'
    <3>1. ASSUME Explored(o)'  PROVE ListFollows(o)'
      <4>1. behind[o] # "change" =>
               Along(s, k) /\ (behind[o] = "nothing" => Len(s) <= Len(k))
        BY <2>6, <2>7, <2>10, <2>12, <3>1 DEF ObjectInv, ListFollows
      <4>2. Along(s, k) => Along(u, w)
        BY <2>3, <2>6, <2>8, <2>9, <3>1 DEF Along
      <4>3. Len(s) <= Len(k) => Len(u) <= Len(w)  BY <2>3, <2>6, <2>9, <3>1
      <4>4. behind'[o] # "change" =>
               Along(u, w) /\ (behind'[o] = "nothing" => Len(u) <= Len(w))
        BY <2>11, <4>1, <4>2, <4>3
      <4> QED  BY <2>4, <2>10, <4>4 DEF ListFollows, w
    <3> QED  BY <2>12, <3>1, ListKept
  <2>13. ASSUME o \in Arrays  PROVE ObjectInv(o)'
    <3>1. Len(s) = ArraySize  BY <2>1, <2>7, <2>13 DEF ObjectInv, ArrayItems
    <3>2. ArrayItems(o)'  BY <2>3, <2>4, <2>10, <3>1 DEF ArrayItems
    <3>3. ASSUME Explored(o)'  PROVE ArrayFollows(o)'
      <4>1. ArrayFollows(o)  BY <2>6, <2>7, <2>13, <3>3 DEF ObjectInv
      <4>2. /\ Len(k) = ArraySize /\ behind[o] # "end"
            /\ behind[o] = "nothing" => k = s
            /\ \A j \in 1 .. ArraySize : k[j] \in {Null, s[j]}
        BY <4>1 DEF ArrayFollows
      <4>3. /\ Len(w) = ArraySize
            /\ \A j \in 1 .. ArraySize : w[j] = IF j = i THEN r ELSE k[j]
        BY <2>6, <2>9, <3>3, <4>2
      <4>4. \A j \in 1 .. ArraySize : u[j] = IF j = i THEN r ELSE s[j]
        BY <2>3, <3>1
      <4>5. \A j \in 1 .. ArraySize : w[j] \in {Null, u[j]}  BY <4>2, <4>3, <4>4
      <4>6. ASSUME behind[o] = "nothing"  PROVE w = u
        <5>1. \A j \in 1 .. ArraySize : w[j] = u[j]  BY <4>2, <4>3, <4>4, <4>6
        <5>2. w \in Seq(Slots)  BY DataTyped DEF DataTypeOK, w
        <5>3. u \in Seq(Slots) /\ Len(u) = ArraySize  BY <2>3, <3>1, VisitedFilled
        <5> QED  BY <4>3, <5>1, <5>2, <5>3, SeqEqual
      <4> QED  BY <2>4, <2>11, <4>2, <4>3, <4>5, <4>6 DEF ArrayFollows, w
    <3> QED  BY <2>13, <3>2, <3>3, ArrayKept
  <2>14. ObjectInv(o)'  BY <2>1, <2>12, <2>13, HeadAssumption
  <2> QED  BY <1>5, <2>1, <2>4, <2>5, <2>14
<1>19. ASSUME NEW o \in Objects, NEW i \in 1 .. MaxItems + 1, NEW r \in Referents,
              Insert(o, i, r)
       PROVE  LinkInv'
  <2> DEFINE s == items[o]
             u == InsertAt(s, i, r)
             k == links[o]
             w == InsertAt(k, i, r)
  <2>1. /\ o \in Lists /\ Filled(o) /\ i \in 1 .. Len(s) + 1
        /\ items' = [items EXCEPT ![o] = u]
        /\ Explored(o) /\ i <= Len(k) + 1 => links' = [links EXCEPT ![o] = w]
        /\ Explored(o) /\ ~(i <= Len(k) + 1) => links' = links
        /\ links' = links \/ links' = [links EXCEPT ![o] = w]
        /\ UNCHANGED <<gcrefs, behind>>
    BY <1>19 DEF Insert
  <2>2. s \in Seq(Referents) /\ k \in Seq(Slots)  BY <1>2, <1>3, <2>1
  <2>3. r \in Slots  BY DEF Slots
  <2>4. /\ u \in Seq(Referents) /\ Len(u) = Len(s) + 1
        /\ \A j \in 1 .. Len(s) + 1 :
              u[j] = IF j < i THEN s[j] ELSE IF j = i THEN r ELSE s[j - 1]
    <3>1. i \in 1 .. Len(s) + 1  BY <2>1
    <3> HIDE DEF s
    <3> QED  BY ONLY <2>2, <3>1, SlotInserted, r \in Referents
  <2>5. ASSUME i \in 1 .. Len(k) + 1
        PROVE  /\ Len(w) = Len(k) + 1
               /\ \A j \in 1 .. Len(k) + 1 :
                     w[j] = IF j < i THEN k[j] ELSE IF j = i THEN r ELSE k[j - 1]
    <3> HIDE DEF k, w
    <3>1. k \in Seq(Slots) /\ r \in Slots /\ i \in 1 .. Len(k) + 1  BY <2>2, <2>3, <2>5
    <3>2. w = InsertAt(k, i, r)  BY DEF w
    <3>3. /\ Len(InsertAt(k, i, r)) = Len(k) + 1
          /\ \A j \in 1 .. Len(k) + 1 :
                InsertAt(k, i, r)[j] = IF j < i THEN k[j]
                                       ELSE IF j = i THEN r ELSE k[j - 1]
      BY <3>1, LinkInserted
    <3> QED  BY <3>2, <3>3, Zenon
  <2> HIDE DEF u, w
  <2>6. items'[o] = u /\ \A p \in Objects \ {o} : items'[p] = items[p] /\ links'[p] = links[p]
    BY <1>2, <2>1
  <2>7. Len(s) \in Nat /\ Len(k) \in Nat /\ i \in Nat /\ 1 <= i /\ i <= Len(s) + 1
    BY <2>1, <2>2, LenProperties
  <2>8. Visited(s) = s /\ Visited(u) = u  BY <2>2, <2>4, VisitedFilled
  <2>9. ASSUME Explored(o)'  PROVE ListFollows(o)'
    <3>1. Explored(o)  BY <2>1, <2>9 DEF Explored
    <3>2. behind[o] # "change" =>
             Along(s, k) /\ (behind[o] = "nothing" => Len(s) <= Len(k))
      BY <2>1, <2>8, <3>1 DEF LinkInv, ObjectInv, ListFollows
    <3>3. behind' = behind  BY <2>1
    <3>4. CASE i <= Len(k) + 1
      <4>1. links'[o] = w  BY <1>2, <2>1, <3>1, <3>4
      <4>2. i \in 1 .. Len(k) + 1  BY <2>7, <3>4
      <4>3. ASSUME Along(s, k)  PROVE Along(u, w)
        <5>1. SUFFICES ASSUME NEW j \in 1 .. Len(u), j <= Len(w)  PROVE u[j] = w[j]
          BY DEF Along
        <5>2. j \in 1 .. Len(s) + 1 /\ j \in 1 .. Len(k) + 1
          BY <2>4, <2>5, <2>7, <4>2, <5>1
        <5>3. /\ u[j] = IF j < i THEN s[j] ELSE IF j = i THEN r ELSE s[j - 1]
              /\ w[j] = IF j < i THEN k[j] ELSE IF j = i THEN r ELSE k[j - 1]
          BY <2>4, <2>5, <4>2, <5>2
        <5>4. CASE j < i
          <6>1. j \in 1 .. Len(s) /\ j <= Len(k)  BY <2>7, <3>4, <5>2, <5>4
          <6>2. s[j] = k[j]  BY <4>3, <6>1 DEF Along
          <6> QED  BY <5>3, <5>4, <6>2
        <5>5. CASE j = i
          <6>1. ~(j < i)  BY <2>7, <5>5
          <6> QED  BY <5>3, <5>5, <6>1
        <5>6. CASE ~(j < i) /\ j # i
          <6>1. j - 1 \in 1 .. Len(s) /\ j - 1 <= Len(k)  BY <2>7, <5>2, <5>6
          <6>2. s[j - 1] = k[j - 1]  BY <4>3, <6>1 DEF Along
          <6> QED  BY <5>3, <5>6, <6>2
        <5> QED  BY <5>4, <5>5, <5>6
      <4>4. Len(s) <= Len(k) => Len(u) <= Len(w)  BY <2>4, <2>5, <2>7, <4>2
      <4>5. behind[o] # "change" =>
               Along(u, w) /\ (behind[o] = "nothing" => Len(u) <= Len(w))
        BY <3>2, <4>3, <4>4
      <4> QED  BY <2>6, <2>8, <3>3, <4>1, <4>5 DEF ListFollows
    <3>5. CASE ~(i <= Len(k) + 1)
      <4>1. links'[o] = k  BY <2>1, <3>1, <3>5
      <4>2. ~(Len(s) <= Len(k))  BY <2>7, <3>5
      <4>3. ASSUME Along(s, k)  PROVE Along(u, k)
        <5>1. SUFFICES ASSUME NEW j \in 1 .. Len(u), j <= Len(k)  PROVE u[j] = k[j]
          BY DEF Along
        <5>2. j \in 1 .. Len(s) + 1 /\ j < i /\ j \in 1 .. Len(s)
          BY <2>4, <2>7, <3>5, <4>2, <5>1
        <5>3. u[j] = s[j]  BY <2>4, <5>2
        <5> QED  BY <4>3, <5>1, <5>2, <5>3 DEF Along
      <4>4. behind[o] # "change" => Along(u, k) /\ behind[o] # "nothing"
        BY <3>2, <4>2, <4>3
      <4> QED  BY <2>6, <2>8, <3>3, <4>1, <4>4 DEF ListFollows
    <3> QED  BY <3>4, <3>5
  <2>10. ObjectInv(o)'  BY <2>1, <2>9, ListKept
  <2> QED  BY <1>5, <2>1, <2>6, <2>10
<1>20. ASSUME NEW o \in Objects, NEW i \in 1 .. MaxItems + 1, NEW r \in Referents,
              MacroSet(o, i, r)
       PROVE  LinkInv'
  <2>1. /\ o \in Lists
        /\ items' = [items EXCEPT ![o][i] = r]
        /\ behind' = IF Explored(o) THEN [behind EXCEPT ![o] = "change"] ELSE behind
        /\ UNCHANGED <<gcrefs, links>>
    BY <1>20 DEF MacroSet, MarkChanged
  <2>2. Explored(o)' => behind'[o] = "change"  BY <1>2, <2>1 DEF Explored
  <2>3. ObjectInv(o)'  BY <2>1, <2>2, ListKept DEF ListFollows
  <2>4. \A p \in Objects \ {o} :
           /\ items'[p] = items[p] /\ links'[p] = links[p] /\ gcrefs'[p] = gcrefs[p]
           /\ behind'[p] = behind[p]
    BY <1>2, <2>1
  <2> QED  BY <1>5, <2>3, <2>4
<1>21. ASSUME NEW o \in Objects, NEW r, SetCell(o, r)
       PROVE  LinkInv'
  <2>1. /\ o \in Singles
        /\ items' = [items EXCEPT ![o] = <<r>>]
        /\ behind' = IF Explored(o) THEN [behind EXCEPT ![o] = "change"] ELSE behind
        /\ UNCHANGED <<gcrefs, links>>
    BY <1>21 DEF SetCell, MarkChanged
  <2>2. Explored(o)' => behind'[o] = "change"  BY <1>2, <2>1 DEF Explored
  <2>3. ObjectInv(o)'  BY <2>1, <2>2, SingleKept DEF SingleFollows
  <2>4. \A p \in Objects \ {o} :
           /\ items'[p] = items[p] /\ links'[p] = links[p] /\ gcrefs'[p] = gcrefs[p]
           /\ behind'[p] = behind[p]
    BY <1>2, <2>1
  <2> QED  BY <1>5, <2>3, <2>4
<1>22. \A o \in Objects : Contents(o) \subseteq Seq(Referents) /\ Storable(o) \subseteq Referents
  BY <1>1, StoredSlots
<1> QED
  BY <1>7, <1>8, <1>10, <1>11, <1>12, <1>13, <1>14, <1>15, <1>16, <1>17, <1>18, <1>19,
     <1>20, <1>21, <1>22 DEF HeadNext

LEMMA LinkInvariant == HeadSpec => [](HeadInv /\ LinkInv)
<1>1. HeadInit => LinkInv
  BY DEF HeadInit, LinkInv, ObjectInv, Explored
<1>2. HeadInv /\ LinkInv /\ [HeadNext]_headLinkVars => LinkInv'
  <2> SUFFICES ASSUME HeadInv, LinkInv, [HeadNext]_headLinkVars  PROVE LinkInv'
    OBVIOUS
  <2>1. CASE HeadNext  BY <2>1, LinksKept
  <2>2. CASE UNCHANGED headLinkVars
    BY <2>2, OtherObject DEF LinkInv, headLinkVars, objectVars, headVars
  <2> QED  BY <2>1, <2>2
<1> QED  BY <1>1, <1>2, HeadInvariant, PTL DEF HeadSpec

(* The Java collector sees every reference of every explored object except *)
(* what its links are known to have missed, and then the list and its      *)
(* links agree as far as both go, unless macros changed it, and an array   *)
(* has no link to what it does not hold: exploreJyGCHeadLinks,             *)
(* updateJyGCHeadLink and updateJyGCHeadLinks with their callers.          *)
THEOREM LinksCurrent == HeadSpec => []LinksFollow
<1>1. HeadInv /\ LinkInv => LinksFollow
  <2> SUFFICES ASSUME HeadInv, LinkInv, NEW o \in Objects, Explored(o),
                      ~(behind[o] = "change" /\ o \in Critical)
               PROVE  \/ LinksMatch(o)
                      \/ /\ behind[o] = "change" /\ o \in Arrays
                         /\ \A i \in 1 .. ArraySize : links[o][i] \in {Null, items[o][i]}
                      \/ /\ behind[o] = "end" /\ o \in Lists
                         /\ IsPrefix(links[o], Visited(items[o]))
    BY DEF LinksFollow
  <2> DEFINE v == Visited(items[o])
             k == links[o]
  <2>1. /\ items[o] \in Seq(Slots) /\ k \in Seq(Slots) /\ behind[o] \in Misses
    BY DEF HeadInv, HeadTypeOK, Slots
  <2>2. v \in Seq(Slots)  BY <2>1, VisitedSlots
  <2>3. ObjectInv(o)  BY DEF LinkInv
  <2>4. CASE o \in Lists
    <3>1. behind[o] # "change"  BY <2>4 DEF Critical
    <3>2. Along(v, k) /\ (behind[o] = "nothing" => Len(v) <= Len(k))
      BY <2>3, <2>4, <3>1 DEF ObjectInv, ListFollows
    <3>3. Len(v) \in Nat /\ Len(k) \in Nat  BY <2>1, <2>2, LenProperties
    <3> HIDE DEF v, k
    <3>4. CASE Len(v) <= Len(k)
      <4>1. IsPrefix(v, k)  BY <2>1, <2>2, <3>2, <3>3, <3>4, PrefixAt DEF Along
      <4> QED  BY <2>4, <4>1 DEF LinksMatch, v, k
    <3>5. CASE ~(Len(v) <= Len(k))
      <4>1. Len(k) <= Len(v)  BY <3>3, <3>5
      <4>2. \A j \in 1 .. Len(k) : k[j] = v[j]  BY <3>2, <3>3, <4>1 DEF Along
      <4>3. IsPrefix(k, v)  BY <2>1, <2>2, <4>1, <4>2, PrefixAt
      <4>4. behind[o] = "end"  BY <2>1, <3>1, <3>2, <3>5 DEF Misses
      <4> QED  BY <2>4, <4>3, <4>4 DEF v, k
    <3> QED  BY <3>4, <3>5
  <2>5. CASE o \in Arrays
    <3>1. ArrayFollows(o) /\ o \notin Lists
      BY <2>3, <2>5, HeadAssumption DEF ObjectInv
    <3>2. CASE behind[o] = "nothing"
      BY <2>5, <3>1, <3>2 DEF ArrayFollows, LinksMatch
    <3>3. CASE behind[o] = "change"
      BY <2>5, <3>1, <3>3 DEF ArrayFollows
    <3> QED  BY <2>1, <3>1, <3>2, <3>3 DEF ArrayFollows, Misses
  <2>6. CASE o \in Singles
    <3>1. SingleFollows(o) /\ o \notin Lists /\ o \notin Arrays
      BY <2>3, <2>6, HeadAssumption DEF ObjectInv
    <3>2. behind[o] = "nothing"
      BY <2>1, <2>6, <3>1 DEF SingleFollows, Critical, Misses
    <3> QED  BY <3>1, <3>2 DEF SingleFollows, LinksMatch
  <2> QED  BY <2>4, <2>5, <2>6, HeadAssumption
<1> QED  BY <1>1, LinkInvariant, PTL

(* JyGC_validateGCHead repairs the links of a list, as many as there are,  *)
(* unless they changed since Java read them.                               *)
THEOREM ValidationRepairsLinks == HeadSpec => ValidationRepairs
<1>1. ASSUME HeadInv, [HeadNext]_headLinkVars, NEW o \in Lists,
             o = checking.object, checking' = NotChecking, Explored(o),
             checking.old = links[o]
      PROVE  \/ LinksMatch(o)'
             \/ /\ Len(checking.old) < Len(Visited(items[o]))
                /\ links'[o] = SubSeq(Visited(items[o]), 1, Len(checking.old))
  <2> DEFINE v == Visited(items[o])
             k == links[o]
  <2>1. o \in Objects /\ o # Null /\ o \notin Singles  BY HeadAssumption
  <2>2. /\ links \in [Objects -> Seq(Slots)] /\ items \in [Objects -> Seq(Slots)]
    BY <1>1 DEF HeadInv, HeadTypeOK, Slots
  <2>3. v \in Seq(Slots) /\ k \in Seq(Slots)  BY <2>1, <2>2, VisitedSlots
  <2>4. Len(v) \in Nat /\ Len(k) \in Nat /\ DOMAIN v = 1 .. Len(v)
    BY <2>3, LenProperties
  <2>5. checking' # checking  BY <1>1, <2>1 DEF NotChecking
  <2>6. ValidateGCHead
    <3>1. ASSUME NEW p \in Objects, ReadOldLinks(p)  PROVE FALSE
      <4>1. checking'.object = p  BY <3>1 DEF ReadOldLinks
      <4>2. checking'.object = Null  BY <1>1 DEF NotChecking
      <4> QED  BY <4>1, <4>2, HeadAssumption
    <3>2. CASE \/ EnterCall \/ LeaveCall \/ ReturnToJava \/ StackRunsWild
               \/ UNCHANGED headLinkVars
      BY <2>5, <3>2 DEF EnterCall, LeaveCall, ReturnToJava, StackRunsWild, headLinkVars
    <3>3. ASSUME NEW p \in Objects,
                 \/ ExploreNext(p) \/ ExploreList(p) \/ Track(p) \/ Dealloc(p)
                 \/ EndConversion(p)
          PROVE  FALSE
      BY <2>5, <3>3 DEF ExploreNext, ExploreList, Track, Dealloc, EndConversion
    <3>4. ASSUME NEW p \in Objects,
                 \/ \E n \in 0 .. MaxItems :
                       NewObject(p, n) \/ BeginConversion(p, n) \/ Shrink(p, n)
                 \/ \E c \in Contents(p) : Fill(p, c) \/ Replace(p, c)
                 \/ \E r \in Storable(p) : App1(p, r)
          PROVE  FALSE
      BY <2>5, <3>4 DEF NewObject, BeginConversion, Shrink, Fill, Replace, App1
    <3>5. ASSUME NEW p \in Objects, NEW i, NEW r,
                 SetItem(p, i, r) \/ Insert(p, i, r) \/ MacroSet(p, i, r) \/ SetCell(p, r)
          PROVE  FALSE
      BY <2>5, <3>5 DEF SetItem, Insert, MacroSet, SetCell
    <3> QED  BY <1>1, <3>1, <3>2, <3>3, <3>4, <3>5 DEF HeadNext
  <2>7. items' = items  BY <2>6 DEF ValidateGCHead, objectVars
  <2>8. CASE SyncLinks(o, v)
    <3>1. links' = SyncedLinks(o, v)  BY <1>1, <2>8 DEF SyncLinks
    <3>2. CASE Len(v) <= Len(k)
      <4>1. links' = [links EXCEPT ![o] = v]
        BY <1>1, <2>1, <2>3, <3>1, <3>2, SyncedSlots DEF HeadInv
      <4>2. links'[o] = v  BY <2>1, <2>2, <4>1
      <4>3. IsPrefix(v, v)
        <5> HIDE DEF v
        <5> QED  BY <2>3, <2>4, PrefixAt
      <4> QED  BY <2>7, <4>2, <4>3 DEF LinksMatch
    <3>3. CASE ~(Len(v) <= Len(k))
      <4>1. Len(v) > Len(k) /\ Len(k) < Len(v)  BY <2>4, <3>3
      <4>2. links' = [links EXCEPT ![o] = SubSeq(v, 1, Len(k))]
        BY <1>1, <2>1, <2>3, <3>1, <4>1, SyncedSlots DEF HeadInv
      <4>3. links'[o] = SubSeq(v, 1, Len(k))  BY <2>1, <2>2, <4>2
      <4> QED  BY <1>1, <4>1, <4>3
    <3> QED  BY <3>2, <3>3
  <2>9. CASE ChangedPositions(v, k) = {} /\ UNCHANGED headVars
    <3>1. \A j \in 1 .. Len(v) : ~(j > Len(k)) /\ v[j] = k[j]
      BY <2>4, <2>9 DEF ChangedPositions
    <3> HIDE DEF v, k
    <3>2. Len(v) <= Len(k)
      <4>1. CASE Len(v) = 0  BY <2>4, <4>1
      <4>2. CASE Len(v) # 0
        <5>1. Len(v) \in 1 .. Len(v)  BY <2>4, <4>2
        <5> QED  BY <2>4, <3>1, <5>1
      <4> QED  BY <4>1, <4>2
    <3>3. IsPrefix(v, k)  BY <2>3, <3>1, <3>2, PrefixAt
    <3> QED  BY <2>7, <2>9, <3>3 DEF LinksMatch, headVars, v, k
  <2> QED  BY <1>1, <2>6, <2>8, <2>9 DEF ValidateGCHead
<1>2. HeadInv /\ [HeadNext]_headLinkVars =>
         [\A o \in Lists :
             (/\ o = checking.object
              /\ checking' = NotChecking
              /\ Explored(o)
              /\ checking.old = links[o]) =>
                 \/ LinksMatch(o)'
                 \/ /\ Len(checking.old) < Len(Visited(items[o]))
                    /\ links'[o] = SubSeq(Visited(items[o]), 1, Len(checking.old))]_headLinkVars
  BY <1>1
<1> QED  BY <1>2, HeadInvariant, PTL DEF HeadSpec, ValidationRepairs
=============================================================================
