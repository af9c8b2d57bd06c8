------------------------ MODULE DictIterationProofs ------------------------
(***************************************************************************)
(* For any number of loops, dictionaries and entries, every loop gets the  *)
(* entries of its dictionary in order, and its body is run with all but    *)
(* the last one, unless an exhausted iterator has been left over.          *)
(***************************************************************************)
EXTENDS DictIteration, SequenceTheorems, TLAPS

(* The rest of a sequence behind a position.                               *)
LEMMA RestOfSeq ==
    ASSUME NEW S, NEW s \in Seq(S), NEW i \in 0 .. Len(s)
    PROVE  LET rest == SubSeq(s, i + 1, Len(s))
           IN  /\ rest \in Seq(S)
               /\ rest = <<>> <=> i = Len(s)
               /\ i < Len(s) =>
                     /\ Head(rest) = s[i + 1]
                     /\ Head(rest) \in S
                     /\ Tail(rest) = SubSeq(s, i + 2, Len(s))
<1>1. Len(s) \in Nat  BY LenProperties
<1>2. SubSeq(s, i + 1, Len(s)) \in Seq(S)  BY <1>1, SubSeqProperties
<1>3. Len(SubSeq(s, i + 1, Len(s))) = Len(s) - i  BY <1>1, SubSeqProperties
<1>4. \A k \in 1 .. Len(s) - i : SubSeq(s, i + 1, Len(s))[k] = s[i + k]
  BY <1>1, SubSeqProperties
<1>5. SubSeq(s, i + 1, Len(s)) = <<>> <=> i = Len(s)
  <2> DEFINE r == SubSeq(s, i + 1, Len(s))
  <2>1. r \in Seq(S) /\ Len(r) = Len(s) - i  BY <1>2, <1>3
  <2> HIDE DEF r
  <2>2. r = <<>> <=> Len(r) = 0  BY <2>1, EmptySeq
  <2>3. r = <<>> <=> i = Len(s)  BY <1>1, <2>1, <2>2
  <2> QED  BY <2>3 DEF r
<1>6. ASSUME i < Len(s)
      PROVE  /\ Head(SubSeq(s, i + 1, Len(s))) = s[i + 1]
             /\ Head(SubSeq(s, i + 1, Len(s))) \in S
             /\ Tail(SubSeq(s, i + 1, Len(s))) = SubSeq(s, i + 2, Len(s))
  <2> DEFINE r == SubSeq(s, i + 1, Len(s))
             t == SubSeq(s, i + 2, Len(s))
  <2>1. r # <<>>  BY <1>1, <1>5, <1>6
  <2>2. /\ Head(r) = r[1] /\ Head(r) \in S
        /\ Tail(r) \in Seq(S) /\ Len(Tail(r)) = Len(r) - 1
        /\ \A k \in 1 .. Len(Tail(r)) : Tail(r)[k] = r[k + 1]
    BY <1>2, <2>1, HeadTailProperties
  <2>3. r[1] = s[i + 1]  BY <1>1, <1>4, <1>6
  <2>4. t \in Seq(S) /\ Len(t) = Len(s) - i - 1
    BY <1>1, <1>6, SubSeqProperties
  <2>5. \A k \in 1 .. Len(s) - i - 1 : t[k] = s[i + 1 + k]
    BY <1>1, <1>6, SubSeqProperties
  <2>6. \A k \in 1 .. Len(s) - i - 1 : Tail(r)[k] = s[i + 1 + k]
    <3> TAKE k \in 1 .. Len(s) - i - 1
    <3>1. Len(Tail(r)) = Len(s) - i - 1  BY <1>1, <1>3, <2>2
    <3>2. Tail(r)[k] = r[k + 1]  BY <2>2, <3>1
    <3>3. k + 1 \in 1 .. Len(s) - i  BY <1>1
    <3>4. r[k + 1] = s[i + (k + 1)]  BY <1>4, <3>3
    <3> QED  BY <1>1, <3>2, <3>4
  <2>7. Tail(r) = t
    <3>1. Len(Tail(r)) = Len(t)  BY <1>1, <1>3, <2>2, <2>4
    <3> HIDE DEF r, t
    <3> QED  BY <1>1, <2>2, <2>4, <2>5, <2>6, <3>1, SeqEqual
  <2> QED  BY <2>2, <2>3, <2>7
<1> QED  BY <1>2, <1>5, <1>6

(* A prefix grows by the next element.                                     *)
LEMMA PrefixGrows ==
    ASSUME NEW S, NEW s \in Seq(S), NEW i \in 0 .. Len(s), i < Len(s)
    PROVE  Append(SubSeq(s, 1, i), s[i + 1]) = SubSeq(s, 1, i + 1)
<1>1. Len(s) \in Nat  BY LenProperties
<1>2. s[i + 1] \in S  BY <1>1, ElementOfSeq
<1>3. /\ SubSeq(s, 1, i) \in Seq(S) /\ Len(SubSeq(s, 1, i)) = i
      /\ \A k \in 1 .. i : SubSeq(s, 1, i)[k] = s[k]
  BY <1>1, SubSeqProperties
<1>4. /\ SubSeq(s, 1, i + 1) \in Seq(S) /\ Len(SubSeq(s, 1, i + 1)) = i + 1
      /\ \A k \in 1 .. i + 1 : SubSeq(s, 1, i + 1)[k] = s[k]
  BY <1>1, SubSeqProperties
<1> DEFINE p == SubSeq(s, 1, i)
<1> DEFINE q == SubSeq(s, 1, i + 1)
<1>5. /\ Append(p, s[i + 1]) \in Seq(S) /\ Len(Append(p, s[i + 1])) = i + 1
      /\ \A k \in 1 .. i : Append(p, s[i + 1])[k] = p[k]
      /\ Append(p, s[i + 1])[i + 1] = s[i + 1]
  BY <1>2, <1>3, AppendProperties
<1>6. \A k \in 1 .. i + 1 : Append(p, s[i + 1])[k] = q[k]
  BY <1>1, <1>3, <1>4, <1>5
<1> HIDE DEF p, q
<1>7. q \in Seq(S) /\ Len(q) = i + 1  BY <1>4 DEF q
<1> QED  BY <1>5, <1>6, <1>7, SeqEqual DEF p, q

LEMMA WholeSeq ==
    ASSUME NEW S, NEW s \in Seq(S)
    PROVE  SubSeq(s, 1, Len(s)) = s /\ SubSeq(s, 1, 0) = <<>>
<1>1. Len(s) \in Nat  BY LenProperties
<1>2. /\ SubSeq(s, 1, Len(s)) \in Seq(S) /\ Len(SubSeq(s, 1, Len(s))) = Len(s)
      /\ \A k \in 1 .. Len(s) : SubSeq(s, 1, Len(s))[k] = s[k]
  BY <1>1, SubSeqProperties
<1>3. SubSeq(s, 1, 0) \in Seq(S) /\ Len(SubSeq(s, 1, 0)) = 0
  BY <1>1, SubSeqProperties
<1>4. SubSeq(s, 1, Len(s)) = s  BY <1>2, SeqEqual
<1> QED  BY <1>3, <1>4, EmptySeq
-----------------------------------------------------------------------------
(* The inductive invariant.                                                *)

(* The entries of a dictionary behind a position.                          *)
Rest(d, i) == SubSeq(entries[d], i + 1, Len(entries[d]))

(* The call that gives the last entry ends the loop.                       *)
PositionInv ==
    \A x \in Loops : Running(x) =>
        /\ ppos[x] \in 0 .. Len(entries[over[x]])
        /\ ppos[x] = 0 \/ ppos[x] < Len(entries[over[x]])

(* The cached iterator is right for every loop that can take it up, or it  *)
(* is an exhausted one of a dictionary that got entries since.             *)
CursorInv ==
    \A x \in Loops :
        (Running(x) /\ over[x] = lastDict /\ ppos[x] = lastDictIndex) =>
            \/ dictIterator = Rest(over[x], ppos[x])
            \/ Stale(over[x])

(* The position stays 0 only after a call that found nothing.              *)
EmptyInv ==
    (lastDict # None /\ lastDictIndex = 0) => dictIterator = <<>>

IterInv == DictTypeOK /\ PositionInv /\ EntriesInOrder /\ CursorInv /\ EmptyInv

LEMMA ContentsAreSeqs == Contents \subseteq Seq(Keys)
BY DEF Contents

(* Whichever iterator is used, it goes on at the position of the loop.     *)
LEMMA ResumeExact ==
    ASSUME IterInv, NEW x \in Loops, Running(x)
    PROVE  /\ Resume(over[x], ppos[x]).index = ppos[x]
           /\ \/ Resume(over[x], ppos[x]).rest = Rest(over[x], ppos[x])
              \/ /\ Stale(over[x]) /\ ppos[x] = 0
                 /\ Resume(over[x], ppos[x]).rest = <<>>
<1>1. over[x] \in Dicts  BY DEF IterInv, DictTypeOK, Running
<1>2. entries[over[x]] \in Seq(Keys)  BY <1>1 DEF IterInv, DictTypeOK
<1>3. Len(entries[over[x]]) \in Nat  BY <1>2, LenProperties
<1>4. ppos[x] \in 0 .. Len(entries[over[x]])  BY DEF IterInv, PositionInv
<1>5. CASE over[x] = lastDict /\ ppos[x] = lastDictIndex
  <2>1. \/ dictIterator = Rest(over[x], ppos[x])
        \/ Stale(over[x]) /\ ppos[x] = 0 /\ dictIterator = <<>>
    BY <1>5 DEF IterInv, CursorInv, Stale
  <2>2. Resume(over[x], ppos[x]) = [index |-> lastDictIndex, rest |-> dictIterator]
    BY <1>5 DEF Resume
  <2> QED  BY <1>5, <2>1, <2>2
<1>6. CASE ~(over[x] = lastDict /\ ppos[x] = lastDictIndex)
  <2>1. Resume(over[x], ppos[x]) =
            [index |-> Min2(ppos[x], Len(entries[over[x]]) + 1),
             rest |-> Rest(over[x], ppos[x])]
    BY <1>6 DEF Resume, Rest
  <2>2. Min2(ppos[x], Len(entries[over[x]]) + 1) = ppos[x]
    BY <1>3, <1>4 DEF Min2
  <2> QED  BY <2>1, <2>2
<1> QED  BY <1>5, <1>6

(* What a call with something left does, in terms of the loop alone.       *)
LEMMA EntryEffect ==
    ASSUME IterInv, NEW x \in Loops, NextEntry(x)
    PROVE  LET d == over[x]
               n == Len(entries[d])
               i == ppos[x]
           IN  /\ d \in Dicts /\ Running(x)
               /\ n \in Nat /\ i \in 0 .. n /\ i < n
               /\ lastDict' = d
               /\ lastDictIndex' = IF i + 1 = n THEN -(i + 1) ELSE i + 1
               /\ dictIterator' = Rest(d, i + 1)
               /\ dictIterator' \in Seq(Keys)
               /\ ppos' = [ppos EXCEPT ![x] = i + 1]
               /\ entries[d][i + 1] \in Keys
               /\ stored' = [stored EXCEPT ![x] = Append(@, entries[d][i + 1])]
               /\ stored'[x] = SubSeq(entries[d], 1, i + 1)
               /\ IF i + 1 = n
                  THEN over' = [over EXCEPT ![x] = None] /\ UNCHANGED seen
                  ELSE /\ seen' = [seen EXCEPT ![x] = Append(@, entries[d][i + 1])]
                       /\ UNCHANGED over
               /\ entries' = entries
<1> DEFINE d == over[x]
           n == Len(entries[d])
           i == ppos[x]
           c == Resume(d, i)
<1>1. Running(x)  BY DEF NextEntry
<1>2. d \in Dicts  BY <1>1 DEF IterInv, DictTypeOK, Running
<1>3. entries[d] \in Seq(Keys)  BY <1>2 DEF IterInv, DictTypeOK
<1>4. n \in Nat  BY <1>3, LenProperties
<1>5. i \in 0 .. n  BY <1>1 DEF IterInv, PositionInv
<1>6. c.rest # <<>>  BY DEF NextEntry
<1>7. c.index = i /\ c.rest = Rest(d, i)  BY <1>1, <1>6, ResumeExact
<1>8. /\ Rest(d, i) = <<>> <=> i = n
      /\ i < n => /\ Head(Rest(d, i)) = entries[d][i + 1]
                  /\ Head(Rest(d, i)) \in Keys
                  /\ Tail(Rest(d, i)) = Rest(d, i + 1)
  <2>1. i + 2 = (i + 1) + 1  BY <1>4, <1>5
  <2> HIDE DEF i
  <2> QED  BY <1>3, <1>5, <2>1, RestOfSeq DEF Rest
<1>9. i < n  BY <1>4, <1>5, <1>6, <1>7, <1>8
<1>10. Rest(d, i + 1) \in Seq(Keys)
  BY <1>3, <1>4, <1>5, <1>9, RestOfSeq DEF Rest
<1>11. Signed(i + 1, d) = IF i + 1 = n THEN -(i + 1) ELSE i + 1
  BY DEF Signed
<1>12. Signed(i + 1, d) < 0 <=> i + 1 = n
  BY <1>4, <1>5, <1>11
<1>13. stored[x] = SubSeq(entries[d], 1, i)
  BY <1>1 DEF IterInv, EntriesInOrder
<1>14. Append(stored[x], entries[d][i + 1]) = SubSeq(entries[d], 1, i + 1)
  BY <1>3, <1>5, <1>9, <1>13, PrefixGrows
<1>15. stored' = [stored EXCEPT ![x] = Append(@, entries[d][i + 1])]
  BY <1>7, <1>8, <1>9 DEF NextEntry
<1>16. stored'[x] = SubSeq(entries[d], 1, i + 1)
  BY <1>14, <1>15 DEF IterInv, DictTypeOK
<1>17. /\ lastDict' = d /\ lastDictIndex' = Signed(i + 1, d)
       /\ dictIterator' = Rest(d, i + 1)
       /\ ppos' = [ppos EXCEPT ![x] = i + 1]
       /\ entries' = entries
  BY <1>7, <1>8, <1>9 DEF NextEntry
<1>18. IF Signed(i + 1, d) < 0
       THEN over' = [over EXCEPT ![x] = None] /\ UNCHANGED seen
       ELSE /\ seen' = [seen EXCEPT ![x] = Append(@, entries[d][i + 1])]
            /\ UNCHANGED over
  BY <1>7, <1>8, <1>9 DEF NextEntry, StopLoop
<1> QED
  BY <1>1, <1>2, <1>4, <1>5, <1>8, <1>9, <1>10, <1>11, <1>12, <1>15, <1>16,
     <1>17, <1>18

(* What a call with nothing left does.                                     *)
LEMMA NoneEffect ==
    ASSUME IterInv, NEW x \in Loops, NextNone(x)
    PROVE  /\ over[x] \in Dicts /\ Running(x)
           /\ \/ /\ ppos[x] = Len(entries[over[x]])
                 /\ Rest(over[x], ppos[x]) = <<>>
              \/ Stale(over[x]) /\ ppos[x] = 0
           /\ lastDict' = over[x]
           /\ lastDictIndex' = ppos[x]
           /\ dictIterator' = <<>>
           /\ over' = [over EXCEPT ![x] = None]
           /\ UNCHANGED <<entries, ppos, stored, seen>>
<1>1. Running(x)  BY DEF NextNone
<1>2. over[x] \in Dicts  BY <1>1 DEF IterInv, DictTypeOK, Running
<1>3. entries[over[x]] \in Seq(Keys)  BY <1>2 DEF IterInv, DictTypeOK
<1>4. ppos[x] \in 0 .. Len(entries[over[x]])  BY <1>1 DEF IterInv, PositionInv
<1>5. Resume(over[x], ppos[x]).rest = <<>>  BY DEF NextNone
<1>6. /\ Resume(over[x], ppos[x]).index = ppos[x]
      /\ \/ Rest(over[x], ppos[x]) = <<>>
         \/ Stale(over[x]) /\ ppos[x] = 0
  BY <1>1, <1>5, ResumeExact
<1>7. Rest(over[x], ppos[x]) = <<>> <=> ppos[x] = Len(entries[over[x]])
  BY <1>3, <1>4, RestOfSeq DEF Rest
<1>8. /\ lastDict' = over[x] /\ lastDictIndex' = ppos[x] /\ dictIterator' = <<>>
      /\ over' = [over EXCEPT ![x] = None]
      /\ UNCHANGED <<entries, ppos, stored, seen>>
  BY <1>6 DEF NextNone, StopLoop
<1> QED  BY <1>1, <1>2, <1>6, <1>7, <1>8

-----------------------------------------------------------------------------
LEMMA IterInvInit == DictInit => IterInv
<1> SUFFICES ASSUME DictInit PROVE IterInv  OBVIOUS
<1>1. <<>> \in Seq(Keys)  BY EmptySeq
<1>2. entries \in [Dicts -> Seq(Keys)]  BY ContentsAreSeqs DEF DictInit
<1>3. DictTypeOK  BY <1>1, <1>2 DEF DictInit, DictTypeOK
<1>4. \A x \in Loops : ~Running(x)  BY DEF DictInit, Running
<1>5. PositionInv /\ EntriesInOrder /\ CursorInv
  BY <1>4 DEF PositionInv, EntriesInOrder, CursorInv
<1>6. EmptyInv  BY DEF DictInit, EmptyInv
<1> QED  BY <1>3, <1>5, <1>6 DEF IterInv

LEMMA IterInvStart ==
    ASSUME IterInv, NEW x \in Loops, NEW d \in Dicts, StartLoop(x, d)
    PROVE  IterInv'
<1>1. <<>> \in Seq(Keys)  BY EmptySeq
<1>2. DictTypeOK'
  BY <1>1 DEF IterInv, DictTypeOK, StartLoop, cursorVars
<1>3. /\ over'[x] = d /\ ppos'[x] = 0 /\ stored'[x] = <<>> /\ seen'[x] = <<>>
      /\ entries' = entries
      /\ lastDict' = lastDict /\ lastDictIndex' = lastDictIndex
      /\ dictIterator' = dictIterator
  BY DEF StartLoop, cursorVars, IterInv, DictTypeOK
<1>4. \A z \in Loops \ {x} : /\ over'[z] = over[z] /\ ppos'[z] = ppos[z]
                             /\ stored'[z] = stored[z] /\ seen'[z] = seen[z]
  BY DEF StartLoop, IterInv, DictTypeOK
<1>5. entries[d] \in Seq(Keys) /\ Len(entries[d]) \in Nat
  BY LenProperties DEF IterInv, DictTypeOK
<1>6. PositionInv'
  BY <1>3, <1>4, <1>5 DEF IterInv, PositionInv, Running
<1>7. SubSeq(entries[d], 1, 0) = <<>>  BY <1>5, WholeSeq
<1>8. EntriesInOrder'
  BY <1>3, <1>4, <1>7 DEF IterInv, EntriesInOrder, Running
<1>9. EmptyInv'  BY <1>3 DEF IterInv, EmptyInv
<1>10. (d = lastDict /\ 0 = lastDictIndex) => Stale(d)
  BY DictAssumption DEF IterInv, EmptyInv, Stale
<1>11. CursorInv'
  BY <1>3, <1>4, <1>10 DEF IterInv, CursorInv, Running, Rest, Stale
<1> QED  BY <1>2, <1>6, <1>8, <1>9, <1>11 DEF IterInv

LEMMA IterInvBreak ==
    ASSUME IterInv, NEW x \in Loops, Break(x)
    PROVE  IterInv'
<1>1. DictTypeOK'
  BY DEF IterInv, DictTypeOK, Break, StopLoop, cursorVars
<1>2. \A z \in Loops : Running(z)' => Running(z) /\ over'[z] = over[z]
  BY DEF Running, Break, StopLoop, IterInv, DictTypeOK
<1>3. UNCHANGED <<entries, lastDict, lastDictIndex, dictIterator, ppos, stored, seen>>
  BY DEF Break, cursorVars
<1>4. PositionInv' /\ EntriesInOrder' /\ CursorInv'
  BY <1>2, <1>3 DEF IterInv, PositionInv, EntriesInOrder, CursorInv, Rest, Stale
<1>5. EmptyInv'  BY <1>3 DEF IterInv, EmptyInv
<1> QED  BY <1>1, <1>4, <1>5 DEF IterInv

LEMMA IterInvMutate ==
    ASSUME IterInv, NEW d \in Dicts, NEW s \in Contents, Mutate(d, s)
    PROVE  IterInv'
<1>1. UNCHANGED <<lastDict, lastDictIndex, dictIterator, over, ppos, stored, seen>>
  BY DEF Mutate, cursorVars, loopVars
<1>2. DictTypeOK'
  BY <1>1, ContentsAreSeqs DEF IterInv, DictTypeOK, Mutate
<1>3. \A z \in Loops : Running(z)' => Running(z) /\ entries'[over[z]] = entries[over[z]]
  BY <1>1 DEF Running, Mutate, IterInv, DictTypeOK
<1>4. PositionInv' /\ EntriesInOrder' /\ CursorInv'
  BY <1>1, <1>3 DEF IterInv, PositionInv, EntriesInOrder, CursorInv, Rest, Stale
<1>5. EmptyInv'
  BY <1>1 DEF IterInv, EmptyInv, Mutate, DictTypeOK
<1> QED  BY <1>2, <1>4, <1>5 DEF IterInv

LEMMA IterInvNone ==
    ASSUME IterInv, NEW x \in Loops, NextNone(x)
    PROVE  IterInv'
<1>1. /\ over[x] \in Dicts /\ Running(x)
      /\ \/ /\ ppos[x] = Len(entries[over[x]])
            /\ Rest(over[x], ppos[x]) = <<>>
         \/ Stale(over[x]) /\ ppos[x] = 0
      /\ lastDict' = over[x] /\ lastDictIndex' = ppos[x] /\ dictIterator' = <<>>
      /\ over' = [over EXCEPT ![x] = None]
      /\ UNCHANGED <<entries, ppos, stored, seen>>
  BY NoneEffect
<1>2. DictTypeOK'
  BY <1>1, EmptySeq DEF IterInv, DictTypeOK
<1>3. \A z \in Loops : Running(z)' => Running(z) /\ over'[z] = over[z]
  BY <1>1 DEF Running, IterInv, DictTypeOK
<1>4. PositionInv' /\ EntriesInOrder'
  BY <1>1, <1>3 DEF IterInv, PositionInv, EntriesInOrder
<1>5. CursorInv'
  BY <1>1, <1>3 DEF CursorInv, Rest, Stale
<1>6. EmptyInv'
  BY <1>1 DEF EmptyInv
<1> QED  BY <1>2, <1>4, <1>5, <1>6 DEF IterInv

LEMMA IterInvEntry ==
    ASSUME IterInv, NEW x \in Loops, NextEntry(x)
    PROVE  IterInv'
<1> DEFINE d == over[x]
           n == Len(entries[d])
           i == ppos[x]
<1>1. /\ d \in Dicts /\ Running(x)
      /\ n \in Nat /\ i \in 0 .. n /\ i < n
      /\ lastDict' = d
      /\ lastDictIndex' = IF i + 1 = n THEN -(i + 1) ELSE i + 1
      /\ dictIterator' = Rest(d, i + 1)
      /\ dictIterator' \in Seq(Keys)
      /\ ppos' = [ppos EXCEPT ![x] = i + 1]
      /\ entries[d][i + 1] \in Keys
      /\ stored' = [stored EXCEPT ![x] = Append(@, entries[d][i + 1])]
      /\ stored'[x] = SubSeq(entries[d], 1, i + 1)
      /\ IF i + 1 = n
         THEN over' = [over EXCEPT ![x] = None] /\ UNCHANGED seen
         ELSE /\ seen' = [seen EXCEPT ![x] = Append(@, entries[d][i + 1])]
              /\ UNCHANGED over
      /\ entries' = entries
  BY EntryEffect
<1>2. stored[x] \in Seq(Keys) /\ seen[x] \in Seq(Keys)
  BY DEF IterInv, DictTypeOK
<1>3. /\ Append(stored[x], entries[d][i + 1]) \in Seq(Keys)
      /\ Append(seen[x], entries[d][i + 1]) \in Seq(Keys)
  BY <1>1, <1>2, AppendProperties
<1>4. DictTypeOK'
  <2>1. stored' \in [Loops -> Seq(Keys)]  BY <1>1, <1>3 DEF IterInv, DictTypeOK
  <2>2. seen' \in [Loops -> Seq(Keys)]  BY <1>1, <1>3 DEF IterInv, DictTypeOK
  <2>3. over' \in [Loops -> Dicts \cup {None}]  BY <1>1 DEF IterInv, DictTypeOK
  <2>4. ppos' \in [Loops -> Nat]  BY <1>1 DEF IterInv, DictTypeOK
  <2>5. lastDictIndex' \in Int  BY <1>1
  <2>6. /\ entries' \in [Dicts -> Seq(Keys)] /\ lastDict' \in Dicts \cup {None}
        /\ dictIterator' \in Seq(Keys)
    BY <1>1 DEF IterInv, DictTypeOK
  <2> QED  BY <2>1, <2>2, <2>3, <2>4, <2>5, <2>6 DEF DictTypeOK
<1>5. \A z \in Loops \ {x} : /\ over'[z] = over[z] /\ ppos'[z] = ppos[z]
                             /\ stored'[z] = stored[z] /\ seen'[z] = seen[z]
  BY <1>1 DEF IterInv, DictTypeOK
<1>6. Running(x)' => over'[x] = d /\ i + 1 # n
  BY <1>1 DEF Running, IterInv, DictTypeOK
<1>7. ppos'[x] = i + 1  BY <1>1 DEF IterInv, DictTypeOK
<1>8. PositionInv'
  BY <1>1, <1>5, <1>6, <1>7 DEF IterInv, PositionInv, Running
<1>9. Running(x)' => seen'[x] = stored'[x]
  <2>1. seen[x] = stored[x]  BY <1>1 DEF IterInv, EntriesInOrder
  <2> QED  BY <1>1, <1>6, <2>1 DEF IterInv, DictTypeOK
<1>10. EntriesInOrder'
  BY <1>1, <1>5, <1>6, <1>7, <1>9 DEF IterInv, EntriesInOrder, Running
<1>11. CursorInv'
  <2> SUFFICES ASSUME NEW z \in Loops, Running(z)', over'[z] = lastDict',
                      ppos'[z] = lastDictIndex'
               PROVE  dictIterator' = Rest(over[z], ppos[z])'
    BY DEF CursorInv
  <2>1. over'[z] = d  BY <1>1
  <2>2. ppos'[z] \in Nat  BY <1>4 DEF DictTypeOK
  <2>3. lastDictIndex' = i + 1  BY <1>1, <2>2
  <2> QED  BY <1>1, <2>1, <2>3 DEF Rest
<1>12. EmptyInv'
  <2>1. lastDictIndex' # 0  BY <1>1
  <2> QED  BY <2>1 DEF EmptyInv
<1> QED  BY <1>4, <1>8, <1>10, <1>11, <1>12 DEF IterInv

LEMMA IterInvNext == IterInv /\ [DictNext]_dictVars => IterInv'
<1> SUFFICES ASSUME IterInv, [DictNext]_dictVars PROVE IterInv'  OBVIOUS
<1>1. CASE UNCHANGED dictVars
  BY <1>1 DEF dictVars, cursorVars, loopVars, IterInv, DictTypeOK, PositionInv,
              EntriesInOrder, CursorInv, EmptyInv, Running, Rest, Stale
<1>2. CASE DictNext
  <2>1. ASSUME NEW x \in Loops, NEW d \in Dicts, StartLoop(x, d) PROVE IterInv'
    BY <2>1, IterInvStart
  <2>2. ASSUME NEW x \in Loops, Break(x) PROVE IterInv'
    BY <2>2, IterInvBreak
  <2>3. ASSUME NEW x \in Loops, NextNone(x) PROVE IterInv'
    BY <2>3, IterInvNone
  <2>4. ASSUME NEW x \in Loops, NextEntry(x) PROVE IterInv'
    BY <2>4, IterInvEntry
  <2>5. ASSUME NEW d \in Dicts, NEW s \in Contents, Mutate(d, s) PROVE IterInv'
    BY <2>5, IterInvMutate
  <2> QED  BY <1>2, <2>1, <2>2, <2>3, <2>4, <2>5 DEF DictNext
<1> QED  BY <1>1, <1>2

LEMMA IterInvHolds == DictSpec => []IterInv
BY IterInvInit, IterInvNext, PTL DEF DictSpec

(* The cursor and the loops keep their types: in particular the position   *)
(* that PyDict_Next hands back is never negative.                          *)
THEOREM DictTypeCorrect == DictSpec => []DictTypeOK
<1>1. IterInv => DictTypeOK  BY DEF IterInv
<1> QED  BY <1>1, IterInvHolds, PTL

(* However the calls of the loops alternate, PyDict_Next gives every loop  *)
(* the entries of its dictionary in order and without repetition.          *)
THEOREM InOrder == DictSpec => []EntriesInOrder
<1>1. IterInv => EntriesInOrder  BY DEF IterInv
<1> QED  BY <1>1, IterInvHolds, PTL

(* Whatever happens to the dictionaries between the loops and to the       *)
(* cached iterator during them, the body of a loop that PyDict_Next ends   *)
(* has been run with all entries but the last one, or with none after an   *)
(* iterator left by a loop over the then empty dictionary.                 *)
THEOREM AllButTheLastSeen == DictSpec => SeenButLast
<1>1. ASSUME IterInv, NEW x \in Loops, Ends(x)
      PROVE  \/ seen'[x] = AllButLast(entries[over[x]])
             \/ Stale(over[x]) /\ ppos[x] = 0 /\ seen'[x] = <<>>
  <2>1. over[x] # None /\ over'[x] = None /\ (NextNone(x) \/ NextEntry(x))
    BY <1>1 DEF Ends
  <2>2. over[x] \in Dicts  BY <1>1, <2>1 DEF IterInv, DictTypeOK
  <2>3. entries[over[x]] \in Seq(Keys) /\ Len(entries[over[x]]) \in Nat
    BY <1>1, <2>2, LenProperties DEF IterInv, DictTypeOK
  <2>4. /\ seen[x] = SubSeq(entries[over[x]], 1, ppos[x])
        /\ ppos[x] = 0 \/ ppos[x] < Len(entries[over[x]])
    BY <1>1, <2>1 DEF IterInv, EntriesInOrder, PositionInv, Running
  <2>5. CASE NextNone(x)
    <3>1. /\ \/ ppos[x] = Len(entries[over[x]])
             \/ Stale(over[x]) /\ ppos[x] = 0
          /\ seen' = seen
      BY <1>1, <2>5, NoneEffect
    <3>2. CASE ppos[x] = Len(entries[over[x]])
      <4>1. ppos[x] = 0 /\ Len(entries[over[x]]) = 0  BY <2>3, <2>4, <3>2
      <4>2. entries[over[x]] = <<>>  BY <2>3, <4>1, EmptySeq
      <4>3. seen'[x] = <<>>  BY <2>3, <2>4, <3>1, <4>1, WholeSeq
      <4>4. SubSeq(entries[over[x]], 1, -1) = <<>>
        BY <2>3, <4>1, SubSeqProperties, EmptySeq
      <4> QED  BY <4>1, <4>3, <4>4 DEF AllButLast
    <3>3. CASE Stale(over[x]) /\ ppos[x] = 0
      BY <2>3, <2>4, <3>1, <3>3, WholeSeq
    <3> QED  BY <3>1, <3>2, <3>3
  <2>6. CASE NextEntry(x)
    <3>1. /\ ppos[x] + 1 # Len(entries[over[x]]) => over' = over
          /\ ppos[x] + 1 = Len(entries[over[x]]) => seen' = seen
          /\ ppos[x] \in 0 .. Len(entries[over[x]])
      BY <1>1, <2>6, EntryEffect
    <3>2. ppos[x] = Len(entries[over[x]]) - 1 /\ seen' = seen
      BY <2>1, <2>3, <3>1
    <3> QED  BY <2>4, <3>2 DEF AllButLast
  <2> QED  BY <2>1, <2>5, <2>6
<1>2. IterInv => \A x \in Loops : Ends(x) =>
          \/ seen'[x] = AllButLast(entries[over[x]])
          \/ Stale(over[x]) /\ ppos[x] = 0 /\ seen'[x] = <<>>
  BY <1>1
<1> QED  BY <1>2, IterInvHolds, PTL DEF SeenButLast
=============================================================================
