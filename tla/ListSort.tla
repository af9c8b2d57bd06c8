------------------------------ MODULE ListSort ------------------------------
(***************************************************************************)
(* listsort: the natural mergesort of native lists.  A step is as long as  *)
(* the code runs without moving elements for a second time; before each    *)
(* comparison, user code may raise an exception, which ends the sort, or   *)
(* change the list, which is made to look empty while it is sorted.        *)
(*                                                                         *)
(* The comparison orders the items by a key, or it answers arbitrarily.    *)
(***************************************************************************)
EXTENDS Integers, Sequences, SequencesExt

CONSTANTS
    Inputs,     (* the keys of lists that are sorted in order of the keys  *)
    Lengths,    (* of lists whose comparisons answer arbitrarily           *)
    RunLimit,   (* 64 in merge_compute_minrun                              *)
    MIN_GALLOP

ASSUME SortAssumption ==
    /\ Inputs \subseteq Seq(Int)
    /\ Lengths \subseteq Nat
    /\ RunLimit \in Nat \ {0, 1}
    /\ MIN_GALLOP \in Nat \ {0}

VARIABLES
    input,      (* the items before the sort                               *)
    ordered,    (* does the comparison order the items by their keys?      *)
    reverse,
    shown,      (* what others see of the list                             *)
    touched,    (* allocated is no longer -1                               *)
    slice,      (* saved_ob_item, as it was before the merge under way     *)
    run,        (* the next run: its sorted part and its planned length    *)
    pending,    (* the stack of pending runs                               *)
    merge,      (* the merge under way                                     *)
    minGallop,
    stage

sortVars == <<input, ordered, reverse, shown, touched, slice, run, pending,
              merge, minGallop, stage>>

Item == [key : Int, place : Nat]

(* struct s_slice.                                                         *)
Slice == [base : Nat, len : Nat \ {0}]

NoMerge == [dir |-> "none"]

(* What is left of the runs a and b, which begin at base, and what has its *)
(* final place.  merge_lo ("lo") works upwards and has a in the temporary  *)
(* array, merge_hi downwards and has b there.                              *)
Merge == [dir : {"lo", "hi"}, base : Nat,
          a : Seq(Item), b : Seq(Item), out : Seq(Item),
          mode : {"single", "gallop a", "gallop b"}, acount : Nat, bcount : Nat]

TypeOfMerge(m) ==
    \/ m = NoMerge
    \/ /\ m \in Merge
       /\ m.base <= Len(slice)
       /\ m.a # << >> /\ m.b # << >> /\ m.out # << >>
       /\ m.acount <= Len(m.out) /\ m.bcount <= Len(m.out)
       /\ Len(IF m.dir = "lo" THEN m.a ELSE m.b) > 1

Drop(s, k) == SubSeq(s, k + 1, Len(s))
Take(s, k) == SubSeq(s, 1, k)

(* Where the next run begins.                                              *)
End(p) == IF p = << >> THEN 0 ELSE Last(p).base + Last(p).len
lo == End(pending)

Adjacent(p) == \A i \in DOMAIN p : p[i].base = End(Take(p, i - 1))

(* The assertions of the merges, na > 1 and nb > 0 or the reverse and      *)
(* pa + na = pb, of binarysort and of the end of listsort are part of the  *)
(* type.                                                                   *)
SortTypeOK ==
    /\ input \in Seq(Item) /\ shown \in Seq(Item) /\ slice \in Seq(Item)
    /\ ordered \in BOOLEAN /\ reverse \in BOOLEAN /\ touched \in BOOLEAN
    /\ run \in [sorted : Nat, length : Nat] /\ run.sorted <= run.length
    /\ pending \in Seq(Slice) /\ Adjacent(pending)
    /\ lo + run.length <= Len(input)
    /\ stage = "sorted" /\ Len(input) > 1 => pending = <<[base |-> 0, len |-> Len(input)]>>
    /\ TypeOfMerge(merge)
    /\ minGallop \in Nat \ {0}
    /\ stage \in {"start", "run", "insert", "collapse", "force", "sorted",
                  "failed", "returned", "raised"}

SortInit ==
    /\ ordered \in BOOLEAN
    /\ reverse \in BOOLEAN
    /\ \E keys \in IF ordered THEN Inputs ELSE {[i \in 1 .. n |-> 0] : n \in Lengths} :
          input = [i \in DOMAIN keys |-> [key |-> keys[i], place |-> i]]
    /\ shown = input
    /\ touched = FALSE
    /\ slice = input
    /\ run = [sorted |-> 0, length |-> 0]
    /\ pending = << >>
    /\ merge = NoMerge
    /\ minGallop = MIN_GALLOP
    /\ stage = "start"

-----------------------------------------------------------------------------
(* Searching.                                                              *)

Lt(x, y) == x.key < y.key

(* Offsets 1, 3, 7, ... as long as a test holds, up to a maximum: the last *)
(* one for which it held and the first for which it did not.               *)
Gallop(maxofs, holds) ==
    LET step[p \in (0 .. maxofs) \X (1 .. 2 * maxofs + 1)] ==
            IF p[2] < maxofs /\ p[2] \in holds
            THEN step[<<p[2], 2 * p[2] + 1>>]
            ELSE <<p[1], IF p[2] > maxofs THEN maxofs ELSE p[2]>>
    IN  step[<<0, 1>>]

(* The first position from l to r - 1 for which a test fails, else r.      *)
Bisect(l, r, holds) ==
    LET search[p \in (0 .. r) \X (0 .. r)] ==
            LET mid == p[1] + (p[2] - p[1]) \div 2
            IN  IF p[1] >= p[2] THEN p[1]
                ELSE IF mid \in holds THEN search[<<mid + 1, p[2]>>]
                                      ELSE search[<<p[1], mid>>]
    IN  search[<<l, r>>]

(* The positions, from 0, of the items that are before x, if equal items   *)
(* are behind it, and if they are before it.                               *)
Less(s, x) == {i \in 0 .. Len(s) - 1 : Lt(s[i + 1], x)}
NotGreater(s, x) == {i \in 0 .. Len(s) - 1 : ~Lt(x, s[i + 1])}

(* gallop_left and gallop_right: how many of n positions are before the    *)
(* key.                                                                    *)
GallopWith(n, hint, before) ==
    IF hint \in before
    THEN LET p == Gallop(n - hint, {d \in 1 .. n : hint + d \in before})
         IN  Bisect(hint + p[1] + 1, hint + p[2], before)
    ELSE LET p == Gallop(hint + 1, {d \in 1 .. n : hint - d \notin before})
         IN  Bisect(hint - p[2] + 1, hint - p[1], before)

GallopLeft(x, s, hint) == GallopWith(Len(s), hint, Less(s, x))
GallopRight(x, s, hint) == GallopWith(Len(s), hint, NotGreater(s, x))

(* What a search may return.                                               *)
Found(k, n) == IF ordered THEN {k} ELSE 0 .. n

-----------------------------------------------------------------------------
(* Natural runs.                                                           *)

(* merge_compute_minrun.                                                   *)
MinRun(n) ==
    LET shift[p \in (0 .. n) \X {0, 1}] ==
            IF p[1] >= RunLimit
            THEN shift[<<p[1] \div 2, IF p[1] % 2 = 1 THEN 1 ELSE p[2]>>]
            ELSE p[1] + p[2]
    IN  shift[<<n, 0>>]

Descending(s, i) == Lt(s[i], s[i - 1])

(* count_run: every item from the second to the n-th continues the         *)
(* direction of the second.                                                *)
CountRun(s) ==
    CHOOSE n \in 2 .. Len(s) :
        /\ \A i \in 2 .. n : Descending(s, i) = Descending(s, 2)
        /\ n < Len(s) => Descending(s, n + 1) # Descending(s, 2)

Begin ==
    /\ stage = "start"
    /\ shown' = << >>
    /\ slice' = IF reverse THEN Reverse(slice) ELSE slice
    /\ stage' = IF Len(input) < 2 THEN "sorted" ELSE "run"
    /\ UNCHANGED <<input, ordered, reverse, touched, run, pending, merge, minGallop>>

(* A run of n items is found, turned if it descends, and extended later if *)
(* it is short.                                                            *)
FindRun(n, down) ==
    LET rest == Drop(slice, lo)
        minrun == MinRun(Len(input))
        force == IF Len(rest) <= minrun THEN Len(rest) ELSE minrun
    IN  /\ slice' = IF down THEN Take(slice, lo) \o Reverse(Take(rest, n)) \o Drop(rest, n)
                    ELSE slice
        /\ run' = [sorted |-> n, length |-> IF n < minrun THEN force ELSE n]

NextRun ==
    /\ stage = "run"
    /\ LET rest == Drop(slice, lo)
       IN  IF Len(rest) = 1 THEN FindRun(1, FALSE)
           ELSE IF ordered THEN FindRun(CountRun(rest), Descending(rest, 2))
           ELSE \E n \in 2 .. Len(rest), down \in BOOLEAN : FindRun(n, down)
    /\ stage' = "insert"
    /\ UNCHANGED <<input, ordered, reverse, shown, touched, pending, merge, minGallop>>

(* Mutant: binarysort puts an item before its equals.                      *)
BeforeEquals(s, x) == Bisect(0, Len(s), Less(s, x))

BehindEquals(s, x) == Bisect(0, Len(s), NotGreater(s, x))

(* One round of binarysort.                                                *)
InsertNext ==
    /\ stage = "insert"
    /\ run.sorted < run.length
    /\ LET before == SubSeq(slice, lo + 1, lo + run.sorted)
           pivot == slice[lo + run.sorted + 1]
       IN  \E k \in Found(BehindEquals(before, pivot), run.sorted) :
              slice' = Take(slice, lo) \o Take(before, k) \o <<pivot>>
                       \o Drop(before, k) \o Drop(slice, lo + run.sorted + 1)
    /\ run' = [run EXCEPT !.sorted = @ + 1]
    /\ UNCHANGED <<input, ordered, reverse, shown, touched, pending, merge,
                   minGallop, stage>>

Push ==
    /\ stage = "insert"
    /\ run.sorted = run.length
    /\ pending' = Append(pending, [base |-> lo, len |-> run.length])
    /\ run' = [sorted |-> 0, length |-> 0]
    /\ stage' = "collapse"
    /\ UNCHANGED <<input, ordered, reverse, shown, touched, slice, merge, minGallop>>

-----------------------------------------------------------------------------
(* The stack of pending runs.                                              *)

(* Mutant: the top two runs are compared only when there are no more.      *)
CollapseTopThree(p) ==
    LET n == Len(p) - 1
    IN  IF n > 1
        THEN IF p[n - 1].len > p[n].len + p[n + 1].len THEN 0
             ELSE IF p[n - 1].len < p[n + 1].len THEN n - 1 ELSE n
        ELSE IF n > 0 /\ p[n].len <= p[n + 1].len THEN n ELSE 0

(* merge_collapse: the run to merge with the next one, 0 if none.          *)
CollapseAt(p) ==
    LET n == Len(p) - 1
    IN  IF n > 1 /\ p[n - 1].len <= p[n].len + p[n + 1].len
        THEN IF p[n - 1].len < p[n + 1].len THEN n - 1 ELSE n
        ELSE IF n > 0 /\ p[n].len <= p[n + 1].len THEN n ELSE 0

(* merge_force_collapse.                                                   *)
ForceAt(p) ==
    LET n == Len(p) - 1
    IN  IF n > 1 /\ p[n - 1].len < p[n + 1].len THEN n - 1 ELSE n

MergePlace ==
    IF merge # NoMerge THEN 0
    ELSE CASE stage = "collapse" -> CollapseAt(pending)
           [] stage = "force" -> ForceAt(pending)
           [] OTHER -> 0

(* No run is to be merged: the next one is found, or all are merged.       *)
EndCollapse ==
    /\ stage \in {"collapse", "force"}
    /\ merge = NoMerge
    /\ MergePlace = 0
    /\ stage' = CASE stage = "force" -> "sorted"
                  [] stage = "collapse" /\ lo < Len(input) -> "run"
                  [] OTHER -> "force"
    /\ UNCHANGED <<input, ordered, reverse, shown, touched, slice, run, pending,
                   merge, minGallop>>

-----------------------------------------------------------------------------
(* Merging.                                                                *)

MoveA(m, k) ==
    IF m.dir = "lo"
    THEN [m EXCEPT !.a = Drop(m.a, k), !.out = m.out \o Take(m.a, k)]
    ELSE LET rest == Len(m.a) - k
         IN  [m EXCEPT !.a = Take(m.a, rest), !.out = Drop(m.a, rest) \o m.out]

MoveB(m, k) ==
    IF m.dir = "lo"
    THEN [m EXCEPT !.b = Drop(m.b, k), !.out = m.out \o Take(m.b, k)]
    ELSE LET rest == Len(m.b) - k
         IN  [m EXCEPT !.b = Take(m.b, rest), !.out = Drop(m.b, rest) \o m.out]

(* Mutant: merge_lo does not copy back what is in the temporary array.     *)
Unrestored(m) ==
    IF m.dir = "hi" THEN m.a \o m.b \o m.out
    ELSE LET gap == m.base + Len(m.out)
         IN  m.out \o SubSeq(slice, gap + 1, gap + Len(m.a)) \o m.b

(* What the temporary array still holds goes to the gap.                   *)
Restored(m) == IF m.dir = "lo" THEN m.out \o m.a \o m.b ELSE m.a \o m.b \o m.out

(* CopyB and CopyA: the last item of a belongs at the end and the first of *)
(* b at the front.                                                         *)
Merged(m) ==
    CASE m.dir = "lo" /\ Len(m.a) = 1 -> m.out \o m.b \o m.a
      [] m.dir = "hi" /\ Len(m.b) = 1 -> m.b \o m.a \o m.out
      [] OTHER -> Restored(m)

Ended(m) ==
    IF m.dir = "lo" THEN m.b = << >> \/ Len(m.a) < 2
                    ELSE m.a = << >> \/ Len(m.b) < 2

Around(m, region) ==
    Take(slice, m.base) \o region \o Drop(slice, m.base + Len(region))

Continue(m) ==
    IF Ended(m) THEN /\ merge' = NoMerge
                     /\ slice' = Around(m, Merged(m))
                ELSE /\ merge' = m
                     /\ UNCHANGED slice

(* What of a and b is not in place yet, if it is known where b starts in a *)
(* and where a ends in b.                                                  *)
StartMerge(base, a, b, k, n) ==
    LET m == [dir |-> IF Len(a) - k <= n THEN "lo" ELSE "hi", base |-> base + k,
              a |-> Drop(a, k), b |-> Take(b, n), out |-> << >>,
              mode |-> "single", acount |-> 0, bcount |-> 0]
    IN  IF k = Len(a) \/ n = 0 THEN UNCHANGED <<slice, merge>>
        ELSE Continue(IF m.dir = "lo" THEN MoveB(m, 1) ELSE MoveA(m, 1))

MergeAt ==
    /\ MergePlace # 0
    /\ LET i == MergePlace
           p == pending[i]
           q == pending[i + 1]
           a == SubSeq(slice, p.base + 1, p.base + p.len)
           b == SubSeq(slice, q.base + 1, q.base + q.len)
       IN  /\ pending' = Take(pending, i - 1) \o <<[p EXCEPT !.len = @ + q.len]>>
                         \o Drop(pending, i + 1)
           /\ \E k \in Found(GallopRight(b[1], a, 0), Len(a)) :
                 IF k = Len(a) THEN UNCHANGED <<slice, merge>>
                 ELSE \E n \in Found(GallopLeft(Last(a), b, Len(b) - 1), Len(b)) :
                         StartMerge(p.base, a, b, k, n)
    /\ UNCHANGED <<input, ordered, reverse, shown, touched, run, minGallop, stage>>

MergeMode(mode) == merge # NoMerge /\ merge.mode = mode

(* Is the next item of b less than the next one of a?                      *)
BLess(m) == IF m.dir = "lo" THEN Lt(m.b[1], m.a[1]) ELSE Lt(Last(m.b), Last(m.a))

Straight ==
    /\ MergeMode("single")
    /\ \E less \in IF ordered THEN {BLess(merge)} ELSE BOOLEAN :
          LET m == merge
              moved == IF less <=> m.dir = "lo"
                       THEN [MoveB(m, 1) EXCEPT !.bcount = @ + 1, !.acount = 0]
                       ELSE [MoveA(m, 1) EXCEPT !.acount = @ + 1, !.bcount = 0]
              wins == moved.acount >= minGallop \/ moved.bcount >= minGallop
          IN  Continue([moved EXCEPT !.mode = IF wins THEN "gallop a" ELSE @])
    /\ UNCHANGED <<input, ordered, reverse, shown, touched, run, pending, minGallop, stage>>

(* How many items of a, and of b, come before the next one of the other.   *)
GallopedA(m) ==
    IF m.dir = "lo" THEN GallopRight(m.b[1], m.a, 0)
    ELSE Len(m.a) - GallopRight(Last(m.b), m.a, Len(m.a) - 1)

GallopedB(m) ==
    IF m.dir = "lo" THEN GallopLeft(m.a[1], m.b, 0)
    ELSE Len(m.b) - GallopLeft(Last(m.a), m.b, Len(m.b) - 1)

GallopA ==
    /\ MergeMode("gallop a")
    /\ \E k \in Found(GallopedA(merge), Len(merge.a)) :
          LET moved == [MoveA(merge, k) EXCEPT !.acount = k, !.mode = "gallop b"]
          IN  Continue(IF Ended(moved) THEN moved ELSE MoveB(moved, 1))
    /\ UNCHANGED <<input, ordered, reverse, shown, touched, run, pending, minGallop, stage>>

(* The second half of a round of galloping, which decides on another one.  *)
GallopB ==
    /\ MergeMode("gallop b")
    /\ \E k \in Found(GallopedB(merge), Len(merge.b)) :
          LET moved == [MoveB(merge, k) EXCEPT !.bcount = k]
              both == MoveA(moved, 1)
              again == merge.acount >= MIN_GALLOP \/ k >= MIN_GALLOP
          IN  IF Ended(moved) \/ Ended(both)
              THEN /\ Continue(IF Ended(moved) THEN moved ELSE both)
                   /\ UNCHANGED minGallop
              ELSE IF again
              THEN /\ Continue([both EXCEPT !.mode = "gallop a"])
                   /\ minGallop' = IF minGallop > 1 THEN minGallop - 1 ELSE 1
              ELSE /\ Continue([both EXCEPT !.mode = "single", !.acount = 0, !.bcount = 0])
                   /\ minGallop' = minGallop + 1
    /\ UNCHANGED <<input, ordered, reverse, shown, touched, run, pending, stage>>

-----------------------------------------------------------------------------
(* User code in a comparison, and the end.                                 *)

Compares ==
    \/ stage = "run" /\ Len(input) - lo > 1
    \/ stage = "insert" /\ run.sorted < run.length
    \/ MergePlace # 0
    \/ merge # NoMerge

(* The elements as they are in memory while no merge is under way, or when *)
(* one ends early.                                                         *)
Whole == IF merge = NoMerge THEN slice ELSE Around(merge, Restored(merge))

Raise ==
    /\ Compares
    /\ slice' = Whole
    /\ merge' = NoMerge
    /\ stage' = "failed"
    /\ UNCHANGED <<input, ordered, reverse, shown, touched, run, pending, minGallop>>

(* The list looks empty, and gets items.                                   *)
Touch ==
    /\ Compares
    /\ ~touched
    /\ shown' = Take(input, 1)
    /\ touched' = TRUE
    /\ UNCHANGED <<input, ordered, reverse, slice, run, pending, merge, minGallop, stage>>

Finish ==
    /\ stage \in {"sorted", "failed"}
    /\ shown' = IF reverse THEN Reverse(slice) ELSE slice
    /\ stage' = IF stage = "sorted" /\ ~touched THEN "returned" ELSE "raised"
    /\ UNCHANGED <<input, ordered, reverse, touched, slice, run, pending, merge, minGallop>>

SortNext ==
    \/ Begin \/ NextRun \/ InsertNext \/ Push \/ EndCollapse
    \/ MergeAt \/ Straight \/ GallopA \/ GallopB
    \/ Raise \/ Touch \/ Finish

SortSpec == SortInit /\ [][SortNext]_sortVars

-----------------------------------------------------------------------------
(* Properties.                                                             *)

(* "Even in case of error, the list will be some permutation of its input  *)
(* state (nothing is lost or duplicated)": whatever a comparison answers,  *)
(* and wherever it raises.                                                 *)
NothingLost ==
    LET all == IF stage \in {"returned", "raised"} THEN shown ELSE Whole
    IN  Len(all) = Len(input) /\ ToSet(all) = ToSet(input)

(* "This sort is stable": equal items stay in the order that they had,     *)
(* also if the others are in descending order.                             *)
InOrder(s, rev) ==
    \A i, j \in DOMAIN s :
        i < j => IF s[i].key = s[j].key THEN s[i].place < s[j].place
                 ELSE s[i].key < s[j].key <=> ~rev

SortedStable == ordered /\ stage = "returned" => InOrder(shown, reverse)

(* Whenever merge_collapse is done, every pending run is longer than the   *)
(* next one, all the way down the stack, although it looks at the topmost  *)
(* three only and merges the second and third of them below the first.     *)
(* (That every run is longer than the next two together holds for the      *)
(* topmost three only.)                                                    *)
PendingGrow ==
    stage \in {"run", "insert"} =>
        \A i \in DOMAIN pending :
            i + 1 \in DOMAIN pending => pending[i].len > pending[i + 1].len
=============================================================================
