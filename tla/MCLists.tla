------------------------------- MODULE MCLists -------------------------------
(* The links of native objects that Java's collector follows, and the sort *)
(* of a native list; they share no state and take steps each by itself.    *)
EXTENDS GCHeadLinks, ListSort

CONSTANTS list, array, single, static

VARIABLE part

(* The list and the array hold the cell, and the list and the cell a        *)
(* static object.                                                          *)
HoldsDef ==
    (list :> {single, static}) @@ (array :> {single}) @@ (single :> {static})

(* A list that is made of ascending runs of these lengths.                 *)
Ascending(lengths) == FlattenSeq([i \in DOMAIN lengths |-> [k \in 1 .. lengths[i] |-> k]])

(* All lists of six keys with three values and of ten keys with two, and   *)
(* lists with many runs, one that leaves a run on the stack which is not   *)
(* longer than the next two together.                                      *)
SmallInputs == {<<>>, <<1>>, Ascending(<<4, 3, 1, 1, 3>>), Ascending(<<7, 3, 3, 2>>),
                Ascending(<<18, 13, 4, 3, 5, 1>>)}
               \cup [1 .. 6 -> 1 .. 3] \cup [1 .. 10 -> 1 .. 2]

ListsInit ==
    /\ HeadInit /\ SortInit
    /\ part \in {"objects", "comparison", "sort"}
    /\ part # "sort" => input = << >> /\ ~reverse

(* Bounds: all objects, with nothing but the cell in the list and without  *)
(* the comparison; and the list and the cell, with the comparison.         *)
WithinBound ==
    \/ part = "objects" /\ checking' = NotChecking
       /\ items'[list] \in {<<>>, <<Null>>, <<single>>}
    \/ part = "comparison" /\ gcrefs'[array] = "free"

ListsNext ==
    /\ UNCHANGED part
    /\ \/ HeadNext /\ WithinBound /\ UNCHANGED sortVars
       \/ part = "sort" /\ SortNext /\ UNCHANGED headLinkVars

ListsSpec == ListsInit /\ [][ListsNext]_<<headLinkVars, sortVars, part>>
=============================================================================
