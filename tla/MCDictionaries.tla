--------------------------- MODULE MCDictionaries ---------------------------
(***************************************************************************)
(* Four parts of the system that share no state, each by itself: native    *)
(* loops over dictionaries, the dictionary of a native module, the         *)
(* attributes of such a module, and the orders of the bases of types.      *)
(***************************************************************************)
EXTENDS DictIteration, HeldReferences, AttributeList, MethodResolution, TLC

VARIABLE part   (* the part that takes steps *)

Interchangeable == Permutations(Loops) \cup Permutations(Keys) \cup Permutations(Values)

(* A value that was miscounted is of no further interest.                  *)
SomeFollowed == miscounted # Values

(* A type of objects, two classes below it, and three with all choices of  *)
(* bases among the classes before them and an old-style class.             *)
ClassicBases == ("k" :> <<"j">>) @@ ("j" :> << >>)

OneOrTwo(s) == [1 .. 1 -> s] \cup [1 .. 2 -> s]

AllHierarchies ==
    {("object" :> << >>) @@ ("a" :> <<"object">>) @@ ("b" :> <<"object">>)
        @@ ("u" :> u) @@ ("v" :> v) @@ ("w" :> w) :
      u \in OneOrTwo({"a", "b", "k"}), v \in OneOrTwo({"a", "b", "u"}),
      w \in {<<"u", "v">>, <<"v", "u">>, <<"v", "object">>, <<"object", "u">>, <<"k", "u", "v">>}}

(* The initial state of a part that takes no steps.                        *)
DictIdle == entries = [d \in Dicts |-> <<>>]
HeldIdle == table = [n \in Names |-> Null] /\ backed = {}
AttributeIdle == texts = [n \in Texts |-> FALSE]
MethodIdle == <<tp_bases["u"], tp_bases["v"], tp_bases["w"]>> = <<<<"a">>, <<"b">>, <<"u", "v">>>>

PartsInit ==
    /\ part \in {"loops", "map", "attributes", "types"}
    /\ MethodInit /\ (part # "types" => MethodIdle)
    /\ DictInit /\ (part # "loops" => DictIdle)
    /\ HeldInit /\ (part # "map" => HeldIdle)
    /\ AttributeInit /\ (part # "attributes" => AttributeIdle)

(* A dictionary gets or loses one key in a step; several such steps make   *)
(* every other change.                                                     *)
OneKeyMore(s, t) == \E i \in DOMAIN t : s = RemoveAt(t, i)
KeyByKey ==
    \A d \in Dicts : \/ entries'[d] = entries[d]
                     \/ OneKeyMore(entries[d], entries'[d])
                     \/ OneKeyMore(entries'[d], entries[d])

PartsNext ==
    /\ UNCHANGED part
    /\ \/ part = "loops" /\ DictNext /\ KeyByKey /\ UNCHANGED <<heldVars, attributeVars, typeVars>>
       \/ part = "map" /\ HeldNext /\ UNCHANGED <<dictVars, attributeVars, typeVars>>
       \/ part = "attributes" /\ AttributeNext /\ UNCHANGED <<dictVars, heldVars, typeVars>>
       \/ part = "types" /\ MethodNext /\ UNCHANGED <<dictVars, heldVars, attributeVars>>

(* What a loop that has ended was given and saw is of no interest: nothing  *)
(* reads it before the next loop starts anew.                              *)
LoopView == [x \in {x \in Loops : Running(x)} |-> <<over[x], ppos[x], stored[x], seen[x]>>]
PartsView == <<entries, cursorVars, LoopView, heldVars, attributeVars, typeVars, part>>

PartsSpec == PartsInit /\ [][PartsNext]_<<dictVars, heldVars, attributeVars, typeVars, part>>
=============================================================================
