--------------------------- MODULE AttributeList ---------------------------
(***************************************************************************)
(* The attributes of a native object: a linked list in which a name        *)
(* carries a number or a block of memory that the list owns.  The object   *)
(* here is a module: PyModule_GetName and PyModule_GetFilename keep the    *)
(* copy that they return as an attribute, and the weak references of Java  *)
(* are counted in one.  Each operation runs under the GIL.                 *)
(***************************************************************************)
EXTENDS Integers, Sequences, FiniteSets

CONSTANTS
    Texts,      (* JyAttributeModuleName and JyAttributeModuleFile         *)
    Counter,    (* JyAttributeWeakRefCount                                 *)
    Blocks,     (* blocks of memory for copies                             *)
    MaxCount    (* bound of the number of weak references                  *)

ASSUME AttributeAssumption ==
    /\ Counter \notin Texts
    /\ MaxCount \in Nat

VARIABLES
    attr,       (* JyObject.attr, the list from its head                   *)
    memory,     (* the blocks that malloc returned and free did not take   *)
    texts       (* whether the module's dictionary has the text            *)

attributeVars == <<attr, memory, texts>>

Attribute == [name : Texts \cup {Counter}, value : Blocks \cup Int, owned : BOOLEAN]

AttributeTypeOK ==
    /\ attr \in Seq(Attribute)
    /\ \A i \in DOMAIN attr :
          /\ attr[i].owned <=> attr[i].name \in Texts
          /\ attr[i].owned => attr[i].value \in Blocks
    /\ memory \in SUBSET Blocks
    /\ texts \in [Texts -> BOOLEAN]

AttributeInit ==
    /\ attr = << >>
    /\ memory = {}
    /\ texts \in [Texts -> BOOLEAN]

Named(n) == {i \in DOMAIN attr : attr[i].name = n}

First(n) == CHOOSE i \in Named(n) : \A k \in Named(n) : i <= k

(* A number that was never set is NULL.                                    *)
Get(n) == IF Named(n) = {} THEN 0 ELSE attr[First(n)].value

(* ClearJyAttributeValue frees what the list owns.                         *)
OwnedBy(places) == {attr[i].value : i \in {k \in places : attr[k].owned}}

Added(n, v, owned) == <<[name |-> n, value |-> v, owned |-> owned]>> \o attr

AddedOrSet(n, v, owned) ==
    IF Named(n) = {} THEN Added(n, v, owned)
    ELSE [attr EXCEPT ![First(n)] = [name |-> n, value |-> v, owned |-> owned]]

(* Mutant: the value that is replaced stays allocated.                     *)
FreedByAdding(n) == {}

FreedBySetting(n) == IF Named(n) = {} THEN {} ELSE OwnedBy({First(n)})

-----------------------------------------------------------------------------

(* The text is copied, the copy becomes the attribute and is returned.     *)
GetText(n, b) ==
    /\ texts[n]
    /\ b \notin memory
    /\ attr' = AddedOrSet(n, b, TRUE)
    /\ memory' = (memory \cup {b}) \ FreedBySetting(n)
    /\ UNCHANGED texts

ChangeText(n) ==
    /\ texts' = [texts EXCEPT ![n] = ~@]
    /\ UNCHANGED <<attr, memory>>

CountWeakReference(d) ==
    /\ Get(Counter) + d \in -MaxCount .. MaxCount
    /\ attr' = AddedOrSet(Counter, Get(Counter) + d, FALSE)
    /\ memory' = memory \ FreedBySetting(Counter)
    /\ UNCHANGED texts

ClearAttributes ==
    /\ attr' = << >>
    /\ memory' = memory \ OwnedBy(DOMAIN attr)

(* The module is converted again after its counterpart in Java was         *)
(* collected.                                                              *)
ConvertAgain ==
    /\ ClearAttributes
    /\ UNCHANGED texts

(* PyObject_Free, and another module in its place.                         *)
FreeModule ==
    /\ ClearAttributes
    /\ texts' \in [Texts -> BOOLEAN]

AttributeNext ==
    \/ \E n \in Texts, b \in Blocks : GetText(n, b)
    \/ \E n \in Texts : ChangeText(n)
    \/ \E d \in {1, -1} : CountWeakReference(d)
    \/ ConvertAgain
    \/ FreeModule

AttributeSpec == AttributeInit /\ [][AttributeNext]_attributeVars

-----------------------------------------------------------------------------
(* Properties.                                                             *)

(* Attributes "track allocated memory": every copy of a text belongs to    *)
(* exactly one attribute as long as it is allocated, so that it is freed   *)
(* once and not lost, and AddJyAttribute, which does not look for the      *)
(* name, never makes a second attribute of a name.                         *)
OwnedExact ==
    /\ memory = OwnedBy(DOMAIN attr)
    /\ \A i, k \in DOMAIN attr :
          i # k => /\ attr[i].name # attr[k].name
                   /\ attr[i].owned /\ attr[k].owned => attr[i].value # attr[k].value
=============================================================================
