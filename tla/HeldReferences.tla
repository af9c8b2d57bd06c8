--------------------------- MODULE HeldReferences ---------------------------
(***************************************************************************)
(* PyNativeRefHoldingStringMap, the dictionary of a module made by native  *)
(* code: it holds a native reference for each of its values that has a     *)
(* native side.  Jython's threads use such a map without the GIL.  One     *)
(* access to its concurrent table is atomic, and so is taking or returning *)
(* one native reference, under the GIL; an operation of the map consists   *)
(* of several of these.                                                    *)
(*                                                                         *)
(* Some uses of the map miscount: setdefault and the entry set take or     *)
(* leave a reference that they should not, the handle of a value may       *)
(* change while it is in the map, operations of two threads on one name    *)
(* may overlap, and an iterator may remove an entry that is out of date.   *)
(* They are all here; a value that one of them concerns is marked, and its *)
(* count is not followed any further.                                      *)
(***************************************************************************)
EXTENDS Integers, FiniteSets

CONSTANTS
    Names, Values, Threads, Null,
    Iterators   (* over entries, each with one thread at a time             *)

(* What a thread is doing: an operation on a key, or clearing the map.      *)
Call == [at : {"incref", "decref", "put", "remove"},
         op : {"set", "default", "delete", "take"},
         key : Names, value : Values \cup {Null}, old : Values \cup {Null}]

(* It returns the references first, and then empties the table.            *)
Clearing == [at : {"clear", "wipe"}, left : SUBSET Names,
             returned : [Names -> Values \cup {Null}]]

ASSUME HeldAssumption == Null \notin Names \cup Values \cup Call \cup Clearing

VARIABLES
    table,      (* the ConcurrentMap behind the map                        *)
    held,       (* the native references taken and not returned            *)
    backed,     (* the values whose native handle is not 0                 *)
    call,       (* what each thread is doing, with its local variables     *)
    entry,      (* the last entry that each iterator returned              *)
    miscounted  (* history: the values that a use named above concerned    *)

heldVars == <<table, held, backed, call, entry, miscounted>>

HeldTypeOK ==
    /\ table \in [Names -> Values \cup {Null}]
    /\ held \in [Values -> Int]
    /\ backed \in SUBSET Values
    /\ call \in [Threads -> Call \cup Clearing \cup {Null}]
    /\ \A t \in Threads :
          call[t] \in Call /\ call[t].at = "decref" => call[t].old # Null
    /\ entry \in [Iterators -> (Names \X Values) \cup {Null}]
    /\ miscounted \in SUBSET Values

NamesWith(v) == {k \in Names : table[k] = v}

(* The map made from another one.                                          *)
HeldInit ==
    /\ table \in [Names -> Values \cup {Null}]
    /\ backed \in SUBSET Values
    /\ held = [v \in Values |-> IF v \in backed THEN Cardinality(NamesWith(v)) ELSE 0]
    /\ call = [t \in Threads |-> Null]
    /\ entry = [i \in Iterators |-> Null]
    /\ miscounted = {}

Free(t) == call[t] = Null

At(t, at) == ~Free(t) /\ call[t].at = at

Begin(t, at, op, k, v, old) ==
    call' = [call EXCEPT ![t] = [at |-> at, op |-> op, key |-> k, value |-> v, old |-> old]]

Go(t, at) == call' = [call EXCEPT ![t].at = at]

Done(t) == call' = [call EXCEPT ![t] = Null]

(* nativeIncref and nativeDecref leave a value without a handle alone.     *)
References(v, d) ==
    IF v \in backed \ miscounted THEN [held EXCEPT ![v] = @ + d] ELSE held

Clears(t) == At(t, "clear") \/ At(t, "wipe")

(* The call of the thread has the name still to change, ...                *)
Busy(t, k) ==
    \/ At(t, "clear")
    \/ At(t, "wipe") /\ k \in call[t].left
    \/ ~Free(t) /\ ~Clears(t) /\ call[t].key = k /\ call[t].op \in {"set", "delete"}

(* ... and these are the values that it has read or will store.            *)
Handled(t, k) ==
    IF Clears(t) THEN {call[t].returned[k]} ELSE {call[t].value, call[t].old}

(* What a use of k that the values vs take part in miscounts if it         *)
(* overlaps with another one.                                              *)
Overlap(k, vs) ==
    IF \E u \in Threads : Busy(u, k)
    THEN (vs \cup {table[k]} \cup UNION {Handled(u, k) : u \in {u \in Threads : Busy(u, k)}})
            \ {Null}
    ELSE {}

Miscounts(vs) == miscounted' = miscounted \cup vs

-----------------------------------------------------------------------------
(* Operations on a key.                                                    *)

SetItem(t, k, v) ==
    /\ Free(t)
    /\ Begin(t, "incref", "set", k, v, table[k])
    /\ Miscounts(Overlap(k, {v}))
    /\ UNCHANGED <<table, held, backed, entry>>

(* Also the remove of a key iterator.                                      *)
DelItem(t, k) ==
    /\ Free(t)
    /\ table[k] # Null
    /\ Begin(t, "decref", "delete", k, Null, table[k])
    /\ Miscounts(Overlap(k, {}))
    /\ UNCHANGED <<table, held, backed, entry>>

Pop(t, k) ==
    /\ Free(t)
    /\ table[k] # Null
    /\ table' = [table EXCEPT ![k] = Null]
    /\ Begin(t, "decref", "take", k, Null, table[k])
    /\ Miscounts(Overlap(k, {}))
    /\ UNCHANGED <<held, backed, entry>>

(* The reference to the default is taken if it is not inserted.            *)
SetDefault(t, k, v) ==
    /\ Free(t)
    /\ IF table[k] = Null
       THEN /\ table' = [table EXCEPT ![k] = v]
            /\ UNCHANGED call
       ELSE /\ Begin(t, "incref", "default", k, v, table[k])
            /\ UNCHANGED table
    /\ Miscounts(Overlap(k, {v}) \cup ({v} \cap backed))
    /\ UNCHANGED <<held, backed, entry>>

(* Mutant: the old reference is returned before the new one is taken.      *)
ReturnedFirst(t) ==
    IF call[t].op = "set" /\ call[t].old # Null
    THEN IF call[t].at = "incref"
         THEN References(call[t].old, -1) ELSE References(call[t].value, 1)
    ELSE IF call[t].at = "incref"
         THEN References(call[t].value, 1) ELSE References(call[t].old, -1)

(* Mutant: a value that is replaced keeps its reference.                   *)
ReturnedOnDelete(t) ==
    IF call[t].at = "incref" THEN References(call[t].value, 1)
    ELSE IF call[t].op = "set" THEN held ELSE References(call[t].old, -1)

Counted(t) ==
    IF call[t].at = "incref" THEN References(call[t].value, 1)
                             ELSE References(call[t].old, -1)

Incref(t) ==
    /\ At(t, "incref")
    /\ held' = Counted(t)
    /\ IF call[t].op = "default" THEN Done(t)
       ELSE Go(t, IF call[t].old = Null THEN "put" ELSE "decref")
    /\ UNCHANGED <<table, backed, entry, miscounted>>

Decref(t) ==
    /\ At(t, "decref")
    /\ held' = Counted(t)
    /\ CASE call[t].op = "set" -> Go(t, "put")
         [] call[t].op = "delete" -> Go(t, "remove")
         [] call[t].op = "take" -> Done(t)
    /\ UNCHANGED <<table, backed, entry, miscounted>>

Put(t) ==
    /\ At(t, "put")
    /\ table' = [table EXCEPT ![call[t].key] = call[t].value]
    /\ Done(t)
    /\ UNCHANGED <<held, backed, entry, miscounted>>

RemoveName(t) ==
    /\ At(t, "remove")
    /\ table' = [table EXCEPT ![call[t].key] = Null]
    /\ Done(t)
    /\ UNCHANGED <<held, backed, entry, miscounted>>

-----------------------------------------------------------------------------
(* Views and operations on the whole map.                                  *)

(* An iterator keeps the entry as it was when next returned it.            *)
EntryNext(t, i, k) ==
    /\ Free(t)
    /\ table[k] # Null
    /\ entry' = [entry EXCEPT ![i] = <<k, table[k]>>]
    /\ UNCHANGED <<table, held, backed, call, miscounted>>

(* The entry may have been replaced or removed since.                      *)
EntryRemove(t, i) ==
    /\ Free(t)
    /\ entry[i] # Null
    /\ Begin(t, "decref", "delete", entry[i][1], Null, entry[i][2])
    /\ LET now == table[entry[i][1]] IN
          Miscounts(Overlap(entry[i][1], {entry[i][2]})
                      \cup IF now = entry[i][2] THEN {} ELSE {now, entry[i][2]} \ {Null})
    /\ entry' = [entry EXCEPT ![i] = Null]
    /\ UNCHANGED <<table, held, backed>>

(* The entry set itself removes entries, one or all, without returning     *)
(* their references.                                                       *)
EntrySetRemove(t, k) ==
    /\ Free(t)
    /\ table[k] # Null
    /\ table' = [table EXCEPT ![k] = Null]
    /\ Miscounts(Overlap(k, {}) \cup ({table[k]} \cap backed))
    /\ UNCHANGED <<held, backed, call, entry>>

Clear(t) ==
    /\ Free(t)
    /\ call' = [call EXCEPT ![t] = [at |-> "clear", left |-> Names,
                                    returned |-> [k \in Names |-> Null]]]
    /\ Miscounts(UNION {Overlap(k, {}) : k \in Names})
    /\ UNCHANGED <<table, held, backed, entry>>

ClearValue(t, k) ==
    /\ At(t, "clear")
    /\ k \in call[t].left
    /\ held' = IF table[k] = Null THEN held ELSE References(table[k], -1)
    /\ call' = [call EXCEPT ![t] = [at |-> "clear", left |-> call[t].left \ {k},
                                    returned |-> [call[t].returned EXCEPT ![k] = table[k]]]]
    /\ UNCHANGED <<table, backed, entry, miscounted>>

BeginWipe(t) ==
    /\ At(t, "clear")
    /\ call[t].left = {}
    /\ call' = [call EXCEPT ![t].at = "wipe", ![t].left = Names]
    /\ UNCHANGED <<table, held, backed, entry, miscounted>>

(* super.clear, whose table goes through its bins.                         *)
WipeName(t, k) ==
    /\ At(t, "wipe")
    /\ k \in call[t].left
    /\ table' = [table EXCEPT ![k] = Null]
    /\ call' = [call EXCEPT ![t].left = @ \ {k}]
    /\ UNCHANGED <<held, backed, entry, miscounted>>

EndClear(t) ==
    /\ At(t, "wipe")
    /\ call[t].left = {}
    /\ Done(t)
    /\ UNCHANGED <<table, held, backed, entry, miscounted>>

-----------------------------------------------------------------------------
(* Native sides.                                                           *)

Uses(t, v) ==
    /\ ~Free(t)
    /\ Clears(t) \/ v \in {call[t].value, call[t].old}

InUse(v) == NamesWith(v) # {} \/ \E t \in Threads : Uses(t, v)

(* The value is passed to native code and gets a native object, to which   *)
(* the map has no reference yet, whether it contains the value or not.     *)
GetsHandle(v) ==
    /\ v \notin backed
    /\ backed' = backed \cup {v}
    /\ miscounted' = IF InUse(v) THEN miscounted \cup {v} ELSE miscounted \ {v}
    /\ UNCHANGED <<table, held, call, entry>>

(* The native object is freed when it seems that nobody references it.     *)
LosesHandle(v) ==
    /\ v \in backed
    /\ held[v] = 0 \/ v \in miscounted
    /\ backed' = backed \ {v}
    /\ held' = [held EXCEPT ![v] = 0]
    /\ UNCHANGED <<table, call, entry, miscounted>>

NameStep(t, k) ==
    \/ \E v \in Values : SetItem(t, k, v) \/ SetDefault(t, k, v)
    \/ \E i \in Iterators : EntryNext(t, i, k)
    \/ DelItem(t, k) \/ Pop(t, k) \/ EntrySetRemove(t, k)
    \/ ClearValue(t, k) \/ WipeName(t, k)

ThreadStep(t) ==
    \/ \E k \in Names : NameStep(t, k)
    \/ Incref(t) \/ Decref(t) \/ Put(t) \/ RemoveName(t)
    \/ \E i \in Iterators : EntryRemove(t, i)
    \/ Clear(t) \/ BeginWipe(t) \/ EndClear(t)

HeldNext ==
    \/ \E t \in Threads : ThreadStep(t)
    \/ \E v \in Values : GetsHandle(v) \/ LosesHandle(v)

HeldSpec == HeldInit /\ [][HeldNext]_heldVars

-----------------------------------------------------------------------------
(* Properties.                                                             *)

(* "We only hold native references for values": between the operations     *)
(* that concern a value, the map holds exactly one reference to its native *)
(* side for each key that leads to it, and none to a value without one,    *)
(* unless one of the uses that miscount has concerned the value.           *)
HeldExact ==
    \A v \in Values \ miscounted :
        \/ \E t \in Threads : Uses(t, v)
        \/ held[v] = IF v \in backed THEN Cardinality(NamesWith(v)) ELSE 0

(* The call is about to replace or remove the value v of k.                *)
Parts(t, k, v) ==
    /\ ~Free(t)
    /\ \/ Clears(t)
       \/ call[t].key = k /\ call[t].old = v /\ call[t].value # v

(* In the middle of any operations, also of one that sets a key to the     *)
(* value it has, a value that stays in the map is held: nativeIncref comes *)
(* before nativeDecref in __setitem__, and other keys have references of   *)
(* their own.                                                              *)
StayingHeld ==
    \A k \in Names :
        table[k] \in backed \ miscounted =>
            held[table[k]] > 0 \/ \E t \in Threads : Parts(t, k, table[k])

(* The references are taken before the value can be found: each value that *)
(* is put into the map is held from then on.  setdefault takes none.       *)
InsertedHeld ==
    [][\A k \in Names :
          table'[k] # table[k] /\ table'[k] \in backed \ miscounted => held'[table'[k]] > 0
      ]_heldVars
=============================================================================
