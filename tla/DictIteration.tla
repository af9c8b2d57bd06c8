--------------------------- MODULE DictIteration ---------------------------
(***************************************************************************)
(* Native loops over Jython dictionaries with PyDict_Next.  Each loop      *)
(* passes its own position, but the Java side keeps one iterator for all   *)
(* of them: a call for another dictionary or another position than the     *)
(* last one makes a new iterator and advances it.  Calls of several loops, *)
(* nested or of several threads, come in any order; getPyDictionary_Next   *)
(* is synchronized.                                                        *)
(*                                                                         *)
(* A dictionary is the sequence of its keys in iteration order.  Jython    *)
(* keeps no null values in it.                                             *)
(***************************************************************************)
EXTENDS Integers, Sequences, SequencesExt

CONSTANTS
    Loops, Dicts, Keys, None,
    MaxSize     (* bound of the size of a dictionary                       *)

ASSUME DictAssumption ==
    /\ None \notin Dicts
    /\ MaxSize \in Nat

VARIABLES
    entries,        (* the keys of each dictionary                         *)
    lastDict,       (* the dictionary of the last call                     *)
    lastDictIndex,  (* its position after that call, negative at the end   *)
    dictIterator,   (* what the iterator has not returned yet              *)
    over,           (* the dictionary of each loop, None before and after  *)
    ppos,           (* the position each loop passes                       *)
    stored,         (* the keys PyDict_Next stored through the loop's pkey *)
    seen            (* the keys the body of the loop was run with          *)

cursorVars == <<lastDict, lastDictIndex, dictIterator>>
loopVars == <<over, ppos, stored, seen>>
dictVars == <<entries, cursorVars, loopVars>>

Contents == {s \in UNION {[1 .. n -> Keys] : n \in 0 .. MaxSize} : IsInjective(s)}

DictTypeOK ==
    /\ entries \in [Dicts -> Seq(Keys)]
    /\ lastDict \in Dicts \cup {None}
    /\ lastDictIndex \in Int
    /\ dictIterator \in Seq(Keys)
    /\ over \in [Loops -> Dicts \cup {None}]
    /\ ppos \in [Loops -> Nat]
    /\ stored \in [Loops -> Seq(Keys)]
    /\ seen \in [Loops -> Seq(Keys)]

DictInit ==
    /\ entries \in [Dicts -> Contents]
    /\ lastDict = None
    /\ lastDictIndex = 0
    /\ dictIterator = <<>>
    /\ over = [x \in Loops |-> None]
    /\ ppos = [x \in Loops |-> 0]
    /\ stored = [x \in Loops |-> <<>>]
    /\ seen = [x \in Loops |-> <<>>]

Running(x) == over[x] # None

(* A loop starts with position 0, as the comment at PyDict_Next asks.      *)
StartLoop(x, d) ==
    /\ ~Running(x)
    /\ over' = [over EXCEPT ![x] = d]
    /\ ppos' = [ppos EXCEPT ![x] = 0]
    /\ stored' = [stored EXCEPT ![x] = <<>>]
    /\ seen' = [seen EXCEPT ![x] = <<>>]
    /\ UNCHANGED <<entries, cursorVars>>

StopLoop(x) == over' = [over EXCEPT ![x] = None]

(* The body of a loop leaves it.                                           *)
Break(x) ==
    /\ Running(x)
    /\ seen[x] # <<>>
    /\ StopLoop(x)
    /\ UNCHANGED <<entries, cursorVars, ppos, stored, seen>>

(* Nobody changes a dictionary while a loop over it is running.            *)
Mutate(d, s) ==
    /\ \A x \in Loops : over[x] # d
    /\ entries' = [entries EXCEPT ![d] = s]
    /\ UNCHANGED <<cursorVars, loopVars>>

Min2(i, j) == IF i < j THEN i ELSE j

(* Mutant: the position alone decides whether the iterator is the right    *)
(* one.                                                                    *)
ResumeAny(d, index) ==
    IF lastDict # None /\ index = lastDictIndex
    THEN [index |-> lastDictIndex, rest |-> dictIterator]
    ELSE [index |-> Min2(index, Len(entries[d]) + 1),
          rest |-> SubSeq(entries[d], index + 1, Len(entries[d]))]

(* The position and the rest of the iterator from which getPyDictionary_   *)
(* Next goes on: the cached ones, or those of a new iterator that skips    *)
(* what is before the index.                                               *)
Resume(d, index) ==
    IF d = lastDict /\ index = lastDictIndex
    THEN [index |-> lastDictIndex, rest |-> dictIterator]
    ELSE [index |-> Min2(index, Len(entries[d]) + 1),
          rest |-> SubSeq(entries[d], index + 1, Len(entries[d]))]

(* Mutant: the last entry but one is marked.                               *)
SignedEarly(index, d) == IF index + 1 = Len(entries[d]) THEN -index ELSE index

(* Java marks the last entry by a negative position.                       *)
Signed(index, d) == IF index = Len(entries[d]) THEN -index ELSE index

(* PyDict_Next with nothing left: the loop ends.                           *)
NextNone(x) ==
    /\ Running(x)
    /\ LET d == over[x]
           cursor == Resume(d, ppos[x])
       IN  /\ cursor.rest = <<>>
           /\ lastDict' = d
           /\ lastDictIndex' = cursor.index
           /\ dictIterator' = <<>>
    /\ StopLoop(x)
    /\ UNCHANGED <<entries, ppos, stored, seen>>

(* PyDict_Next stores an entry and the position; it returns 0 when the     *)
(* position is negative, which ends the loop, and 1 otherwise.             *)
NextEntry(x) ==
    /\ Running(x)
    /\ LET d == over[x]
           cursor == Resume(d, ppos[x])
           index == cursor.index + 1
       IN  /\ cursor.rest # <<>>
           /\ lastDict' = d
           /\ lastDictIndex' = Signed(index, d)
           /\ dictIterator' = Tail(cursor.rest)
           /\ ppos' = [ppos EXCEPT ![x] = index]
           /\ stored' = [stored EXCEPT ![x] = Append(@, Head(cursor.rest))]
           /\ IF Signed(index, d) < 0
              THEN StopLoop(x) /\ UNCHANGED seen
              ELSE /\ seen' = [seen EXCEPT ![x] = Append(@, Head(cursor.rest))]
                   /\ UNCHANGED over
    /\ UNCHANGED entries

DictNext ==
    \/ \E x \in Loops :
          \/ \E d \in Dicts : StartLoop(x, d)
          \/ Break(x)
          \/ NextNone(x)
          \/ NextEntry(x)
    \/ \E d \in Dicts, s \in Contents : Mutate(d, s)

DictSpec == DictInit /\ [][DictNext]_dictVars

-----------------------------------------------------------------------------
(* However the loops are interleaved, each has been given the first        *)
(* entries of its dictionary, as many as its position says, in order and   *)
(* without repetition.                                                     *)
EntriesInOrder ==
    \A x \in Loops : Running(x) =>
        /\ stored[x] = SubSeq(entries[over[x]], 1, ppos[x])
        /\ seen[x] = stored[x]

Ends(x) == over[x] # None /\ (NextNone(x) \/ NextEntry(x)) /\ over'[x] = None

AllButLast(s) == SubSeq(s, 1, Len(s) - 1)

(* The cached iterator was left by a loop over the dictionary while it was *)
(* empty.                                                                  *)
Stale(d) == lastDict = d /\ lastDictIndex = 0 /\ dictIterator = <<>>

(* When PyDict_Next ends a loop, the body has been run with every entry of *)
(* the dictionary but the last one, which comes together with the return   *)
(* value 0; or with none at all, when the loop took up the iterator of an  *)
(* earlier one that had found the dictionary empty.  The loop of the       *)
(* comment at PyDict_Next (dictobject.c 1052-1059) does not handle the     *)
(* last entry.                                                             *)
SeenButLast ==
    [][\A x \in Loops : Ends(x) =>
          \/ seen'[x] = AllButLast(entries[over[x]])
          \/ Stale(over[x]) /\ ppos[x] = 0 /\ seen'[x] = <<>>]_dictVars
=============================================================================
