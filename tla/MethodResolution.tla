-------------------------- MODULE MethodResolution --------------------------
(***************************************************************************)
(* The method resolution order of native types: PyType_Ready and mro()     *)
(* merge the orders of the bases and the list of the bases itself (C3).  A *)
(* type's bases never change (type_set_bases is disabled).  Not modelled:  *)
(* a metatype with an mro() of its own.                                    *)
(***************************************************************************)
EXTENDS Integers, Sequences, FiniteSets

CONSTANTS
    Types,          (* new-style classes                                   *)
    Classic,        (* old-style classes                                   *)
    cl_bases,       (* the bases of each old-style class                   *)
    Hierarchies     (* what the bases of the new-style classes may be      *)

Classes == Types \cup Classic

Members(s) == {s[p] : p \in DOMAIN s}

(* m followed by what is not yet in it of the classes s and of their       *)
(* bases, depth first.                                                     *)
fill_classic_mro[m \in Seq(Classic), s \in Seq(Classic)] ==
    IF s = << >> THEN m
    ELSE fill_classic_mro[IF Head(s) \in Members(m) THEN m ELSE Append(m, Head(s)),
                          cl_bases[Head(s)] \o Tail(s)]

classic_mro(k) == fill_classic_mro[<< >>, <<k>>]

(* Old-style classes do not inherit from themselves, so that there is an   *)
(* end to the recursion.                                                   *)
ASSUME MethodResolutionAssumption ==
    /\ Types \cap Classic = {}
    /\ cl_bases \in [Classic -> Seq(Classic)]
    /\ \A k \in Classic : classic_mro(k) \in Seq(Classic)
    /\ Hierarchies \subseteq [Types -> Seq(Classes)]

VARIABLES
    tp_bases,
    tp_mro,         (* << >>: NULL                                         *)
    acc,            (* the order that is made, which begins with its type; *)
                    (* << >>: none is                                      *)
    to_merge,       (* what it is merged from                              *)
    remain,         (* how much of each of these is in acc                 *)
    failed          (* a TypeError was raised                              *)

mergeVars == <<acc, to_merge, remain, failed>>
typeVars == <<tp_bases, tp_mro, mergeVars>>

MethodTypeOK ==
    /\ tp_bases \in Hierarchies
    /\ tp_mro \in [Types -> Seq(Classes)]
    /\ acc \in Seq(Classes)
    /\ to_merge \in Seq(Seq(Classes))
    /\ remain \in Seq(Nat)
    /\ Len(remain) = Len(to_merge)
    /\ \A i \in DOMAIN to_merge : remain[i] <= Len(to_merge[i])
    /\ failed \in BOOLEAN

MethodInit ==
    /\ tp_bases \in Hierarchies
    /\ tp_mro = [c \in Types |-> << >>]
    /\ acc = << >> /\ to_merge = << >> /\ remain = << >>
    /\ failed = FALSE

Ready(c) == tp_mro[c] # << >>

HasMro(b) == b \in Types => Ready(b)

Mro(b) == IF b \in Types THEN tp_mro[b] ELSE classic_mro(b)

check_duplicates(s) == \A i, j \in DOMAIN s : i # j => s[i] # s[j]

(* The orders of the bases, then the bases.                                *)
Lists(c) ==
    LET n == Len(tp_bases[c])
    IN  [i \in 1 .. n + 1 |-> IF i <= n THEN Mro(tp_bases[c][i]) ELSE tp_bases[c]]

HasNext(i) == remain[i] < Len(to_merge[i])

Candidate(i) == to_merge[i][remain[i] + 1]

(* Mutants: a tail that begins one too late, and one too early.            *)
TailTooShort(i, o) == \E p \in remain[i] + 3 .. Len(to_merge[i]) : to_merge[i][p] = o

TailTooLong(i, o) == \E p \in remain[i] + 1 .. Len(to_merge[i]) : to_merge[i][p] = o

tail_contains(i, o) == \E p \in remain[i] + 2 .. Len(to_merge[i]) : to_merge[i][p] = o

Eligible(i) ==
    /\ HasNext(i)
    /\ \A j \in DOMAIN to_merge : ~tail_contains(j, Candidate(i))

-----------------------------------------------------------------------------

(* Up to the call of pmerge.  One of the bases must be a new-style class,  *)
(* and where one has no order yet the call fails and leaves all as it is.  *)
mro_implementation(c) ==
    /\ acc = << >>
    /\ tp_bases[c] # << >> => Members(tp_bases[c]) \cap Types # {}
    /\ \A b \in Members(tp_bases[c]) : HasMro(b)
    /\ acc' = <<c>>
    /\ to_merge' = Lists(c)
    /\ remain' = [i \in DOMAIN to_merge' |-> 0]
    /\ failed' = ~check_duplicates(tp_bases[c])
    /\ UNCHANGED <<tp_bases, tp_mro>>

(* One round of pmerge takes the first candidate that is in no tail.       *)
Take(i) ==
    /\ Eligible(i)
    /\ \A k \in 1 .. i - 1 : ~Eligible(k)
    /\ acc' = Append(acc, Candidate(i))
    /\ remain' = [j \in DOMAIN to_merge |->
                    IF HasNext(j) /\ Candidate(j) = Candidate(i) THEN remain[j] + 1 ELSE remain[j]]
    /\ UNCHANGED <<tp_bases, tp_mro, to_merge, failed>>

Disagree ==
    /\ acc # << >>
    /\ \E i \in DOMAIN to_merge : HasNext(i)
    /\ \A i \in DOMAIN to_merge : ~Eligible(i)
    /\ failed' = TRUE
    /\ UNCHANGED <<tp_bases, tp_mro, acc, to_merge, remain>>

Idle == acc' = << >> /\ to_merge' = << >> /\ remain' = << >> /\ failed' = FALSE

(* mro() only returns the order.  mro_internal, which PyType_Ready calls   *)
(* for a type that is not ready, keeps it unless it finds that the layouts *)
(* of the classes do not fit.                                              *)
Merged ==
    /\ acc # << >>
    /\ \A i \in DOMAIN to_merge : ~HasNext(i)
    /\ \/ ~Ready(acc[1]) /\ tp_mro' = [tp_mro EXCEPT ![acc[1]] = acc]
       \/ UNCHANGED tp_mro
    /\ Idle
    /\ UNCHANGED tp_bases

(* The call returns -1.                                                    *)
Fail ==
    /\ failed
    /\ Idle
    /\ UNCHANGED <<tp_bases, tp_mro>>

MethodNext ==
    \/ \E c \in Types : mro_implementation(c)
    \/ ~failed /\ \E i \in DOMAIN to_merge : Take(i)
    \/ ~failed /\ Disagree
    \/ ~failed /\ Merged
    \/ Fail

MethodSpec == MethodInit /\ [][MethodNext]_typeVars

-----------------------------------------------------------------------------
(* Properties.                                                             *)

(* m has the classes of s in the order of s.                               *)
KeepsOrder(s, m) ==
    /\ Members(s) \subseteq Members(m)
    /\ \A i, j \in DOMAIN s : i < j =>
          \E p, q \in DOMAIN m : p < q /\ m[p] = s[i] /\ m[q] = s[j]

(* The comment on C3: the order of a type has the type first and each      *)
(* ancestor once, and nothing else; it keeps the order in which the type   *)
(* itself and every new-style ancestor of it list their bases, and the     *)
(* order that each ancestor has, however far up it is.                     *)
LinearizationsKept ==
    \A c \in Types : Ready(c) =>
       /\ tp_mro[c][1] = c
       /\ check_duplicates(tp_mro[c])
       /\ Members(tp_mro[c]) = {c} \cup UNION {Members(Lists(c)[i]) : i \in DOMAIN Lists(c)}
       /\ \A d \in Members(tp_mro[c]) \cap Types :
             /\ Ready(d)
             /\ KeepsOrder(tp_mro[d], tp_mro[c])
             /\ \A i \in DOMAIN Lists(d) : KeepsOrder(Lists(d)[i], tp_mro[c])

(* "Cannot create a consistent method resolution order" is raised only if  *)
(* there is none: some of the classes each come after another of them (or  *)
(* after themselves) in what is to be merged.                              *)
FailsOnlyIfImpossible ==
    failed =>
       \E s \in SUBSET Classes :
          /\ s # {}
          /\ \A x \in s : \E i \in DOMAIN to_merge : \E p, q \in DOMAIN to_merge[i] :
                p < q /\ to_merge[i][p] \in s /\ to_merge[i][q] = x
=============================================================================
