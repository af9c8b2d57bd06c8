-------------------------- MODULE ExplorationStack --------------------------
(***************************************************************************)
(* The stack of tracked objects whose references are still to be explored  *)
(* (gcmodule.c).  A static block takes the first BlockSize objects; what   *)
(* does not fit goes to a linked list of blocks, newest first, allocated   *)
(* with malloc.  The stack holds no references: an object that is          *)
(* untracked must be taken out of it.                                      *)
(***************************************************************************)
EXTENDS Integers, Sequences, SequencesExt

CONSTANTS
    Objects,
    BlockSize,  (* EX_STACK_BLOCK_SIZE                                     *)
    MaxBlocks   (* bound of the number of further blocks                   *)

ASSUME BlockSizeAssumption == BlockSize \in Nat \ {0} /\ MaxBlocks \in Nat

VARIABLES
    base,      (* explorationStack.stack[0 .. position-1]                  *)
    overflow,  (* the blocks behind explorationStack.next, newest first    *)
    wild       (* a block's position was used before it was set, or an     *)
               (* empty block was popped: memory outside the stack is used *)

stackVars == <<base, overflow, wild>>

StackTypeOK ==
    /\ base \in Seq(Objects)
    /\ overflow \in Seq(Seq(Objects))
    /\ wild \in BOOLEAN

StackInit ==
    /\ base = <<>>
    /\ overflow = <<>>
    /\ wild = FALSE

(* The objects on the stack.                                               *)
Content == Range(base) \cup UNION {Range(overflow[k]) : k \in DOMAIN overflow}

(* Mutant: the further blocks are not looked at.                           *)
IsBaseEmpty == base = <<>>

IsExStackEmpty == overflow = <<>> /\ base = <<>>

GoWild ==
    /\ wild' = TRUE
    /\ UNCHANGED <<base, overflow>>

PushOnBase(op) ==
    /\ Len(base) < BlockSize
    /\ base' = Append(base, op)
    /\ UNCHANGED <<overflow, wild>>

PushOnTop(op) ==
    /\ Len(base) >= BlockSize
    /\ overflow # <<>>
    /\ Len(Head(overflow)) < BlockSize
    /\ overflow' = <<Append(Head(overflow), op)>> \o Tail(overflow)
    /\ UNCHANGED <<base, wild>>

NeedsBlock ==
    /\ Len(base) >= BlockSize
    /\ ~(overflow # <<>> /\ Len(Head(overflow)) < BlockSize)

(* The position of a new block is whatever malloc left there: zero by      *)
(* chance, or anything else.                                               *)
PushOnNewBlock(op) ==
    /\ NeedsBlock
    /\ Len(overflow) < MaxBlocks
    /\ overflow' = <<<<op>>>> \o overflow
    /\ UNCHANGED <<base, wild>>

PushExStack(op) == PushOnBase(op) \/ PushOnTop(op) \/ PushOnNewBlock(op)

(* The other outcome of a push that allocates a block.                     *)
PushWild == NeedsBlock /\ GoWild

(* A block that became empty by a removal stays in the list; popping it    *)
(* reads stack[-1].                                                        *)
PopWild == overflow # <<>> /\ Head(overflow) = <<>> /\ GoWild

PopExStack(op) ==
    /\ UNCHANGED wild
    /\ \/ /\ overflow # <<>>
          /\ Head(overflow) # <<>>
          /\ op = Last(Head(overflow))
          /\ overflow' = IF Len(Head(overflow)) > 1
                         THEN <<Front(Head(overflow))>> \o Tail(overflow)
                         ELSE Tail(overflow)
          /\ UNCHANGED base
       \/ /\ overflow = <<>>
          /\ base # <<>>
          /\ op = Last(base)
          /\ base' = Front(base)
          /\ UNCHANGED overflow

(* One block without op: its last entry takes op's place.                  *)
Without(block, op) ==
    IF op \notin Range(block) THEN block
    ELSE LET i == CHOOSE j \in DOMAIN block : block[j] = op
         IN Front([block EXCEPT ![i] = Last(block)])

(* Mutant: only the static block is searched.                              *)
RemoveObjectBaseOnly(op) ==
    /\ base' = Without(base, op)
    /\ UNCHANGED <<overflow, wild>>

RemoveObjectExStack(op) ==
    /\ base' = Without(base, op)
    /\ overflow' = [k \in DOMAIN overflow |-> Without(overflow[k], op)]
    /\ UNCHANGED wild
=============================================================================
