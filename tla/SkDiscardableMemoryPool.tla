----------------------- MODULE SkDiscardableMemoryPool -----------------------
(***************************************************************************)
(* The pool of discardable memory of src/lazy/SkDiscardableMemoryPool.cpp. *)
(* Every function of the pool is one critical section of its fMutex, and   *)
(* is one operator here: the modules of the clients use them as conjuncts  *)
(* of their steps. A client owns its block and calls lock(), unlock() and  *)
(* the destructor for it; the pool takes memory away from unlocked blocks. *)
(***************************************************************************)
EXTENDS Integers, FiniteSets, FiniteSetsExt, SequencesExt, Lists

CONSTANTS
  Blocks,    (* PoolDiscardableMemory objects, used again when destroyed   *)
  Bytes,     (* their sizes                                                *)
  Budgets    (* the budgets setRAMBudget() may be given                    *)

ASSUME PoolAssumption ==
  /\ IsFiniteSet(Blocks)
  /\ Bytes \in [Blocks -> Nat \ {0}]
  /\ Budgets \subseteq Nat /\ Budgets # {}

VARIABLES
  fList,     (* the blocks that have their memory, head first              *)
  fUsed,
  fBudget,
  fPointer,  (* whether a block has its memory                             *)
  fLocked

poolVars == <<fList, fUsed, fBudget, fPointer, fLocked>>

BytesOf(blocks) == MapThenSumSet(LAMBDA b : Bytes[b], blocks)

PoolInit ==
  /\ fList = <<>> /\ fUsed = 0 /\ fBudget \in Budgets
  /\ fPointer = [b \in Blocks |-> FALSE]
  /\ fLocked = [b \in Blocks |-> FALSE]
-----------------------------------------------------------------------------
(* What dumpDownTo(budget) purges from a list: from the tail and past the  *)
(* locked blocks, as long as more than the budget is used.                 *)
Dumped(list, locked, used, budget) ==
  LET UnlockedFrom(i) == {list[j] : j \in {k \in i .. Len(list) : ~locked[list[k]]}}
  IN {list[i] : i \in {k \in DOMAIN list :
        ~locked[list[k]] /\ used - BytesOf(UnlockedFrom(k + 1)) > budget}}

(* dumpDownTo(): a purged block leaves the list, and is not deleted.       *)
DumpDownTo(budget, list, used, pointer, locked) ==
  LET gone == Dumped(list, locked, used, budget)
  IN /\ fList' = Omit(list, gone)
     /\ fUsed' = used - BytesOf(gone)
     /\ fPointer' = [b \in Blocks |-> pointer[b] /\ b \notin gone]
     /\ fLocked' = locked

(* make(): the new block is locked, so that it outlives its own dump.      *)
PoolMake(b) ==
  /\ DumpDownTo(fBudget, <<b>> \o fList, fUsed + Bytes[b],
                [fPointer EXCEPT ![b] = TRUE], [fLocked EXCEPT ![b] = TRUE])
  /\ UNCHANGED fBudget

(* lock(): fails, and changes nothing, when the memory has been purged.    *)
PoolLock(b) ==
  IF fPointer[b]
  THEN /\ fLocked' = [fLocked EXCEPT ![b] = TRUE]
       /\ fList' = <<b>> \o Omit(fList, {b})
       /\ UNCHANGED <<fUsed, fBudget, fPointer>>
  ELSE UNCHANGED poolVars

(* Mutant: what is over budget is left for the next allocation. *)
PoolUnlockKeeps(b) ==
  /\ fLocked' = [fLocked EXCEPT ![b] = FALSE]
  /\ UNCHANGED <<fList, fUsed, fBudget, fPointer>>

PoolUnlock(b) ==
  /\ DumpDownTo(fBudget, fList, fUsed, fPointer, [fLocked EXCEPT ![b] = FALSE])
  /\ UNCHANGED fBudget

(* removeFromPool(), from the destructor of the block.                     *)
PoolRemove(b) ==
  /\ fPointer' = [fPointer EXCEPT ![b] = FALSE]
  /\ IF fPointer[b]
     THEN /\ fList' = Omit(fList, {b})
          /\ fUsed' = fUsed - Bytes[b]
     ELSE UNCHANGED <<fList, fUsed>>
  /\ UNCHANGED <<fBudget, fLocked>>

DumpPool ==
  /\ DumpDownTo(0, fList, fUsed, fPointer, fLocked)
  /\ UNCHANGED fBudget

SetRAMBudget(budget) ==
  /\ fBudget' = budget
  /\ DumpDownTo(budget, fList, fUsed, fPointer, fLocked)
-----------------------------------------------------------------------------
PoolTypeOK ==
  /\ fList \in Seq(Blocks)
  /\ fUsed \in Nat
  /\ fBudget \in Budgets
  /\ fPointer \in [Blocks -> BOOLEAN]
  /\ fLocked \in [Blocks -> BOOLEAN]

(* The list holds each block that has its memory once, fUsed counts what   *)
(* is in the list, and more than the budget is used only for the sake of   *)
(* locked blocks (dumpDownTo() after each make(), unlock(), new budget).   *)
PoolAgrees ==
  /\ IsInjective(fList)
  /\ ToSet(fList) = {b \in Blocks : fPointer[b]}
  /\ fUsed = BytesOf(ToSet(fList))
  /\ fUsed > fBudget => \A b \in ToSet(fList) : fLocked[b]
=============================================================================
