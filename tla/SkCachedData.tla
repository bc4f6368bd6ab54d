---------------------------- MODULE SkCachedData ----------------------------
(***************************************************************************)
(* SkCachedData (src/core/SkCachedData.cpp): data in discardable memory    *)
(* with owners, one of which may be a resource cache. The memory is locked *)
(* as long as there is an owner that is not the cache. A function is one   *)
(* critical section of the fMutex of the data, with at most one call of    *)
(* the pool in it.                                                         *)
(***************************************************************************)
EXTENDS SkDiscardableMemoryPool

CONSTANT Datas   (* the data, each with the block of the same name *)

ASSUME DataAssumption == Datas \subseteq Blocks

VARIABLES
  fRefCnt,    (* zero: there is no such object *)
  fInCache,
  fIsLocked,
  fData       (* whether fData points to the memory *)

dataVars == <<fRefCnt, fInCache, fIsLocked, fData>>

DataInit ==
  /\ fRefCnt = [d \in Datas |-> 0]
  /\ fInCache = [d \in Datas |-> FALSE]
  /\ fIsLocked = [d \in Datas |-> FALSE]
  /\ fData = [d \in Datas |-> FALSE]
-----------------------------------------------------------------------------
(* The constructor, of a block that has just been made, and the            *)
(* attachToCacheAndRef() of the record made for it before it is shared.    *)
DataMake(d) ==
  /\ PoolMake(d)
  /\ fRefCnt' = [fRefCnt EXCEPT ![d] = 2]
  /\ fInCache' = [fInCache EXCEPT ![d] = TRUE]
  /\ fIsLocked' = [fIsLocked EXCEPT ![d] = TRUE]
  /\ fData' = [fData EXCEPT ![d] = TRUE]

RefLocks(d) == fRefCnt[d] = 1 /\ fInCache[d]

(* What data() says after a ref(). *)
DataAfterRef(d) == IF RefLocks(d) THEN fPointer[d] ELSE fData[d]

(* inMutexRef(), of an owner that is not the cache.                        *)
Ref(d) ==
  /\ IF RefLocks(d)
     THEN /\ PoolLock(d)
          /\ fIsLocked' = [fIsLocked EXCEPT ![d] = TRUE]
          /\ fData' = [fData EXCEPT ![d] = fPointer[d]]
     ELSE UNCHANGED <<fIsLocked, fData, poolVars>>
  /\ fRefCnt' = [fRefCnt EXCEPT ![d] = @ + 1]
  /\ UNCHANGED fInCache

(* Whether inMutexUnref() unlocks: for the last owner, and when only the   *)
(* cache is left.                                                          *)
UnrefUnlocks(d, fromCache) ==
  \/ fRefCnt[d] = 1 /\ fIsLocked[d]
  \/ fRefCnt[d] = 2 /\ fInCache[d] /\ ~fromCache

UnrefCounts(d, fromCache) ==
  /\ fRefCnt' = [fRefCnt EXCEPT ![d] = @ - 1]
  /\ fInCache' = [fInCache EXCEPT ![d] = @ /\ ~fromCache]
  /\ LET unlocks == UnrefUnlocks(d, fromCache)
     IN /\ fIsLocked' = [fIsLocked EXCEPT ![d] = @ /\ ~unlocks]
        /\ fData' = [fData EXCEPT ![d] = @ /\ ~unlocks]

(* inMutexUnref(); an owner that gets the count to zero deletes the data.  *)
Unref(d, fromCache) ==
  /\ UnrefCounts(d, fromCache)
  /\ IF UnrefUnlocks(d, fromCache) /\ fData[d]
     THEN PoolUnlock(d) ELSE UNCHANGED poolVars
-----------------------------------------------------------------------------
DataTypeOK ==
  /\ fRefCnt \in [Datas -> Nat]
  /\ fInCache \in [Datas -> BOOLEAN]
  /\ fIsLocked \in [Datas -> BOOLEAN]
  /\ fData \in [Datas -> BOOLEAN]

(* The assertions of validate(): locked exactly when there is an owner     *)
(* that is not the cache.                                                 *)
Validated(d) ==
  IF fIsLocked[d]
  THEN fInCache[d] => fRefCnt[d] > 1
  ELSE /\ ~fData[d]
       /\ fRefCnt[d] = IF fInCache[d] THEN 1 ELSE 0
=============================================================================
