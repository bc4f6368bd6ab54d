------------------------ MODULE GrResourceCacheProofs -----------------------
(***************************************************************************)
(* Proofs about GrResourceCache.                                           *)
(***************************************************************************)
EXTENDS GrResourceCache, DataLemmas

(* The fields and their types. *)
Fields ==
  [state : {"none", "cached", "destroyed"}, refs : Nat, size : Sizes \union {0},
   timestamp : 0 .. Stamps - 1, budgetedType : BudgetedTypes, refsWrapped : BOOLEAN,
   scratchKey : ScratchKeys \union {Null}, uniqueKey : UniqueKeys \union {Null}]

Caches ==
  [res : [Resources -> Fields],
   fNonpurgeableResources : SUBSET Resources, fPurgeableQueue : SUBSET Resources,
   fScratchMap : SUBSET (ScratchKeys \X Resources),
   fUniqueHash : [UniqueKeys -> Resources \union {Null}],
   fBytes : Int, fBudgetedCount : Int, fBudgetedBytes : Int, fPurgeableBytes : Int,
   fNumFlushWillMakePurgeable : Int, fMaxBytes : Nat, fTimestamp : 0 .. Stamps - 1,
   fTexturesAwaitingUnref : [Resources -> Int], use : Seq(Resources)]

(* The lists and keys know a resource as its fields say.                   *)
Right(c, r) ==
  /\ r \in c.fNonpurgeableResources <=> c.res[r].state = "cached" /\ ~IsPurgeable(c, r)
  /\ r \in c.fPurgeableQueue <=> c.res[r].state = "cached" /\ IsPurgeable(c, r)
  /\ \A k \in UniqueKeys :
       c.fUniqueHash[k] = r <=> c.res[r].state = "cached" /\ c.res[r].uniqueKey = k
  /\ \A k \in ScratchKeys : <<k, r>> \in c.fScratchMap <=>
       c.res[r].state = "cached" /\ c.res[r].scratchKey = k /\ c.res[r].uniqueKey = Null
  /\ c.res[r].uniqueKey # Null => Budgeted(c, r) \/ c.res[r].refsWrapped
  /\ c.res[r].state = "none" => c.res[r].refs = 0

(* What a resource adds to each total.                                     *)
Sized(c) == [r \in Resources |-> IF c.res[r].state = "cached" THEN c.res[r].size ELSE 0]
Paid(c) == [r \in Resources |->
  IF c.res[r].state = "cached" /\ Budgeted(c, r) THEN c.res[r].size ELSE 0]
Counted(c) == [r \in Resources |->
  IF c.res[r].state = "cached" /\ Budgeted(c, r) THEN 1 ELSE 0]
Waiting(c) == [r \in Resources |->
  IF c.res[r].state = "cached" /\ IsPurgeable(c, r) THEN c.res[r].size ELSE 0]

TotalsRight(c) ==
  /\ c.fBytes = Total(Sized(c), Resources)
  /\ c.fBudgetedBytes = Total(Paid(c), Resources)
  /\ c.fBudgetedCount = Total(Counted(c), Resources)
  /\ c.fPurgeableBytes = Total(Waiting(c), Resources)
  /\ c.fNumFlushWillMakePurgeable = 0

(* The fields of a resource, but for its timestamp.                        *)
SameFields(c, d, q) ==
  /\ d.res[q].state = c.res[q].state /\ d.res[q].refs = c.res[q].refs
  /\ d.res[q].size = c.res[q].size /\ d.res[q].budgetedType = c.res[q].budgetedType
  /\ d.res[q].refsWrapped = c.res[q].refsWrapped
  /\ d.res[q].scratchKey = c.res[q].scratchKey /\ d.res[q].uniqueKey = c.res[q].uniqueKey

(* d is c but for the resource r and the order.                            *)
Others(c, d, r) == \A q \in Resources \ {r} :
  /\ SameFields(c, d, q)
  /\ q \in d.fNonpurgeableResources <=> q \in c.fNonpurgeableResources
  /\ q \in d.fPurgeableQueue <=> q \in c.fPurgeableQueue
  /\ \A k \in UniqueKeys : d.fUniqueHash[k] = q <=> c.fUniqueHash[k] = q
  /\ \A k \in ScratchKeys : <<k, q>> \in d.fScratchMap <=> <<k, q>> \in c.fScratchMap

Moved(c, d, r) ==
  /\ d.fBytes = c.fBytes - Sized(c)[r] + Sized(d)[r]
  /\ d.fBudgetedBytes = c.fBudgetedBytes - Paid(c)[r] + Paid(d)[r]
  /\ d.fBudgetedCount = c.fBudgetedCount - Counted(c)[r] + Counted(d)[r]
  /\ d.fPurgeableBytes = c.fPurgeableBytes - Waiting(c)[r] + Waiting(d)[r]
  /\ d.fNumFlushWillMakePurgeable = 0

Listed(c) == c \in Caches /\ (\A r \in Resources : Right(c, r)) /\ TotalsRight(c)

LEMMA SizesAre ==
  ASSUME NEW c \in Caches
  PROVE  \A r \in Resources : c.res[r].size \in Nat
<1>1. \A s \in Sizes \union {0} : s \in Nat
  BY CacheAssumption
<1>2. \A r \in Resources : c.res[r].size \in Sizes \union {0}
  BY DEF Caches, Fields
<1> QED
  BY <1>1, <1>2

LEMMA WeightsTyped ==
  ASSUME NEW c \in Caches
  PROVE  \A r \in Resources :
           Sized(c)[r] \in Nat /\ Paid(c)[r] \in Nat /\ Counted(c)[r] \in Nat /\ Waiting(c)[r] \in Nat
BY SizesAre DEF Sized, Paid, Counted, Waiting

(* Lists, keys and totals stay right when they follow the one resource     *)
(* that changes.                                                           *)
LEMMA OneChanged ==
  ASSUME NEW c, Listed(c), NEW d \in Caches, NEW r \in Resources,
         Others(c, d, r), Right(d, r), Moved(c, d, r)
  PROVE  Listed(d)
<1>1. c \in Caches /\ IsFiniteSet(Resources)
  BY CacheAssumption DEF Listed
<1>2. ASSUME NEW q \in Resources PROVE Right(d, q)
  <2>1. Right(c, q)
    BY DEF Listed
  <2>2. CASE q # r
    BY <2>1, <2>2 DEF Others, SameFields, Right, IsPurgeable, Budgeted
  <2> QED
    BY <2>2
<1>3. \A q \in Resources \ {r} :
        /\ Sized(d)[q] = Sized(c)[q] /\ Paid(d)[q] = Paid(c)[q]
        /\ Counted(d)[q] = Counted(c)[q] /\ Waiting(d)[q] = Waiting(c)[q]
  BY DEF Others, SameFields, Sized, Paid, Counted, Waiting, IsPurgeable, Budgeted
<1>4. \A q \in Resources :
        /\ Sized(c)[q] \in Nat /\ Paid(c)[q] \in Nat /\ Counted(c)[q] \in Nat /\ Waiting(c)[q] \in Nat
        /\ Sized(d)[q] \in Nat /\ Paid(d)[q] \in Nat /\ Counted(d)[q] \in Nat /\ Waiting(d)[q] \in Nat
  BY <1>1, WeightsTyped
<1>5. Total(Sized(d), Resources) = Total(Sized(c), Resources) - Sized(c)[r] + Sized(d)[r]
  BY <1>1, <1>3, <1>4, TotalChange
<1>6. Total(Paid(d), Resources) = Total(Paid(c), Resources) - Paid(c)[r] + Paid(d)[r]
  BY <1>1, <1>3, <1>4, TotalChange
<1>7. Total(Counted(d), Resources) = Total(Counted(c), Resources) - Counted(c)[r] + Counted(d)[r]
  BY <1>1, <1>3, <1>4, TotalChange
<1>8. Total(Waiting(d), Resources) = Total(Waiting(c), Resources) - Waiting(c)[r] + Waiting(d)[r]
  BY <1>1, <1>3, <1>4, TotalChange
<1>9. TotalsRight(d)
  <2>1. TotalsRight(c)
    BY DEF Listed
  <2> QED
    BY <2>1, <1>5, <1>6, <1>7, <1>8 DEF TotalsRight, Moved
<1> QED
  BY <1>2, <1>9 DEF Listed

(* ... and when only timestamps, the history or the limit change.          *)
Alike(c, d) ==
  /\ \A q \in Resources : d.res[q] = [c.res[q] EXCEPT !.timestamp = d.res[q].timestamp]
  /\ d.fNonpurgeableResources = c.fNonpurgeableResources
  /\ d.fPurgeableQueue = c.fPurgeableQueue
  /\ d.fScratchMap = c.fScratchMap /\ d.fUniqueHash = c.fUniqueHash
  /\ d.fBytes = c.fBytes /\ d.fBudgetedCount = c.fBudgetedCount
  /\ d.fBudgetedBytes = c.fBudgetedBytes /\ d.fPurgeableBytes = c.fPurgeableBytes
  /\ d.fNumFlushWillMakePurgeable = c.fNumFlushWillMakePurgeable

LEMMA AlikeSame ==
  ASSUME NEW c \in Caches, NEW d, Alike(c, d), NEW q \in Resources
  PROVE  SameFields(c, d, q)
<1>1. c.res[q] \in Fields
  BY DEF Caches
<1>2. d.res[q] = [c.res[q] EXCEPT !.timestamp = d.res[q].timestamp]
  BY DEF Alike
<1> DEFINE s == d.res[q].timestamp
<1> HIDE DEF s
<1>3. d.res[q] = [c.res[q] EXCEPT !.timestamp = s]
  BY <1>2 DEF s
<1> QED
  BY <1>1, <1>3 DEF SameFields, Fields

LEMMA AlikeListed ==
  ASSUME NEW c, Listed(c), NEW d \in Caches, Alike(c, d)
  PROVE  Listed(d)
<1>1. c \in Caches /\ (\A r \in Resources : Right(c, r)) /\ TotalsRight(c)
  BY DEF Listed
<1>2. \A q \in Resources : SameFields(c, d, q)
  BY <1>1, AlikeSame
<1>3. \A r \in Resources : Right(d, r)
  BY <1>1, <1>2 DEF Right, Alike, SameFields, IsPurgeable, Budgeted
<1>4. Sized(d) = Sized(c) /\ Paid(d) = Paid(c) /\ Counted(d) = Counted(c) /\ Waiting(d) = Waiting(c)
  BY <1>2 DEF Sized, Paid, Counted, Waiting, SameFields, IsPurgeable, Budgeted
<1>5. TotalsRight(d)
  BY <1>1, <1>4 DEF TotalsRight, Alike
<1> QED
  BY <1>3, <1>5 DEF Listed
-----------------------------------------------------------------------------
(* The order of the timestamps is the order of use.                        *)
Follows(c) ==
  /\ \A q \in Resources : q \in InCache(c) <=> \E i \in DOMAIN c.use : c.use[i] = q
  /\ \A i, j \in DOMAIN c.use :
       i < j => c.res[c.use[i]].timestamp < c.res[c.use[j]].timestamp
Ordered(c) ==
  /\ Follows(c)
  /\ c.fTimestamp # 0 => \A q \in InCache(c) : c.res[q].timestamp < c.fTimestamp

(* What waits to be purged pays for it.                                    *)
PaidFor(c) == \A r \in c.fPurgeableQueue : Budgeted(c, r)

Good(c) == Listed(c) /\ Ordered(c) /\ PaidFor(c)

(* What a call that does not stamp leaves of the order.                    *)
KeepsOrder(c, d) ==
  /\ d.use = c.use /\ d.fTimestamp = c.fTimestamp /\ InCache(d) = InCache(c)
  /\ \A q \in Resources : d.res[q].timestamp = c.res[q].timestamp

LEMMA OrderKept ==
  ASSUME NEW c \in Caches, Ordered(c), NEW d, KeepsOrder(c, d)
  PROVE  Ordered(d)
<1>1. InCache(c) \subseteq Resources
  BY DEF Caches, InCache
<1>2. \A i \in DOMAIN c.use : c.use[i] \in Resources
  <2>1. c.use \in Seq(Resources)
    BY DEF Caches
  <2> QED
    BY <2>1, ElementOfSeq, LenProperties
<1> QED
  BY <1>1, <1>2 DEF Ordered, Follows, KeepsOrder

LEMMA GoodIs ==
  ASSUME NEW c, Good(c)
  PROVE  /\ c \in Caches /\ \A r \in Resources : Right(c, r)
         /\ InCache(c) = {r \in Resources : c.res[r].state = "cached"}
<1>1. c \in Caches /\ \A r \in Resources : Right(c, r)
  BY DEF Good, Listed
<1>2. InCache(c) = {r \in Resources : c.res[r].state = "cached"}
  BY <1>1 DEF Right, InCache, Caches
<1> QED
  BY <1>1, <1>2

(* What a step does to one resource leaves the others and the references   *)
(* that messages will drop alone.                                          *)
Effect(c, d, r, n) ==
  /\ d.fTexturesAwaitingUnref = c.fTexturesAwaitingUnref
  /\ d.fMaxBytes = c.fMaxBytes
  /\ d.res[r].refs = c.res[r].refs + n
  /\ \A q \in Resources \ {r} :
       d.res[q].refs = c.res[q].refs /\ d.res[q].state = c.res[q].state

LEMMA DestroyedIs ==
  ASSUME NEW c \in Caches, NEW r \in Resources
  PROVE  LET d == Destroyed(c, r)
             s == c.res[r].size
             left == [Nothing EXCEPT !.state = IF c.res[r].refs = 0 THEN "none" ELSE "destroyed",
                                     !.refs = c.res[r].refs]
         IN
         /\ d \in Caches
         /\ d.res = [c.res EXCEPT ![r] = left]
         /\ d.fNonpurgeableResources = c.fNonpurgeableResources \ (IF IsPurgeable(c, r) THEN {} ELSE {r})
         /\ d.fPurgeableQueue = c.fPurgeableQueue \ (IF IsPurgeable(c, r) THEN {r} ELSE {})
         /\ d.fScratchMap = c.fScratchMap \ ScratchEntry(c, r)
         /\ d.fUniqueHash = Without(c.fUniqueHash, c.res[r].uniqueKey)
         /\ d.fBytes = c.fBytes - s
         /\ d.fBudgetedCount = c.fBudgetedCount - Count(Budgeted(c, r))
         /\ d.fBudgetedBytes = c.fBudgetedBytes - s * Count(Budgeted(c, r))
         /\ d.fPurgeableBytes = c.fPurgeableBytes - (IF IsPurgeable(c, r) THEN s ELSE 0)
         /\ d.fNumFlushWillMakePurgeable = c.fNumFlushWillMakePurgeable
         /\ d.use = Omit(c.use, {r})
         /\ d.fTimestamp = c.fTimestamp
         /\ d.fTexturesAwaitingUnref = c.fTexturesAwaitingUnref
         /\ d.fMaxBytes = c.fMaxBytes
<1> DEFINE d == Destroyed(c, r)
           s == c.res[r].size
           n == Cardinality(IF IsPurgeable(c, r) THEN {r} ELSE {})
           refs == c.res[r].refs
           left == [Nothing EXCEPT !.state = IF refs = 0 THEN "none" ELSE "destroyed", !.refs = refs]
           purgeable == IF IsPurgeable(c, r) THEN {r} ELSE {}
<1>1. c.res[r] \in Fields /\ s \in Nat /\ refs \in Nat
  BY SizesAre DEF Caches, Fields
<1>2. n = (IF IsPurgeable(c, r) THEN 1 ELSE 0) /\ s * n = (IF IsPurgeable(c, r) THEN s ELSE 0)
  <2>1. Cardinality({r}) = 1 /\ Cardinality({}) = 0
    BY FS_Singleton, FS_EmptySet
  <2> QED
    BY <1>1, <2>1
<1>3. left \in Fields
  <2>1. 0 \in 0 .. Stamps - 1
    BY CacheAssumption, FS_CardinalityType
  <2> QED
    BY <1>1, <2>1 DEF Nothing, Fields, BudgetedTypes
<1>4. Omit(c.use, {r}) \in Seq(Resources)
  BY OmitIs DEF Caches
<1>5. Without(c.fUniqueHash, c.res[r].uniqueKey) \in [UniqueKeys -> Resources \union {Null}]
  BY <1>1 DEF Without, Caches, Fields
<1>6. Count(Budgeted(c, r)) \in Int /\ s * Count(Budgeted(c, r)) \in Int
  BY <1>1 DEF Count
<1>7. /\ d.res = [c.res EXCEPT ![r] = left]
      /\ d.fNonpurgeableResources = c.fNonpurgeableResources \ ({r} \ purgeable)
      /\ d.fPurgeableQueue = c.fPurgeableQueue \ purgeable
      /\ d.fScratchMap = c.fScratchMap \ ScratchEntry(c, r)
      /\ d.fUniqueHash = Without(c.fUniqueHash, c.res[r].uniqueKey)
      /\ d.fBytes = c.fBytes - s
      /\ d.fBudgetedCount = c.fBudgetedCount - Count(Budgeted(c, r))
      /\ d.fBudgetedBytes = c.fBudgetedBytes - s * Count(Budgeted(c, r))
      /\ d.fPurgeableBytes = c.fPurgeableBytes - s * n
      /\ d.fNumFlushWillMakePurgeable = c.fNumFlushWillMakePurgeable
      /\ d.use = Omit(c.use, {r})
      /\ d.fTimestamp = c.fTimestamp
      /\ d.fTexturesAwaitingUnref = c.fTexturesAwaitingUnref
      /\ d.fMaxBytes = c.fMaxBytes
  BY DEF Destroyed, Removed, Caches
<1>8. [c.res EXCEPT ![r] = left] \in [Resources -> Fields]
  BY <1>3 DEF Caches
<1>9. d \in Caches
  <2> DEFINE e == Removed(c, r)
             x2 == c.fPurgeableQueue \ purgeable
             x3 == c.fPurgeableBytes - s * n
             x4 == c.fNonpurgeableResources \ ({r} \ purgeable)
             x5 == c.fBytes - s
             m == Count(Budgeted(c, r))
             x6 == c.fBudgetedCount - m
             x7 == c.fBudgetedBytes - s * m
             x8 == c.fScratchMap \ ScratchEntry(c, r)
             x9 == Without(c.fUniqueHash, c.res[r].uniqueKey)
             y1 == [e.res EXCEPT ![r] = left]
             y2 == Omit(e.use, {r})
  <2>1. x2 \in SUBSET Resources /\ x4 \in SUBSET Resources /\ x8 \in SUBSET (ScratchKeys \X Resources)
    BY DEF Caches
  <2>2. s * n \in Int /\ m \in Int /\ s * m \in Int
    BY <1>1, <1>2, <1>6
  <2>3. x9 \in [UniqueKeys -> Resources \union {Null}]
    BY <1>5
  <2>4. x3 \in Int /\ x5 \in Int /\ x6 \in Int /\ x7 \in Int
    <3>1. c.fPurgeableBytes \in Int /\ c.fBytes \in Int /\ c.fBudgetedCount \in Int /\ c.fBudgetedBytes \in Int
      BY DEF Caches
    <3> DEFINE sn == s * n
               sm == s * m
    <3>2. sn \in Int /\ sm \in Int
      BY <2>2
    <3> HIDE DEF sn, sm, s, m
    <3>3. c.fPurgeableBytes - sn \in Int /\ c.fBytes - s \in Int /\ c.fBudgetedCount - m \in Int
          /\ c.fBudgetedBytes - sm \in Int
      BY <1>1, <2>2, <3>1, <3>2
    <3> QED
      BY <3>3 DEF sn, sm
  <2>5. e = [c EXCEPT !.fPurgeableQueue = x2, !.fPurgeableBytes = x3,
                      !.fNonpurgeableResources = x4, !.fBytes = x5, !.fBudgetedCount = x6,
                      !.fBudgetedBytes = x7, !.fScratchMap = x8, !.fUniqueHash = x9]
    BY DEF Removed
  <2>6. d = [e EXCEPT !.res = y1, !.use = y2]
    BY DEF Destroyed
  <2>7. e.res = c.res /\ e.use = c.use
    BY DEF Removed, Caches
  <2>8. y1 \in [Resources -> Fields] /\ y2 \in Seq(Resources)
    BY <1>4, <1>8, <2>7
  <2> HIDE DEF x2, x3, x4, x5, x6, x7, x8, x9, y1, y2, e, d
  <2>9. e \in Caches
    BY <2>1, <2>3, <2>4, <2>5 DEF Caches
  <2> QED
    BY <2>6, <2>8, <2>9 DEF Caches
<1> HIDE DEF d, left, n, s, refs
<1>10. /\ d.res = [c.res EXCEPT ![r] = left]
       /\ d.fNonpurgeableResources = c.fNonpurgeableResources \ (IF IsPurgeable(c, r) THEN {} ELSE {r})
       /\ d.fPurgeableQueue = c.fPurgeableQueue \ (IF IsPurgeable(c, r) THEN {r} ELSE {})
       /\ d.fScratchMap = c.fScratchMap \ ScratchEntry(c, r)
       /\ d.fUniqueHash = Without(c.fUniqueHash, c.res[r].uniqueKey)
       /\ d.fBytes = c.fBytes - s
       /\ d.fBudgetedCount = c.fBudgetedCount - Count(Budgeted(c, r))
       /\ d.fBudgetedBytes = c.fBudgetedBytes - s * Count(Budgeted(c, r))
       /\ d.fPurgeableBytes = c.fPurgeableBytes - (IF IsPurgeable(c, r) THEN s ELSE 0)
       /\ d.fNumFlushWillMakePurgeable = c.fNumFlushWillMakePurgeable
       /\ d.use = Omit(c.use, {r})
       /\ d.fTimestamp = c.fTimestamp
       /\ d.fTexturesAwaitingUnref = c.fTexturesAwaitingUnref
       /\ d.fMaxBytes = c.fMaxBytes
  BY <1>2, <1>7 DEF Caches
<1> QED
  BY <1>9, <1>10 DEF d, left, s, refs
LEMMA DestroyedListed ==
  ASSUME NEW c, Listed(c), NEW r \in Resources, c.res[r].state = "cached"
  PROVE  Listed(Destroyed(c, r))
<1> DEFINE d == Destroyed(c, r)
           refs == c.res[r].refs
           left == [Nothing EXCEPT !.state = IF refs = 0 THEN "none" ELSE "destroyed", !.refs = refs]
<1>1. /\ c \in Caches /\ Right(c, r) /\ c.res[r] \in Fields
      /\ c.res[r].size \in Nat /\ c.fNumFlushWillMakePurgeable = 0
  BY SizesAre DEF Listed, Caches, Fields, TotalsRight
<1>2. /\ d \in Caches
      /\ d.res = [c.res EXCEPT ![r] = left]
      /\ d.fNonpurgeableResources = c.fNonpurgeableResources \ (IF IsPurgeable(c, r) THEN {} ELSE {r})
      /\ d.fPurgeableQueue = c.fPurgeableQueue \ (IF IsPurgeable(c, r) THEN {r} ELSE {})
      /\ d.fScratchMap = c.fScratchMap \ ScratchEntry(c, r)
      /\ d.fUniqueHash = Without(c.fUniqueHash, c.res[r].uniqueKey)
      /\ d.fBytes = c.fBytes - c.res[r].size
      /\ d.fBudgetedCount = c.fBudgetedCount - Count(Budgeted(c, r))
      /\ d.fBudgetedBytes = c.fBudgetedBytes - c.res[r].size * Count(Budgeted(c, r))
      /\ d.fPurgeableBytes = c.fPurgeableBytes - (IF IsPurgeable(c, r) THEN c.res[r].size ELSE 0)
      /\ d.fNumFlushWillMakePurgeable = c.fNumFlushWillMakePurgeable
  BY <1>1, DestroyedIs
<1>3. left.state # "cached" /\ left.uniqueKey = Null /\ left.refs = refs
      /\ left.budgetedType # "Budgeted" /\ (left.state = "none" => refs = 0)
  BY DEF Nothing
<1> HIDE DEF d, left, refs
<1>4. d.res[r] = left /\ \A q \in Resources \ {r} : d.res[q] = c.res[q]
  BY <1>1, <1>2 DEF Caches
<1>5. ~(r \in d.fNonpurgeableResources) /\ ~(r \in d.fPurgeableQueue)
  BY <1>1, <1>2 DEF Right
<1>6. ASSUME NEW k \in UniqueKeys
      PROVE  d.fUniqueHash[k] # r /\ \A q \in Resources \ {r} : d.fUniqueHash[k] = q <=> c.fUniqueHash[k] = q
  <2>1. Null \notin Resources /\ Null \notin UniqueKeys
    BY CacheAssumption
  <2> DEFINE h == c.fUniqueHash
             key == c.res[r].uniqueKey
  <2>2. h \in [UniqueKeys -> Resources \union {Null}] /\ d.fUniqueHash = Without(h, key)
    BY <1>1, <1>2 DEF Caches
  <2>3. h[k] = r => key = k
    BY <1>1 DEF Right
  <2> HIDE DEF h, key
  <2>4. CASE key = k
    <3>1. d.fUniqueHash[k] = Null
      BY <2>1, <2>2, <2>4 DEF Without
    <3>2. \A q \in Resources \ {r} : h[k] # q
      <4>1. c.res[r].state = "cached" => h[k] = r
        BY <1>1, <2>4 DEF Right, h, key
      <4> QED
        BY <4>1
    <3> QED
      BY <2>1, <3>1, <3>2 DEF h
  <2>5. CASE key # k
    <3>1. d.fUniqueHash[k] = h[k]
      BY <2>2, <2>5 DEF Without
    <3> QED
      BY <2>3, <2>5, <3>1 DEF h
  <2> QED
    BY <2>4, <2>5
<1>7. ASSUME NEW k \in ScratchKeys
      PROVE  <<k, r>> \notin d.fScratchMap
             /\ \A q \in Resources \ {r} : <<k, q>> \in d.fScratchMap <=> <<k, q>> \in c.fScratchMap
  <2>1. Null \notin ScratchKeys
    BY CacheAssumption
  <2> QED
    BY <1>1, <1>2, <2>1 DEF Right, ScratchEntry
<1>8. Others(c, d, r)
  BY <1>2, <1>4, <1>6, <1>7, ZenonT(60) DEF Others, SameFields
<1>9. Right(d, r)
  BY <1>3, <1>4, <1>5, <1>6, <1>7 DEF Right, refs
<1>10. /\ Sized(d)[r] = 0 /\ Paid(d)[r] = 0 /\ Counted(d)[r] = 0 /\ Waiting(d)[r] = 0
       /\ Sized(c)[r] = c.res[r].size
       /\ Paid(c)[r] = c.res[r].size * Count(Budgeted(c, r))
       /\ Counted(c)[r] = Count(Budgeted(c, r))
       /\ Waiting(c)[r] = IF IsPurgeable(c, r) THEN c.res[r].size ELSE 0
  BY <1>1, <1>3, <1>4 DEF Sized, Paid, Counted, Waiting, Count
<1>11. Moved(c, d, r)
  <2>1. c.fBytes \in Int /\ c.fBudgetedCount \in Int /\ c.fBudgetedBytes \in Int /\ c.fPurgeableBytes \in Int
    BY <1>1 DEF Caches
  <2>2. Sized(c)[r] \in Nat /\ Paid(c)[r] \in Nat /\ Counted(c)[r] \in Nat /\ Waiting(c)[r] \in Nat
    BY <1>1, WeightsTyped
  <2>3. /\ d.fBytes = c.fBytes - Sized(c)[r] /\ d.fBudgetedBytes = c.fBudgetedBytes - Paid(c)[r]
        /\ d.fBudgetedCount = c.fBudgetedCount - Counted(c)[r]
        /\ d.fPurgeableBytes = c.fPurgeableBytes - Waiting(c)[r]
        /\ d.fNumFlushWillMakePurgeable = 0
    BY <1>1, <1>2, <1>10
  <2> QED
    BY <1>10, <2>1, <2>2, <2>3 DEF Moved
<1> QED
  BY <1>1, <1>2, <1>8, <1>9, <1>11, OneChanged DEF d

(* R is the list but for r, in the same order.                             *)
AllBut(R, list, r) ==
  /\ \A q : (\E j \in DOMAIN R : R[j] = q) <=> q # r /\ \E i \in DOMAIN list : list[i] = q
  /\ \A j, l \in DOMAIN R : j < l =>
       \E k, m \in DOMAIN list : k < m /\ R[j] = list[k] /\ R[l] = list[m]
  /\ \A j \in DOMAIN R : R[j] # r /\ R[j] \in Resources

LEMMA OmitOne ==
  ASSUME NEW list \in Seq(Resources), NEW r \in Resources
  PROVE  Omit(list, {r}) \in Seq(Resources) /\ AllBut(Omit(list, {r}), list, r)
<1> DEFINE R == Omit(list, {r})
<1>1. /\ R \in Seq(Resources) /\ Rest(R, list, {r}, Len(list))
      /\ Len(list) \in Nat /\ DOMAIN list = 1 .. Len(list)
  BY OmitIs
<1> HIDE DEF R
<1> DEFINE n == Len(list)
<1>2. /\ \A j, l \in DOMAIN R : j < l =>
           \E k, m \in 1 .. n : k < m /\ R[j] = list[k] /\ R[l] = list[m]
      /\ \A j \in DOMAIN R : \E k \in 1 .. n : R[j] = list[k] /\ list[k] \notin {r}
      /\ \A k \in 1 .. n : list[k] \notin {r} => \E j \in DOMAIN R : R[j] = list[k]
  BY <1>1 DEF Rest
<1>3. DOMAIN list = 1 .. n
  BY <1>1
<1> HIDE DEF n
<1>4. \A j \in DOMAIN R : R[j] \in Resources
  BY <1>1, ElementOfSeq, LenProperties
<1>5. ASSUME NEW q
      PROVE  (\E j \in DOMAIN R : R[j] = q) <=> q # r /\ \E i \in DOMAIN list : list[i] = q
  <2>1. (\E j \in DOMAIN R : R[j] = q) => q # r /\ \E i \in DOMAIN list : list[i] = q
    <3> SUFFICES ASSUME NEW j \in DOMAIN R, R[j] = q
                 PROVE  q # r /\ \E i \in DOMAIN list : list[i] = q
      OBVIOUS
    <3>1. PICK k \in 1 .. n : R[j] = list[k] /\ list[k] \notin {r}
      BY <1>2
    <3> QED
      BY <1>3, <3>1
  <2>2. ASSUME q # r, NEW i \in DOMAIN list, list[i] = q PROVE \E j \in DOMAIN R : R[j] = q
    BY <1>2, <1>3, <2>2
  <2> QED
    BY <2>1, <2>2
<1>6. \A j, l \in DOMAIN R : j < l =>
        \E k, m \in DOMAIN list : k < m /\ R[j] = list[k] /\ R[l] = list[m]
  <2> SUFFICES ASSUME NEW j \in DOMAIN R, NEW l \in DOMAIN R, j < l
               PROVE  \E k, m \in DOMAIN list : k < m /\ R[j] = list[k] /\ R[l] = list[m]
    OBVIOUS
  <2>1. PICK k, m \in 1 .. n : k < m /\ R[j] = list[k] /\ R[l] = list[m]
    BY <1>2
  <2> QED
    BY <1>3, <2>1
<1>7. \A j \in DOMAIN R : R[j] # r
  BY <1>2
<1>8. AllBut(R, list, r)
  BY <1>4, <1>5, <1>6, <1>7 DEF AllBut
<1> QED
  BY <1>1, <1>8 DEF R

LEMMA DestroyedGood ==
  ASSUME NEW c, Listed(c), Ordered(c), NEW r \in Resources, c.res[r].state = "cached",
         \A q \in c.fPurgeableQueue \ {r} : Budgeted(c, q)
  PROVE  LET d == Destroyed(c, r) IN
         /\ Good(d) /\ Effect(c, d, r, 0) /\ d.res[r].state # "cached"
         /\ \A q \in Resources \ {r} : d.res[q] = c.res[q]
         /\ InCache(d) = InCache(c) \ {r}
         /\ d.fPurgeableQueue = c.fPurgeableQueue \ {r}
         /\ d.fBudgetedBytes \in Int /\ d.fBudgetedBytes <= c.fBudgetedBytes
<1> DEFINE d == Destroyed(c, r)
           left == [Nothing EXCEPT !.state = IF c.res[r].refs = 0 THEN "none" ELSE "destroyed",
                                   !.refs = c.res[r].refs]
<1>1. Listed(c) /\ Ordered(c) /\ c \in Caches /\ Right(c, r)
  BY SMTT(40) DEF Listed
<1>2. /\ d.res = [c.res EXCEPT ![r] = left]
      /\ d.fTimestamp = c.fTimestamp /\ d.use = Omit(c.use, {r})
      /\ d.fTexturesAwaitingUnref = c.fTexturesAwaitingUnref
      /\ d.fMaxBytes = c.fMaxBytes
      /\ d.fNonpurgeableResources = c.fNonpurgeableResources \ (IF IsPurgeable(c, r) THEN {} ELSE {r})
      /\ d.fPurgeableQueue = c.fPurgeableQueue \ (IF IsPurgeable(c, r) THEN {r} ELSE {})
      /\ d.fBudgetedBytes = c.fBudgetedBytes - c.res[r].size * Count(Budgeted(c, r))
      /\ d \in Caches
  BY <1>1, DestroyedIs
<1>3. Listed(d)
  BY <1>1, DestroyedListed
<1>4. left.state # "cached" /\ left.refs = c.res[r].refs
  BY DEF Nothing
<1> HIDE DEF d, left
<1>5. d.res[r] = left /\ \A q \in Resources \ {r} : d.res[q] = c.res[q]
  BY <1>1, <1>2 DEF Caches
<1>6. InCache(d) = InCache(c) \ {r} /\ d.fPurgeableQueue = c.fPurgeableQueue \ {r}
  BY <1>1, <1>2 DEF InCache, Right
<1>7. Effect(c, d, r, 0)
  <2>1. c.res[r].refs \in Nat
    BY <1>1 DEF Caches, Fields
  <2>2. d.res[r].refs = c.res[r].refs + 0
    BY <1>4, <1>5, <2>1
  <2> QED
    BY <1>2, <1>5, <2>2 DEF Effect
<1>8. d.fBudgetedBytes \in Int /\ d.fBudgetedBytes <= c.fBudgetedBytes
  <2>1. c.res[r].size \in Nat /\ c.fBudgetedBytes \in Int
    BY <1>1, SizesAre DEF Caches, Fields
  <2>2. CASE Budgeted(c, r)
    BY <1>2, <2>1, <2>2 DEF Count
  <2>3. CASE ~Budgeted(c, r)
    BY <1>2, <2>1, <2>3 DEF Count
  <2> QED
    BY <2>2, <2>3
<1>9. c.use \in Seq(Resources) /\ \A i \in DOMAIN c.use : c.use[i] \in Resources
  <2>1. c.use \in Seq(Resources)
    BY <1>1 DEF Caches
  <2> QED
    BY <2>1, ElementOfSeq, LenProperties
<1>10. AllBut(d.use, c.use, r)
  BY <1>2, <1>9, OmitOne
<1>11. Ordered(d)
  <2>1. ASSUME NEW q \in Resources
        PROVE  q \in InCache(d) <=> \E i \in DOMAIN d.use : d.use[i] = q
    <3>1. (\E j \in DOMAIN d.use : d.use[j] = q) <=> q # r /\ \E i \in DOMAIN c.use : c.use[i] = q
      BY <1>10 DEF AllBut
    <3> QED
      BY <1>1, <1>6, <3>1 DEF Ordered, Follows
  <2>2. ASSUME NEW j \in DOMAIN d.use, NEW l \in DOMAIN d.use, j < l
        PROVE  d.res[d.use[j]].timestamp < d.res[d.use[l]].timestamp
    <3>1. PICK k, m \in DOMAIN c.use : k < m /\ d.use[j] = c.use[k] /\ d.use[l] = c.use[m]
      BY <1>10, <2>2 DEF AllBut
    <3>2. c.res[c.use[k]].timestamp < c.res[c.use[m]].timestamp
      BY <1>1, <3>1 DEF Ordered, Follows
    <3>3. d.res[d.use[j]] = c.res[c.use[k]] /\ d.res[d.use[l]] = c.res[c.use[m]]
      BY <1>5, <1>10, <3>1 DEF AllBut
    <3> QED
      BY <3>2, <3>3
  <2>3. ASSUME d.fTimestamp # 0, NEW q \in InCache(d) PROVE d.res[q].timestamp < d.fTimestamp
    <3>1. q \in InCache(c) /\ q \in Resources \ {r}
      BY <1>1, <1>6 DEF InCache, Caches
    <3> QED
      BY <1>1, <1>2, <1>5, <2>3, <3>1 DEF Ordered
  <2> QED
    BY <2>1, <2>2, <2>3 DEF Ordered, Follows
<1>12. PaidFor(d)
  BY <1>1, <1>5, <1>6 DEF PaidFor, Budgeted, Caches
<1> QED
  BY <1>3, <1>4, <1>5, <1>6, <1>7, <1>8, <1>11, <1>12 DEF Good, d

-----------------------------------------------------------------------------
(* Numbers for the resources in the cache.                                 *)
Earlier(c, r) == {q \in InCache(c) : c.res[q].timestamp < c.res[r].timestamp}

LEMMA InCacheFinite ==
  ASSUME NEW c \in Caches
  PROVE  /\ InCache(c) \in SUBSET Resources /\ IsFiniteSet(InCache(c))
         /\ \A S \in SUBSET InCache(c) :
              Cardinality(S) \in 0 .. Stamps - 1 /\ Cardinality(S) <= Cardinality(InCache(c))
<1>1. InCache(c) \in SUBSET Resources
  BY DEF Caches, InCache
<1>2. /\ IsFiniteSet(InCache(c)) /\ Cardinality(InCache(c)) <= Cardinality(Resources)
      /\ Cardinality(InCache(c)) \in Nat /\ Cardinality(Resources) \in Nat
  BY <1>1, CacheAssumption, FS_Subset, FS_CardinalityType
<1>3. ASSUME NEW S \in SUBSET InCache(c)
      PROVE  Cardinality(S) \in 0 .. Stamps - 1 /\ Cardinality(S) <= Cardinality(InCache(c))
  <2>1. Cardinality(S) <= Cardinality(InCache(c)) /\ Cardinality(S) \in Nat
    BY <1>2, FS_Subset, FS_CardinalityType
  <2> QED
    BY <1>2, <2>1, CacheAssumption
<1> QED
  BY <1>1, <1>2, <1>3

LEMMA RanksFollow ==
  ASSUME NEW c \in Caches, NEW q \in InCache(c)
  PROVE  /\ Cardinality(Earlier(c, q)) < Cardinality(InCache(c))
         /\ \A r \in Resources : c.res[q].timestamp < c.res[r].timestamp =>
              Cardinality(Earlier(c, q)) < Cardinality(Earlier(c, r))
<1>1. IsFiniteSet(InCache(c)) /\ InCache(c) \in SUBSET Resources
  BY InCacheFinite
<1>2. \A p \in Resources : c.res[p].timestamp \in Int
  BY DEF Caches, Fields
<1>3. ASSUME NEW S \in SUBSET InCache(c), Earlier(c, q) \subseteq S, q \in S
      PROVE  Cardinality(Earlier(c, q)) < Cardinality(S)
  <2>1. q \notin Earlier(c, q)
    BY <1>1, <1>2 DEF Earlier
  <2>2. IsFiniteSet(S) /\ Earlier(c, q) # S
    BY <1>1, <1>3, <2>1, FS_Subset
  <2>3. /\ Cardinality(Earlier(c, q)) <= Cardinality(S) /\ IsFiniteSet(Earlier(c, q))
        /\ Cardinality(Earlier(c, q)) = Cardinality(S) => Earlier(c, q) = S
    BY <1>3, <2>2, FS_Subset
  <2> QED
    BY <2>2, <2>3, FS_CardinalityType
<1>4. Cardinality(Earlier(c, q)) < Cardinality(InCache(c))
  BY <1>3 DEF Earlier
<1>5. ASSUME NEW r \in Resources, c.res[q].timestamp < c.res[r].timestamp
      PROVE  Cardinality(Earlier(c, q)) < Cardinality(Earlier(c, r))
  <2>1. Earlier(c, r) \in SUBSET InCache(c) /\ q \in Earlier(c, r)
    BY <1>5 DEF Earlier
  <2>2. Earlier(c, q) \subseteq Earlier(c, r)
    BY <1>1, <1>2, <1>5 DEF Earlier
  <2> QED
    BY <1>3, <2>1, <2>2
<1> QED
  BY <1>4, <1>5

LEMMA RenumberedIs ==
  ASSUME NEW c \in Caches
  PROVE  LET d == Renumbered(c) IN
         /\ d \in Caches /\ Alike(c, d)
         /\ d.fTimestamp = Cardinality(InCache(c)) /\ d.use = c.use
         /\ d.fTexturesAwaitingUnref = c.fTexturesAwaitingUnref /\ d.fMaxBytes = c.fMaxBytes
         /\ \A q \in InCache(c) : d.res[q].timestamp = Cardinality(Earlier(c, q))
<1> DEFINE n == Cardinality(InCache(c))
           new == [r \in Resources |-> IF r \in InCache(c)
                     THEN [c.res[r] EXCEPT !.timestamp = Cardinality(Earlier(c, r))] ELSE c.res[r]]
           d == Renumbered(c)
<1>1. InCache(c) \in SUBSET Resources /\ n \in 0 .. Stamps - 1
  BY InCacheFinite
<1>2. \A r \in Resources : Cardinality(Earlier(c, r)) \in 0 .. Stamps - 1
  <2>1. \A r \in Resources : Earlier(c, r) \in SUBSET InCache(c)
    BY DEF Earlier
  <2> QED
    BY <2>1, InCacheFinite
<1>3. ASSUME NEW r \in Resources
      PROVE  /\ new[r] \in Fields
             /\ new[r] = [c.res[r] EXCEPT !.timestamp = new[r].timestamp]
             /\ r \in InCache(c) => new[r].timestamp = Cardinality(Earlier(c, r))
  <2>1. c.res[r] \in Fields
    BY DEF Caches
  <2> DEFINE k == Cardinality(Earlier(c, r))
  <2>2. k \in 0 .. Stamps - 1
    BY <1>2
  <2>3. new[r] = IF r \in InCache(c) THEN [c.res[r] EXCEPT !.timestamp = k] ELSE c.res[r]
    OBVIOUS
  <2> HIDE DEF k, new
  <2>4. CASE r \in InCache(c)
    <3>1. new[r] = [c.res[r] EXCEPT !.timestamp = k]
      BY <2>3, <2>4
    <3>2. new[r] \in Fields /\ new[r].timestamp = k
      BY <2>1, <2>2, <3>1 DEF Fields
    <3> QED
      BY <3>1, <3>2 DEF k
  <2>5. CASE r \notin InCache(c)
    <3>1. new[r] = c.res[r]
      BY <2>3, <2>5
    <3>2. c.res[r] = [c.res[r] EXCEPT !.timestamp = c.res[r].timestamp]
      BY <2>1 DEF Fields
    <3> QED
      BY <2>1, <2>5, <3>1, <3>2
  <2> QED
    BY <2>4, <2>5
<1>4. new \in [Resources -> Fields]
  <2>1. new = [r \in Resources |-> new[r]]
    OBVIOUS
  <2> HIDE DEF new
  <2> QED
    BY <1>3, <2>1
<1>5. d = [c EXCEPT !.fTimestamp = n, !.res = new]
  <2>1. \A r \in Resources : [q \in Resources |-> {p \in InCache(c) : c.res[p].timestamp < c.res[q].timestamp}][r] = Earlier(c, r)
    BY DEF Earlier
  <2> QED
    BY <2>1 DEF Renumbered, Numbered
<1> HIDE DEF n, new, d
<1>6. d \in Caches
  BY <1>1, <1>4, <1>5 DEF Caches
<1>7. /\ d.res = new /\ d.fTimestamp = n /\ d.use = c.use
      /\ d.fTexturesAwaitingUnref = c.fTexturesAwaitingUnref /\ d.fMaxBytes = c.fMaxBytes
      /\ d.fNonpurgeableResources = c.fNonpurgeableResources
      /\ d.fPurgeableQueue = c.fPurgeableQueue
      /\ d.fScratchMap = c.fScratchMap /\ d.fUniqueHash = c.fUniqueHash
      /\ d.fBytes = c.fBytes /\ d.fBudgetedCount = c.fBudgetedCount
      /\ d.fBudgetedBytes = c.fBudgetedBytes /\ d.fPurgeableBytes = c.fPurgeableBytes
      /\ d.fNumFlushWillMakePurgeable = c.fNumFlushWillMakePurgeable
  BY <1>5 DEF Caches
<1>8. Alike(c, d)
  BY <1>3, <1>7 DEF Alike
<1>9. \A q \in InCache(c) : d.res[q].timestamp = Cardinality(Earlier(c, q))
  BY <1>1, <1>3, <1>7
<1> QED
  BY <1>6, <1>7, <1>8, <1>9 DEF n, d

LEMMA RenumberedOrdered ==
  ASSUME NEW c \in Caches, Ordered(c), NEW e, e = IF c.fTimestamp = 0 THEN Renumbered(c) ELSE c
  PROVE  /\ e \in Caches /\ Alike(c, e) /\ InCache(e) = InCache(c) /\ e.use = c.use /\ Follows(e)
         /\ e.fTexturesAwaitingUnref = c.fTexturesAwaitingUnref /\ e.fMaxBytes = c.fMaxBytes
         /\ \A q \in InCache(c) : e.res[q].timestamp < e.fTimestamp
<1>1. CASE c.fTimestamp # 0
  <2>1. \A q \in Resources : c.res[q] = [c.res[q] EXCEPT !.timestamp = c.res[q].timestamp]
    BY DEF Caches, Fields
  <2> QED
    BY <1>1, <2>1 DEF Alike, Ordered
<1>2. CASE c.fTimestamp = 0
  <2>1. /\ e \in Caches /\ Alike(c, e)
        /\ e.fTimestamp = Cardinality(InCache(c)) /\ e.use = c.use
        /\ e.fTexturesAwaitingUnref = c.fTexturesAwaitingUnref /\ e.fMaxBytes = c.fMaxBytes
        /\ \A q \in InCache(c) : e.res[q].timestamp = Cardinality(Earlier(c, q))
    BY <1>2, RenumberedIs
  <2>2. InCache(e) = InCache(c)
    BY <2>1 DEF Alike, InCache
  <2>3. \A q \in InCache(c) : e.res[q].timestamp < e.fTimestamp
    BY <2>1, RanksFollow
  <2>4. \A i \in DOMAIN c.use : c.use[i] \in Resources /\ c.use[i] \in InCache(c)
    <3>1. c.use \in Seq(Resources)
      BY DEF Caches
    <3>2. \A i \in DOMAIN c.use : c.use[i] \in Resources
      BY <3>1, ElementOfSeq, LenProperties
    <3> QED
      BY <3>2 DEF Ordered, Follows
  <2>5. ASSUME NEW i \in DOMAIN c.use, NEW j \in DOMAIN c.use, i < j
        PROVE  e.res[c.use[i]].timestamp < e.res[c.use[j]].timestamp
    <3>1. c.res[c.use[i]].timestamp < c.res[c.use[j]].timestamp
      BY <2>5 DEF Ordered, Follows
    <3>2. Cardinality(Earlier(c, c.use[i])) < Cardinality(Earlier(c, c.use[j]))
      BY <2>4, <3>1, RanksFollow
    <3> QED
      BY <2>1, <2>4, <3>2
  <2>6. Follows(e)
    BY <2>1, <2>2, <2>5 DEF Ordered, Follows
  <2> QED
    BY <2>1, <2>2, <2>3, <2>6
<1> QED
  BY <1>1, <1>2

(* The order when one more resource is in the cache than InCache says.     *)
OrderedWith(d, r) ==
  /\ \A q \in Resources : q \in InCache(d) \union {r} <=> \E i \in DOMAIN d.use : d.use[i] = q
  /\ \A i, j \in DOMAIN d.use :
       i < j => d.res[d.use[i]].timestamp < d.res[d.use[j]].timestamp
  /\ d.fTimestamp # 0 => \A q \in InCache(d) \union {r} : d.res[q].timestamp < d.fTimestamp

LEMMA StampedIs ==
  ASSUME NEW c \in Caches, Ordered(c), NEW r \in Resources
  PROVE  LET d == Stamped(c, r) IN
         /\ d \in Caches /\ Alike(c, d) /\ OrderedWith(d, r)
         /\ d.fTexturesAwaitingUnref = c.fTexturesAwaitingUnref /\ d.fMaxBytes = c.fMaxBytes
<1> DEFINE e == IF c.fTimestamp = 0 THEN Renumbered(c) ELSE c
           d == Stamped(c, r)
           n == e.fTimestamp
           next == (n + 1) % Stamps
           left == Omit(e.use, {r})
           use == Append(left, r)
           last == Len(left) + 1
           res == [e.res EXCEPT ![r].timestamp = n]
<1>1. /\ e \in Caches /\ Alike(c, e) /\ InCache(e) = InCache(c) /\ e.use = c.use /\ Follows(e)
      /\ e.fTexturesAwaitingUnref = c.fTexturesAwaitingUnref /\ e.fMaxBytes = c.fMaxBytes
      /\ \A q \in InCache(c) : e.res[q].timestamp < e.fTimestamp
  BY RenumberedOrdered
<1>2. d = [e EXCEPT !.res = res, !.fTimestamp = next, !.use = use]
  BY DEF Stamped
<1> HIDE DEF e, d
<1>3. e.use \in Seq(Resources) /\ e.res \in [Resources -> Fields] /\ n \in 0 .. Stamps - 1
  BY <1>1 DEF Caches
<1>4. left \in Seq(Resources) /\ AllBut(left, e.use, r)
  BY <1>3, OmitOne
<1> HIDE DEF left
<1>5. /\ use \in Seq(Resources) /\ Len(left) \in Nat /\ DOMAIN left = 1 .. Len(left)
      /\ DOMAIN use = 1 .. last /\ use[last] = r /\ last \in Nat
      /\ \A i \in 1 .. Len(left) : use[i] = left[i]
  BY <1>4, AppendProperties, LenProperties
<1>6. next \in 0 .. Stamps - 1 /\ (next = n + 1 \/ next = 0)
  <2>1. Stamps \in Nat /\ Stamps > 0 /\ n \in 0 .. Stamps - 1
    BY <1>3, CacheAssumption
  <2>2. CASE n + 1 < Stamps
    BY <2>1, <2>2
  <2>3. CASE n + 1 = Stamps
    BY <2>1, <2>3
  <2> QED
    BY <2>1, <2>2, <2>3
<1>7. /\ res \in [Resources -> Fields] /\ res[r] = [e.res[r] EXCEPT !.timestamp = n]
      /\ \A q \in Resources \ {r} : res[q] = e.res[q]
  BY <1>3 DEF Fields
<1>8. res[r].timestamp = n
  BY <1>3, <1>7 DEF Fields
<1> HIDE DEF n, next, use, last, res
<1>9. d \in Caches
  BY <1>1, <1>2, <1>5, <1>6, <1>7 DEF Caches
<1>10. /\ d.res = res /\ d.fTimestamp = next /\ d.use = use
       /\ d.fTexturesAwaitingUnref = e.fTexturesAwaitingUnref /\ d.fMaxBytes = e.fMaxBytes
       /\ d.fNonpurgeableResources = e.fNonpurgeableResources
       /\ d.fPurgeableQueue = e.fPurgeableQueue
       /\ d.fScratchMap = e.fScratchMap /\ d.fUniqueHash = e.fUniqueHash
       /\ d.fBytes = e.fBytes /\ d.fBudgetedCount = e.fBudgetedCount
       /\ d.fBudgetedBytes = e.fBudgetedBytes /\ d.fPurgeableBytes = e.fPurgeableBytes
       /\ d.fNumFlushWillMakePurgeable = e.fNumFlushWillMakePurgeable
  BY <1>1, <1>2 DEF Caches
<1>11. Alike(c, d)
  <2>1. ASSUME NEW q \in Resources
        PROVE  d.res[q] = [c.res[q] EXCEPT !.timestamp = d.res[q].timestamp]
    <3>1. e.res[q] = [c.res[q] EXCEPT !.timestamp = e.res[q].timestamp] /\ c.res[q] \in Fields
      BY <1>1 DEF Alike, Caches
    <3> DEFINE x == e.res[q].timestamp
               y == d.res[q].timestamp
    <3>2. d.res[q] = e.res[q] \/ d.res[q] = [e.res[q] EXCEPT !.timestamp = n]
      BY <1>7, <1>10
    <3>3. e.res[q] = [c.res[q] EXCEPT !.timestamp = x]
      BY <3>1
    <3>4. CASE d.res[q] = e.res[q]
      BY <3>1, <3>4
    <3>5. CASE d.res[q] = [e.res[q] EXCEPT !.timestamp = n]
      <4> HIDE DEF x
      <4>1. d.res[q] = [c.res[q] EXCEPT !.timestamp = n]
        BY <3>1, <3>3, <3>5 DEF Fields
      <4>2. d.res[q].timestamp = n
        BY <3>1, <4>1 DEF Fields
      <4> QED
        BY <4>1, <4>2
    <3> QED
      BY <3>2, <3>4, <3>5
  <2> QED
    BY <1>1, <1>10, <2>1 DEF Alike
<1>12. InCache(d) = InCache(c) /\ InCache(c) \subseteq Resources
  BY <1>1, <1>10 DEF InCache, Caches
<1>13. ASSUME NEW q \in Resources
       PROVE  q \in InCache(d) \union {r} <=> \E i \in DOMAIN d.use : d.use[i] = q
  <2>1. q # r => (q \in InCache(c) <=> \E i \in DOMAIN left : left[i] = q)
    BY <1>1, <1>4 DEF AllBut, Follows
  <2>2. q # r => ((\E i \in DOMAIN left : left[i] = q) <=> \E i \in DOMAIN use : use[i] = q)
    <3>1. \A i \in DOMAIN left : i \in DOMAIN use /\ use[i] = left[i]
      BY <1>5 DEF last
    <3>2. \A i \in DOMAIN use : i = last \/ i \in DOMAIN left
      BY <1>5 DEF last
    <3> QED
      BY <1>5, <3>1, <3>2
  <2>3. \E i \in DOMAIN use : use[i] = r
    <3>1. last \in DOMAIN use
      BY <1>5 DEF last
    <3> QED
      BY <1>5, <3>1
  <2> QED
    BY <1>10, <1>12, <2>1, <2>2, <2>3
<1>14. ASSUME NEW q \in InCache(c), q # r PROVE res[q].timestamp < n
  BY <1>1, <1>7, <1>12, <1>14 DEF n
<1>15. ASSUME NEW i \in DOMAIN use, NEW j \in DOMAIN use, i < j
       PROVE  res[use[i]].timestamp < res[use[j]].timestamp
  <2>1. i \in DOMAIN left /\ use[i] = left[i] /\ left[i] # r /\ left[i] \in Resources
    BY <1>4, <1>5, <1>15 DEF AllBut, last
  <2>2. CASE j = last
    <3>1. left[i] \in InCache(c)
      BY <1>1, <1>4, <2>1 DEF AllBut, Follows
    <3> QED
      BY <1>5, <1>8, <1>14, <2>1, <2>2, <3>1
  <2>3. CASE j # last
    <3>1. j \in DOMAIN left /\ use[j] = left[j] /\ left[j] # r /\ left[j] \in Resources
      BY <1>4, <1>5, <2>3 DEF AllBut, last
    <3>2. PICK k, m \in DOMAIN e.use : k < m /\ left[i] = e.use[k] /\ left[j] = e.use[m]
      BY <1>4, <1>15, <2>1, <3>1 DEF AllBut
    <3>3. e.res[left[i]].timestamp < e.res[left[j]].timestamp
      BY <1>1, <3>2 DEF Follows
    <3> QED
      BY <1>7, <2>1, <3>1, <3>3
  <2> QED
    BY <2>2, <2>3
<1>16. ASSUME next # 0, NEW q \in InCache(c) \union {r} PROVE res[q].timestamp < next
  <2>1. next = n + 1 /\ n \in Int
    BY <1>3, <1>6, <1>16 DEF n
  <2>2. CASE q = r
    BY <1>8, <2>1, <2>2
  <2>3. CASE q # r
    <3>1. res[q].timestamp < n /\ res[q].timestamp \in Int
      BY <1>7, <1>12, <1>14, <1>16, <2>3 DEF Fields
    <3> QED
      BY <2>1, <3>1
  <2> QED
    BY <2>2, <2>3
<1>17. OrderedWith(d, r)
  BY <1>10, <1>12, <1>13, <1>15, <1>16 DEF OrderedWith
<1> QED
  BY <1>1, <1>9, <1>10, <1>11, <1>17 DEF d

-----------------------------------------------------------------------------
(* An ordinary change of the resource r, which a lemma on the totals, the  *)
(* lists and keys makes Good.                                              *)
LEMMA ChangedGood ==
  ASSUME NEW c, Good(c), NEW d \in Caches, NEW r \in Resources,
         Others(c, d, r), Right(d, r), Moved(c, d, r), Ordered(d),
         r \in d.fPurgeableQueue => Budgeted(d, r)
  PROVE  Good(d)
<1>1. Listed(d)
  BY OneChanged DEF Good
<1>2. PaidFor(d)
  BY ZenonT(60) DEF PaidFor, Good, Others, SameFields, Budgeted, Caches
<1> QED
  BY <1>1, <1>2 DEF Good

SameRest(c, d) ==
  /\ d.use = c.use /\ d.fTimestamp = c.fTimestamp
  /\ d.fNonpurgeableResources = c.fNonpurgeableResources
  /\ d.fPurgeableQueue = c.fPurgeableQueue
  /\ d.fScratchMap = c.fScratchMap /\ d.fUniqueHash = c.fUniqueHash
  /\ d.fBytes = c.fBytes /\ d.fBudgetedCount = c.fBudgetedCount
  /\ d.fBudgetedBytes = c.fBudgetedBytes /\ d.fPurgeableBytes = c.fPurgeableBytes
  /\ d.fNumFlushWillMakePurgeable = c.fNumFlushWillMakePurgeable
  /\ d.fTexturesAwaitingUnref = c.fTexturesAwaitingUnref /\ d.fMaxBytes = c.fMaxBytes

LEMMA PutIs ==
  ASSUME NEW c \in Caches, NEW r \in Resources, NEW new \in Fields
  PROVE  LET d == [c EXCEPT !.res[r] = new] IN
         /\ d \in Caches /\ d.res[r] = new
         /\ \A q \in Resources \ {r} : d.res[q] = c.res[q]
         /\ SameRest(c, d)
<1> DEFINE d == [c EXCEPT !.res[r] = new]
           x == [c.res EXCEPT ![r] = new]
<1>1. x \in [Resources -> Fields] /\ d = [c EXCEPT !.res = x]
  BY DEF Caches
<1>2. x[r] = new /\ \A q \in Resources \ {r} : x[q] = c.res[q]
  BY DEF Caches
<1> HIDE DEF x, d
<1>3. d \in Caches
  BY <1>1 DEF Caches
<1>4. d.res = x
  BY <1>1 DEF Caches
<1>5. SameRest(c, d)
  BY <1>1 DEF Caches, SameRest
<1> QED
  BY <1>2, <1>3, <1>4, <1>5 DEF d

(* The state of a resource changes in nothing that lists and keys know.    *)
LEMMA PutGood ==
  ASSUME NEW c, Good(c), NEW r \in Resources, NEW new \in Fields,
         new.state = "cached" <=> c.res[r].state = "cached",
         new.state = "cached" =>
           /\ new.size = c.res[r].size /\ new.budgetedType = c.res[r].budgetedType
           /\ new.scratchKey = c.res[r].scratchKey /\ new.uniqueKey = c.res[r].uniqueKey
           /\ new.refsWrapped = c.res[r].refsWrapped /\ new.timestamp = c.res[r].timestamp
           /\ (new.refs = 0 <=> c.res[r].refs = 0),
         new.uniqueKey # Null => new.budgetedType = "Budgeted" \/ new.refsWrapped,
         new.state = "none" => new.refs = 0,
         NEW d, d = [c EXCEPT !.res[r] = new]
  PROVE  /\ Good(d) /\ Effect(c, d, r, new.refs - c.res[r].refs) /\ d.res[r] = new
         /\ SameRest(c, d)
<1>1. c \in Caches /\ Right(c, r) /\ Ordered(c) /\ c.res[r] \in Fields
  BY DEF Good, Listed, Caches
<1>2. /\ d \in Caches /\ d.res[r] = new /\ \A q \in Resources \ {r} : d.res[q] = c.res[q]
      /\ SameRest(c, d)
  BY <1>1, PutIs
<1>3. Others(c, d, r)
  BY <1>2 DEF Others, SameFields, SameRest
<1>4. Right(d, r)
  BY <1>1, <1>2 DEF Right, SameRest, IsPurgeable, Budgeted
<1>5. Moved(c, d, r)
  <2>1. /\ Sized(d)[r] = Sized(c)[r] /\ Paid(d)[r] = Paid(c)[r]
        /\ Counted(d)[r] = Counted(c)[r] /\ Waiting(d)[r] = Waiting(c)[r]
    BY <1>1, <1>2 DEF Sized, Paid, Counted, Waiting, IsPurgeable, Budgeted
  <2>2. /\ Sized(c)[r] \in Nat /\ Paid(c)[r] \in Nat /\ Counted(c)[r] \in Nat /\ Waiting(c)[r] \in Nat
        /\ c.fBytes \in Int /\ c.fBudgetedCount \in Int /\ c.fBudgetedBytes \in Int /\ c.fPurgeableBytes \in Int
        /\ c.fNumFlushWillMakePurgeable = 0
    BY <1>1, WeightsTyped DEF Caches, Good, Listed, TotalsRight
  <2> QED
    BY <1>2, <2>1, <2>2 DEF Moved, SameRest
<1>6. Ordered(d)
  <2>1. c.use \in Seq(Resources) /\ InCache(c) \subseteq Resources
    BY <1>1 DEF Caches, InCache
  <2>2. \A i \in DOMAIN c.use : c.use[i] \in Resources /\ c.use[i] \in InCache(c)
    <3>1. \A i \in DOMAIN c.use : c.use[i] \in Resources
      BY <2>1, ElementOfSeq, LenProperties
    <3> QED
      BY <1>1, <3>1 DEF Ordered, Follows
  <2>3. r \in InCache(c) <=> c.res[r].state = "cached"
    BY <1>1 DEF Right, InCache
  <2>4. \A q \in InCache(c) : d.res[q].timestamp = c.res[q].timestamp
    BY <1>2, <2>1, <2>3
  <2>5. InCache(d) = InCache(c) /\ d.use = c.use /\ d.fTimestamp = c.fTimestamp
    BY <1>2 DEF SameRest, InCache
  <2>6. \A i, j \in DOMAIN c.use :
          i < j => d.res[c.use[i]].timestamp < d.res[c.use[j]].timestamp
    BY <1>1, <2>2, <2>4 DEF Ordered, Follows
  <2>7. Follows(d)
    BY <1>1, <2>5, <2>6 DEF Ordered, Follows
  <2> QED
    BY <1>1, <2>4, <2>5, <2>7 DEF Ordered
<1>7. r \in d.fPurgeableQueue => Budgeted(d, r)
  BY <1>1, <1>2 DEF Good, PaidFor, SameRest, Right, Budgeted
<1>8. Effect(c, d, r, new.refs - c.res[r].refs)
  <2>1. new.refs = c.res[r].refs + (new.refs - c.res[r].refs)
    BY <1>1 DEF Fields
  <2> QED
    BY <1>2, <2>1 DEF Effect, SameRest
<1> QED
  BY <1>2, <1>3, <1>4, <1>5, <1>6, <1>7, <1>8, ChangedGood

LEMMA InsertedGood ==
  ASSUME NEW c, Good(c), NEW r \in Resources, c.res[r] = Nothing,
         NEW new \in Fields, new.state = "cached", new.refs = 1, new.uniqueKey = Null
  PROVE  LET d == Inserted([c EXCEPT !.res[r] = new], r) IN
         Good(d) /\ Effect(c, d, r, 1)
<1> DEFINE e == [c EXCEPT !.res[r] = new]
           s == Stamped(e, r)
           d == Inserted(e, r)
<1>1. c \in Caches /\ Listed(c) /\ Ordered(c) /\ Right(c, r)
  BY DEF Good, Listed
<1>2. /\ e \in Caches /\ e.res[r] = new /\ \A q \in Resources \ {r} : e.res[q] = c.res[q]
      /\ SameRest(c, e)
  BY <1>1, PutIs
<1>3. r \notin InCache(c) /\ InCache(e) = InCache(c) /\ InCache(c) \subseteq Resources
  BY <1>1, <1>2 DEF Right, Nothing, InCache, Caches
<1> HIDE DEF e
<1> USE DEF SameRest
<1>4. Ordered(e)
  <2>1. \A i \in DOMAIN c.use : c.use[i] \in Resources /\ c.use[i] # r
    <3>1. c.use \in Seq(Resources)
      BY <1>1 DEF Caches
    <3>2. \A i \in DOMAIN c.use : c.use[i] \in Resources
      BY <3>1, ElementOfSeq, LenProperties
    <3> QED
      BY <1>1, <1>3, <3>2 DEF Ordered, Follows
  <2> QED
    BY <1>1, <1>2, <1>3, <2>1 DEF Ordered, Follows
<1>5. /\ s \in Caches /\ Alike(e, s) /\ OrderedWith(s, r)
      /\ s.fTexturesAwaitingUnref = e.fTexturesAwaitingUnref /\ s.fMaxBytes = e.fMaxBytes
  BY <1>2, <1>4, StampedIs
<1> DEFINE n == Count(Budgeted(s, r))
           size == s.res[r].size
<1>6. \A q \in Resources : SameFields(e, s, q)
  BY <1>2, <1>5, AlikeSame
<1>7. size = new.size /\ size \in Nat /\ n = Count(new.budgetedType = "Budgeted") /\ n \in {0, 1}
  BY <1>2, <1>5, <1>6, SizesAre DEF SameFields, Budgeted, Count, Fields
<1>8. d = [s EXCEPT !.fNonpurgeableResources = @ \union {r}, !.fBytes = @ + size,
                    !.fBudgetedCount = @ + n, !.fBudgetedBytes = @ + size * n,
                    !.fScratchMap = @ \union ScratchEntry(s, r)]
  BY DEF Inserted
<1>9. ScratchEntry(s, r) \in SUBSET (ScratchKeys \X Resources)
  BY <1>5 DEF ScratchEntry, Caches, Fields
<1> HIDE DEF s, n, size, d
<1> DEFINE sn == size * n
<1>10. sn \in Nat /\ sn = IF new.budgetedType = "Budgeted" THEN size ELSE 0
  BY <1>7 DEF Count
<1>11. d = [s EXCEPT !.fNonpurgeableResources = @ \union {r}, !.fBytes = @ + size,
                    !.fBudgetedCount = @ + n, !.fBudgetedBytes = @ + sn,
                    !.fScratchMap = @ \union ScratchEntry(s, r)]
  BY <1>8
<1> HIDE DEF sn
<1>12. d \in Caches
  <2> DEFINE x1 == s.fNonpurgeableResources \union {r}
             x2 == s.fBytes + size
             x3 == s.fBudgetedCount + n
             x4 == s.fBudgetedBytes + sn
             x5 == s.fScratchMap \union ScratchEntry(s, r)
  <2>1. x1 \in SUBSET Resources /\ x5 \in SUBSET (ScratchKeys \X Resources)
    BY <1>5, <1>9 DEF Caches
  <2>2. x2 \in Int /\ x3 \in Int /\ x4 \in Int
    <3>1. s.fBytes \in Int /\ s.fBudgetedCount \in Int /\ s.fBudgetedBytes \in Int
      BY <1>5 DEF Caches
    <3> QED
      BY <1>7, <1>10, <3>1
  <2>3. d = [s EXCEPT !.fNonpurgeableResources = x1, !.fBytes = x2, !.fBudgetedCount = x3,
                      !.fBudgetedBytes = x4, !.fScratchMap = x5]
    BY <1>11
  <2> HIDE DEF x1, x2, x3, x4, x5
  <2> QED
    BY <1>5, <2>1, <2>2, <2>3 DEF Caches
<1>13. /\ d.res = s.res /\ d.fPurgeableQueue = s.fPurgeableQueue
       /\ d.fNonpurgeableResources = s.fNonpurgeableResources \union {r}
       /\ d.fScratchMap = s.fScratchMap \union ScratchEntry(s, r)
       /\ d.fUniqueHash = s.fUniqueHash
       /\ d.fBytes = s.fBytes + size /\ d.fBudgetedCount = s.fBudgetedCount + n
       /\ d.fBudgetedBytes = s.fBudgetedBytes + sn /\ d.fPurgeableBytes = s.fPurgeableBytes
       /\ d.fNumFlushWillMakePurgeable = s.fNumFlushWillMakePurgeable
       /\ d.fTexturesAwaitingUnref = s.fTexturesAwaitingUnref /\ d.fMaxBytes = s.fMaxBytes
       /\ d.use = s.use /\ d.fTimestamp = s.fTimestamp
  BY <1>5, <1>11 DEF Caches
<1>14. Others(c, d, r)
  <2>1. ASSUME NEW q \in Resources \ {r} PROVE SameFields(c, d, q)
    BY <1>2, <1>6, <1>13 DEF SameFields
  <2>2. \A k \in ScratchKeys, q \in Resources \ {r} : <<k, q>> \notin ScratchEntry(s, r)
    BY DEF ScratchEntry
  <2> QED
    BY <1>2, <1>5, <1>13, <2>1, <2>2 DEF Others, Alike
<1>15. /\ d.res[r].state = "cached" /\ d.res[r].refs = 1 /\ d.res[r].uniqueKey = Null
       /\ d.res[r].scratchKey = new.scratchKey /\ d.res[r].size = size
       /\ d.res[r].budgetedType = new.budgetedType
  BY <1>2, <1>6, <1>7, <1>13 DEF SameFields
<1>16. Right(d, r) /\ r \notin d.fPurgeableQueue
  <2>1. /\ r \notin c.fPurgeableQueue /\ \A k \in UniqueKeys : c.fUniqueHash[k] # r
        /\ \A k \in ScratchKeys : <<k, r>> \notin c.fScratchMap
    BY <1>1 DEF Right, Nothing
  <2>2. \A k \in ScratchKeys : <<k, r>> \in ScratchEntry(s, r) <=> new.scratchKey = k
    BY <1>13, <1>15, CacheAssumption DEF ScratchEntry
  <2>3. r \in d.fNonpurgeableResources /\ r \notin d.fPurgeableQueue /\ ~IsPurgeable(d, r)
    BY <1>2, <1>5, <1>13, <1>15, <2>1 DEF Alike, IsPurgeable
  <2>4. \A k \in UniqueKeys : d.fUniqueHash[k] # r /\ k # Null
    BY <1>2, <1>5, <1>13, <2>1, CacheAssumption DEF Alike
  <2>5. \A k \in ScratchKeys : <<k, r>> \in d.fScratchMap <=> new.scratchKey = k
    BY <1>2, <1>5, <1>13, <2>1, <2>2 DEF Alike
  <2> QED
    BY <1>15, <2>3, <2>4, <2>5 DEF Right
<1>17. /\ Sized(c)[r] = 0 /\ Paid(c)[r] = 0 /\ Counted(c)[r] = 0 /\ Waiting(c)[r] = 0
       /\ Sized(d)[r] = size /\ Paid(d)[r] = sn /\ Counted(d)[r] = n /\ Waiting(d)[r] = 0
  BY <1>7, <1>10, <1>15, <1>16 DEF Sized, Paid, Counted, Waiting, Nothing, Budgeted, Count, IsPurgeable
<1>18. Moved(c, d, r)
  <2>1. /\ c.fBytes \in Int /\ c.fBudgetedCount \in Int /\ c.fBudgetedBytes \in Int /\ c.fPurgeableBytes \in Int
        /\ c.fNumFlushWillMakePurgeable = 0
    BY <1>1 DEF Caches, Listed, TotalsRight
  <2>2. /\ d.fBytes = c.fBytes + size /\ d.fBudgetedCount = c.fBudgetedCount + n
        /\ d.fBudgetedBytes = c.fBudgetedBytes + sn /\ d.fPurgeableBytes = c.fPurgeableBytes
        /\ d.fNumFlushWillMakePurgeable = 0
    BY <1>2, <1>5, <1>13, <2>1 DEF Alike
  <2> QED
    BY <1>7, <1>10, <1>17, <2>1, <2>2 DEF Moved
<1>19. Ordered(d)
  <2>1. InCache(d) = InCache(s) \union {r}
    BY <1>13 DEF InCache
  <2> QED
    BY <1>5, <1>13, <2>1 DEF OrderedWith, Ordered, Follows
<1>20. Good(d)
  BY <1>12, <1>14, <1>16, <1>18, <1>19, ChangedGood
<1>21. Effect(c, d, r, 1)
  <2>1. c.res[r].refs = 0
    BY DEF Nothing
  <2> QED
    BY <1>2, <1>5, <1>13, <1>14, <1>15, <2>1 DEF Effect, Others, SameFields
<1> QED
  BY <1>20, <1>21 DEF d, e

LEMMA StampedGood ==
  ASSUME NEW c \in Caches, Ordered(c), NEW r \in Resources, r \in InCache(c)
  PROVE  LET d == Stamped(c, r) IN
         /\ d \in Caches /\ Alike(c, d) /\ Ordered(d)
         /\ d.fTexturesAwaitingUnref = c.fTexturesAwaitingUnref /\ d.fMaxBytes = c.fMaxBytes
<1> DEFINE d == Stamped(c, r)
<1>1. /\ d \in Caches /\ Alike(c, d) /\ OrderedWith(d, r)
      /\ d.fTexturesAwaitingUnref = c.fTexturesAwaitingUnref /\ d.fMaxBytes = c.fMaxBytes
  BY StampedIs
<1> HIDE DEF d
<1>2. InCache(d) \union {r} = InCache(d)
  BY <1>1 DEF Alike, InCache
<1>3. Ordered(d)
  BY <1>1, <1>2 DEF OrderedWith, Ordered, Follows
<1> QED
  BY <1>1, <1>3 DEF d

LEMMA RefAndMakeMRUGood ==
  ASSUME NEW c, Good(c), NEW r \in Resources, c.res[r].state = "cached"
  PROVE  LET d == RefAndMakeMRU(c, r) IN
         /\ Good(d) /\ Effect(c, d, r, 1) /\ d.res[r].state = "cached"
         /\ d.fPurgeableQueue = c.fPurgeableQueue \ {r}
         /\ d.fBudgetedBytes = c.fBudgetedBytes
<1> DEFINE q == c.res[r]
           new == [q EXCEPT !.refs = @ + 1]
           moved == IsPurgeable(c, r)
           b == IF moved
                  THEN [c EXCEPT !.fPurgeableBytes = @ - q.size,
                                 !.fPurgeableQueue = @ \ {r},
                                 !.fNonpurgeableResources = @ \union {r}]
                  ELSE [c EXCEPT !.fNumFlushWillMakePurgeable = @ - Count(q.refs = 0 /\ Budgeted(c, r))]
           e == [b EXCEPT !.res[r] = new]
           d == Stamped(e, r)
<1>1. /\ Listed(c) /\ c \in Caches /\ Right(c, r) /\ Ordered(c) /\ PaidFor(c)
      /\ q \in Fields /\ q.refs \in Nat /\ q.size \in Nat
  BY SizesAre DEF Good, Listed, Caches, Fields
<1>2. new \in Fields /\ new.refs = q.refs + 1 /\ new.state = "cached" /\ new.size = q.size
      /\ new.budgetedType = q.budgetedType /\ new.refsWrapped = q.refsWrapped
      /\ new.scratchKey = q.scratchKey /\ new.uniqueKey = q.uniqueKey /\ new.timestamp = q.timestamp
  BY <1>1 DEF Fields
<1>3. RefAndMakeMRU(c, r) = d
  <2>1. b.res[r] = c.res[r]
    BY <1>1 DEF Caches
  <2>2. e = [b EXCEPT !.res[r].refs = @ + 1]
    BY <2>1
  <2> QED
    BY <2>2 DEF RefAndMakeMRU
<1>4. /\ b \in Caches /\ b.res = c.res /\ b.use = c.use /\ b.fTimestamp = c.fTimestamp
      /\ b.fScratchMap = c.fScratchMap /\ b.fUniqueHash = c.fUniqueHash
      /\ b.fBytes = c.fBytes /\ b.fBudgetedCount = c.fBudgetedCount
      /\ b.fBudgetedBytes = c.fBudgetedBytes
      /\ b.fNumFlushWillMakePurgeable = 0
      /\ b.fTexturesAwaitingUnref = c.fTexturesAwaitingUnref /\ b.fMaxBytes = c.fMaxBytes
      /\ b.fPurgeableBytes = c.fPurgeableBytes - (IF moved THEN q.size ELSE 0)
      /\ b.fPurgeableQueue = c.fPurgeableQueue \ {r}
      /\ b.fNonpurgeableResources = c.fNonpurgeableResources \union {r}
  <2>1. c.fNumFlushWillMakePurgeable = 0 /\ c.fPurgeableBytes \in Int
    BY <1>1 DEF Listed, TotalsRight, Caches
  <2>2. CASE moved
    <3> DEFINE x1 == c.fPurgeableBytes - q.size
               x2 == c.fPurgeableQueue \ {r}
               x3 == c.fNonpurgeableResources \union {r}
    <3>1. x1 \in Int /\ x2 \in SUBSET Resources /\ x3 \in SUBSET Resources
      BY <1>1, <2>1 DEF Caches
    <3>2. b = [c EXCEPT !.fPurgeableBytes = x1, !.fPurgeableQueue = x2, !.fNonpurgeableResources = x3]
      BY <2>2
    <3> HIDE DEF x1, x2, x3, b, moved
    <3>3. b \in Caches
      BY <1>1, <3>1, <3>2 DEF Caches
    <3>4. /\ b.res = c.res /\ b.use = c.use /\ b.fTimestamp = c.fTimestamp
          /\ b.fScratchMap = c.fScratchMap /\ b.fUniqueHash = c.fUniqueHash
          /\ b.fBytes = c.fBytes /\ b.fBudgetedCount = c.fBudgetedCount
          /\ b.fBudgetedBytes = c.fBudgetedBytes
          /\ b.fNumFlushWillMakePurgeable = c.fNumFlushWillMakePurgeable
          /\ b.fTexturesAwaitingUnref = c.fTexturesAwaitingUnref /\ b.fMaxBytes = c.fMaxBytes
          /\ b.fPurgeableBytes = x1 /\ b.fPurgeableQueue = x2 /\ b.fNonpurgeableResources = x3
      BY <1>1, <3>2 DEF Caches
    <3> QED
      BY <2>1, <2>2, <3>3, <3>4 DEF x1, x2, x3
  <2>3. CASE ~moved
    <3>1. Count(q.refs = 0 /\ Budgeted(c, r)) = 0
      BY <2>3 DEF Count, IsPurgeable, Budgeted
    <3>2. b = [c EXCEPT !.fNumFlushWillMakePurgeable = 0]
      BY <2>1, <2>3, <3>1
    <3>3. r \notin c.fPurgeableQueue /\ r \in c.fNonpurgeableResources
      BY <1>1, <2>3 DEF Right
    <3> HIDE DEF b, moved
    <3>4. b \in Caches
      <4> DEFINE z == 0
      <4>1. c \in Caches /\ z \in Int /\ b = [c EXCEPT !.fNumFlushWillMakePurgeable = z]
        BY <1>1, <3>2
      <4> HIDE DEF z
      <4> QED
        BY <4>1 DEF Caches
    <3>5. /\ b.res = c.res /\ b.use = c.use /\ b.fTimestamp = c.fTimestamp
          /\ b.fScratchMap = c.fScratchMap /\ b.fUniqueHash = c.fUniqueHash
          /\ b.fBytes = c.fBytes /\ b.fBudgetedCount = c.fBudgetedCount
          /\ b.fBudgetedBytes = c.fBudgetedBytes
          /\ b.fNumFlushWillMakePurgeable = 0
          /\ b.fTexturesAwaitingUnref = c.fTexturesAwaitingUnref /\ b.fMaxBytes = c.fMaxBytes
          /\ b.fPurgeableBytes = c.fPurgeableBytes /\ b.fPurgeableQueue = c.fPurgeableQueue
          /\ b.fNonpurgeableResources = c.fNonpurgeableResources
      BY <1>1, <3>2 DEF Caches
    <3>6. c.fPurgeableBytes = c.fPurgeableBytes - 0
      BY <2>1
    <3>7. c.fPurgeableQueue = c.fPurgeableQueue \ {r}
          /\ c.fNonpurgeableResources = c.fNonpurgeableResources \union {r}
      BY <3>3
    <3> QED
      BY <2>3, <3>4, <3>5, <3>6, <3>7
  <2> QED
    BY <2>2, <2>3
<1> HIDE DEF b, d, moved
<1>5. /\ e \in Caches /\ e.res[r] = new /\ \A p \in Resources \ {r} : e.res[p] = b.res[p]
      /\ SameRest(b, e)
  BY <1>2, <1>4, PutIs
<1> HIDE DEF e, q, new
<1>6. Others(c, e, r)
  BY <1>4, <1>5 DEF Others, SameFields, SameRest
<1>7. ~IsPurgeable(e, r)
  BY <1>1, <1>2, <1>5 DEF IsPurgeable
<1>8. Right(e, r)
  BY <1>1, <1>2, <1>4, <1>5, <1>7 DEF Right, SameRest, Budgeted, q
<1>9. Moved(c, e, r)
  <2>1. /\ Sized(e)[r] = Sized(c)[r] /\ Paid(e)[r] = Paid(c)[r] /\ Counted(e)[r] = Counted(c)[r]
        /\ Waiting(e)[r] = 0 /\ Waiting(c)[r] = IF moved THEN q.size ELSE 0
    BY <1>1, <1>2, <1>5, <1>7 DEF Sized, Paid, Counted, Waiting, Budgeted, q, moved
  <2>2. /\ Sized(c)[r] \in Nat /\ Paid(c)[r] \in Nat /\ Counted(c)[r] \in Nat /\ Waiting(c)[r] \in Nat
        /\ c.fBytes \in Int /\ c.fBudgetedCount \in Int /\ c.fBudgetedBytes \in Int /\ c.fPurgeableBytes \in Int
    BY <1>1, WeightsTyped DEF Caches
  <2>3. e.fPurgeableBytes = c.fPurgeableBytes - Waiting(c)[r]
    BY <1>4, <1>5, <2>1 DEF SameRest
  <2> QED
    BY <1>4, <1>5, <2>1, <2>2, <2>3 DEF Moved, SameRest
<1>10. InCache(e) = InCache(c) /\ r \in InCache(e)
  BY <1>1, <1>4, <1>5 DEF InCache, Right, SameRest
<1>11. Ordered(e)
  <2>1. \A p \in Resources : e.res[p].timestamp = c.res[p].timestamp
    BY <1>2, <1>4, <1>5 DEF q
  <2>2. KeepsOrder(c, e)
    BY <1>4, <1>5, <1>10, <2>1 DEF KeepsOrder, SameRest
  <2> QED
    BY <1>1, <2>2, OrderKept
<1>12. r \notin e.fPurgeableQueue
  BY <1>4, <1>5 DEF SameRest
<1>13. Good(e)
  BY <1>5, <1>6, <1>8, <1>9, <1>11, <1>12, ChangedGood
<1>14. /\ d \in Caches /\ Alike(e, d) /\ Ordered(d)
       /\ d.fTexturesAwaitingUnref = e.fTexturesAwaitingUnref /\ d.fMaxBytes = e.fMaxBytes
  BY <1>5, <1>10, <1>11, StampedGood DEF d
<1>15. \A p \in Resources : SameFields(e, d, p)
  BY <1>5, <1>14, AlikeSame
<1>16. Good(d)
  <2>1. Listed(d)
    BY <1>13, <1>14, AlikeListed DEF Good
  <2>2. PaidFor(d)
    <3>1. \A p \in e.fPurgeableQueue : p \in Resources /\ e.res[p].budgetedType = "Budgeted"
      BY <1>5, <1>13 DEF Good, PaidFor, Budgeted, Caches
    <3>2. d.fPurgeableQueue = e.fPurgeableQueue
      BY <1>14 DEF Alike
    <3> QED
      BY <1>15, <3>1, <3>2 DEF PaidFor, SameFields, Budgeted
  <2> QED
    BY <1>14, <2>1, <2>2 DEF Good
<1>17. Effect(c, d, r, 1) /\ d.res[r].state = "cached"
  BY <1>2, <1>4, <1>5, <1>6, <1>14, <1>15 DEF Effect, SameRest, SameFields, Others, q
<1>18. d.fPurgeableQueue = c.fPurgeableQueue \ {r} /\ d.fBudgetedBytes = c.fBudgetedBytes
  BY <1>4, <1>5, <1>14 DEF Alike, SameRest
<1> QED
  BY <1>3, <1>16, <1>17, <1>18

-----------------------------------------------------------------------------
(* The keys of a resource somebody refers to.                              *)
SameButKeys(c, d) ==
  /\ d.use = c.use /\ d.fTimestamp = c.fTimestamp
  /\ d.fNonpurgeableResources = c.fNonpurgeableResources
  /\ d.fPurgeableQueue = c.fPurgeableQueue
  /\ d.fBytes = c.fBytes /\ d.fBudgetedCount = c.fBudgetedCount
  /\ d.fBudgetedBytes = c.fBudgetedBytes /\ d.fPurgeableBytes = c.fPurgeableBytes
  /\ d.fNumFlushWillMakePurgeable = c.fNumFlushWillMakePurgeable
  /\ d.fTexturesAwaitingUnref = c.fTexturesAwaitingUnref /\ d.fMaxBytes = c.fMaxBytes

SameButKeysOf(c, d, r) ==
  /\ d.res[r].state = c.res[r].state /\ d.res[r].refs = c.res[r].refs
  /\ d.res[r].size = c.res[r].size /\ d.res[r].budgetedType = c.res[r].budgetedType
  /\ d.res[r].refsWrapped = c.res[r].refsWrapped /\ d.res[r].timestamp = c.res[r].timestamp

LEMMA RekeyGood ==
  ASSUME NEW c, Good(c), NEW r \in Resources, c.res[r].state = "cached", c.res[r].refs > 0,
         NEW d \in Caches, SameButKeys(c, d), SameButKeysOf(c, d, r),
         \A q \in Resources \ {r} : d.res[q] = c.res[q],
         \A k \in UniqueKeys :
           /\ d.fUniqueHash[k] = r <=> d.res[r].uniqueKey = k
           /\ \A q \in Resources \ {r} : d.fUniqueHash[k] = q <=> c.fUniqueHash[k] = q,
         \A k \in ScratchKeys :
           /\ <<k, r>> \in d.fScratchMap <=> d.res[r].scratchKey = k /\ d.res[r].uniqueKey = Null
           /\ \A q \in Resources \ {r} : <<k, q>> \in d.fScratchMap <=> <<k, q>> \in c.fScratchMap,
         d.res[r].uniqueKey # Null => Budgeted(d, r) \/ d.res[r].refsWrapped
  PROVE  Good(d) /\ Effect(c, d, r, 0)
<1>1. c \in Caches /\ Right(c, r) /\ Ordered(c) /\ c.res[r].refs \in Nat
  BY DEF Good, Listed, Caches, Fields
<1>2. Others(c, d, r)
  BY ZenonT(60) DEF Others, SameFields, SameButKeys
<1>3. ~IsPurgeable(c, r) /\ ~IsPurgeable(d, r)
  BY <1>1 DEF IsPurgeable, SameButKeysOf
<1>4. Right(d, r)
  BY <1>1, <1>3 DEF Right, SameButKeys, SameButKeysOf
<1>5. Moved(c, d, r)
  <2>1. /\ Sized(d)[r] = Sized(c)[r] /\ Paid(d)[r] = Paid(c)[r]
        /\ Counted(d)[r] = Counted(c)[r] /\ Waiting(d)[r] = Waiting(c)[r]
    BY <1>3 DEF Sized, Paid, Counted, Waiting, Budgeted, SameButKeysOf
  <2>2. /\ Sized(c)[r] \in Nat /\ Paid(c)[r] \in Nat /\ Counted(c)[r] \in Nat /\ Waiting(c)[r] \in Nat
        /\ c.fBytes \in Int /\ c.fBudgetedCount \in Int /\ c.fBudgetedBytes \in Int /\ c.fPurgeableBytes \in Int
        /\ c.fNumFlushWillMakePurgeable = 0
    BY <1>1, WeightsTyped DEF Caches, Good, Listed, TotalsRight
  <2> QED
    BY <2>1, <2>2 DEF Moved, SameButKeys
<1>6. Ordered(d)
  <2>1. \A q \in Resources : d.res[q].timestamp = c.res[q].timestamp
    BY DEF SameButKeysOf
  <2>2. KeepsOrder(c, d)
    BY <2>1 DEF KeepsOrder, SameButKeys, InCache
  <2> QED
    BY <1>1, <2>2, OrderKept
<1>7. r \notin d.fPurgeableQueue
  BY <1>3, <1>4 DEF Right
<1>8. Effect(c, d, r, 0)
  BY <1>1 DEF Effect, SameButKeys, SameButKeysOf
<1> QED
  BY <1>2, <1>4, <1>5, <1>6, <1>7, <1>8, ChangedGood

LEMMA KeyRemovedGood ==
  ASSUME NEW c, Good(c), NEW r \in Resources, c.res[r].state = "cached", c.res[r].refs > 0
  PROVE  LET d == KeyRemoved(c, r) IN
         /\ Good(d) /\ Effect(c, d, r, 0) /\ SameButKeysOf(c, d, r) /\ SameButKeys(c, d)
         /\ d.res[r].scratchKey = c.res[r].scratchKey
         /\ \A q \in Resources \ {r} : d.res[q] = c.res[q]
         /\ \A k \in UniqueKeys : d.fUniqueHash[k] = IF c.fUniqueHash[k] = r THEN Null ELSE c.fUniqueHash[k]
<1> DEFINE q == c.res[r]
           new == [q EXCEPT !.uniqueKey = Null]
           h == Without(c.fUniqueHash, q.uniqueKey)
           e == [c EXCEPT !.fUniqueHash = h, !.res[r] = new]
           entry == ScratchEntry(e, r)
           d == [e EXCEPT !.fScratchMap = @ \union entry]
<1>1. /\ c \in Caches /\ Right(c, r) /\ q \in Fields /\ Null \notin Resources
      /\ Null \notin ScratchKeys /\ Null \notin UniqueKeys
  BY CacheAssumption DEF Good, Listed, Caches
<1>2. /\ new \in Fields /\ new.refs = q.refs /\ new.state = q.state /\ new.size = q.size
      /\ new.budgetedType = q.budgetedType /\ new.refsWrapped = q.refsWrapped
      /\ new.scratchKey = q.scratchKey /\ new.uniqueKey = Null /\ new.timestamp = q.timestamp
  BY <1>1 DEF Fields
<1>3. KeyRemoved(c, r) = d
  BY DEF KeyRemoved
<1>4. h \in [UniqueKeys -> Resources \union {Null}]
      /\ \A k \in UniqueKeys : h[k] = IF c.fUniqueHash[k] = r THEN Null ELSE c.fUniqueHash[k]
  BY <1>1 DEF Without, Caches, Fields, Right
<1>5. e \in Caches /\ e.res[r] = new /\ (\A p \in Resources \ {r} : e.res[p] = c.res[p])
      /\ e.fUniqueHash = h /\ e.fScratchMap = c.fScratchMap /\ SameButKeys(c, e)
  <2> DEFINE b == [c EXCEPT !.res[r] = new]
  <2>1. b \in Caches /\ b.res[r] = new /\ (\A p \in Resources \ {r} : b.res[p] = c.res[p])
        /\ SameRest(c, b)
    BY <1>1, <1>2, PutIs
  <2>2. e = [b EXCEPT !.fUniqueHash = h]
    BY <1>1 DEF Caches
  <2> HIDE DEF b, e, h, new
  <2>3. e \in Caches /\ e.res = b.res /\ e.fUniqueHash = h /\ e.fScratchMap = b.fScratchMap
    BY <1>4, <2>1, <2>2 DEF Caches
  <2>4. SameButKeys(b, e)
    BY <2>1, <2>2 DEF Caches, SameButKeys
  <2> QED
    BY <2>1, <2>3, <2>4 DEF SameButKeys, SameRest
<1>6. entry = IF q.scratchKey # Null THEN {<<q.scratchKey, r>>} ELSE {}
  BY <1>2, <1>5 DEF ScratchEntry
<1>7. entry \in SUBSET (ScratchKeys \X Resources)
  BY <1>1, <1>6 DEF Fields
<1> HIDE DEF e, entry, h, new
<1>8. d \in Caches /\ d.res = e.res /\ d.fUniqueHash = h
      /\ d.fScratchMap = c.fScratchMap \union entry
  BY <1>5, <1>7 DEF Caches
<1>9. SameButKeys(c, d)
  <2>1. SameButKeys(e, d)
    BY <1>5 DEF Caches, SameButKeys
  <2> QED
    BY <1>5, <2>1 DEF SameButKeys
<1> HIDE DEF d, q
<1>10. SameButKeysOf(c, d, r)
  BY <1>2, <1>5, <1>8 DEF SameButKeysOf, q
<1>11. \A k \in UniqueKeys :
           /\ d.fUniqueHash[k] = r <=> d.res[r].uniqueKey = k
           /\ \A p \in Resources \ {r} : d.fUniqueHash[k] = p <=> c.fUniqueHash[k] = p
  <2>1. d.res[r].uniqueKey = Null
    BY <1>2, <1>5, <1>8
  <2>2. ASSUME NEW k \in UniqueKeys PROVE k # Null /\ d.fUniqueHash[k] # r
    BY <1>1, <1>4, <1>8
  <2>3. ASSUME NEW k \in UniqueKeys, NEW p \in Resources \ {r}
        PROVE  d.fUniqueHash[k] = p <=> c.fUniqueHash[k] = p
    BY <1>1, <1>4, <1>8
  <2> QED
    BY <2>1, <2>2, <2>3
<1>12. \A k \in ScratchKeys :
           /\ <<k, r>> \in d.fScratchMap <=> d.res[r].scratchKey = k /\ d.res[r].uniqueKey = Null
           /\ \A p \in Resources \ {r} : <<k, p>> \in d.fScratchMap <=> <<k, p>> \in c.fScratchMap
  BY <1>1, <1>2, <1>5, <1>6, <1>8 DEF Right, q
<1>13. \A p \in Resources \ {r} : d.res[p] = c.res[p]
  BY <1>5, <1>8
<1>14. Good(d) /\ Effect(c, d, r, 0)
  BY <1>2, <1>5, <1>8, <1>9, <1>10, <1>11, <1>12, <1>13, RekeyGood
<1>15. d.res[r].scratchKey = c.res[r].scratchKey
  BY <1>2, <1>5, <1>8 DEF q
<1>16. \A k \in UniqueKeys : d.fUniqueHash[k] = IF c.fUniqueHash[k] = r THEN Null ELSE c.fUniqueHash[k]
  BY <1>4, <1>8
<1> QED
  BY <1>3, <1>9, <1>10, <1>13, <1>14, <1>15, <1>16

(* Nothing is added to what is in the cache, and nothing in use leaves it. *)
Kept(c, d) ==
  /\ d.fTexturesAwaitingUnref = c.fTexturesAwaitingUnref /\ d.fMaxBytes = c.fMaxBytes
  /\ \A q \in Resources : d.res[q].refs = c.res[q].refs
  /\ \A q \in Resources :
       c.res[q].state = "cached" /\ d.res[q].state # "cached" => c.res[q].refs = 0
  /\ d.fPurgeableQueue \subseteq c.fPurgeableQueue
  /\ d.fBudgetedBytes <= c.fBudgetedBytes

LEMMA KeptSame ==
  ASSUME NEW c \in Caches
  PROVE  Kept(c, c)
BY DEF Kept, Caches

LEMMA KeptTwice ==
  ASSUME NEW c \in Caches, NEW d \in Caches, NEW e \in Caches, Kept(c, d), Kept(d, e)
  PROVE  Kept(c, e)
<1>1. c.fBudgetedBytes \in Int /\ d.fBudgetedBytes \in Int /\ e.fBudgetedBytes \in Int
  BY DEF Caches
<1> QED
  BY <1>1 DEF Kept

LEMMA PurgedKept ==
  ASSUME NEW c, Good(c), NEW r \in c.fPurgeableQueue
  PROVE  LET d == Destroyed(c, r) IN
         /\ Good(d) /\ Kept(c, d) /\ r \in Resources /\ d.res[r].state # "cached"
         /\ d.fPurgeableQueue = c.fPurgeableQueue \ {r}
         /\ \A q \in Resources \ {r} : d.res[q] = c.res[q]
<1> DEFINE d == Destroyed(c, r)
<1>1. /\ c \in Caches /\ r \in Resources /\ Listed(c) /\ Ordered(c) /\ Right(c, r)
      /\ \A q \in c.fPurgeableQueue \ {r} : Budgeted(c, q)
  BY DEF Good, Listed, PaidFor, Caches
<1>2. c.res[r].state = "cached" /\ c.res[r].refs = 0
  BY <1>1 DEF Right, IsPurgeable
<1>3. /\ Good(d) /\ Effect(c, d, r, 0) /\ d.res[r].state # "cached"
      /\ \A q \in Resources \ {r} : d.res[q] = c.res[q]
      /\ d.fPurgeableQueue = c.fPurgeableQueue \ {r}
      /\ d.fBudgetedBytes <= c.fBudgetedBytes
  BY <1>1, <1>2, DestroyedGood
<1> HIDE DEF d
<1>4. Kept(c, d)
  BY <1>2, <1>3 DEF Effect, Kept
<1> QED
  BY <1>1, <1>3, <1>4 DEF d

(* The key is nobody's before it is set.                                   *)
LEMMA KeyTakenGood ==
  ASSUME NEW c, Good(c), NEW k \in UniqueKeys,
         LET old == c.fUniqueHash[k] IN
           old # Null =>
             \/ c.res[old].refs > 0
             \/ c.res[old].scratchKey = Null /\ IsPurgeable(c, old)
  PROVE  LET d == KeyTaken(c, k) IN
         /\ Good(d) /\ Kept(c, d) /\ d.fUniqueHash[k] = Null
         /\ \A q \in Resources : c.res[q].state = "cached" /\ c.res[q].refs > 0 =>
              /\ d.res[q].state = "cached" /\ d.res[q].budgetedType = c.res[q].budgetedType
              /\ d.res[q].refsWrapped = c.res[q].refsWrapped
<1> DEFINE old == c.fUniqueHash[k]
           d == KeyTaken(c, k)
<1>1. /\ c \in Caches /\ old \in Resources \union {Null} /\ Null \notin Resources
      /\ \A q \in Resources : c.res[q].refs \in Nat
  BY CacheAssumption DEF Good, Listed, Caches, Fields
<1>2. CASE old = Null
  BY <1>1, <1>2, KeptSame DEF KeyTaken
<1>3. ASSUME old \in Resources
      PROVE  /\ Right(c, old) /\ c.res[old].state = "cached" /\ c.res[old].uniqueKey = k
             /\ old \in c.fPurgeableQueue <=> IsPurgeable(c, old)
  BY <1>3 DEF Good, Listed, Right
<1>4. CASE old \in Resources /\ c.res[old].scratchKey = Null /\ IsPurgeable(c, old)
  <2>1. d = Destroyed(c, old)
    BY <1>1, <1>4 DEF KeyTaken
  <2>2. old \in c.fPurgeableQueue
    BY <1>3, <1>4
  <2> HIDE DEF d, old
  <2>3. /\ Good(d) /\ Kept(c, d) /\ d.res[old].state # "cached"
        /\ \A q \in Resources \ {old} : d.res[q] = c.res[q]
    BY <2>1, <2>2, PurgedKept
  <2>4. \A q \in Resources : d.fUniqueHash[k] # q
    <3>1. ASSUME NEW q \in Resources, d.fUniqueHash[k] = q
          PROVE  d.res[q].state = "cached" /\ d.res[q].uniqueKey = k
      BY <2>3, <3>1 DEF Good, Listed, Right
    <3>2. ASSUME NEW q \in Resources, c.res[q].state = "cached" /\ c.res[q].uniqueKey = k
          PROVE  q = old
      BY <3>2 DEF Good, Listed, Right, old
    <3> QED
      BY <2>3, <3>1, <3>2
  <2>5. d.fUniqueHash[k] \in Resources \union {Null}
    BY <2>3 DEF Good, Listed, Caches
  <2>6. c.res[old].refs = 0
    BY <1>4 DEF IsPurgeable
  <2> QED
    BY <1>1, <2>3, <2>4, <2>5, <2>6 DEF d, old
<1>5. CASE old \in Resources /\ ~(c.res[old].scratchKey = Null /\ IsPurgeable(c, old))
  <2>1. d = KeyRemoved(c, old)
    BY <1>1, <1>5 DEF KeyTaken
  <2>2. c.res[old].refs > 0
    BY <1>1, <1>5
  <2> HIDE DEF d
  <2>3. /\ Good(d) /\ Effect(c, d, old, 0) /\ SameButKeysOf(c, d, old) /\ SameButKeys(c, d)
        /\ \A q \in Resources \ {old} : d.res[q] = c.res[q]
        /\ d.fUniqueHash[k] = Null
    BY <1>3, <1>5, <2>1, <2>2, KeyRemovedGood
  <2>4. Kept(c, d)
    <3>1. c.fBudgetedBytes \in Int
      BY <1>1 DEF Caches
    <3> QED
      BY <2>2, <2>3, <3>1 DEF Kept, SameButKeys, SameButKeysOf
  <2> QED
    BY <2>3, <2>4 DEF SameButKeysOf, d
<1> QED
  BY <1>1, <1>2, <1>4, <1>5

LEMMA RekeyKept ==
  ASSUME NEW c \in Caches, NEW r \in Resources, NEW d,
         SameButKeys(c, d), SameButKeysOf(c, d, r),
         \A q \in Resources \ {r} : d.res[q] = c.res[q]
  PROVE  Kept(c, d)
<1>1. c.fBudgetedBytes \in Int
  BY DEF Caches
<1> QED
  BY <1>1 DEF Kept, SameButKeys, SameButKeysOf

LEMMA KeyChangedGood ==
  ASSUME NEW c, Good(c), NEW r \in Resources, NEW k \in UniqueKeys,
         c.res[r].state = "cached", c.res[r].refs > 0,
         Budgeted(c, r) \/ c.res[r].refsWrapped,
         LET old == c.fUniqueHash[k] IN
           old # Null =>
             \/ c.res[old].refs > 0
             \/ c.res[old].scratchKey = Null /\ IsPurgeable(c, old)
  PROVE  LET d == KeyChanged(c, r, k) IN Good(d) /\ Kept(c, d)
<1> DEFINE b == KeyTaken(c, k)
           q == b.res[r]
           entry == ScratchEntry(b, r)
           h == Without(b.fUniqueHash, q.uniqueKey)
           x == b.fScratchMap \ entry
           g == [h EXCEPT ![k] = r]
           e == [b EXCEPT !.fUniqueHash = h, !.fScratchMap = x]
           new == [e.res[r] EXCEPT !.uniqueKey = k]
           d == [e EXCEPT !.res[r] = new, !.fUniqueHash = g]
<1>1. /\ c \in Caches /\ Null \notin Resources /\ Null \notin UniqueKeys /\ Null \notin ScratchKeys
  BY CacheAssumption DEF Good, Listed
<1>2. /\ Good(b) /\ Kept(c, b) /\ b.fUniqueHash[k] = Null
      /\ b.res[r].state = "cached" /\ b.res[r].budgetedType = c.res[r].budgetedType
      /\ b.res[r].refsWrapped = c.res[r].refsWrapped
  BY KeyTakenGood
<1>3. KeyChanged(c, r, k) = d
  <2> HIDE DEF b
  <2>1. [h EXCEPT ![k] = r] = g
    OBVIOUS
  <2> QED
    BY DEF KeyChanged, b
<1> HIDE DEF b
<1>4. b \in Caches /\ Right(b, r) /\ q \in Fields /\ b.res[r].refs > 0
  BY <1>2 DEF Good, Listed, Caches, Kept
<1>5. /\ h \in [UniqueKeys -> Resources \union {Null}]
      /\ \A p \in UniqueKeys : h[p] = IF b.fUniqueHash[p] = r THEN Null ELSE b.fUniqueHash[p]
  <2>1. b.fUniqueHash \in [UniqueKeys -> Resources \union {Null}] /\ q.uniqueKey \in UniqueKeys \union {Null}
    BY <1>4 DEF Caches, Fields
  <2>2. \A p \in UniqueKeys : b.fUniqueHash[p] = r <=> q.uniqueKey = p
    BY <1>2, <1>4 DEF Right
  <2> HIDE DEF q
  <2> QED
    BY <1>1, <2>1, <2>2 DEF Without
<1>6. /\ g \in [UniqueKeys -> Resources \union {Null}] /\ g[k] = r
      /\ \A p \in UniqueKeys \ {k} : g[p] = h[p]
  BY <1>5
<1>7. x \in SUBSET (ScratchKeys \X Resources)
  BY <1>4 DEF Caches
<1>8. entry = IF q.scratchKey # Null /\ q.uniqueKey = Null THEN {<<q.scratchKey, r>>} ELSE {}
  BY DEF ScratchEntry
<1> HIDE DEF h, g, x, entry
<1>9. e \in Caches /\ e.res = b.res /\ e.fUniqueHash = h /\ e.fScratchMap = x
  BY <1>4, <1>5, <1>7 DEF Caches
<1>10. SameButKeys(b, e)
  BY <1>4 DEF Caches, SameButKeys
<1> HIDE DEF e
<1>11. /\ new \in Fields /\ new.refs = q.refs /\ new.state = q.state /\ new.size = q.size
       /\ new.budgetedType = q.budgetedType /\ new.refsWrapped = q.refsWrapped
       /\ new.scratchKey = q.scratchKey /\ new.uniqueKey = k /\ new.timestamp = q.timestamp
  BY <1>4, <1>9 DEF Fields
<1> HIDE DEF new
<1>12. /\ d \in Caches /\ d.res[r] = new /\ (\A p \in Resources \ {r} : d.res[p] = b.res[p])
       /\ d.fUniqueHash = g /\ d.fScratchMap = x /\ SameButKeys(b, d)
  <2> DEFINE a == [e EXCEPT !.res[r] = new]
  <2>1. a \in Caches /\ a.res[r] = new /\ (\A p \in Resources \ {r} : a.res[p] = e.res[p])
        /\ SameRest(e, a)
    BY <1>9, <1>11, PutIs
  <2>2. d = [a EXCEPT !.fUniqueHash = g]
    BY <1>9 DEF Caches
  <2> HIDE DEF a, d
  <2>3. d \in Caches /\ d.res = a.res /\ d.fUniqueHash = g /\ d.fScratchMap = a.fScratchMap
    BY <1>6, <2>1, <2>2 DEF Caches
  <2>4. SameButKeys(a, d)
    BY <2>1, <2>2 DEF Caches, SameButKeys
  <2> QED
    BY <1>9, <1>10, <2>1, <2>3, <2>4 DEF SameButKeys, SameRest
<1> HIDE DEF d, q
<1>13. SameButKeysOf(b, d, r)
  BY <1>11, <1>12 DEF SameButKeysOf, q
<1>14. \A p \in UniqueKeys :
         /\ d.fUniqueHash[p] = r <=> d.res[r].uniqueKey = p
         /\ \A s \in Resources \ {r} : d.fUniqueHash[p] = s <=> b.fUniqueHash[p] = s
  <2>1. d.res[r].uniqueKey = k
    BY <1>11, <1>12
  <2>2. ASSUME NEW p \in UniqueKeys \ {k} PROVE d.fUniqueHash[p] # r
    BY <1>1, <1>5, <1>6, <1>12
  <2>3. ASSUME NEW p \in UniqueKeys, NEW s \in Resources \ {r}
        PROVE  d.fUniqueHash[p] = s <=> b.fUniqueHash[p] = s
    <3>1. CASE p = k
      BY <1>1, <1>2, <1>6, <1>12, <3>1
    <3>2. CASE p # k
      BY <1>1, <1>5, <1>6, <1>12, <3>2
    <3> QED
      BY <3>1, <3>2
  <2> QED
    BY <1>6, <1>12, <2>1, <2>2, <2>3
<1>15. \A p \in ScratchKeys :
         /\ <<p, r>> \in d.fScratchMap <=> d.res[r].scratchKey = p /\ d.res[r].uniqueKey = Null
         /\ \A s \in Resources \ {r} : <<p, s>> \in d.fScratchMap <=> <<p, s>> \in b.fScratchMap
  <2>1. d.res[r].uniqueKey # Null
    BY <1>1, <1>11, <1>12
  <2>2. \A p \in ScratchKeys : <<p, r>> \notin d.fScratchMap
    BY <1>1, <1>4, <1>8, <1>12 DEF Right, q, x
  <2>3. \A p \in ScratchKeys : \A s \in Resources \ {r} :
          <<p, s>> \in d.fScratchMap <=> <<p, s>> \in b.fScratchMap
    BY <1>8, <1>12 DEF x
  <2> QED
    BY <2>1, <2>2, <2>3
<1>16. Budgeted(d, r) \/ d.res[r].refsWrapped
  BY <1>2, <1>11, <1>12 DEF Budgeted, q
<1>17. Good(d)
  BY <1>2, <1>4, <1>12, <1>13, <1>14, <1>15, <1>16, RekeyGood
<1>18. Kept(b, d)
  BY <1>4, <1>12, <1>13, RekeyKept
<1>19. Kept(c, d)
  BY <1>1, <1>2, <1>4, <1>12, <1>18, KeptTwice
<1> QED
  BY <1>3, <1>17, <1>19

LEMMA ScratchKeyRemovedGood ==
  ASSUME NEW c, Good(c), NEW r \in Resources, c.res[r].state = "cached", c.res[r].refs > 0
  PROVE  LET d == [c EXCEPT !.fScratchMap = @ \ ScratchEntry(c, r), !.res[r].scratchKey = Null]
         IN  Good(d) /\ Kept(c, d)
<1> DEFINE q == c.res[r]
           entry == ScratchEntry(c, r)
           x == c.fScratchMap \ entry
           e == [c EXCEPT !.fScratchMap = x]
           new == [e.res[r] EXCEPT !.scratchKey = Null]
           d == [e EXCEPT !.res[r] = new]
<1>1. /\ c \in Caches /\ Right(c, r) /\ q \in Fields
      /\ Null \notin Resources /\ Null \notin UniqueKeys /\ Null \notin ScratchKeys
  BY CacheAssumption DEF Good, Listed, Caches
<1>2. d = [c EXCEPT !.fScratchMap = @ \ ScratchEntry(c, r), !.res[r].scratchKey = Null]
  BY <1>1 DEF Caches
<1>3. x \in SUBSET (ScratchKeys \X Resources)
  BY <1>1 DEF Caches
<1>4. entry = IF q.scratchKey # Null /\ q.uniqueKey = Null THEN {<<q.scratchKey, r>>} ELSE {}
  BY DEF ScratchEntry
<1> HIDE DEF x, entry
<1>5. e \in Caches /\ e.res = c.res /\ e.fScratchMap = x /\ e.fUniqueHash = c.fUniqueHash
  BY <1>1, <1>3 DEF Caches
<1>6. SameButKeys(c, e)
  BY <1>1 DEF Caches, SameButKeys
<1> HIDE DEF e
<1>7. /\ new \in Fields /\ new.refs = q.refs /\ new.state = q.state /\ new.size = q.size
      /\ new.budgetedType = q.budgetedType /\ new.refsWrapped = q.refsWrapped
      /\ new.scratchKey = Null /\ new.uniqueKey = q.uniqueKey /\ new.timestamp = q.timestamp
  BY <1>1, <1>5 DEF Fields
<1> HIDE DEF new
<1>8. d \in Caches /\ d.res[r] = new /\ (\A p \in Resources \ {r} : d.res[p] = e.res[p])
      /\ SameRest(e, d)
  BY <1>5, <1>7, PutIs
<1> HIDE DEF d, q
<1>9. /\ SameButKeys(c, d) /\ d.fUniqueHash = c.fUniqueHash /\ d.fScratchMap = x
      /\ \A p \in Resources \ {r} : d.res[p] = c.res[p]
  BY <1>5, <1>6, <1>8 DEF SameButKeys, SameRest
<1>10. SameButKeysOf(c, d, r)
  BY <1>7, <1>8 DEF SameButKeysOf, q
<1>11. \A p \in UniqueKeys :
         /\ d.fUniqueHash[p] = r <=> d.res[r].uniqueKey = p
         /\ \A s \in Resources \ {r} : d.fUniqueHash[p] = s <=> c.fUniqueHash[p] = s
  BY <1>1, <1>7, <1>8, <1>9 DEF Right, q
<1>12. \A p \in ScratchKeys :
         /\ <<p, r>> \in d.fScratchMap <=> d.res[r].scratchKey = p /\ d.res[r].uniqueKey = Null
         /\ \A s \in Resources \ {r} : <<p, s>> \in d.fScratchMap <=> <<p, s>> \in c.fScratchMap
  BY <1>1, <1>4, <1>7, <1>8, <1>9 DEF Right, q, x
<1>13. d.res[r].uniqueKey # Null => Budgeted(d, r) \/ d.res[r].refsWrapped
  BY <1>1, <1>7, <1>8 DEF Right, Budgeted, q
<1>14. Good(d)
  BY <1>8, <1>9, <1>10, <1>11, <1>12, <1>13, RekeyGood
<1>15. Kept(c, d)
  BY <1>1, <1>9, <1>10, RekeyKept
<1> QED
  BY <1>2, <1>14, <1>15

-----------------------------------------------------------------------------
(* Changes of what pays. The resource made budgeted may be one that has    *)
(* just become purgeable, and does not pay for it yet.                     *)
LEMMA MadeBudgetedGood ==
  ASSUME NEW c, Listed(c), Ordered(c), NEW r \in Resources, c.res[r].state = "cached",
         c.res[r].budgetedType = "UnbudgetedUncacheable",
         \A q \in c.fPurgeableQueue \ {r} : Budgeted(c, q)
  PROVE  LET d == MadeBudgeted(c, r) IN
         Good(d) /\ Effect(c, d, r, 0) /\ d.res[r].state = "cached"
<1> DEFINE q == c.res[r]
           new == [q EXCEPT !.budgetedType = "Budgeted"]
           b == [c EXCEPT !.res[r] = new]
           wait == Count(~IsPurgeable(b, r) /\ b.res[r].refs = 0)
           x1 == b.fBudgetedCount + 1
           x2 == b.fBudgetedBytes + q.size
           x3 == b.fNumFlushWillMakePurgeable + wait
           d == [b EXCEPT !.fBudgetedCount = x1, !.fBudgetedBytes = x2,
                          !.fNumFlushWillMakePurgeable = x3]
<1>1. /\ c \in Caches /\ Right(c, r) /\ q \in Fields /\ q.size \in Nat
      /\ c.fNumFlushWillMakePurgeable = 0
      /\ c.fBytes \in Int /\ c.fBudgetedCount \in Int /\ c.fBudgetedBytes \in Int /\ c.fPurgeableBytes \in Int
  BY SizesAre DEF Listed, TotalsRight, Caches
<1>2. MadeBudgeted(c, r) = d
  BY DEF MadeBudgeted
<1>3. /\ new \in Fields /\ new.refs = q.refs /\ new.state = q.state /\ new.size = q.size
      /\ new.budgetedType = "Budgeted" /\ new.refsWrapped = q.refsWrapped
      /\ new.scratchKey = q.scratchKey /\ new.uniqueKey = q.uniqueKey /\ new.timestamp = q.timestamp
  BY <1>1 DEF Fields, BudgetedTypes
<1> HIDE DEF new
<1>4. /\ b \in Caches /\ b.res[r] = new /\ \A p \in Resources \ {r} : b.res[p] = c.res[p]
      /\ SameRest(c, b)
  BY <1>1, <1>3, PutIs
<1>5. wait = 0
  BY <1>3, <1>4 DEF IsPurgeable, Count
<1> HIDE DEF b, wait
<1>6. /\ x1 = c.fBudgetedCount + 1 /\ x2 = c.fBudgetedBytes + q.size /\ x3 = 0
      /\ x1 \in Int /\ x2 \in Int /\ x3 \in Int
  BY <1>1, <1>4, <1>5 DEF SameRest
<1> HIDE DEF x1, x2, x3
<1>7. /\ d \in Caches /\ d.res = b.res /\ d.fUniqueHash = b.fUniqueHash /\ d.fScratchMap = b.fScratchMap
      /\ d.use = b.use /\ d.fTimestamp = b.fTimestamp
      /\ d.fNonpurgeableResources = b.fNonpurgeableResources
      /\ d.fPurgeableQueue = b.fPurgeableQueue
      /\ d.fBytes = b.fBytes /\ d.fPurgeableBytes = b.fPurgeableBytes
      /\ d.fBudgetedCount = x1 /\ d.fBudgetedBytes = x2 /\ d.fNumFlushWillMakePurgeable = x3
      /\ d.fTexturesAwaitingUnref = b.fTexturesAwaitingUnref /\ d.fMaxBytes = b.fMaxBytes
  BY <1>4, <1>6 DEF Caches
<1> HIDE DEF d, q
<1>8. Others(c, d, r)
  BY <1>4, <1>7 DEF Others, SameFields, SameRest
<1>9. IsPurgeable(d, r) <=> IsPurgeable(c, r)
  BY <1>3, <1>4, <1>7 DEF IsPurgeable, q
<1>10. Right(d, r)
  BY <1>1, <1>3, <1>4, <1>7, <1>9 DEF Right, SameRest, Budgeted, q
<1>11. Moved(c, d, r)
  <2>1. /\ Sized(d)[r] = Sized(c)[r] /\ Waiting(d)[r] = Waiting(c)[r]
        /\ Paid(c)[r] = 0 /\ Paid(d)[r] = q.size /\ Counted(c)[r] = 0 /\ Counted(d)[r] = 1
    BY <1>3, <1>4, <1>7, <1>9 DEF Sized, Paid, Counted, Waiting, Budgeted, q
  <2>2. /\ Sized(c)[r] \in Nat /\ Waiting(c)[r] \in Nat
    BY <1>1, WeightsTyped
  <2> QED
    BY <1>1, <1>4, <1>6, <1>7, <2>1, <2>2 DEF Moved, SameRest
<1>12. Listed(d)
  BY <1>7, <1>8, <1>10, <1>11, OneChanged
<1>13. Ordered(d)
  <2>1. \A p \in Resources : d.res[p].timestamp = c.res[p].timestamp
    BY <1>3, <1>4, <1>7 DEF q
  <2>2. KeepsOrder(c, d)
    BY <1>4, <1>7, <2>1 DEF KeepsOrder, SameRest, InCache
  <2> QED
    BY <1>1, <2>2, OrderKept
<1>14. PaidFor(d)
  <2>1. Budgeted(d, r)
    BY <1>3, <1>4, <1>7 DEF Budgeted
  <2>2. \A p \in d.fPurgeableQueue \ {r} : Budgeted(d, p)
    <3>1. d.fPurgeableQueue = c.fPurgeableQueue /\ d.fPurgeableQueue \subseteq Resources
      BY <1>1, <1>4, <1>7 DEF SameRest, Caches
    <3> QED
      BY <1>8, <3>1 DEF Others, SameFields, Budgeted
  <2> QED
    BY <2>1, <2>2 DEF PaidFor
<1>15. Effect(c, d, r, 0) /\ d.res[r].state = "cached"
  <2>1. q.refs \in Nat
    BY <1>1 DEF Fields
  <2> QED
    BY <1>3, <1>4, <1>7, <1>8, <2>1 DEF Effect, Others, SameFields, SameRest, q
<1> QED
  BY <1>2, <1>12, <1>13, <1>14, <1>15 DEF Good

LEMMA MadeUnbudgetedGood ==
  ASSUME NEW c, Good(c), NEW r \in Resources, c.res[r].state = "cached", c.res[r].refs > 0,
         Budgeted(c, r), c.res[r].uniqueKey = Null
  PROVE  LET d == MadeUnbudgeted(c, r) IN Good(d) /\ Kept(c, d)
<1> DEFINE q == c.res[r]
           new == [q EXCEPT !.budgetedType = "UnbudgetedUncacheable"]
           b == [c EXCEPT !.res[r] = new]
           wait == Count(~IsPurgeable(b, r) /\ b.res[r].refs = 0)
           x1 == b.fBudgetedCount - 1
           x2 == b.fBudgetedBytes - q.size
           x3 == b.fNumFlushWillMakePurgeable - wait
           d == [b EXCEPT !.fBudgetedCount = x1, !.fBudgetedBytes = x2,
                          !.fNumFlushWillMakePurgeable = x3]
<1>1. /\ c \in Caches /\ Right(c, r) /\ q \in Fields /\ q.size \in Nat /\ q.refs \in Nat
      /\ c.fNumFlushWillMakePurgeable = 0 /\ Ordered(c)
      /\ c.fBytes \in Int /\ c.fBudgetedCount \in Int /\ c.fBudgetedBytes \in Int /\ c.fPurgeableBytes \in Int
      /\ Null \notin UniqueKeys
  BY SizesAre, CacheAssumption DEF Good, Listed, TotalsRight, Caches, Fields
<1>2. MadeUnbudgeted(c, r) = d
  BY DEF MadeUnbudgeted
<1>3. /\ new \in Fields /\ new.refs = q.refs /\ new.state = q.state /\ new.size = q.size
      /\ new.budgetedType = "UnbudgetedUncacheable" /\ new.refsWrapped = q.refsWrapped
      /\ new.scratchKey = q.scratchKey /\ new.uniqueKey = q.uniqueKey /\ new.timestamp = q.timestamp
  BY <1>1 DEF Fields, BudgetedTypes
<1> HIDE DEF new
<1>4. /\ b \in Caches /\ b.res[r] = new /\ \A p \in Resources \ {r} : b.res[p] = c.res[p]
      /\ SameRest(c, b)
  BY <1>1, <1>3, PutIs
<1>5. wait = 0
  BY <1>1, <1>3, <1>4 DEF IsPurgeable, Count
<1> HIDE DEF b, wait
<1>6. /\ x1 = c.fBudgetedCount - 1 /\ x2 = c.fBudgetedBytes - q.size /\ x3 = 0
      /\ x1 \in Int /\ x2 \in Int /\ x3 \in Int
  BY <1>1, <1>4, <1>5 DEF SameRest
<1> HIDE DEF x1, x2, x3
<1>7. /\ d \in Caches /\ d.res = b.res /\ d.fUniqueHash = b.fUniqueHash /\ d.fScratchMap = b.fScratchMap
      /\ d.use = b.use /\ d.fTimestamp = b.fTimestamp
      /\ d.fNonpurgeableResources = b.fNonpurgeableResources
      /\ d.fPurgeableQueue = b.fPurgeableQueue
      /\ d.fBytes = b.fBytes /\ d.fPurgeableBytes = b.fPurgeableBytes
      /\ d.fBudgetedCount = x1 /\ d.fBudgetedBytes = x2 /\ d.fNumFlushWillMakePurgeable = x3
      /\ d.fTexturesAwaitingUnref = b.fTexturesAwaitingUnref /\ d.fMaxBytes = b.fMaxBytes
  BY <1>4, <1>6 DEF Caches
<1> HIDE DEF d, q
<1>8. Others(c, d, r)
  BY <1>4, <1>7 DEF Others, SameFields, SameRest
<1>9. ~IsPurgeable(d, r) /\ ~IsPurgeable(c, r)
  BY <1>1, <1>3, <1>4, <1>7 DEF IsPurgeable, q
<1>10. Right(d, r)
  BY <1>1, <1>3, <1>4, <1>7, <1>9 DEF Right, SameRest, q
<1>11. Moved(c, d, r)
  <2>1. /\ Sized(d)[r] = Sized(c)[r] /\ Waiting(d)[r] = Waiting(c)[r]
        /\ Paid(d)[r] = 0 /\ Paid(c)[r] = q.size /\ Counted(d)[r] = 0 /\ Counted(c)[r] = 1
    BY <1>3, <1>4, <1>7, <1>9 DEF Sized, Paid, Counted, Waiting, Budgeted, q
  <2>2. /\ Sized(c)[r] \in Nat /\ Waiting(c)[r] \in Nat
    BY <1>1, WeightsTyped
  <2> QED
    BY <1>1, <1>4, <1>6, <1>7, <2>1, <2>2 DEF Moved, SameRest
<1>13. Ordered(d)
  <2>1. \A p \in Resources : d.res[p].timestamp = c.res[p].timestamp
    BY <1>3, <1>4, <1>7 DEF q
  <2>2. KeepsOrder(c, d)
    BY <1>4, <1>7, <2>1 DEF KeepsOrder, SameRest, InCache
  <2> QED
    BY <1>1, <2>2, OrderKept
<1>14. r \notin d.fPurgeableQueue
  BY <1>9, <1>10 DEF Right
<1>15. Good(d)
  BY <1>7, <1>8, <1>10, <1>11, <1>13, <1>14, ChangedGood
<1>16. Kept(c, d)
  BY <1>1, <1>3, <1>4, <1>6, <1>7, <1>8 DEF Kept, Others, SameFields, SameRest, q
<1> QED
  BY <1>2, <1>15, <1>16

-----------------------------------------------------------------------------
(* The last reference goes.                                                *)
Over(c) == OverBudget(c) /\ c.fPurgeableQueue # {}

LEMMA NotifiedGood ==
  ASSUME NEW c, Good(c), NEW r \in Resources, c.res[r].state = "cached", c.res[r].refs = 1
  PROVE  LET d == Notified([c EXCEPT !.res[r].refs = @ - 1], r) IN
         /\ Good(d) /\ Effect(c, d, r, -1)
         /\ Over(d) /\ ~Recyclable(c, r) => Over(c)
<1> DEFINE f == c.res[r]
           new == [f EXCEPT !.refs = 0]
           b == [c EXCEPT !.res[r] = new]
           s == Stamped(b, r)
           size == s.res[r].size
           x1 == s.fNonpurgeableResources \ {r}
           x2 == s.fPurgeableQueue \union {r}
           x3 == s.fPurgeableBytes + size
           q == [s EXCEPT !.fNonpurgeableResources = x1, !.fPurgeableQueue = x2, !.fPurgeableBytes = x3]
           x4 == s.fNumFlushWillMakePurgeable + Count(Budgeted(s, r))
           e == [s EXCEPT !.fNumFlushWillMakePurgeable = x4]
           unique == s.res[r].uniqueKey # Null
           keep ==
             \/ Budgeted(q, r) /\ ~OverBudget(q) /\ (s.res[r].scratchKey # Null \/ unique)
             \/ s.res[r].budgetedType = "UnbudgetedCacheable" /\ unique
           d == Notified(b, r)
<1>1. /\ c \in Caches /\ Right(c, r) /\ f \in Fields /\ f.size \in Nat /\ Ordered(c) /\ Listed(c)
      /\ c.fNumFlushWillMakePurgeable = 0 /\ PaidFor(c)
      /\ c.fBytes \in Int /\ c.fBudgetedCount \in Int /\ c.fBudgetedBytes \in Int /\ c.fPurgeableBytes \in Int
      /\ c.fNonpurgeableResources \in SUBSET Resources /\ c.fPurgeableQueue \in SUBSET Resources
  BY SizesAre DEF Good, Listed, TotalsRight, Caches, Fields
<1>2. b = [c EXCEPT !.res[r].refs = @ - 1]
  <2>1. [f EXCEPT !.refs = @ - 1] = new
    BY <1>1 DEF Fields
  <2> QED
    BY <1>1, <2>1 DEF Caches
<1>3. d = CASE ~IsPurgeable(s, r) -> e
            [] IsPurgeable(s, r) /\ keep -> q
            [] IsPurgeable(s, r) /\ ~keep /\ Recyclable(q, r) -> MadeBudgeted(q, r)
            [] OTHER -> Destroyed(q, r)
  BY DEF Notified
<1>4. /\ new \in Fields /\ new.refs = 0 /\ new.state = "cached" /\ new.size = f.size
      /\ new.budgetedType = f.budgetedType /\ new.refsWrapped = f.refsWrapped
      /\ new.scratchKey = f.scratchKey /\ new.uniqueKey = f.uniqueKey /\ new.timestamp = f.timestamp
  BY <1>1 DEF Fields
<1> HIDE DEF new
<1>5. /\ b \in Caches /\ b.res[r] = new /\ \A p \in Resources \ {r} : b.res[p] = c.res[p]
      /\ SameRest(c, b)
  BY <1>1, <1>4, PutIs
<1> HIDE DEF b
<1>6. r \in c.fNonpurgeableResources /\ r \notin c.fPurgeableQueue
  BY <1>1 DEF Right, IsPurgeable
<1>7. Ordered(b)
  <2>1. \A p \in Resources : b.res[p].timestamp = c.res[p].timestamp
    BY <1>4, <1>5
  <2>2. KeepsOrder(c, b)
    BY <1>5, <2>1 DEF KeepsOrder, SameRest, InCache
  <2> QED
    BY <1>1, <2>2, OrderKept
<1>8. r \in InCache(b)
  BY <1>5, <1>6 DEF InCache, SameRest
<1>9. /\ s \in Caches /\ Alike(b, s) /\ Ordered(s)
      /\ s.fTexturesAwaitingUnref = b.fTexturesAwaitingUnref /\ s.fMaxBytes = b.fMaxBytes
  BY <1>5, <1>7, <1>8, StampedGood
<1> HIDE DEF s
<1>10. \A p \in Resources : SameFields(b, s, p)
  BY <1>5, <1>9, AlikeSame
<1>11. /\ s.fNonpurgeableResources = c.fNonpurgeableResources
       /\ s.fPurgeableQueue = c.fPurgeableQueue
       /\ s.fUniqueHash = c.fUniqueHash /\ s.fScratchMap = c.fScratchMap
       /\ s.fBytes = c.fBytes /\ s.fBudgetedCount = c.fBudgetedCount
       /\ s.fBudgetedBytes = c.fBudgetedBytes /\ s.fPurgeableBytes = c.fPurgeableBytes
       /\ s.fNumFlushWillMakePurgeable = 0
       /\ s.fTexturesAwaitingUnref = c.fTexturesAwaitingUnref /\ s.fMaxBytes = c.fMaxBytes
  BY <1>1, <1>5, <1>9 DEF Alike, SameRest
<1>12. /\ s.res[r].refs = 0 /\ s.res[r].state = "cached" /\ size = f.size
       /\ s.res[r].budgetedType = f.budgetedType /\ s.res[r].refsWrapped = f.refsWrapped
       /\ s.res[r].scratchKey = f.scratchKey /\ s.res[r].uniqueKey = f.uniqueKey
       /\ \A p \in Resources \ {r} : SameFields(c, s, p)
  BY <1>4, <1>5, <1>10 DEF SameFields
<1>13. /\ Sized(c)[r] = f.size /\ Waiting(c)[r] = 0
       /\ Paid(c)[r] = (IF Budgeted(c, r) THEN f.size ELSE 0)
       /\ Counted(c)[r] = (IF Budgeted(c, r) THEN 1 ELSE 0)
  BY DEF Sized, Paid, Counted, Waiting, IsPurgeable
<1>14. CASE ~IsPurgeable(s, r)
  <2>1. d = e
    BY <1>3, <1>14
  <2>2. ~Budgeted(s, r) /\ x4 = 0
    BY <1>11, <1>12, <1>14 DEF IsPurgeable, Budgeted, Count
  <2> HIDE DEF x4, d, f
  <2>3. e \in Caches
    <3> DEFINE z == 0
    <3>1. s \in Caches /\ z \in Int /\ e = [s EXCEPT !.fNumFlushWillMakePurgeable = z]
      BY <1>9, <2>2
    <3> HIDE DEF z, e
    <3> QED
      BY <3>1 DEF Caches
  <2>4. /\ e.res = s.res /\ e.use = s.use /\ e.fTimestamp = s.fTimestamp
        /\ e.fNonpurgeableResources = s.fNonpurgeableResources
        /\ e.fPurgeableQueue = s.fPurgeableQueue
        /\ e.fUniqueHash = s.fUniqueHash /\ e.fScratchMap = s.fScratchMap
        /\ e.fBytes = s.fBytes /\ e.fBudgetedCount = s.fBudgetedCount
        /\ e.fBudgetedBytes = s.fBudgetedBytes /\ e.fPurgeableBytes = s.fPurgeableBytes
        /\ e.fNumFlushWillMakePurgeable = 0
        /\ e.fTexturesAwaitingUnref = s.fTexturesAwaitingUnref /\ e.fMaxBytes = s.fMaxBytes
    BY <1>9, <2>2 DEF Caches
  <2> HIDE DEF e
  <2>5. Others(c, e, r)
    BY <1>11, <1>12, <2>4 DEF Others, SameFields
  <2>6. ~IsPurgeable(e, r) /\ ~Budgeted(e, r) /\ ~Budgeted(c, r)
    BY <1>12, <1>14, <2>2, <2>4 DEF IsPurgeable, Budgeted, f
  <2>7. Right(e, r)
    BY <1>1, <1>6, <1>11, <1>12, <2>4, <2>6 DEF Right, Budgeted, f
  <2>8. Moved(c, e, r)
    <3>1. /\ Sized(e)[r] = f.size /\ Waiting(e)[r] = 0 /\ Paid(e)[r] = 0 /\ Counted(e)[r] = 0
      BY <1>12, <2>4, <2>6 DEF Sized, Paid, Counted, Waiting
    <3> QED
      BY <1>1, <1>11, <1>13, <2>4, <2>6, <3>1 DEF Moved
  <2>9. Ordered(e)
    <3>1. KeepsOrder(s, e)
      BY <2>4 DEF KeepsOrder, InCache
    <3> QED
      BY <1>9, <3>1, OrderKept
  <2>10. r \notin e.fPurgeableQueue
    BY <1>6, <1>11, <2>4
  <2>11. Good(e)
    BY <2>3, <2>5, <2>7, <2>8, <2>9, <2>10, ChangedGood
  <2>12. Effect(c, e, r, -1)
    BY <1>11, <1>12, <2>4 DEF Effect, SameFields
  <2>13. Over(e) => Over(c)
    BY <1>11, <2>4 DEF Over, OverBudget
  <2> QED
    BY <1>2, <2>1, <2>11, <2>12, <2>13 DEF d
<1>15. ASSUME IsPurgeable(s, r)
       PROVE  /\ Listed(q) /\ Ordered(q) /\ q.res = s.res
              /\ q.fPurgeableQueue = c.fPurgeableQueue \union {r}
              /\ q.fBudgetedBytes = c.fBudgetedBytes /\ q.fMaxBytes = c.fMaxBytes
              /\ Effect(c, q, r, -1)
              /\ \A p \in q.fPurgeableQueue \ {r} : Budgeted(q, p)
  <2>1. x1 \in SUBSET Resources /\ x2 \in SUBSET Resources /\ x3 \in Int
        /\ x3 = c.fPurgeableBytes + f.size
    BY <1>1, <1>11, <1>12
  <2>2. x1 = c.fNonpurgeableResources \ {r} /\ x2 = c.fPurgeableQueue \union {r}
    BY <1>11
  <2> HIDE DEF x1, x2, x3, f, d
  <2>3. /\ q \in Caches
        /\ q.res = s.res /\ q.use = s.use /\ q.fTimestamp = s.fTimestamp
        /\ q.fNonpurgeableResources = x1 /\ q.fPurgeableQueue = x2
        /\ q.fUniqueHash = s.fUniqueHash /\ q.fScratchMap = s.fScratchMap
        /\ q.fBytes = s.fBytes /\ q.fBudgetedCount = s.fBudgetedCount
        /\ q.fBudgetedBytes = s.fBudgetedBytes /\ q.fPurgeableBytes = x3
        /\ q.fNumFlushWillMakePurgeable = s.fNumFlushWillMakePurgeable
        /\ q.fTexturesAwaitingUnref = s.fTexturesAwaitingUnref /\ q.fMaxBytes = s.fMaxBytes
    BY <1>9, <2>1 DEF Caches
  <2> HIDE DEF q
  <2>4. Others(c, q, r)
    BY <1>11, <1>12, <2>2, <2>3 DEF Others, SameFields
  <2>5. IsPurgeable(q, r)
    BY <1>15, <2>3 DEF IsPurgeable
  <2>6. Right(q, r)
    BY <1>1, <1>11, <1>12, <2>2, <2>3, <2>5 DEF Right, Budgeted, f
  <2>7. Moved(c, q, r)
    <3>1. /\ Sized(q)[r] = f.size /\ Waiting(q)[r] = f.size
          /\ Paid(q)[r] = (IF Budgeted(c, r) THEN f.size ELSE 0)
          /\ Counted(q)[r] = (IF Budgeted(c, r) THEN 1 ELSE 0)
      BY <1>12, <2>3, <2>5 DEF Sized, Paid, Counted, Waiting, Budgeted, f
    <3> QED
      BY <1>1, <1>11, <1>13, <2>1, <2>3, <3>1 DEF Moved
  <2>8. Listed(q)
    BY <1>1, <2>3, <2>4, <2>6, <2>7, OneChanged
  <2>9. Ordered(q)
    <3>1. InCache(q) = InCache(s)
      BY <1>6, <1>11, <2>2, <2>3 DEF InCache
    <3>2. KeepsOrder(s, q)
      BY <2>3, <3>1 DEF KeepsOrder
    <3> QED
      BY <1>9, <3>2, OrderKept
  <2>10. Effect(c, q, r, -1)
    BY <1>11, <1>12, <2>3 DEF Effect, SameFields, f
  <2>11. \A p \in q.fPurgeableQueue \ {r} : Budgeted(q, p)
    BY <1>1, <2>2, <2>3, <2>4 DEF PaidFor, Others, SameFields, Budgeted
  <2> QED
    BY <1>11, <2>2, <2>3, <2>8, <2>9, <2>10, <2>11
<1>16. Recyclable(q, r) <=> Recyclable(c, r)
  <2>1. /\ q.res = s.res /\ q.fBudgetedBytes = c.fBudgetedBytes /\ q.fMaxBytes = c.fMaxBytes
    BY <1>9, <1>11 DEF Caches
  <2> HIDE DEF q
  <2> QED
    BY <1>12, <2>1 DEF Recyclable, WouldFit
<1>17. CASE IsPurgeable(s, r) /\ keep
  <2>1. d = q
    BY <1>3, <1>17
  <2>2. Budgeted(q, r) /\ ~OverBudget(q)
    BY <1>17 DEF IsPurgeable
  <2> HIDE DEF q, d
  <2>3. Good(q)
    BY <1>15, <1>17, <2>2 DEF Good, PaidFor
  <2> QED
    BY <1>2, <1>15, <1>17, <2>1, <2>2, <2>3 DEF d, Over
<1>18. CASE IsPurgeable(s, r) /\ ~keep /\ Recyclable(q, r)
  <2>1. d = MadeBudgeted(q, r)
    BY <1>3, <1>18
  <2> HIDE DEF q, d
  <2>2. q.res[r].state = "cached" /\ q.res[r].budgetedType = "UnbudgetedUncacheable"
    BY <1>12, <1>15, <1>18 DEF Recyclable
  <2>3. Good(d) /\ Effect(q, d, r, 0)
    BY <1>15, <1>18, <2>1, <2>2, MadeBudgetedGood
  <2>4. Effect(c, d, r, -1)
    BY <1>12, <1>15, <1>18, <2>3 DEF Effect
  <2> QED
    BY <1>2, <1>16, <1>18, <2>3, <2>4 DEF d
<1>19. CASE IsPurgeable(s, r) /\ ~keep /\ ~Recyclable(q, r)
  <2>1. d = Destroyed(q, r)
    BY <1>3, <1>19
  <2> HIDE DEF q, d
  <2>2. q.res[r].state = "cached"
    BY <1>12, <1>15, <1>19
  <2>3. /\ Good(d) /\ Effect(q, d, r, 0)
        /\ d.fPurgeableQueue = q.fPurgeableQueue \ {r}
        /\ d.fBudgetedBytes \in Int /\ d.fBudgetedBytes <= q.fBudgetedBytes
    BY <1>15, <1>19, <2>1, <2>2, DestroyedGood
  <2>4. Effect(c, d, r, -1)
    BY <1>12, <1>15, <1>19, <2>3 DEF Effect
  <2>5. Over(d) => Over(c)
    <3>1. d.fMaxBytes = c.fMaxBytes /\ d.fPurgeableQueue = c.fPurgeableQueue
      BY <1>6, <1>15, <1>19, <2>3 DEF Effect
    <3>2. d.fBudgetedBytes <= c.fBudgetedBytes /\ d.fBudgetedBytes \in Int
          /\ c.fBudgetedBytes \in Int /\ c.fMaxBytes \in Int
      BY <1>1, <1>15, <1>19, <2>3 DEF Caches
    <3> QED
      BY <3>1, <3>2 DEF Over, OverBudget
  <2> QED
    BY <1>2, <2>3, <2>4, <2>5 DEF d
<1> QED
  BY <1>14, <1>17, <1>18, <1>19

LEMMA UnreffedGood ==
  ASSUME NEW c, Good(c), NEW r \in Resources, c.res[r].refs > 0
  PROVE  LET d == Unreffed(c, r) IN
         /\ Good(d) /\ Effect(c, d, r, -1)
         /\ c.res[r].state = "cached" /\ d.res[r].state # "cached" => d.res[r].refs = 0
         /\ c.res[r].state # "cached" => d.res[r].state # "cached"
         /\ Over(d) /\ AfterUnref(c, r) = <<>> => Over(c)
<1> DEFINE f == c.res[r]
           d == Unreffed(c, r)
           b == [c EXCEPT !.res[r].refs = @ - 1]
<1>1. /\ c \in Caches /\ Right(c, r) /\ f \in Fields /\ f.refs \in Nat
      /\ \A p \in Resources : c.res[p].refs \in Nat
  BY DEF Good, Listed, Caches, Fields
<1>2. CASE f.refs > 1
  <2> DEFINE new == [f EXCEPT !.refs = @ - 1]
  <2>1. d = [c EXCEPT !.res[r] = new]
    BY <1>1, <1>2 DEF Unreffed, Caches
  <2>2. /\ new \in Fields /\ new.refs = f.refs - 1 /\ new.state = f.state /\ new.size = f.size
        /\ new.budgetedType = f.budgetedType /\ new.refsWrapped = f.refsWrapped
        /\ new.scratchKey = f.scratchKey /\ new.uniqueKey = f.uniqueKey /\ new.timestamp = f.timestamp
    BY <1>1, <1>2 DEF Fields
  <2>3. new.uniqueKey # Null => new.budgetedType = "Budgeted" \/ new.refsWrapped
    BY <1>1, <2>2 DEF Right, Budgeted
  <2>4. new.state # "none" /\ (new.refs = 0 <=> f.refs = 0)
    BY <1>1, <1>2, <2>2 DEF Right
  <2> DEFINE g == [c EXCEPT !.res[r] = new]
  <2> HIDE DEF new
  <2>5. Good(d) /\ Effect(c, d, r, new.refs - f.refs) /\ d.res[r] = new /\ SameRest(c, d)
    <3>1. Good(g) /\ Effect(c, g, r, new.refs - f.refs) /\ g.res[r] = new /\ SameRest(c, g)
      BY <2>2, <2>3, <2>4, PutGood
    <3> QED
      BY <2>1, <3>1
  <2> HIDE DEF d, g
  <2>6. new.refs - f.refs = -1
    BY <1>1, <2>2
  <2>7. Over(d) => Over(c)
    BY <2>5 DEF Over, OverBudget, SameRest
  <2> QED
    BY <2>2, <2>5, <2>6, <2>7 DEF d
<1>3. CASE f.refs = 1 /\ f.state = "destroyed"
  <2> DEFINE new == Nothing
  <2>1. d = [c EXCEPT !.res[r] = Nothing]
    <3>1. d = [b EXCEPT !.res[r] = Nothing]
      BY <1>3 DEF Unreffed
    <3>2. [b.res EXCEPT ![r] = Nothing] = [c.res EXCEPT ![r] = Nothing]
      BY <1>1 DEF Caches
    <3> QED
      BY <1>1, <3>1, <3>2 DEF Caches
  <2>2. 0 \in 0 .. Stamps - 1
    BY CacheAssumption, FS_CardinalityType
  <2>3. /\ new \in Fields /\ new.refs = 0 /\ new.state = "none" /\ new.uniqueKey = Null
    BY <2>2 DEF Nothing, Fields, BudgetedTypes
  <2>4. d = [c EXCEPT !.res[r] = new]
    BY <2>1
  <2> DEFINE g == [c EXCEPT !.res[r] = new]
  <2> HIDE DEF new
  <2>5. Good(d) /\ Effect(c, d, r, new.refs - f.refs) /\ d.res[r] = new /\ SameRest(c, d)
    <3>1. Good(g) /\ Effect(c, g, r, new.refs - f.refs) /\ g.res[r] = new /\ SameRest(c, g)
      BY <1>3, <2>3, PutGood
    <3> QED
      BY <2>4, <3>1
  <2> HIDE DEF d, g
  <2>6. new.refs - f.refs = -1
    BY <1>3, <2>3
  <2>7. Over(d) => Over(c)
    BY <2>5 DEF Over, OverBudget, SameRest
  <2> QED
    BY <2>3, <2>5, <2>6, <2>7 DEF d
<1>4. CASE f.refs = 1 /\ f.state = "cached"
  <2>1. d = Notified(b, r)
    BY <1>1, <1>4 DEF Unreffed
  <2>2. AfterUnref(c, r) = <<>> => ~Recyclable(c, r)
    BY <1>4 DEF AfterUnref, Purge
  <2> HIDE DEF d
  <2>3. /\ Good(d) /\ Effect(c, d, r, -1)
        /\ Over(d) /\ ~Recyclable(c, r) => Over(c)
    BY <1>4, <2>1, NotifiedGood
  <2>4. d.res[r].refs = 0
    BY <1>4, <2>3 DEF Effect
  <2> QED
    BY <1>4, <2>2, <2>3, <2>4 DEF d
<1>5. f.state # "none"
  BY <1>1 DEF Right
<1> QED
  BY <1>1, <1>2, <1>3, <1>4, <1>5 DEF Fields

(* Fields that lists, keys and totals do not depend on.                    *)
LEMMA AlikeGood ==
  ASSUME NEW c, Good(c), NEW d \in Caches, d.res = c.res, Alike(c, d),
         d.use = c.use, d.fTimestamp = c.fTimestamp
  PROVE  Good(d)
<1>1. Listed(d)
  BY AlikeListed DEF Good
<1>2. Ordered(d)
  <2>1. KeepsOrder(c, d)
    BY DEF KeepsOrder, Alike, InCache
  <2> QED
    BY <2>1, OrderKept DEF Good, Listed
<1>3. PaidFor(d)
  BY DEF Good, PaidFor, Alike, Budgeted
<1> QED
  BY <1>1, <1>2, <1>3 DEF Good

LEMMA LimitGood ==
  ASSUME NEW c, Good(c), NEW limit \in Nat
  PROVE  LET d == [c EXCEPT !.fMaxBytes = limit] IN
         /\ Good(d) /\ d.res = c.res /\ d.fTexturesAwaitingUnref = c.fTexturesAwaitingUnref
         /\ d.fPurgeableQueue = c.fPurgeableQueue
<1> DEFINE d == [c EXCEPT !.fMaxBytes = limit]
<1>1. c \in Caches
  BY DEF Good, Listed
<1>2. d \in Caches
  BY <1>1 DEF Caches
<1>3. d.res = c.res /\ d.use = c.use /\ d.fTimestamp = c.fTimestamp
      /\ d.fTexturesAwaitingUnref = c.fTexturesAwaitingUnref
  BY <1>1 DEF Caches
<1>4. /\ d.fNonpurgeableResources = c.fNonpurgeableResources
      /\ d.fPurgeableQueue = c.fPurgeableQueue
      /\ d.fScratchMap = c.fScratchMap /\ d.fUniqueHash = c.fUniqueHash
      /\ d.fBytes = c.fBytes /\ d.fBudgetedCount = c.fBudgetedCount
      /\ d.fBudgetedBytes = c.fBudgetedBytes /\ d.fPurgeableBytes = c.fPurgeableBytes
      /\ d.fNumFlushWillMakePurgeable = c.fNumFlushWillMakePurgeable
  BY <1>1 DEF Caches
<1> HIDE DEF d
<1>5. \A q \in Resources : d.res[q] = [c.res[q] EXCEPT !.timestamp = d.res[q].timestamp]
  BY <1>1, <1>3 DEF Caches, Fields
<1>6. Alike(c, d)
  BY <1>4, <1>5 DEF Alike
<1>7. Good(d)
  BY <1>2, <1>3, <1>6, AlikeGood
<1> QED
  BY <1>3, <1>4, <1>7 DEF d

LEMMA AwaitingGood ==
  ASSUME NEW c, Good(c), NEW awaited \in [Resources -> Int]
  PROVE  LET d == [c EXCEPT !.fTexturesAwaitingUnref = awaited] IN
         /\ Good(d) /\ d.res = c.res /\ d.fTexturesAwaitingUnref = awaited
         /\ d.fPurgeableQueue = c.fPurgeableQueue /\ d.fMaxBytes = c.fMaxBytes
         /\ d.fBudgetedBytes = c.fBudgetedBytes
<1> DEFINE d == [c EXCEPT !.fTexturesAwaitingUnref = awaited]
<1>1. c \in Caches
  BY DEF Good, Listed
<1>2. d \in Caches
  BY <1>1 DEF Caches
<1>3. d.res = c.res /\ d.use = c.use /\ d.fTimestamp = c.fTimestamp
      /\ d.fTexturesAwaitingUnref = awaited /\ d.fMaxBytes = c.fMaxBytes
  BY <1>1 DEF Caches
<1>4. /\ d.fNonpurgeableResources = c.fNonpurgeableResources
      /\ d.fPurgeableQueue = c.fPurgeableQueue
      /\ d.fScratchMap = c.fScratchMap /\ d.fUniqueHash = c.fUniqueHash
      /\ d.fBytes = c.fBytes /\ d.fBudgetedCount = c.fBudgetedCount
      /\ d.fBudgetedBytes = c.fBudgetedBytes /\ d.fPurgeableBytes = c.fPurgeableBytes
      /\ d.fNumFlushWillMakePurgeable = c.fNumFlushWillMakePurgeable
  BY <1>1 DEF Caches
<1> HIDE DEF d
<1>5. \A q \in Resources : d.res[q] = [c.res[q] EXCEPT !.timestamp = d.res[q].timestamp]
  BY <1>1, <1>3 DEF Caches, Fields
<1>6. Alike(c, d)
  BY <1>4, <1>5 DEF Alike
<1>7. Good(d)
  BY <1>2, <1>3, <1>6, AlikeGood
<1> QED
  BY <1>3, <1>4, <1>7 DEF d

(* One more reference to a resource that has some.                         *)
LEMMA RefGood ==
  ASSUME NEW c, Good(c), NEW r \in Resources, c.res[r].refs > 0
  PROVE  LET d == [c EXCEPT !.res[r].refs = @ + 1] IN
         /\ Good(d) /\ Effect(c, d, r, 1) /\ SameRest(c, d) /\ d.res[r].state = c.res[r].state
<1> DEFINE f == c.res[r]
           new == [f EXCEPT !.refs = @ + 1]
           d == [c EXCEPT !.res[r] = new]
<1>1. c \in Caches /\ Right(c, r) /\ f \in Fields /\ f.refs \in Nat
  BY DEF Good, Listed, Caches, Fields
<1>2. d = [c EXCEPT !.res[r].refs = @ + 1]
  BY <1>1 DEF Caches
<1>3. /\ new \in Fields /\ new.refs = f.refs + 1 /\ new.state = f.state /\ new.size = f.size
      /\ new.budgetedType = f.budgetedType /\ new.refsWrapped = f.refsWrapped
      /\ new.scratchKey = f.scratchKey /\ new.uniqueKey = f.uniqueKey /\ new.timestamp = f.timestamp
  BY <1>1 DEF Fields
<1>4. new.uniqueKey # Null => new.budgetedType = "Budgeted" \/ new.refsWrapped
  BY <1>1, <1>3 DEF Right, Budgeted
<1>5. new.state # "none" /\ (new.refs = 0 <=> f.refs = 0)
  BY <1>1, <1>3 DEF Right
<1> HIDE DEF new
<1>6. Good(d) /\ Effect(c, d, r, new.refs - f.refs) /\ d.res[r] = new /\ SameRest(c, d)
  BY <1>3, <1>4, <1>5, PutGood
<1>7. new.refs - f.refs = 1
  BY <1>1, <1>3
<1> QED
  BY <1>2, <1>3, <1>6, <1>7

-----------------------------------------------------------------------------
(* The loops over purgeable resources, one resource after another.         *)
Loops(g, c, S) == g = [s \in SUBSET S |-> IF s = {} THEN c ELSE Destroyed(g[Less(s)], Some(s))]
Loop(c, S) == CHOOSE g : Loops(g, c, S)
After(c, S) == Loop(c, S)[S]

LEMMA LoopsAre ==
  ASSUME NEW c, NEW g, NEW S, Loops(g, c, S), NEW s \in SUBSET S
  PROVE  g[s] = IF s = {} THEN c ELSE Destroyed(g[Less(s)], Some(s))
<1> DEFINE F(h) == [u \in SUBSET S |-> IF u = {} THEN c ELSE Destroyed(h[Less(u)], Some(u))]
<1>1. g = F(g)
  BY DEF Loops
<1>2. F(g)[s] = IF s = {} THEN c ELSE Destroyed(g[Less(s)], Some(s))
  OBVIOUS
<1> QED
  BY <1>1, <1>2

LEMMA LoopsAgree ==
  ASSUME NEW c, NEW S, IsFiniteSet(S), NEW T \in SUBSET S, NEW U \in SUBSET S,
         NEW g, Loops(g, c, T), NEW h, Loops(h, c, U), NEW s \in SUBSET (T \intersect U)
  PROVE  g[s] = h[s]
<1> DEFINE P == {u \in SUBSET (T \intersect U) : g[u] # h[u]}
<1>1. ASSUME P # {} PROVE FALSE
  <2>2. PICK u \in P : \A v \in P : v \subseteq u => v = u
    <3>1. P \in SUBSET SUBSET S
      OBVIOUS
    <3> HIDE DEF P
    <3> QED
      BY <1>1, <3>1, MinimalSet
  <2>3. u \in SUBSET T /\ u \in SUBSET U /\ u \subseteq T \intersect U /\ g[u] # h[u]
    OBVIOUS
  <2>4. /\ g[u] = IF u = {} THEN c ELSE Destroyed(g[Less(u)], Some(u))
        /\ h[u] = IF u = {} THEN c ELSE Destroyed(h[Less(u)], Some(u))
    BY <2>3, LoopsAre
  <2>5. u # {}
    BY <2>3, <2>4
  <2>6. Less(u) \notin P /\ Less(u) \subseteq u
    BY <2>2, <2>5, SomeIn
  <2>7. g[Less(u)] = h[Less(u)]
    BY <2>3, <2>6
  <2> QED
    BY <2>3, <2>4, <2>5, <2>7
<1> QED
  BY <1>1

LEMMA LoopExists ==
  ASSUME NEW c, NEW S, IsFiniteSet(S), NEW T \in SUBSET S
  PROVE  Loops(Loop(c, T), c, T)
<1> DEFINE P == {u \in SUBSET S : ~ \E g : Loops(g, c, u)}
<1>1. ASSUME P # {} PROVE FALSE
  <2>1. PICK u \in P : \A v \in P : v \subseteq u => v = u
    <3>1. P \in SUBSET SUBSET S
      OBVIOUS
    <3> HIDE DEF P
    <3> QED
      BY <1>1, <3>1, MinimalSet
  <2>2. \A v \in SUBSET u : v # u => Loops(Loop(c, v), c, v)
    <3> SUFFICES ASSUME NEW v \in SUBSET u, v # u PROVE Loops(Loop(c, v), c, v)
      OBVIOUS
    <3>1. \E g : Loops(g, c, v)
      BY <2>1
    <3> QED
      BY <3>1 DEF Loop
  <2> DEFINE h == [v \in SUBSET u |-> IF v = {} THEN c ELSE Destroyed(After(c, Less(v)), Some(v))]
  <2>3. ASSUME NEW v \in SUBSET u, v # u PROVE h[v] = After(c, v)
    <3>1. Loops(Loop(c, v), c, v) /\ v \in SUBSET v /\ v \in SUBSET S
      BY <2>2, <2>3
    <3>2. After(c, v) = IF v = {} THEN c ELSE Destroyed(Loop(c, v)[Less(v)], Some(v))
      BY <3>1, LoopsAre DEF After
    <3>3. ASSUME v # {} PROVE Loop(c, v)[Less(v)] = After(c, Less(v))
      <4>1. Less(v) \in SUBSET u /\ Less(v) # u /\ Less(v) \in SUBSET S /\ Less(v) \in SUBSET v
        BY <2>3, <3>1, <3>3, SomeIn
      <4>2. Loops(Loop(c, Less(v)), c, Less(v))
        BY <2>2, <4>1
      <4>3. Less(v) \in SUBSET (v \intersect Less(v))
        BY <4>1
      <4> QED
        BY <3>1, <4>1, <4>2, <4>3, LoopsAgree DEF After
    <3>4. h[v] = IF v = {} THEN c ELSE Destroyed(After(c, Less(v)), Some(v))
      OBVIOUS
    <3> HIDE DEF h
    <3> QED
      BY <3>2, <3>3, <3>4
  <2>4. \A v \in SUBSET u : v # {} => Less(v) \in SUBSET u /\ Less(v) # u
    BY SomeIn
  <2>5. h = [v \in SUBSET u |-> IF v = {} THEN c ELSE Destroyed(h[Less(v)], Some(v))]
    <3> DEFINE k == [v \in SUBSET u |-> IF v = {} THEN c ELSE Destroyed(h[Less(v)], Some(v))]
    <3>1. ASSUME NEW v \in SUBSET u PROVE h[v] = k[v]
      <4>1. v # {} => h[Less(v)] = After(c, Less(v))
        BY <2>3, <2>4
      <4>2. h[v] = IF v = {} THEN c ELSE Destroyed(After(c, Less(v)), Some(v))
        OBVIOUS
      <4>3. k[v] = IF v = {} THEN c ELSE Destroyed(h[Less(v)], Some(v))
        OBVIOUS
      <4> HIDE DEF h, k
      <4> QED
        BY <4>1, <4>2, <4>3
    <3>2. h = [v \in SUBSET u |-> h[v]] /\ k = [v \in SUBSET u |-> k[v]]
      OBVIOUS
    <3> QED
      BY <3>1, <3>2
  <2>6. Loops(h, c, u)
    BY <2>5 DEF Loops
  <2> QED
    BY <2>1, <2>6
<1>2. \E g : Loops(g, c, T)
  BY <1>1
<1> QED
  BY <1>2 DEF Loop

LEMMA AfterRec ==
  ASSUME NEW c, NEW S, IsFiniteSet(S)
  PROVE  After(c, S) = IF S = {} THEN c ELSE Destroyed(After(c, Less(S)), Some(S))
<1>1. Loops(Loop(c, S), c, S)
  BY LoopExists
<1>2. After(c, S) = IF S = {} THEN c ELSE Destroyed(Loop(c, S)[Less(S)], Some(S))
  BY <1>1, LoopsAre DEF After
<1>3. ASSUME S # {} PROVE Loop(c, S)[Less(S)] = After(c, Less(S))
  <2>1. Less(S) \in SUBSET S /\ Less(S) \in SUBSET (S \intersect Less(S))
    BY <1>3, SomeIn
  <2>2. Loops(Loop(c, Less(S)), c, Less(S))
    BY <2>1, LoopExists
  <2> QED
    BY <1>1, <2>1, <2>2, LoopsAgree DEF After
<1> QED
  BY <1>2, <1>3

LEMMA DestroyedAllIs ==
  ASSUME NEW c, NEW S, IsFiniteSet(S)
  PROVE  DestroyedAll(c, S) = After(c, S)
<1>1. DestroyedAll(c, S) = (CHOOSE g : Loops(g, c, S))[S]
  BY DEF DestroyedAll, FoldSet, MapThenFoldSet, Loops, Some, Less
<1> QED
  BY <1>1 DEF After, Loop

LEMMA DestroyedAllGood ==
  ASSUME NEW c, Good(c), NEW S \in SUBSET c.fPurgeableQueue
  PROVE  LET d == DestroyedAll(c, S) IN
         /\ Good(d) /\ Kept(c, d) /\ d.fPurgeableQueue = c.fPurgeableQueue \ S
<1> DEFINE Done(u) == /\ Good(After(c, u)) /\ Kept(c, After(c, u))
                      /\ After(c, u).fPurgeableQueue = c.fPurgeableQueue \ u
           P == {u \in SUBSET S : ~ Done(u)}
<1>1. c \in Caches /\ IsFiniteSet(S) /\ S \subseteq Resources
  <2>1. c \in Caches /\ c.fPurgeableQueue \subseteq Resources
    BY DEF Good, Listed, Caches
  <2> QED
    BY <2>1, CacheAssumption, FS_Subset
<1>2. ASSUME P # {} PROVE FALSE
  <2>1. PICK u \in P : \A v \in P : v \subseteq u => v = u
    <3>1. P \in SUBSET SUBSET S
      OBVIOUS
    <3> HIDE DEF P
    <3> QED
      BY <1>1, <1>2, <3>1, MinimalSet
  <2>2. u \in SUBSET S /\ ~ Done(u) /\ IsFiniteSet(u)
    BY <1>1, FS_Subset
  <2>3. After(c, u) = IF u = {} THEN c ELSE Destroyed(After(c, Less(u)), Some(u))
    BY <2>2, AfterRec
  <2>4. u # {}
    <3>1. Kept(c, c)
      BY <1>1, KeptSame
    <3> QED
      BY <2>2, <2>3, <3>1
  <2> DEFINE b == After(c, Less(u))
             r == Some(u)
             d == After(c, u)
  <2>5. r \in u /\ Less(u) \subseteq u /\ Less(u) # u /\ u = Less(u) \union {r}
    BY <2>4, SomeIn
  <2>6. Done(Less(u))
    BY <2>1, <2>2, <2>5
  <2>7. r \in b.fPurgeableQueue
    BY <2>2, <2>5, <2>6 DEF Less
  <2>8. d = Destroyed(b, r)
    BY <2>3, <2>4
  <2> HIDE DEF b, d, r
  <2>9. Good(b) /\ Kept(c, b) /\ b.fPurgeableQueue = c.fPurgeableQueue \ Less(u)
    BY <2>6 DEF b
  <2>10. Good(d) /\ Kept(b, d) /\ d.fPurgeableQueue = b.fPurgeableQueue \ {r}
    BY <2>7, <2>8, <2>9, PurgedKept
  <2>11. b \in Caches /\ d \in Caches
    BY <2>9, <2>10 DEF Good, Listed
  <2>12. Kept(c, d)
    BY <1>1, <2>9, <2>10, <2>11, KeptTwice
  <2>13. d.fPurgeableQueue = c.fPurgeableQueue \ u
    BY <2>5, <2>9, <2>10
  <2> QED
    BY <2>2, <2>10, <2>12, <2>13 DEF d
<1>3. Done(S)
  BY <1>2
<1> QED
  BY <1>1, <1>3, DestroyedAllIs

(* Among purgeable resources there is an oldest.                           *)
LEMMA OldestIs ==
  ASSUME NEW c \in Caches, NEW S \in SUBSET Resources, S # {}
  PROVE  Oldest(c, S) \in S
<1> DEFINE T == {c.res[r].timestamp : r \in S}
           R == OpToRel(<, Nat)
<1>1. T \subseteq Nat /\ T # {} /\ \A r \in S : c.res[r].timestamp \in T
  BY CacheAssumption, SMTT(40) DEF Caches, Fields
<1>2. \A m, n \in Nat : <<m, n>> \in R <=> m < n
  BY DEF OpToRel
<1>3. PICK n \in T : \A m \in T : <<m, n>> \notin R
  <2>1. IsWellFoundedOn(R, Nat)
    BY NatLessThanWellFounded
  <2> HIDE DEF R, T
  <2> QED
    BY <1>1, <2>1, WFMin, Zenon
<1>4. \A m \in T : n <= m
  <2> HIDE DEF R, T
  <2>1. \A m \in T : m \in Nat /\ n \in Nat /\ ~ (m < n)
    BY <1>1, <1>2, <1>3
  <2> QED
    BY <2>1
<1>5. \E r \in S : \A q \in S : c.res[r].timestamp <= c.res[q].timestamp
  BY <1>1, <1>4
<1> QED
  BY <1>5 DEF Oldest

-----------------------------------------------------------------------------
(* The calls under way.                                                    *)
FrameSet ==
  {f \in [at : Labels, keys : SUBSET UniqueKeys, textures : [Resources -> Nat],
          limit : Nat, stale : BOOLEAN] :
     f.at = "unreffed" => \E r \in Resources : f.textures = [NoTextures EXCEPT ![r] = 1]}

Calls == Seq(FrameSet)

Carried(f, label, r) == IF f.at = label THEN f.textures[r] ELSE 0
Load(s, label, r) == [i \in 1 .. Len(s) |-> Carried(s[i], label, r)]
InFrames(s, label, r) == Total(Load(s, label, r), 1 .. Len(s))

LEMMA CarriedNat ==
  ASSUME NEW f \in FrameSet, NEW label, NEW r \in Resources
  PROVE  Carried(f, label, r) \in Nat
BY DEF Carried, FrameSet

LEMMA LoadNat ==
  ASSUME NEW s \in Calls, NEW label, NEW r \in Resources
  PROVE  /\ Len(s) \in Nat
         /\ \A i \in 1 .. Len(s) : s[i] \in FrameSet /\ Load(s, label, r)[i] = Carried(s[i], label, r)
         /\ \A i \in 1 .. Len(s) : Load(s, label, r)[i] \in Nat
<1>1. Len(s) \in Nat /\ \A i \in 1 .. Len(s) : s[i] \in FrameSet
  BY ElementOfSeq, LenProperties DEF Calls
<1> QED
  BY <1>1, CarriedNat DEF Load

LEMMA FramesConcat ==
  ASSUME NEW s \in Calls, NEW t \in Calls, NEW label, NEW r \in Resources
  PROVE  /\ InFrames(s \o t, label, r) = InFrames(s, label, r) + InFrames(t, label, r)
         /\ InFrames(s, label, r) \in Nat /\ InFrames(t, label, r) \in Nat
         /\ s \o t \in Calls
<1> DEFINE W == Load(s, label, r)
           V == Load(t, label, r)
           U == Load(s \o t, label, r)
           m == Len(s)
           n == Len(t)
           c == s \o t
<1>1. /\ s \o t \in Calls /\ Len(s \o t) = m + n
      /\ \A i \in 1 .. (m + n) : (s \o t)[i] = IF i <= m THEN s[i] ELSE t[i - m]
  BY ConcatProperties DEF Calls
<1>2. /\ m \in Nat /\ n \in Nat
      /\ \A i \in 1 .. m : W[i] = Carried(s[i], label, r) /\ W[i] \in Nat
      /\ \A i \in 1 .. n : V[i] = Carried(t[i], label, r) /\ V[i] \in Nat
  BY LoadNat
<1>3. \A i \in 1 .. (m + n) : U[i] = Carried(c[i], label, r)
  <2>1. c \in Calls /\ Len(c) = m + n
    BY <1>1
  <2> HIDE DEF c
  <2>2. \A i \in 1 .. Len(c) : Load(c, label, r)[i] = Carried(c[i], label, r)
    BY <2>1, LoadNat
  <2> QED
    BY <2>1, <2>2 DEF c
<1> HIDE DEF W, V, U, m, n
<1>4. \A i \in 1 .. m : W[i] \in Nat /\ U[i] = W[i]
  <2> SUFFICES ASSUME NEW i \in 1 .. m PROVE W[i] \in Nat /\ U[i] = W[i]
    OBVIOUS
  <2>1. i \in 1 .. (m + n) /\ i <= m
    BY <1>2
  <2> QED
    BY <1>1, <1>2, <1>3, <2>1
<1>5. \A i \in 1 .. n : V[i] \in Nat /\ U[m + i] = V[i]
  <2> SUFFICES ASSUME NEW i \in 1 .. n PROVE V[i] \in Nat /\ U[m + i] = V[i]
    OBVIOUS
  <2>1. m + i \in 1 .. (m + n) /\ ~ (m + i <= m) /\ (m + i) - m = i
    BY <1>2
  <2> QED
    BY <1>1, <1>2, <1>3, <2>1
<1>6. /\ Total(U, 1 .. (m + n)) = Total(W, 1 .. m) + Total(V, 1 .. n)
      /\ Total(W, 1 .. m) \in Nat /\ Total(V, 1 .. n) \in Nat
  <2>1. EndToEnd(U, W, V, m, n)
    BY <1>4, <1>5 DEF EndToEnd, Shifted
  <2>2. m + n \in Nat
    BY <1>2
  <2> QED
    BY <1>2, <2>1, <2>2, TotalConcat
<1> QED
  BY <1>1, <1>6 DEF InFrames, W, V, U, m, n

LEMMA FramesEmpty ==
  ASSUME NEW label, NEW r
  PROVE  InFrames(<<>>, label, r) = 0
<1>1. 1 .. Len(<<>>) = {}
  OBVIOUS
<1> QED
  BY <1>1, TotalEmpty DEF InFrames

LEMMA FramesOne ==
  ASSUME NEW f \in FrameSet, NEW label, NEW r \in Resources
  PROVE  <<f>> \in Calls /\ InFrames(<<f>>, label, r) = Carried(f, label, r)
<1> DEFINE W == Load(<<f>>, label, r)
<1>1. <<f>> \in Calls /\ Len(<<f>>) = 1 /\ <<f>>[1] = f /\ 1 .. 1 = {1}
  BY DEF Calls
<1>2. W[1] = Carried(f, label, r) /\ W[1] \in Nat
  BY <1>1, LoadNat
<1> HIDE DEF W
<1>3. Total(W, {} \union {1}) = W[1] + Total(W, {})
  BY <1>2, FS_EmptySet, TotalAdd
<1>4. Total(W, {}) = 0 /\ {} \union {1} = {1}
  BY TotalEmpty
<1> QED
  BY <1>1, <1>2, <1>3, <1>4 DEF InFrames, W

LEMMA FramesPop ==
  ASSUME NEW s \in Calls, s # <<>>
  PROVE  /\ Head(s) \in FrameSet /\ Tail(s) \in Calls /\ s = <<Head(s)>> \o Tail(s)
         /\ Len(Tail(s)) = Len(s) - 1 /\ Len(s) \in Nat \ {0} /\ Head(s) = s[1]
         /\ \A label : \A r \in Resources :
              /\ InFrames(s, label, r) = Carried(Head(s), label, r) + InFrames(Tail(s), label, r)
              /\ Carried(Head(s), label, r) \in Nat /\ InFrames(Tail(s), label, r) \in Nat
<1>1. /\ Head(s) \in FrameSet /\ Tail(s) \in Calls /\ s = <<Head(s)>> \o Tail(s)
      /\ Len(Tail(s)) = Len(s) - 1 /\ Len(s) \in Nat \ {0} /\ Head(s) = s[1]
  BY HeadTailProperties, LenProperties, ElementOfSeq, EmptySeq DEF Calls
<1> SUFFICES ASSUME NEW label, NEW r \in Resources
             PROVE  /\ InFrames(s, label, r) = Carried(Head(s), label, r) + InFrames(Tail(s), label, r)
                    /\ Carried(Head(s), label, r) \in Nat /\ InFrames(Tail(s), label, r) \in Nat
  BY <1>1
<1> DEFINE h == <<Head(s)>>
           t == Tail(s)
<1>2. h \in Calls /\ InFrames(h, label, r) = Carried(Head(s), label, r)
  BY <1>1, FramesOne
<1>3. /\ InFrames(h \o t, label, r) = InFrames(h, label, r) + InFrames(t, label, r)
      /\ InFrames(h, label, r) \in Nat /\ InFrames(t, label, r) \in Nat
  BY <1>1, <1>2, FramesConcat
<1> QED
  BY <1>1, <1>2, <1>3

(* Where a call may be, by how many calls are below it.                    *)
Plain == {"pollInvalid", "invalid", "pollFreed", "freed", "unreffed", "purgeLoop"}
Allowed(ended, j) ==
  IF ended
    THEN IF j = 0 THEN {"destroyAll"} ELSE IF j = 1 THEN {"resetAwaiting", "reset"} ELSE Plain
    ELSE IF j = 0 THEN {"purgeLoop", "purged"} ELSE Plain
Shaped(s, ended) == \A i \in 1 .. Len(s) : s[i].at \in Allowed(ended, Len(s) - i)

(* The table of textures that await a message has yet to be reset.         *)
Resets(s) == \E i \in 1 .. Len(s) : s[i].at = "resetAwaiting"

LEMMA PutOn ==
  ASSUME NEW f \in FrameSet, NEW t \in Calls
  PROVE  LET s == <<f>> \o t IN
         /\ s \in Calls /\ s # <<>> /\ Head(s) = f /\ Tail(s) = t
         /\ Len(s) = Len(t) + 1 /\ Len(t) \in Nat
         /\ \A label : \A r \in Resources :
              /\ InFrames(s, label, r) = Carried(f, label, r) + InFrames(t, label, r)
              /\ Carried(f, label, r) \in Nat /\ InFrames(t, label, r) \in Nat
         /\ \A ended \in BOOLEAN :
              Shaped(s, ended) <=> Shaped(t, ended) /\ f.at \in Allowed(ended, Len(t))
         /\ Resets(s) <=> f.at = "resetAwaiting" \/ Resets(t)
<1> DEFINE h == <<f>>
           s == h \o t
           n == Len(t)
<1>1. h \in Calls /\ Len(h) = 1 /\ h[1] = f /\ n \in Nat
  BY LenProperties DEF Calls
<1>2. /\ s \in Calls /\ Len(s) = n + 1 /\ s # <<>> /\ Head(s) = f /\ Tail(s) = t
      /\ \A i \in 1 .. (n + 1) : s[i] = IF i <= 1 THEN h[i] ELSE t[i - 1]
  <2>1. /\ s \in Calls /\ Len(s) = n + 1
        /\ \A i \in 1 .. (n + 1) : s[i] = IF i <= 1 THEN h[i] ELSE t[i - 1]
    BY <1>1, ConcatProperties DEF Calls
  <2>2. s # <<>> /\ Head(s) = f /\ Tail(s) = t
    BY <1>1, <2>1 DEF Calls
  <2> QED
    BY <2>1, <2>2
<1>3. /\ s[1] = f /\ \A i \in 1 .. n : i + 1 \in 1 .. Len(s) /\ s[i + 1] = t[i]
      /\ \A i \in 1 .. Len(s) : i = 1 \/ (i - 1 \in 1 .. n /\ s[i] = t[i - 1])
  <2>1. 1 \in 1 .. (n + 1)
    BY <1>1
  <2>2. \A i \in 1 .. n : i + 1 \in 1 .. (n + 1) /\ ~ (i + 1 <= 1) /\ (i + 1) - 1 = i
    BY <1>1
  <2>3. \A i \in 1 .. (n + 1) : i = 1 \/ (i - 1 \in 1 .. n /\ ~ (i <= 1))
    BY <1>1
  <2> HIDE DEF s, n, h
  <2>4. Len(s) = n + 1 /\ \A i \in 1 .. (n + 1) : s[i] = IF i <= 1 THEN h[i] ELSE t[i - 1]
    BY <1>2
  <2>5. s[1] = f
    BY <1>1, <2>1, <2>4
  <2>6. \A i \in 1 .. n : i + 1 \in 1 .. Len(s) /\ s[i + 1] = t[i]
    <3> SUFFICES ASSUME NEW i \in 1 .. n PROVE i + 1 \in 1 .. Len(s) /\ s[i + 1] = t[i]
      OBVIOUS
    <3>1. i + 1 \in 1 .. (n + 1) /\ ~ (i + 1 <= 1) /\ (i + 1) - 1 = i
      BY <2>2
    <3>2. s[i + 1] = t[(i + 1) - 1]
      BY <2>4, <3>1
    <3> QED
      BY <2>4, <3>1, <3>2
  <2>7. \A i \in 1 .. Len(s) : i = 1 \/ (i - 1 \in 1 .. n /\ s[i] = t[i - 1])
    <3>1. ASSUME NEW i \in 1 .. (n + 1), i # 1 PROVE i - 1 \in 1 .. n /\ s[i] = t[i - 1]
      <4>1. i - 1 \in 1 .. n /\ ~ (i <= 1)
        BY <2>3, <3>1
      <4> QED
        BY <2>4, <4>1
    <3>2. Len(s) = n + 1
      BY <2>4
    <3> QED
      BY <3>1, <3>2
  <2> QED
    BY <2>5, <2>6, <2>7
<1>4. \A label : \A r \in Resources :
        /\ InFrames(s, label, r) = Carried(f, label, r) + InFrames(t, label, r)
        /\ Carried(f, label, r) \in Nat /\ InFrames(t, label, r) \in Nat
  BY <1>1, FramesConcat, FramesOne
<1>5. Resets(s) <=> f.at = "resetAwaiting" \/ Resets(t)
  <2> HIDE DEF s, h
  <2>1. 1 \in 1 .. Len(s)
    BY <1>1, <1>2
  <2>2. Resets(s) => f.at = "resetAwaiting" \/ Resets(t)
    BY <1>3 DEF Resets
  <2>3. Resets(t) => Resets(s)
    BY <1>3 DEF Resets
  <2>4. f.at = "resetAwaiting" => Resets(s)
    BY <1>3, <2>1 DEF Resets
  <2> QED
    BY <2>2, <2>3, <2>4
<1>6. \A ended \in BOOLEAN :
        Shaped(s, ended) <=> Shaped(t, ended) /\ f.at \in Allowed(ended, n)
  <2> SUFFICES ASSUME NEW ended \in BOOLEAN
               PROVE  Shaped(s, ended) <=> Shaped(t, ended) /\ f.at \in Allowed(ended, n)
    OBVIOUS
  <2> HIDE DEF s, h, n
  <2>1. 1 \in 1 .. Len(s) /\ Len(s) - 1 = n
    BY <1>1, <1>2
  <2>2. \A i \in 1 .. n : Len(s) - (i + 1) = n - i
    BY <1>1, <1>2
  <2>3. \A i \in 1 .. Len(s) : Len(s) - i = n - (i - 1)
    BY <1>1, <1>2
  <2>4. Shaped(t, ended) <=> \A i \in 1 .. n : t[i].at \in Allowed(ended, n - i)
    BY DEF Shaped, n
  <2>5. Shaped(s, ended) <=> \A i \in 1 .. Len(s) : s[i].at \in Allowed(ended, Len(s) - i)
    BY DEF Shaped
  <2>6. ASSUME Shaped(s, ended) PROVE f.at \in Allowed(ended, n)
    BY <1>3, <2>1, <2>5, <2>6
  <2>7. ASSUME Shaped(s, ended), NEW i \in 1 .. n PROVE t[i].at \in Allowed(ended, n - i)
    <3>1. i + 1 \in 1 .. Len(s) /\ s[i + 1] = t[i] /\ Len(s) - (i + 1) = n - i
      BY <1>3, <2>2
    <3> QED
      BY <2>5, <2>7, <3>1
  <2>8. ASSUME Shaped(t, ended), f.at \in Allowed(ended, n), NEW i \in 1 .. Len(s)
        PROVE  s[i].at \in Allowed(ended, Len(s) - i)
    <3>1. CASE i = 1
      BY <1>3, <2>1, <2>8, <3>1
    <3>2. CASE i # 1
      <4>1. i - 1 \in 1 .. n /\ s[i] = t[i - 1] /\ Len(s) - i = n - (i - 1)
        BY <1>3, <2>3, <3>2
      <4> QED
        BY <2>4, <2>8, <4>1
    <3> QED
      BY <3>1, <3>2
  <2> QED
    BY <2>4, <2>5, <2>6, <2>7, <2>8
<1> QED
  BY <1>1, <1>2, <1>4, <1>5, <1>6

LEMMA FramesTyped ==
  /\ NoTextures \in [Resources -> Nat] /\ \A r \in Resources : NoTextures[r] = 0
  /\ \A label \in Labels \ {"unreffed"} :
       Frame(label) \in FrameSet /\ Frame(label).at = label
       /\ \A l : \A r \in Resources : Carried(Frame(label), l, r) = 0
<1>1. NoTextures \in [Resources -> Nat] /\ \A r \in Resources : NoTextures[r] = 0
  BY DEF NoTextures
<1> SUFFICES ASSUME NEW label \in Labels \ {"unreffed"}
             PROVE  /\ Frame(label) \in FrameSet /\ Frame(label).at = label
                    /\ \A l : \A r \in Resources : Carried(Frame(label), l, r) = 0
  BY <1>1
<1> DEFINE f == Frame(label)
<1>2. f = [at |-> label, keys |-> {}, textures |-> NoTextures, limit |-> 0, stale |-> FALSE]
  BY DEF Frame
<1>3. f \in FrameSet
  BY <1>1, <1>2 DEF FrameSet
<1>4. f.at = label /\ f.textures = NoTextures
  BY <1>2
<1> HIDE DEF f
<1>5. \A l : \A r \in Resources : Carried(f, l, r) = 0
  BY <1>1, <1>4 DEF Carried
<1> QED
  BY <1>3, <1>4, <1>5 DEF f

LEMMA PairIs ==
  ASSUME NEW f \in FrameSet, NEW g \in FrameSet
  PROVE  <<f>> \o <<g>> = <<f, g>>
<1>1. <<f>> \in Seq(FrameSet) /\ <<g>> \in Seq(FrameSet) /\ <<f, g>> \in Seq(FrameSet)
      /\ Len(<<f>>) = 1 /\ Len(<<g>>) = 1 /\ Len(<<f, g>>) = 2
      /\ <<f>>[1] = f /\ <<g>>[1] = g /\ <<f, g>>[1] = f /\ <<f, g>>[2] = g
  OBVIOUS
<1> DEFINE a == <<f>>
           b == <<g>>
           c == <<f, g>>
<1> HIDE DEF a, b, c
<1>2. /\ a \o b \in Seq(FrameSet) /\ Len(a \o b) = 2
      /\ \A i \in 1 .. 2 : (a \o b)[i] = IF i <= 1 THEN a[i] ELSE b[i - 1]
  BY <1>1, ConcatProperties DEF a, b
<1>3. (a \o b)[1] = c[1] /\ (a \o b)[2] = c[2]
  BY <1>1, <1>2 DEF a, b, c
<1>4. \A i \in 1 .. Len(c) : (a \o b)[i] = c[i]
  <2>1. Len(c) = 2 /\ \A i \in 1 .. 2 : i = 1 \/ i = 2
    BY <1>1 DEF c
  <2> QED
    BY <1>3, <2>1
<1> QED
  BY <1>1, <1>2, <1>4, SeqEqual DEF a, b, c

LEMMA TripleIs ==
  ASSUME NEW f \in FrameSet, NEW g \in FrameSet, NEW h \in FrameSet
  PROVE  <<f>> \o <<g, h>> = <<f, g, h>>
<1> DEFINE a == <<f>>
           b == <<g, h>>
           c == <<f, g, h>>
<1>1. a \in Seq(FrameSet) /\ b \in Seq(FrameSet) /\ c \in Seq(FrameSet)
      /\ Len(a) = 1 /\ Len(b) = 2 /\ Len(c) = 3
      /\ a[1] = f /\ b[1] = g /\ b[2] = h /\ c[1] = f /\ c[2] = g /\ c[3] = h
  OBVIOUS
<1> HIDE DEF a, b, c
<1>2. /\ a \o b \in Seq(FrameSet) /\ Len(a \o b) = 3
      /\ \A i \in 1 .. 3 : (a \o b)[i] = IF i <= 1 THEN a[i] ELSE b[i - 1]
  <2>1. /\ a \o b \in Seq(FrameSet) /\ Len(a \o b) = Len(a) + Len(b)
        /\ \A i \in 1 .. Len(a) + Len(b) : (a \o b)[i] = IF i <= Len(a) THEN a[i] ELSE b[i - Len(a)]
    BY <1>1, ConcatProperties
  <2>2. Len(a) + Len(b) = 3
    BY <1>1
  <2> QED
    BY <1>1, <2>1, <2>2
<1>3. (a \o b)[1] = c[1] /\ (a \o b)[2] = c[2] /\ (a \o b)[3] = c[3]
  BY <1>1, <1>2
<1>4. \A i \in 1 .. Len(c) : (a \o b)[i] = c[i]
  <2>1. Len(c) = 3 /\ \A i \in 1 .. 3 : i = 1 \/ i = 2 \/ i = 3
    BY <1>1
  <2> QED
    BY <1>3, <2>1
<1> QED
  BY <1>1, <1>2, <1>4, SeqEqual DEF a, b, c

LEMMA PurgePushed ==
  ASSUME NEW q \in {<<>>, Purge}, NEW t \in Calls
  PROVE  LET s == q \o t IN
         /\ s \in Calls /\ (q = <<>> => s = t) /\ (q # <<>> => s # <<>>)
         /\ \A label : \A r \in Resources : InFrames(s, label, r) = InFrames(t, label, r)
         /\ Resets(s) <=> Resets(t)
         /\ Shaped(t, FALSE) => Shaped(s, FALSE)
         /\ Shaped(t, TRUE) /\ Len(t) >= 2 => Shaped(s, TRUE)
<1> DEFINE f1 == Frame("pollInvalid")
           f2 == Frame("pollFreed")
           f3 == Frame("purgeLoop")
           t3 == <<f3>> \o t
           t2 == <<f2>> \o t3
           t1 == <<f1>> \o t2
<1>1. CASE q = <<>>
  <2>1. <<>> \o t = t
    BY ConcatEmptySeq DEF Calls
  <2> QED
    BY <1>1, <2>1
<1>2. CASE q = Purge
  <2>1. /\ f1 \in FrameSet /\ f2 \in FrameSet /\ f3 \in FrameSet
        /\ f1.at = "pollInvalid" /\ f2.at = "pollFreed" /\ f3.at = "purgeLoop"
        /\ \A l : \A r \in Resources :
             Carried(f1, l, r) = 0 /\ Carried(f2, l, r) = 0 /\ Carried(f3, l, r) = 0
    BY FramesTyped DEF Labels
  <2> HIDE DEF f1, f2, f3
  <2>2. q \o t = t1
    <3> DEFINE h1 == <<f1>>
               h2 == <<f2>>
               h3 == <<f3>>
    <3>1. h1 \in Seq(FrameSet) /\ h2 \in Seq(FrameSet) /\ h3 \in Seq(FrameSet) /\ t \in Seq(FrameSet)
      BY <2>1 DEF Calls
    <3>2. q = h1 \o (h2 \o h3)
      <4>1. q = <<f1, f2, f3>>
        BY <1>2 DEF Purge, f1, f2, f3
      <4>2. h2 \o h3 = <<f2, f3>>
        BY <2>1, PairIs
      <4>3. h1 \o <<f2, f3>> = <<f1, f2, f3>>
        BY <2>1, TripleIs
      <4> QED
        BY <4>1, <4>2, <4>3
    <3> HIDE DEF h1, h2, h3
    <3> DEFINE h == h2 \o h3
    <3>3. h \in Seq(FrameSet)
      BY <3>1, ConcatProperties
    <3>4. h \o t = h2 \o (h3 \o t)
      BY <3>1, ConcatAssociative
    <3> HIDE DEF h
    <3>5. (h1 \o h) \o t = h1 \o (h \o t)
      BY <3>1, <3>3, ConcatAssociative, SMTT(30)
    <3> QED
      BY <3>2, <3>4, <3>5 DEF h, h1, h2, h3
  <2>3. /\ t3 \in Calls /\ Len(t3) = Len(t) + 1 /\ Len(t) \in Nat
        /\ \A l : \A r \in Resources : InFrames(t3, l, r) = 0 + InFrames(t, l, r) /\ InFrames(t, l, r) \in Nat
        /\ \A e \in BOOLEAN : Shaped(t3, e) <=> Shaped(t, e) /\ "purgeLoop" \in Allowed(e, Len(t))
        /\ Resets(t3) <=> Resets(t)
    BY <2>1, PutOn
  <2> HIDE DEF t3
  <2>4. /\ t2 \in Calls /\ Len(t2) = Len(t3) + 1 /\ Len(t3) \in Nat
        /\ \A l : \A r \in Resources : InFrames(t2, l, r) = 0 + InFrames(t3, l, r) /\ InFrames(t3, l, r) \in Nat
        /\ \A e \in BOOLEAN : Shaped(t2, e) <=> Shaped(t3, e) /\ "pollFreed" \in Allowed(e, Len(t3))
        /\ Resets(t2) <=> Resets(t3)
    BY <2>1, <2>3, PutOn
  <2> HIDE DEF t2
  <2>5. /\ t1 \in Calls /\ Len(t1) = Len(t2) + 1 /\ Len(t2) \in Nat /\ t1 # <<>>
        /\ \A l : \A r \in Resources : InFrames(t1, l, r) = 0 + InFrames(t2, l, r) /\ InFrames(t2, l, r) \in Nat
        /\ \A e \in BOOLEAN : Shaped(t1, e) <=> Shaped(t2, e) /\ "pollInvalid" \in Allowed(e, Len(t2))
        /\ Resets(t1) <=> Resets(t2)
    BY <2>1, <2>4, PutOn
  <2> HIDE DEF t1
  <2>6. \A l : \A r \in Resources : InFrames(t1, l, r) = InFrames(t, l, r)
    BY <2>3, <2>4, <2>5
  <2>7. /\ Len(t3) >= 1 /\ Len(t2) >= 2
        /\ Len(t) = 0 \/ Len(t) >= 1
    BY <2>3, <2>4
  <2>8. Shaped(t, FALSE) => Shaped(t1, FALSE)
    <3>1. \A j : "purgeLoop" \in Allowed(FALSE, j)
      BY DEF Allowed, Plain
    <3>2. \A j : j # 0 => "pollFreed" \in Allowed(FALSE, j) /\ "pollInvalid" \in Allowed(FALSE, j)
      BY DEF Allowed, Plain
    <3>3. Len(t3) # 0 /\ Len(t2) # 0
      BY <2>3, <2>4
    <3> QED
      BY <2>3, <2>4, <2>5, <3>1, <3>2, <3>3
  <2>9. Shaped(t, TRUE) /\ Len(t) >= 2 => Shaped(t1, TRUE)
    <3>1. \A j : j # 0 /\ j # 1 => Plain \subseteq Allowed(TRUE, j)
      BY DEF Allowed
    <3>2. {"purgeLoop", "pollFreed", "pollInvalid"} \subseteq Plain
      BY DEF Plain
    <3> HAVE Shaped(t, TRUE) /\ Len(t) >= 2
    <3>3. Len(t) # 0 /\ Len(t) # 1 /\ Len(t3) # 0 /\ Len(t3) # 1 /\ Len(t2) # 0 /\ Len(t2) # 1
      <4>1. Len(t) \in Nat /\ Len(t3) = Len(t) + 1 /\ Len(t2) = Len(t3) + 1 /\ Len(t) >= 2
        BY <2>3, <2>4
      <4> DEFINE n == Len(t)
                 n2 == Len(t2)
                 n3 == Len(t3)
      <4>2. n \in Nat /\ n3 = n + 1 /\ n2 = n3 + 1 /\ n >= 2
        BY <4>1
      <4> HIDE DEF n, n2, n3
      <4>3. n # 0 /\ n # 1 /\ n3 # 0 /\ n3 # 1 /\ n2 # 0 /\ n2 # 1
        BY <4>2
      <4> QED
        BY <4>3 DEF n, n2, n3
    <3> QED
      BY <2>3, <2>4, <2>5, <3>1, <3>2, <3>3
  <2>10. q # <<>>
    BY <1>2 DEF Purge
  <2> QED
    BY <2>2, <2>3, <2>4, <2>5, <2>6, <2>8, <2>9, <2>10
<1> QED
  BY <1>1, <1>2

LEMMA InCallsAre ==
  ASSUME calls \in Calls, NEW label, NEW r \in Resources
  PROVE  InCalls(label, r) = InFrames(calls, label, r)
<1> DEFINE S == 1 .. Len(calls)
           W == Load(calls, label, r)
<1>1. DOMAIN calls = S /\ IsFiniteSet(S)
  BY LenProperties, FS_Interval DEF Calls
<1>2. \A i \in S : W[i] = IF calls[i].at = label THEN calls[i].textures[r] ELSE 0
  BY DEF Load, Carried
<1> DEFINE G(g) == g = [s \in SUBSET S |->
                          IF s = {} THEN 0
                          ELSE (IF calls[Some(s)].at = label THEN calls[Some(s)].textures[r] ELSE 0) + g[Less(s)]]
<1>3. InCalls(label, r) = (CHOOSE g : G(g))[S]
  BY <1>1 DEF InCalls, MapThenSumSet, MapThenFoldSet, Some, Less
<1>4. \A g : G(g) <=> Folds(g, W, S)
  <2> SUFFICES ASSUME NEW g PROVE G(g) <=> Folds(g, W, S)
    OBVIOUS
  <2>1. \A s \in SUBSET S : s # {} => Some(s) \in S
    BY SomeIn
  <2> HIDE DEF W, S
  <2>2. [s \in SUBSET S |-> IF s = {} THEN 0
                          ELSE (IF calls[Some(s)].at = label THEN calls[Some(s)].textures[r] ELSE 0) + g[Less(s)]]
        = [s \in SUBSET S |-> IF s = {} THEN 0 ELSE W[Some(s)] + g[Less(s)]]
    BY <1>2, <2>1
  <2> QED
    BY <2>2 DEF Folds
<1> HIDE DEF W, S, G
<1>5. Folds(Fold(W, S), W, S)
  BY <1>1, FoldExists
<1>6. \E g : G(g)
  BY <1>4, <1>5
<1>7. G(CHOOSE g : G(g))
  BY <1>6, Zenon
<1>8. Folds(CHOOSE g : G(g), W, S)
  BY <1>4, <1>7
<1> QED
  BY <1>1, <1>3, <1>8, TotalIsFold DEF InFrames, W, S

-----------------------------------------------------------------------------
(* The references to a texture that are for messages: W are awaited, and U *)
(* of these are gone already; X were awaited when the table was reset. The *)
(* rest are the owner's. Of the messages, m have not been taken from the   *)
(* inbox, and F have.                                                      *)
Balance(refs, W, U, X, F, m, awaits) ==
  /\ W \in Nat /\ U \in Nat /\ X \in Nat /\ F \in Nat /\ m \in Nat
  /\ U <= W /\ refs - (W - U + X) \in 0 .. MaxRefs
  /\ W + X <= MaxOwed /\ m <= MaxOwed
  /\ IF awaits THEN m + F + U <= W ELSE W = 0 /\ F = 0 /\ U = 0

(* What is left of that for a texture that has been counted wrongly.       *)
Bounded(refs, W, U, X, F, m, awaits) ==
  /\ W \in Nat /\ U \in Nat /\ X \in Nat /\ F \in Nat /\ m \in Nat
  /\ refs \in 0 .. MaxRefs + MaxOwed
  /\ W + X <= MaxOwed /\ m <= MaxOwed
  /\ ~awaits => W = 0 /\ F = 0 /\ U = 0

Account(refs, W, U, X, F, m, awaits, off) ==
  IF off THEN Bounded(refs, W, U, X, F, m, awaits) ELSE Balance(refs, W, U, X, F, m, awaits)

Balanced(c, s, sent, awaits, r) ==
  Account(c.res[r].refs, c.fTexturesAwaitingUnref[r], InFrames(s, "unreffed", r),
          InFrames(s, "reset", r), InFrames(s, "freed", r), sent[r].n, awaits, sent[r].off)

(* References the owner may give a texture of which W messages are awaited *)
(* while no call is under way.                                             *)
Bearable(refs, W, off) ==
  IF off THEN refs \in 0 .. MaxRefs + MaxOwed ELSE refs - W \in 0 .. MaxRefs

LEMMA BoundsAre ==
  MaxOwed \in Nat /\ MaxRefs \in Nat \ {0} /\ Null \notin Resources
BY CacheAssumption

LEMMA BalanceBounds ==
  ASSUME NEW refs \in Nat, NEW W, NEW U, NEW X, NEW F, NEW m, NEW awaits \in BOOLEAN,
         NEW off \in BOOLEAN, Account(refs, W, U, X, F, m, awaits, off)
  PROVE  Bounded(refs, W, U, X, F, m, awaits)
BY BoundsAre DEF Account, Balance, Bounded

(* The invariant, of a cache, the calls under way, the messages sent and   *)
(* whether a texture is counted wrongly, and whether the context is gone.  *)
Fits(c, s, sent, ended) ==
  /\ Good(c) /\ s \in Calls /\ Shaped(s, ended)
  /\ \A r \in Resources : Balanced(c, s, sent, ~ended \/ Resets(s), r)
  /\ ended /\ s = <<>> => InCache(c) = {}

LEMMA CallReturned ==
  ASSUME NEW s \in Calls, s # <<>>, NEW ended \in BOOLEAN, Shaped(s, ended)
  PROVE  LET h == Head(s)
             t == Tail(s)
         IN
         /\ h \in FrameSet /\ t \in Calls /\ Shaped(t, ended)
         /\ h.at \in Allowed(ended, Len(t)) /\ Len(t) \in Nat
         /\ h.at # "resetAwaiting" => (Resets(s) <=> Resets(t))
         /\ h.at = "resetAwaiting" => Resets(s)
         /\ \A l : \A r \in Resources :
              /\ InFrames(s, l, r) = Carried(h, l, r) + InFrames(t, l, r)
              /\ Carried(h, l, r) \in Nat /\ InFrames(t, l, r) \in Nat /\ InFrames(s, l, r) \in Nat
<1> DEFINE h == Head(s)
           t == Tail(s)
           z == <<h>> \o t
<1>1. h \in FrameSet /\ t \in Calls /\ s = z
  BY FramesPop
<1> HIDE DEF h, t
<1>2. /\ Len(t) \in Nat
      /\ \A l : \A r \in Resources :
           /\ InFrames(z, l, r) = Carried(h, l, r) + InFrames(t, l, r)
           /\ Carried(h, l, r) \in Nat /\ InFrames(t, l, r) \in Nat
      /\ Shaped(z, ended) <=> Shaped(t, ended) /\ h.at \in Allowed(ended, Len(t))
      /\ Resets(z) <=> h.at = "resetAwaiting" \/ Resets(t)
  BY <1>1, PutOn
<1> HIDE DEF z
<1>3. \A l : \A r \in Resources : InFrames(s, l, r) \in Nat
  BY <1>1, <1>2
<1> QED
  BY <1>1, <1>2, <1>3 DEF h, t

(* The call on top goes on as f, perhaps after a purge.                    *)
MayGoOn(s, f) ==
  /\ Head(s).at # "resetAwaiting" /\ f.at # "resetAwaiting" /\ f.at # "destroyAll"
  /\ f.at = Head(s).at \/ (f.at \in Plain /\ Head(s).at \in Plain \ {"purgeLoop"})

WentOn(u, s, f, ended) ==
  /\ u \in Calls /\ u # <<>> /\ Shaped(u, ended)
  /\ Resets(u) <=> Resets(s)
  /\ \A l : \A r \in Resources :
       /\ InFrames(u, l, r) = InFrames(s, l, r) - Carried(Head(s), l, r) + Carried(f, l, r)
       /\ Carried(Head(s), l, r) \in Nat /\ Carried(f, l, r) \in Nat
       /\ InFrames(s, l, r) \in Nat /\ Carried(Head(s), l, r) <= InFrames(s, l, r)

LEMMA CallGoesOn ==
  ASSUME NEW s \in Calls, s # <<>>, NEW ended \in BOOLEAN, Shaped(s, ended),
         NEW q \in {<<>>, Purge}, NEW f \in FrameSet,
         MayGoOn(s, f)
  PROVE  WentOn(q \o (<<f>> \o Tail(s)), s, f, ended)
<1> DEFINE h == Head(s)
           t == Tail(s)
           z == <<f>> \o t
           u == q \o z
<1>0. /\ Head(s).at # "resetAwaiting" /\ f.at # "resetAwaiting" /\ f.at # "destroyAll"
      /\ f.at = Head(s).at \/ (f.at \in Plain /\ Head(s).at \in Plain \ {"purgeLoop"})
  BY DEF MayGoOn
<1>1. /\ h \in FrameSet /\ t \in Calls /\ Shaped(t, ended)
      /\ h.at \in Allowed(ended, Len(t)) /\ Len(t) \in Nat
      /\ Resets(s) <=> Resets(t)
      /\ \A l : \A r \in Resources :
           /\ InFrames(s, l, r) = Carried(h, l, r) + InFrames(t, l, r)
           /\ Carried(h, l, r) \in Nat /\ InFrames(t, l, r) \in Nat /\ InFrames(s, l, r) \in Nat
  BY <1>0, CallReturned
<1>2. f.at \in Allowed(ended, Len(t))
  <2>1. CASE f.at = Head(s).at
    BY <1>1, <2>1
  <2>2. CASE f.at \in Plain /\ Head(s).at \in Plain \ {"purgeLoop"}
    BY <1>1, <2>2 DEF Allowed, Plain
  <2> QED
    BY <1>0, <2>1, <2>2
<1>3. ended => Len(t) # 0
  BY <1>0, <1>2 DEF Allowed
<1> HIDE DEF h, t
<1>4. /\ z \in Calls /\ z # <<>> /\ Len(z) = Len(t) + 1
      /\ \A l : \A r \in Resources :
           /\ InFrames(z, l, r) = Carried(f, l, r) + InFrames(t, l, r)
           /\ Carried(f, l, r) \in Nat
      /\ Shaped(z, ended) /\ (Resets(z) <=> Resets(t))
  BY <1>0, <1>1, <1>2, PutOn
<1> HIDE DEF z
<1>5. ended => Len(z) >= 2
  <2> DEFINE n == Len(t)
             k == Len(z)
  <2>1. n \in Nat /\ k = n + 1 /\ (ended => n # 0)
    BY <1>1, <1>3, <1>4
  <2> HIDE DEF n, k
  <2>2. ended => k >= 2
    BY <2>1
  <2> QED
    BY <2>2 DEF k
<1>6. /\ u \in Calls /\ (q = <<>> => u = z) /\ (q # <<>> => u # <<>>)
      /\ \A l : \A r \in Resources : InFrames(u, l, r) = InFrames(z, l, r)
      /\ Resets(u) <=> Resets(z)
      /\ Shaped(u, ended)
  BY <1>4, <1>5, PurgePushed
<1> HIDE DEF u
<1>7. \A l : \A r \in Resources :
        /\ InFrames(u, l, r) = InFrames(s, l, r) - Carried(h, l, r) + Carried(f, l, r)
        /\ Carried(h, l, r) \in Nat /\ Carried(f, l, r) \in Nat
        /\ InFrames(s, l, r) \in Nat /\ Carried(h, l, r) <= InFrames(s, l, r)
  <2> SUFFICES ASSUME NEW l, NEW r \in Resources
               PROVE  /\ InFrames(u, l, r) = InFrames(s, l, r) - Carried(h, l, r) + Carried(f, l, r)
                      /\ Carried(h, l, r) \in Nat /\ Carried(f, l, r) \in Nat
                      /\ InFrames(s, l, r) \in Nat /\ Carried(h, l, r) <= InFrames(s, l, r)
    OBVIOUS
  <2>1. /\ InFrames(u, l, r) = Carried(f, l, r) + InFrames(t, l, r)
        /\ InFrames(s, l, r) = Carried(h, l, r) + InFrames(t, l, r)
        /\ Carried(h, l, r) \in Nat /\ InFrames(t, l, r) \in Nat /\ InFrames(s, l, r) \in Nat
        /\ Carried(f, l, r) \in Nat
    BY <1>1, <1>4, <1>6
  <2> QED
    BY <2>1
<1>8. WentOn(u, s, f, ended)
  BY <1>1, <1>4, <1>6, <1>7 DEF WentOn, h
<1> QED
  BY <1>8 DEF u, z, t

(* The calls that an operation of the owner begins.                        *)
Begun(s, ended) ==
  /\ s \in Calls /\ Shaped(s, ended)
  /\ \A l : \A r \in Resources : InFrames(s, l, r) = 0

LEMMA NothingBegun ==
  /\ \A ended \in BOOLEAN : Begun(<<>>, ended)
  /\ ~ Resets(<<>>)
<1>1. <<>> \in Calls /\ Len(<<>>) = 0 /\ 1 .. 0 = {}
  BY DEF Calls
<1> QED
  BY <1>1, FramesEmpty DEF Begun, Shaped, Resets

LEMMA BegunPut ==
  ASSUME NEW f \in FrameSet, NEW ended \in BOOLEAN, NEW t, Begun(t, ended),
         f.at \in Allowed(ended, Len(t)), \A l : \A r \in Resources : Carried(f, l, r) = 0
  PROVE  LET s == <<f>> \o t IN
         /\ Begun(s, ended) /\ Len(s) = Len(t) + 1 /\ s # <<>>
         /\ Resets(s) <=> f.at = "resetAwaiting" \/ Resets(t)
<1> DEFINE s == <<f>> \o t
<1>1. t \in Calls /\ Shaped(t, ended) /\ \A l : \A r \in Resources : InFrames(t, l, r) = 0
  BY DEF Begun
<1>2. /\ s \in Calls /\ s # <<>> /\ Len(s) = Len(t) + 1
      /\ \A l : \A r \in Resources : InFrames(s, l, r) = Carried(f, l, r) + InFrames(t, l, r)
      /\ Shaped(s, ended) <=> Shaped(t, ended) /\ f.at \in Allowed(ended, Len(t))
      /\ Resets(s) <=> f.at = "resetAwaiting" \/ Resets(t)
  BY <1>1, PutOn
<1> HIDE DEF s
<1>3. \A l : \A r \in Resources : InFrames(s, l, r) = 0
  BY <1>1, <1>2
<1>4. Begun(s, ended)
  BY <1>1, <1>2, <1>3 DEF Begun
<1> QED
  BY <1>2, <1>4 DEF s

LEMMA BegunPurge ==
  ASSUME NEW t, Begun(t, FALSE)
  PROVE  Begun(Purge \o t, FALSE)
<1> DEFINE s == Purge \o t
<1>1. t \in Calls /\ Shaped(t, FALSE) /\ \A l : \A r \in Resources : InFrames(t, l, r) = 0
  BY DEF Begun
<1>2. /\ s \in Calls /\ Shaped(s, FALSE)
      /\ \A l : \A r \in Resources : InFrames(s, l, r) = InFrames(t, l, r)
  BY <1>1, PurgePushed
<1> HIDE DEF s
<1>3. \A l : \A r \in Resources : InFrames(s, l, r) = 0
  BY <1>1, <1>2
<1>4. Begun(s, FALSE)
  BY <1>2, <1>3 DEF Begun
<1> QED
  BY <1>4 DEF s

LEMMA PutOnNothing ==
  ASSUME NEW f
  PROVE  <<f>> \o <<>> = <<f>> /\ Len(<<>>) = 0
<1>1. <<f>> \in Seq({f})
  OBVIOUS
<1> QED
  BY <1>1, ConcatEmptySeq

LEMMA PurgeBegun ==
  Begun(Purge, FALSE)
<1>1. Purge \o <<>> = Purge
  <2>1. Frame("pollInvalid") \in FrameSet /\ Frame("pollFreed") \in FrameSet /\ Frame("purgeLoop") \in FrameSet
    BY FramesTyped DEF Labels
  <2>2. Purge \in Seq(FrameSet)
    BY <2>1 DEF Purge
  <2> QED
    BY <2>2, ConcatEmptySeq
<1>2. Begun(<<>>, FALSE)
  BY NothingBegun
<1>3. Begun(Purge \o <<>>, FALSE)
  BY <1>2, BegunPurge
<1> QED
  BY <1>1, <1>3

LEMMA ReturnBegun ==
  ASSUME NEW limit \in Nat
  PROVE  LET return == <<[Frame("purged") EXCEPT !.limit = limit]>> IN
         Begun(return, FALSE) /\ Begun(Purge \o return, FALSE)
<1>0. Begun(<<>>, FALSE)
  BY NothingBegun
<1> DEFINE g == Frame("purged")
           f == [g EXCEPT !.limit = limit]
<1>1. g \in FrameSet /\ g.at = "purged" /\ g.textures = NoTextures
  BY FramesTyped DEF Labels, Frame
<1> HIDE DEF g
<1>2. f \in FrameSet /\ f.at = "purged" /\ f.textures = NoTextures
  BY <1>1 DEF FrameSet
<1> HIDE DEF f
<1>3. \A l : \A r \in Resources : Carried(f, l, r) = 0
  BY <1>2, FramesTyped DEF Carried
<1>4. f.at \in Allowed(FALSE, Len(<<>>))
  BY <1>2, PutOnNothing DEF Allowed
<1>5. Begun(<<f>> \o <<>>, FALSE)
  BY <1>0, <1>2, <1>3, <1>4, BegunPut
<1>6. Begun(<<f>>, FALSE)
  BY <1>5, PutOnNothing
<1>7. Begun(Purge \o <<f>>, FALSE)
  BY <1>6, BegunPurge
<1> QED
  BY <1>6, <1>7 DEF f, g

LEMMA EndBegun ==
  LET s == <<Frame("resetAwaiting"), Frame("destroyAll")>>
      t == <<Frame("pollFreed"), Frame("resetAwaiting"), Frame("destroyAll")>>
  IN  /\ Begun(s, TRUE) /\ Resets(s) /\ s # <<>>
      /\ Begun(t, TRUE) /\ Resets(t) /\ t # <<>>
<1> DEFINE f1 == Frame("pollFreed")
           f2 == Frame("resetAwaiting")
           f3 == Frame("destroyAll")
           t3 == <<f3>>
           t2 == <<f2, f3>>
           t1 == <<f1, f2, f3>>
<1>1. /\ f1 \in FrameSet /\ f2 \in FrameSet /\ f3 \in FrameSet
      /\ f1.at = "pollFreed" /\ f2.at = "resetAwaiting" /\ f3.at = "destroyAll"
      /\ \A l : \A r \in Resources : Carried(f1, l, r) = 0 /\ Carried(f2, l, r) = 0 /\ Carried(f3, l, r) = 0
  BY FramesTyped DEF Labels
<1> HIDE DEF f1, f2, f3
<1>2. Begun(<<>>, TRUE) /\ Len(<<>>) = 0 /\ t3 = <<f3>> \o <<>>
  BY NothingBegun, PutOnNothing
<1>3. t2 = <<f2>> \o t3 /\ t1 = <<f1>> \o t2
  BY <1>1, PairIs, TripleIs
<1> HIDE DEF t1, t2, t3
<1>4. f3.at \in Allowed(TRUE, 0) /\ f2.at \in Allowed(TRUE, 1) /\ f1.at \in Allowed(TRUE, 2)
  BY <1>1 DEF Allowed, Plain
<1>5. f3.at \in Allowed(TRUE, Len(<<>>))
  BY <1>2, <1>4
<1>6. Begun(t3, TRUE) /\ Len(t3) = Len(<<>>) + 1
  BY <1>1, <1>2, <1>5, BegunPut
<1>7. Len(t3) = 1
  BY <1>2, <1>6
<1>8. Begun(t2, TRUE) /\ Len(t2) = Len(t3) + 1 /\ Resets(t2) /\ t2 # <<>>
  BY <1>1, <1>3, <1>4, <1>6, <1>7, BegunPut
<1>9. Len(t2) = 2
  BY <1>7, <1>8
<1>10. Begun(t1, TRUE) /\ Resets(t1) /\ t1 # <<>>
  BY <1>1, <1>3, <1>4, <1>8, <1>9, BegunPut
<1> QED
  BY <1>8, <1>10 DEF t1, t2, f1, f2, f3

(* What the owner does while no call is under way.                         *)
LEMMA FitsBegun ==
  ASSUME NEW c, NEW sent, Fits(c, <<>>, sent, FALSE), NEW d, Good(d),
         d.fTexturesAwaitingUnref = c.fTexturesAwaitingUnref,
         \A r \in Resources : Bearable(d.res[r].refs, c.fTexturesAwaitingUnref[r], sent[r].off),
         \A r \in Resources : sent[r].off \in BOOLEAN,
         NEW s, Begun(s, FALSE)
  PROVE  Fits(d, s, sent, FALSE)
<1>1. \A l : \A r \in Resources : InFrames(s, l, r) = 0 /\ InFrames(<<>>, l, r) = 0
  BY FramesEmpty DEF Begun
<1>2. ASSUME NEW r \in Resources PROVE Balanced(d, s, sent, TRUE, r)
  <2>1. Balanced(c, <<>>, sent, TRUE, r)
    BY DEF Fits
  <2>2. /\ Bearable(d.res[r].refs, c.fTexturesAwaitingUnref[r], sent[r].off)
        /\ d.res[r].refs \in Nat /\ sent[r].off \in BOOLEAN
    BY DEF Good, Listed, Caches, Fields
  <2>3. CASE sent[r].off
    BY <1>1, <2>1, <2>2, <2>3 DEF Balanced, Account, Bounded, Bearable
  <2>4. CASE ~sent[r].off
    BY <1>1, <2>1, <2>2, <2>4 DEF Balanced, Account, Balance, Bearable
  <2> QED
    BY <2>2, <2>3, <2>4
<1> QED
  BY <1>2 DEF Fits, Begun

(* What a step does to the balance of the references to one texture.       *)
Tracked == {"unreffed", "reset", "freed"}
Unmoved(c, s, sent, d, u, post, q) ==
  /\ d.res[q].refs = c.res[q].refs /\ post[q] = sent[q]
  /\ d.fTexturesAwaitingUnref[q] = c.fTexturesAwaitingUnref[q]
  /\ \A l \in Tracked : InFrames(u, l, q) = InFrames(s, l, q)

LEMMA FitsMoved ==
  ASSUME NEW c, NEW s, NEW sent, NEW ended \in BOOLEAN, Fits(c, s, sent, ended),
         NEW d, Good(d), NEW u \in Calls, Shaped(u, ended), NEW post,
         ended => u # <<>> \/ InCache(d) = {},
         ended => (Resets(u) <=> Resets(s)),
         \A q \in Resources : \/ Unmoved(c, s, sent, d, u, post, q)
                              \/ Balanced(d, u, post, ~ended \/ Resets(u), q)
  PROVE  Fits(d, u, post, ended)
<1>1. ASSUME NEW q \in Resources PROVE Balanced(d, u, post, ~ended \/ Resets(u), q)
  <2>1. CASE Unmoved(c, s, sent, d, u, post, q)
    <3>1. Balanced(c, s, sent, ~ended \/ Resets(s), q)
      BY DEF Fits
    <3>2. (~ended \/ Resets(s)) = (~ended \/ Resets(u))
      OBVIOUS
    <3> QED
      BY <2>1, <3>1, <3>2 DEF Balanced, Unmoved, Tracked
  <2> QED
    BY <2>1
<1> QED
  BY <1>1 DEF Fits

LEMMA FitsIs ==
  ASSUME NEW c, NEW s, NEW sent, NEW ended \in BOOLEAN, Fits(c, s, sent, ended),
         \A r \in Resources : sent[r].off \in BOOLEAN
  PROVE  /\ Good(c) /\ c \in Caches /\ s \in Calls /\ Shaped(s, ended)
         /\ \A r \in Resources : /\ Balanced(c, s, sent, ~ended \/ Resets(s), r)
                                 /\ c.res[r].refs \in Nat
                                 /\ c.fTexturesAwaitingUnref[r] \in Nat
<1>1. \A r \in Resources : /\ Balanced(c, s, sent, ~ended \/ Resets(s), r)
                           /\ c.fTexturesAwaitingUnref[r] \in Nat
  BY DEF Fits, Balanced, Account, Balance, Bounded
<1>2. c \in Caches
  BY GoodIs DEF Fits
<1> QED
  BY <1>1, <1>2 DEF Fits, Caches, Fields

(* The call on top returns.                                                *)
LEMMA FitsReturned ==
  ASSUME NEW c, NEW s, NEW sent, NEW ended \in BOOLEAN, Fits(c, s, sent, ended), s # <<>>,
         NEW d, Good(d), NEW post,
         Head(s).at # "resetAwaiting", Head(s).at = "destroyAll" => InCache(d) = {},
         \A q \in Resources :
           \/ /\ d.res[q].refs = c.res[q].refs /\ post[q] = sent[q]
              /\ d.fTexturesAwaitingUnref[q] = c.fTexturesAwaitingUnref[q]
              /\ \A l \in Tracked : Carried(Head(s), l, q) = 0
           \/ Balanced(d, Tail(s), post, ~ended \/ Resets(s), q)
  PROVE  Fits(d, Tail(s), post, ended)
<1> DEFINE h == Head(s)
           t == Tail(s)
<1>1. s \in Calls /\ Shaped(s, ended)
  BY DEF Fits
<1>2. /\ h \in FrameSet /\ t \in Calls /\ Shaped(t, ended)
      /\ h.at \in Allowed(ended, Len(t)) /\ Len(t) \in Nat
      /\ Resets(s) <=> Resets(t)
      /\ \A l : \A r \in Resources :
           /\ InFrames(s, l, r) = Carried(h, l, r) + InFrames(t, l, r)
           /\ Carried(h, l, r) \in Nat /\ InFrames(t, l, r) \in Nat
  BY <1>1, CallReturned
<1>3. ended => t # <<>> \/ InCache(d) = {}
  <2> SUFFICES ASSUME ended, t = <<>> PROVE InCache(d) = {}
    OBVIOUS
  <2>1. h.at \in Allowed(TRUE, 0)
    BY <1>2, PutOnNothing
  <2> QED
    BY <2>1 DEF Allowed
<1> HIDE DEF h, t
<1>4. ASSUME NEW q \in Resources
      PROVE  \/ Unmoved(c, s, sent, d, t, post, q)
             \/ Balanced(d, t, post, ~ended \/ Resets(t), q)
  <2>1. CASE /\ d.res[q].refs = c.res[q].refs /\ post[q] = sent[q]
             /\ d.fTexturesAwaitingUnref[q] = c.fTexturesAwaitingUnref[q]
             /\ \A l \in Tracked : Carried(h, l, q) = 0
    <3>1. \A l \in Tracked : InFrames(t, l, q) = InFrames(s, l, q)
      BY <1>2, <2>1
    <3> QED
      BY <2>1, <3>1 DEF Unmoved
  <2>2. CASE Balanced(d, t, post, ~ended \/ Resets(s), q)
    <3>1. (~ended \/ Resets(s)) = (~ended \/ Resets(t))
      BY <1>2
    <3> QED
      BY <2>2, <3>1
  <2> QED
    BY <2>1, <2>2 DEF h, t
<1>5. Fits(d, t, post, ended)
  BY <1>2, <1>3, <1>4, FitsMoved
<1> QED
  BY <1>5 DEF t

(* The call on top goes on as f, below what is put on it.                  *)
Carries(u, s, f, r) == \A l \in Tracked :
  InFrames(u, l, r) = InFrames(s, l, r) - Carried(Head(s), l, r) + Carried(f, l, r)
GoesOnAs(c, s, sent, d, f, post, awaits, r) ==
  \/ /\ d.res[r].refs = c.res[r].refs /\ post[r] = sent[r]
     /\ d.fTexturesAwaitingUnref[r] = c.fTexturesAwaitingUnref[r]
     /\ \A l \in Tracked : Carried(Head(s), l, r) = Carried(f, l, r)
  \/ \A u : Carries(u, s, f, r) => Balanced(d, u, post, awaits, r)

LEMMA FitsGoesOn ==
  ASSUME NEW c, NEW s, NEW sent, NEW ended \in BOOLEAN, Fits(c, s, sent, ended), s # <<>>,
         NEW d, Good(d), NEW post, NEW q \in {<<>>, Purge}, NEW f \in FrameSet,
         MayGoOn(s, f),
         \A r \in Resources : GoesOnAs(c, s, sent, d, f, post, ~ended \/ Resets(s), r)
  PROVE  Fits(d, (q \o <<f>>) \o Tail(s), post, ended)
<1> DEFINE h == Head(s)
           t == Tail(s)
           u == q \o (<<f>> \o t)
<1>1. s \in Calls /\ Shaped(s, ended)
  BY DEF Fits
<1>2. /\ u \in Calls /\ u # <<>> /\ Shaped(u, ended)
      /\ Resets(u) <=> Resets(s)
      /\ \A l : \A r \in Resources :
           /\ InFrames(u, l, r) = InFrames(s, l, r) - Carried(h, l, r) + Carried(f, l, r)
           /\ Carried(h, l, r) \in Nat /\ Carried(f, l, r) \in Nat
           /\ InFrames(s, l, r) \in Nat
  <2> HIDE DEF u, h, t
  <2>1. WentOn(q \o (<<f>> \o Tail(s)), s, f, ended)
    BY <1>1, CallGoesOn
  <2>2. WentOn(u, s, f, ended)
    BY <2>1 DEF u, t
  <2> QED
    BY <2>2 DEF WentOn, h
<1>3. u = (q \o <<f>>) \o t
  <2>1. q \in Seq(FrameSet)
    <3>1. Frame("pollInvalid") \in FrameSet /\ Frame("pollFreed") \in FrameSet /\ Frame("purgeLoop") \in FrameSet
      BY FramesTyped DEF Labels
    <3>2. Purge \in Seq(FrameSet)
      BY <3>1 DEF Purge
    <3>3. <<>> \in Seq(FrameSet)
      OBVIOUS
    <3>4. q = <<>> \/ q = Purge
      OBVIOUS
    <3> HIDE DEF Purge
    <3> QED
      BY <3>2, <3>3, <3>4
  <2>2. <<f>> \in Seq(FrameSet) /\ t \in Seq(FrameSet)
    BY <1>1, FramesPop DEF Calls
  <2> HIDE DEF t
  <2> QED
    BY <2>1, <2>2, ConcatAssociative
<1> HIDE DEF u, h, t
<1>4. ASSUME NEW r \in Resources
      PROVE  \/ Unmoved(c, s, sent, d, u, post, r)
             \/ Balanced(d, u, post, ~ended \/ Resets(u), r)
  <2>1. CASE /\ d.res[r].refs = c.res[r].refs /\ post[r] = sent[r]
             /\ d.fTexturesAwaitingUnref[r] = c.fTexturesAwaitingUnref[r]
             /\ \A l \in Tracked : Carried(h, l, r) = Carried(f, l, r)
    <3>1. \A l \in Tracked : InFrames(u, l, r) = InFrames(s, l, r)
      BY <1>2, <2>1
    <3> QED
      BY <2>1, <3>1 DEF Unmoved
  <2>2. CASE \A v : Carries(v, s, f, r) => Balanced(d, v, post, ~ended \/ Resets(s), r)
    <3>1. Carries(u, s, f, r)
      BY <1>2 DEF Carries, h
    <3>2. Balanced(d, u, post, ~ended \/ Resets(s), r)
      BY <2>2, <3>1
    <3>3. (~ended \/ Resets(s)) = (~ended \/ Resets(u))
      BY <1>2
    <3> QED
      BY <3>2, <3>3
  <2> QED
    BY <2>1, <2>2 DEF GoesOnAs, h
<1>5. Fits(d, u, post, ended)
  BY <1>2, <1>4, FitsMoved
<1> QED
  BY <1>3, <1>5 DEF t

(* The invariant.                                                          *)
Ended == context # "alive"
Sent == [r \in Resources |->
           [n |-> owed[r] + fFreedTextureInbox[r], off |-> r \in miscounted]]
CacheInv ==
  /\ Fits(cache, calls, Sent, Ended)
  /\ miscounted \subseteq Resources
  /\ fInvalidUniqueKeyInbox \subseteq UniqueKeys
  /\ fFreedTextureInbox \in [Resources -> Nat] /\ owed \in [Resources -> Nat]
  /\ context \in {"alive", "abandoned", "released"}

LEMMA InvIs ==
  ASSUME CacheInv
  PROVE  /\ Good(cache) /\ cache \in Caches /\ calls \in Calls /\ Shaped(calls, Ended)
         /\ Ended \in BOOLEAN
         /\ \A r \in Resources : /\ Balanced(cache, calls, Sent, ~Ended \/ Resets(calls), r)
                                 /\ cache.res[r].refs \in Nat
                                 /\ cache.fTexturesAwaitingUnref[r] \in Nat
                                 /\ Sent[r].n = owed[r] + fFreedTextureInbox[r]
                                 /\ Sent[r].off = (r \in miscounted) /\ Sent[r].off \in BOOLEAN
                                 /\ owed[r] \in Nat /\ fFreedTextureInbox[r] \in Nat
         /\ calls # <<>> =>
              /\ Head(calls) \in FrameSet /\ Tail(calls) \in Calls
              /\ Head(calls).at \in Labels /\ Head(calls).stale \in BOOLEAN
              /\ Head(calls).textures \in [Resources -> Nat]
              /\ Head(calls).keys \in SUBSET UniqueKeys /\ Head(calls).limit \in Nat
<1>1. Fits(cache, calls, Sent, Ended) /\ Ended \in BOOLEAN
  BY DEF CacheInv, Ended
<1>2. \A r \in Resources : /\ Sent[r].n = owed[r] + fFreedTextureInbox[r]
                           /\ Sent[r].off = (r \in miscounted) /\ Sent[r].off \in BOOLEAN
                           /\ owed[r] \in Nat /\ fFreedTextureInbox[r] \in Nat
  <2> SUFFICES ASSUME NEW r \in Resources
               PROVE  /\ Sent[r].n = owed[r] + fFreedTextureInbox[r]
                      /\ Sent[r].off = (r \in miscounted) /\ Sent[r].off \in BOOLEAN
                      /\ owed[r] \in Nat /\ fFreedTextureInbox[r] \in Nat
    OBVIOUS
  <2>1. Sent[r].n = owed[r] + fFreedTextureInbox[r]
    BY DEF Sent
  <2>2. Sent[r].off = (r \in miscounted)
    BY DEF Sent
  <2>3. (r \in miscounted) \in BOOLEAN
    OBVIOUS
  <2>4. Sent[r].off \in BOOLEAN
    BY <2>2, <2>3
  <2>5. owed[r] \in Nat /\ fFreedTextureInbox[r] \in Nat
    BY DEF CacheInv
  <2> QED
    BY <2>1, <2>2, <2>4, <2>5
<1>3. calls \in Calls
  BY <1>1 DEF Fits
<1>4. calls # <<>> =>
        /\ Head(calls) \in FrameSet /\ Tail(calls) \in Calls
        /\ Head(calls).at \in Labels /\ Head(calls).stale \in BOOLEAN
        /\ Head(calls).textures \in [Resources -> Nat]
        /\ Head(calls).keys \in SUBSET UniqueKeys /\ Head(calls).limit \in Nat
  BY <1>3, FramesPop DEF FrameSet
<1>5. /\ Good(cache) /\ cache \in Caches /\ calls \in Calls /\ Shaped(calls, Ended)
      /\ \A r \in Resources : /\ Balanced(cache, calls, Sent, ~Ended \/ Resets(calls), r)
                              /\ cache.res[r].refs \in Nat
                              /\ cache.fTexturesAwaitingUnref[r] \in Nat
  BY <1>1, <1>2, FitsIs
<1> QED
  BY <1>1, <1>2, <1>4, <1>5

LEMMA FitsStays ==
  ASSUME NEW c, NEW s, NEW sent, NEW ended \in BOOLEAN, Fits(c, s, sent, ended), s # <<>>,
         NEW d, Good(d), NEW post, NEW f \in FrameSet, MayGoOn(s, f),
         \A r \in Resources : GoesOnAs(c, s, sent, d, f, post, ~ended \/ Resets(s), r)
  PROVE  Fits(d, <<f>> \o Tail(s), post, ended)
<1>1. Fits(d, (<<>> \o <<f>>) \o Tail(s), post, ended)
  BY FitsGoesOn
<1>2. <<>> \o <<f>> = <<f>>
  <2>1. <<f>> \in Seq(FrameSet)
    OBVIOUS
  <2> QED
    BY <2>1, ConcatEmptySeq
<1> QED
  BY <1>1, <1>2

(* Nothing but what is left to do changes.                                 *)
LEMMA NothingMoved ==
  ASSUME NEW c, NEW s, NEW sent, NEW f, NEW awaits, Head(s).at \notin Tracked, f.at \notin Tracked
  PROVE  \A r \in Resources : GoesOnAs(c, s, sent, c, f, sent, awaits, r)
BY DEF GoesOnAs, Carried

LEMMA PollInvalidInv ==
  ASSUME CacheInv, PollInvalid
  PROVE  CacheInv'
<1> DEFINE g == Frame("invalid")
           f == [g EXCEPT !.keys = fInvalidUniqueKeyInbox]
<1>1. /\ calls # <<>> /\ Head(calls).at = "pollInvalid"
      /\ fInvalidUniqueKeyInbox' = {} /\ calls' = <<f>> \o Tail(calls)
      /\ cache' = cache /\ Sent' = Sent /\ Ended' = Ended /\ context' = context
      /\ fFreedTextureInbox' = fFreedTextureInbox /\ owed' = owed /\ miscounted' = miscounted
  BY DEF PollInvalid, At, Then, Sent, Ended
<1>2. g \in FrameSet /\ g.at = "invalid" /\ fInvalidUniqueKeyInbox \in SUBSET UniqueKeys
  BY FramesTyped DEF CacheInv, Labels
<1> HIDE DEF g
<1>3. f \in FrameSet /\ f.at = "invalid"
  BY <1>2 DEF FrameSet
<1> HIDE DEF f
<1>4. MayGoOn(calls, f)
  BY <1>1, <1>3 DEF MayGoOn, Plain
<1>5. \A r \in Resources : GoesOnAs(cache, calls, Sent, cache, f, Sent, ~Ended \/ Resets(calls), r)
  BY <1>1, <1>3, NothingMoved DEF Tracked
<1>6. Fits(cache, <<f>> \o Tail(calls), Sent, Ended)
  BY <1>1, <1>3, <1>4, <1>5, InvIs, FitsStays DEF CacheInv
<1> QED
  BY <1>1, <1>6 DEF CacheInv

(* A resource is found by a key that was invalidated, and loses it.        *)
LEMMA KeyInvalidatedGood ==
  ASSUME NEW c, Good(c), NEW r \in Resources, c.res[r].state = "cached"
  PROVE  LET found == KeyRemoved(RefAndMakeMRU(c, r), r)
             d == Unreffed(found, r)
         IN
         /\ Good(d) /\ d.fTexturesAwaitingUnref = c.fTexturesAwaitingUnref
         /\ \A q \in Resources : d.res[q].refs = c.res[q].refs
         /\ \A q \in Resources : c.res[q].state = "cached" /\ d.res[q].state # "cached" =>
              d.res[q].refs = 0
<1> DEFINE b == RefAndMakeMRU(c, r)
           found == KeyRemoved(b, r)
           d == Unreffed(found, r)
<1>1. \A q \in Resources : c.res[q].refs \in Nat
  BY GoodIs DEF Caches, Fields
<1>2. Good(b) /\ Effect(c, b, r, 1) /\ b.res[r].state = "cached"
  BY RefAndMakeMRUGood
<1> HIDE DEF b
<1>3. b.res[r].refs = c.res[r].refs + 1 /\ b.res[r].refs > 0
  BY <1>1, <1>2 DEF Effect
<1>4. Good(found) /\ Effect(b, found, r, 0) /\ found.res[r].state = "cached"
  BY <1>2, <1>3, KeyRemovedGood DEF SameButKeysOf
<1> HIDE DEF found
<1>5. found.res[r].refs = c.res[r].refs + 1 /\ found.res[r].refs > 0
  BY <1>1, <1>3, <1>4 DEF Effect
<1>6. /\ Good(d) /\ Effect(found, d, r, -1)
      /\ found.res[r].state = "cached" /\ d.res[r].state # "cached" => d.res[r].refs = 0
  BY <1>4, <1>5, UnreffedGood
<1> HIDE DEF d
<1>7. d.res[r].refs = c.res[r].refs
  BY <1>1, <1>5, <1>6 DEF Effect
<1>8. \A q \in Resources \ {r} : d.res[q].refs = c.res[q].refs /\ d.res[q].state = c.res[q].state
  BY <1>2, <1>4, <1>6 DEF Effect
<1>9. d.fTexturesAwaitingUnref = c.fTexturesAwaitingUnref
  BY <1>2, <1>4, <1>6 DEF Effect
<1> QED
  BY <1>4, <1>6, <1>7, <1>8, <1>9 DEF d, found, b

LEMMA ProcessInvalidUniqueKeyInv ==
  ASSUME CacheInv, NEW k \in UniqueKeys, ProcessInvalidUniqueKey(k)
  PROVE  CacheInv'
<1> DEFINE h == Head(calls)
           rest == [h EXCEPT !.keys = @ \ {k}]
           r == IF context = "alive" THEN cache.fUniqueHash[k] ELSE Null
           found == KeyRemoved(RefAndMakeMRU(cache, r), r)
           q == AfterUnref(found, r)
           d == Unreffed(found, r)
<1>1. /\ calls # <<>> /\ h.at = "invalid"
      /\ IF r = Null THEN calls' = <<rest>> \o Tail(calls) /\ cache' = cache
         ELSE cache' = d /\ calls' = (q \o <<rest>>) \o Tail(calls)
      /\ Sent' = Sent /\ Ended' = Ended /\ UNCHANGED <<inboxes, miscounted, context>>
  BY DEF ProcessInvalidUniqueKey, At, Then, Sent, Ended, inboxes
<1>2. h \in FrameSet /\ Good(cache) /\ Ended \in BOOLEAN /\ Fits(cache, calls, Sent, Ended)
  BY <1>1, InvIs DEF CacheInv
<1> HIDE DEF h
<1>3. rest \in FrameSet /\ rest.at = "invalid"
  BY <1>1, <1>2 DEF FrameSet
<1> HIDE DEF rest
<1>4. MayGoOn(calls, rest)
  BY <1>1, <1>3 DEF MayGoOn, h
<1>5. CASE r = Null
  <2>1. \A p \in Resources : GoesOnAs(cache, calls, Sent, cache, rest, Sent, ~Ended \/ Resets(calls), p)
    BY <1>1, <1>3, NothingMoved DEF Tracked, h
  <2>2. Fits(cache, <<rest>> \o Tail(calls), Sent, Ended)
    BY <1>1, <1>2, <1>3, <1>4, <2>1, FitsStays
  <2> QED
    BY <1>1, <1>5, <2>2 DEF CacheInv, inboxes
<1>6. CASE r # Null
  <2>1. r \in Resources /\ cache.res[r].state = "cached"
    <3>1. \A p \in Resources : Right(cache, p)
      BY <1>2, GoodIs
    <3>2. r = cache.fUniqueHash[k] /\ r \in Resources
      BY <1>2, <1>6, GoodIs DEF Caches
    <3> HIDE DEF r
    <3> QED
      BY <3>1, <3>2 DEF Right
  <2>2. q \in {<<>>, Purge}
    BY DEF AfterUnref
  <2> HIDE DEF r
  <2>3. /\ Good(d) /\ d.fTexturesAwaitingUnref = cache.fTexturesAwaitingUnref
        /\ \A p \in Resources : d.res[p].refs = cache.res[p].refs
    BY <1>2, <2>1, KeyInvalidatedGood
  <2> HIDE DEF found, q, d
  <2>4. \A p \in Resources : GoesOnAs(cache, calls, Sent, d, rest, Sent, ~Ended \/ Resets(calls), p)
    BY <1>1, <1>3, <2>3 DEF GoesOnAs, Tracked, Carried, h
  <2>5. Fits(d, (q \o <<rest>>) \o Tail(calls), Sent, Ended)
    BY <1>1, <1>2, <1>3, <1>4, <2>2, <2>3, <2>4, FitsGoesOn
  <2> QED
    BY <1>1, <1>6, <2>5 DEF CacheInv, inboxes
<1> QED
  BY <1>5, <1>6

LEMMA PollFreedInv ==
  ASSUME CacheInv, PollFreed
  PROVE  CacheInv'
<1> DEFINE h == Head(calls)
           t == Tail(calls)
           awaited == cache.fTexturesAwaitingUnref
           g == Frame("freed")
           f == [g EXCEPT !.textures = fFreedTextureInbox]
           awaits == ~Ended \/ Resets(calls)
<1>1. /\ calls # <<>> /\ h.at = "pollFreed" /\ cache' = cache
      /\ IF awaited = NoTextures
           THEN calls' = <<>> \o t /\ fFreedTextureInbox' = fFreedTextureInbox
           ELSE calls' = <<f>> \o t /\ fFreedTextureInbox' = NoTextures
      /\ Ended' = Ended /\ UNCHANGED <<fInvalidUniqueKeyInbox, owed, miscounted, context>>
  BY DEF PollFreed, At, Then, Ended
<1>2. /\ Good(cache) /\ cache \in Caches /\ Ended \in BOOLEAN /\ Fits(cache, calls, Sent, Ended)
      /\ t \in Calls
      /\ \A r \in Resources : /\ Balanced(cache, calls, Sent, awaits, r)
                              /\ Sent[r].n = owed[r] + fFreedTextureInbox[r]
                              /\ Sent[r].off = (r \in miscounted) /\ Sent[r].off \in BOOLEAN
                              /\ owed[r] \in Nat /\ fFreedTextureInbox[r] \in Nat
  BY <1>1, InvIs DEF CacheInv
<1>3. CASE awaited = NoTextures
  <2>1. <<>> \o t = t
    <3> HIDE DEF t
    <3> QED
      BY <1>2, ConcatEmptySeq DEF Calls
  <2>2. calls' = t /\ Sent' = Sent /\ fFreedTextureInbox' = fFreedTextureInbox
    BY <1>1, <1>3, <2>1 DEF Sent
  <2>3. h.at # "resetAwaiting" /\ h.at # "destroyAll" /\ \A l \in Tracked : \A r : Carried(h, l, r) = 0
    BY <1>1 DEF Tracked, Carried
  <2>4. Fits(cache, t, Sent, Ended)
    BY <1>1, <1>2, <2>3, FitsReturned
  <2> QED
    BY <1>1, <2>2, <2>4 DEF CacheInv
<1>4. CASE awaited # NoTextures
  <2>1. /\ calls' = <<f>> \o t /\ fFreedTextureInbox' = NoTextures
        /\ NoTextures \in [Resources -> Nat] /\ \A r \in Resources : NoTextures[r] = 0
    BY <1>1, <1>4, FramesTyped
  <2> DEFINE post == [r \in Resources |->
                        [n |-> owed[r] + NoTextures[r], off |-> r \in miscounted]]
  <2>2. Sent' = post
    BY <1>1, <2>1 DEF Sent
  <2>3. \A r \in Resources : post[r].n = owed[r] /\ post[r].off = Sent[r].off
    BY <1>2, <2>1
  <2>4. g \in FrameSet /\ g.at = "freed" /\ fFreedTextureInbox \in [Resources -> Nat]
    BY FramesTyped DEF CacheInv, Labels
  <2> HIDE DEF g, post
  <2>5. f \in FrameSet /\ f.at = "freed" /\ f.textures = fFreedTextureInbox
    BY <2>4 DEF FrameSet
  <2> HIDE DEF f
  <2>6. MayGoOn(calls, f)
    BY <1>1, <2>5 DEF MayGoOn, Plain
  <2>7. awaits
    <3> SUFFICES ASSUME ~awaits PROVE FALSE
      OBVIOUS
    <3>1. \A r \in Resources : awaited[r] = 0
      BY <1>2 DEF Balanced, Account, Balance, Bounded
    <3>2. awaited \in [Resources -> Int]
      BY <1>2 DEF Caches
    <3> QED
      BY <1>4, <3>1, <3>2 DEF NoTextures
  <2>8. ASSUME NEW r \in Resources PROVE GoesOnAs(cache, calls, Sent, cache, f, post, awaits, r)
    <3>1. Balanced(cache, calls, Sent, TRUE, r)
      BY <1>2, <2>7
    <3>2. ASSUME NEW u, Carries(u, calls, f, r) PROVE Balanced(cache, u, post, awaits, r)
      <4>1. /\ InFrames(u, "unreffed", r) = InFrames(calls, "unreffed", r) - 0 + 0
            /\ InFrames(u, "reset", r) = InFrames(calls, "reset", r) - 0 + 0
            /\ InFrames(u, "freed", r) = InFrames(calls, "freed", r) - 0 + fFreedTextureInbox[r]
        BY <1>1, <2>5, <3>2 DEF Carries, Tracked, Carried, h
      <4>2. /\ post[r].n = owed[r] /\ Sent[r].n = owed[r] + fFreedTextureInbox[r]
            /\ owed[r] \in Nat /\ fFreedTextureInbox[r] \in Nat
            /\ post[r].off = Sent[r].off /\ Sent[r].off \in BOOLEAN
        BY <1>2, <2>3
      <4>3. Balanced(cache, u, post, TRUE, r)
        <5>1. CASE Sent[r].off
          BY <3>1, <4>1, <4>2, <5>1, BoundsAre DEF Balanced, Account, Bounded
        <5>2. CASE ~Sent[r].off
          BY <3>1, <4>1, <4>2, <5>2, BoundsAre DEF Balanced, Account, Balance
        <5> QED
          BY <4>2, <5>1, <5>2
      <4> QED
        BY <2>7, <4>3
    <3> QED
      BY <3>2 DEF GoesOnAs
  <2>9. Fits(cache, <<f>> \o t, post, Ended)
    BY <1>1, <1>2, <2>5, <2>6, <2>8, FitsStays
  <2> QED
    BY <1>1, <2>1, <2>2, <2>9 DEF CacheInv
<1> QED
  BY <1>3, <1>4

LEMMA SeqsJoin ==
  ASSUME NEW a \in Seq(FrameSet), NEW b \in Seq(FrameSet), NEW c \in Seq(FrameSet)
  PROVE  (a \o b) \o c = a \o (b \o c)
BY ConcatAssociative

(* The call on top goes on as f, below g and what is put on that.          *)
TwoWentOn(u, s, f, g, ended) ==
  /\ u \in Calls /\ u # <<>> /\ Shaped(u, ended)
  /\ Resets(u) <=> Resets(s)
  /\ \A r \in Resources : \A l \in Tracked :
       /\ InFrames(u, l, r) =
            InFrames(s, l, r) - Carried(Head(s), l, r) + Carried(f, l, r) + Carried(g, l, r)
       /\ InFrames(s, l, r) \in Nat

LEMMA TwoGoOn ==
  ASSUME NEW s \in Calls, s # <<>>, NEW ended \in BOOLEAN, Shaped(s, ended),
         NEW q \in {<<>>, Purge}, NEW f \in FrameSet, NEW g \in FrameSet, MayGoOn(s, f),
         f.at # "purgeLoop", f.at \in Plain, g.at \in Plain
  PROVE  TwoWentOn((q \o <<g, f>>) \o Tail(s), s, f, g, ended)
<1> DEFINE t == Tail(s)
           z == <<f>> \o t
           y == <<g>> \o z
           u == q \o y
<1>1. t \in Calls /\ z \in Calls
  BY FramesPop, PutOn
<1>2. <<>> \in {<<>>, Purge} /\ <<>> \o z = z
  BY <1>1, ConcatEmptySeq DEF Calls
<1>3. WentOn(<<>> \o (<<f>> \o Tail(s)), s, f, ended)
  BY <1>2, CallGoesOn
<1>4. WentOn(z, s, f, ended)
  BY <1>2, <1>3
<1>a. /\ Len(z) = Len(t) + 1 /\ Len(t) \in Nat
      /\ Shaped(z, ended) <=> (Shaped(t, ended) /\ f.at \in Allowed(ended, Len(t)))
  <2> HIDE DEF t
  <2>1. Len(z) = Len(t) + 1 /\ Len(t) \in Nat
    BY <1>1, PutOn
  <2>2. Shaped(z, ended) <=> (Shaped(t, ended) /\ f.at \in Allowed(ended, Len(t)))
    BY <1>1, PutOn
  <2> QED
    BY <2>1, <2>2
<1> HIDE DEF z
<1>5. /\ z \in Calls /\ Shaped(z, ended) /\ (Resets(z) <=> Resets(s))
      /\ \A l : \A r \in Resources :
           /\ InFrames(z, l, r) = InFrames(s, l, r) - Carried(Head(s), l, r) + Carried(f, l, r)
           /\ Carried(Head(s), l, r) \in Nat /\ Carried(f, l, r) \in Nat
           /\ InFrames(s, l, r) \in Nat
  BY <1>4 DEF WentOn
<1>6. /\ Len(z) = Len(t) + 1 /\ Len(t) \in Nat
      /\ f.at \in Allowed(ended, Len(t))
  BY <1>5, <1>a
<1>7. Len(t) # 0
  BY <1>6 DEF Allowed, Plain
<1>8. g.at \in Allowed(ended, Len(z)) /\ Len(z) # 0
  <2> DEFINE n == Len(t)
             k == Len(z)
  <2>1. n \in Nat /\ k = n + 1 /\ n # 0
    BY <1>6, <1>7
  <2> HIDE DEF n, k
  <2>2. k # 0 /\ k # 1
    BY <2>1
  <2> QED
    BY <2>2 DEF Allowed, k
<1> HIDE DEF t
<1>9. /\ y \in Calls /\ Len(y) = Len(z) + 1 /\ Len(z) \in Nat
      /\ Shaped(y, ended) /\ (Resets(y) <=> Resets(z))
      /\ \A l : \A r \in Resources :
           InFrames(y, l, r) = Carried(g, l, r) + InFrames(z, l, r) /\ Carried(g, l, r) \in Nat
  <2>1. g.at # "resetAwaiting"
    BY DEF Plain
  <2> QED
    BY <1>5, <1>8, <2>1, PutOn
<1> HIDE DEF y
<1>10. Len(y) >= 2 /\ ended \in {TRUE, FALSE}
  <2> DEFINE n == Len(z)
             k == Len(y)
  <2>1. n \in Nat /\ k = n + 1 /\ n # 0
    BY <1>8, <1>9
  <2> HIDE DEF n, k
  <2>2. k >= 2
    BY <2>1
  <2> QED
    BY <2>2 DEF k
<1>11. /\ u \in Calls /\ Shaped(u, ended) /\ (Resets(u) <=> Resets(y))
       /\ \A l : \A r \in Resources : InFrames(u, l, r) = InFrames(y, l, r)
       /\ u # <<>>
  <2>1. y # <<>>
    BY <1>10, PutOnNothing
  <2> QED
    BY <1>9, <1>10, <2>1, PurgePushed
<1>12. u = (q \o <<g, f>>) \o t
  <2>1. q \in Seq(FrameSet)
    <3>1. Frame("pollInvalid") \in FrameSet /\ Frame("pollFreed") \in FrameSet /\ Frame("purgeLoop") \in FrameSet
      BY FramesTyped DEF Labels
    <3>2. Purge \in Seq(FrameSet)
      BY <3>1 DEF Purge
    <3>3. <<>> \in Seq(FrameSet)
      OBVIOUS
    <3>4. q = <<>> \/ q = Purge
      OBVIOUS
    <3> QED
      BY <3>2, <3>3, <3>4
  <2>2. <<g>> \in Seq(FrameSet) /\ <<f>> \in Seq(FrameSet) /\ t \in Seq(FrameSet)
        /\ <<g, f>> \in Seq(FrameSet)
    BY <1>1 DEF Calls
  <2>3. <<g, f>> = <<g>> \o <<f>>
    BY PairIs
  <2> DEFINE g1 == <<g>>
             f1 == <<f>>
             gf == <<g, f>>
  <2>4. g1 \in Seq(FrameSet) /\ f1 \in Seq(FrameSet) /\ t \in Seq(FrameSet) /\ gf \in Seq(FrameSet) /\ gf = g1 \o f1
    BY <2>2, <2>3
  <2> HIDE DEF g1, f1, gf
  <2>5. gf \o t = g1 \o (f1 \o t)
    BY <2>4, ConcatAssociative
  <2>6. (q \o gf) \o t = q \o (gf \o t)
    BY <2>1, <2>4, SeqsJoin
  <2> QED
    BY <2>5, <2>6 DEF u, y, z, g1, f1, gf
<1> HIDE DEF u
<1>13. \A r \in Resources : \A l \in Tracked :
         /\ InFrames(u, l, r) =
              InFrames(s, l, r) - Carried(Head(s), l, r) + Carried(f, l, r) + Carried(g, l, r)
         /\ InFrames(s, l, r) \in Nat
  BY <1>5, <1>9, <1>11
<1>14. Resets(u) <=> Resets(s)
  BY <1>5, <1>9, <1>11
<1>15. TwoWentOn(u, s, f, g, ended)
  BY <1>11, <1>13, <1>14 DEF TwoWentOn
<1> QED
  BY <1>12, <1>15 DEF t

LEMMA UnreffedFrame ==
  ASSUME NEW r \in Resources
  PROVE  LET f == [Frame("unreffed") EXCEPT !.textures[r] = 1] IN
         /\ f \in FrameSet /\ f.at = "unreffed"
         /\ \A p \in Resources : f.textures[p] = IF p = r THEN 1 ELSE 0
<1> DEFINE x == [NoTextures EXCEPT ![r] = 1]
           b == Frame("unreffed")
           f == [b EXCEPT !.textures[r] = 1]
           g == [b EXCEPT !.textures = x]
<1>0. b \in [at : Labels, keys : SUBSET UniqueKeys, textures : [Resources -> Nat],
             limit : Nat, stale : BOOLEAN]
      /\ b.textures = NoTextures /\ b.at = "unreffed"
  BY FramesTyped DEF Frame, Labels
<1> HIDE DEF b
<1>1. f = g
  BY <1>0
<1>2. x \in [Resources -> Nat] /\ \A p \in Resources : x[p] = IF p = r THEN 1 ELSE 0
  BY FramesTyped
<1>3. x = [NoTextures EXCEPT ![r] = 1]
  OBVIOUS
<1> HIDE DEF x
<1>4. g.at = "unreffed" /\ g.textures = x /\ g \in [at : Labels, keys : SUBSET UniqueKeys,
        textures : [Resources -> Nat], limit : Nat, stale : BOOLEAN]
  BY <1>0, <1>2
<1> HIDE DEF f, g
<1>5. f \in FrameSet
  BY <1>1, <1>3, <1>4 DEF FrameSet
<1> QED
  BY <1>1, <1>2, <1>4, <1>5 DEF f, b

LEMMA LessFrame ==
  ASSUME NEW h \in FrameSet, h.at \in {"freed", "reset"}, NEW r \in Resources, h.textures[r] > 0
  PROVE  LET f == [h EXCEPT !.textures[r] = @ - 1] IN
         /\ f \in FrameSet /\ f.at = h.at
         /\ \A p \in Resources : f.textures[p] = IF p = r THEN h.textures[p] - 1 ELSE h.textures[p]
         /\ \A p \in Resources : h.textures[p] \in Nat
<1> DEFINE x == [h.textures EXCEPT ![r] = @ - 1]
           f == [h EXCEPT !.textures[r] = @ - 1]
           g == [h EXCEPT !.textures = x]
<1>1. f = g
  BY DEF FrameSet
<1>2. x \in [Resources -> Nat]
      /\ \A p \in Resources : x[p] = IF p = r THEN h.textures[p] - 1 ELSE h.textures[p]
  BY DEF FrameSet
<1>3. \A p \in Resources : h.textures[p] \in Nat
  BY DEF FrameSet
<1> HIDE DEF x
<1>4. g.at = h.at /\ g.textures = x /\ g \in FrameSet
  BY <1>2 DEF FrameSet
<1> HIDE DEF f, g
<1> QED
  BY <1>1, <1>2, <1>3, <1>4 DEF f

(* What one message does to the balance, and then its end; and what a      *)
(* reference dropped by the reset does.                                    *)
LEMMA Balances ==
  ASSUME NEW refs \in Nat, NEW W, NEW U, NEW X, NEW F, NEW m, NEW awaits \in BOOLEAN,
         NEW off \in BOOLEAN, Account(refs, W, U, X, F, m, awaits, off), refs > 0
  PROVE  /\ F >= 1 => Account(refs - 1, W, U + 1, X, F - 1, m, awaits, off)
         /\ X >= 1 => Account(refs - 1, W, U, X - 1, F, m, awaits, off)
<1>1. CASE off
  BY <1>1, BoundsAre DEF Account, Bounded
<1>2. CASE ~off
  BY <1>2, BoundsAre DEF Account, Balance
<1> QED
  BY <1>1, <1>2

(* The end of a message: one that was counted where it should, and one     *)
(* that was not.                                                           *)
LEMMA BalanceCounted ==
  ASSUME NEW refs \in Nat, NEW W, NEW U, NEW X, NEW F, NEW m, NEW awaits \in BOOLEAN,
         Balance(refs, W, U, X, F, m, awaits), U >= 1
  PROVE  W >= 1 /\ Balance(refs, W - 1, U - 1, X, F, m, awaits)
BY BoundsAre DEF Balance

LEMMA BalanceLost ==
  ASSUME NEW refs \in Nat, NEW W, NEW U, NEW X, NEW F, NEW m, NEW awaits \in BOOLEAN,
         Bounded(refs, W, U, X, F, m, awaits),
         NEW V \in Nat, V <= W, NEW T \in Nat, T <= U
  PROVE  Bounded(refs, V, T, X, F, m, awaits)
BY BoundsAre DEF Bounded

LEMMA OnTop ==
  ASSUME NEW s \in Calls, s # <<>>
  PROVE  \A l \in Tracked : \A r \in Resources :
           /\ Carried(Head(s), l, r) \in Nat /\ InFrames(s, l, r) \in Nat
           /\ Carried(Head(s), l, r) <= InFrames(s, l, r)
<1>1. \A l : \A r \in Resources :
        /\ InFrames(s, l, r) = Carried(Head(s), l, r) + InFrames(Tail(s), l, r)
        /\ Carried(Head(s), l, r) \in Nat /\ InFrames(Tail(s), l, r) \in Nat
  BY FramesPop
<1> QED
  BY <1>1

LEMMA ProcessFreedInv ==
  ASSUME CacheInv, NEW r \in Resources, ProcessFreed(r)
  PROVE  CacheInv'
<1> DEFINE h == Head(calls)
           rest == [h EXCEPT !.textures[r] = @ - 1]
           return == [Frame("unreffed") EXCEPT !.textures[r] = 1]
           q == AfterUnref(cache, r)
           d == Unreffed(cache, r)
           u == (q \o <<return, rest>>) \o Tail(calls)
           awaits == ~Ended \/ Resets(calls)
<1>1. /\ calls # <<>> /\ h.at = "freed" /\ h.textures[r] > 0 /\ cache.res[r].refs > 0
      /\ cache' = d /\ calls' = u
      /\ Sent' = Sent /\ Ended' = Ended /\ UNCHANGED <<inboxes, miscounted, context>>
  BY DEF ProcessFreed, Refers, At, Then, Sent, Ended, inboxes
<1>2. /\ h \in FrameSet /\ Good(cache) /\ Ended \in BOOLEAN /\ Fits(cache, calls, Sent, Ended)
      /\ calls \in Calls /\ Shaped(calls, Ended)
      /\ \A p \in Resources : Balanced(cache, calls, Sent, awaits, p) /\ cache.res[p].refs \in Nat
                              /\ Sent[p].off \in BOOLEAN
  BY <1>1, InvIs DEF CacheInv
<1>3. /\ rest \in FrameSet /\ rest.at = "freed"
      /\ \A p \in Resources : rest.textures[p] = IF p = r THEN h.textures[p] - 1 ELSE h.textures[p]
      /\ \A p \in Resources : h.textures[p] \in Nat
  BY <1>1, <1>2, LessFrame
<1>4. /\ return \in FrameSet /\ return.at = "unreffed"
      /\ \A p \in Resources : return.textures[p] = IF p = r THEN 1 ELSE 0
  BY UnreffedFrame
<1>5. q \in {<<>>, Purge}
  BY DEF AfterUnref
<1> HIDE DEF rest, return, h
<1>6. MayGoOn(calls, rest)
  BY <1>1, <1>3 DEF MayGoOn, h
<1>7. rest.at \in Plain /\ return.at \in Plain /\ rest.at # "purgeLoop"
  BY <1>3, <1>4 DEF Plain
<1> HIDE DEF q
<1>8. TwoWentOn(u, calls, rest, return, Ended)
  BY <1>1, <1>2, <1>3, <1>4, <1>5, <1>6, <1>7, TwoGoOn
<1> HIDE DEF u
<1>9. InFrames(calls, "freed", r) >= 1
  <2>1. Carried(h, "freed", r) >= 1 /\ Carried(h, "freed", r) <= InFrames(calls, "freed", r)
        /\ InFrames(calls, "freed", r) \in Nat /\ Carried(h, "freed", r) \in Nat
    BY <1>1, <1>2, <1>3, OnTop DEF Carried, Tracked, h
  <2> QED
    BY <2>1
<1>11. Good(d) /\ Effect(cache, d, r, -1)
  BY <1>1, <1>2, UnreffedGood
<1> HIDE DEF d
<1>12. ASSUME NEW p \in Resources
       PROVE  \/ Unmoved(cache, calls, Sent, d, u, Sent, p)
              \/ Balanced(d, u, Sent, ~Ended \/ Resets(u), p)
  <2>1. /\ InFrames(u, "unreffed", p) = InFrames(calls, "unreffed", p) - 0 + 0 + (IF p = r THEN 1 ELSE 0)
        /\ InFrames(u, "reset", p) = InFrames(calls, "reset", p) - 0 + 0 + 0
        /\ InFrames(u, "freed", p) = InFrames(calls, "freed", p) - h.textures[p] + rest.textures[p] + 0
        /\ InFrames(calls, "unreffed", p) \in Nat /\ InFrames(calls, "reset", p) \in Nat
        /\ InFrames(calls, "freed", p) \in Nat /\ h.textures[p] \in Nat
    BY <1>1, <1>3, <1>4, <1>8 DEF TwoWentOn, Tracked, Carried, h
  <2>2. CASE p # r
    <3>1. /\ InFrames(u, "unreffed", p) = InFrames(calls, "unreffed", p)
          /\ InFrames(u, "reset", p) = InFrames(calls, "reset", p)
          /\ InFrames(u, "freed", p) = InFrames(calls, "freed", p)
      BY <1>3, <2>1, <2>2
    <3> QED
      BY <1>11, <2>2, <3>1 DEF Unmoved, Tracked, Effect
  <2>3. CASE p = r
    <3>1. /\ InFrames(u, "unreffed", r) = InFrames(calls, "unreffed", r) + 1
          /\ InFrames(u, "reset", r) = InFrames(calls, "reset", r)
          /\ InFrames(u, "freed", r) = InFrames(calls, "freed", r) - 1
      BY <1>3, <2>1, <2>3
    <3>2. d.res[r].refs = cache.res[r].refs - 1
          /\ d.fTexturesAwaitingUnref[r] = cache.fTexturesAwaitingUnref[r]
      BY <1>2, <1>11 DEF Effect
    <3>3. Account(cache.res[r].refs - 1, cache.fTexturesAwaitingUnref[r],
                  InFrames(calls, "unreffed", r) + 1, InFrames(calls, "reset", r),
                  InFrames(calls, "freed", r) - 1, Sent[r].n, awaits, Sent[r].off)
      <4>1. /\ cache.res[r].refs \in Nat /\ cache.res[r].refs > 0
            /\ awaits \in BOOLEAN /\ Sent[r].off \in BOOLEAN
            /\ Account(cache.res[r].refs, cache.fTexturesAwaitingUnref[r],
                       InFrames(calls, "unreffed", r), InFrames(calls, "reset", r),
                       InFrames(calls, "freed", r), Sent[r].n, awaits, Sent[r].off)
        BY <1>1, <1>2 DEF Balanced, Resets
      <4> QED
        BY ONLY <1>9, <4>1, Balances
    <3>4. awaits = (~Ended \/ Resets(u))
      BY <1>8 DEF TwoWentOn
    <3>5. Balanced(d, u, Sent, awaits, r)
      BY <3>1, <3>2, <3>3 DEF Balanced
    <3> QED
      BY <2>3, <3>4, <3>5
  <2> QED
    BY <2>2, <2>3
<1>13. Fits(d, u, Sent, Ended)
  BY <1>2, <1>8, <1>11, <1>12, FitsMoved DEF TwoWentOn
<1> QED
  BY <1>1, <1>13 DEF CacheInv, inboxes

(* The marks on the pointers that calls keep change nothing else.          *)
LEMMA StaleCalls ==
  ASSUME NEW t \in Calls
  PROVE  /\ Stale(t) \in Calls /\ Len(Stale(t)) = Len(t) /\ (Stale(t) = <<>> <=> t = <<>>)
         /\ \A ended : Shaped(Stale(t), ended) <=> Shaped(t, ended)
         /\ Resets(Stale(t)) <=> Resets(t)
         /\ \A l : \A r \in Resources : InFrames(Stale(t), l, r) = InFrames(t, l, r)
<1> DEFINE g(i) == [t[i] EXCEPT !.stale = @ \/ t[i].at = "unreffed"]
           n == Len(t)
           u == [i \in 1 .. n |-> g(i)]
<1>1. t \in [1 .. n -> FrameSet] /\ n \in Nat /\ DOMAIN t = 1 .. n
  BY LenProperties DEF Calls
<1>2. \A i \in 1 .. n : /\ g(i) \in FrameSet /\ g(i).at = t[i].at
                        /\ g(i).textures = t[i].textures
  <2> SUFFICES ASSUME NEW f \in FrameSet
               PROVE  LET h == [f EXCEPT !.stale = @ \/ f.at = "unreffed"] IN
                      h \in FrameSet /\ h.at = f.at /\ h.textures = f.textures
    BY <1>1
  <2> QED
    BY DEF FrameSet
<1>3. Stale(t) = u
  BY <1>1 DEF Stale
<1> HIDE DEF g, n
<1>4. u \in Calls /\ Len(u) = n /\ \A i \in 1 .. n : u[i] = g(i)
  <2>1. u \in [1 .. n -> FrameSet] /\ \A i \in 1 .. n : u[i] = g(i)
    BY <1>2
  <2> HIDE DEF u
  <2> QED
    BY <1>1, <2>1, SeqDef, LenProperties DEF Calls
<1> HIDE DEF u
<1>5. n = Len(t)
  BY DEF n
<1>6. u = <<>> <=> t = <<>>
  BY <1>1, <1>4, <1>5, EmptySeq DEF Calls
<1>7. \A ended : Shaped(u, ended) <=> Shaped(t, ended)
  BY <1>2, <1>4, <1>5 DEF Shaped
<1>8. Resets(u) <=> Resets(t)
  BY <1>2, <1>4, <1>5 DEF Resets
<1>9. ASSUME NEW l, NEW r \in Resources PROVE InFrames(u, l, r) = InFrames(t, l, r)
  <2>1. \A i \in 1 .. n : Carried(u[i], l, r) = Carried(t[i], l, r)
    BY <1>2, <1>4 DEF Carried
  <2>2. Load(u, l, r) = Load(t, l, r)
    BY <1>4, <1>5, <2>1 DEF Load
  <2> QED
    BY <1>4, <1>5, <2>2 DEF InFrames
<1> QED
  BY <1>3, <1>4, <1>5, <1>6, <1>7, <1>8, <1>9

LEMMA FitsStale ==
  ASSUME NEW c, NEW s, NEW sent, NEW ended \in BOOLEAN, Fits(c, s, sent, ended)
  PROVE  Fits(c, Stale(s), sent, ended)
<1> DEFINE u == Stale(s)
<1>1. s \in Calls /\ Shaped(s, ended)
  BY DEF Fits
<1>2. /\ u \in Calls /\ (u = <<>> <=> s = <<>>) /\ Shaped(u, ended)
      /\ Resets(u) <=> Resets(s)
      /\ \A l : \A r \in Resources : InFrames(u, l, r) = InFrames(s, l, r)
  BY <1>1, StaleCalls
<1> HIDE DEF u
<1>3. (~ended \/ Resets(u)) = (~ended \/ Resets(s))
  BY <1>2 DEF Resets
<1>4. ASSUME NEW r \in Resources PROVE Balanced(c, u, sent, ~ended \/ Resets(u), r)
  <2>1. Balanced(c, s, sent, ~ended \/ Resets(s), r)
    BY DEF Fits
  <2> QED
    BY <1>2, <1>3, <2>1 DEF Balanced
<1> QED
  BY <1>2, <1>4 DEF Fits, u

(* What the end of a message does to the table: the count that the pointer *)
(* leads to goes down, and the entry of r with it when that was the last.  *)
AwaitingAfter(r, q) ==
  LET counts == q # Null /\ HasEntry(q)
      finished == counts /\ cache.fTexturesAwaitingUnref[q] = 1
  IN [p \in Resources |->
        IF p = r /\ finished THEN 0
        ELSE cache.fTexturesAwaitingUnref[p] - Count(p = q /\ counts)]
Miscounts(r, q) == IF q = r THEN {} ELSE {r, q} \ {Null}

LEMMA AwaitingAfterIs ==
  ASSUME NEW W, W = cache.fTexturesAwaitingUnref, \A p \in Resources : W[p] \in Nat,
         NEW r \in Resources, NEW q \in Resources \union {Null}
  PROVE  /\ AwaitingAfter(r, q) \in [Resources -> Nat]
         /\ \A p \in Resources : AwaitingAfter(r, q)[p] <= W[p]
         /\ \A p \in Resources \ {r, q} : AwaitingAfter(r, q)[p] = W[p]
         /\ W[r] >= 1 => AwaitingAfter(r, r)[r] = W[r] - 1
         /\ Miscounts(r, q) \subseteq Resources
         /\ \A p \in Resources : p \in {r, q} /\ p \notin Miscounts(r, q) => p = r /\ q = r
<1> DEFINE counts == q # Null /\ HasEntry(q)
           finished == counts /\ W[q] = 1
           A == AwaitingAfter(r, q)
<1>1. \A p \in Resources : A[p] = IF p = r /\ finished THEN 0 ELSE W[p] - Count(p = q /\ counts)
  BY DEF AwaitingAfter
<1>2. \A p \in Resources : p = q /\ counts => W[p] >= 1
  BY DEF HasEntry
<1>3. ASSUME NEW p \in Resources PROVE A[p] \in Nat /\ A[p] <= W[p]
  <2>1. CASE p = r /\ finished
    <3>1. A[p] = 0
      BY <1>1, <2>1
    <3> QED
      BY <3>1
  <2>2. CASE ~(p = r /\ finished)
    <3>1. A[p] = W[p] - Count(p = q /\ counts)
      BY <1>1, <2>2
    <3>2. Count(p = q /\ counts) \in {0, 1} /\ (Count(p = q /\ counts) = 1 => W[p] >= 1)
      BY <1>2 DEF Count
    <3> QED
      BY <3>1, <3>2
  <2> QED
    BY <2>1, <2>2
<1>4. ASSUME NEW p \in Resources \ {r, q} PROVE A[p] = W[p]
  <2>1. A[p] = W[p] - Count(p = q /\ counts) /\ Count(p = q /\ counts) = 0
    BY <1>1 DEF Count
  <2> QED
    BY <2>1
<1>5. A \in [Resources -> Nat]
  <2>1. DOMAIN A = Resources /\ A = [p \in Resources |-> A[p]]
    BY DEF AwaitingAfter
  <2> HIDE DEF A
  <2> QED
    BY <1>3, <2>1
<1>6. ASSUME W[r] >= 1 PROVE AwaitingAfter(r, r)[r] = W[r] - 1
  <2>1. r # Null /\ HasEntry(r) /\ W[r] \in Nat
    BY <1>6, BoundsAre DEF HasEntry
  <2>2. AwaitingAfter(r, r)[r] = IF W[r] = 1 THEN 0 ELSE W[r] - 1
    BY <2>1 DEF AwaitingAfter, Count
  <2> QED
    BY <2>1, <2>2
<1>7. /\ Miscounts(r, q) \subseteq Resources
      /\ \A p \in Resources : p \in {r, q} /\ p \notin Miscounts(r, q) => p = r /\ q = r
  BY BoundsAre DEF Miscounts
<1> QED
  BY <1>3, <1>4, <1>5, <1>6, <1>7

LEMMA CountUnrefInv ==
  ASSUME CacheInv, NEW r \in Resources, CountUnref(r)
  PROVE  CacheInv'
<1> DEFINE h == Head(calls)
           t == Tail(calls)
           W == cache.fTexturesAwaitingUnref
           awaits == ~Ended \/ Resets(calls)
<1>1. PICK q \in Pointed(r) :
        /\ cache' = [cache EXCEPT !.fTexturesAwaitingUnref = AwaitingAfter(r, q)]
        /\ calls' = t \/ calls' = Stale(t)
        /\ miscounted' = miscounted \union Miscounts(r, q)
        /\ UNCHANGED <<inboxes, context>>
  BY DEF CountUnref, AwaitingAfter, Miscounts
<1>2. /\ calls # <<>> /\ h.at = "unreffed" /\ h.textures[r] = 1 /\ Ended' = Ended
      /\ UNCHANGED <<fInvalidUniqueKeyInbox, fFreedTextureInbox, owed>>
  BY <1>1 DEF CountUnref, At, Ended, inboxes
<1>3. q \in Resources \union {Null}
  BY DEF Pointed
<1>4. /\ h \in FrameSet /\ Good(cache) /\ cache \in Caches
      /\ Ended \in BOOLEAN /\ Fits(cache, calls, Sent, Ended) /\ calls \in Calls
      /\ miscounted \subseteq Resources
      /\ \A p \in Resources : /\ Balanced(cache, calls, Sent, awaits, p)
                              /\ cache.res[p].refs \in Nat /\ W[p] \in Nat
                              /\ Sent[p].n = owed[p] + fFreedTextureInbox[p]
                              /\ Sent[p].off = (p \in miscounted) /\ Sent[p].off \in BOOLEAN
  BY <1>2, InvIs DEF CacheInv
<1> DEFINE awaited == AwaitingAfter(r, q)
           d == [cache EXCEPT !.fTexturesAwaitingUnref = awaited]
           post == [p \in Resources |->
                      [n |-> owed[p] + fFreedTextureInbox[p],
                       off |-> p \in miscounted \union Miscounts(r, q)]]
<1>5. /\ awaited \in [Resources -> Nat]
      /\ \A p \in Resources : awaited[p] \in Nat /\ awaited[p] <= W[p]
      /\ \A p \in Resources \ {r, q} : awaited[p] = W[p]
      /\ q = r /\ W[r] >= 1 => awaited[r] = W[r] - 1
      /\ Miscounts(r, q) \subseteq Resources
      /\ \A p \in Resources : p \in {r, q} /\ p \notin Miscounts(r, q) => p = r /\ q = r
  BY <1>3, <1>4, AwaitingAfterIs
<1>6. /\ Sent' = post
      /\ \A p \in Resources : /\ post[p].n = Sent[p].n /\ post[p].off \in BOOLEAN
                              /\ ~post[p].off => ~Sent[p].off /\ p \notin Miscounts(r, q)
  <2>1. Sent' = post
    BY <1>1, <1>2 DEF Sent
  <2>2. ASSUME NEW p \in Resources
        PROVE  /\ post[p].n = Sent[p].n /\ post[p].off \in BOOLEAN
               /\ ~post[p].off => ~Sent[p].off /\ p \notin Miscounts(r, q)
    <3>1. post[p].n = owed[p] + fFreedTextureInbox[p]
      OBVIOUS
    <3>2. post[p].off = (p \in miscounted \union Miscounts(r, q))
      OBVIOUS
    <3>3. /\ Sent[p].n = owed[p] + fFreedTextureInbox[p]
          /\ Sent[p].off = (p \in miscounted) /\ Sent[p].off \in BOOLEAN
      BY <1>4
    <3> HIDE DEF post
    <3>4. (p \in miscounted \union Miscounts(r, q)) \in BOOLEAN
      OBVIOUS
    <3>5. post[p].off \in BOOLEAN
      BY <3>2, <3>4
    <3>6. ASSUME ~post[p].off PROVE ~Sent[p].off /\ p \notin Miscounts(r, q)
      <4>1. p \notin miscounted /\ p \notin Miscounts(r, q)
        BY <3>2, <3>6
      <4> QED
        BY <3>3, <4>1
    <3> QED
      BY <3>1, <3>3, <3>5, <3>6
  <2> QED
    BY <2>1, <2>2
<1>7. cache' = d
  BY <1>1
<1> HIDE DEF awaited, post
<1>8. Good(d) /\ d.res = cache.res /\ d.fTexturesAwaitingUnref = awaited
  <2>1. awaited \in [Resources -> Int]
    BY <1>5
  <2> QED
    BY <1>4, <2>1, AwaitingGood
<1> HIDE DEF d
<1>9. \A p \in Resources : h.textures[p] = IF p = r THEN 1 ELSE 0
  <2>1. PICK o \in Resources : h.textures = [NoTextures EXCEPT ![o] = 1]
    BY <1>2, <1>4 DEF FrameSet
  <2>2. \A p \in Resources : h.textures[p] = IF p = o THEN 1 ELSE 0
    BY <2>1, FramesTyped
  <2>3. o = r
    BY <1>2, <2>2
  <2> QED
    BY <2>2, <2>3
<1> HIDE DEF h, t, W
<1>10. \A p \in Resources :
         /\ Carried(h, "unreffed", p) = IF p = r THEN 1 ELSE 0
         /\ Carried(h, "reset", p) = 0 /\ Carried(h, "freed", p) = 0
  BY <1>2, <1>9 DEF Carried
<1>11. /\ \A p \in Resources : \A l \in Tracked :
            InFrames(calls, l, p) = Carried(h, l, p) + InFrames(t, l, p) /\ InFrames(t, l, p) \in Nat
       /\ Resets(calls) <=> Resets(t)
  <2>1. Shaped(calls, Ended) /\ h.at # "resetAwaiting"
    BY <1>2, <1>4 DEF Fits
  <2> QED
    BY <1>2, <1>4, <2>1, CallReturned DEF h, t
<1>12. ASSUME NEW p \in Resources PROVE Balanced(d, t, post, awaits, p)
  <2> DEFINE U == InFrames(calls, "unreffed", p)
             T == InFrames(t, "unreffed", p)
             X == InFrames(calls, "reset", p)
             F == InFrames(calls, "freed", p)
             n == cache.res[p].refs
             m == Sent[p].n
  <2>1. /\ U = (IF p = r THEN 1 ELSE 0) + T /\ T \in Nat
        /\ InFrames(t, "reset", p) = X /\ InFrames(t, "freed", p) = F
    <3>1. /\ U = (IF p = r THEN 1 ELSE 0) + T
          /\ X = 0 + InFrames(t, "reset", p) /\ F = 0 + InFrames(t, "freed", p)
          /\ T \in Nat /\ InFrames(t, "reset", p) \in Nat /\ InFrames(t, "freed", p) \in Nat
      BY <1>10, <1>11 DEF Tracked
    <3> HIDE DEF U, T, X, F
    <3> QED
      BY <3>1
  <2>2. T <= U /\ (p = r => U >= 1 /\ T = U - 1) /\ (p # r => T = U) /\ U \in Nat
    <3> HIDE DEF U, T, X, F
    <3> QED
      BY <2>1
  <2>3. /\ Account(n, W[p], U, X, F, m, awaits, Sent[p].off) /\ n \in Nat /\ W[p] \in Nat
        /\ awaits \in BOOLEAN
    BY <1>4 DEF Balanced, W, Resets
  <2>4. /\ d.res[p].refs = n /\ d.fTexturesAwaitingUnref[p] = awaited[p]
        /\ post[p].n = m
    BY <1>6, <1>8
  <2> SUFFICES Account(n, awaited[p], T, X, F, m, awaits, post[p].off)
    BY <2>1, <2>4 DEF Balanced
  <2> HIDE DEF U, T, X, F, n, m, awaits
  <2>5. CASE post[p].off
    <3>1. Bounded(n, W[p], U, X, F, m, awaits)
      BY <1>4, <2>3, BalanceBounds
    <3>2. Bounded(n, awaited[p], T, X, F, m, awaits)
      BY <1>5, <2>1, <2>2, <2>3, <3>1, BalanceLost
    <3> QED
      BY <2>5, <3>2 DEF Account
  <2>6. CASE ~post[p].off
    <3>1. ~Sent[p].off /\ p \notin Miscounts(r, q)
      BY <1>4, <1>6, <2>6
    <3>2. Balance(n, W[p], U, X, F, m, awaits)
      BY <2>3, <3>1 DEF Account
    <3>3. CASE p = r
      <4>1. q = r /\ W[p] >= 1 /\ Balance(n, W[p] - 1, U - 1, X, F, m, awaits)
        BY <1>5, <2>2, <2>3, <3>1, <3>2, <3>3, BalanceCounted
      <4>2. awaited[p] = W[p] - 1 /\ T = U - 1
        BY <1>5, <2>2, <3>3, <4>1
      <4> QED
        BY <2>6, <4>1, <4>2 DEF Account
    <3>4. CASE p # r
      <4>1. p # q
        BY <1>5, <3>1, <3>4
      <4>2. awaited[p] = W[p] /\ T = U
        BY <1>5, <2>2, <3>4, <4>1
      <4> QED
        BY <2>6, <3>2, <4>2 DEF Account
    <3> QED
      BY <3>3, <3>4
  <2> QED
    BY <1>6, <2>5, <2>6
<1>13. Fits(d, t, post, Ended)
  <2>1. h.at # "resetAwaiting" /\ h.at # "destroyAll"
    BY <1>2
  <2> QED
    BY <1>2, <1>4, <1>8, <1>12, <2>1, FitsReturned DEF h, t
<1>14. Fits(d, calls', post, Ended)
  BY <1>1, <1>4, <1>13, FitsStale DEF t
<1>15. miscounted' \subseteq Resources
  BY <1>1, <1>4, <1>5
<1> QED
  BY <1>1, <1>2, <1>6, <1>7, <1>14, <1>15 DEF CacheInv, inboxes

LEMMA PurgeLoopInv ==
  ASSUME CacheInv, PurgeLoop
  PROVE  CacheInv'
<1> DEFINE r == Oldest(cache, cache.fPurgeableQueue)
           d == Destroyed(cache, r)
<1>1. /\ calls # <<>> /\ cache.fPurgeableQueue # {} /\ cache' = d /\ calls' = calls
      /\ Sent' = Sent /\ Ended' = Ended /\ UNCHANGED <<inboxes, miscounted, context>>
  BY DEF PurgeLoop, At, Do, Sent, Ended, inboxes
<1>2. /\ Good(cache) /\ cache \in Caches /\ Ended \in BOOLEAN /\ Fits(cache, calls, Sent, Ended)
      /\ calls \in Calls /\ Shaped(calls, Ended)
  BY <1>1, InvIs DEF CacheInv
<1>3. r \in cache.fPurgeableQueue
  <2>1. cache.fPurgeableQueue \in SUBSET Resources
    BY <1>2 DEF Caches
  <2> QED
    BY <1>1, <1>2, <2>1, OldestIs
<1> HIDE DEF r
<1>4. Good(d) /\ Kept(cache, d)
  BY <1>2, <1>3, PurgedKept
<1> HIDE DEF d
<1>5. \A p \in Resources : Unmoved(cache, calls, Sent, d, calls, Sent, p)
  BY <1>4 DEF Kept, Unmoved
<1>6. Fits(d, calls, Sent, Ended)
  BY <1>1, <1>2, <1>4, <1>5, FitsMoved
<1> QED
  BY <1>1, <1>6 DEF CacheInv, inboxes

LEMMA PurgedInv ==
  ASSUME CacheInv, Purged
  PROVE  CacheInv'
<1> DEFINE h == Head(calls)
           d == [cache EXCEPT !.fMaxBytes = h.limit]
<1>1. /\ calls # <<>> /\ h.at = "purged" /\ cache' = d /\ calls' = Tail(calls)
      /\ Sent' = Sent /\ Ended' = Ended /\ UNCHANGED <<inboxes, miscounted, context>>
  BY DEF Purged, At, Do, Sent, Ended, inboxes
<1>2. Good(cache) /\ Ended \in BOOLEAN /\ Fits(cache, calls, Sent, Ended) /\ h.limit \in Nat
  BY <1>1, InvIs DEF CacheInv
<1> HIDE DEF h
<1>3. Good(d) /\ d.res = cache.res /\ d.fTexturesAwaitingUnref = cache.fTexturesAwaitingUnref
  BY <1>2, LimitGood
<1> HIDE DEF d
<1>4. \A p \in Resources : \A l \in Tracked : Carried(h, l, p) = 0
  BY <1>1 DEF Carried, Tracked
<1>5. Fits(d, Tail(calls), Sent, Ended)
  BY <1>1, <1>2, <1>3, <1>4, FitsReturned DEF h
<1> QED
  BY <1>1, <1>5 DEF CacheInv, inboxes

LEMMA ResetAwaitingInv ==
  ASSUME CacheInv, ResetAwaiting
  PROVE  CacheInv'
<1> DEFINE h == Head(calls)
           t == Tail(calls)
           awaited == cache.fTexturesAwaitingUnref
           g == Frame("reset")
           f == [g EXCEPT !.textures = awaited]
           u == <<f>> \o t
           d == [cache EXCEPT !.fTexturesAwaitingUnref = NoTextures]
<1>1. /\ calls # <<>> /\ h.at = "resetAwaiting" /\ cache' = d /\ calls' = u
      /\ Sent' = Sent /\ Ended' = Ended /\ UNCHANGED <<inboxes, miscounted, context>>
  BY DEF ResetAwaiting, At, Do, Sent, Ended, inboxes
<1>2. /\ Good(cache) /\ cache \in Caches /\ Ended \in BOOLEAN /\ Fits(cache, calls, Sent, Ended)
      /\ calls \in Calls /\ Shaped(calls, Ended)
      /\ \A p \in Resources : /\ Balanced(cache, calls, Sent, ~Ended \/ Resets(calls), p)
                              /\ cache.fTexturesAwaitingUnref[p] \in Nat
                              /\ Sent[p].off \in BOOLEAN
  BY <1>1, InvIs DEF CacheInv
<1>3. /\ h \in FrameSet /\ t \in Calls /\ Shaped(t, Ended) /\ Len(t) \in Nat
      /\ h.at \in Allowed(Ended, Len(t)) /\ Resets(calls)
      /\ \A l : \A p \in Resources :
           InFrames(calls, l, p) = Carried(h, l, p) + InFrames(t, l, p) /\ InFrames(t, l, p) \in Nat
  BY <1>1, <1>2, CallReturned
<1>4. Ended = TRUE /\ Len(t) = 1
  BY <1>1, <1>2, <1>3 DEF Allowed, Plain
<1> HIDE DEF h, t
<1>5. ~Resets(t) /\ \A l \in Tracked : \A p \in Resources : InFrames(t, l, p) = 0
  <2> DEFINE k == Head(t)
             b == Tail(t)
  <2>1. t # <<>>
    BY <1>4, PutOnNothing
  <2>2. /\ b \in Calls /\ Len(b) \in Nat /\ k.at \in Allowed(TRUE, Len(b))
        /\ k.at # "resetAwaiting" => (Resets(t) <=> Resets(b))
        /\ \A l : \A p \in Resources : InFrames(t, l, p) = Carried(k, l, p) + InFrames(b, l, p)
    BY <1>3, <1>4, <2>1, CallReturned
  <2>3. Len(b) = 0 /\ b = <<>>
    <3>1. Len(b) = Len(t) - 1 /\ b \in Seq(FrameSet)
      BY <1>3, <2>1, FramesPop DEF Calls
    <3> HIDE DEF b
    <3>2. Len(b) = 0
      BY <1>4, <3>1
    <3> QED
      BY <3>1, <3>2, EmptySeq
  <2> HIDE DEF k, b
  <2>4. k.at = "destroyAll"
    BY <2>2, <2>3 DEF Allowed
  <2>5. ~Resets(b) /\ \A l : \A p \in Resources : InFrames(b, l, p) = 0
    BY <2>3, NothingBegun DEF Begun
  <2> QED
    BY <2>2, <2>4, <2>5 DEF Carried, Tracked
<1>6. g \in FrameSet /\ g.at = "reset" /\ awaited \in [Resources -> Nat]
  <2>1. awaited \in [Resources -> Int] /\ \A p \in Resources : awaited[p] \in Nat
    BY <1>2 DEF Caches
  <2>2. g \in FrameSet /\ g.at = "reset"
    BY FramesTyped DEF Labels
  <2> HIDE DEF awaited
  <2> QED
    BY <2>1, <2>2
<1> HIDE DEF g
<1>7. f \in FrameSet /\ f.at = "reset" /\ f.textures = awaited
  <2> HIDE DEF awaited
  <2> QED
    BY <1>6 DEF FrameSet
<1> HIDE DEF f
<1>8. /\ u \in Calls /\ u # <<>> /\ Shaped(u, Ended) /\ ~Resets(u)
      /\ \A l : \A p \in Resources : InFrames(u, l, p) = Carried(f, l, p) + InFrames(t, l, p)
  <2>1. f.at \in Allowed(TRUE, Len(t)) /\ f.at # "resetAwaiting" /\ Shaped(t, TRUE)
    <3>1. "reset" \in Allowed(TRUE, 1)
      BY DEF Allowed
    <3>2. Shaped(t, TRUE)
      BY <1>3, <1>4
    <3> QED
      BY <1>4, <1>7, <3>1, <3>2
  <2>2. /\ u \in Calls /\ u # <<>> /\ (Resets(u) <=> Resets(t))
        /\ Shaped(u, TRUE)
        /\ \A l : \A p \in Resources : InFrames(u, l, p) = Carried(f, l, p) + InFrames(t, l, p)
    <3>1. /\ u \in Calls /\ u # <<>>
          /\ \A l : \A p \in Resources : InFrames(u, l, p) = Carried(f, l, p) + InFrames(t, l, p)
          /\ \A ended \in BOOLEAN :
               Shaped(u, ended) <=> Shaped(t, ended) /\ f.at \in Allowed(ended, Len(t))
          /\ Resets(u) <=> f.at = "resetAwaiting" \/ Resets(t)
      BY <1>3, <1>7, PutOn
    <3> HIDE DEF u
    <3> QED
      BY <2>1, <3>1
  <2> HIDE DEF u
  <2> QED
    BY <1>4, <1>5, <2>2
<1> HIDE DEF u
<1>9. NoTextures \in [Resources -> Int] /\ \A p \in Resources : NoTextures[p] = 0
  BY FramesTyped
<1>10. Good(d) /\ d.res = cache.res /\ d.fTexturesAwaitingUnref = NoTextures
  BY <1>2, <1>9, AwaitingGood
<1> HIDE DEF d
<1>11. ASSUME NEW p \in Resources PROVE Balanced(d, u, Sent, ~Ended \/ Resets(u), p)
  <2>1. /\ InFrames(calls, "unreffed", p) = 0 + 0 /\ InFrames(calls, "reset", p) = 0 + 0
        /\ InFrames(calls, "freed", p) = 0 + 0
    BY <1>1, <1>3, <1>5 DEF Tracked, Carried
  <2>2. /\ InFrames(u, "unreffed", p) = 0 + 0 /\ InFrames(u, "reset", p) = awaited[p] + 0
        /\ InFrames(u, "freed", p) = 0 + 0
    BY <1>5, <1>7, <1>8 DEF Tracked, Carried
  <2>3. Balanced(cache, calls, Sent, TRUE, p) /\ awaited[p] \in Nat /\ cache.res[p].refs \in Nat
    BY <1>1, <1>2, <1>3, InvIs
  <2>4. Balanced(d, u, Sent, FALSE, p)
    <3>1. CASE Sent[p].off
      BY <1>9, <1>10, <2>1, <2>2, <2>3, <3>1, BoundsAre DEF Balanced, Account, Bounded
    <3>2. CASE ~Sent[p].off
      BY <1>9, <1>10, <2>1, <2>2, <2>3, <3>2, BoundsAre DEF Balanced, Account, Balance
    <3> QED
      BY <1>2, <3>1, <3>2
  <2> QED
    BY <1>4, <1>8, <2>4
<1>12. Fits(d, u, Sent, Ended)
  BY <1>4, <1>8, <1>10, <1>11 DEF Fits
<1> QED
  BY <1>1, <1>12 DEF CacheInv, inboxes

LEMMA UnrefAwaitingInv ==
  ASSUME CacheInv, NEW r \in Resources, UnrefAwaiting(r)
  PROVE  CacheInv'
<1> DEFINE h == Head(calls)
           rest == [h EXCEPT !.textures[r] = @ - 1]
           q == AfterUnref(cache, r)
           d == Unreffed(cache, r)
           awaits == ~Ended \/ Resets(calls)
<1>1. /\ calls # <<>> /\ h.at = "reset" /\ h.textures[r] > 0 /\ cache.res[r].refs > 0
      /\ cache' = d /\ calls' = (q \o <<rest>>) \o Tail(calls)
      /\ Sent' = Sent /\ Ended' = Ended /\ UNCHANGED <<inboxes, miscounted, context>>
  BY DEF UnrefAwaiting, Refers, At, Do, Sent, Ended, inboxes
<1>2. /\ h \in FrameSet /\ Good(cache) /\ Ended \in BOOLEAN /\ Fits(cache, calls, Sent, Ended)
      /\ calls \in Calls /\ Shaped(calls, Ended)
      /\ \A p \in Resources : Balanced(cache, calls, Sent, awaits, p) /\ cache.res[p].refs \in Nat
                              /\ Sent[p].off \in BOOLEAN
  BY <1>1, InvIs DEF CacheInv
<1>3. /\ rest \in FrameSet /\ rest.at = "reset"
      /\ \A p \in Resources : rest.textures[p] = IF p = r THEN h.textures[p] - 1 ELSE h.textures[p]
      /\ \A p \in Resources : h.textures[p] \in Nat
  BY <1>1, <1>2, LessFrame
<1>4. q \in {<<>>, Purge}
  BY DEF AfterUnref
<1> HIDE DEF rest, h, q
<1>5. MayGoOn(calls, rest)
  BY <1>1, <1>3 DEF MayGoOn, h
<1>6. InFrames(calls, "reset", r) >= 1
  <2>1. Carried(h, "reset", r) >= 1 /\ Carried(h, "reset", r) <= InFrames(calls, "reset", r)
        /\ InFrames(calls, "reset", r) \in Nat /\ Carried(h, "reset", r) \in Nat
    BY <1>1, <1>2, <1>3, OnTop DEF Carried, Tracked, h
  <2> QED
    BY <2>1
<1>8. Good(d) /\ Effect(cache, d, r, -1)
  BY <1>1, <1>2, UnreffedGood
<1> HIDE DEF d
<1>9. ASSUME NEW p \in Resources PROVE GoesOnAs(cache, calls, Sent, d, rest, Sent, awaits, p)
  <2>1. CASE p # r
    <3>1. \A l \in Tracked : Carried(h, l, p) = Carried(rest, l, p)
      BY <1>1, <1>3, <2>1 DEF Carried, Tracked
    <3> QED
      BY <1>8, <2>1, <3>1 DEF GoesOnAs, Effect, h
  <2>2. CASE p = r
    <3>1. ASSUME NEW u, Carries(u, calls, rest, r) PROVE Balanced(d, u, Sent, awaits, r)
      <4>1. /\ InFrames(u, "unreffed", r) = InFrames(calls, "unreffed", r) - 0 + 0
            /\ InFrames(u, "reset", r) = InFrames(calls, "reset", r) - h.textures[r] + (h.textures[r] - 1)
            /\ InFrames(u, "freed", r) = InFrames(calls, "freed", r) - 0 + 0
            /\ InFrames(calls, "unreffed", r) \in Nat /\ InFrames(calls, "reset", r) \in Nat
            /\ InFrames(calls, "freed", r) \in Nat /\ h.textures[r] \in Nat
        BY <1>1, <1>2, <1>3, <3>1, OnTop DEF Carries, Tracked, Carried, h
      <4>2. /\ InFrames(u, "unreffed", r) = InFrames(calls, "unreffed", r)
            /\ InFrames(u, "reset", r) = InFrames(calls, "reset", r) - 1
            /\ InFrames(u, "freed", r) = InFrames(calls, "freed", r)
        BY <4>1
      <4>3. d.res[r].refs = cache.res[r].refs - 1
            /\ d.fTexturesAwaitingUnref[r] = cache.fTexturesAwaitingUnref[r]
        BY <1>2, <1>8 DEF Effect
      <4>4. Account(cache.res[r].refs - 1, cache.fTexturesAwaitingUnref[r],
                    InFrames(calls, "unreffed", r), InFrames(calls, "reset", r) - 1,
                    InFrames(calls, "freed", r), Sent[r].n, awaits, Sent[r].off)
        <5>1. /\ cache.res[r].refs \in Nat /\ cache.res[r].refs > 0
              /\ awaits \in BOOLEAN /\ Sent[r].off \in BOOLEAN
              /\ Account(cache.res[r].refs, cache.fTexturesAwaitingUnref[r],
                         InFrames(calls, "unreffed", r), InFrames(calls, "reset", r),
                         InFrames(calls, "freed", r), Sent[r].n, awaits, Sent[r].off)
          BY <1>1, <1>2 DEF Balanced, Resets
        <5> QED
          BY ONLY <1>6, <5>1, Balances
      <4> QED
        BY <4>2, <4>3, <4>4 DEF Balanced
    <3> QED
      BY <2>2, <3>1 DEF GoesOnAs
  <2> QED
    BY <2>1, <2>2
<1>10. Fits(d, (q \o <<rest>>) \o Tail(calls), Sent, Ended)
  BY <1>1, <1>2, <1>3, <1>4, <1>5, <1>8, <1>9, FitsGoesOn
<1> QED
  BY <1>1, <1>10 DEF CacheInv, inboxes

LEMMA DestroyAllInv ==
  ASSUME CacheInv, NEW r \in Resources, DestroyAll(r)
  PROVE  CacheInv'
<1> DEFINE d == Destroyed(cache, r)
<1>1. /\ calls # <<>> /\ r \in InCache(cache) /\ cache' = d /\ calls' = calls
      /\ Sent' = Sent /\ Ended' = Ended /\ UNCHANGED <<inboxes, miscounted, context>>
  BY DEF DestroyAll, At, Do, Sent, Ended, inboxes
<1>2. /\ Good(cache) /\ cache \in Caches /\ Ended \in BOOLEAN /\ Fits(cache, calls, Sent, Ended)
      /\ calls \in Calls /\ Shaped(calls, Ended)
      /\ \A p \in Resources : cache.res[p].refs \in Nat
  BY <1>1, InvIs DEF CacheInv
<1>3. cache.res[r].state = "cached" /\ \A q \in cache.fPurgeableQueue : Budgeted(cache, q)
  BY <1>1, <1>2, GoodIs DEF Good, PaidFor
<1>4. Good(d) /\ Effect(cache, d, r, 0)
  BY <1>2, <1>3, DestroyedGood DEF Good
<1> HIDE DEF d
<1>5. \A p \in Resources : Unmoved(cache, calls, Sent, d, calls, Sent, p)
  BY <1>2, <1>4 DEF Effect, Unmoved
<1>6. Fits(d, calls, Sent, Ended)
  BY <1>1, <1>2, <1>4, <1>5, FitsMoved
<1> QED
  BY <1>1, <1>6 DEF CacheInv, inboxes

LEMMA ReturnInv ==
  ASSUME CacheInv, Return
  PROVE  CacheInv'
<1> DEFINE h == Head(calls)
<1>1. /\ calls # <<>> /\ cache' = cache /\ calls' = Tail(calls)
      /\ Sent' = Sent /\ Ended' = Ended /\ UNCHANGED <<inboxes, miscounted, context>>
      /\ \/ h.at \in {"invalid", "purgeLoop"}
         \/ h.at \in {"freed", "reset"} /\ h.textures = NoTextures
         \/ h.at = "destroyAll" /\ InCache(cache) = {}
  BY DEF Return, Do, Sent, Ended, inboxes
<1>2. Good(cache) /\ Ended \in BOOLEAN /\ Fits(cache, calls, Sent, Ended)
  BY <1>1, InvIs DEF CacheInv
<1> HIDE DEF h
<1>3. \A p \in Resources : \A l \in Tracked : Carried(h, l, p) = 0
  BY <1>1, FramesTyped DEF Carried, Tracked
<1>4. h.at # "resetAwaiting" /\ (h.at = "destroyAll" => InCache(cache) = {})
  BY <1>1
<1>5. Fits(cache, Tail(calls), Sent, Ended)
  BY <1>1, <1>2, <1>3, <1>4, FitsReturned DEF h
<1> QED
  BY <1>1, <1>5 DEF CacheInv, inboxes

LEMMA GoesOnInv ==
  ASSUME CacheInv, GoesOn
  PROVE  CacheInv'
BY PollInvalidInv, PollFreedInv, PurgeLoopInv, PurgedInv, ResetAwaitingInv, ReturnInv,
   ProcessInvalidUniqueKeyInv, ProcessFreedInv, CountUnrefInv, UnrefAwaitingInv, DestroyAllInv
   DEF GoesOn

LEMMA PostsInv ==
  ASSUME CacheInv, Posts
  PROVE  CacheInv'
<1>1. ASSUME NEW k \in UniqueKeys, PostInvalidated(k) PROVE CacheInv'
  <2>1. /\ cache' = cache /\ calls' = calls /\ Sent' = Sent /\ Ended' = Ended
        /\ UNCHANGED <<fFreedTextureInbox, owed, miscounted, context>>
        /\ fInvalidUniqueKeyInbox' = fInvalidUniqueKeyInbox \union {k}
    BY <1>1 DEF PostInvalidated, Sent, Ended
  <2> QED
    BY <2>1 DEF CacheInv
<1>2. ASSUME NEW r \in Resources, PostFreed(r) PROVE CacheInv'
  <2>1. /\ cache' = cache /\ calls' = calls /\ Ended' = Ended /\ owed[r] > 0
        /\ UNCHANGED <<fInvalidUniqueKeyInbox, miscounted, context>>
        /\ owed' = [owed EXCEPT ![r] = @ - 1]
        /\ fFreedTextureInbox' = [fFreedTextureInbox EXCEPT ![r] = @ + 1]
        /\ owed \in [Resources -> Nat] /\ fFreedTextureInbox \in [Resources -> Nat]
    BY <1>2 DEF PostFreed, Ended, CacheInv
  <2>2. owed' \in [Resources -> Nat] /\ fFreedTextureInbox' \in [Resources -> Nat]
    BY <2>1
  <2>3. \A p \in Resources : owed'[p] + fFreedTextureInbox'[p] = owed[p] + fFreedTextureInbox[p]
    BY <2>1
  <2>4. Sent' = Sent
    BY <2>1, <2>3 DEF Sent
  <2> QED
    BY <2>1, <2>2, <2>4 DEF CacheInv
<1> QED
  BY <1>1, <1>2 DEF Posts

-----------------------------------------------------------------------------
(* What the owner of the context does.                                     *)
LEMMA HeldIs ==
  ASSUME CacheInv, calls = <<>>
  PROVE  \A r \in Resources :
           /\ Held(r) = cache.res[r].refs - cache.fTexturesAwaitingUnref[r]
           /\ r \notin miscounted => Held(r) \in 0 .. MaxRefs
           /\ cache.res[r].refs \in 0 .. MaxRefs + MaxOwed
           /\ cache.fTexturesAwaitingUnref[r] \in 0 .. MaxOwed
           /\ Sent[r].off = (r \in miscounted) /\ Sent[r].off \in BOOLEAN
<1> SUFFICES ASSUME NEW r \in Resources
             PROVE  /\ Held(r) = cache.res[r].refs - cache.fTexturesAwaitingUnref[r]
                    /\ r \notin miscounted => Held(r) \in 0 .. MaxRefs
                    /\ cache.res[r].refs \in 0 .. MaxRefs + MaxOwed
                    /\ cache.fTexturesAwaitingUnref[r] \in 0 .. MaxOwed
                    /\ Sent[r].off = (r \in miscounted) /\ Sent[r].off \in BOOLEAN
  OBVIOUS
<1>1. /\ Balanced(cache, calls, Sent, ~Ended \/ Resets(calls), r)
      /\ cache.res[r].refs \in Nat /\ cache.fTexturesAwaitingUnref[r] \in Nat
      /\ Sent[r].off = (r \in miscounted) /\ Sent[r].off \in BOOLEAN
  BY InvIs
<1>2. /\ InFrames(calls, "unreffed", r) = 0 /\ InFrames(calls, "reset", r) = 0
      /\ InFrames(calls, "freed", r) = 0
  BY FramesEmpty
<1>3. Bounded(cache.res[r].refs, cache.fTexturesAwaitingUnref[r], 0, 0, 0, Sent[r].n,
              ~Ended \/ Resets(calls))
  BY <1>1, <1>2, BalanceBounds DEF Balanced, Resets
<1>4. r \notin miscounted =>
        cache.res[r].refs - cache.fTexturesAwaitingUnref[r] \in 0 .. MaxRefs
  <2> SUFFICES ASSUME r \notin miscounted
               PROVE  cache.res[r].refs - cache.fTexturesAwaitingUnref[r] \in 0 .. MaxRefs
    OBVIOUS
  <2>1. ~Sent[r].off
    BY <1>1
  <2>2. Balance(cache.res[r].refs, cache.fTexturesAwaitingUnref[r], 0, 0, 0, Sent[r].n,
                ~Ended \/ Resets(calls))
    BY <1>1, <1>2, <2>1 DEF Balanced, Account
  <2> QED
    BY <1>1, <2>2, BoundsAre DEF Balance
<1> QED
  BY <1>1, <1>3, <1>4, BoundsAre DEF Bounded, Held

(* A texture whose references are known may gain and lose some of the      *)
(* owner's; any may be found while the owner has few.                      *)
BearableNow(r, n) ==
  Bearable(cache.res[r].refs + n, cache.fTexturesAwaitingUnref[r], Sent[r].off)

LEMMA BearableIs ==
  ASSUME CacheInv, calls = <<>>, NEW r \in Resources
  PROVE  /\ \A n \in Int : r \notin miscounted /\ Held(r) + n \in 0 .. MaxRefs => BearableNow(r, n)
         /\ Held(r) < MaxRefs => BearableNow(r, 1)
         /\ BearableNow(r, 0)
         /\ Bearable(cache.res[r].refs, cache.fTexturesAwaitingUnref[r], Sent[r].off)
<1> DEFINE refs == cache.res[r].refs
           W == cache.fTexturesAwaitingUnref[r]
           off == Sent[r].off
<1>1. /\ Held(r) = refs - W /\ (r \notin miscounted => Held(r) \in 0 .. MaxRefs)
      /\ refs \in 0 .. MaxRefs + MaxOwed /\ W \in 0 .. MaxOwed
      /\ off = (r \in miscounted) /\ off \in BOOLEAN
  BY HeldIs
<1> SUFFICES /\ \A n \in Int : ~off /\ Held(r) + n \in 0 .. MaxRefs => Bearable(refs + n, W, off)
             /\ Held(r) < MaxRefs => Bearable(refs + 1, W, off)
             /\ Bearable(refs + 0, W, off) /\ Bearable(refs, W, off)
  BY <1>1 DEF BearableNow
<1> HIDE DEF refs, W, off
<1>2. ASSUME NEW n \in Int, ~off, Held(r) + n \in 0 .. MaxRefs PROVE Bearable(refs + n, W, off)
  BY <1>1, <1>2, BoundsAre DEF Bearable
<1>3. ASSUME Held(r) < MaxRefs PROVE Bearable(refs + 1, W, off)
  <2>1. CASE off
    BY <1>1, <1>3, <2>1, BoundsAre DEF Bearable
  <2>2. CASE ~off
    <3>1. r \notin miscounted
      BY <1>1, <2>2
    <3>2. Held(r) + 1 \in 0 .. MaxRefs
      BY <1>1, <1>3, <3>1, BoundsAre
    <3> QED
      BY <1>2, <2>2, <3>2
  <2> QED
    BY <1>1, <2>1, <2>2
<1>4. Bearable(refs, W, off) /\ Bearable(refs + 0, W, off)
  <2>1. refs + 0 = refs
    BY <1>1, BoundsAre
  <2>2. CASE off
    BY <1>1, <2>1, <2>2 DEF Bearable
  <2>3. CASE ~off
    BY <1>1, <2>1, <2>3 DEF Bearable
  <2> QED
    BY <1>1, <2>2, <2>3
<1> QED
  BY <1>2, <1>3, <1>4

LEMMA BegunInv ==
  ASSUME CacheInv, Idle, NEW d, Good(d),
         d.fTexturesAwaitingUnref = cache.fTexturesAwaitingUnref,
         \A r \in Resources :
           Bearable(d.res[r].refs, cache.fTexturesAwaitingUnref[r], Sent[r].off),
         NEW s, Begun(s, FALSE), Do(d, s)
  PROVE  CacheInv'
<1>1. /\ calls = <<>> /\ context = "alive" /\ Ended = FALSE
      /\ cache' = d /\ calls' = s /\ Sent' = Sent /\ Ended' = Ended /\ UNCHANGED <<inboxes, miscounted, context>>
  BY DEF Idle, Do, Sent, Ended, inboxes
<1>2. Fits(cache, <<>>, Sent, FALSE)
  BY <1>1 DEF CacheInv
<1>3. Fits(d, s, Sent, FALSE)
  BY <1>2, InvIs, FitsBegun
<1>4. Fits(cache', calls', Sent', Ended')
  BY <1>1, <1>3
<1> QED
  BY <1>1, <1>4 DEF CacheInv, inboxes

LEMMA KeptInv ==
  ASSUME CacheInv, Idle, NEW d, Good(d), Kept(cache, d), NEW s, Begun(s, FALSE), Do(d, s)
  PROVE  CacheInv'
<1>1. calls = <<>>
  BY DEF Idle
<1>2. \A r \in Resources :
        Bearable(d.res[r].refs, cache.fTexturesAwaitingUnref[r], Sent[r].off)
  BY <1>1, BearableIs DEF Kept
<1> QED
  BY <1>2, BegunInv DEF Kept

LEMMA EffectInv ==
  ASSUME CacheInv, Idle, NEW r \in Resources, NEW n \in Int, NEW d, Good(d), Effect(cache, d, r, n),
         BearableNow(r, n), NEW s, Begun(s, FALSE), Do(d, s)
  PROVE  CacheInv'
<1>1. calls = <<>>
  BY DEF Idle
<1>2. ASSUME NEW p \in Resources
      PROVE  Bearable(d.res[p].refs, cache.fTexturesAwaitingUnref[p], Sent[p].off)
  <2>1. Bearable(cache.res[p].refs, cache.fTexturesAwaitingUnref[p], Sent[p].off)
    BY <1>1, BearableIs
  <2>2. CASE p = r
    <3>1. d.res[p].refs = cache.res[r].refs + n
      BY <2>2 DEF Effect
    <3> QED
      BY <2>2, <3>1 DEF BearableNow
  <2>3. CASE p # r
    BY <2>1, <2>3 DEF Effect
  <2> QED
    BY <2>2, <2>3
<1> QED
  BY <1>2, BegunInv DEF Effect

NewResource(type, wrapped, scratchKey, size) ==
  [Nothing EXCEPT !.state = "cached", !.refs = 1, !.size = size,
     !.budgetedType = type, !.refsWrapped = wrapped, !.scratchKey = scratchKey]

LEMMA NewIs ==
  ASSUME NEW type \in BudgetedTypes, NEW wrapped \in BOOLEAN,
         NEW scratchKey \in ScratchKeys \union {Null}, NEW size \in Sizes
  PROVE  LET new == NewResource(type, wrapped, scratchKey, size) IN
         new \in Fields /\ new.state = "cached" /\ new.refs = 1 /\ new.uniqueKey = Null
<1> DEFINE new == [Nothing EXCEPT !.state = "cached", !.refs = 1, !.size = size,
                     !.budgetedType = type, !.refsWrapped = wrapped, !.scratchKey = scratchKey]
<1> DEFINE n1 == [Nothing EXCEPT !.state = "cached"]
           n2 == [n1 EXCEPT !.refs = 1]
           n3 == [n2 EXCEPT !.size = size]
           n4 == [n3 EXCEPT !.budgetedType = type]
           n5 == [n4 EXCEPT !.refsWrapped = wrapped]
           n6 == [n5 EXCEPT !.scratchKey = scratchKey]
<1>1. 0 \in 0 .. Stamps - 1
  BY CacheAssumption, FS_CardinalityType
<1>2. Nothing \in Fields /\ Nothing.uniqueKey = Null
  BY <1>1 DEF Nothing, Fields, BudgetedTypes
<1>3. new = n6
  OBVIOUS
<1> HIDE DEF new
<1>4. n1 \in Fields /\ n1.uniqueKey = Null /\ n1.state = "cached"
  BY <1>2 DEF Fields
<1> HIDE DEF n1
<1>5. n2 \in Fields /\ n2.uniqueKey = Null /\ n2.state = "cached" /\ n2.refs = 1
  BY <1>4 DEF Fields
<1> HIDE DEF n2
<1>6. n3 \in Fields /\ n3.uniqueKey = Null /\ n3.state = "cached" /\ n3.refs = 1
  BY <1>5 DEF Fields
<1> HIDE DEF n3
<1>7. n4 \in Fields /\ n4.uniqueKey = Null /\ n4.state = "cached" /\ n4.refs = 1
  BY <1>6 DEF Fields
<1> HIDE DEF n4
<1>8. n5 \in Fields /\ n5.uniqueKey = Null /\ n5.state = "cached" /\ n5.refs = 1
  BY <1>7 DEF Fields
<1> HIDE DEF n5
<1>9. n6 \in Fields /\ n6.uniqueKey = Null /\ n6.state = "cached" /\ n6.refs = 1
  BY <1>8 DEF Fields
<1>10. new \in Fields /\ new.state = "cached" /\ new.refs = 1 /\ new.uniqueKey = Null
  BY <1>3, <1>9
<1> QED
  BY <1>10 DEF new, NewResource

LEMMA RegisterInv ==
  ASSUME CacheInv, NEW r \in Resources, NEW type \in BudgetedTypes, NEW wrapped \in BOOLEAN,
         NEW scratchKey \in ScratchKeys \union {Null}, NEW size \in Sizes,
         Register(r, type, wrapped, scratchKey, size)
  PROVE  CacheInv'
<1> DEFINE new == [Nothing EXCEPT !.state = "cached", !.refs = 1, !.size = size,
                     !.budgetedType = type, !.refsWrapped = wrapped, !.scratchKey = scratchKey]
           b == [cache EXCEPT !.res[r] = new]
           d == Inserted(b, r)
<1>1. Idle /\ cache.res[r] = Nothing /\ Do(d, Purge)
  BY DEF Register
<1>2. new \in Fields /\ new.state = "cached" /\ new.refs = 1 /\ new.uniqueKey = Null
  <2>1. new = NewResource(type, wrapped, scratchKey, size)
    BY DEF NewResource
  <2> HIDE DEF new
  <2> QED
    BY <2>1, NewIs
<1>3. Good(cache) /\ calls = <<>>
  BY <1>1, InvIs DEF Idle
<1> HIDE DEF new
<1>4. Good(d) /\ Effect(cache, d, r, 1)
  BY <1>1, <1>2, <1>3, InsertedGood
<1> HIDE DEF d
<1>5. BearableNow(r, 1)
  <2>1. cache.res[r].refs = 0
    BY <1>1 DEF Nothing
  <2>2. Held(r) < MaxRefs
    BY <1>3, <2>1, HeldIs, BoundsAre
  <2> QED
    BY <1>3, <2>2, BearableIs
<1>6. 1 \in Int
  OBVIOUS
<1> QED
  BY <1>1, <1>4, <1>5, <1>6, EffectInv, PurgeBegun

LEMMA IdleIs ==
  ASSUME CacheInv, Idle
  PROVE  /\ calls = <<>> /\ Begun(calls, FALSE) /\ Good(cache) /\ cache \in Caches
         /\ \A r \in Resources : Right(cache, r)
BY InvIs, NothingBegun, GoodIs DEF Idle

LEMMA UsableIs ==
  ASSUME CacheInv, NEW r \in Resources, Usable(r)
  PROVE  /\ Idle /\ cache.res[r].state = "cached" /\ cache.res[r].refs > 0
         /\ Held(r) \in 1 .. MaxRefs /\ r \notin miscounted
         /\ BearableNow(r, 0) /\ (Held(r) < MaxRefs => BearableNow(r, 1))
<1>1. Idle /\ cache.res[r].state = "cached" /\ Held(r) > 0 /\ r \notin miscounted
  BY DEF Usable, Owned
<1>2. calls = <<>>
  BY <1>1 DEF Idle
<1>3. cache.res[r].refs > 0 /\ Held(r) \in 1 .. MaxRefs
  BY <1>1, <1>2, HeldIs, BoundsAre
<1> QED
  BY <1>1, <1>2, <1>3, BearableIs

LEMMA RefInv ==
  ASSUME CacheInv, NEW r \in Resources, Ref(r)
  PROVE  CacheInv'
<1> DEFINE d == [cache EXCEPT !.res[r].refs = @ + 1]
<1>1. Usable(r) /\ Held(r) < MaxRefs /\ Do(d, calls)
  BY DEF Ref
<1>2. Idle /\ cache.res[r].refs > 0
  BY <1>1, UsableIs
<1>3. Good(cache) /\ Begun(calls, FALSE)
  BY <1>2, IdleIs
<1>4. Good(d) /\ Effect(cache, d, r, 1)
  BY <1>2, <1>3, RefGood
<1> HIDE DEF d
<1>5. BearableNow(r, 1) /\ 1 \in Int
  BY <1>1, UsableIs
<1> QED
  BY <1>1, <1>2, <1>3, <1>4, <1>5, EffectInv

LEMMA FindScratchInv ==
  ASSUME CacheInv, NEW r \in Resources, FindScratch(r)
  PROVE  CacheInv'
<1> DEFINE d == RefAndMakeMRU(cache, r)
<1>1. /\ Idle /\ cache.res[r].refs = 0 /\ Do(d, calls)
      /\ \E k \in ScratchKeys : <<k, r>> \in cache.fScratchMap
  BY DEF FindScratch
<1>2. Good(cache) /\ Begun(calls, FALSE) /\ Right(cache, r) /\ calls = <<>>
  BY <1>1, IdleIs
<1>3. cache.res[r].state = "cached"
  BY <1>1, <1>2 DEF Right
<1>4. Good(d) /\ Effect(cache, d, r, 1)
  BY <1>2, <1>3, RefAndMakeMRUGood
<1> HIDE DEF d
<1>5. BearableNow(r, 1) /\ 1 \in Int
  <2>1. Held(r) < MaxRefs
    BY <1>1, <1>2, HeldIs, BoundsAre
  <2> QED
    BY <1>2, <2>1, BearableIs
<1> QED
  BY <1>1, <1>2, <1>4, <1>5, EffectInv

LEMMA FindUniqueInv ==
  ASSUME CacheInv, NEW k \in UniqueKeys, FindUnique(k)
  PROVE  CacheInv'
<1> DEFINE r == cache.fUniqueHash[k]
           d == RefAndMakeMRU(cache, r)
<1>1. Idle /\ r # Null /\ Held(r) < MaxRefs /\ Do(d, calls)
  BY DEF FindUnique
<1>2. Good(cache) /\ cache \in Caches /\ Begun(calls, FALSE) /\ calls = <<>>
      /\ \A p \in Resources : Right(cache, p)
  BY <1>1, IdleIs
<1>3. r \in Resources /\ cache.fUniqueHash[k] = r
  BY <1>1, <1>2 DEF Caches
<1> HIDE DEF r
<1>4. cache.res[r].state = "cached"
  BY <1>2, <1>3 DEF Right
<1>5. Good(d) /\ Effect(cache, d, r, 1)
  BY <1>2, <1>3, <1>4, RefAndMakeMRUGood
<1> HIDE DEF d
<1>6. BearableNow(r, 1) /\ 1 \in Int
  BY <1>1, <1>2, <1>3, BearableIs
<1> QED
  BY <1>1, <1>2, <1>3, <1>5, <1>6, EffectInv

LEMMA KeysInv ==
  ASSUME CacheInv, NEW r \in Resources,
         \/ \E k \in UniqueKeys : SetUniqueKey(r, k)
         \/ RemoveUniqueKey(r) \/ RemoveScratchKey(r)
  PROVE  CacheInv'
<1>1. Usable(r)
  BY DEF SetUniqueKey, RemoveUniqueKey, RemoveScratchKey
<1>2. Idle /\ cache.res[r].state = "cached" /\ cache.res[r].refs > 0
  BY <1>1, UsableIs
<1>3. Good(cache) /\ Begun(calls, FALSE)
  BY <1>2, IdleIs
<1>4. ASSUME NEW k \in UniqueKeys, SetUniqueKey(r, k) PROVE CacheInv'
  <2> DEFINE d == KeyChanged(cache, r, k)
  <2>1. /\ Do(d, calls)
        /\ Budgeted(cache, r) \/ cache.res[r].refsWrapped
        /\ LET old == cache.fUniqueHash[k] IN
           old # Null => \/ cache.res[old].refs > 0
                         \/ cache.res[old].scratchKey = Null /\ IsPurgeable(cache, old)
    BY <1>4 DEF SetUniqueKey
  <2>2. Good(d) /\ Kept(cache, d)
    BY <1>2, <1>3, <2>1, KeyChangedGood
  <2> HIDE DEF d
  <2> QED
    BY <1>2, <1>3, <2>1, <2>2, KeptInv
<1>5. ASSUME RemoveUniqueKey(r) PROVE CacheInv'
  <2> DEFINE d == KeyRemoved(cache, r)
  <2>1. Do(d, calls)
    BY <1>5 DEF RemoveUniqueKey
  <2>2. Good(d) /\ Effect(cache, d, r, 0)
    BY <1>2, <1>3, KeyRemovedGood
  <2> HIDE DEF d
  <2>3. BearableNow(r, 0) /\ 0 \in Int
    BY <1>1, UsableIs
  <2> QED
    BY <1>2, <1>3, <2>1, <2>2, <2>3, EffectInv
<1>6. ASSUME RemoveScratchKey(r) PROVE CacheInv'
  <2> DEFINE d == [cache EXCEPT !.fScratchMap = @ \ ScratchEntry(cache, r), !.res[r].scratchKey = Null]
  <2>1. Do(d, calls)
    BY <1>6 DEF RemoveScratchKey
  <2>2. Good(d) /\ Kept(cache, d)
    BY <1>2, <1>3, ScratchKeyRemovedGood
  <2> HIDE DEF d
  <2> QED
    BY <1>2, <1>3, <2>1, <2>2, KeptInv
<1> QED
  BY <1>4, <1>5, <1>6

LEMMA BudgetInv ==
  ASSUME CacheInv, NEW r \in Resources, MakeBudgeted(r) \/ MakeUnbudgeted(r)
  PROVE  CacheInv'
<1>1. Usable(r)
  BY DEF MakeBudgeted, MakeUnbudgeted
<1>2. Idle /\ cache.res[r].state = "cached" /\ cache.res[r].refs > 0
  BY <1>1, UsableIs
<1>3. Good(cache) /\ Begun(calls, FALSE)
  BY <1>2, IdleIs
<1>4. ASSUME MakeBudgeted(r) PROVE CacheInv'
  <2> DEFINE d == MadeBudgeted(cache, r)
  <2>1. Do(d, Purge) /\ cache.res[r].budgetedType = "UnbudgetedUncacheable"
    BY <1>4 DEF MakeBudgeted
  <2>2. Good(d) /\ Effect(cache, d, r, 0)
    BY <1>2, <1>3, <2>1, MadeBudgetedGood DEF Good, PaidFor
  <2> HIDE DEF d
  <2>3. BearableNow(r, 0) /\ 0 \in Int
    BY <1>1, UsableIs
  <2> QED
    BY <1>2, <2>1, <2>2, <2>3, EffectInv, PurgeBegun
<1>5. ASSUME MakeUnbudgeted(r) PROVE CacheInv'
  <2> DEFINE d == MadeUnbudgeted(cache, r)
  <2>1. Do(d, calls) /\ Budgeted(cache, r) /\ cache.res[r].uniqueKey = Null
    BY <1>5 DEF MakeUnbudgeted
  <2>2. Good(d) /\ Kept(cache, d)
    BY <1>2, <1>3, <2>1, MadeUnbudgetedGood
  <2> HIDE DEF d
  <2> QED
    BY <1>2, <1>3, <2>1, <2>2, KeptInv
<1> QED
  BY <1>4, <1>5

LEMMA PurgesInv ==
  ASSUME CacheInv, PurgeAsNeeded \/ PurgeNotUsedSince \/ \E b \in BOOLEAN : PurgeUnlocked(b)
  PROVE  CacheInv'
<1>1. Idle
  BY DEF PurgeAsNeeded, PurgeNotUsedSince, PurgeUnlocked
<1>2. Good(cache) /\ cache \in Caches /\ Begun(calls, FALSE)
  BY <1>1, IdleIs
<1>3. CASE PurgeAsNeeded
  <2>1. Do(cache, Purge)
    BY <1>3 DEF PurgeAsNeeded
  <2>2. Kept(cache, cache)
    BY <1>2, KeptSame
  <2> QED
    BY <1>1, <1>2, <2>1, <2>2, KeptInv, PurgeBegun
<1>4. ASSUME NEW S \in SUBSET cache.fPurgeableQueue, Do(DestroyedAll(cache, S), calls) PROVE CacheInv'
  <2> DEFINE d == DestroyedAll(cache, S)
  <2>1. Good(d) /\ Kept(cache, d)
    BY <1>2, DestroyedAllGood
  <2>2. Do(d, calls)
    BY <1>4
  <2> HIDE DEF d
  <2> QED
    BY <1>1, <1>2, <2>1, <2>2, KeptInv
<1>5. CASE PurgeNotUsedSince
  <2>1. PICK stamp \in {cache.res[r].timestamp : r \in cache.fPurgeableQueue} :
          Do(DestroyedAll(cache, {r \in cache.fPurgeableQueue : cache.res[r].timestamp <= stamp}), calls)
    BY <1>5 DEF PurgeNotUsedSince
  <2> DEFINE S == {r \in cache.fPurgeableQueue : cache.res[r].timestamp <= stamp}
  <2>2. S \in SUBSET cache.fPurgeableQueue /\ Do(DestroyedAll(cache, S), calls)
    BY <2>1
  <2> HIDE DEF S
  <2> QED
    BY <1>4, <2>2
<1>6. ASSUME NEW b \in BOOLEAN, PurgeUnlocked(b) PROVE CacheInv'
  <2> DEFINE S == {r \in cache.fPurgeableQueue : b => cache.res[r].uniqueKey = Null}
  <2>1. S \in SUBSET cache.fPurgeableQueue /\ Do(DestroyedAll(cache, S), calls)
    BY <1>6 DEF PurgeUnlocked
  <2> HIDE DEF S
  <2> QED
    BY <1>4, <2>1
<1> QED
  BY <1>3, <1>5, <1>6

LEMMA SetLimitInv ==
  ASSUME CacheInv, NEW limit \in Limits, SetLimit(limit)
  PROVE  CacheInv'
<1> DEFINE d == [cache EXCEPT !.fMaxBytes = limit]
<1>1. Idle /\ Do(d, Purge) /\ limit \in Nat
  BY CacheAssumption DEF SetLimit
<1>2. Good(cache) /\ calls = <<>>
  BY <1>1, IdleIs
<1>3. Good(d) /\ d.res = cache.res /\ d.fTexturesAwaitingUnref = cache.fTexturesAwaitingUnref
  BY <1>1, <1>2, LimitGood
<1> HIDE DEF d
<1>4. \A r \in Resources : Bearable(d.res[r].refs, cache.fTexturesAwaitingUnref[r], Sent[r].off)
  BY <1>2, <1>3, BearableIs
<1> QED
  BY <1>1, <1>3, <1>4, BegunInv, PurgeBegun

(* The scratch resources that purgeUnlockedResources() takes. *)
LEMMA ChosenIs ==
  ASSUME NEW n \in Requests, NEW b \in BOOLEAN, PurgeBytes(n, b)
  PROVE  LET budget == (cache.fBytes - n) % SizeT
             return == [Frame("purged") EXCEPT !.limit = cache.fMaxBytes]
         IN
         \E chosen \in SUBSET cache.fPurgeableQueue :
           LET c == DestroyedAll(cache, chosen) IN
           /\ Idle
           /\ IF budget < c.fBytes
                THEN Do([c EXCEPT !.fMaxBytes = budget], Purge \o <<return>>)
                ELSE Do(c, <<return>>)
<1> DEFINE budget == (cache.fBytes - n) % SizeT
           return == [Frame("purged") EXCEPT !.limit = cache.fMaxBytes]
<1> DEFINE scratch == {r \in cache.fPurgeableQueue : cache.res[r].uniqueKey = Null}
           before(r) == MapThenSumSet(LAMBDA q : cache.res[q].size,
                          {q \in scratch : cache.res[q].timestamp < cache.res[r].timestamp})
           S == IF b /\ n < cache.fPurgeableBytes
                  THEN {r \in scratch : budget < cache.fBytes - before(r)} ELSE {}
<1>1. S \in SUBSET cache.fPurgeableQueue
  <2> HIDE DEF before
  <2> QED
    OBVIOUS
<1>2. LET c == DestroyedAll(cache, S) IN
      /\ Idle
      /\ IF budget < c.fBytes
           THEN Do([c EXCEPT !.fMaxBytes = budget], Purge \o <<return>>)
           ELSE Do(c, <<return>>)
  BY DEF PurgeBytes
<1> HIDE DEF S
<1> QED
  BY <1>1, <1>2

LEMMA PurgeBytesInv ==
  ASSUME CacheInv, NEW n \in Requests, NEW b \in BOOLEAN, PurgeBytes(n, b)
  PROVE  CacheInv'
<1> DEFINE budget == (cache.fBytes - n) % SizeT
           return == [Frame("purged") EXCEPT !.limit = cache.fMaxBytes]
<1>1. PICK chosen \in SUBSET cache.fPurgeableQueue :
        LET c == DestroyedAll(cache, chosen) IN
        /\ Idle
        /\ IF budget < c.fBytes
             THEN Do([c EXCEPT !.fMaxBytes = budget], Purge \o <<return>>)
             ELSE Do(c, <<return>>)
  BY ChosenIs
<1> DEFINE c == DestroyedAll(cache, chosen)
           d == [c EXCEPT !.fMaxBytes = budget]
<1>2. Idle /\ IF budget < c.fBytes THEN Do(d, Purge \o <<return>>) ELSE Do(c, <<return>>)
  BY <1>1
<1>3. Good(cache) /\ cache \in Caches /\ calls = <<>>
  BY <1>2, IdleIs
<1>4. budget \in Nat /\ cache.fMaxBytes \in Nat
  <2>1. cache.fBytes \in Int /\ n \in Nat /\ SizeT \in Nat \ {0} /\ cache.fMaxBytes \in Nat
    BY <1>3, RequestAssumption, CacheAssumption DEF Caches
  <2> DEFINE x == cache.fBytes - n
  <2>2. x \in Int
    BY <2>1
  <2> HIDE DEF x
  <2>3. x % SizeT \in Nat
    BY <2>1, <2>2
  <2> QED
    BY <2>1, <2>3 DEF x
<1>5. Begun(<<return>>, FALSE) /\ Begun(Purge \o <<return>>, FALSE)
  BY <1>4, ReturnBegun
<1> HIDE DEF return, budget
<1>6. Good(c) /\ Kept(cache, c)
  BY <1>3, DestroyedAllGood
<1> HIDE DEF c
<1>7. CASE budget < c.fBytes
  <2>1. Good(d) /\ d.res = c.res /\ d.fTexturesAwaitingUnref = c.fTexturesAwaitingUnref
    BY <1>4, <1>6, LimitGood
  <2>2. Do(d, Purge \o <<return>>)
    BY <1>2, <1>7
  <2> HIDE DEF d
  <2>3. \A r \in Resources : Bearable(d.res[r].refs, cache.fTexturesAwaitingUnref[r], Sent[r].off)
    BY <1>3, <1>6, <2>1, BearableIs DEF Kept
  <2>4. d.fTexturesAwaitingUnref = cache.fTexturesAwaitingUnref
    BY <1>6, <2>1 DEF Kept
  <2> QED
    BY <1>2, <1>5, <2>1, <2>2, <2>3, <2>4, BegunInv
<1>8. CASE ~(budget < c.fBytes)
  BY <1>2, <1>5, <1>6, <1>8, KeptInv
<1> QED
  BY <1>7, <1>8

LEMMA EndInv ==
  ASSUME CacheInv, AbandonAll \/ ReleaseAll
  PROVE  CacheInv'
<1> DEFINE s == <<Frame("resetAwaiting"), Frame("destroyAll")>>
           t == <<Frame("pollFreed"), Frame("resetAwaiting"), Frame("destroyAll")>>
<1>1. /\ Idle /\ cache' = cache /\ (calls' = s \/ calls' = t) /\ UNCHANGED <<inboxes, miscounted>>
      /\ Sent' = Sent /\ Ended' = TRUE /\ context' \in {"abandoned", "released"}
  BY DEF AbandonAll, ReleaseAll, Sent, Ended, inboxes
<1>2. Good(cache) /\ Fits(cache, <<>>, Sent, FALSE)
  <2>1. Ended = FALSE /\ calls = <<>>
    BY <1>1 DEF Idle, Ended
  <2> QED
    BY <1>1, <2>1, IdleIs DEF CacheInv
<1>3. /\ Begun(s, TRUE) /\ Resets(s) /\ s # <<>>
      /\ Begun(t, TRUE) /\ Resets(t) /\ t # <<>>
  BY EndBegun
<1> HIDE DEF s, t
<1>4. ASSUME NEW u, Begun(u, TRUE), Resets(u), u # <<>> PROVE Fits(cache, u, Sent, TRUE)
  <2>1. ASSUME NEW r \in Resources PROVE Balanced(cache, u, Sent, TRUE, r)
    <3>1. Balanced(cache, <<>>, Sent, TRUE, r)
      BY <1>2 DEF Fits
    <3>2. \A l : InFrames(u, l, r) = 0 /\ InFrames(<<>>, l, r) = 0
      BY <1>4, FramesEmpty DEF Begun
    <3> QED
      BY <3>1, <3>2 DEF Balanced
  <2> QED
    BY <1>2, <1>4, <2>1 DEF Fits, Begun
<1>5. Fits(cache', calls', Sent', Ended')
  BY <1>1, <1>3, <1>4
<1> QED
  BY <1>1, <1>5 DEF CacheInv, inboxes

LEMMA UnrefInv ==
  ASSUME CacheInv, NEW r \in Resources, Unref(r)
  PROVE  CacheInv'
<1> DEFINE q == AfterUnref(cache, r)
           d == Unreffed(cache, r)
<1>1. calls = <<>> /\ Held(r) > 0 /\ r \notin miscounted /\ Do(d, q)
  BY DEF Unref, Owned
<1>2. /\ Good(cache) /\ cache \in Caches /\ Ended \in BOOLEAN /\ Fits(cache, calls, Sent, Ended)
      /\ calls \in Calls /\ Shaped(calls, Ended)
  BY InvIs DEF CacheInv
<1>3. /\ Held(r) \in 1 .. MaxRefs /\ cache.res[r].refs > 0
      /\ Held(r) = cache.res[r].refs - cache.fTexturesAwaitingUnref[r]
      /\ cache.res[r].refs \in Nat /\ cache.fTexturesAwaitingUnref[r] \in Nat
      /\ ~Sent[r].off
  BY <1>1, HeldIs, BoundsAre
<1>4. q \in {<<>>, Purge} /\ (q # <<>> => cache.res[r].state = "cached")
  BY DEF AfterUnref
<1>5. /\ Good(d) /\ Effect(cache, d, r, -1)
      /\ cache.res[r].state # "cached" => d.res[r].state # "cached"
  BY <1>2, <1>3, UnreffedGood
<1> HIDE DEF d, q
<1>6. CASE context = "alive"
  <2>1. Idle /\ -1 \in Int /\ BearableNow(r, -1)
    <3>1. Idle /\ -1 \in Int /\ Held(r) + -1 \in 0 .. MaxRefs
      BY <1>1, <1>3, <1>6, BoundsAre DEF Idle
    <3> QED
      BY <1>1, <3>1, BearableIs
  <2>2. Begun(q, FALSE)
    BY <1>4, PurgeBegun, NothingBegun
  <2> QED
    BY <1>1, <1>5, <2>1, <2>2, EffectInv
<1>7. CASE context # "alive"
  <2>1. Ended = TRUE /\ InCache(cache) = {}
    BY <1>1, <1>2, <1>7 DEF Ended, Fits
  <2>2. cache.res[r].state # "cached" /\ \A p \in Resources : cache.res[p].state # "cached"
    BY <1>2, <2>1, GoodIs
  <2>3. InCache(d) = {}
    <3>1. \A p \in Resources : d.res[p].state # "cached"
      BY <1>5, <2>2 DEF Effect
    <3> QED
      BY <1>5, <3>1, GoodIs
  <2>4. q = <<>>
    BY <1>4, <2>2
  <2>5. ASSUME NEW p \in Resources
        PROVE  \/ Unmoved(cache, calls, Sent, d, calls, Sent, p)
               \/ Balanced(d, calls, Sent, ~Ended \/ Resets(calls), p)
    <3>1. CASE p # r
      BY <1>5, <3>1 DEF Unmoved, Effect
    <3>2. CASE p = r
      <4>1. Balanced(cache, calls, Sent, ~Ended \/ Resets(calls), r)
        BY <1>2 DEF Fits
      <4>2. InFrames(calls, "unreffed", r) = 0 /\ InFrames(calls, "reset", r) = 0
        BY <1>1, FramesEmpty
      <4>3. d.res[r].refs = cache.res[r].refs - 1
            /\ d.fTexturesAwaitingUnref[r] = cache.fTexturesAwaitingUnref[r]
        BY <1>3, <1>5 DEF Effect
      <4>4. Balanced(d, calls, Sent, ~Ended \/ Resets(calls), r)
        BY <1>3, <4>1, <4>2, <4>3, BoundsAre DEF Balanced, Account, Balance
      <4> QED
        BY <3>2, <4>4
    <3> QED
      BY <3>1, <3>2
  <2>6. Fits(d, calls, Sent, Ended)
    BY <1>2, <1>5, <2>3, <2>5, FitsMoved
  <2>7. /\ cache' = d /\ calls' = calls /\ Sent' = Sent /\ Ended' = Ended
        /\ UNCHANGED <<inboxes, miscounted, context>>
    BY <1>1, <2>4 DEF Do, Sent, Ended, inboxes
  <2> QED
    BY <2>6, <2>7 DEF CacheInv, inboxes
<1> QED
  BY <1>6, <1>7

LEMMA SumIs ==
  ASSUME NEW W \in [Resources -> Nat]
  PROVE  /\ Sum(W) = Total(W, Resources) /\ Sum(W) \in Nat
         /\ \A r \in Resources : W[r] <= Sum(W)
<1>1. IsFiniteSet(Resources)
  BY CacheAssumption
<1>2. Sum(W) = (CHOOSE g : Folds(g, W, Resources))[Resources]
  BY DEF Sum, MapThenSumSet, MapThenFoldSet, Folds, Some, Less
<1>3. Sum(W) = Total(W, Resources)
  BY <1>2 DEF Total, Fold, Folds
<1>4. ASSUME NEW r \in Resources PROVE W[r] <= Total(W, Resources)
  <2>1. Total(W, Resources) = W[r] + Total(W, Resources \ {r})
    BY <1>1, TotalTake
  <2>2. IsFiniteSet(Resources \ {r})
    BY <1>1, FS_RemoveElement
  <2>3. Total(W, Resources \ {r}) \in Nat
    BY <2>2, TotalType
  <2> QED
    BY <2>1, <2>3
<1>5. Total(W, Resources) \in Nat
  BY <1>1, TotalType
<1> QED
  BY <1>3, <1>4, <1>5

LEMMA InsertDelayedInv ==
  ASSUME CacheInv, NEW r \in Resources, InsertDelayedTextureUnref(r)
  PROVE  CacheInv'
<1> DEFINE W == cache.fTexturesAwaitingUnref
           b == [cache EXCEPT !.res[r].refs = @ + 1]
           awaited == [W EXCEPT ![r] = @ + 1]
           d == [b EXCEPT !.fTexturesAwaitingUnref = awaited]
<1>1. PICK made \in BOOLEAN :
        /\ Usable(r) /\ Sum(W) < MaxOwed
        /\ cache' = [cache EXCEPT !.res[r].refs = @ + 1, !.fTexturesAwaitingUnref[r] = @ + 1]
        /\ owed' = [owed EXCEPT ![r] = @ + Count(made)]
        /\ UNCHANGED <<calls, fInvalidUniqueKeyInbox, fFreedTextureInbox, miscounted, context>>
  BY DEF InsertDelayedTextureUnref
<1>2. /\ Idle /\ cache.res[r].refs > 0 /\ Ended = FALSE /\ Ended' = FALSE /\ calls = <<>>
      /\ Held(r) \in 1 .. MaxRefs /\ r \notin miscounted
  <2>1. Idle /\ cache.res[r].refs > 0 /\ Held(r) \in 1 .. MaxRefs /\ r \notin miscounted
    BY <1>1, UsableIs
  <2> QED
    BY <1>1, <2>1 DEF Idle, Ended
<1>3. /\ Good(cache) /\ cache \in Caches /\ calls \in Calls /\ Shaped(calls, FALSE)
      /\ Fits(cache, calls, Sent, FALSE)
      /\ owed \in [Resources -> Nat] /\ fFreedTextureInbox \in [Resources -> Nat]
  BY <1>2, InvIs DEF CacheInv
<1>4. W \in [Resources -> Nat]
  <2>1. \A p \in Resources : W[p] \in Nat
    BY InvIs
  <2>2. W \in [Resources -> Int]
    BY <1>3 DEF Caches
  <2> QED
    BY <2>1, <2>2
<1>5. W[r] + 1 <= MaxOwed /\ W[r] \in Nat
  <2>1. W[r] <= Sum(W) /\ Sum(W) \in Nat /\ W[r] \in Nat
    BY <1>4, SumIs
  <2> QED
    BY <1>1, <2>1, BoundsAre
<1>6. cache' = d
  <2>1. b.fTexturesAwaitingUnref = W
    BY <1>3 DEF Caches
  <2> QED
    BY <1>1, <2>1
<1>7. Good(b) /\ Effect(cache, b, r, 1)
  BY <1>2, <1>3, RefGood
<1> HIDE DEF b
<1>8. /\ awaited \in [Resources -> Int] /\ awaited[r] = W[r] + 1
      /\ \A p \in Resources \ {r} : awaited[p] = W[p]
  BY <1>4
<1> HIDE DEF awaited
<1>9. Good(d) /\ d.res = b.res /\ d.fTexturesAwaitingUnref = awaited
  BY <1>7, <1>8, AwaitingGood
<1> HIDE DEF d
<1>10. /\ owed' \in [Resources -> Nat] /\ fFreedTextureInbox' = fFreedTextureInbox
       /\ \A p \in Resources \ {r} : Sent'[p] = Sent[p]
       /\ Sent'[r].n \in Nat /\ Sent'[r].n <= Sent[r].n + 1 /\ Sent[r].n \in Nat
       /\ ~Sent[r].off /\ ~Sent'[r].off
  <2>1. Count(made) \in {0, 1}
    BY DEF Count
  <2>2. /\ owed' \in [Resources -> Nat] /\ owed'[r] = owed[r] + Count(made)
        /\ \A p \in Resources \ {r} : owed'[p] = owed[p]
    BY <1>1, <1>3, <2>1
  <2>3. owed[r] \in Nat /\ fFreedTextureInbox[r] \in Nat
    BY <1>3
  <2>4. \A p \in Resources \ {r} : Sent'[p] = Sent[p]
    BY <1>1, <2>2 DEF Sent
  <2>5. /\ Sent[r].n = owed[r] + fFreedTextureInbox[r]
        /\ Sent'[r].n = owed'[r] + fFreedTextureInbox'[r]
    BY DEF Sent
  <2>6. Sent[r].off = (r \in miscounted) /\ Sent'[r].off = (r \in miscounted')
    BY DEF Sent
  <2>7. ~Sent[r].off /\ ~Sent'[r].off
    BY <1>1, <1>2, <2>6
  <2> QED
    BY <1>1, <2>1, <2>2, <2>3, <2>4, <2>5, <2>7
<1>11. ASSUME NEW p \in Resources
       PROVE  \/ Unmoved(cache, calls, Sent, d, calls, Sent', p)
              \/ Balanced(d, calls, Sent', ~FALSE \/ Resets(calls), p)
  <2>1. CASE p # r
    BY <1>7, <1>8, <1>9, <1>10, <2>1 DEF Unmoved, Effect
  <2>2. CASE p = r
    <3>1. Balanced(cache, calls, Sent, TRUE, r)
      BY <1>3 DEF Fits
    <3>2. /\ InFrames(calls, "unreffed", r) = 0 /\ InFrames(calls, "reset", r) = 0
          /\ InFrames(calls, "freed", r) = 0
      BY <1>2, FramesEmpty
    <3>3. d.res[r].refs = cache.res[r].refs + 1 /\ d.fTexturesAwaitingUnref[r] = W[r] + 1
          /\ cache.res[r].refs \in Nat
      BY <1>3, <1>7, <1>8, <1>9 DEF Effect, Caches, Fields
    <3>4. Balance(cache.res[r].refs + 1, W[r] + 1, 0, 0, 0, Sent'[r].n, TRUE)
      BY <1>5, <1>10, <3>1, <3>2, <3>3, BoundsAre DEF Balanced, Account, Balance
    <3>5. Balanced(d, calls, Sent', TRUE, r)
      BY <1>10, <3>2, <3>3, <3>4 DEF Balanced, Account
    <3> QED
      BY <2>2, <3>5
  <2> QED
    BY <2>1, <2>2
<1>12. Fits(d, calls, Sent', FALSE)
  BY <1>3, <1>9, <1>11, FitsMoved
<1> QED
  BY <1>1, <1>2, <1>3, <1>6, <1>10, <1>12 DEF CacheInv, Ended

LEMMA BeginsInv ==
  ASSUME CacheInv, Begins
  PROVE  CacheInv'
<1>1. ASSUME NEW r \in Resources, RegisterWithCache(r) PROVE CacheInv'
  <2>1. PICK type \in {"Budgeted", "UnbudgetedUncacheable"},
             scratchKey \in ScratchKeys \union {Null}, size \in Sizes :
               Register(r, type, FALSE, scratchKey, size)
    BY <1>1 DEF RegisterWithCache
  <2>2. type \in BudgetedTypes /\ FALSE \in BOOLEAN
    BY DEF BudgetedTypes
  <2> QED
    BY <2>1, <2>2, RegisterInv
<1>2. ASSUME NEW r \in Resources, RegisterWithCacheWrapped(r) PROVE CacheInv'
  <2>1. PICK type \in {"UnbudgetedCacheable", "UnbudgetedUncacheable"}, size \in Sizes :
          Register(r, type, TRUE, Null, size)
    BY <1>2 DEF RegisterWithCacheWrapped
  <2>2. type \in BudgetedTypes /\ TRUE \in BOOLEAN /\ Null \in ScratchKeys \union {Null}
    BY DEF BudgetedTypes
  <2> QED
    BY <2>1, <2>2, RegisterInv
<1>3. ASSUME NEW r \in Resources,
             \/ RegisterWithCache(r) \/ RegisterWithCacheWrapped(r)
             \/ Ref(r) \/ Unref(r) \/ FindScratch(r)
             \/ RemoveUniqueKey(r) \/ RemoveScratchKey(r)
             \/ MakeBudgeted(r) \/ MakeUnbudgeted(r)
             \/ InsertDelayedTextureUnref(r)
             \/ \E k \in UniqueKeys : SetUniqueKey(r, k)
      PROVE  CacheInv'
  BY <1>1, <1>2, <1>3, RefInv, UnrefInv, FindScratchInv, KeysInv, BudgetInv, InsertDelayedInv
<1>4. ASSUME \E k \in UniqueKeys : FindUnique(k) PROVE CacheInv'
  BY <1>4, FindUniqueInv
<1>5. ASSUME \E limit \in Limits : SetLimit(limit) PROVE CacheInv'
  BY <1>5, SetLimitInv
<1>6. ASSUME \E n \in Requests, b \in BOOLEAN : PurgeBytes(n, b) PROVE CacheInv'
  BY <1>6, PurgeBytesInv
<1> QED
  BY <1>3, <1>4, <1>5, <1>6, PurgesInv, EndInv DEF Begins

LEMMA EmptyCacheGood ==
  ASSUME NEW limit \in Nat
  PROVE  LET c == EmptyCache(limit) IN
         /\ Good(c) /\ c.fTexturesAwaitingUnref = NoTextures
         /\ \A r \in Resources : c.res[r].refs = 0
<1> DEFINE c == EmptyCache(limit)
<1>1. 0 \in 0 .. Stamps - 1 /\ limit \in Nat /\ Null \notin Resources
  BY CacheAssumption, FS_CardinalityType
<1>2. Nothing \in Fields /\ Nothing.state = "none" /\ Nothing.refs = 0 /\ Nothing.uniqueKey = Null
  BY <1>1 DEF Nothing, Fields, BudgetedTypes
<1> HIDE DEF Nothing
<1>3. /\ c.res = [r \in Resources |-> Nothing]
      /\ c.fNonpurgeableResources = {} /\ c.fPurgeableQueue = {}
      /\ c.fScratchMap = {} /\ c.fUniqueHash = [k \in UniqueKeys |-> Null]
      /\ c.fBytes = 0 /\ c.fBudgetedCount = 0 /\ c.fBudgetedBytes = 0 /\ c.fPurgeableBytes = 0
      /\ c.fNumFlushWillMakePurgeable = 0 /\ c.fMaxBytes = limit /\ c.fTimestamp = 0
      /\ c.fTexturesAwaitingUnref = NoTextures /\ c.use = <<>>
  BY DEF EmptyCache
<1>4. c \in Caches
  <2> DEFINE x1 == [r \in Resources |-> Nothing]
             x2 == [k \in UniqueKeys |-> Null]
             x3 == NoTextures
             x4 == <<>>
  <2>1. /\ x1 \in [Resources -> Fields] /\ x2 \in [UniqueKeys -> Resources \union {Null}]
        /\ x3 \in [Resources -> Int] /\ x4 \in Seq(Resources)
    BY <1>2 DEF NoTextures
  <2>2. c = [res |-> x1,
             fNonpurgeableResources |-> {}, fPurgeableQueue |-> {},
             fScratchMap |-> {}, fUniqueHash |-> x2,
             fBytes |-> 0, fBudgetedCount |-> 0, fBudgetedBytes |-> 0, fPurgeableBytes |-> 0,
             fNumFlushWillMakePurgeable |-> 0,
             fMaxBytes |-> limit, fTimestamp |-> 0,
             fTexturesAwaitingUnref |-> x3,
             use |-> x4]
    BY DEF EmptyCache
  <2> HIDE DEF x1, x2, x3, x4, c
  <2> QED
    BY <1>1, <2>1, <2>2 DEF Caches
<1> HIDE DEF c
<1>5. \A r \in Resources : c.res[r] = Nothing
  BY <1>3
<1>6. ASSUME NEW r \in Resources PROVE Right(c, r)
  BY <1>1, <1>2, <1>3, <1>5 DEF Right
<1>7. \A r \in Resources : Sized(c)[r] = 0 /\ Paid(c)[r] = 0 /\ Counted(c)[r] = 0 /\ Waiting(c)[r] = 0
  BY <1>2, <1>5 DEF Sized, Paid, Counted, Waiting
<1>8. TotalsRight(c)
  <2>1. IsFiniteSet(Resources)
    BY CacheAssumption
  <2> QED
    BY <1>3, <1>7, <2>1, TotalZero DEF TotalsRight
<1>9. Ordered(c) /\ PaidFor(c)
  <2>1. DOMAIN c.use = {} /\ InCache(c) = {}
    BY <1>3 DEF InCache
  <2> QED
    BY <1>3, <2>1 DEF Ordered, Follows, PaidFor
<1>10. Good(c)
  BY <1>4, <1>6, <1>8, <1>9 DEF Good, Listed
<1> QED
  BY <1>2, <1>3, <1>5, <1>10 DEF c

LEMMA InitInv ==
  ASSUME Init
  PROVE  CacheInv
<1>1. PICK limit \in Limits : cache = EmptyCache(limit)
  BY DEF Init
<1>2. /\ calls = <<>> /\ fInvalidUniqueKeyInbox = {}
      /\ fFreedTextureInbox = NoTextures /\ owed = NoTextures /\ context = "alive" /\ Ended = FALSE
  BY DEF Init, Ended
<1>2a. miscounted = {}
  BY DEF Init
<1>3. /\ Good(cache) /\ cache.fTexturesAwaitingUnref = NoTextures
      /\ \A r \in Resources : cache.res[r].refs = 0
  BY <1>1, CacheAssumption, EmptyCacheGood
<1>4. calls \in Calls /\ Shaped(calls, FALSE) /\ \A l : \A r \in Resources : InFrames(calls, l, r) = 0
  BY <1>2, NothingBegun DEF Begun
<1>5. ASSUME NEW r \in Resources PROVE Balanced(cache, calls, Sent, TRUE, r)
  <2>1. /\ Sent[r].n = 0 /\ ~Sent[r].off
        /\ cache.fTexturesAwaitingUnref[r] = 0 /\ cache.res[r].refs = 0
    <3>1. /\ owed[r] = 0 /\ fFreedTextureInbox[r] = 0 /\ cache.fTexturesAwaitingUnref[r] = 0
          /\ cache.res[r].refs = 0
      BY <1>2, <1>3 DEF NoTextures
    <3>2. Sent[r].n = owed[r] + fFreedTextureInbox[r]
      BY DEF Sent
    <3>3. Sent[r].off = (r \in miscounted)
      BY DEF Sent
    <3>4. ~Sent[r].off
      BY <1>2a, <3>3
    <3> QED
      BY <3>1, <3>2, <3>4
  <2>2. Balance(0, 0, 0, 0, 0, 0, TRUE)
    BY BoundsAre DEF Balance
  <2> QED
    BY <1>4, <2>1, <2>2 DEF Balanced, Account
<1>6. Fits(cache, calls, Sent, Ended)
  BY <1>2, <1>3, <1>4, <1>5 DEF Fits
<1>7. NoTextures \in [Resources -> Nat]
  BY DEF NoTextures
<1> QED
  BY <1>2, <1>2a, <1>6, <1>7 DEF CacheInv

(* No function of the cache leaves its lists, keys, totals or order wrong, *)
(* whatever other threads post meanwhile and wherever the entries of the   *)
(* table have moved; nor the counts of references and messages of any      *)
(* texture but the ones a call counted through an entry that had moved.    *)
THEOREM CacheInvariance ==
  Spec => []CacheInv
<1>1. Init => CacheInv
  BY InitInv
<1>2. CacheInv /\ [Next]_vars => CacheInv'
  <2> SUFFICES ASSUME CacheInv, [Next]_vars PROVE CacheInv'
    OBVIOUS
  <2>1. CASE Begins
    BY <2>1, BeginsInv
  <2>2. CASE GoesOn
    BY <2>2, GoesOnInv
  <2>3. CASE Posts
    BY <2>3, PostsInv
  <2>4. CASE UNCHANGED vars
    <3>1. /\ cache' = cache /\ calls' = calls /\ UNCHANGED <<inboxes, miscounted, context>>
          /\ Sent' = Sent /\ Ended' = Ended
      BY <2>4 DEF vars, inboxes, Sent, Ended
    <3> QED
      BY <3>1 DEF CacheInv, inboxes
  <2> QED
    BY <2>1, <2>2, <2>3, <2>4 DEF Next
<1> QED
  BY <1>1, <1>2, PTL DEF Spec

(* What is in the cache is what exists.                                    *)
LEMMA CachedIs ==
  ASSUME CacheInv
  PROVE  /\ InCache(cache) = Cached /\ Cached \in SUBSET Resources /\ cache \in Caches
         /\ Good(cache) /\ \A r \in Resources : Right(cache, r)
         /\ \A r \in Resources : r \in Cached <=> cache.res[r].state = "cached"
BY InvIs, GoodIs DEF Cached

LEMMA QueuesAre ==
  ASSUME CacheInv
  PROVE  QueuesAgree
<1>1. /\ InCache(cache) = Cached /\ cache \in Caches /\ \A r \in Resources : Right(cache, r)
      /\ \A r \in cache.fPurgeableQueue : Budgeted(cache, r)
  BY CachedIs DEF Good, PaidFor
<1>2. /\ cache.fPurgeableQueue \in SUBSET Resources /\ cache.fNonpurgeableResources \in SUBSET Resources
  BY <1>1 DEF Caches
<1> QED
  BY <1>1, <1>2 DEF QueuesAgree, Right, Cached

LEMMA KeysAre ==
  ASSUME CacheInv
  PROVE  KeysAgree
<1>1. /\ cache \in Caches /\ \A r \in Resources : Right(cache, r)
      /\ \A r \in Resources : r \in Cached <=> cache.res[r].state = "cached"
      /\ Cached \in SUBSET Resources
  BY CachedIs
<1>2. /\ cache.fScratchMap \in SUBSET (ScratchKeys \X Resources)
      /\ \A r \in Resources : cache.res[r].scratchKey \in ScratchKeys \union {Null}
  BY <1>1 DEF Caches, Fields
<1>3. \A k \in UniqueKeys, r \in Resources :
        cache.fUniqueHash[k] = r <=> r \in Cached /\ cache.res[r].uniqueKey = k
  BY <1>1 DEF Right
<1>4. \A r \in Cached : cache.res[r].uniqueKey # Null =>
        Budgeted(cache, r) \/ cache.res[r].refsWrapped
  BY <1>1 DEF Right
<1>5. ASSUME NEW e \in cache.fScratchMap PROVE e \in UNION {ScratchEntry(cache, r) : r \in Cached}
  <2>1. PICK k \in ScratchKeys, r \in Resources : e = <<k, r>>
    BY <1>2
  <2>2. cache.res[r].state = "cached" /\ cache.res[r].scratchKey = k /\ cache.res[r].uniqueKey = Null
    BY <1>1, <2>1 DEF Right
  <2>3. k # Null
    BY CacheAssumption
  <2> QED
    BY <1>1, <2>1, <2>2, <2>3 DEF ScratchEntry
<1>6. ASSUME NEW r \in Cached, NEW e \in ScratchEntry(cache, r) PROVE e \in cache.fScratchMap
  <2>1. /\ e = <<cache.res[r].scratchKey, r>> /\ cache.res[r].scratchKey # Null
        /\ cache.res[r].uniqueKey = Null
    BY DEF ScratchEntry
  <2>2. cache.res[r].scratchKey \in ScratchKeys /\ cache.res[r].state = "cached" /\ r \in Resources
    BY <1>1, <1>2, <2>1
  <2> QED
    BY <1>1, <2>1, <2>2 DEF Right
<1>7. cache.fScratchMap = UNION {ScratchEntry(cache, r) : r \in Cached}
  BY <1>5, <1>6
<1> QED
  BY <1>3, <1>4, <1>7 DEF KeysAgree

LEMMA StampsAre ==
  ASSUME CacheInv
  PROVE  StampsFollowUse
<1>1. InCache(cache) = Cached /\ cache \in Caches /\ Follows(cache) /\ Cached \in SUBSET Resources
  BY CachedIs DEF Good, Ordered
<1>2. \A i \in DOMAIN cache.use : cache.use[i] \in Resources
  <2>1. cache.use \in Seq(Resources)
    BY <1>1 DEF Caches
  <2> QED
    BY <2>1, ElementOfSeq, LenProperties
<1>3. {cache.use[i] : i \in DOMAIN cache.use} = Cached
  BY <1>1, <1>2 DEF Follows
<1> QED
  BY <1>1, <1>3 DEF StampsFollowUse, Follows

LEMMA MessagesAre ==
  ASSUME CacheInv
  PROVE  MessagesMatched
<1> SUFFICES ASSUME context = "alive", NEW r \in Resources \ miscounted
             PROVE  OnTheWay(r) + InCalls("unreffed", r) <= cache.fTexturesAwaitingUnref[r]
  BY DEF MessagesMatched
<1>1. /\ Ended = FALSE /\ calls \in Calls /\ Balanced(cache, calls, Sent, TRUE, r)
      /\ Sent[r].n = owed[r] + fFreedTextureInbox[r] /\ ~Sent[r].off
      /\ owed[r] \in Nat /\ fFreedTextureInbox[r] \in Nat
      /\ cache.fTexturesAwaitingUnref[r] \in Nat
  BY InvIs DEF Ended
<1>2. /\ InCalls("freed", r) = InFrames(calls, "freed", r)
      /\ InCalls("unreffed", r) = InFrames(calls, "unreffed", r)
  BY <1>1, InCallsAre
<1>3. /\ InFrames(calls, "freed", r) \in Nat /\ InFrames(calls, "unreffed", r) \in Nat
      /\ Sent[r].n + InFrames(calls, "freed", r) + InFrames(calls, "unreffed", r)
           <= cache.fTexturesAwaitingUnref[r]
  BY <1>1 DEF Balanced, Account, Balance
<1> QED
  BY <1>1, <1>2, <1>3 DEF OnTheWay

LEMMA BytesIs ==
  ASSUME NEW S \in SUBSET Resources
  PROVE  Bytes(S) = Total([r \in Resources |-> cache.res[r].size], S)
<1> DEFINE W == [r \in Resources |-> cache.res[r].size]
           G(g) == g = [s \in SUBSET S |->
                          IF s = {} THEN 0 ELSE cache.res[Some(s)].size + g[Less(s)]]
<1>1. IsFiniteSet(S)
  BY CacheAssumption, FS_Subset
<1>2. \A r \in S : W[r] = cache.res[r].size
  OBVIOUS
<1>3. Bytes(S) = (CHOOSE g : G(g))[S]
  BY DEF Bytes, MapThenSumSet, MapThenFoldSet, Some, Less
<1>4. \A g : G(g) <=> Folds(g, W, S)
  <2> SUFFICES ASSUME NEW g PROVE G(g) <=> Folds(g, W, S)
    OBVIOUS
  <2>1. \A s \in SUBSET S : s # {} => Some(s) \in S
    BY SomeIn
  <2> HIDE DEF W
  <2>2. [s \in SUBSET S |-> IF s = {} THEN 0 ELSE cache.res[Some(s)].size + g[Less(s)]]
        = [s \in SUBSET S |-> IF s = {} THEN 0 ELSE W[Some(s)] + g[Less(s)]]
    BY <1>2, <2>1
  <2> QED
    BY <2>2 DEF Folds
<1> HIDE DEF W, G
<1>5. Folds(Fold(W, S), W, S)
  BY <1>1, FoldExists
<1>6. \E g : G(g)
  BY <1>4, <1>5
<1>7. G(CHOOSE g : G(g))
  BY <1>6, Zenon
<1>8. Folds(CHOOSE g : G(g), W, S)
  BY <1>4, <1>7
<1> QED
  BY <1>1, <1>3, <1>8, TotalIsFold DEF W

LEMMA BytesAre ==
  ASSUME CacheInv
  PROVE  BytesAgree
<1> DEFINE budgeted == {r \in Cached : Budgeted(cache, r)}
           queue == cache.fPurgeableQueue
           V == [r \in Resources |-> cache.res[r].size]
           O == [r \in Resources |-> 1]
           A == Sized(cache)
           B == Paid(cache)
           C == Counted(cache)
           D == Waiting(cache)
<1>1. /\ cache \in Caches /\ \A r \in Resources : Right(cache, r)
      /\ \A r \in Resources : r \in Cached <=> cache.res[r].state = "cached"
      /\ Cached \in SUBSET Resources /\ TotalsRight(cache) /\ IsFiniteSet(Resources)
  BY CachedIs, CacheAssumption DEF Good, Listed
<1>2. /\ budgeted \in SUBSET Resources /\ queue \in SUBSET Resources /\ IsFiniteSet(budgeted)
      /\ \A r \in Resources : r \in queue <=> cache.res[r].state = "cached" /\ IsPurgeable(cache, r)
      /\ \A r \in Resources : r \in budgeted <=> cache.res[r].state = "cached" /\ Budgeted(cache, r)
  <2>1. budgeted \in SUBSET Resources
    BY <1>1
  <2>2. IsFiniteSet(budgeted)
    BY <1>1, <2>1, FS_Subset
  <2> QED
    BY <1>1, <2>1, <2>2 DEF Right, Caches
<1>3. /\ \A r \in Resources : A[r] = IF r \in Cached THEN V[r] ELSE 0
      /\ \A r \in Resources : B[r] = IF r \in budgeted THEN V[r] ELSE 0
      /\ \A r \in Resources : C[r] = IF r \in budgeted THEN O[r] ELSE 0
      /\ \A r \in Resources : D[r] = IF r \in queue THEN V[r] ELSE 0
      /\ \A r \in Resources : O[r] = 1
  <2> HIDE DEF budgeted, queue
  <2> QED
    BY <1>1, <1>2 DEF Sized, Paid, Counted, Waiting
<1>4. \A r \in Resources : A[r] \in Nat /\ B[r] \in Nat /\ C[r] \in Nat /\ D[r] \in Nat
  BY <1>1, WeightsTyped
<1>5. /\ cache.fBytes = Total(A, Resources) /\ cache.fBudgetedBytes = Total(B, Resources)
      /\ cache.fBudgetedCount = Total(C, Resources) /\ cache.fPurgeableBytes = Total(D, Resources)
  BY <1>1 DEF TotalsRight
<1>6. /\ Bytes(Cached) = Total(V, Cached) /\ Bytes(budgeted) = Total(V, budgeted)
      /\ Bytes(queue) = Total(V, queue)
  BY <1>1, <1>2, BytesIs
<1> HIDE DEF A, B, C, D, V, O, budgeted, queue
<1>7. Total(A, Resources) = Total(V, Cached)
  BY <1>1, <1>3, <1>4, TotalWhere
<1>8. Total(B, Resources) = Total(V, budgeted)
  BY <1>1, <1>2, <1>3, <1>4, TotalWhere
<1>9. Total(C, Resources) = Total(O, budgeted)
  BY <1>1, <1>2, <1>3, <1>4, TotalWhere
<1>10. Total(D, Resources) = Total(V, queue)
  BY <1>1, <1>2, <1>3, <1>4, TotalWhere
<1>11. Total(O, budgeted) = Cardinality(budgeted)
  BY <1>2, <1>3, TotalOnes
<1> QED
  BY <1>5, <1>6, <1>7, <1>8, <1>9, <1>10, <1>11 DEF BytesAgree, budgeted, queue

LEMMA AwaitedAre ==
  ASSUME CacheInv
  PROVE  AwaitedHeld
<1>1. /\ cache \in Caches /\ calls \in Calls /\ Shaped(calls, Ended) /\ Ended \in BOOLEAN
      /\ fInvalidUniqueKeyInbox \subseteq UniqueKeys
      /\ fFreedTextureInbox \in [Resources -> Nat] /\ owed \in [Resources -> Nat]
      /\ context \in {"alive", "abandoned", "released"} /\ miscounted \subseteq Resources
  BY InvIs DEF CacheInv
<1>2. ASSUME NEW r \in Resources
      PROVE  /\ cache.res[r].refs \in 0 .. MaxRefs + MaxOwed
             /\ cache.fTexturesAwaitingUnref[r] \in 0 .. MaxOwed
             /\ owed[r] \in 0 .. MaxOwed /\ fFreedTextureInbox[r] \in 0 .. MaxOwed
             /\ r \notin miscounted =>
                  cache.fTexturesAwaitingUnref[r] - InCalls("unreffed", r) <= cache.res[r].refs
  <2>1. /\ Balanced(cache, calls, Sent, ~Ended \/ Resets(calls), r)
        /\ cache.res[r].refs \in Nat /\ cache.fTexturesAwaitingUnref[r] \in Nat
        /\ Sent[r].n = owed[r] + fFreedTextureInbox[r]
        /\ Sent[r].off = (r \in miscounted) /\ Sent[r].off \in BOOLEAN
        /\ owed[r] \in Nat /\ fFreedTextureInbox[r] \in Nat
    BY InvIs
  <2>2. InCalls("unreffed", r) = InFrames(calls, "unreffed", r)
    BY <1>1, InCallsAre
  <2> DEFINE U == InFrames(calls, "unreffed", r)
             X == InFrames(calls, "reset", r)
             W == cache.fTexturesAwaitingUnref[r]
             F == InFrames(calls, "freed", r)
             n == cache.res[r].refs
             awaits == ~Ended \/ Resets(calls)
  <2>3. /\ Account(n, W, U, X, F, Sent[r].n, awaits, Sent[r].off)
        /\ n \in Nat /\ W \in Nat /\ awaits \in BOOLEAN
    BY <1>1, <2>1 DEF Balanced, Resets
  <2> HIDE DEF U, X, W, F, n, awaits
  <2>4. Bounded(n, W, U, X, F, Sent[r].n, awaits)
    BY <2>1, <2>3, BalanceBounds
  <2>5. n \in 0 .. MaxRefs + MaxOwed /\ W \in 0 .. MaxOwed
    BY <2>4, BoundsAre DEF Bounded
  <2>6. owed[r] \in 0 .. MaxOwed /\ fFreedTextureInbox[r] \in 0 .. MaxOwed
    BY <2>1, <2>4, BoundsAre DEF Bounded
  <2>7. ASSUME r \notin miscounted PROVE W - U <= n
    <3>1. ~Sent[r].off
      BY <2>1, <2>7
    <3>2. Balance(n, W, U, X, F, Sent[r].n, awaits)
      BY <2>3, <3>1 DEF Account
    <3> QED
      BY <2>3, <3>2, BoundsAre DEF Balance
  <2> QED
    BY <2>2, <2>5, <2>6, <2>7 DEF U, W, n
<1>3. cache.res \in [Resources -> Resource]
  <2>1. cache.res \in [Resources -> Fields]
    BY <1>1 DEF Caches
  <2>2. ASSUME NEW r \in Resources PROVE cache.res[r] \in Resource
    <3>1. cache.res[r] \in Fields /\ cache.res[r].refs \in 0 .. MaxRefs + MaxOwed
      BY <1>2, <2>1
    <3> DEFINE f == cache.res[r]
    <3> HIDE DEF f
    <3>2. f \in Fields /\ f.refs \in 0 .. MaxRefs + MaxOwed
      BY <3>1 DEF f
    <3>3. f \in Resource
      BY <3>2 DEF Fields, Resource
    <3> QED
      BY <3>3 DEF f
  <2> QED
    BY <2>1, <2>2
<1>4. cache.fTexturesAwaitingUnref \in [Resources -> 0..MaxOwed]
  <2>1. cache.fTexturesAwaitingUnref \in [Resources -> Int]
    BY <1>1 DEF Caches
  <2> QED
    BY <1>2, <2>1
<1>5. owed \in [Resources -> 0..MaxOwed] /\ fFreedTextureInbox \in [Resources -> 0..MaxOwed]
  BY <1>1, <1>2
<1>6. \A i \in DOMAIN calls : calls[i].at \in Labels
  <2>1. \A i \in DOMAIN calls : calls[i] \in FrameSet
    BY <1>1, LenProperties, ElementOfSeq DEF Calls
  <2> QED
    BY <2>1 DEF FrameSet
<1>7. /\ cache.fScratchMap \subseteq ScratchKeys \X Resources
      /\ cache.fUniqueHash \in [UniqueKeys -> Resources \union {Null}]
      /\ cache.fTimestamp \in 0..Stamps-1
  BY <1>1 DEF Caches
<1>8. TypeOK
  BY <1>1, <1>3, <1>4, <1>5, <1>6, <1>7 DEF TypeOK
<1> QED
  BY <1>2, <1>8 DEF AwaitedHeld

SameTotals(c, d) ==
  /\ d.fNonpurgeableResources = c.fNonpurgeableResources
  /\ d.fPurgeableQueue = c.fPurgeableQueue
  /\ d.fScratchMap = c.fScratchMap /\ d.fUniqueHash = c.fUniqueHash
  /\ d.fBytes = c.fBytes /\ d.fBudgetedCount = c.fBudgetedCount
  /\ d.fBudgetedBytes = c.fBudgetedBytes /\ d.fPurgeableBytes = c.fPurgeableBytes
  /\ d.fNumFlushWillMakePurgeable = c.fNumFlushWillMakePurgeable
  /\ d.fMaxBytes = c.fMaxBytes
  /\ d.fTexturesAwaitingUnref = c.fTexturesAwaitingUnref /\ d.use = c.use

LEMMA SameCache ==
  ASSUME NEW c \in Caches, NEW d \in Caches, SameTotals(c, d),
         d.res = c.res, d.fTimestamp = c.fTimestamp
  PROVE  c = d
<1>1. c = [res |-> c.res, fNonpurgeableResources |-> c.fNonpurgeableResources,
           fPurgeableQueue |-> c.fPurgeableQueue, fScratchMap |-> c.fScratchMap,
           fUniqueHash |-> c.fUniqueHash, fBytes |-> c.fBytes,
           fBudgetedCount |-> c.fBudgetedCount,
           fBudgetedBytes |-> c.fBudgetedBytes,
           fPurgeableBytes |-> c.fPurgeableBytes,
           fNumFlushWillMakePurgeable |-> c.fNumFlushWillMakePurgeable,
           fMaxBytes |-> c.fMaxBytes, fTimestamp |-> c.fTimestamp,
           fTexturesAwaitingUnref |-> c.fTexturesAwaitingUnref, use |-> c.use]
  BY DEF Caches
<1>2. d = [res |-> c.res, fNonpurgeableResources |-> c.fNonpurgeableResources,
           fPurgeableQueue |-> c.fPurgeableQueue, fScratchMap |-> c.fScratchMap,
           fUniqueHash |-> c.fUniqueHash, fBytes |-> c.fBytes,
           fBudgetedCount |-> c.fBudgetedCount,
           fBudgetedBytes |-> c.fBudgetedBytes,
           fPurgeableBytes |-> c.fPurgeableBytes,
           fNumFlushWillMakePurgeable |-> c.fNumFlushWillMakePurgeable,
           fMaxBytes |-> c.fMaxBytes, fTimestamp |-> c.fTimestamp,
           fTexturesAwaitingUnref |-> c.fTexturesAwaitingUnref, use |-> c.use]
  BY DEF Caches, SameTotals
<1> QED
  BY <1>1, <1>2

LEMMA TornDownIs ==
  ASSUME CacheInv
  PROVE  TornDownClean
<1> SUFFICES ASSUME context # "alive", calls = <<>>
             PROVE  cache = [EmptyCache(cache.fMaxBytes) EXCEPT
                               !.res = cache.res, !.fTimestamp = cache.fTimestamp]
  BY DEF TornDownClean
<1> DEFINE x1 == cache.res
           x2 == [k \in UniqueKeys |-> Null]
           x3 == cache.fTimestamp
           x4 == cache.fMaxBytes
           x5 == [r \in Resources |-> Nothing]
           e == EmptyCache(x4)
<1>1. Ended = TRUE /\ InCache(cache) = {} /\ Fits(cache, calls, Sent, TRUE)
  BY DEF CacheInv, Fits, Ended
<1>2. /\ cache \in Caches /\ \A r \in Resources : Right(cache, r)
      /\ \A r \in Resources : cache.res[r].state # "cached"
      /\ TotalsRight(cache) /\ IsFiniteSet(Resources) /\ Follows(cache)
  BY <1>1, CachedIs, CacheAssumption DEF Good, Listed, Ordered
<1>3. cache.fNonpurgeableResources = {} /\ cache.fPurgeableQueue = {}
  BY <1>1 DEF InCache
<1>4. cache.fScratchMap = {}
  <2>1. cache.fScratchMap \in SUBSET (ScratchKeys \X Resources)
    BY <1>2 DEF Caches
  <2>2. ASSUME NEW p \in cache.fScratchMap PROVE FALSE
    <3>1. PICK k \in ScratchKeys, r \in Resources : p = <<k, r>>
      BY <2>1
    <3> QED
      BY <1>2, <3>1 DEF Right
  <2> QED
    BY <2>2
<1>5. cache.fUniqueHash = x2
  <2>1. cache.fUniqueHash \in [UniqueKeys -> Resources \union {Null}]
    BY <1>2 DEF Caches
  <2>2. ASSUME NEW k \in UniqueKeys PROVE cache.fUniqueHash[k] = Null
    <3>1. cache.fUniqueHash[k] \notin Resources
      BY <1>2 DEF Right
    <3> QED
      BY <2>1, <3>1
  <2> QED
    BY <2>1, <2>2
<1>6. /\ cache.fBytes = 0 /\ cache.fBudgetedBytes = 0 /\ cache.fBudgetedCount = 0
      /\ cache.fPurgeableBytes = 0 /\ cache.fNumFlushWillMakePurgeable = 0
  <2>1. \A r \in Resources : /\ Sized(cache)[r] = 0 /\ Paid(cache)[r] = 0
                             /\ Counted(cache)[r] = 0 /\ Waiting(cache)[r] = 0
    BY <1>2 DEF Sized, Paid, Counted, Waiting
  <2> QED
    BY <1>2, <2>1, TotalZero DEF TotalsRight
<1>7. cache.fTexturesAwaitingUnref = NoTextures
  <2>1. ~ Resets(<<>>)
    BY DEF Resets
  <2>2. ASSUME NEW r \in Resources PROVE cache.fTexturesAwaitingUnref[r] = 0
    <3>1. Balanced(cache, <<>>, Sent, ~TRUE \/ Resets(<<>>), r)
      BY <1>1 DEF Fits
    <3>2. Sent[r].off \in BOOLEAN
      BY InvIs
    <3> QED
      BY <2>1, <3>1, <3>2 DEF Balanced, Account, Balance, Bounded
  <2>3. cache.fTexturesAwaitingUnref \in [Resources -> Int]
    BY <1>2 DEF Caches
  <2> QED
    BY <2>2, <2>3 DEF NoTextures
<1>8. cache.use = <<>>
  <2>1. cache.use \in Seq(Resources) /\ DOMAIN cache.use = {}
    BY <1>1, <1>2 DEF Caches, Follows
  <2> QED
    BY <2>1, EmptySeq, LenProperties
<1>9. e \in Caches /\ x1 \in [Resources -> Fields] /\ x3 \in 0 .. Stamps - 1
  BY <1>2, EmptyCacheGood DEF Caches, Good, Listed
<1>10. /\ e.fNonpurgeableResources = {} /\ e.fPurgeableQueue = {}
       /\ e.fScratchMap = {} /\ e.fUniqueHash = x2
       /\ e.fBytes = 0 /\ e.fBudgetedCount = 0 /\ e.fBudgetedBytes = 0 /\ e.fPurgeableBytes = 0
       /\ e.fNumFlushWillMakePurgeable = 0 /\ e.fMaxBytes = x4
       /\ e.fTexturesAwaitingUnref = NoTextures /\ e.use = <<>>
  BY DEF EmptyCache
<1> DEFINE g == [e EXCEPT !.res = x1]
           d == [g EXCEPT !.fTimestamp = x3]
<1> HIDE DEF x1, x2, x3, x4, e
<1>11. g \in Caches /\ g.res = x1 /\ SameTotals(e, g)
  BY <1>9 DEF Caches, SameTotals
<1> HIDE DEF g
<1>12. d \in Caches /\ d.res = x1 /\ d.fTimestamp = x3 /\ SameTotals(g, d)
  BY <1>9, <1>11 DEF Caches, SameTotals
<1> HIDE DEF d
<1>13. SameTotals(cache, d) /\ d.res = cache.res /\ d.fTimestamp = cache.fTimestamp
  BY <1>3, <1>4, <1>5, <1>6, <1>7, <1>8, <1>10, <1>11, <1>12 DEF SameTotals, x1, x3, x4
<1>14. cache = d
  BY <1>2, <1>12, <1>13, SameCache
<1> QED
  BY <1>14 DEF d, g, e, x1, x3, x4

-----------------------------------------------------------------------------
(* What leaves the cache is not in use, and a call that ends leaves        *)
(* nothing to purge that was not there before it began.                    *)
NoneInUse(c, d) == \A q \in Resources :
  c.res[q].state = "cached" /\ d.res[q].state # "cached" => d.res[q].refs = 0
Tidy ==
  /\ NoneInUse(cache, cache')
  /\ calls' = <<>> /\ Over(cache') => (calls = <<>> /\ Over(cache)) \/ At("purged")

LEMMA LessIsTidy ==
  ASSUME NEW c \in Caches, NEW d \in Caches, d.fMaxBytes = c.fMaxBytes,
         d.fPurgeableQueue \subseteq c.fPurgeableQueue, d.fBudgetedBytes <= c.fBudgetedBytes
  PROVE  Over(d) => Over(c)
<1>1. /\ c.fBudgetedBytes \in Int /\ d.fBudgetedBytes \in Int
      /\ c.fMaxBytes \in Nat /\ d.fMaxBytes \in Nat
  BY DEF Caches
<1> QED
  BY <1>1 DEF Over, OverBudget

LEMMA KeptTidy ==
  ASSUME NEW c, Good(c), NEW d, Good(d), Kept(c, d)
  PROVE  NoneInUse(c, d) /\ (Over(d) => Over(c))
<1>1. c \in Caches /\ d \in Caches
  BY GoodIs
<1>2. Over(d) => Over(c)
  BY <1>1, LessIsTidy DEF Kept
<1>3. NoneInUse(c, d)
  BY DEF Kept, NoneInUse
<1> QED
  BY <1>2, <1>3

LEMMA EffectTidy ==
  ASSUME NEW c, Good(c), NEW r \in Resources, NEW d, Good(d), NEW n, Effect(c, d, r, n),
         \/ c.res[r].state # "cached" \/ d.res[r].state = "cached" \/ d.res[r].refs = 0
  PROVE  NoneInUse(c, d)
BY DEF NoneInUse, Effect

LEMMA EffectLess ==
  ASSUME NEW c, Good(c), NEW r \in Resources, NEW d, Good(d), NEW n, Effect(c, d, r, n),
         d.fPurgeableQueue \subseteq c.fPurgeableQueue, d.fBudgetedBytes = c.fBudgetedBytes
  PROVE  Over(d) => Over(c)
<1>1. c \in Caches /\ d \in Caches
  BY GoodIs
<1>2. c.fBudgetedBytes \in Int
  BY <1>1 DEF Caches
<1>3. d.fBudgetedBytes <= c.fBudgetedBytes
  BY <1>2
<1> QED
  BY <1>1, <1>3, LessIsTidy DEF Effect

LEMMA FoundTidy ==
  ASSUME CacheInv, Idle, NEW r \in Resources, cache.res[r].state = "cached",
         Do(RefAndMakeMRU(cache, r), calls)
  PROVE  Tidy
<1> DEFINE d == RefAndMakeMRU(cache, r)
<1>1. Good(cache) /\ calls = <<>> /\ cache' = d
  BY IdleIs DEF Do
<1>2. /\ Good(d) /\ Effect(cache, d, r, 1) /\ d.res[r].state = "cached"
      /\ d.fPurgeableQueue = cache.fPurgeableQueue \ {r}
      /\ d.fBudgetedBytes = cache.fBudgetedBytes
  BY <1>1, RefAndMakeMRUGood
<1> HIDE DEF d
<1>3. NoneInUse(cache, d)
  BY <1>1, <1>2, EffectTidy
<1>4. Over(d) => Over(cache)
  BY <1>1, <1>2, EffectLess
<1> QED
  BY <1>1, <1>3, <1>4 DEF Tidy

LEMMA UnrefTidy ==
  ASSUME CacheInv, NEW r \in Resources, Unref(r)
  PROVE  Tidy
<1> DEFINE q == AfterUnref(cache, r)
           d == Unreffed(cache, r)
<1>1. calls = <<>> /\ Held(r) > 0 /\ cache' = d /\ calls' = q
  BY DEF Unref, Owned, Do
<1>2. Good(cache) /\ cache.res[r].refs > 0
  <2>1. /\ Held(r) = cache.res[r].refs - cache.fTexturesAwaitingUnref[r]
        /\ cache.res[r].refs \in Nat /\ cache.fTexturesAwaitingUnref[r] \in 0 .. MaxOwed
    BY <1>1, InvIs, HeldIs
  <2> QED
    BY <1>1, <2>1, InvIs, BoundsAre
<1>3. /\ Good(d) /\ Effect(cache, d, r, -1)
      /\ cache.res[r].state = "cached" /\ d.res[r].state # "cached" => d.res[r].refs = 0
      /\ Over(d) /\ q = <<>> => Over(cache)
  BY <1>2, UnreffedGood
<1> HIDE DEF d, q
<1>4. NoneInUse(cache, d)
  BY <1>2, <1>3, EffectTidy
<1> QED
  BY <1>1, <1>3, <1>4 DEF Tidy

LEMMA KeysTidy ==
  ASSUME CacheInv, NEW r \in Resources,
         \/ \E k \in UniqueKeys : SetUniqueKey(r, k)
         \/ RemoveUniqueKey(r) \/ RemoveScratchKey(r)
  PROVE  Tidy
<1>1. Usable(r)
  BY DEF SetUniqueKey, RemoveUniqueKey, RemoveScratchKey
<1>2. Idle /\ cache.res[r].state = "cached" /\ cache.res[r].refs > 0
  BY <1>1, UsableIs
<1>3. Good(cache) /\ calls = <<>> /\ cache \in Caches
  BY <1>2, IdleIs
<1>4. ASSUME NEW d, Good(d), Kept(cache, d), Do(d, calls) PROVE Tidy
  BY <1>3, <1>4, KeptTidy DEF Tidy, Do
<1>5. ASSUME NEW k \in UniqueKeys, SetUniqueKey(r, k) PROVE Tidy
  <2> DEFINE d == KeyChanged(cache, r, k)
  <2>1. /\ Do(d, calls)
        /\ Budgeted(cache, r) \/ cache.res[r].refsWrapped
        /\ LET old == cache.fUniqueHash[k] IN
           old # Null => \/ cache.res[old].refs > 0
                         \/ cache.res[old].scratchKey = Null /\ IsPurgeable(cache, old)
    BY <1>5 DEF SetUniqueKey
  <2>2. Good(d) /\ Kept(cache, d)
    BY <1>2, <1>3, <2>1, KeyChangedGood
  <2> HIDE DEF d
  <2> QED
    BY <1>4, <2>1, <2>2
<1>6. ASSUME RemoveUniqueKey(r) PROVE Tidy
  <2> DEFINE d == KeyRemoved(cache, r)
  <2>1. cache' = d
    BY <1>6 DEF RemoveUniqueKey, Do
  <2>2. /\ Good(d) /\ Effect(cache, d, r, 0) /\ SameButKeysOf(cache, d, r) /\ SameButKeys(cache, d)
    BY <1>2, <1>3, KeyRemovedGood
  <2> HIDE DEF d
  <2>3. NoneInUse(cache, d)
    BY <1>2, <1>3, <2>2, EffectTidy DEF SameButKeysOf
  <2>4. Over(d) => Over(cache)
    BY <1>3, <2>2, EffectLess DEF SameButKeys
  <2> QED
    BY <1>3, <2>1, <2>3, <2>4 DEF Tidy
<1>7. ASSUME RemoveScratchKey(r) PROVE Tidy
  <2> DEFINE d == [cache EXCEPT !.fScratchMap = @ \ ScratchEntry(cache, r), !.res[r].scratchKey = Null]
  <2>1. Do(d, calls)
    BY <1>7 DEF RemoveScratchKey
  <2>2. Good(d) /\ Kept(cache, d)
    BY <1>2, <1>3, ScratchKeyRemovedGood
  <2> HIDE DEF d
  <2> QED
    BY <1>4, <2>1, <2>2
<1> QED
  BY <1>5, <1>6, <1>7

(* What purges as well leaves calls under way.                             *)
LEMMA PurgeTidy ==
  ASSUME CacheInv, NEW d, NEW s, s # <<>>, Do(d, s), NoneInUse(cache, d)
  PROVE  Tidy
BY DEF Tidy, Do

LEMMA PurgeThere ==
  /\ Purge # <<>>
  /\ \A f : <<f>> # <<>> /\ Purge \o <<f>> # <<>>
<1>1. Purge # <<>>
  BY DEF Purge
<1>2. ASSUME NEW f PROVE <<f>> # <<>> /\ Purge \o <<f>> # <<>>
  BY DEF Purge
<1> QED
  BY <1>1, <1>2

LEMMA RegisterTidy ==
  ASSUME CacheInv, NEW r \in Resources, RegisterWithCache(r) \/ RegisterWithCacheWrapped(r)
  PROVE  Tidy
<1>1. PICK type \in BudgetedTypes, wrapped \in BOOLEAN, scratchKey \in ScratchKeys \union {Null},
           size \in Sizes : Register(r, type, wrapped, scratchKey, size)
  BY DEF RegisterWithCache, RegisterWithCacheWrapped, BudgetedTypes
<1>2. cache.res[r] = Nothing /\ calls' = Purge
  BY <1>1 DEF Register, Do
<1>3. cache.res[r].state # "cached"
  BY <1>2 DEF Nothing
<1>4. \A q \in Resources \ {r} : cache'.res[q].state = cache.res[q].state
  <2> DEFINE new == [Nothing EXCEPT !.state = "cached", !.refs = 1, !.size = size,
                       !.budgetedType = type, !.refsWrapped = wrapped, !.scratchKey = scratchKey]
             b == [cache EXCEPT !.res[r] = new]
             d == Inserted(b, r)
  <2>1. /\ Idle /\ cache' = d
    BY <1>1 DEF Register, Do
  <2>2. new \in Fields /\ new.state = "cached" /\ new.refs = 1 /\ new.uniqueKey = Null
    <3>1. new = NewResource(type, wrapped, scratchKey, size)
      BY DEF NewResource
    <3> HIDE DEF new
    <3> QED
      BY <3>1, NewIs
  <2>3. Good(cache)
    BY InvIs
  <2> HIDE DEF new
  <2>4. Effect(cache, d, r, 1)
    BY <1>2, <2>2, <2>3, InsertedGood
  <2> HIDE DEF d
  <2> QED
    BY <2>1, <2>4 DEF Effect
<1> QED
  BY <1>2, <1>3, <1>4, PurgeThere DEF Tidy, NoneInUse

LEMMA BudgetTidy ==
  ASSUME CacheInv, NEW r \in Resources, MakeBudgeted(r) \/ MakeUnbudgeted(r)
  PROVE  Tidy
<1>1. Usable(r)
  BY DEF MakeBudgeted, MakeUnbudgeted
<1>2. Idle /\ cache.res[r].state = "cached" /\ cache.res[r].refs > 0
  BY <1>1, UsableIs
<1>3. Good(cache) /\ calls = <<>>
  BY <1>2, IdleIs
<1>4. ASSUME MakeBudgeted(r) PROVE Tidy
  <2> DEFINE d == MadeBudgeted(cache, r)
  <2>1. Do(d, Purge) /\ cache.res[r].budgetedType = "UnbudgetedUncacheable"
    BY <1>4 DEF MakeBudgeted
  <2>2. Good(d) /\ Effect(cache, d, r, 0) /\ d.res[r].state = "cached"
    BY <1>2, <1>3, <2>1, MadeBudgetedGood DEF Good, PaidFor
  <2> HIDE DEF d
  <2>3. NoneInUse(cache, d)
    BY <1>3, <2>2, EffectTidy
  <2> QED
    BY <2>1, <2>3, PurgeTidy, PurgeThere
<1>5. ASSUME MakeUnbudgeted(r) PROVE Tidy
  <2> DEFINE d == MadeUnbudgeted(cache, r)
  <2>1. Do(d, calls) /\ Budgeted(cache, r) /\ cache.res[r].uniqueKey = Null
    BY <1>5 DEF MakeUnbudgeted
  <2>2. Good(d) /\ Kept(cache, d)
    BY <1>2, <1>3, <2>1, MadeUnbudgetedGood
  <2> HIDE DEF d
  <2> QED
    BY <1>3, <2>1, <2>2, KeptTidy DEF Tidy, Do
<1> QED
  BY <1>4, <1>5

LEMMA PurgesTidy ==
  ASSUME CacheInv, PurgeAsNeeded \/ PurgeNotUsedSince \/ \E b \in BOOLEAN : PurgeUnlocked(b)
  PROVE  Tidy
<1>1. Idle
  BY DEF PurgeAsNeeded, PurgeNotUsedSince, PurgeUnlocked
<1>2. Good(cache) /\ calls = <<>> /\ cache \in Caches
  BY <1>1, IdleIs
<1>3. CASE PurgeAsNeeded
  <2>1. Do(cache, Purge) /\ NoneInUse(cache, cache)
    BY <1>3 DEF PurgeAsNeeded, NoneInUse
  <2> QED
    BY <2>1, PurgeTidy, PurgeThere
<1>4. ASSUME NEW S \in SUBSET cache.fPurgeableQueue, Do(DestroyedAll(cache, S), calls) PROVE Tidy
  <2> DEFINE d == DestroyedAll(cache, S)
  <2>1. Good(d) /\ Kept(cache, d)
    BY <1>2, DestroyedAllGood
  <2>2. Do(d, calls)
    BY <1>4
  <2> HIDE DEF d
  <2> QED
    BY <1>2, <2>1, <2>2, KeptTidy DEF Tidy, Do
<1>5. CASE PurgeNotUsedSince
  <2>1. PICK stamp \in {cache.res[r].timestamp : r \in cache.fPurgeableQueue} :
          Do(DestroyedAll(cache, {r \in cache.fPurgeableQueue : cache.res[r].timestamp <= stamp}), calls)
    BY <1>5 DEF PurgeNotUsedSince
  <2> DEFINE S == {r \in cache.fPurgeableQueue : cache.res[r].timestamp <= stamp}
  <2>2. S \in SUBSET cache.fPurgeableQueue /\ Do(DestroyedAll(cache, S), calls)
    BY <2>1
  <2> HIDE DEF S
  <2> QED
    BY <1>4, <2>2
<1>6. ASSUME NEW b \in BOOLEAN, PurgeUnlocked(b) PROVE Tidy
  <2> DEFINE S == {r \in cache.fPurgeableQueue : b => cache.res[r].uniqueKey = Null}
  <2>1. S \in SUBSET cache.fPurgeableQueue /\ Do(DestroyedAll(cache, S), calls)
    BY <1>6 DEF PurgeUnlocked
  <2> HIDE DEF S
  <2> QED
    BY <1>4, <2>1
<1> QED
  BY <1>3, <1>5, <1>6

LEMMA PurgeBytesTidy ==
  ASSUME CacheInv, NEW n \in Requests, NEW b \in BOOLEAN, PurgeBytes(n, b)
  PROVE  Tidy
<1> DEFINE budget == (cache.fBytes - n) % SizeT
           return == [Frame("purged") EXCEPT !.limit = cache.fMaxBytes]
<1>1. PICK chosen \in SUBSET cache.fPurgeableQueue :
        LET c == DestroyedAll(cache, chosen) IN
        /\ Idle
        /\ IF budget < c.fBytes
             THEN Do([c EXCEPT !.fMaxBytes = budget], Purge \o <<return>>)
             ELSE Do(c, <<return>>)
  BY ChosenIs
<1> DEFINE c == DestroyedAll(cache, chosen)
           d == [c EXCEPT !.fMaxBytes = budget]
<1>2. Idle /\ IF budget < c.fBytes THEN Do(d, Purge \o <<return>>) ELSE Do(c, <<return>>)
  BY <1>1
<1>3. Good(cache)
  BY <1>2, IdleIs
<1> HIDE DEF return, budget
<1>4. Good(c) /\ Kept(cache, c)
  BY <1>3, DestroyedAllGood
<1> HIDE DEF c
<1>5. c \in Caches /\ NoneInUse(cache, c)
  BY <1>3, <1>4, KeptTidy, GoodIs
<1>6. NoneInUse(cache, d)
  <2>1. d.res = c.res
    BY <1>5 DEF Caches
  <2> HIDE DEF d
  <2> QED
    BY <1>5, <2>1 DEF NoneInUse
<1> HIDE DEF d
<1>7. CASE budget < c.fBytes
  BY <1>2, <1>6, <1>7, PurgeTidy, PurgeThere
<1>8. CASE ~(budget < c.fBytes)
  BY <1>2, <1>5, <1>8, PurgeTidy, PurgeThere
<1> QED
  BY <1>7, <1>8

LEMMA DelayedTidy ==
  ASSUME CacheInv, NEW r \in Resources, InsertDelayedTextureUnref(r)
  PROVE  Tidy
<1> DEFINE W == cache.fTexturesAwaitingUnref
           b == [cache EXCEPT !.res[r].refs = @ + 1]
           awaited == [W EXCEPT ![r] = @ + 1]
           d == [b EXCEPT !.fTexturesAwaitingUnref = awaited]
<1>1. /\ Usable(r) /\ calls' = calls
      /\ cache' = [cache EXCEPT !.res[r].refs = @ + 1, !.fTexturesAwaitingUnref[r] = @ + 1]
  BY DEF InsertDelayedTextureUnref
<1>2. Idle /\ cache.res[r].refs > 0
  BY <1>1, UsableIs
<1>3. Good(cache) /\ calls = <<>> /\ cache \in Caches
  BY <1>2, IdleIs
<1>4. cache' = d
  <2>1. b.fTexturesAwaitingUnref = W
    BY <1>3 DEF Caches
  <2> QED
    BY <1>1, <2>1
<1>5. Good(b) /\ Effect(cache, b, r, 1) /\ SameRest(cache, b) /\ b.res[r].state = cache.res[r].state
  BY <1>2, <1>3, RefGood
<1> HIDE DEF b
<1>6. awaited \in [Resources -> Int]
  BY <1>3 DEF Caches
<1> HIDE DEF awaited
<1>7. /\ d.res = b.res /\ d.fPurgeableQueue = b.fPurgeableQueue /\ d.fMaxBytes = b.fMaxBytes
      /\ d.fBudgetedBytes = b.fBudgetedBytes
  BY <1>5, <1>6, AwaitingGood
<1> HIDE DEF d
<1>8. NoneInUse(cache, d)
  BY <1>5, <1>7 DEF NoneInUse, Effect
<1>9. Over(d) => Over(cache)
  BY <1>5, <1>7 DEF Over, OverBudget, SameRest
<1> QED
  BY <1>1, <1>3, <1>4, <1>8, <1>9 DEF Tidy

(* The call that ends last.                                                *)
LEMMA LastCall ==
  ASSUME CacheInv, context = "alive", calls # <<>>, Tail(calls) = <<>>
  PROVE  Head(calls).at \in {"purgeLoop", "purged"}
<1>1. Ended = FALSE /\ calls \in Calls /\ Shaped(calls, FALSE)
  BY InvIs DEF Ended
<1>2. Head(calls).at \in Allowed(FALSE, Len(Tail(calls)))
  BY <1>1, CallReturned
<1>3. Len(<<>>) = 0
  BY PutOnNothing
<1> QED
  BY <1>2, <1>3 DEF Allowed

LEMMA SameTidy ==
  ASSUME CacheInv, calls # <<>>, cache'.res = cache.res,
         \/ calls' # <<>> \/ ~ Over(cache') \/ At("purged")
  PROVE  Tidy
BY DEF Tidy, NoneInUse

LEMMA NotLast ==
  ASSUME NEW q \in Calls, NEW t \in Calls, NEW f, NEW g
  PROVE  (q \o <<f>>) \o t # <<>> /\ (q \o <<f, g>>) \o t # <<>> /\ <<f>> \o t # <<>>
<1> DEFINE S == FrameSet \union {f, g}
<1>1. q \in Seq(S) /\ t \in Seq(S) /\ <<f>> \in Seq(S) /\ <<f, g>> \in Seq(S)
  BY DEF Calls
<1>2. Len(<<f>>) = 1 /\ Len(<<f, g>>) = 2 /\ Len(q) \in Nat /\ Len(t) \in Nat
  BY <1>1, LenProperties
<1> HIDE DEF S
<1>3. ASSUME NEW u \in Seq(S), Len(u) \in {1, 2} PROVE (q \o u) \o t # <<>> /\ u \o t # <<>>
  <2> DEFINE v == q \o u
             n == Len(q)
             m == Len(t)
             k == Len(u)
  <2>1. v \in Seq(S) /\ Len(v) = n + k /\ n \in Nat /\ m \in Nat /\ k \in {1, 2}
    BY <1>1, <1>2, <1>3, ConcatProperties
  <2> HIDE DEF v, n, m, k
  <2>2. Len(v \o t) = (n + k) + m
    <3>1. Len(v \o t) = Len(v) + Len(t)
      BY <1>1, <2>1, ConcatProperties
    <3> QED
      BY <2>1, <3>1 DEF m
  <2>5. Len(u \o t) = k + m
    BY <1>1, <1>3, ConcatProperties DEF m, k
  <2>3. Len(v \o t) # 0 /\ Len(u \o t) # 0
    BY <2>1, <2>2, <2>5
  <2>4. Len(<<>>) = 0
    BY PutOnNothing
  <2> QED
    BY <2>3, <2>4 DEF v
<1> QED
  BY <1>1, <1>2, <1>3

LEMMA AfterUnrefIs ==
  ASSUME NEW c, NEW r
  PROVE  AfterUnref(c, r) \in Calls
<1>1. <<>> \in Calls /\ Purge \in Calls
  BY NothingBegun, PurgeBegun DEF Begun
<1> QED
  BY <1>1 DEF AfterUnref

LEMMA UnreffedTidy ==
  ASSUME CacheInv, NEW r \in Resources, cache' = Unreffed(cache, r), calls' # <<>>,
         cache.res[r].refs > 0
  PROVE  Tidy
<1> DEFINE d == Unreffed(cache, r)
<1>1. Good(cache) /\ cache' = d
  BY InvIs
<1>2. /\ Good(d) /\ Effect(cache, d, r, -1)
      /\ cache.res[r].state = "cached" /\ d.res[r].state # "cached" => d.res[r].refs = 0
  BY <1>1, UnreffedGood
<1> HIDE DEF d
<1>3. NoneInUse(cache, d)
  BY <1>1, <1>2, EffectTidy
<1> QED
  BY <1>1, <1>3 DEF Tidy

LEMMA InvalidTidy ==
  ASSUME CacheInv, NEW k \in UniqueKeys, ProcessInvalidUniqueKey(k)
  PROVE  Tidy
<1> DEFINE r == IF context = "alive" THEN cache.fUniqueHash[k] ELSE Null
           found == KeyRemoved(RefAndMakeMRU(cache, r), r)
           rest == [Head(calls) EXCEPT !.keys = @ \ {k}]
           q == AfterUnref(found, r)
           d == Unreffed(found, r)
<1>1. /\ calls # <<>>
      /\ IF r = Null THEN calls' = <<rest>> \o Tail(calls) /\ cache' = cache
         ELSE cache' = d /\ calls' = (q \o <<rest>>) \o Tail(calls)
  BY DEF ProcessInvalidUniqueKey, At, Then
<1>2. q \in Calls /\ Tail(calls) \in Calls /\ Good(cache)
  BY <1>1, AfterUnrefIs, InvIs
<1>3. calls' # <<>>
  <2> HIDE DEF q, rest, d, r
  <2> QED
    BY <1>1, <1>2, NotLast
<1>4. CASE r = Null
  BY <1>1, <1>3, <1>4, SameTidy
<1>5. CASE r # Null
  <2>1. r \in Resources /\ cache.res[r].state = "cached"
    <3>1. \A p \in Resources : Right(cache, p)
      BY <1>2, GoodIs
    <3>2. r = cache.fUniqueHash[k] /\ r \in Resources
      BY <1>2, <1>5, GoodIs DEF Caches
    <3> HIDE DEF r
    <3> QED
      BY <3>1, <3>2 DEF Right
  <2> HIDE DEF r
  <2>2. \A p \in Resources : cache.res[p].state = "cached" /\ d.res[p].state # "cached" =>
          d.res[p].refs = 0
    BY <1>2, <2>1, KeyInvalidatedGood
  <2>3. cache' = d
    BY <1>1, <1>5
  <2> HIDE DEF d
  <2> QED
    BY <1>3, <2>2, <2>3 DEF Tidy, NoneInUse
<1> QED
  BY <1>4, <1>5

LEMMA FreedTidy ==
  ASSUME CacheInv, NEW r \in Resources, ProcessFreed(r) \/ UnrefAwaiting(r)
  PROVE  Tidy
<1> DEFINE h == Head(calls)
           rest == [h EXCEPT !.textures[r] = @ - 1]
           return == [Frame("unreffed") EXCEPT !.textures[r] = 1]
           q == AfterUnref(cache, r)
<1>1. /\ calls # <<>> /\ cache.res[r].refs > 0
      /\ cache' = Unreffed(cache, r)
      /\ \/ calls' = (q \o <<return, rest>>) \o Tail(calls)
         \/ calls' = (q \o <<rest>>) \o Tail(calls)
  BY DEF ProcessFreed, UnrefAwaiting, Refers, At, Then, Do
<1>2. q \in Calls /\ Tail(calls) \in Calls
  BY <1>1, AfterUnrefIs, InvIs
<1>3. calls' # <<>>
  <2> HIDE DEF q, rest, return
  <2> QED
    BY <1>1, <1>2, NotLast
<1> QED
  BY <1>1, <1>3, UnreffedTidy

LEMMA LoopTidy ==
  ASSUME CacheInv, context = "alive", PurgeLoop \/ \E r \in Resources : DestroyAll(r)
  PROVE  Tidy
<1>1. Good(cache) /\ cache \in Caches /\ calls \in Calls /\ Shaped(calls, FALSE)
  BY InvIs DEF Ended
<1>2. calls # <<>> /\ calls' = calls
  BY DEF PurgeLoop, DestroyAll, At, Do
<1>3. Head(calls).at # "destroyAll"
  <2>1. Head(calls).at \in Allowed(FALSE, Len(Tail(calls)))
    BY <1>1, <1>2, CallReturned
  <2> QED
    BY <2>1 DEF Allowed, Plain
<1>4. PurgeLoop
  BY <1>3 DEF DestroyAll, At
<1> DEFINE o == Oldest(cache, cache.fPurgeableQueue)
           d == Destroyed(cache, o)
<1>5. cache.fPurgeableQueue # {} /\ cache' = d
  BY <1>4 DEF PurgeLoop, Do
<1>6. o \in cache.fPurgeableQueue
  <2>1. cache.fPurgeableQueue \in SUBSET Resources
    BY <1>1 DEF Caches
  <2> QED
    BY <1>1, <1>5, <2>1, OldestIs
<1> HIDE DEF o
<1>7. Good(d) /\ Kept(cache, d)
  BY <1>1, <1>6, PurgedKept
<1> HIDE DEF d
<1>8. NoneInUse(cache, d)
  BY <1>1, <1>7, KeptTidy
<1> QED
  BY <1>2, <1>5, <1>8 DEF Tidy

LEMMA ReturnsTidy ==
  ASSUME CacheInv, context = "alive",
         \/ PollInvalid \/ PollFreed \/ Purged \/ ResetAwaiting \/ Return
         \/ \E r \in Resources : CountUnref(r)
  PROVE  Tidy
<1>1. calls # <<>> /\ cache \in Caches /\ Tail(calls) \in Calls
  BY InvIs DEF PollInvalid, PollFreed, Purged, ResetAwaiting, Return, CountUnref, At
<1>2. CASE PollInvalid
  <2> DEFINE f == [Frame("invalid") EXCEPT !.keys = fInvalidUniqueKeyInbox]
  <2>1. cache' = cache /\ calls' = <<f>> \o Tail(calls)
    BY <1>2 DEF PollInvalid, Then
  <2> HIDE DEF f
  <2>2. calls' # <<>>
    BY <1>1, <2>1, NotLast
  <2> QED
    BY <1>1, <2>1, <2>2, SameTidy
<1>3. CASE PollFreed
  <2> DEFINE f == [Frame("freed") EXCEPT !.textures = fFreedTextureInbox]
  <2>1. cache' = cache /\ Head(calls).at = "pollFreed"
        /\ (calls' = <<>> \o Tail(calls) \/ calls' = <<f>> \o Tail(calls))
    BY <1>3 DEF PollFreed, At, Then
  <2> HIDE DEF f
  <2>2. <<>> \o Tail(calls) = Tail(calls)
    BY <1>1, ConcatEmptySeq DEF Calls
  <2>3. Tail(calls) # <<>>
    BY <1>1, <2>1, LastCall
  <2>4. calls' # <<>>
    BY <1>1, <2>1, <2>2, <2>3, NotLast
  <2> QED
    BY <1>1, <2>1, <2>4, SameTidy
<1>4. CASE Purged
  <2> DEFINE d == [cache EXCEPT !.fMaxBytes = Head(calls).limit]
  <2>1. cache' = d /\ At("purged")
    BY <1>4 DEF Purged, Do
  <2>2. d.res = cache.res
    BY <1>1 DEF Caches
  <2> HIDE DEF d
  <2> QED
    BY <1>1, <2>1, <2>2, SameTidy
<1>5. CASE ResetAwaiting
  <2> DEFINE d == [cache EXCEPT !.fTexturesAwaitingUnref = NoTextures]
             f == [Frame("reset") EXCEPT !.textures = cache.fTexturesAwaitingUnref]
  <2>1. cache' = d /\ calls' = <<f>> \o Tail(calls)
    BY <1>5 DEF ResetAwaiting, Do
  <2>2. d.res = cache.res
    BY <1>1 DEF Caches
  <2> HIDE DEF d, f
  <2>3. calls' # <<>>
    BY <1>1, <2>1, NotLast
  <2> QED
    BY <1>1, <2>1, <2>2, <2>3, SameTidy
<1>6. CASE Return
  <2>1. /\ cache' = cache /\ calls' = Tail(calls)
        /\ Head(calls).at = "purgeLoop" => ~OverBudget(cache) \/ cache.fPurgeableQueue = {}
        /\ Head(calls).at # "purged"
    BY <1>6 DEF Return, Do
  <2>2. Tail(calls) # <<>> \/ ~ Over(cache)
    BY <1>1, <2>1, LastCall DEF Over
  <2> QED
    BY <1>1, <2>1, <2>2, SameTidy
<1>7. ASSUME NEW r \in Resources, CountUnref(r) PROVE Tidy
  <2>1. PICK awaited : /\ cache' = [cache EXCEPT !.fTexturesAwaitingUnref = awaited]
                       /\ Head(calls).at = "unreffed"
                       /\ calls' = Tail(calls) \/ calls' = Stale(Tail(calls))
    BY <1>7 DEF CountUnref, At
  <2> DEFINE d == [cache EXCEPT !.fTexturesAwaitingUnref = awaited]
  <2>2. d.res = cache.res
    BY <1>1 DEF Caches
  <2> HIDE DEF d
  <2>3. Tail(calls) # <<>> /\ Tail(calls) \in Calls
    BY <1>1, <2>1, LastCall
  <2>4. Stale(Tail(calls)) # <<>>
    BY <2>3, StaleCalls
  <2>5. calls' # <<>>
    BY <2>1, <2>3, <2>4
  <2>6. cache' = d
    BY <2>1 DEF d
  <2> QED
    BY <1>1, <2>2, <2>5, <2>6, SameTidy
<1> QED
  BY <1>2, <1>3, <1>4, <1>5, <1>6, <1>7

LEMMA BeginsTidy ==
  ASSUME CacheInv, Begins, context' = "alive"
  PROVE  Tidy
<1>1. ASSUME NEW r \in Resources,
             \/ RegisterWithCache(r) \/ RegisterWithCacheWrapped(r)
             \/ Unref(r)
             \/ RemoveUniqueKey(r) \/ RemoveScratchKey(r)
             \/ MakeBudgeted(r) \/ MakeUnbudgeted(r)
             \/ InsertDelayedTextureUnref(r)
             \/ \E k \in UniqueKeys : SetUniqueKey(r, k)
      PROVE  Tidy
  BY <1>1, RegisterTidy, UnrefTidy, KeysTidy, BudgetTidy, DelayedTidy
<1>2. ASSUME NEW r \in Resources, Ref(r) PROVE Tidy
  <2> DEFINE d == [cache EXCEPT !.res[r].refs = @ + 1]
  <2>1. Usable(r) /\ cache' = d
    BY <1>2 DEF Ref, Do
  <2>2. Idle /\ cache.res[r].refs > 0
    BY <2>1, UsableIs
  <2>3. Good(cache) /\ calls = <<>>
    BY <2>2, IdleIs
  <2>4. /\ Good(d) /\ Effect(cache, d, r, 1) /\ SameRest(cache, d)
        /\ d.res[r].state = cache.res[r].state
    BY <2>2, <2>3, RefGood
  <2> HIDE DEF d
  <2>5. NoneInUse(cache, d)
    BY <2>4 DEF NoneInUse, Effect
  <2>6. Over(d) => Over(cache)
    BY <2>4 DEF Over, OverBudget, SameRest
  <2> QED
    BY <2>1, <2>3, <2>5, <2>6 DEF Tidy
<1>3. ASSUME NEW r \in Resources, FindScratch(r) PROVE Tidy
  <2>1. /\ Idle /\ Do(RefAndMakeMRU(cache, r), calls)
        /\ \E k \in ScratchKeys : <<k, r>> \in cache.fScratchMap
    BY <1>3 DEF FindScratch
  <2>2. cache.res[r].state = "cached"
    BY <2>1, IdleIs DEF Right
  <2> QED
    BY <2>1, <2>2, FoundTidy
<1>4. ASSUME NEW k \in UniqueKeys, FindUnique(k) PROVE Tidy
  <2> DEFINE r == cache.fUniqueHash[k]
  <2>1. Idle /\ r # Null /\ Do(RefAndMakeMRU(cache, r), calls)
    BY <1>4 DEF FindUnique
  <2>2. cache \in Caches /\ \A p \in Resources : Right(cache, p)
    BY <2>1, IdleIs
  <2>3. r \in Resources /\ cache.fUniqueHash[k] = r
    BY <2>1, <2>2 DEF Caches
  <2> HIDE DEF r
  <2>4. cache.res[r].state = "cached"
    BY <2>2, <2>3 DEF Right
  <2> QED
    BY <2>1, <2>3, <2>4, FoundTidy
<1>5. ASSUME NEW limit \in Limits, SetLimit(limit) PROVE Tidy
  <2> DEFINE d == [cache EXCEPT !.fMaxBytes = limit]
  <2>1. Do(d, Purge)
    BY <1>5 DEF SetLimit
  <2>2. d.res = cache.res
    BY InvIs DEF Caches
  <2> HIDE DEF d
  <2>3. NoneInUse(cache, d)
    BY <2>2 DEF NoneInUse
  <2> QED
    BY <2>1, <2>3, PurgeTidy, PurgeThere
<1>6. ASSUME NEW n \in Requests, NEW b \in BOOLEAN, PurgeBytes(n, b) PROVE Tidy
  BY <1>6, PurgeBytesTidy
<1>7. ~ AbandonAll /\ ~ ReleaseAll
  BY DEF AbandonAll, ReleaseAll
<1> QED
  BY <1>1, <1>2, <1>3, <1>4, <1>5, <1>6, <1>7, PurgesTidy DEF Begins

(* Every step of a context that is alive.                                  *)
LEMMA StepTidy ==
  ASSUME CacheInv, [Next]_vars, context' = "alive"
  PROVE  Tidy
<1>1. CASE UNCHANGED <<cache, calls>>
  BY <1>1 DEF Tidy, NoneInUse
<1>2. CASE UNCHANGED vars \/ Posts
  <2>1. UNCHANGED <<cache, calls>>
    BY <1>2 DEF vars, Posts, PostInvalidated, PostFreed
  <2> QED
    BY <1>1, <2>1
<1>3. CASE GoesOn
  <2>1. context = "alive"
    BY <1>3 DEF GoesOn, PollInvalid, PollFreed, PurgeLoop, Purged, ResetAwaiting, Return,
         ProcessInvalidUniqueKey, ProcessFreed, CountUnref, UnrefAwaiting, DestroyAll, Do
  <2>2. CASE \/ PollInvalid \/ PollFreed \/ Purged \/ ResetAwaiting \/ Return
             \/ \E p \in Resources : CountUnref(p)
    BY <2>1, <2>2, ReturnsTidy
  <2>3. CASE PurgeLoop \/ \E p \in Resources : DestroyAll(p)
    BY <2>1, <2>3, LoopTidy
  <2>4. CASE \E p \in Resources : ProcessFreed(p) \/ UnrefAwaiting(p)
    BY <2>4, FreedTidy
  <2>5. CASE \E k \in UniqueKeys : ProcessInvalidUniqueKey(k)
    BY <2>5, InvalidTidy
  <2> QED
    BY <1>3, <2>2, <2>3, <2>4, <2>5 DEF GoesOn
<1>4. CASE Begins
  BY <1>4, BeginsTidy
<1> QED
  BY <1>2, <1>3, <1>4 DEF Next

LEMMA AliveBefore ==
  ASSUME [Next]_vars, context' = "alive"
  PROVE  context = "alive"
<1>1. CASE Begins
  BY <1>1 DEF Begins, RegisterWithCache, RegisterWithCacheWrapped, Register, Ref, Unref,
     FindScratch, RemoveUniqueKey, RemoveScratchKey, MakeBudgeted, MakeUnbudgeted,
     InsertDelayedTextureUnref, SetUniqueKey, FindUnique, SetLimit, PurgeUnlocked, PurgeBytes,
     PurgeAsNeeded, PurgeNotUsedSince, AbandonAll, ReleaseAll, Do
<1>2. CASE GoesOn
  BY <1>2 DEF GoesOn, PollInvalid, PollFreed, PurgeLoop, Purged, ResetAwaiting, Return,
       ProcessInvalidUniqueKey, ProcessFreed, CountUnref, UnrefAwaiting, DestroyAll, Do
<1>3. CASE Posts
  BY <1>3 DEF Posts, PostInvalidated, PostFreed
<1>4. CASE UNCHANGED vars
  BY <1>4 DEF vars
<1> QED
  BY <1>1, <1>2, <1>3, <1>4, SMTT(40) DEF Next

-----------------------------------------------------------------------------
(* The array and the queue between them hold exactly the live resources,   *)
(* each the ones it should; at rest, all that wait to be purged pay.       *)
THEOREM EachInItsList ==
  Spec => []QueuesAgree
<1>1. CacheInv => QueuesAgree
  BY QueuesAre
<1> QED
  BY <1>1, CacheInvariance, PTL

(* A lookup by either key finds a resource exactly when it should.         *)
THEOREM EachFoundByItsKey ==
  Spec => []KeysAgree
<1>1. CacheInv => KeysAgree
  BY KeysAre
<1> QED
  BY <1>1, CacheInvariance, PTL

(* The running totals of bytes and counts are the totals over the          *)
(* resources, for any number and sizes of them.                            *)
THEOREM TotalsAreRight ==
  Spec => []BytesAgree
<1>1. CacheInv => BytesAgree
  BY BytesAre
<1> QED
  BY <1>1, CacheInvariance, PTL

(* The order of the timestamps is the order of last use, also across the   *)
(* wrap of the counter, whatever its width.                                *)
THEOREM LeastRecentlyUsedFirst ==
  Spec => []StampsFollowUse
<1>1. CacheInv => StampsFollowUse
  BY StampsAre
<1> QED
  BY <1>1, CacheInvariance, PTL

(* The types, and a texture that awaits messages is held by a reference    *)
(* for each of them, unless a call counted a message of it, or one of      *)
(* another against it, through a pointer to an entry that had moved.       *)
THEOREM AwaitedKeptAlive ==
  Spec => []AwaitedHeld
<1>1. CacheInv => AwaitedHeld
  BY AwaitedAre
<1> QED
  BY <1>1, CacheInvariance, PTL

(* There is an entry in the table for every freed message on its way, with *)
(* the same proviso.                                                       *)
THEOREM MessagesHaveEntries ==
  Spec => []MessagesMatched
<1>1. CacheInv => MessagesMatched
  BY MessagesAre
<1> QED
  BY <1>1, CacheInvariance, PTL

(* When abandonAll() or releaseAll() is through, nothing is left in any    *)
(* list, key table, order or total, and no message is awaited.             *)
THEOREM NothingLeftBehind ==
  Spec => []TornDownClean
<1>1. CacheInv => TornDownClean
  BY TornDownIs
<1> QED
  BY <1>1, CacheInvariance, PTL

(* No step takes a resource out of the cache that somebody refers to,      *)
(* while the context is alive.                                             *)
THEOREM InUseStays ==
  Spec => NothingInUsePurged
<1>1. CacheInv /\ [Next]_vars => (\A r \in Cached : context' = "alive" /\ cache'.res[r].state # "cached" =>
          cache'.res[r].refs = 0)
  <2> SUFFICES ASSUME CacheInv, [Next]_vars PROVE \A r \in Cached : context' = "alive" /\ cache'.res[r].state # "cached" =>
          cache'.res[r].refs = 0
    OBVIOUS
  <2>1. CASE context' = "alive"
    BY <2>1, StepTidy, CachedIs DEF Tidy, NoneInUse
  <2> QED
    BY <2>1
<1> QED
  BY <1>1, CacheInvariance, PTL DEF Spec, NothingInUsePurged

(* No call returns with the cache over its limit and something to purge,   *)
(* unless it was so before the call; purgeUnlockedResources(bytes), which  *)
(* restores a limit, is the exception.                                     *)
THEOREM CallsPurgeToBudget ==
  Spec => PurgedToBudget
<1>1. CacheInv /\ [Next]_vars => ((Idle /\ Unpurged)' => (Idle /\ Unpurged) \/ At("purged"))
  <2> SUFFICES ASSUME CacheInv, [Next]_vars PROVE (Idle /\ Unpurged)' => (Idle /\ Unpurged) \/ At("purged")
    OBVIOUS
  <2> SUFFICES ASSUME (Idle /\ Unpurged)' PROVE (Idle /\ Unpurged) \/ At("purged")
    OBVIOUS
  <2>1. context' = "alive" /\ calls' = <<>> /\ Over(cache')
    BY DEF Idle, Unpurged, Over
  <2>2. (calls = <<>> /\ Over(cache)) \/ At("purged")
    BY <2>1, StepTidy DEF Tidy
  <2>3. context = "alive" \/ calls # <<>>
    BY <2>1, AliveBefore
  <2> QED
    BY <2>2, <2>3 DEF Idle, Unpurged, Over
<1> QED
  BY <1>1, CacheInvariance, PTL DEF Spec, PurgedToBudget

=============================================================================
