--------------------------- MODULE GrResourceCache ---------------------------
(***************************************************************************)
(* The cache of a GrContext's GPU resources (src/gpu/GrResourceCache.cpp)  *)
(* with the part of GrGpuResource (src/gpu/GrGpuResource.cpp,              *)
(* include/gpu/GrGpuResource.h) that it manages: reference counts, keys,   *)
(* budgets, the LRU order and its wrapping timestamps, and the messages    *)
(* that other threads post to it.                                          *)
(*                                                                         *)
(* One thread owns the cache. A call of it that purges may drop a          *)
(* reference, which may recycle a resource, which purges again: calls is   *)
(* the stack of what is left to do, and the functions on a record c are    *)
(* the parts of the code that neither purge nor look at an inbox. Other    *)
(* threads post messages between any two steps.                            *)
(***************************************************************************)
EXTENDS Integers, FiniteSets, SequencesExt, Lists

CONSTANTS
  Resources,    (* resource objects                                         *)
  ScratchKeys, UniqueKeys,
  Null,         (* no key, no resource                                      *)
  Sizes,        (* gpuMemorySize() of a new resource                        *)
  Limits,       (* values setLimit() gives fMaxBytes                        *)
  Stamps,       (* timestamps are 0..Stamps-1: 2^32                         *)
  SizeT,        (* size_t is 0..SizeT-1: 2^64                               *)
  MaxRefs,      (* bound: references of the owner to one resource           *)
  MaxOwed       (* bound: freed messages awaited at a time                  *)

ASSUME CacheAssumption ==
  /\ Null \notin Resources \union ScratchKeys \union UniqueKeys
  /\ Sizes \subseteq Nat \ {0} /\ Limits \subseteq Nat
  /\ IsFiniteSet(Resources) /\ Stamps \in Nat /\ Cardinality(Resources) < Stamps
  /\ SizeT \in Nat \ {0}
  /\ MaxRefs \in Nat \ {0} /\ MaxOwed \in Nat

VARIABLES
  cache,                   (* the fields of the cache and of the resources  *)
  calls,                   (* what the calls that have begun still do       *)
  fInvalidUniqueKeyInbox,  (* unique keys other threads invalidated         *)
  fFreedTextureInbox,      (* freed messages posted, per texture            *)
  owed,                    (* freed messages other threads have yet to post *)
  miscounted,              (* history: textures that a call counted wrongly,*)
                           (* through an entry that was another by then     *)
  context                  (* "alive", or how it ended                      *)

inboxes == <<fInvalidUniqueKeyInbox, fFreedTextureInbox, owed>>
vars == <<cache, calls, inboxes, miscounted, context>>

BudgetedTypes == {"Budgeted", "UnbudgetedUncacheable", "UnbudgetedCacheable"}
NoTextures == [r \in Resources |-> 0]
Sum(numbers) == MapThenSumSet(LAMBDA r : numbers[r], Resources)

(* A resource that does not exist, and the fields of one that does. *)
Nothing ==
  [state |-> "none", refs |-> 0, size |-> 0, timestamp |-> 0,
   budgetedType |-> "UnbudgetedUncacheable", refsWrapped |-> FALSE,
   scratchKey |-> Null, uniqueKey |-> Null]

EmptyCache(limit) ==
  [res |-> [r \in Resources |-> Nothing],
   fNonpurgeableResources |-> {}, fPurgeableQueue |-> {},
   fScratchMap |-> {}, fUniqueHash |-> [k \in UniqueKeys |-> Null],
   fBytes |-> 0, fBudgetedCount |-> 0, fBudgetedBytes |-> 0, fPurgeableBytes |-> 0,
   fNumFlushWillMakePurgeable |-> 0,
   fMaxBytes |-> limit, fTimestamp |-> 0,
   fTexturesAwaitingUnref |-> NoTextures,
   use |-> <<>>]   (* history: the resources, least recently used first *)

(* A call still under way: where it is, and its locals. *)
Frame(label) ==
  [at |-> label, keys |-> {}, textures |-> NoTextures, limit |-> 0, stale |-> FALSE]

(* purgeAsNeeded() *)
Purge == <<Frame("pollInvalid"), Frame("pollFreed"), Frame("purgeLoop")>>

Init ==
  /\ \E limit \in Limits : cache = EmptyCache(limit)
  /\ calls = <<>>
  /\ fInvalidUniqueKeyInbox = {}
  /\ fFreedTextureInbox = NoTextures
  /\ owed = NoTextures
  /\ miscounted = {}
  /\ context = "alive"
-----------------------------------------------------------------------------
InCache(c) == c.fNonpurgeableResources \union c.fPurgeableQueue
OverBudget(c) == c.fBudgetedBytes > c.fMaxBytes
WouldFit(c, bytes) == c.fBudgetedBytes + bytes <= c.fMaxBytes
Budgeted(c, r) == c.res[r].budgetedType = "Budgeted"
Count(condition) == IF condition THEN 1 ELSE 0

IsPurgeable(c, r) ==
  /\ c.res[r].refs = 0
  /\ ~(c.res[r].budgetedType = "UnbudgetedCacheable" /\ c.res[r].uniqueKey # Null)

(* The least recently used purgeable resource: fPurgeableQueue.peek(). *)
Oldest(c, resources) ==
  CHOOSE r \in resources : \A q \in resources : c.res[r].timestamp <= c.res[q].timestamp

(* Every resource in the cache has as many before it as earlier gives it,  *)
(* and the next timestamp follows the last.                                *)
Numbered(c, earlier) ==
  [c EXCEPT !.fTimestamp = Cardinality(InCache(c)),
            !.res = [r \in Resources |->
                       IF r \in InCache(c)
                         THEN [c.res[r] EXCEPT !.timestamp = Cardinality(earlier[r])]
                         ELSE c.res[r]]]

(* Mutant: the two sorted lists are numbered one after the other.          *)
RenumberedQueueFirst(c) ==
  Numbered(c, [r \in Resources |-> {q \in InCache(c) :
    \/ q \in c.fPurgeableQueue /\ r \notin c.fPurgeableQueue
    \/ /\ q \in c.fPurgeableQueue <=> r \in c.fPurgeableQueue
       /\ c.res[q].timestamp < c.res[r].timestamp}])

(* getNextTimestamp() when the counter has wrapped: the resources in the   *)
(* cache are renumbered from zero in the order of their timestamps.        *)
Renumbered(c) ==
  Numbered(c, [r \in Resources |->
    {q \in InCache(c) : c.res[q].timestamp < c.res[r].timestamp}])

(* setTimestamp(getNextTimestamp()) *)
Stamped(c, r) ==
  LET d == IF c.fTimestamp = 0 THEN Renumbered(c) ELSE c
  IN [d EXCEPT !.res[r].timestamp = d.fTimestamp,
               !.fTimestamp = (@ + 1) % Stamps,
               !.use = Append(Omit(@, {r}), r)]

(* The fScratchMap entry of a resource: none while it has a unique key.    *)
ScratchEntry(c, r) ==
  IF c.res[r].scratchKey # Null /\ c.res[r].uniqueKey = Null
    THEN {<<c.res[r].scratchKey, r>>} ELSE {}

(* fUniqueHash.remove() *)
Without(hash, key) == IF key = Null THEN hash ELSE [hash EXCEPT ![key] = Null]

(* insertResource(), up to its purgeAsNeeded() *)
Inserted(c, r) ==
  LET d == Stamped(c, r)
      q == d.res[r]
  IN [d EXCEPT !.fNonpurgeableResources = @ \union {r},
               !.fBytes = @ + q.size,
               !.fBudgetedCount = @ + Count(Budgeted(d, r)),
               !.fBudgetedBytes = @ + q.size * Count(Budgeted(d, r)),
               !.fScratchMap = @ \union ScratchEntry(d, r)]

(* removeResource() *)
Removed(c, r) ==
  LET q == c.res[r]
      purgeable == IF IsPurgeable(c, r) THEN {r} ELSE {}
  IN [c EXCEPT !.fPurgeableQueue = @ \ purgeable,
               !.fPurgeableBytes = @ - q.size * Cardinality(purgeable),
               !.fNonpurgeableResources = @ \ ({r} \ purgeable),
               !.fBytes = @ - q.size,
               !.fBudgetedCount = @ - Count(Budgeted(c, r)),
               !.fBudgetedBytes = @ - q.size * Count(Budgeted(c, r)),
               !.fScratchMap = @ \ ScratchEntry(c, r),
               !.fUniqueHash = Without(@, q.uniqueKey)]

(* CacheAccess::release() and abandon(): out of the cache, and deleted     *)
(* when nobody has a reference.                                            *)
Destroyed(c, r) ==
  LET refs == c.res[r].refs
      left == [Nothing EXCEPT !.state = IF refs = 0 THEN "none" ELSE "destroyed", !.refs = refs]
  IN [Removed(c, r) EXCEPT !.res[r] = left,
                           !.use = Omit(@, {r})]

(* refAndMakeResourceMRU() *)
RefAndMakeMRU(c, r) ==
  LET d == IF IsPurgeable(c, r)
             THEN [c EXCEPT !.fPurgeableBytes = @ - c.res[r].size,
                            !.fPurgeableQueue = @ \ {r},
                            !.fNonpurgeableResources = @ \union {r}]
             ELSE [c EXCEPT !.fNumFlushWillMakePurgeable =
                              @ - Count(c.res[r].refs = 0 /\ Budgeted(c, r))]
  IN Stamped([d EXCEPT !.res[r].refs = @ + 1], r)

(* The resource may serve as scratch, and the budget has room for it.      *)
Recyclable(c, r) ==
  /\ c.res[r].budgetedType = "UnbudgetedUncacheable"
  /\ ~c.res[r].refsWrapped /\ c.res[r].scratchKey # Null
  /\ WouldFit(c, c.res[r].size)

(* didChangeBudgetStatus(), up to its purgeAsNeeded() *)
MadeBudgeted(c, r) ==
  LET d == [c EXCEPT !.res[r].budgetedType = "Budgeted"]
  IN [d EXCEPT !.fBudgetedCount = @ + 1,
               !.fBudgetedBytes = @ + c.res[r].size,
               !.fNumFlushWillMakePurgeable =
                 @ + Count(~IsPurgeable(d, r) /\ d.res[r].refs = 0)]

(* Mutant: the bytes stay budgeted. *)
MadeUnbudgetedCounted(c, r) ==
  [c EXCEPT !.res[r].budgetedType = "UnbudgetedUncacheable", !.fBudgetedCount = @ - 1]

MadeUnbudgeted(c, r) ==
  LET d == [c EXCEPT !.res[r].budgetedType = "UnbudgetedUncacheable"]
  IN [d EXCEPT !.fBudgetedCount = @ - 1,
               !.fBudgetedBytes = @ - c.res[r].size,
               !.fNumFlushWillMakePurgeable =
                 @ - Count(~IsPurgeable(d, r) /\ d.res[r].refs = 0)]

(* notifyRefCntReachedZero(), up to the purgeAsNeeded() of a resource that *)
(* becomes budgeted.                                                       *)
Notified(c, r) ==
  LET d == Stamped(c, r)
      q == [d EXCEPT !.fNonpurgeableResources = @ \ {r},
                     !.fPurgeableQueue = @ \union {r},
                     !.fPurgeableBytes = @ + d.res[r].size]
      unique == d.res[r].uniqueKey # Null
      keep ==
        \/ Budgeted(q, r) /\ ~OverBudget(q) /\ (d.res[r].scratchKey # Null \/ unique)
        \/ d.res[r].budgetedType = "UnbudgetedCacheable" /\ unique
  IN CASE ~IsPurgeable(d, r) ->
            [d EXCEPT !.fNumFlushWillMakePurgeable = @ + Count(Budgeted(d, r))]
       [] IsPurgeable(d, r) /\ keep -> q
       [] IsPurgeable(d, r) /\ ~keep /\ Recyclable(q, r) -> MadeBudgeted(q, r)
       [] OTHER -> Destroyed(q, r)

(* GrIORef::unref() *)
Unreffed(c, r) ==
  LET d == [c EXCEPT !.res[r].refs = @ - 1]
  IN CASE c.res[r].refs > 1 -> d
       [] c.res[r].refs = 1 /\ c.res[r].state = "destroyed" -> [d EXCEPT !.res[r] = Nothing]
       [] OTHER -> Notified(d, r)

(* What an unref() leaves to do: purgeAsNeeded() for a recycled resource.  *)
AfterUnref(c, r) ==
  IF c.res[r].refs = 1 /\ c.res[r].state = "cached" /\ Recyclable(c, r) THEN Purge ELSE <<>>

(* Mutant: the resource is not put back among the scratch resources. *)
KeyRemovedForGood(c, r) ==
  [c EXCEPT !.fUniqueHash = Without(@, c.res[r].uniqueKey), !.res[r].uniqueKey = Null]

(* removeUniqueKey() *)
KeyRemoved(c, r) ==
  LET d == [c EXCEPT !.fUniqueHash = Without(@, c.res[r].uniqueKey),
                     !.res[r].uniqueKey = Null]
  IN [d EXCEPT !.fScratchMap = @ \union ScratchEntry(d, r)]

(* Mutant: a resource without a scratch key is released though it is in use. *)
KeyTakenByForce(c, k) ==
  LET old == c.fUniqueHash[k] IN
  CASE old = Null -> c
    [] old # Null /\ c.res[old].scratchKey = Null -> Destroyed(c, old)
    [] OTHER -> KeyRemoved(c, old)

(* changeUniqueKey(): the resource that has the key now loses it. It is    *)
(* released when nobody could reach it any more; otherwise somebody has a  *)
(* reference, and the one that removeUniqueKey() needs is not the last.    *)
KeyTaken(c, k) ==
  LET old == c.fUniqueHash[k] IN
  IF old = Null THEN c
  ELSE IF c.res[old].scratchKey = Null /\ IsPurgeable(c, old) THEN Destroyed(c, old)
  ELSE KeyRemoved(c, old)

KeyChanged(c, r, k) ==
  LET d == KeyTaken(c, k)
      e == [d EXCEPT !.fUniqueHash = Without(@, d.res[r].uniqueKey),
                     !.fScratchMap = @ \ ScratchEntry(d, r)]
  IN [e EXCEPT !.res[r].uniqueKey = k, !.fUniqueHash[k] = r]

DestroyedAll(c, resources) == FoldSet(LAMBDA r, d : Destroyed(d, r), c, resources)
-----------------------------------------------------------------------------
(* The owner of the context calls when no call of its own is under way.    *)
Idle == calls = <<>> /\ context = "alive"

(* References the owner has: all but those the cache keeps for itself. Of  *)
(* a texture that is counted wrongly it is not known, and it is left alone.*)
Held(r) == cache.res[r].refs - cache.fTexturesAwaitingUnref[r]
Owned(r) == Held(r) > 0 /\ r \notin miscounted
Usable(r) == Idle /\ cache.res[r].state = "cached" /\ Owned(r)

Do(c, then) == cache' = c /\ calls' = then /\ UNCHANGED <<inboxes, miscounted, context>>

(* registerWithCache() and registerWithCacheWrapped() of a new resource.   *)
Register(r, type, wrapped, scratchKey, size) ==
  /\ Idle /\ cache.res[r] = Nothing
  /\ LET new == [Nothing EXCEPT !.state = "cached", !.refs = 1, !.size = size,
                   !.budgetedType = type, !.refsWrapped = wrapped,
                   !.scratchKey = scratchKey]
     IN Do(Inserted([cache EXCEPT !.res[r] = new], r), Purge)

RegisterWithCache(r) ==
  \E type \in {"Budgeted", "UnbudgetedUncacheable"},
     scratchKey \in ScratchKeys \union {Null}, size \in Sizes :
       Register(r, type, FALSE, scratchKey, size)

RegisterWithCacheWrapped(r) ==
  \E type \in {"UnbudgetedCacheable", "UnbudgetedUncacheable"}, size \in Sizes :
    Register(r, type, TRUE, Null, size)

(* ref() and unref() by the owner. It may drop its reference to a resource *)
(* long after the context is gone.                                         *)
Ref(r) ==
  /\ Usable(r) /\ Held(r) < MaxRefs
  /\ Do([cache EXCEPT !.res[r].refs = @ + 1], calls)

Unref(r) ==
  /\ calls = <<>> /\ Owned(r)
  /\ Do(Unreffed(cache, r), AfterUnref(cache, r))

(* findAndRefScratchResource(): a scratch resource nobody refers to.       *)
FindScratch(r) ==
  /\ Idle
  /\ \E k \in ScratchKeys : <<k, r>> \in cache.fScratchMap
  /\ cache.res[r].refs = 0 /\ Budgeted(cache, r)
  /\ Do(RefAndMakeMRU(cache, r), calls)

(* Mutant: an ordinary reference, though it may be the first. *)
FindUniqueRefs(k) ==
  LET r == cache.fUniqueHash[k] IN
  /\ Idle /\ r # Null /\ Held(r) < MaxRefs
  /\ Do([cache EXCEPT !.res[r].refs = @ + 1], calls)

(* findAndRefUniqueResource() *)
FindUnique(k) ==
  LET r == cache.fUniqueHash[k] IN
  /\ Idle /\ r # Null /\ Held(r) < MaxRefs
  /\ Do(RefAndMakeMRU(cache, r), calls)

(* setUniqueKey() does nothing for an unbudgeted resource that is not      *)
(* wrapped. Callers look the key up first, and do not take it from a       *)
(* resource that has no references but could still be found: the plain     *)
(* ref() of changeUniqueKey() is not made for one (GrGpuResource.h:35-36). *)
SetUniqueKey(r, k) ==
  LET old == cache.fUniqueHash[k] IN
  /\ Usable(r)
  /\ Budgeted(cache, r) \/ cache.res[r].refsWrapped
  /\ old # Null =>
       \/ cache.res[old].refs > 0
       \/ cache.res[old].scratchKey = Null /\ IsPurgeable(cache, old)
  /\ Do(KeyChanged(cache, r, k), calls)

RemoveUniqueKey(r) ==
  /\ Usable(r) /\ cache.res[r].uniqueKey # Null
  /\ Do(KeyRemoved(cache, r), calls)

RemoveScratchKey(r) ==
  /\ Usable(r) /\ cache.res[r].scratchKey # Null
  /\ Do([cache EXCEPT !.fScratchMap = @ \ ScratchEntry(cache, r),
                      !.res[r].scratchKey = Null], calls)

(* Mutant: what is over the limit now is not purged.                       *)
MakeBudgetedOnly(r) ==
  /\ Usable(r) /\ ~cache.res[r].refsWrapped
  /\ cache.res[r].budgetedType = "UnbudgetedUncacheable"
  /\ Do(MadeBudgeted(cache, r), calls)
MakeBudgeted(r) ==
  /\ Usable(r) /\ ~cache.res[r].refsWrapped
  /\ cache.res[r].budgetedType = "UnbudgetedUncacheable"
  /\ Do(MadeBudgeted(cache, r), Purge)

MakeUnbudgeted(r) ==
  /\ Usable(r) /\ Budgeted(cache, r) /\ cache.res[r].uniqueKey = Null
  /\ Do(MadeUnbudgeted(cache, r), calls)

(* insertDelayedTextureUnref(): the destructor of the image generator or   *)
(* promise image owes a freed message, on whatever thread it runs; of a    *)
(* generator that could not be made there is none.                         *)
InsertDelayedTextureUnref(r) ==
  /\ Usable(r) /\ Sum(cache.fTexturesAwaitingUnref) < MaxOwed
  /\ cache' = [cache EXCEPT !.res[r].refs = @ + 1, !.fTexturesAwaitingUnref[r] = @ + 1]
  /\ \E made \in BOOLEAN : owed' = [owed EXCEPT ![r] = @ + Count(made)]
  /\ UNCHANGED <<calls, fInvalidUniqueKeyInbox, fFreedTextureInbox, miscounted, context>>
-----------------------------------------------------------------------------
(* Other threads post messages, at any time. *)
PostInvalidated(k) ==
  /\ fInvalidUniqueKeyInbox' = fInvalidUniqueKeyInbox \union {k}
  /\ UNCHANGED <<cache, calls, fFreedTextureInbox, owed, miscounted, context>>

PostFreed(r) ==
  /\ owed[r] > 0
  /\ owed' = [owed EXCEPT ![r] = @ - 1]
  /\ fFreedTextureInbox' = [fFreedTextureInbox EXCEPT ![r] = @ + 1]
  /\ UNCHANGED <<cache, calls, fInvalidUniqueKeyInbox, miscounted, context>>
-----------------------------------------------------------------------------
SetLimit(limit) == Idle /\ Do([cache EXCEPT !.fMaxBytes = limit], Purge)

PurgeAsNeeded == Idle /\ Do(cache, Purge)

(* purgeUnlockedResources(bool) *)
PurgeUnlocked(scratchResourcesOnly) ==
  /\ Idle
  /\ Do(DestroyedAll(cache, {r \in cache.fPurgeableQueue :
                               scratchResourcesOnly => cache.res[r].uniqueKey = Null}), calls)

(* purgeResourcesNotUsedSince(): the ones that became purgeable before     *)
(* some time, which are the first of the queue.                            *)
PurgeNotUsedSince ==
  /\ Idle
  /\ \E stamp \in {cache.res[r].timestamp : r \in cache.fPurgeableQueue} :
       Do(DestroyedAll(cache, {r \in cache.fPurgeableQueue :
                                 cache.res[r].timestamp <= stamp}), calls)

(* purgeUnlockedResources(size_t, bool): the difference is one of size_t.  *)
(* Scratch resources are taken, oldest first, until that is reached;       *)
(* the rest is left to purgeAsNeeded() under a lower limit.                *)
PurgeBytes(bytesToPurge, preferScratchResources) ==
  LET budget == (cache.fBytes - bytesToPurge) % SizeT
      scratch == {r \in cache.fPurgeableQueue : cache.res[r].uniqueKey = Null}
      before(r) == MapThenSumSet(LAMBDA q : cache.res[q].size,
                     {q \in scratch : cache.res[q].timestamp < cache.res[r].timestamp})
      chosen == IF preferScratchResources /\ bytesToPurge < cache.fPurgeableBytes
                  THEN {r \in scratch : budget < cache.fBytes - before(r)} ELSE {}
      c == DestroyedAll(cache, chosen)
      return == [Frame("purged") EXCEPT !.limit = cache.fMaxBytes]
  IN /\ Idle
     /\ IF budget < c.fBytes
          THEN Do([c EXCEPT !.fMaxBytes = budget], Purge \o <<return>>)
          ELSE Do(c, <<return>>)

AbandonAll ==
  /\ Idle
  /\ context' = "abandoned"
  /\ calls' = <<Frame("resetAwaiting"), Frame("destroyAll")>>
  /\ UNCHANGED <<cache, inboxes, miscounted>>

(* Mutant: the textures that await a message are not let go. *)
ReleaseAllAwaits ==
  /\ Idle
  /\ context' = "released"
  /\ calls' = <<Frame("pollFreed"), Frame("destroyAll")>>
  /\ UNCHANGED <<cache, inboxes, miscounted>>

ReleaseAll ==
  /\ Idle
  /\ context' = "released"
  /\ calls' = <<Frame("pollFreed"), Frame("resetAwaiting"), Frame("destroyAll")>>
  /\ UNCHANGED <<cache, inboxes, miscounted>>
-----------------------------------------------------------------------------
(* What the calls under way do next. *)
At(label) == calls # <<>> /\ Head(calls).at = label
Then(frames) == calls' = frames \o Tail(calls)

PollInvalid ==
  /\ At("pollInvalid")
  /\ fInvalidUniqueKeyInbox' = {}
  /\ Then(<<[Frame("invalid") EXCEPT !.keys = fInvalidUniqueKeyInbox]>>)
  /\ UNCHANGED <<cache, fFreedTextureInbox, owed, miscounted, context>>

(* processInvalidUniqueKey(): the resource that has the key is found, which *)
(* refers to it and makes it the most recently used, loses the key, and is *)
(* let go. The resource provider of a context that is gone finds nothing.  *)
ProcessInvalidUniqueKey(k) ==
  LET r == IF context = "alive" THEN cache.fUniqueHash[k] ELSE Null
      found == KeyRemoved(RefAndMakeMRU(cache, r), r)
      rest == [Head(calls) EXCEPT !.keys = @ \ {k}]
  IN /\ At("invalid") /\ k \in Head(calls).keys
     /\ IF r = Null
          THEN Then(<<rest>>) /\ UNCHANGED cache
          ELSE cache' = Unreffed(found, r) /\ Then(AfterUnref(found, r) \o <<rest>>)
     /\ UNCHANGED <<inboxes, miscounted, context>>

(* processFreedGpuResources() looks at the inbox only when it awaits one.  *)
PollFreed ==
  /\ At("pollFreed")
  /\ IF cache.fTexturesAwaitingUnref = NoTextures
       THEN Then(<<>>) /\ UNCHANGED fFreedTextureInbox
       ELSE /\ Then(<<[Frame("freed") EXCEPT !.textures = fFreedTextureInbox]>>)
            /\ fFreedTextureInbox' = NoTextures
  /\ UNCHANGED <<cache, fInvalidUniqueKeyInbox, owed, miscounted, context>>

(* The entry and the reference that a message or the reset takes for       *)
(* granted. Where they are missing, which takes an earlier miscount, the   *)
(* code asserts or uses what is deleted, and the model stops.              *)
Refers(r) == cache.res[r].refs > 0
HasEntry(r) == cache.fTexturesAwaitingUnref[r] > 0

(* Mutant: the entry stays. *)
ProcessFreedUncounted(r) ==
  LET rest == [Head(calls) EXCEPT !.textures[r] = @ - 1]
  IN /\ At("freed") /\ Head(calls).textures[r] > 0 /\ HasEntry(r) /\ Refers(r)
     /\ cache' = Unreffed(cache, r)
     /\ Then(AfterUnref(cache, r) \o <<rest>>)
     /\ UNCHANGED <<inboxes, miscounted, context>>

(* A freed message: its entry is found, and the unref() of                 *)
(* TextureAwaitingUnref::unref(), with all that follows from it, comes     *)
(* before its --fNumUnrefs.                                                *)
ProcessFreed(r) ==
  LET rest == [Head(calls) EXCEPT !.textures[r] = @ - 1]
      return == [Frame("unreffed") EXCEPT !.textures[r] = 1]
  IN /\ At("freed") /\ Head(calls).textures[r] > 0 /\ HasEntry(r) /\ Refers(r)
     /\ cache' = Unreffed(cache, r)
     /\ Then(AfterUnref(cache, r) \o <<return, rest>>)
     /\ UNCHANGED <<inboxes, miscounted, context>>

(* Every pointer into the table that a call keeps, after the table lost an *)
(* entry, whose place others may have moved to.                            *)
Stale(frames) ==
  [i \in DOMAIN frames |-> [frames[i] EXCEPT !.stale = @ \/ frames[i].at = "unreffed"]]

(* The texture whose entry the pointer that was found for r leads to: its  *)
(* own; when it is stale, perhaps another's, or that of an empty slot.     *)
Pointed(r) ==
  IF Head(calls).stale
    THEN {r, Null} \union {q \in Resources : HasEntry(q)} ELSE {r}

(* Mutant: the entry goes with its first message. *)
CountUnrefRemoves(r) ==
  /\ At("unreffed") /\ Head(calls).textures[r] = 1
  /\ Do([cache EXCEPT !.fTexturesAwaitingUnref[r] = 0], Tail(calls))

(* --fNumUnrefs of the entry that the pointer leads to, and the entry of r *)
(* removed when that finished the one pointed to. An entry left at zero is *)
(* as good as none.                                                        *)
CountUnref(r) ==
  /\ At("unreffed") /\ Head(calls).textures[r] = 1
  /\ \E q \in Pointed(r) :
       LET counts == q # Null /\ HasEntry(q)
           finished == counts /\ cache.fTexturesAwaitingUnref[q] = 1
           awaiting == [p \in Resources |->
             IF p = r /\ finished THEN 0
             ELSE cache.fTexturesAwaitingUnref[p] - Count(p = q /\ counts)]
       IN /\ cache' = [cache EXCEPT !.fTexturesAwaitingUnref = awaiting]
          /\ calls' = IF finished THEN Stale(Tail(calls)) ELSE Tail(calls)
          /\ miscounted' = miscounted \union (IF q = r THEN {} ELSE {r, q} \ {Null})
          /\ UNCHANGED <<inboxes, context>>

PurgeLoop ==
  /\ At("purgeLoop") /\ OverBudget(cache) /\ cache.fPurgeableQueue # {}
  /\ Do(Destroyed(cache, Oldest(cache, cache.fPurgeableQueue)), calls)

(* purgeUnlockedResources(size_t, bool) puts the limit back. *)
Purged ==
  /\ At("purged")
  /\ Do([cache EXCEPT !.fMaxBytes = Head(calls).limit], Tail(calls))

(* fTexturesAwaitingUnref.reset(), whose destructors unref one by one. *)
ResetAwaiting ==
  /\ At("resetAwaiting")
  /\ Do([cache EXCEPT !.fTexturesAwaitingUnref = NoTextures],
        <<[Frame("reset") EXCEPT !.textures = cache.fTexturesAwaitingUnref]>> \o Tail(calls))

UnrefAwaiting(r) ==
  /\ At("reset") /\ Head(calls).textures[r] > 0 /\ Refers(r)
  /\ Do(Unreffed(cache, r),
        AfterUnref(cache, r) \o <<[Head(calls) EXCEPT !.textures[r] = @ - 1]>> \o Tail(calls))

(* The loops of abandonAll() and releaseAll(). *)
DestroyAll(r) ==
  /\ At("destroyAll") /\ r \in InCache(cache)
  /\ r \in cache.fPurgeableQueue => cache.fNonpurgeableResources = {}
  /\ Do(Destroyed(cache, r), calls)

(* A loop that is through. *)
Return ==
  /\ calls # <<>>
  /\ \/ Head(calls).at = "invalid" /\ Head(calls).keys = {}
     \/ Head(calls).at \in {"freed", "reset"} /\ Head(calls).textures = NoTextures
     \/ Head(calls).at = "purgeLoop" /\ (~OverBudget(cache) \/ cache.fPurgeableQueue = {})
     \/ Head(calls).at = "destroyAll" /\ InCache(cache) = {}
  /\ Do(cache, Tail(calls))
-----------------------------------------------------------------------------
CONSTANT Requests   (* bytes that purgeUnlockedResources() is asked for *)
ASSUME RequestAssumption == Requests \subseteq Nat

GoesOn ==
  \/ PollInvalid \/ PollFreed \/ PurgeLoop \/ Purged \/ ResetAwaiting \/ Return
  \/ \E k \in UniqueKeys : ProcessInvalidUniqueKey(k)
  \/ \E r \in Resources : ProcessFreed(r) \/ CountUnref(r) \/ UnrefAwaiting(r) \/ DestroyAll(r)

Begins ==
  \/ \E r \in Resources :
       \/ RegisterWithCache(r) \/ RegisterWithCacheWrapped(r)
       \/ Ref(r) \/ Unref(r) \/ FindScratch(r)
       \/ RemoveUniqueKey(r) \/ RemoveScratchKey(r)
       \/ MakeBudgeted(r) \/ MakeUnbudgeted(r)
       \/ InsertDelayedTextureUnref(r)
       \/ \E k \in UniqueKeys : SetUniqueKey(r, k)
  \/ \E k \in UniqueKeys : FindUnique(k)
  \/ \E limit \in Limits : SetLimit(limit)
  \/ \E b \in BOOLEAN : PurgeUnlocked(b)
  \/ \E n \in Requests, b \in BOOLEAN : PurgeBytes(n, b)
  \/ PurgeAsNeeded \/ PurgeNotUsedSince \/ AbandonAll \/ ReleaseAll

Posts ==
  \/ \E k \in UniqueKeys : PostInvalidated(k)
  \/ \E r \in Resources : PostFreed(r)

Next == Begins \/ GoesOn \/ Posts

Spec == Init /\ [][Next]_vars
-----------------------------------------------------------------------------
Resource ==
  [state : {"none", "cached", "destroyed"}, refs : 0..MaxRefs+MaxOwed,
   size : Sizes \union {0}, timestamp : 0..Stamps-1, budgetedType : BudgetedTypes,
   refsWrapped : BOOLEAN, scratchKey : ScratchKeys \union {Null},
   uniqueKey : UniqueKeys \union {Null}]

Labels == {"pollInvalid", "invalid", "pollFreed", "freed", "unreffed", "purgeLoop",
           "purged", "resetAwaiting", "reset", "destroyAll"}

TypeOK ==
  /\ cache.res \in [Resources -> Resource]
  /\ cache.fScratchMap \subseteq ScratchKeys \X Resources
  /\ cache.fUniqueHash \in [UniqueKeys -> Resources \union {Null}]
  /\ cache.fTexturesAwaitingUnref \in [Resources -> 0..MaxOwed]
  /\ cache.fTimestamp \in 0..Stamps-1
  /\ \A i \in DOMAIN calls : calls[i].at \in Labels
  /\ fInvalidUniqueKeyInbox \subseteq UniqueKeys
  /\ fFreedTextureInbox \in [Resources -> 0..MaxOwed]
  /\ owed \in [Resources -> 0..MaxOwed]
  /\ miscounted \subseteq Resources
  /\ context \in {"alive", "abandoned", "released"}

Cached == {r \in Resources : cache.res[r].state = "cached"}
Bytes(resources) == MapThenSumSet(LAMBDA r : cache.res[r].size, resources)

(* The array and the queue between them hold exactly the live resources,   *)
(* and each the ones it should: a resource in the wrong one is purged      *)
(* while it is used, or never (GrResourceCache.cpp:882-900). At rest only  *)
(* budgeted resources wait to be purged, so that purging always pays.      *)
QueuesAgree ==
  /\ InCache(cache) = Cached
  /\ cache.fPurgeableQueue = {r \in Cached : IsPurgeable(cache, r)}
  /\ cache.fNonpurgeableResources \intersect cache.fPurgeableQueue = {}
  /\ calls = <<>> => \A r \in cache.fPurgeableQueue : Budgeted(cache, r)

(* A lookup by either key finds a resource exactly when it should: unique  *)
(* keys belong to one live resource, a resource with one cannot be found   *)
(* as scratch, and only budgeted or wrapped ones have one                  *)
(* (GrResourceCache.cpp:823-856, 919-920).                                 *)
KeysAgree ==
  /\ \A k \in UniqueKeys, r \in Resources :
       cache.fUniqueHash[k] = r <=> r \in Cached /\ cache.res[r].uniqueKey = k
  /\ cache.fScratchMap = UNION {ScratchEntry(cache, r) : r \in Cached}
  /\ \A r \in Cached : cache.res[r].uniqueKey # Null =>
       Budgeted(cache, r) \/ cache.res[r].refsWrapped

(* The running totals are the totals, through every change of budget, key, *)
(* reference count and queue (GrResourceCache.cpp:902-910).                *)
BytesAgree ==
  LET budgeted == {r \in Cached : Budgeted(cache, r)} IN
  /\ cache.fBytes = Bytes(Cached)
  /\ cache.fBudgetedBytes = Bytes(budgeted)
  /\ cache.fBudgetedCount = Cardinality(budgeted)
  /\ cache.fPurgeableBytes = Bytes(cache.fPurgeableQueue)

(* The order of the timestamps is the order of last use, also after the    *)
(* counter has wrapped: what is purged first is the least recently used    *)
(* (GrResourceCache.cpp:677-737, GrResourceCache.h:325-328).               *)
StampsFollowUse ==
  /\ {cache.use[i] : i \in DOMAIN cache.use} = Cached
  /\ \A i, j \in DOMAIN cache.use :
       i < j => cache.res[cache.use[i]].timestamp < cache.res[cache.use[j]].timestamp

(* Messages of other threads that are on their way for a texture. *)
InCalls(label, r) ==
  MapThenSumSet(LAMBDA i : IF calls[i].at = label THEN calls[i].textures[r] ELSE 0, DOMAIN calls)
OnTheWay(r) == owed[r] + fFreedTextureInbox[r] + InCalls("freed", r)

(* A texture that awaits a freed message is kept alive, by a reference per *)
(* message (GrResourceCache.h:182), as long as no call has written through *)
(* a pointer that had come to another's entry. With the types.             *)
AwaitedHeld ==
  /\ TypeOK
  /\ \A r \in Resources \ miscounted :
       cache.fTexturesAwaitingUnref[r] - InCalls("unreffed", r) <= cache.res[r].refs

(* There is an entry for every message that will come, whatever the calls  *)
(* under way have done, with the same proviso (GrResourceCache.cpp:647).   *)
MessagesMatched == context = "alive" => \A r \in Resources \ miscounted :
  OnTheWay(r) + InCalls("unreffed", r) <= cache.fTexturesAwaitingUnref[r]

(* When abandonAll() or releaseAll() is through, nothing is left in any    *)
(* list, key table or total (GrResourceCache.cpp:221-229, 258-266).        *)
TornDownClean == context # "alive" /\ calls = <<>> =>
  cache = [EmptyCache(cache.fMaxBytes) EXCEPT
             !.res = cache.res, !.fTimestamp = cache.fTimestamp]

(* A resource somebody refers to stays in the cache until the context goes. *)
NothingInUsePurged ==
  [][\A r \in Cached : context' = "alive" /\ cache'.res[r].state # "cached" =>
        cache'.res[r].refs = 0]_vars

(* A call that returns leaves the cache within its limit or with nothing   *)
(* to purge, and what is over it then was so before: whatever adds bytes,  *)
(* budgets them or makes a resource purgeable purges as well               *)
(* (GrResourceCache.cpp:504-530, GrContext.h: setResourceCacheLimit()).    *)
(* The exception is purgeUnlockedResources(bytes), whose own limit may be  *)
(* the higher one (lines 583, 617): what messages made purgeable meanwhile *)
(* stays.                                                                  *)
Unpurged == OverBudget(cache) /\ cache.fPurgeableQueue # {}
PurgedToBudget ==
  [][(Idle /\ Unpurged)' => (Idle /\ Unpurged) \/ At("purged")]_vars

(* What comments and docs say and the code does not do.                    *)
(*                                                                         *)
(* GrResourceCache.cpp:647-650: any texture from a message should be in    *)
(* the list of fTexturesAwaitingUnref. The unref() of one message may run  *)
(* those of others, whose entries go and move the one found before. An     *)
(* entry left at zero counts as none: line 103 asserts fNumUnrefs > 0.     *)
MessageHasEntry == At("freed") =>
  \A r \in Resources : Head(calls).textures[r] > 0 => HasEntry(r)

(* GrContext.cpp:128-129: a lost context is abandoned first, so that       *)
(* nothing is freed in the API any more.                                   *)
AbandonKeepsOffApi ==
  [][\A r \in Cached : context = "abandoned" /\ cache'.res[r].state # "cached" =>
        At("destroyAll")]_vars
=============================================================================
