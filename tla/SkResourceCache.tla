--------------------------- MODULE SkResourceCache ---------------------------
(***************************************************************************)
(* The cache of decoded images and mip maps: SkResourceCache.cpp, the      *)
(* records and clients of SkBitmapCache.cpp, the inbox of SkMessageBus.h,  *)
(* over SkCachedData and the discardable memory pool (the build with       *)
(* SK_USE_DISCARDABLE_SCALEDIMAGECACHE, where memory can go away).         *)
(*                                                                         *)
(* The cache is used under resource_cache_mutex(), but clients give up     *)
(* what they found, the pool purges and messages arrive without it: what   *)
(* a thread does under the mutex is one step per record it looks at.       *)
(***************************************************************************)
EXTENDS SkCachedData

CONSTANTS
  Threads,
  Bitmaps,     (* SkBitmapCache::Rec objects; the others are mip maps      *)
  Images,      (* the images records are made of, also their shared IDs    *)
  ByteLimit, CountLimit,
  MaxInbox,    (* bound: messages waiting in the inbox                     *)
  None

Kinds == {"bitmap", "mipmap"}
Keys == Kinds \X Images
Recs == Bitmaps \union Datas
Kind(r) == IF r \in Bitmaps THEN "bitmap" ELSE "mipmap"

ASSUME CacheAssumption ==
  /\ Bitmaps \union Datas = Blocks /\ Bitmaps \intersect Datas = {}
  /\ None \notin Recs \union Images \union Threads \union Keys
  /\ IsFiniteSet(Threads)
  /\ ByteLimit \in Nat /\ CountLimit \in Nat /\ MaxInbox \in Nat

VARIABLES
  fKey,                  (* the image of each record; None: no such object *)
  fDM,                   (* Rec: it has its memory object                  *)
  fDiscardableIsLocked,
  fExternalCounter,
  fLru,                  (* SkResourceCache: its list, fHead first         *)
  fHash,
  fTotalBytesUsed, fCount,
  inbox,                 (* fPurgeSharedIDInbox                            *)
  msgs,                  (* the messages polled and not yet handled        *)
  owner,                 (* of resource_cache_mutex()                      *)
  cur,                   (* how far its owner has got in the list          *)
  pc,
  want,                  (* the key a thread looks for                     *)
  made,                  (* a record that is not shared yet, or no longer  *)
  holds                  (* what a thread has found or added               *)

recVars == <<fKey, fDM, fDiscardableIsLocked, fExternalCounter>>
cacheVars == <<fLru, fHash, fTotalBytesUsed, fCount>>
mutexVars == <<inbox, msgs, owner, cur>>
threadVars == <<pc, want, made, holds>>
vars == <<poolVars, dataVars, recVars, cacheVars, mutexVars, threadVars>>

Init ==
  /\ PoolInit /\ DataInit
  /\ fKey = [r \in Recs |-> None]
  /\ fDM = [r \in Bitmaps |-> FALSE]
  /\ fDiscardableIsLocked = [r \in Bitmaps |-> FALSE]
  /\ fExternalCounter = [r \in Bitmaps |-> 0]
  /\ fLru = <<>> /\ fHash = [k \in Keys |-> None]
  /\ fTotalBytesUsed = 0 /\ fCount = 0
  /\ inbox = <<>> /\ msgs = <<>> /\ owner = None /\ cur = 0
  /\ pc = [t \in Threads |-> "idle"] /\ want = [t \in Threads |-> None]
  /\ made = [t \in Threads |-> None] /\ holds = [t \in Threads |-> None]
-----------------------------------------------------------------------------
KeyOf(r) == <<Kind(r), fKey[r]>>
Goes(t, label) == pc' = [pc EXCEPT ![t] = label]
Unlisted(list, r) == RemoveAt(list, CHOOSE i \in DOMAIN list : list[i] = r)

(* Rec::install(): the memory is locked for the first client.              *)
Installs(r) == fDM[r] /\ (fDiscardableIsLocked[r] \/ fPointer[r])

(* Mutant: nobody counts the bitmaps a client gets. *)
InstallUncounted(r) ==
  /\ Installs(r)
  /\ IF fDiscardableIsLocked[r] THEN UNCHANGED poolVars ELSE PoolLock(r)
  /\ fDiscardableIsLocked' = [fDiscardableIsLocked EXCEPT ![r] = TRUE]
  /\ UNCHANGED <<fExternalCounter, fDM>>

Install(r) ==
  /\ Installs(r)
  /\ IF fDiscardableIsLocked[r] THEN UNCHANGED poolVars ELSE PoolLock(r)
  /\ fDiscardableIsLocked' = [fDiscardableIsLocked EXCEPT ![r] = TRUE]
  /\ fExternalCounter' = [fExternalCounter EXCEPT ![r] = @ + 1]
  /\ UNCHANGED fDM

InstallFails(r) ==
  /\ ~Installs(r)
  /\ fDM' = [fDM EXCEPT ![r] = FALSE]
  /\ UNCHANGED <<fDiscardableIsLocked, fExternalCounter, poolVars>>

CanBePurged(r) == r \in Bitmaps => fExternalCounter[r] = 0

(* ~Rec() of a bitmap gives up its block; ~MipMapRec() gives up a          *)
(* reference, and deletes the data when that was the last one.             *)
DeleteRec(r) ==
  IF r \in Bitmaps
  THEN /\ PoolRemove(r)
       /\ fKey' = [fKey EXCEPT ![r] = None]
       /\ fDM' = [fDM EXCEPT ![r] = FALSE]
       /\ UNCHANGED <<fDiscardableIsLocked, fExternalCounter, dataVars>>
  ELSE /\ UnrefCounts(r, TRUE)
       /\ IF fRefCnt[r] = 1
          THEN PoolRemove(r) /\ fKey' = [fKey EXCEPT ![r] = None]
          ELSE /\ IF UnrefUnlocks(r, TRUE) THEN PoolUnlock(r) ELSE UNCHANGED poolVars
               /\ UNCHANGED fKey
       /\ UNCHANGED <<fDM, fDiscardableIsLocked, fExternalCounter>>

(* remove(): out of the list, the hash and the totals.                     *)
RemoveRec(r) ==
  /\ DeleteRec(r)
  /\ fLru' = Unlisted(fLru, r)
  /\ fHash' = [fHash EXCEPT ![KeyOf(r)] = None]
  /\ fTotalBytesUsed' = fTotalBytesUsed - Bytes[r]
  /\ fCount' = fCount - 1
-----------------------------------------------------------------------------
(* find() or add(): the mutex, then poll() of the inbox. What is to be     *)
(* done is told by the thread's record: one to add, or none.               *)
Task(t) == IF made[t] = None THEN "find" ELSE "add"

Enter(t, key) ==
  /\ owner = None /\ owner' = t
  /\ IF made[t] = None THEN pc[t] = "idle" /\ key \in Keys ELSE pc[t] = "built" /\ key = None
  /\ want' = [want EXCEPT ![t] = key]
  /\ msgs' = inbox /\ inbox' = <<>>
  /\ cur' = Len(fLru)
  /\ Goes(t, IF inbox # <<>> /\ fLru # <<>> THEN "sweep" ELSE Task(t))
  /\ UNCHANGED <<poolVars, dataVars, recVars, cacheVars, made, holds>>

(* purgeSharedID() of the first message, one record: "caches could still   *)
(* be in-flight, so we have to check if it can be removed".                *)
Sweep(t) ==
  /\ pc[t] = "sweep"
  /\ LET r == fLru[cur]
     IN IF fKey[r] = Head(msgs) /\ CanBePurged(r)
        THEN RemoveRec(r)
        ELSE UNCHANGED <<poolVars, dataVars, recVars, cacheVars>>
  /\ IF cur > 1 THEN cur' = cur - 1 /\ UNCHANGED <<msgs, pc>>
     ELSE /\ msgs' = Tail(msgs) /\ cur' = Len(fLru')
          /\ Goes(t, IF msgs' # <<>> /\ fLru' # <<>> THEN "sweep" ELSE Task(t))
  /\ UNCHANGED <<inbox, owner, want, made, holds>>

Leaves(t, label) ==
  /\ owner' = None /\ cur' = 0 /\ msgs' = <<>>
  /\ Goes(t, label)
  /\ UNCHANGED inbox

(* find(): the visitor is install() or, for a mip map, ref() and data().   *)
(* A record whose visitor fails is stale, and removed.                     *)
Visits(r) == IF r \in Bitmaps THEN Installs(r) ELSE DataAfterRef(r)

Find(t) ==
  /\ pc[t] = "find"
  /\ LET r == fHash[want[t]]
     IN \/ /\ r = None
           /\ Leaves(t, "miss")
           /\ UNCHANGED <<poolVars, dataVars, recVars, cacheVars, want, holds>>
        \/ /\ r # None /\ Visits(r)
           /\ IF r \in Bitmaps THEN Install(r) /\ UNCHANGED dataVars
              ELSE Ref(r) /\ UNCHANGED <<fDM, fDiscardableIsLocked, fExternalCounter>>
           /\ fLru' = <<r>> \o Unlisted(fLru, r)
           /\ holds' = [holds EXCEPT ![t] = r]
           /\ want' = [want EXCEPT ![t] = None]
           /\ Leaves(t, "has")
           /\ UNCHANGED <<fKey, fHash, fTotalBytesUsed, fCount>>
        \/ /\ r # None /\ ~Visits(r)
           /\ RemoveRec(r)
           /\ Leaves(t, "miss")
           /\ UNCHANGED <<want, holds>>
  /\ UNCHANGED made

(* After a miss: SkBitmapCache::Alloc() or SkMipMap::Build() and its       *)
(* record, outside of the mutex, unless there is no memory.                *)
Alloc(t) ==
  /\ pc[t] = "miss"
  /\ \/ Goes(t, "idle") /\ UNCHANGED <<poolVars, dataVars, recVars, made>>
     \/ \E r \in Recs :
          /\ fKey[r] = None /\ Kind(r) = want[t][1]
          /\ fKey' = [fKey EXCEPT ![r] = want[t][2]]
          /\ made' = [made EXCEPT ![t] = r]
          /\ Goes(t, "built")
          /\ IF r \in Bitmaps
             THEN /\ PoolMake(r)
                  /\ fDM' = [fDM EXCEPT ![r] = TRUE]
                  /\ fDiscardableIsLocked' = [fDiscardableIsLocked EXCEPT ![r] = TRUE]
                  /\ fExternalCounter' = [fExternalCounter EXCEPT ![r] = 0]
                  /\ UNCHANGED dataVars
             ELSE /\ DataMake(r)
                  /\ UNCHANGED <<fDM, fDiscardableIsLocked, fExternalCounter>>
  /\ want' = [want EXCEPT ![t] = None]
  /\ UNCHANGED <<cacheVars, mutexVars, holds>>

(* add() of a record to the list, the hash and the totals, and             *)
(* postAddInstall(), which finds the memory of a new record locked.        *)
Insert(t, rec) ==
  /\ fLru' = <<rec>> \o fLru
  /\ fHash' = [fHash EXCEPT ![KeyOf(rec)] = rec]
  /\ fTotalBytesUsed' = fTotalBytesUsed + Bytes[rec]
  /\ fCount' = fCount + 1
  /\ IF rec \in Bitmaps THEN Install(rec)
     ELSE UNCHANGED <<poolVars, fDM, fDiscardableIsLocked, fExternalCounter>>
  /\ made' = [made EXCEPT ![t] = None] /\ holds' = [holds EXCEPT ![t] = rec]
  /\ cur' = Len(fLru') /\ Goes(t, "purge")
  /\ UNCHANGED <<fKey, dataVars>>

(* Mutant: what is there for the key already is not looked at. *)
AddSecond(t) ==
  /\ pc[t] = "add"
  /\ Insert(t, made[t])
  /\ UNCHANGED <<inbox, msgs, owner, want>>

(* "See if we already have this key (racy inserts, etc.)": a record that   *)
(* is not in use is removed first, one that is in use is used again.       *)
Add(t) ==
  /\ pc[t] = "add"
  /\ LET prev == fHash[KeyOf(made[t])]
     IN \/ prev = None /\ Insert(t, made[t])
        \/ /\ prev # None /\ CanBePurged(prev)
           /\ RemoveRec(prev)
           /\ UNCHANGED <<pc, cur, made, holds>>
        \/ /\ prev # None /\ ~CanBePurged(prev)
           /\ Goes(t, "reuse")
           /\ UNCHANGED <<poolVars, dataVars, recVars, cacheVars, cur, made, holds>>
  /\ UNCHANGED <<inbox, msgs, owner, want>>

(* The record in use is installed. Its last client may have left since it  *)
(* was asked whether it can be purged, and its memory may be gone.         *)
Reuse(t) ==
  /\ pc[t] = "reuse"
  /\ LET prev == fHash[KeyOf(made[t])]
     IN \/ Install(prev) /\ holds' = [holds EXCEPT ![t] = prev]
        \/ InstallFails(prev) /\ UNCHANGED holds
  /\ Goes(t, "discard")
  /\ UNCHANGED <<fKey, dataVars, cacheVars, mutexVars, want, made>>

(* ... and the new one deleted: ~Rec() unlocks its block and destroys it.  *)
(* The same when a client fails to decode into a bitmap that it allocated. *)
Discard(t) ==
  /\ pc[t] = "discard" \/ (pc[t] = "built" /\ made[t] \in Bitmaps)
  /\ PoolUnlock(made[t])
  /\ fDiscardableIsLocked' = [fDiscardableIsLocked EXCEPT ![made[t]] = FALSE]
  /\ Goes(t, "destroy")
  /\ UNCHANGED <<fKey, fDM, fExternalCounter, dataVars, cacheVars, mutexVars, want, made, holds>>

(* The destructor of a block whose owner has just unlocked it.             *)
Destroy(t) ==
  /\ pc[t] = "destroy"
  /\ PoolRemove(made[t])
  /\ fKey' = [fKey EXCEPT ![made[t]] = None]
  /\ IF made[t] \in Bitmaps THEN fDM' = [fDM EXCEPT ![made[t]] = FALSE] ELSE UNCHANGED fDM
  /\ made' = [made EXCEPT ![t] = None]
  /\ LET label == IF holds[t] = None THEN "idle" ELSE "has"
     IN IF owner = t THEN Leaves(t, label) ELSE Goes(t, label) /\ UNCHANGED mutexVars
  /\ UNCHANGED <<fDiscardableIsLocked, fExternalCounter, dataVars, cacheVars, want, holds>>

(* purgeAsNeeded(), one record, and purgeAll(), which forces it.           *)
PurgeAll(t) ==
  /\ owner = None /\ owner' = t
  /\ pc[t] = "idle" /\ fLru # <<>>
  /\ Goes(t, "purgeAll") /\ cur' = Len(fLru)
  /\ UNCHANGED <<poolVars, dataVars, recVars, cacheVars, inbox, msgs, want, made, holds>>

WithinLimits == fTotalBytesUsed < ByteLimit /\ fCount < CountLimit

Purge(t) ==
  /\ pc[t] \in {"purge", "purgeAll"}
  /\ IF cur = 0 \/ (pc[t] = "purge" /\ WithinLimits)
     THEN /\ Leaves(t, IF holds[t] = None THEN "idle" ELSE "has")
          /\ UNCHANGED <<poolVars, dataVars, recVars, cacheVars>>
     ELSE /\ IF CanBePurged(fLru[cur]) THEN RemoveRec(fLru[cur])
             ELSE UNCHANGED <<poolVars, dataVars, recVars, cacheVars>>
          /\ cur' = cur - 1
          /\ UNCHANGED <<inbox, msgs, owner, pc>>
  /\ UNCHANGED <<want, made, holds>>
-----------------------------------------------------------------------------
(* Mutant: the memory stays locked. *)
ReleaseProcForgets(t, r) ==
  /\ fExternalCounter' = [fExternalCounter EXCEPT ![r] = @ - 1]
  /\ UNCHANGED <<poolVars, fDiscardableIsLocked>>

(* ReleaseProc(), when a pixel ref is destroyed: the last one unlocks.     *)
ReleaseProc(t, r) ==
  /\ fExternalCounter' = [fExternalCounter EXCEPT ![r] = @ - 1]
  /\ IF fExternalCounter[r] = 1 /\ fDM[r]
     THEN /\ PoolUnlock(r)
          /\ fDiscardableIsLocked' = [fDiscardableIsLocked EXCEPT ![r] = FALSE]
     ELSE UNCHANGED <<poolVars, fDiscardableIsLocked>>

(* A client is done with what it has, without the mutex of the cache.      *)
Drop(t) ==
  /\ pc[t] = "has"
  /\ LET r == holds[t]
     IN IF r \in Bitmaps
        THEN /\ ReleaseProc(t, r)
             /\ Goes(t, "idle")
             /\ UNCHANGED <<dataVars, made>>
        ELSE /\ Unref(r, FALSE)
             /\ IF fRefCnt[r] = 1
                THEN Goes(t, "destroy") /\ made' = [made EXCEPT ![t] = r]
                ELSE Goes(t, "idle") /\ UNCHANGED made
             /\ UNCHANGED <<fDiscardableIsLocked, fExternalCounter>>
  /\ holds' = [holds EXCEPT ![t] = None]
  /\ UNCHANGED <<fKey, fDM, cacheVars, mutexVars, want>>

(* A client gives its mip map to another thread, which refs it.            *)
Share(t, u) ==
  /\ pc[t] = "has" /\ pc[u] = "idle" /\ holds[t] \in Datas
  /\ Ref(holds[t])
  /\ Goes(u, "has")
  /\ holds' = [holds EXCEPT ![u] = holds[t]]
  /\ UNCHANGED <<recVars, cacheVars, mutexVars, want, made>>

(* PostPurgeSharedID(), when an image dies, through Post() and receive().  *)
PostPurgeSharedID(image) ==
  /\ Len(inbox) < MaxInbox
  /\ inbox' = Append(inbox, image)
  /\ UNCHANGED <<poolVars, dataVars, recVars, cacheVars, msgs, owner, cur, threadVars>>

(* The pool is told to shrink, by whoever has it.                          *)
Shrink ==
  /\ DumpPool \/ \E budget \in Budgets : SetRAMBudget(budget)
  /\ UNCHANGED <<dataVars, recVars, cacheVars, mutexVars, threadVars>>

Next ==
  \/ \E t \in Threads :
       \/ \E key \in Keys \union {None} : Enter(t, key)
       \/ Sweep(t) \/ Find(t) \/ Alloc(t) \/ Add(t) \/ Reuse(t)
       \/ Discard(t) \/ Destroy(t) \/ PurgeAll(t) \/ Purge(t) \/ Drop(t)
       \/ \E u \in Threads : Share(t, u)
  \/ \E image \in Images : PostPurgeSharedID(image)
  \/ Shrink

Spec == Init /\ [][Next]_vars
-----------------------------------------------------------------------------
Owners(r) == {t \in Threads : holds[t] = r}
Builders(r) == {t \in Threads : made[t] = r /\ pc[t] # "destroy"}

TypeOK ==
  /\ PoolTypeOK /\ DataTypeOK
  /\ fKey \in [Recs -> Images \union {None}]
  /\ fDM \in [Bitmaps -> BOOLEAN]
  /\ fDiscardableIsLocked \in [Bitmaps -> BOOLEAN]
  /\ fExternalCounter \in [Bitmaps -> Nat]
  /\ fLru \in Seq(Recs) /\ fHash \in [Keys -> Recs \union {None}]
  /\ fTotalBytesUsed \in Nat /\ fCount \in Nat
  /\ inbox \in Seq(Images) /\ msgs \in Seq(Images)
  /\ owner \in Threads \union {None} /\ cur \in Nat
  /\ pc \in [Threads -> {"idle", "miss", "built", "sweep", "find", "add", "reuse",
                         "discard", "destroy", "purge", "purgeAll", "has"}]
  /\ want \in [Threads -> Keys \union {None}]
  /\ made \in [Threads -> Recs \union {None}]
  /\ holds \in [Threads -> Recs \union {None}]

(* A block is locked exactly while a thread can see its memory: one that   *)
(* found or added its record, or is still building it. Then the pool has   *)
(* not taken the memory away; and no lock is left behind when a visitor    *)
(* fails or a second record for a key is deleted (install(), ReleaseProc() *)
(* and ~Rec() for bitmaps, the reference counts of SkCachedData for the    *)
(* others).                                                                *)
LockedWhileSeen ==
  \A r \in Recs :
    /\ fLocked[r] <=> Owners(r) \union Builders(r) # {}
    /\ fLocked[r] => fPointer[r] /\ fKey[r] # None

(* The counts are the counts of clients, and the assertions of validate()  *)
(* and of ReleaseProc() and install() hold: a record with clients has its  *)
(* memory object, and without any it is unlocked (SkCachedData.cpp:155).   *)
(* With the types.                                                         *)
CountsAgree ==
  /\ TypeOK
  /\ \A r \in Bitmaps :
       /\ fExternalCounter[r] = Cardinality(Owners(r))
       /\ Owners(r) # {} => fDM[r]
       /\ fDiscardableIsLocked[r] <=> fLocked[r]
  /\ \A d \in Datas :
       /\ Validated(d)
       /\ fRefCnt[d] = Cardinality(Owners(d) \union Builders(d))
                         + IF fInCache[d] THEN 1 ELSE 0

(* The list, the hash and the totals of the cache hold the same records,   *)
(* each key once; a bitmap some client uses is one of them, so that every  *)
(* client of a key shares one record: it is never removed under them, and  *)
(* no second one is added (SkResourceCache::add, remove, validate).        *)
CacheAgrees ==
  /\ IsInjective(fLru)
  /\ \A k \in Keys : fHash[k] # None => KeyOf(fHash[k]) = k
  /\ ToSet(fLru) = {fHash[k] : k \in Keys} \ {None}
  /\ fTotalBytesUsed = BytesOf(ToSet(fLru)) /\ fCount = Len(fLru)
  /\ \A t \in Threads : holds[t] \in Bitmaps => fHash[KeyOf(holds[t])] = holds[t]
  /\ \A d \in Datas : d \in ToSet(fLru) \union {made[t] : t \in Threads} =>
       fInCache[d] \/ \E t \in Threads : made[t] = d /\ pc[t] = "destroy"

(* "if it cannot be purged, we reuse it": a thread that adds a record has  *)
(* the bitmap of the key when add() has installed it, as the assertion in  *)
(* postAddInstall() says (SkBitmapCache.cpp:98).                           *)
PostAddInstallSucceeds == \A t \in Threads : pc[t] = "discard" => holds[t] # None
=============================================================================
