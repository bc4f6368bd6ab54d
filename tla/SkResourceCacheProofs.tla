----------------------- MODULE SkResourceCacheProofs -----------------------
(***************************************************************************)
(* Theorems about the raster cache over cached data and discardable        *)
(* memory, for any finite set of threads and any records, images, sizes,   *)
(* budgets and limits: who may see a block's memory, that lists, hash,     *)
(* locks and counts agree, and that the bytes are those of what is listed. *)
(***************************************************************************)
EXTENDS SkResourceCache, DataLemmas

Labels == {"idle", "miss", "built", "sweep", "find", "add", "reuse",
           "discard", "destroy", "purge", "purgeAll", "has"}

RecTypes ==
  /\ fPointer \in [Blocks -> BOOLEAN] /\ fLocked \in [Blocks -> BOOLEAN]
  /\ DataTypeOK
  /\ fKey \in [Recs -> Images \union {None}]
  /\ fDM \in [Bitmaps -> BOOLEAN]
  /\ fDiscardableIsLocked \in [Bitmaps -> BOOLEAN]
  /\ fExternalCounter \in [Bitmaps -> Nat]
  /\ fLru \in Seq(Recs) /\ fHash \in [Keys -> Recs \union {None}]

ThreadTypes ==
  /\ cur \in Nat
  /\ pc \in [Threads -> Labels]
  /\ want \in [Threads -> Keys \union {None}]
  /\ made \in [Threads -> Recs \union {None}]
  /\ holds \in [Threads -> Recs \union {None}]

Types == RecTypes /\ ThreadTypes

(* What a thread has at each place of its way, and that only the owner of  *)
(* the mutex is at the places between.                                     *)
Place(t) ==
  /\ pc[t] \in {"idle", "miss", "find", "purge", "purgeAll", "has"} => made[t] = None
  /\ pc[t] \in {"built", "add", "reuse", "discard", "destroy"} => made[t] # None
  /\ pc[t] \in {"idle", "miss", "built", "sweep", "find", "add", "reuse", "purgeAll"}
       => holds[t] = None
  /\ pc[t] = "has" => holds[t] # None
  /\ pc[t] \in {"find", "miss"} => want[t] \in Keys
  /\ pc[t] = "sweep" /\ made[t] = None => want[t] \in Keys
  /\ pc[t] \in {"reuse", "discard"} => made[t] \in Bitmaps
  /\ pc[t] \in {"sweep", "find", "add", "reuse", "purge", "purgeAll"} => owner = t
  /\ pc[t] = "sweep" => cur \in DOMAIN fLru
  /\ pc[t] \in {"purge", "purgeAll"} => cur = 0 \/ cur \in DOMAIN fLru
  /\ pc[t] = "reuse" => fHash[KeyOf(made[t])] \in Bitmaps

Places == \A t \in Threads : Place(t)

Listed == ToSet(fLru)

(* A record that is made, or being destroyed, is one thread's.             *)
MadeAlone ==
  /\ \A t, u \in Threads : made[t] = made[u] /\ made[t] # None => t = u
  /\ \A t \in Threads : made[t] # None =>
       /\ fKey[made[t]] # None /\ made[t] \notin Listed
       /\ \A u \in Threads : holds[u] # made[t]
       /\ pc[t] # "destroy" =>
            IF made[t] \in Bitmaps THEN fDM[made[t]] ELSE fInCache[made[t]]

(* A record somebody has is one, and a bitmap is in the cache.             *)
HeldExists == \A t \in Threads : holds[t] # None =>
  /\ fKey[holds[t]] # None
  /\ holds[t] \in Bitmaps => holds[t] \in Listed

(* The list and the hash have the same records, each once.                 *)
ListsAgree ==
  /\ \A i, j \in DOMAIN fLru : fLru[i] = fLru[j] => i = j
  /\ \A r \in Recs : r \in Listed <=> fKey[r] # None /\ fHash[KeyOf(r)] = r
  /\ \A k \in Keys : fHash[k] # None => KeyOf(fHash[k]) = k
  /\ \A d \in Datas : d \in Listed => fInCache[d]

Users(r) == Owners(r) \union Builders(r)

(* A block is locked as long as a thread sees it; and the counts are those *)
(* of the clients.                                                         *)
Counted(r) ==
  /\ fLocked[r] <=> Users(r) # {}
  /\ fLocked[r] => fPointer[r]
  /\ r \in Bitmaps =>
       /\ fExternalCounter[r] = Cardinality(Owners(r))
       /\ Owners(r) # {} => fDM[r]
       /\ fDiscardableIsLocked[r] = fLocked[r]
  /\ r \in Datas =>
       /\ fIsLocked[r] = fLocked[r] /\ fData[r] = fLocked[r]
       /\ fRefCnt[r] = Cardinality(Users(r)) + IF fInCache[r] THEN 1 ELSE 0

AllCounted == \A r \in Recs : Counted(r)

RecInv == MadeAlone /\ HeldExists /\ ListsAgree /\ AllCounted
CacheInv == Types /\ Places /\ RecInv
-----------------------------------------------------------------------------
(* The list of records: a record leaves it, or comes to its head.          *)
LEMMA UnlistedList ==
  ASSUME NEW L \in Seq(Recs), \A i, j \in DOMAIN L : L[i] = L[j] => i = j,
         NEW r \in ToSet(L)
  PROVE  /\ Unlisted(L, r) \in Seq(Recs) /\ Len(Unlisted(L, r)) = Len(L) - 1
         /\ \A i, j \in DOMAIN Unlisted(L, r) : Unlisted(L, r)[i] = Unlisted(L, r)[j] => i = j
         /\ ToSet(Unlisted(L, r)) = ToSet(L) \ {r}
<1> DEFINE at == CHOOSE i \in DOMAIN L : L[i] = r
           A == SubSeq(L, 1, at - 1)
           B == SubSeq(L, at + 1, Len(L))
           R == A \o B
           From(i) == IF i < at THEN i ELSE i + 1
<1>1. at \in DOMAIN L /\ L[at] = r
  BY DEF ToSet
<1>2. DOMAIN L = 1..Len(L) /\ Len(L) \in Nat
  BY LenProperties
<1>3. Unlisted(L, r) = R
  BY DEF Unlisted, RemoveAt
<1> HIDE DEF at
<1>4. at \in 1..Len(L) /\ at \in Int
  BY <1>1, <1>2
<1>5. A \in Seq(Recs) /\ Len(A) = at - 1 /\ \A i \in 1 .. at - 1 : A[i] = L[i]
  <2>1. \A i \in 1 .. at - 1 : L[i] \in Recs
    BY <1>2, <1>4, ElementOfSeq
  <2>2. /\ A \in Seq(Recs)
        /\ Len(A) = IF 1 <= at - 1 THEN (at - 1) - 1 + 1 ELSE 0
        /\ \A i \in 1 .. (at - 1) - 1 + 1 : A[i] = L[1 + i - 1]
    BY <1>2, <1>4, SubSeqProperties
  <2> QED
    BY <1>4, <2>2
<1>6. B \in Seq(Recs) /\ Len(B) = Len(L) - at
      /\ \A i \in 1 .. Len(L) - at : B[i] = L[at + i]
  <2>1. /\ B \in Seq(Recs)
        /\ Len(B) = IF at + 1 <= Len(L) THEN Len(L) - (at + 1) + 1 ELSE 0
        /\ \A i \in 1 .. Len(L) - (at + 1) + 1 : B[i] = L[(at + 1) + i - 1]
    BY <1>2, <1>4, SubSeqProperties
  <2>2. Len(L) - (at + 1) + 1 = Len(L) - at
    BY <1>2, <1>4
  <2>3. Len(B) = Len(L) - at
    <3>1. Len(B) = IF at + 1 <= Len(L) THEN Len(L) - (at + 1) + 1 ELSE 0
      BY <2>1
    <3>2. CASE at + 1 <= Len(L)
      BY <2>2, <3>1, <3>2
    <3>3. CASE ~(at + 1 <= Len(L))
      <4> DEFINE n == Len(L)
      <4>4. n \in Nat /\ at \in Int /\ at \in 1 .. n /\ ~(at + 1 <= n)
        BY <1>2, <1>4, <3>3
      <4> HIDE DEF n
      <4>5. n = at
        BY ONLY <4>4
      <4>1. Len(L) = at
        BY ONLY <4>5 DEF n
      <4>2. Len(L) - at = 0
        BY <1>2, <1>4, <4>1
      <4>3. Len(B) = 0
        BY ONLY <3>1, <3>3
      <4> QED
        BY ONLY <4>2, <4>3
    <3> QED
      BY <3>2, <3>3
  <2>4. ASSUME NEW i \in 1 .. Len(L) - at PROVE B[i] = L[at + i]
    <3>1. (at + 1) + i - 1 = at + i
      BY <1>4
    <3>2. B[i] = L[(at + 1) + i - 1]
      BY <2>1, <2>2
    <3> QED
      BY <3>1, <3>2
  <2> QED
    BY <2>1, <2>3, <2>4
<1> HIDE DEF A, B
<1>7. /\ R \in Seq(Recs) /\ Len(R) = Len(A) + Len(B)
      /\ \A i \in 1 .. Len(A) + Len(B) : R[i] = IF i <= Len(A) THEN A[i] ELSE B[i - Len(A)]
  BY <1>5, <1>6, ConcatProperties, ZenonT(60)
<1> HIDE DEF R
<1>8. Len(R) = Len(L) - 1 /\ DOMAIN R = 1 .. Len(L) - 1
  BY <1>2, <1>4, <1>5, <1>6, <1>7, LenProperties
<1>9. ASSUME NEW i \in 1 .. Len(L) - 1
      PROVE  R[i] = L[From(i)] /\ From(i) \in DOMAIN L /\ From(i) # at
  <2>1. i \in 1 .. Len(A) + Len(B) /\ i \in Int
    BY <1>2, <1>4, <1>5, <1>6
  <2>2. CASE i < at
    <3>1. i <= Len(A) /\ i \in 1 .. at - 1
      BY <1>4, <1>5, <2>1, <2>2
    <3>2. R[i] = L[i]
      BY <1>5, <1>7, <2>1, <3>1
    <3> QED
      BY <1>2, <1>4, <2>2, <3>1, <3>2
  <2>3. CASE ~(i < at)
    <3>1. ~(i <= Len(A)) /\ i - Len(A) \in 1 .. Len(L) - at /\ at + (i - Len(A)) = i + 1
      BY <1>2, <1>4, <1>5, <2>1, <2>3
    <3>2. R[i] = B[i - Len(A)]
      BY <1>7, <2>1, <3>1
    <3>3. B[i - Len(A)] = L[i + 1]
      BY <1>6, <3>1
    <3>4. From(i) = i + 1
      BY <2>3
    <3>5. i + 1 \in DOMAIN L /\ i + 1 # at
      BY <1>2, <1>4, <2>1, <2>3
    <3> QED
      BY <3>2, <3>3, <3>4, <3>5
  <2> QED
    BY <2>2, <2>3
<1>10. ASSUME NEW i \in DOMAIN L, i # at PROVE \E j \in DOMAIN R : R[j] = L[i]
  <2> DEFINE j == IF i < at THEN i ELSE i - 1
  <2>1. j \in 1 .. Len(L) - 1 /\ From(j) = i
    BY <1>2, <1>4, <1>10
  <2> HIDE DEF j
  <2>2. R[j] = L[From(j)]
    BY <1>9, <2>1
  <2> QED
    BY <1>8, <2>1, <2>2
<1>11. \A i, j \in DOMAIN R : R[i] = R[j] => i = j
  <2> SUFFICES ASSUME NEW i \in 1 .. Len(L) - 1, NEW j \in 1 .. Len(L) - 1, R[i] = R[j]
               PROVE  i = j
    BY <1>8
  <2>1. From(i) = From(j)
    BY <1>9
  <2>2. i \in Int /\ j \in Int
    OBVIOUS
  <2> QED
    BY <1>4, <2>1, <2>2
<1>12. ToSet(R) = ToSet(L) \ {r}
  <2>1. ASSUME NEW x \in ToSet(R) PROVE x \in ToSet(L) /\ x # r
    <3>1. PICK i \in DOMAIN R : x = R[i]
      BY <2>1 DEF ToSet
    <3>2. x = L[From(i)] /\ From(i) \in DOMAIN L /\ From(i) # at
      BY <1>8, <1>9, <3>1
    <3> HIDE DEF From
    <3> QED
      BY <1>1, <3>2 DEF ToSet
  <2>2. ASSUME NEW x \in ToSet(L), x # r PROVE x \in ToSet(R)
    <3>1. PICK i \in DOMAIN L : x = L[i]
      BY DEF ToSet
    <3>2. i # at
      BY <1>1, <2>2, <3>1
    <3>3. PICK j \in DOMAIN R : R[j] = L[i]
      BY <1>10, <3>2
    <3> QED
      BY <3>1, <3>3 DEF ToSet
  <2> QED
    BY <2>1, <2>2
<1> QED
  BY <1>3, <1>7, <1>8, <1>11, <1>12

LEMMA PutFirst ==
  ASSUME NEW L \in Seq(Recs), \A i, j \in DOMAIN L : L[i] = L[j] => i = j,
         NEW r \in Recs, r \notin ToSet(L)
  PROVE  /\ <<r>> \o L \in Seq(Recs) /\ Len(<<r>> \o L) = Len(L) + 1
         /\ \A i, j \in DOMAIN (<<r>> \o L) : (<<r>> \o L)[i] = (<<r>> \o L)[j] => i = j
         /\ ToSet(<<r>> \o L) = ToSet(L) \union {r}
<1> DEFINE R == <<r>> \o L
<1>1. <<r>> \in Seq(Recs) /\ Len(<<r>>) = 1 /\ <<r>>[1] = r
  OBVIOUS
<1>2. DOMAIN L = 1..Len(L) /\ Len(L) \in Nat
  BY LenProperties
<1>3. /\ R \in Seq(Recs) /\ Len(R) = 1 + Len(L)
      /\ \A i \in 1 .. 1 + Len(L) : R[i] = IF i <= 1 THEN <<r>>[i] ELSE L[i - 1]
  BY <1>1, ConcatProperties
<1> HIDE DEF R
<1>4. DOMAIN R = 1 .. Len(L) + 1
  BY <1>2, <1>3, LenProperties
<1>5. R[1] = r
  BY <1>1, <1>2, <1>3
<1>6. ASSUME NEW i \in DOMAIN R, i # 1 PROVE i - 1 \in DOMAIN L /\ R[i] = L[i - 1]
  BY <1>2, <1>3, <1>4, <1>6
<1>7. ASSUME NEW i \in DOMAIN L PROVE i + 1 \in DOMAIN R /\ R[i + 1] = L[i]
  <2>1. i + 1 \in 1 .. 1 + Len(L) /\ ~(i + 1 <= 1) /\ (i + 1) - 1 = i
    BY <1>2
  <2> QED
    BY <1>3, <1>4, <2>1
<1>8. \A i \in DOMAIN L : L[i] # r
  BY DEF ToSet
<1>9. \A i, j \in DOMAIN R : R[i] = R[j] => i = j
  <2> SUFFICES ASSUME NEW i \in DOMAIN R, NEW j \in DOMAIN R, R[i] = R[j] PROVE i = j
    OBVIOUS
  <2>1. i \in Int /\ j \in Int
    BY <1>4
  <2>2. CASE i # 1 /\ j # 1
    <3>1. i - 1 = j - 1
      BY <1>6, <2>2
    <3> QED
      BY <2>1, <3>1
  <2>3. CASE i = 1 \/ j = 1
    BY <1>5, <1>6, <1>8, <2>3
  <2> QED
    BY <2>2, <2>3
<1>10. ToSet(R) = ToSet(L) \union {r}
  <2>1. ASSUME NEW x \in ToSet(R) PROVE x \in ToSet(L) \union {r}
    BY <1>5, <1>6, <2>1 DEF ToSet
  <2>2. 1 \in DOMAIN R
    BY <1>2, <1>4
  <2>3. ASSUME NEW x \in ToSet(L) \union {r} PROVE x \in ToSet(R)
    BY <1>5, <1>7, <2>2, <2>3 DEF ToSet
  <2> QED
    BY <2>1, <2>3
<1> QED
  BY <1>3, <1>9, <1>10, <1>2 DEF R
-----------------------------------------------------------------------------
(* What the calls of the pool do to memory and locks: a dump takes nothing *)
(* from a block that is locked.                                            *)
LEMMA DumpKeeps ==
  ASSUME NEW budget, NEW list, NEW used,
         NEW pointer \in [Blocks -> BOOLEAN], NEW locked \in [Blocks -> BOOLEAN],
         DumpDownTo(budget, list, used, pointer, locked)
  PROVE  /\ fLocked' = locked /\ fPointer' \in [Blocks -> BOOLEAN]
         /\ \A b \in Blocks : locked[b] /\ pointer[b] => fPointer'[b]
<1> DEFINE gone == Dumped(list, locked, used, budget)
<1>1. \A b \in gone : ~locked[b]
  BY DEF Dumped
<1>2. fLocked' = locked /\ fPointer' = [b \in Blocks |-> pointer[b] /\ b \notin gone]
  BY DEF DumpDownTo
<1> HIDE DEF gone
<1> QED
  BY <1>1, <1>2

LEMMA MakeEffect ==
  ASSUME Types, NEW b \in Blocks, PoolMake(b)
  PROVE  /\ fLocked' = [fLocked EXCEPT ![b] = TRUE] /\ fPointer' \in [Blocks -> BOOLEAN]
         /\ fPointer'[b] /\ \A c \in Blocks : fLocked[c] /\ fPointer[c] => fPointer'[c]
<1> DEFINE pointer == [fPointer EXCEPT ![b] = TRUE]
           locked == [fLocked EXCEPT ![b] = TRUE]
<1>1. pointer \in [Blocks -> BOOLEAN] /\ locked \in [Blocks -> BOOLEAN]
  BY DEF Types, RecTypes
<1>2. DumpDownTo(fBudget, <<b>> \o fList, fUsed + Bytes[b], pointer, locked)
  BY DEF PoolMake
<1>3. /\ fLocked' = locked /\ fPointer' \in [Blocks -> BOOLEAN]
      /\ \A c \in Blocks : locked[c] /\ pointer[c] => fPointer'[c]
  BY <1>1, <1>2, DumpKeeps
<1> QED
  BY <1>3 DEF Types, RecTypes

LEMMA UnlockEffect ==
  ASSUME Types, NEW b \in Blocks, PoolUnlock(b)
  PROVE  /\ fLocked' = [fLocked EXCEPT ![b] = FALSE] /\ fPointer' \in [Blocks -> BOOLEAN]
         /\ \A c \in Blocks : c # b /\ fLocked[c] /\ fPointer[c] => fPointer'[c]
<1> DEFINE locked == [fLocked EXCEPT ![b] = FALSE]
<1>1. locked \in [Blocks -> BOOLEAN] /\ fPointer \in [Blocks -> BOOLEAN]
  BY DEF Types, RecTypes
<1>2. DumpDownTo(fBudget, fList, fUsed, fPointer, locked)
  BY DEF PoolUnlock
<1>3. /\ fLocked' = locked /\ fPointer' \in [Blocks -> BOOLEAN]
      /\ \A c \in Blocks : locked[c] /\ fPointer[c] => fPointer'[c]
  BY <1>1, <1>2, DumpKeeps
<1> QED
  BY <1>3 DEF Types, RecTypes

LEMMA RemoveEffect ==
  ASSUME Types, NEW b \in Blocks, PoolRemove(b)
  PROVE  /\ fLocked' = fLocked /\ fPointer' = [fPointer EXCEPT ![b] = FALSE]
BY DEF PoolRemove

(* The memory of a block that has it is locked; of one that has lost it,   *)
(* nothing changes.                                                        *)
LEMMA LockEffect ==
  ASSUME Types, NEW b \in Blocks, fPointer[b], PoolLock(b)
  PROVE  fLocked' = [fLocked EXCEPT ![b] = TRUE] /\ fPointer' = fPointer
BY DEF PoolLock
-----------------------------------------------------------------------------
(* Who has a record.                                                       *)
LEMMA Names ==
  /\ Recs = Blocks /\ Bitmaps \subseteq Recs /\ Datas \subseteq Recs
  /\ \A r \in Recs : r \in Bitmaps <=> r \notin Datas
  /\ None \notin Recs /\ None \notin Images /\ None \notin Threads /\ None \notin Keys
BY CacheAssumption DEF Recs

LEMMA UsersFinite ==
  ASSUME NEW r
  PROVE  IsFiniteSet(Owners(r)) /\ IsFiniteSet(Builders(r)) /\ IsFiniteSet(Users(r))
<1>1. Owners(r) \subseteq Threads /\ Builders(r) \subseteq Threads /\ Users(r) \subseteq Threads
  BY DEF Owners, Builders, Users
<1> QED
  BY <1>1, CacheAssumption, FS_Subset

LEMMA NobodyHolds ==
  ASSUME Types, NEW r \in Bitmaps, Counted(r), CanBePurged(r)
  PROVE  Owners(r) = {}
<1>1. fExternalCounter[r] = 0 /\ fExternalCounter[r] = Cardinality(Owners(r))
  BY Names DEF Counted, CanBePurged
<1> QED
  BY <1>1, UsersFinite, FS_EmptySet

(* A bitmap that cannot be installed is nobody's.                          *)
LEMMA FailsUnheld ==
  ASSUME Types, NEW r \in Bitmaps, Counted(r), ~Installs(r)
  PROVE  Owners(r) = {}
BY Names DEF Counted, Installs, Users, Types, RecTypes

(* The hash leads to records of the list only.                             *)
LEMMA HashedIsListed ==
  ASSUME Types, ListsAgree, NEW k \in Keys, fHash[k] # None
  PROVE  fHash[k] \in Recs /\ fHash[k] \in Listed /\ KeyOf(fHash[k]) = k /\ fKey[fHash[k]] # None
<1>1. fHash[k] \in Recs /\ KeyOf(fHash[k]) = k
  BY DEF Types, RecTypes, ListsAgree
<1>2. fKey[fHash[k]] # None
  BY <1>1, Names DEF KeyOf, Keys
<1> QED
  BY <1>1, <1>2 DEF ListsAgree

LEMMA KeyIsKey ==
  ASSUME Types, NEW r \in Recs, fKey[r] # None
  PROVE  KeyOf(r) \in Keys
BY DEF Types, RecTypes, KeyOf, Keys, Kinds, Kind

(* A record is as it was.                                                  *)
Same(r) ==
  /\ Owners(r)' = Owners(r) /\ Builders(r)' = Builders(r)
  /\ fLocked'[r] = fLocked[r]
  /\ fLocked[r] /\ fPointer[r] => fPointer'[r]
  /\ r \in Bitmaps =>
       /\ fExternalCounter'[r] = fExternalCounter[r]
       /\ fDM'[r] = fDM[r]
       /\ fDiscardableIsLocked'[r] = fDiscardableIsLocked[r]
  /\ r \in Datas =>
       /\ fIsLocked'[r] = fIsLocked[r] /\ fData'[r] = fData[r]
       /\ fRefCnt'[r] = fRefCnt[r] /\ fInCache'[r] = fInCache[r]

LEMMA SameCounted ==
  ASSUME NEW r \in Recs, Counted(r), Same(r)
  PROVE  Counted(r)'
<1>1. Users(r)' = Users(r)
  BY DEF Same, Users
<1> QED
  BY <1>1 DEF Counted, Same

(* Who has the records, when nobody takes or gives up one.                 *)
LEMMA SameUsers ==
  ASSUME UNCHANGED <<made, holds>>,
         \A u \in Threads : pc'[u] = "destroy" <=> pc[u] = "destroy"
  PROVE  \A r : Owners(r)' = Owners(r) /\ Builders(r)' = Builders(r)
BY DEF Owners, Builders

LEMMA SameMade ==
  ASSUME MadeAlone, UNCHANGED <<made, holds>>, Listed' \subseteq Listed,
         \A u \in Threads : pc'[u] = "destroy" <=> pc[u] = "destroy",
         \A u \in Threads : made[u] # None =>
           /\ fKey'[made[u]] = fKey[made[u]]
           /\ made[u] \in Bitmaps => fDM'[made[u]] = fDM[made[u]]
           /\ made[u] \notin Bitmaps => fInCache'[made[u]] = fInCache[made[u]]
  PROVE  MadeAlone'
BY DEF MadeAlone

(* Where the other threads are, when one that has the mutex takes a step,  *)
(* and when the mutex and the cache are left alone.                        *)
LEMMA OthersPlaced ==
  ASSUME NEW t \in Threads, NEW u \in Threads, u # t, Place(u),
         pc'[u] = pc[u], made'[u] = made[u], holds'[u] = holds[u], want'[u] = want[u],
         \/ owner \in {t, None}
         \/ UNCHANGED <<owner, cur, fLru, fHash>> /\ KeyOf(made[u])' = KeyOf(made[u])
  PROVE  Place(u)'
<1>1. CASE owner \in {t, None}
  <2>1. u # None
    BY Names
  <2>2. pc[u] \notin {"sweep", "find", "add", "reuse", "purge", "purgeAll"}
    BY <1>1, <2>1 DEF Place
  <2> QED
    BY <2>2 DEF Place
<1>2. CASE UNCHANGED <<owner, cur, fLru, fHash>> /\ KeyOf(made[u])' = KeyOf(made[u])
  <2>1. fHash[KeyOf(made[u])]' = fHash[KeyOf(made[u])]
    BY <1>2
  <2> QED
    BY <1>2, <2>1 DEF Place
<1> QED
  BY <1>1, <1>2
-----------------------------------------------------------------------------
(* No record changes; the pool may take away what is unlocked.             *)
LEMMA QuietKeeps ==
  ASSUME RecInv, UNCHANGED <<dataVars, recVars, fLru, fHash, made, holds>>,
         fLocked' = fLocked,
         \A b \in Blocks : fLocked[b] /\ fPointer[b] => fPointer'[b],
         \A u \in Threads : pc'[u] = "destroy" <=> pc[u] = "destroy"
  PROVE  RecInv'
<1> USE DEF RecInv
<1>1. Listed' = Listed
  BY DEF Listed
<1>2. MadeAlone'
  BY <1>1, SameMade DEF recVars, dataVars
<1>3. HeldExists'
  BY <1>1 DEF HeldExists, recVars
<1>4. ListsAgree'
  <2>1. \A r : KeyOf(r)' = KeyOf(r)
    BY DEF KeyOf, recVars
  <2> QED
    BY <1>1, <2>1 DEF ListsAgree, recVars, dataVars
<1>5. ASSUME NEW r \in Recs PROVE Counted(r)'
  <2>1. Same(r)
    BY SameUsers, Names DEF Same, recVars, dataVars
  <2> QED
    BY <2>1, SameCounted DEF AllCounted
<1> QED
  BY <1>2, <1>3, <1>4, <1>5 DEF AllCounted

(* A record leaves the list and the hash.                                  *)
LEMMA ListsShrink ==
  ASSUME Types, ListsAgree, NEW r \in Listed, r \in Recs,
         fLru' = Unlisted(fLru, r),
         fHash' = [fHash EXCEPT ![KeyOf(r)] = None],
         fKey' \in [Recs -> Images \union {None}],
         \A q \in Recs \ {r} : fKey'[q] = fKey[q],
         \A d \in Datas \ {r} : fInCache'[d] = fInCache[d]
  PROVE  /\ ListsAgree' /\ Listed' = Listed \ {r} /\ Len(fLru') = Len(fLru) - 1
         /\ fLru' \in Seq(Recs) /\ fHash' \in [Keys -> Recs \union {None}]
<1>1. /\ fLru' \in Seq(Recs) /\ Listed' = Listed \ {r} /\ Len(fLru') = Len(fLru) - 1
      /\ \A i, j \in DOMAIN fLru' : fLru'[i] = fLru'[j] => i = j
  BY UnlistedList DEF Types, RecTypes, ListsAgree, Listed
<1>2. fHash' \in [Keys -> Recs \union {None}]
  BY DEF Types, RecTypes
<1>3. fKey[r] # None /\ fHash[KeyOf(r)] = r /\ KeyOf(r) \in Keys
  BY KeyIsKey DEF ListsAgree
<1>4. \A q \in Recs \ {r} : KeyOf(q)' = KeyOf(q)
  BY DEF KeyOf
<1>5. fHash'[KeyOf(r)] = None
  BY <1>3 DEF Types, RecTypes
<1>6. \A k \in Keys : k # KeyOf(r) => fHash'[k] = fHash[k]
  BY DEF Types, RecTypes
<1>7. ASSUME NEW q \in Recs
      PROVE  q \in Listed' <=> fKey'[q] # None /\ fHash'[KeyOf(q)'] = q
  <2>1. CASE q = r
    <3>1. ASSUME fKey'[q] # None, fHash'[KeyOf(q)'] = q PROVE FALSE
      <4>4. KeyOf(q)' \in Keys
        BY <3>1 DEF KeyOf, Keys, Kinds, Kind
      <4>1. KeyOf(q)' # KeyOf(r)
        BY <1>5, <2>1, <3>1, Names
      <4>2. fHash[KeyOf(q)'] = r
        BY <1>6, <2>1, <3>1, <4>1, <4>4
      <4>3. KeyOf(r) = KeyOf(q)'
        BY <2>1, <3>1, <4>2, <4>4, Names DEF ListsAgree
      <4> QED
        BY <4>1, <4>3
    <3> QED
      BY <1>1, <2>1, <3>1
  <2>2. CASE q # r
    <3>1. q \in Listed' <=> fKey[q] # None /\ fHash[KeyOf(q)] = q
      BY <1>1, <2>2 DEF ListsAgree
    <3>2. fKey'[q] = fKey[q] /\ KeyOf(q)' = KeyOf(q)
      BY <1>4, <2>2
    <3>3. CASE fKey[q] = None
      BY <3>1, <3>2, <3>3
    <3>4. CASE fKey[q] # None
      <4>1. KeyOf(q) \in Keys
        BY <3>4, KeyIsKey
      <4>2. fHash'[KeyOf(q)] = q <=> fHash[KeyOf(q)] = q
        BY <1>3, <1>5, <1>6, <2>2, <4>1, Names
      <4> QED
        BY <3>1, <3>2, <4>2
    <3> QED
      BY <3>3, <3>4
  <2> QED
    BY <2>1, <2>2
<1>8. ASSUME NEW k \in Keys, fHash'[k] # None PROVE KeyOf(fHash[k])' = k
  <2>1. k # KeyOf(r) /\ fHash'[k] = fHash[k] /\ fHash[k] # None
    BY <1>5, <1>6, <1>8
  <2>2. KeyOf(fHash[k]) = k /\ fHash[k] \in Recs
    BY <2>1 DEF ListsAgree, Types, RecTypes
  <2>3. fHash[k] # r
    BY <2>1, <2>2
  <2>4. fKey'[fHash[k]] = fKey[fHash[k]]
    BY <2>2, <2>3
  <2> QED
    BY <2>1, <2>2, <2>4 DEF KeyOf
<1>9. \A d \in Datas : d \in Listed' => fInCache'[d]
  BY <1>1 DEF ListsAgree
<1> QED
  <2>1. ListsAgree'
    BY <1>1, <1>7, <1>8, <1>9 DEF ListsAgree
  <2> QED
    BY <1>1, <1>2, <2>1

(* remove() of a record of the list, a bitmap that nobody has.             *)
LEMMA RemovedKeeps ==
  ASSUME Types, RecInv, NEW r \in Recs, r \in Listed, RemoveRec(r),
         r \in Bitmaps => Owners(r) = {}, UNCHANGED <<made, holds>>,
         \A u \in Threads : pc'[u] = "destroy" <=> pc[u] = "destroy"
  PROVE  RecTypes' /\ RecInv' /\ Len(fLru') = Len(fLru) - 1
<1> USE DEF RecInv
<1>1. r \in Blocks /\ fKey[r] # None /\ \A u \in Threads : made[u] # r
  BY Names DEF ListsAgree, MadeAlone
<1>2. Counted(r) /\ Builders(r) = {}
  BY <1>1 DEF AllCounted, Builders
(* What deleting it changes: of others, nothing. *)
<1>3. /\ fPointer' \in [Blocks -> BOOLEAN] /\ fLocked' = fLocked /\ DataTypeOK'
      /\ fKey' \in [Recs -> Images \union {None}] /\ fDM' \in [Bitmaps -> BOOLEAN]
      /\ fDiscardableIsLocked' = fDiscardableIsLocked /\ fExternalCounter' = fExternalCounter
      /\ \A q \in Recs \ {r} : fKey'[q] = fKey[q] /\ fPointer'[q] = fPointer[q]
      /\ \A q \in Bitmaps \ {r} : fDM'[q] = fDM[q]
      /\ \A q \in Datas \ {r} : /\ fRefCnt'[q] = fRefCnt[q] /\ fInCache'[q] = fInCache[q]
                                /\ fIsLocked'[q] = fIsLocked[q] /\ fData'[q] = fData[q]
      /\ Counted(r)'
      /\ fKey'[r] \in {None, fKey[r]}
      /\ r \in Datas => Owners(r) = {} \/ fKey'[r] = fKey[r]
  <2>1. CASE r \in Bitmaps
    <3>1. /\ PoolRemove(r) /\ fKey' = [fKey EXCEPT ![r] = None] /\ fDM' = [fDM EXCEPT ![r] = FALSE]
          /\ UNCHANGED <<fDiscardableIsLocked, fExternalCounter, dataVars>>
      BY <2>1 DEF RemoveRec, DeleteRec
    <3>2. fLocked' = fLocked /\ fPointer' = [fPointer EXCEPT ![r] = FALSE]
      BY <1>1, <3>1, RemoveEffect
    <3>3. ~fLocked[r] /\ Users(r) = {} /\ fExternalCounter[r] = Cardinality(Owners(r))
          /\ fDiscardableIsLocked[r] = fLocked[r]
      BY <1>2, <2>1 DEF Counted, Users
    <3>4. Owners(r)' = {} /\ Users(r)' = {}
      BY <1>2, <2>1, SameUsers DEF Users
    <3>5. Counted(r)'
      BY <2>1, <3>1, <3>2, <3>3, <3>4, Names DEF Counted
    <3>6. DataTypeOK'
      BY <3>1 DEF Types, RecTypes, DataTypeOK, dataVars
    <3>7. \A q \in Datas \ {r} : /\ fRefCnt'[q] = fRefCnt[q] /\ fInCache'[q] = fInCache[q]
                                 /\ fIsLocked'[q] = fIsLocked[q] /\ fData'[q] = fData[q]
      BY <3>1 DEF dataVars
    <3>8. /\ fPointer' \in [Blocks -> BOOLEAN] /\ fLocked' = fLocked
          /\ \A q \in Recs \ {r} : fPointer'[q] = fPointer[q]
      BY <3>2, Names DEF Types, RecTypes
    <3>9. /\ fKey' \in [Recs -> Images \union {None}] /\ fDM' \in [Bitmaps -> BOOLEAN]
          /\ fDiscardableIsLocked' = fDiscardableIsLocked
          /\ fExternalCounter' = fExternalCounter
          /\ \A q \in Recs \ {r} : fKey'[q] = fKey[q]
          /\ \A q \in Bitmaps \ {r} : fDM'[q] = fDM[q]
          /\ fKey'[r] = None
      BY <3>1 DEF Types, RecTypes
    <3>10. r \notin Datas
      BY <2>1, Names
    <3> QED
      BY <3>5, <3>6, <3>7, <3>8, <3>9, <3>10
  <2>2. CASE r \notin Bitmaps
    <3>1. r \in Datas /\ fInCache[r]
      BY <2>2, Names DEF ListsAgree
    <3>2. /\ UnrefCounts(r, TRUE)
          /\ IF fRefCnt[r] = 1 THEN PoolRemove(r) /\ fKey' = [fKey EXCEPT ![r] = None]
             ELSE UNCHANGED <<poolVars, fKey>>
          /\ UNCHANGED <<fDM, fDiscardableIsLocked, fExternalCounter>>
      BY <2>2 DEF RemoveRec, DeleteRec, UnrefUnlocks
    <3>3. fRefCnt[r] \in Nat /\ fRefCnt[r] = Cardinality(Users(r)) + 1
          /\ fIsLocked[r] = fLocked[r] /\ fData[r] = fLocked[r]
          /\ Users(r) = Owners(r) /\ Cardinality(Users(r)) \in Nat
      BY <1>2, <3>1, UsersFinite, FS_CardinalityType DEF Counted, Users, Types, RecTypes, DataTypeOK
    <3>4. fRefCnt[r] = 1 => Users(r) = {} /\ ~fLocked[r]
      BY <1>2, <3>3, UsersFinite, FS_EmptySet DEF Counted
    <3>5. /\ fRefCnt' = [fRefCnt EXCEPT ![r] = @ - 1]
          /\ fInCache' = [fInCache EXCEPT ![r] = FALSE]
          /\ fIsLocked' = fIsLocked /\ fData' = fData
      <4>1. ~UnrefUnlocks(r, TRUE)
        BY <3>3, <3>4 DEF UnrefUnlocks
      <4>2. /\ fRefCnt' = [fRefCnt EXCEPT ![r] = @ - 1]
            /\ fInCache' = [fInCache EXCEPT ![r] = @ /\ ~TRUE]
            /\ fIsLocked' = [fIsLocked EXCEPT ![r] = @ /\ ~FALSE]
            /\ fData' = [fData EXCEPT ![r] = @ /\ ~FALSE]
        BY <3>2, <4>1 DEF UnrefCounts
      <4>3. fIsLocked \in [Datas -> BOOLEAN] /\ fData \in [Datas -> BOOLEAN]
        BY DEF Types, RecTypes, DataTypeOK
      <4>4. fIsLocked' = fIsLocked
        BY <3>1, <4>2, <4>3
      <4>5. fData' = fData
        BY <3>1, <4>2, <4>3
      <4>6. fInCache' = [fInCache EXCEPT ![r] = FALSE]
        BY <4>2
      <4> QED
        BY <4>2, <4>4, <4>5, <4>6
    <3>6. fLocked' = fLocked /\ fPointer' \in [Blocks -> BOOLEAN]
          /\ (fLocked[r] => fPointer'[r])
          /\ \A q \in Blocks \ {r} : fPointer'[q] = fPointer[q]
      <4>1. CASE fRefCnt[r] = 1
        BY <1>1, <3>2, <3>4, <4>1, RemoveEffect DEF Types, RecTypes
      <4>2. CASE fRefCnt[r] # 1
        BY <1>2, <3>2, <4>2 DEF poolVars, Types, RecTypes, Counted
      <4> QED
        BY <4>1, <4>2
    <3>7. Users(r)' = Users(r)
      BY SameUsers DEF Users
    <3>8. fRefCnt'[r] = Cardinality(Users(r)) /\ ~fInCache'[r]
      BY <3>1, <3>3, <3>5 DEF Types, RecTypes, DataTypeOK
    <3>9. Counted(r)'
      BY <1>2, <2>2, <3>3, <3>5, <3>6, <3>7, <3>8, UsersFinite, FS_CardinalityType DEF Counted
    <3>10. DataTypeOK'
      BY <3>1, <3>3, <3>5 DEF Types, RecTypes, DataTypeOK
    <3>11. \A q \in Datas \ {r} : /\ fRefCnt'[q] = fRefCnt[q] /\ fInCache'[q] = fInCache[q]
                                  /\ fIsLocked'[q] = fIsLocked[q] /\ fData'[q] = fData[q]
      BY <3>5 DEF Types, RecTypes, DataTypeOK
    <3>12. /\ fKey' \in [Recs -> Images \union {None}]
           /\ \A q \in Recs \ {r} : fKey'[q] = fKey[q]
           /\ fKey'[r] \in {None, fKey[r]}
           /\ r \in Datas => Owners(r) = {} \/ fKey'[r] = fKey[r]
      <4>1. CASE fRefCnt[r] = 1
        <5>1. fKey' = [fKey EXCEPT ![r] = None] /\ Owners(r) = {}
          BY <3>2, <3>3, <3>4, <4>1
        <5> QED
          BY <5>1 DEF Types, RecTypes
      <4>2. CASE fRefCnt[r] # 1
        BY <3>1, <3>2, <4>2 DEF Types, RecTypes
      <4> QED
        BY <4>1, <4>2
    <3>13. /\ fDM' \in [Bitmaps -> BOOLEAN] /\ \A q \in Bitmaps \ {r} : fDM'[q] = fDM[q]
           /\ fDiscardableIsLocked' = fDiscardableIsLocked
           /\ fExternalCounter' = fExternalCounter
      BY <3>2 DEF Types, RecTypes
    <3>14. \A q \in Recs \ {r} : fPointer'[q] = fPointer[q]
      BY <3>6, Names
    <3> QED
      BY <3>6, <3>9, <3>10, <3>11, <3>12, <3>13, <3>14
  <2> QED
    BY <2>1, <2>2
<1>4. /\ ListsAgree' /\ Listed' = Listed \ {r} /\ Len(fLru') = Len(fLru) - 1
      /\ fLru' \in Seq(Recs) /\ fHash' \in [Keys -> Recs \union {None}]
  BY <1>3, ListsShrink DEF RemoveRec
<1>5. RecTypes'
  BY <1>3, <1>4 DEF Types, RecTypes
<1>6. MadeAlone'
  <2>1. \A u \in Threads : made[u] # None => made[u] \in Recs \ {r}
    BY <1>1 DEF Types, ThreadTypes
  <2> QED
    BY <1>3, <1>4, <2>1, SameMade, Names
<1>7. HeldExists'
  <2>1. ASSUME NEW u \in Threads, holds[u] # None
        PROVE  fKey'[holds[u]] # None /\ (holds[u] \in Bitmaps => holds[u] \in Listed')
    <3>1. CASE holds[u] = r
      <4>1. Owners(r) # {}
        BY <3>1 DEF Owners
      <4> QED
        BY <1>1, <1>3, <3>1, <4>1, Names
    <3>2. CASE holds[u] # r
      BY <1>3, <1>4, <2>1, <3>2 DEF HeldExists, Types, ThreadTypes
    <3> QED
      BY <3>1, <3>2
  <2> QED
    BY <2>1 DEF HeldExists
<1>8. ASSUME NEW q \in Recs PROVE Counted(q)'
  <2>1. CASE q = r
    BY <1>3, <2>1
  <2>2. CASE q # r
    <3>1. Same(q)
      BY <1>3, <2>2, SameUsers DEF Same
    <3> QED
      BY <3>1, SameCounted DEF AllCounted
  <2> QED
    BY <2>1, <2>2
<1> QED
  BY <1>4, <1>5, <1>6, <1>7, <1>8 DEF AllCounted
-----------------------------------------------------------------------------
(* A thread that had nothing gets a bitmap, or a mip map.                  *)
LEMMA InstallEffect ==
  ASSUME Types, NEW r \in Bitmaps, Counted(r), Install(r)
  PROVE  /\ fLocked' = [fLocked EXCEPT ![r] = TRUE] /\ fPointer' = fPointer /\ fPointer[r]
         /\ fDM' = fDM /\ fDM[r]
         /\ fDiscardableIsLocked' = [fDiscardableIsLocked EXCEPT ![r] = TRUE]
         /\ fExternalCounter' = [fExternalCounter EXCEPT ![r] = fExternalCounter[r] + 1]
<1>1. r \in Blocks /\ fDiscardableIsLocked[r] = fLocked[r] /\ (fLocked[r] => fPointer[r])
  BY Names DEF Counted
<1>2. fDM[r] /\ fPointer[r]
  BY <1>1 DEF Install, Installs
<1>3. fLocked' = [fLocked EXCEPT ![r] = TRUE] /\ fPointer' = fPointer
  <2>1. CASE fDiscardableIsLocked[r]
    BY <1>1, <2>1 DEF Install, poolVars, Types, RecTypes
  <2>2. CASE ~fDiscardableIsLocked[r]
    BY <1>1, <1>2, <2>2, LockEffect DEF Install
  <2> QED
    BY <2>1, <2>2
<1> QED
  BY <1>2, <1>3 DEF Install

LEMMA RefEffect ==
  ASSUME Types, NEW r \in Datas, Counted(r), DataAfterRef(r), Ref(r)
  PROVE  /\ fLocked' = [fLocked EXCEPT ![r] = TRUE] /\ fPointer' = fPointer /\ fPointer[r]
         /\ fIsLocked' = [fIsLocked EXCEPT ![r] = TRUE]
         /\ fData' = [fData EXCEPT ![r] = TRUE]
         /\ fRefCnt' = [fRefCnt EXCEPT ![r] = fRefCnt[r] + 1] /\ fInCache' = fInCache
<1>1. r \in Blocks /\ fIsLocked[r] = fLocked[r] /\ fData[r] = fLocked[r]
      /\ (fLocked[r] => fPointer[r])
  BY Names DEF Counted
<1>2. CASE RefLocks(r)
  <2>1. fPointer[r] = TRUE
    BY <1>1, <1>2 DEF DataAfterRef, Types, RecTypes
  <2>2. fLocked' = [fLocked EXCEPT ![r] = TRUE] /\ fPointer' = fPointer
    BY <1>1, <1>2, <2>1, LockEffect DEF Ref
  <2> QED
    BY <1>2, <2>1, <2>2 DEF Ref
<1>3. CASE ~RefLocks(r)
  <2>1. fData[r] /\ fLocked[r] /\ fIsLocked[r] /\ fPointer[r]
    BY <1>1, <1>3 DEF DataAfterRef
  <2> QED
    BY <1>1, <1>3, <2>1 DEF Ref, poolVars, Types, RecTypes, DataTypeOK
<1> QED
  BY <1>2, <1>3

LEMMA Joined ==
  ASSUME NEW t \in Threads, NEW r, holds \in [Threads -> Recs \union {None}],
         holds[t] # r, Owners(r)' = Owners(r) \union {t}
  PROVE  /\ Cardinality(Owners(r)') = Cardinality(Owners(r)) + 1
         /\ Cardinality(Owners(r)) \in Nat
<1>1. t \notin Owners(r)
  BY DEF Owners
<1> QED
  BY <1>1, UsersFinite, FS_AddElement, FS_CardinalityType

LEMMA JoinKeeps ==
  ASSUME Types, RecInv, NEW t \in Threads, NEW r \in Recs, holds[t] = None,
         holds' = [holds EXCEPT ![t] = r], made' = made,
         \A u \in Threads : pc'[u] = "destroy" <=> pc[u] = "destroy",
         fKey[r] # None, r \in Bitmaps => r \in Listed, \A u \in Threads : made[u] # r,
         r \in Bitmaps => Install(r) /\ UNCHANGED dataVars,
         r \in Datas => /\ DataAfterRef(r) /\ Ref(r)
                        /\ UNCHANGED <<fDM, fDiscardableIsLocked, fExternalCounter>>,
         UNCHANGED <<fKey, fHash>>, fLru' \in Seq(Recs), Listed' = Listed,
         \A i, j \in DOMAIN fLru' : fLru'[i] = fLru'[j] => i = j
  PROVE  RecTypes' /\ RecInv'
<1> USE DEF RecInv
<1>1. r \in Blocks /\ Counted(r) /\ r # None
  BY Names DEF AllCounted
<1>2. /\ fLocked' = [fLocked EXCEPT ![r] = TRUE] /\ fPointer' = fPointer /\ fPointer[r]
      /\ fDM' = fDM /\ fInCache' = fInCache
  <2>1. CASE r \in Bitmaps
    BY <1>1, <2>1, InstallEffect DEF dataVars
  <2>2. CASE r \in Datas
    BY <1>1, <2>2, RefEffect
  <2> QED
    BY <2>1, <2>2, Names
<1>3. /\ Owners(r)' = Owners(r) \union {t} /\ Builders(r) = {} /\ Builders(r)' = {}
      /\ \A q \in Recs \ {r} : Owners(q)' = Owners(q) /\ Builders(q)' = Builders(q)
  BY Names DEF Owners, Builders, Types, ThreadTypes
<1>4. Cardinality(Owners(r)') = Cardinality(Owners(r)) + 1 /\ Cardinality(Owners(r)) \in Nat
  BY <1>1, <1>3, Joined DEF Types, ThreadTypes
<1>5. Users(r) = Owners(r) /\ Users(r)' = Owners(r)'
  BY <1>3 DEF Users
<1>6. Users(r)' # {}
  BY <1>3, <1>5
<1>7. RecTypes'
  <2>1. CASE r \in Bitmaps
    <3>1. /\ fDiscardableIsLocked' = [fDiscardableIsLocked EXCEPT ![r] = TRUE]
          /\ fExternalCounter' = [fExternalCounter EXCEPT ![r] = fExternalCounter[r] + 1]
      BY <1>1, <2>1, InstallEffect
    <3>2. fExternalCounter' \in [Bitmaps -> Nat] /\ fDiscardableIsLocked' \in [Bitmaps -> BOOLEAN]
      BY <2>1, <3>1 DEF Types, RecTypes
    <3>3. DataTypeOK'
      BY <2>1 DEF Types, RecTypes, DataTypeOK, dataVars
    <3> QED
      BY <1>2, <3>2, <3>3 DEF Types, RecTypes
  <2>2. CASE r \in Datas
    <3>1. /\ fIsLocked' = [fIsLocked EXCEPT ![r] = TRUE] /\ fData' = [fData EXCEPT ![r] = TRUE]
          /\ fRefCnt' = [fRefCnt EXCEPT ![r] = fRefCnt[r] + 1]
      BY <1>1, <2>2, RefEffect
    <3>2. DataTypeOK'
      BY <1>2, <2>2, <3>1 DEF Types, RecTypes, DataTypeOK
    <3> QED
      BY <1>2, <2>2, <3>2 DEF Types, RecTypes
  <2> QED
    BY <2>1, <2>2, Names
<1>8. Counted(r)'
  <2>1. fLocked'[r] = TRUE /\ fPointer'[r]
    BY <1>1, <1>2 DEF Types, RecTypes
  <2>2. CASE r \in Bitmaps
    <3>1. fDM'[r] /\ fDiscardableIsLocked'[r] = TRUE /\ r \notin Datas
          /\ fExternalCounter'[r] = Cardinality(Owners(r)) + 1
      BY <1>1, <2>2, InstallEffect, Names DEF Types, RecTypes, Counted
    <3> QED
      BY <1>4, <1>6, <2>1, <3>1 DEF Counted
  <2>3. CASE r \in Datas
    <3>1. fIsLocked'[r] = TRUE /\ fData'[r] = TRUE /\ r \notin Bitmaps
          /\ fRefCnt'[r] = fRefCnt[r] + 1 /\ fInCache'[r] = fInCache[r]
      BY <1>1, <2>3, RefEffect, Names DEF Types, RecTypes, DataTypeOK
    <3>2. fRefCnt[r] = Cardinality(Owners(r)) + IF fInCache[r] THEN 1 ELSE 0
      BY <1>1, <1>5, <2>3 DEF Counted
    <3>3. fRefCnt'[r] = Cardinality(Users(r)') + IF fInCache'[r] THEN 1 ELSE 0
      BY <1>4, <1>5, <3>1, <3>2
    <3> QED
      BY <1>6, <2>1, <3>1, <3>3 DEF Counted
  <2> QED
    BY <2>2, <2>3, Names
<1>9. ASSUME NEW q \in Recs \ {r} PROVE Counted(q)'
  <2>1. q \in Bitmaps => /\ fExternalCounter'[q] = fExternalCounter[q]
                         /\ fDiscardableIsLocked'[q] = fDiscardableIsLocked[q]
    BY <1>1, InstallEffect, Names DEF Types, RecTypes
  <2>2. q \in Datas => /\ fIsLocked'[q] = fIsLocked[q] /\ fData'[q] = fData[q]
                       /\ fRefCnt'[q] = fRefCnt[q]
    BY <1>1, RefEffect, Names DEF Types, RecTypes, DataTypeOK, dataVars
  <2>3. Same(q)
    BY <1>2, <1>3, <2>1, <2>2, Names DEF Same, Types, RecTypes
  <2> QED
    BY <2>3, SameCounted DEF AllCounted
<1>10. MadeAlone'
  <2>1. \A u \in Threads : made[u] # None => \A v \in Threads : holds'[v] # made[u]
    BY <1>1 DEF MadeAlone, Types, ThreadTypes
  <2> QED
    BY <1>2, <2>1 DEF MadeAlone
<1>11. HeldExists'
  BY DEF HeldExists, Types, ThreadTypes
<1>12. ListsAgree'
  <2>1. \A q : KeyOf(q)' = KeyOf(q)
    BY DEF KeyOf
  <2> QED
    BY <1>2, <2>1 DEF ListsAgree
<1> QED
  BY <1>7, <1>8, <1>9, <1>10, <1>11, <1>12 DEF AllCounted
-----------------------------------------------------------------------------
(* The steps, one by one.                                                  *)
LEMMA InitHolds == ASSUME Init PROVE CacheInv
<1> USE DEF Init, PoolInit, DataInit
<1>1. Types
  BY Names DEF Types, RecTypes, ThreadTypes, DataTypeOK, Labels
<1>2. Places
  BY DEF Places, Place
<1>3. Listed = {}
  BY DEF Listed, ToSet
<1>4. MadeAlone /\ HeldExists
  BY DEF MadeAlone, HeldExists
<1>5. ListsAgree
  BY <1>3, Names DEF ListsAgree
<1>6. ASSUME NEW r \in Recs PROVE Counted(r)
  <2>1. Owners(r) = {} /\ Users(r) = {}
    BY <1>6, Names DEF Owners, Builders, Users
  <2>2. Cardinality(Owners(r)) = 0 /\ Cardinality(Users(r)) = 0
    BY <2>1, FS_EmptySet
  <2>3. fLocked[r] = FALSE
    BY <1>6, Names
  <2>4. r \in Bitmaps => fExternalCounter[r] = 0 /\ fDiscardableIsLocked[r] = FALSE
    BY <1>6
  <2>5. r \in Datas => /\ fRefCnt[r] = 0 /\ fInCache[r] = FALSE
                       /\ fIsLocked[r] = FALSE /\ fData[r] = FALSE
    BY <1>6
  <2> HIDE DEF Init, PoolInit, DataInit
  <2>6. r \in Bitmaps =>
          /\ fExternalCounter[r] = Cardinality(Owners(r)) /\ (Owners(r) # {} => fDM[r])
          /\ fDiscardableIsLocked[r] = fLocked[r]
    BY ONLY <2>1, <2>2, <2>3, <2>4
  <2>7. r \in Datas =>
          /\ fIsLocked[r] = fLocked[r] /\ fData[r] = fLocked[r]
          /\ fRefCnt[r] = Cardinality(Users(r)) + IF fInCache[r] THEN 1 ELSE 0
    <3>1. r \in Datas => fIsLocked[r] = fLocked[r] /\ fData[r] = fLocked[r]
      BY ONLY <2>3, <2>5, Zenon
    <3>2. r \in Datas => fRefCnt[r] = 0 /\ ~fInCache[r] /\ Cardinality(Users(r)) = 0
      BY ONLY <2>2, <2>5
    <3>3. r \in Datas => fRefCnt[r] = Cardinality(Users(r)) + IF fInCache[r] THEN 1 ELSE 0
      BY ONLY <3>2
    <3> QED
      BY ONLY <3>1, <3>3
  <2> QED
    BY ONLY <2>1, <2>3, <2>6, <2>7 DEF Counted
<1> QED
  BY <1>1, <1>2, <1>4, <1>5, <1>6 DEF CacheInv, RecInv, AllCounted

LEMMA EnterKeeps ==
  ASSUME CacheInv, NEW t \in Threads, NEW key \in Keys \union {None}, Enter(t, key)
  PROVE  CacheInv'
<1> USE DEF CacheInv
<1>1. /\ owner = None /\ owner' = t /\ want' = [want EXCEPT ![t] = key]
      /\ cur' = Len(fLru) /\ pc[t] \in {"idle", "built"}
      /\ (made[t] = None => pc[t] = "idle" /\ key \in Keys)
      /\ (made[t] # None => pc[t] = "built")
      /\ UNCHANGED <<poolVars, dataVars, recVars, cacheVars, made, holds>>
      /\ Task(t) = IF made[t] = None THEN "find" ELSE "add"
  BY DEF Enter, Task
<1>2. PICK label \in {"sweep", "find", "add"} :
        /\ pc' = [pc EXCEPT ![t] = label]
        /\ label = "sweep" => fLru # <<>>
        /\ label # "sweep" => label = IF made[t] = None THEN "find" ELSE "add"
  BY <1>1 DEF Enter, Goes
<1>3. Len(fLru) \in Nat /\ (fLru # <<>> => Len(fLru) \in DOMAIN fLru)
  BY LenProperties, EmptySeq DEF Types, RecTypes
<1>4. ThreadTypes'
  BY <1>1, <1>2, <1>3 DEF Types, ThreadTypes, Labels
<1>5. RecTypes'
  BY <1>1 DEF Types, RecTypes, DataTypeOK, poolVars, dataVars, recVars, cacheVars
<1>6. RecInv'
  <2>1. \A u \in Threads : pc'[u] = "destroy" <=> pc[u] = "destroy"
    BY <1>1, <1>2 DEF Types, ThreadTypes
  <2>2. fLocked' = fLocked /\ \A b \in Blocks : fLocked[b] /\ fPointer[b] => fPointer'[b]
    BY <1>1 DEF poolVars
  <2>3. UNCHANGED <<dataVars, recVars, fLru, fHash, made, holds>>
    BY <1>1 DEF cacheVars
  <2> QED
    BY <2>1, <2>2, <2>3, QuietKeeps
<1>7. ASSUME NEW u \in Threads PROVE Place(u)'
  <2>1. CASE u = t
    <3>1. pc'[t] = label /\ want'[t] = key /\ made'[t] = made[t] /\ holds'[t] = holds[t]
      BY <1>1, <1>2 DEF Types, ThreadTypes
    <3>2. holds[t] = None /\ Place(t)
      BY <1>1 DEF Places, Place
    <3> QED
      BY <1>1, <1>2, <1>3, <2>1, <3>1, <3>2 DEF Place, cacheVars
  <2>2. CASE u # t
    <3>1. pc'[u] = pc[u] /\ want'[u] = want[u]
      BY <1>1, <1>2, <2>2 DEF Types, ThreadTypes
    <3> QED
      BY <1>1, <2>2, <3>1, OthersPlaced DEF Places
  <2> QED
    BY <2>1, <2>2
<1> QED
  BY <1>4, <1>5, <1>6, <1>7 DEF Types, Places

LEMMA ListPlaces ==
  ASSUME RecTypes
  PROVE  /\ DOMAIN fLru = 1 .. Len(fLru) /\ Len(fLru) \in Nat
         /\ fLru # <<>> => Len(fLru) \in DOMAIN fLru
         /\ \A i \in DOMAIN fLru : fLru[i] \in Recs /\ fLru[i] \in Listed
<1>1. fLru \in Seq(Recs) /\ DOMAIN fLru = 1 .. Len(fLru) /\ Len(fLru) \in Nat
  BY LenProperties DEF RecTypes
<1>2. fLru # <<>> => Len(fLru) \in Nat \ {0}
  BY <1>1, EmptySeq
<1>3. \A i \in DOMAIN fLru : fLru[i] \in Recs
  BY <1>1, ElementOfSeq
<1> QED
  BY <1>1, <1>2, <1>3 DEF Listed, ToSet

LEMMA StillKeeps ==
  ASSUME Types, RecInv, UNCHANGED <<poolVars, dataVars, recVars, cacheVars, made, holds>>,
         \A u \in Threads : pc'[u] = "destroy" <=> pc[u] = "destroy"
  PROVE  RecTypes' /\ RecInv'
<1>1. fLocked' = fLocked /\ \A b \in Blocks : fLocked[b] /\ fPointer[b] => fPointer'[b]
  BY DEF poolVars
<1>2. UNCHANGED <<dataVars, recVars, fLru, fHash, made, holds>>
  BY DEF cacheVars
<1>3. RecTypes'
  BY DEF Types, RecTypes, DataTypeOK, poolVars, dataVars, recVars, cacheVars
<1> QED
  BY <1>1, <1>2, <1>3, QuietKeeps

(* One record is looked at, and removed or left.                           *)
LEMMA LookKeeps ==
  ASSUME CacheInv, NEW i \in DOMAIN fLru,
         \/ RemoveRec(fLru[i]) /\ CanBePurged(fLru[i])
         \/ UNCHANGED <<poolVars, dataVars, recVars, cacheVars>>,
         UNCHANGED <<made, holds>>,
         \A u \in Threads : pc'[u] = "destroy" <=> pc[u] = "destroy"
  PROVE  /\ RecTypes' /\ RecInv' /\ Len(fLru') \in Nat /\ Len(fLru) - 1 <= Len(fLru')
         /\ DOMAIN fLru' = 1 .. Len(fLru')
         /\ fLru' # <<>> => Len(fLru') \in DOMAIN fLru'
<1> USE DEF CacheInv
<1>1. fLru[i] \in Recs /\ fLru[i] \in Listed /\ Len(fLru) \in Nat
  BY ListPlaces DEF Types
<1>2. CASE RemoveRec(fLru[i]) /\ CanBePurged(fLru[i])
  <2>1. fLru[i] \in Bitmaps => Owners(fLru[i]) = {}
    BY <1>1, <1>2, NobodyHolds DEF RecInv, AllCounted
  <2>2. RecTypes' /\ RecInv' /\ Len(fLru') = Len(fLru) - 1
    BY <1>1, <1>2, <2>1, RemovedKeeps
  <2>3. /\ DOMAIN fLru' = 1 .. Len(fLru') /\ Len(fLru') \in Nat
        /\ fLru' # <<>> => Len(fLru') \in DOMAIN fLru'
    <3>1. fLru' \in Seq(Recs)
      BY <2>2 DEF RecTypes
    <3>2. DOMAIN fLru' = 1 .. Len(fLru') /\ Len(fLru') \in Nat
      BY <3>1, LenProperties
    <3>3. fLru' # <<>> => Len(fLru') \in Nat \ {0}
      BY <3>1, EmptySeq
    <3> QED
      BY <3>2, <3>3
  <2> QED
    BY <1>1, <2>2, <2>3
<1>3. CASE UNCHANGED <<poolVars, dataVars, recVars, cacheVars>>
  <2>1. RecTypes' /\ RecInv'
    BY <1>3, StillKeeps
  <2>2. fLru' = fLru
    BY <1>3 DEF cacheVars
  <2> QED
    BY <1>1, <2>1, <2>2, ListPlaces DEF Types
<1> QED
  BY <1>2, <1>3

LEMMA SweepKeeps ==
  ASSUME CacheInv, NEW t \in Threads, Sweep(t)
  PROVE  CacheInv'
<1> USE DEF CacheInv
<1>1. pc[t] = "sweep" /\ Place(t) /\ owner = t /\ cur \in DOMAIN fLru
  BY DEF Sweep, Places, Place
<1>2. UNCHANGED <<inbox, owner, want, made, holds>>
  BY DEF Sweep
<1>3. PICK label \in {"sweep", "find", "add"} :
        /\ pc' = [pc EXCEPT ![t] = label]
        /\ label = "sweep" => \/ cur > 1 /\ cur' = cur - 1
                              \/ fLru' # <<>> /\ cur' = Len(fLru')
        /\ label # "sweep" => label = IF made[t] = None THEN "find" ELSE "add"
        /\ \/ cur > 1 /\ cur' = cur - 1
           \/ cur' = Len(fLru')
  <2>1. CASE cur > 1
    <3>1. pc' = [pc EXCEPT ![t] = "sweep"] /\ cur' = cur - 1
      BY <1>1, <2>1 DEF Sweep, Types, ThreadTypes
    <3> QED
      BY <2>1, <3>1
  <2>2. CASE ~(cur > 1)
    BY <1>2, <2>2 DEF Sweep, Goes, Task
  <2> QED
    BY <2>1, <2>2
<1>4. \A u \in Threads : pc'[u] = "destroy" <=> pc[u] = "destroy"
  BY <1>1, <1>3 DEF Types, ThreadTypes
<1>5. /\ RecTypes' /\ RecInv' /\ Len(fLru') \in Nat /\ Len(fLru) - 1 <= Len(fLru')
      /\ DOMAIN fLru' = 1 .. Len(fLru')
      /\ fLru' # <<>> => Len(fLru') \in DOMAIN fLru'
  <2>1. \/ RemoveRec(fLru[cur]) /\ CanBePurged(fLru[cur])
        \/ UNCHANGED <<poolVars, dataVars, recVars, cacheVars>>
    BY DEF Sweep
  <2> QED
    BY <1>1, <1>2, <1>4, <2>1, LookKeeps
<1>6. DOMAIN fLru = 1 .. Len(fLru) /\ Len(fLru) \in Nat
  BY ListPlaces DEF Types
<1>7. cur' \in Nat /\ (label = "sweep" => cur' \in DOMAIN fLru')
  BY <1>1, <1>3, <1>5, <1>6
<1>8. ThreadTypes'
  BY <1>2, <1>3, <1>7 DEF Types, ThreadTypes, Labels
<1>9. ASSUME NEW u \in Threads PROVE Place(u)'
  <2>1. CASE u = t
    <3>1. pc'[t] = label /\ holds[t] = None /\ want'[t] = want[t]
          /\ (made[t] = None => want[t] \in Keys)
      BY <1>1, <1>2, <1>3 DEF Place, Types, ThreadTypes
    <3> QED
      BY <1>1, <1>2, <1>3, <1>7, <2>1, <3>1 DEF Place
  <2>2. CASE u # t
    <3>1. pc'[u] = pc[u]
      BY <1>3, <2>2 DEF Types, ThreadTypes
    <3> QED
      BY <1>1, <1>2, <2>2, <3>1, OthersPlaced DEF Places
  <2> QED
    BY <2>1, <2>2
<1> QED
  BY <1>5, <1>8, <1>9 DEF Types, Places

LEMMA PurgeAllKeeps ==
  ASSUME CacheInv, NEW t \in Threads, PurgeAll(t)
  PROVE  CacheInv'
<1> USE DEF CacheInv
<1>1. /\ owner = None /\ owner' = t /\ pc[t] = "idle" /\ fLru # <<>>
      /\ pc' = [pc EXCEPT ![t] = "purgeAll"] /\ cur' = Len(fLru)
      /\ UNCHANGED <<poolVars, dataVars, recVars, cacheVars, inbox, msgs, want, made, holds>>
  BY DEF PurgeAll, Goes
<1>2. \A u \in Threads : pc'[u] = "destroy" <=> pc[u] = "destroy"
  BY <1>1 DEF Types, ThreadTypes
<1>3. Len(fLru) \in DOMAIN fLru /\ Len(fLru) \in Nat
  BY <1>1, ListPlaces DEF Types
<1>4. RecTypes' /\ RecInv'
  BY <1>1, <1>2, <1>3, LookKeeps
<1>5. ThreadTypes'
  BY <1>1, <1>3 DEF Types, ThreadTypes, Labels
<1>6. ASSUME NEW u \in Threads PROVE Place(u)'
  <2>1. CASE u = t
    <3>1. pc'[t] = "purgeAll" /\ Place(t)
      BY <1>1 DEF Types, ThreadTypes, Places
    <3> QED
      BY <1>1, <1>3, <2>1, <3>1 DEF Place, cacheVars
  <2>2. CASE u # t
    <3>1. pc'[u] = pc[u]
      BY <1>1, <2>2 DEF Types, ThreadTypes
    <3> QED
      BY <1>1, <2>2, <3>1, OthersPlaced DEF Places
  <2> QED
    BY <2>1, <2>2
<1> QED
  BY <1>4, <1>5, <1>6 DEF Types, Places

LEMMA PurgeKeeps ==
  ASSUME CacheInv, NEW t \in Threads, Purge(t)
  PROVE  CacheInv'
<1> USE DEF CacheInv
<1>1. /\ pc[t] \in {"purge", "purgeAll"} /\ Place(t) /\ owner = t /\ made[t] = None
      /\ cur = 0 \/ cur \in DOMAIN fLru
      /\ UNCHANGED <<want, made, holds>>
  BY DEF Purge, Places, Place
<1>2. DOMAIN fLru = 1 .. Len(fLru) /\ Len(fLru) \in Nat
  BY ListPlaces DEF Types
<1>3. CASE Leaves(t, IF holds[t] = None THEN "idle" ELSE "has")
           /\ UNCHANGED <<poolVars, dataVars, recVars, cacheVars>>
  <2>1. PICK label \in {"idle", "has"} : /\ label = (IF holds[t] = None THEN "idle" ELSE "has")
                                        /\ pc' = [pc EXCEPT ![t] = label]
    BY <1>3 DEF Leaves, Goes
  <2>2. owner' = None /\ cur' = 0
    BY <1>3 DEF Leaves
  <2>3. \A u \in Threads : pc'[u] = "destroy" <=> pc[u] = "destroy"
    BY <1>1, <2>1 DEF Types, ThreadTypes
  <2>4. RecTypes' /\ RecInv'
    BY <1>1, <1>3, <2>3, StillKeeps
  <2>5. ThreadTypes'
    BY <1>1, <2>1, <2>2 DEF Types, ThreadTypes, Labels
  <2>6. ASSUME NEW u \in Threads PROVE Place(u)'
    <3>1. CASE u = t
      <4>1. pc'[t] = label
        BY <2>1 DEF Types, ThreadTypes
      <4> QED
        BY <1>1, <2>1, <3>1, <4>1 DEF Place
    <3>2. CASE u # t
      <4>1. pc'[u] = pc[u]
        BY <2>1, <3>2 DEF Types, ThreadTypes
      <4> QED
        BY <1>1, <3>2, <4>1, OthersPlaced DEF Places
    <3> QED
      BY <3>1, <3>2
  <2> QED
    BY <2>4, <2>5, <2>6 DEF Types, Places
<1>4. CASE /\ cur # 0 /\ cur' = cur - 1 /\ UNCHANGED <<inbox, msgs, owner, pc>>
           /\ \/ RemoveRec(fLru[cur]) /\ CanBePurged(fLru[cur])
              \/ UNCHANGED <<poolVars, dataVars, recVars, cacheVars>>
  <2>1. /\ RecTypes' /\ RecInv' /\ Len(fLru') \in Nat /\ Len(fLru) - 1 <= Len(fLru')
        /\ DOMAIN fLru' = 1 .. Len(fLru')
    BY <1>1, <1>4, LookKeeps
  <2>2. cur' \in Nat /\ (cur' = 0 \/ cur' \in DOMAIN fLru')
    BY <1>1, <1>2, <1>4, <2>1
  <2>3. ThreadTypes'
    BY <1>1, <1>4, <2>2 DEF Types, ThreadTypes
  <2>4. ASSUME NEW u \in Threads PROVE Place(u)'
    <3>1. CASE u = t
      BY <1>1, <1>4, <2>2, <3>1 DEF Place
    <3>2. CASE u # t
      BY <1>1, <1>4, <3>2, OthersPlaced DEF Places
    <3> QED
      BY <3>1, <3>2
  <2> QED
    BY <2>1, <2>3, <2>4 DEF Types, Places
<1>5. QED
  <2>1. CASE cur = 0 \/ (pc[t] = "purge" /\ WithinLimits)
    BY <1>3, <2>1 DEF Purge
  <2>2. CASE ~(cur = 0 \/ (pc[t] = "purge" /\ WithinLimits))
    BY <1>4, <2>2 DEF Purge
  <2> QED
    BY <2>1, <2>2

LEMMA PostKeeps ==
  ASSUME CacheInv, NEW image \in Images, PostPurgeSharedID(image)
  PROVE  CacheInv'
<1> USE DEF CacheInv
<1>1. UNCHANGED <<poolVars, dataVars, recVars, cacheVars, owner, cur, pc, want, made, holds>>
  BY DEF PostPurgeSharedID, threadVars
<1>2. RecTypes' /\ RecInv'
  BY <1>1, StillKeeps
<1>3. ThreadTypes'
  BY <1>1 DEF Types, ThreadTypes
<1>4. Places'
  BY <1>1 DEF Places, Place, KeyOf, cacheVars, recVars
<1> QED
  BY <1>2, <1>3, <1>4 DEF Types

LEMMA ShrinkKeeps ==
  ASSUME CacheInv, Shrink
  PROVE  CacheInv'
<1> USE DEF CacheInv
<1>1. /\ UNCHANGED <<dataVars, recVars, cacheVars, owner, cur, pc, want, made, holds>>
  BY DEF Shrink, threadVars, mutexVars
<1>2. \E budget : DumpDownTo(budget, fList, fUsed, fPointer, fLocked)
  BY DEF Shrink, DumpPool, SetRAMBudget
<1>3. /\ fLocked' = fLocked /\ fPointer' \in [Blocks -> BOOLEAN]
      /\ \A b \in Blocks : fLocked[b] /\ fPointer[b] => fPointer'[b]
  BY <1>2, DumpKeeps DEF Types, RecTypes
<1>4. RecTypes'
  BY <1>1, <1>3 DEF Types, RecTypes, DataTypeOK, dataVars, recVars, cacheVars
<1>5. RecInv'
  <2>1. UNCHANGED <<dataVars, recVars, fLru, fHash, made, holds>>
    BY <1>1 DEF cacheVars
  <2> QED
    BY <1>1, <1>3, <2>1, QuietKeeps
<1>6. ThreadTypes'
  BY <1>1 DEF Types, ThreadTypes
<1>7. Places'
  BY <1>1 DEF Places, Place, KeyOf, cacheVars, recVars
<1> QED
  BY <1>4, <1>5, <1>6, <1>7 DEF Types
-----------------------------------------------------------------------------
(* find(), its three ways.                                                 *)
LEMMA FindKeeps ==
  ASSUME CacheInv, NEW t \in Threads, Find(t)
  PROVE  CacheInv'
<1> USE DEF CacheInv
<1> DEFINE r == fHash[want[t]]
<1>1. /\ pc[t] = "find" /\ Place(t) /\ owner = t /\ made[t] = None /\ holds[t] = None
      /\ want[t] \in Keys /\ made' = made
  BY DEF Find, Places, Place
<1>2. r # None => r \in Recs /\ r \in Listed /\ KeyOf(r) = want[t] /\ fKey[r] # None /\ Counted(r)
  BY <1>1, HashedIsListed DEF Types, RecInv, AllCounted
<1>3. PICK label \in {"miss", "has"} :
        /\ pc' = [pc EXCEPT ![t] = label] /\ owner' = None /\ cur' = 0
        /\ \/ /\ label = "miss" /\ UNCHANGED <<want, holds>>
              /\ \/ UNCHANGED <<poolVars, dataVars, recVars, cacheVars>>
                 \/ r # None /\ ~Visits(r) /\ RemoveRec(r)
           \/ /\ label = "has" /\ r # None /\ Visits(r)
              /\ IF r \in Bitmaps THEN Install(r) /\ UNCHANGED dataVars
                 ELSE Ref(r) /\ UNCHANGED <<fDM, fDiscardableIsLocked, fExternalCounter>>
              /\ fLru' = <<r>> \o Unlisted(fLru, r)
              /\ holds' = [holds EXCEPT ![t] = r]
              /\ want' = [want EXCEPT ![t] = None]
              /\ UNCHANGED <<fKey, fHash, fTotalBytesUsed, fCount>>
  BY DEF Find, Leaves, Goes
<1> HIDE DEF r
<1>4. \A u \in Threads : pc'[u] = "destroy" <=> pc[u] = "destroy"
  BY <1>1, <1>3 DEF Types, ThreadTypes
<1>5. RecTypes' /\ RecInv'
  <2>1. CASE UNCHANGED <<poolVars, dataVars, recVars, cacheVars, holds>>
    BY <1>1, <1>4, <2>1, StillKeeps
  <2>2. CASE r # None /\ ~Visits(r) /\ RemoveRec(r) /\ holds' = holds
    <3>1. r \in Bitmaps => Owners(r) = {}
      BY <1>2, <2>2, FailsUnheld DEF Visits
    <3> QED
      BY <1>1, <1>2, <1>4, <2>2, <3>1, RemovedKeeps
  <2>3. CASE label = "has"
    <3>1. /\ r # None /\ Visits(r)
          /\ IF r \in Bitmaps THEN Install(r) /\ UNCHANGED dataVars
             ELSE Ref(r) /\ UNCHANGED <<fDM, fDiscardableIsLocked, fExternalCounter>>
          /\ fLru' = <<r>> \o Unlisted(fLru, r)
          /\ holds' = [holds EXCEPT ![t] = r]
          /\ UNCHANGED <<fKey, fHash>>
      BY <1>3, <2>3
    <3> DEFINE rest == Unlisted(fLru, r)
    <3>2. /\ rest \in Seq(Recs) /\ ToSet(rest) = Listed \ {r}
          /\ \A i, j \in DOMAIN rest : rest[i] = rest[j] => i = j
      BY <1>2, <3>1, UnlistedList DEF Types, RecTypes, RecInv, ListsAgree, Listed
    <3> HIDE DEF rest
    <3>3. /\ <<r>> \o rest \in Seq(Recs) /\ ToSet(<<r>> \o rest) = (Listed \ {r}) \union {r}
          /\ \A i, j \in DOMAIN (<<r>> \o rest) :
               (<<r>> \o rest)[i] = (<<r>> \o rest)[j] => i = j
      BY <1>2, <3>1, <3>2, PutFirst
    <3>4. fLru' = <<r>> \o rest
      BY <3>1 DEF rest
    <3>5. /\ fLru' \in Seq(Recs) /\ Listed' = Listed
          /\ \A i, j \in DOMAIN fLru' : fLru'[i] = fLru'[j] => i = j
      BY <1>2, <3>1, <3>3, <3>4 DEF Listed
    <3>6. \A u \in Threads : made[u] # r
      BY <1>2, <3>1, Names DEF RecInv, MadeAlone
    <3>7. /\ r \in Bitmaps => Install(r) /\ UNCHANGED dataVars
          /\ r \in Datas => /\ DataAfterRef(r) /\ Ref(r)
                            /\ UNCHANGED <<fDM, fDiscardableIsLocked, fExternalCounter>>
      BY <1>2, <3>1, Names DEF Visits
    <3> QED
      BY <1>1, <1>2, <1>4, <3>1, <3>5, <3>6, <3>7, JoinKeeps
  <2> QED
    BY <1>3, <2>1, <2>2, <2>3
<1>6. ThreadTypes'
  BY <1>1, <1>2, <1>3 DEF Types, ThreadTypes, Labels
<1>7. ASSUME NEW u \in Threads PROVE Place(u)'
  <2>1. CASE u = t
    <3>1. pc'[t] = label /\ made'[t] = None
      BY <1>1, <1>3 DEF Types, ThreadTypes
    <3>2. CASE label = "miss"
      <4>1. holds'[t] = None /\ want'[t] \in Keys
        BY <1>1, <1>3, <3>2
      <4> QED
        BY <2>1, <3>1, <3>2, <4>1 DEF Place
    <3>3. CASE label = "has"
      <4>1. holds'[t] # None
        BY <1>2, <1>3, <3>3 DEF Types, ThreadTypes
      <4> QED
        BY <2>1, <3>1, <3>3, <4>1 DEF Place
    <3> QED
      BY <3>2, <3>3
  <2>2. CASE u # t
    <3>1. pc'[u] = pc[u] /\ holds'[u] = holds[u] /\ want'[u] = want[u]
      BY <1>3, <2>2 DEF Types, ThreadTypes
    <3> QED
      BY <1>1, <2>2, <3>1, OthersPlaced DEF Places
  <2> QED
    BY <2>1, <2>2
<1> QED
  BY <1>5, <1>6, <1>7 DEF Types, Places
-----------------------------------------------------------------------------
(* What is not a record yet is in no list and nobody's.                    *)
LEMMA FreshIsNobodys ==
  ASSUME Types, RecInv, NEW r \in Recs, fKey[r] = None
  PROVE  /\ r \notin Listed /\ \A u \in Threads : made[u] # r /\ holds[u] # r
         /\ Owners(r) = {} /\ Builders(r) = {} /\ fLocked[r] = FALSE
         /\ \A k \in Keys : fHash[k] # r
<1> USE DEF RecInv
<1>1. r \notin Listed
  BY DEF ListsAgree
<1>2. \A u \in Threads : made[u] # r /\ holds[u] # r
  BY Names DEF MadeAlone, HeldExists
<1>3. Owners(r) = {} /\ Builders(r) = {} /\ Users(r) = {}
  BY <1>2 DEF Owners, Builders, Users
<1>4. fLocked[r] = FALSE
  BY <1>3, Names DEF AllCounted, Counted, Types, RecTypes
<1>5. \A k \in Keys : fHash[k] # r
  BY <1>1, HashedIsListed, Names
<1> QED
  BY <1>1, <1>2, <1>3, <1>4, <1>5

LEMMA OneCard == \A x : Cardinality({x}) = 1 /\ IsFiniteSet({x})
BY FS_Singleton

(* Alloc() or Build(): a record that only its thread knows.                *)
LEMMA MakeKeeps ==
  ASSUME Types, RecInv, NEW t \in Threads, NEW r \in Recs, NEW image \in Images,
         fKey[r] = None, fKey' = [fKey EXCEPT ![r] = image],
         made[t] = None, made' = [made EXCEPT ![t] = r],
         pc[t] # "destroy", pc' = [pc EXCEPT ![t] = "built"],
         IF r \in Bitmaps
         THEN /\ PoolMake(r)
              /\ fDM' = [fDM EXCEPT ![r] = TRUE]
              /\ fDiscardableIsLocked' = [fDiscardableIsLocked EXCEPT ![r] = TRUE]
              /\ fExternalCounter' = [fExternalCounter EXCEPT ![r] = 0]
              /\ UNCHANGED dataVars
         ELSE /\ DataMake(r)
              /\ UNCHANGED <<fDM, fDiscardableIsLocked, fExternalCounter>>,
         UNCHANGED <<fLru, fHash, holds>>
  PROVE  RecTypes' /\ RecInv'
<1> USE DEF RecInv
<1>1. /\ r \notin Listed /\ \A u \in Threads : made[u] # r /\ holds[u] # r
      /\ Owners(r) = {} /\ Builders(r) = {} /\ fLocked[r] = FALSE
      /\ \A k \in Keys : fHash[k] # r
  BY FreshIsNobodys
<1>2. PoolMake(r) /\ r \in Blocks /\ image # None
  BY Names DEF DataMake
<1>3. /\ fLocked' = [fLocked EXCEPT ![r] = TRUE] /\ fPointer' \in [Blocks -> BOOLEAN]
      /\ fPointer'[r] /\ \A c \in Blocks : fLocked[c] /\ fPointer[c] => fPointer'[c]
  BY <1>2, MakeEffect
<1>4. /\ Owners(r)' = {} /\ Builders(r)' = {t}
      /\ \A q \in Recs \ {r} : Owners(q)' = Owners(q) /\ Builders(q)' = Builders(q)
  BY <1>1, Names DEF Owners, Builders, Types, ThreadTypes
<1>5. Users(r)' = {t} /\ Cardinality(Users(r)') = 1 /\ Cardinality(Owners(r)') = 0
  <2>1. Users(r)' = {t}
    BY <1>4 DEF Users
  <2> QED
    BY <1>4, <2>1, OneCard, FS_EmptySet
<1>6. /\ fDM' \in [Bitmaps -> BOOLEAN] /\ fDiscardableIsLocked' \in [Bitmaps -> BOOLEAN]
      /\ fExternalCounter' \in [Bitmaps -> Nat] /\ DataTypeOK'
      /\ \A q \in Bitmaps \ {r} : /\ fDM'[q] = fDM[q] /\ fExternalCounter'[q] = fExternalCounter[q]
                                  /\ fDiscardableIsLocked'[q] = fDiscardableIsLocked[q]
      /\ \A q \in Datas \ {r} : /\ fRefCnt'[q] = fRefCnt[q] /\ fInCache'[q] = fInCache[q]
                                /\ fIsLocked'[q] = fIsLocked[q] /\ fData'[q] = fData[q]
      /\ r \in Bitmaps => /\ fDM'[r] = TRUE /\ fDiscardableIsLocked'[r] = TRUE
                          /\ fExternalCounter'[r] = 0
      /\ r \in Datas => /\ fRefCnt'[r] = 2 /\ fInCache'[r] = TRUE
                        /\ fIsLocked'[r] = TRUE /\ fData'[r] = TRUE
  <2>1. CASE r \in Bitmaps
    <3>1. /\ fDM' = [fDM EXCEPT ![r] = TRUE]
          /\ fDiscardableIsLocked' = [fDiscardableIsLocked EXCEPT ![r] = TRUE]
          /\ fExternalCounter' = [fExternalCounter EXCEPT ![r] = 0]
          /\ fRefCnt' = fRefCnt /\ fInCache' = fInCache /\ fIsLocked' = fIsLocked /\ fData' = fData
          /\ r \notin Datas
      BY <2>1, Names DEF dataVars
    <3>2. DataTypeOK'
      BY <3>1 DEF Types, RecTypes, DataTypeOK
    <3>3. /\ fDM' \in [Bitmaps -> BOOLEAN] /\ fDiscardableIsLocked' \in [Bitmaps -> BOOLEAN]
          /\ fExternalCounter' \in [Bitmaps -> Nat]
          /\ fDM'[r] = TRUE /\ fDiscardableIsLocked'[r] = TRUE /\ fExternalCounter'[r] = 0
      BY <2>1, <3>1 DEF Types, RecTypes
    <3>4. \A q \in Bitmaps \ {r} : /\ fDM'[q] = fDM[q] /\ fExternalCounter'[q] = fExternalCounter[q]
                                   /\ fDiscardableIsLocked'[q] = fDiscardableIsLocked[q]
      BY <3>1 DEF Types, RecTypes
    <3> QED
      BY <3>1, <3>2, <3>3, <3>4
  <2>2. CASE r \notin Bitmaps
    <3>1. /\ fRefCnt' = [fRefCnt EXCEPT ![r] = 2] /\ fInCache' = [fInCache EXCEPT ![r] = TRUE]
          /\ fIsLocked' = [fIsLocked EXCEPT ![r] = TRUE] /\ fData' = [fData EXCEPT ![r] = TRUE]
          /\ UNCHANGED <<fDM, fDiscardableIsLocked, fExternalCounter>> /\ r \in Datas
      BY <2>2, Names DEF DataMake
    <3>2. DataTypeOK'
      BY <3>1 DEF Types, RecTypes, DataTypeOK
    <3>3. /\ fRefCnt'[r] = 2 /\ fInCache'[r] = TRUE /\ fIsLocked'[r] = TRUE /\ fData'[r] = TRUE
          /\ \A q \in Datas \ {r} : /\ fRefCnt'[q] = fRefCnt[q] /\ fInCache'[q] = fInCache[q]
                                    /\ fIsLocked'[q] = fIsLocked[q] /\ fData'[q] = fData[q]
      BY <3>1 DEF Types, RecTypes, DataTypeOK
    <3>4. /\ fDM' \in [Bitmaps -> BOOLEAN] /\ fDiscardableIsLocked' \in [Bitmaps -> BOOLEAN]
          /\ fExternalCounter' \in [Bitmaps -> Nat]
      BY <3>1 DEF Types, RecTypes
    <3> QED
      BY <2>2, <3>1, <3>2, <3>3, <3>4
  <2> QED
    BY <2>1, <2>2
<1>7. /\ fKey' \in [Recs -> Images \union {None}] /\ fKey'[r] # None
      /\ \A q \in Recs \ {r} : fKey'[q] = fKey[q]
  BY <1>2 DEF Types, RecTypes
<1>8. RecTypes'
  BY <1>3, <1>6, <1>7 DEF Types, RecTypes
<1>9. Counted(r)'
  <2>1. fLocked'[r] = TRUE
    BY <1>2, <1>3 DEF Types, RecTypes
  <2>2. Users(r)' # {}
    BY <1>5
  <2>3. r \in Datas => fRefCnt'[r] = Cardinality(Users(r)') + IF fInCache'[r] THEN 1 ELSE 0
    BY <1>5, <1>6
  <2> QED
    BY <1>3, <1>4, <1>5, <1>6, <2>1, <2>2, <2>3 DEF Counted
<1>10. ASSUME NEW q \in Recs \ {r} PROVE Counted(q)'
  <2>1. Same(q)
    BY <1>3, <1>4, <1>6, Names DEF Same, Types, RecTypes
  <2> QED
    BY <2>1, SameCounted DEF AllCounted
<1>11. Listed' = Listed
  BY DEF Listed
<1>12. MadeAlone'
  <2>1. ASSUME NEW u \in Threads, made'[u] # None
        PROVE  /\ fKey'[made'[u]] # None /\ made'[u] \notin Listed
               /\ pc'[u] # "destroy" =>
                    IF made'[u] \in Bitmaps THEN fDM'[made'[u]] ELSE fInCache'[made'[u]]
    <3>1. CASE u = t
      <4>1. made'[u] = r
        BY <3>1 DEF Types, ThreadTypes
      <4> QED
        BY <1>1, <1>6, <1>7, <4>1, Names
    <3>2. CASE u # t
      <4>1. /\ made'[u] = made[u] /\ pc'[u] = pc[u] /\ made[u] \in Recs \ {r}
            /\ made[u] # None
        BY <1>1, <2>1, <3>2 DEF Types, ThreadTypes
      <4>2. /\ fKey[made[u]] # None /\ made[u] \notin Listed
            /\ pc[u] # "destroy" =>
                 IF made[u] \in Bitmaps THEN fDM[made[u]] ELSE fInCache[made[u]]
        BY <4>1 DEF MadeAlone
      <4> QED
        BY <1>6, <1>7, <4>1, <4>2, Names
    <3> QED
      BY <3>1, <3>2
  <2>2. \A u, v \in Threads : made'[u] = made'[v] /\ made'[u] # None => u = v
    BY <1>1 DEF MadeAlone, Types, ThreadTypes
  <2>3. \A u, v \in Threads : made'[u] # None => holds'[v] # made'[u]
    BY <1>1 DEF MadeAlone, Types, ThreadTypes
  <2> QED
    BY <1>11, <2>1, <2>2, <2>3 DEF MadeAlone
<1>13. HeldExists'
  BY <1>1, <1>7, <1>11 DEF HeldExists, Types, ThreadTypes
<1>14. ListsAgree'
  <2>1. \A q \in Recs \ {r} : KeyOf(q)' = KeyOf(q)
    BY <1>7 DEF KeyOf
  <2>2. KeyOf(r)' \in Keys
    BY <1>8, <1>7 DEF KeyOf, Keys, Kinds, Kind, RecTypes
  <2>3. \A q \in Recs : q \in Listed' <=> fKey'[q] # None /\ fHash'[KeyOf(q)'] = q
    BY <1>1, <1>7, <1>11, <2>1, <2>2 DEF ListsAgree
  <2>4. ASSUME NEW k \in Keys, fHash[k] # None PROVE KeyOf(fHash[k])' = k
    <3>1. fHash[k] \in Recs \ {r} /\ KeyOf(fHash[k]) = k
      BY <1>1, <2>4 DEF ListsAgree, Types, RecTypes
    <3>2. fKey'[fHash[k]] = fKey[fHash[k]]
      BY <1>7, <3>1
    <3> QED
      BY <3>1, <3>2 DEF KeyOf
  <2>5. \A d \in Datas : d \in Listed' => fInCache'[d]
    BY <1>1, <1>6, <1>11 DEF ListsAgree
  <2> QED
    BY <1>11, <2>3, <2>4, <2>5 DEF ListsAgree
<1> QED
  BY <1>8, <1>9, <1>10, <1>12, <1>13, <1>14 DEF AllCounted

LEMMA AllocKeeps ==
  ASSUME CacheInv, NEW t \in Threads, Alloc(t)
  PROVE  CacheInv'
<1> USE DEF CacheInv
<1>1. /\ pc[t] = "miss" /\ made[t] = None /\ holds[t] = None /\ want[t] \in Keys
      /\ want' = [want EXCEPT ![t] = None]
      /\ UNCHANGED <<cacheVars, owner, cur, holds>>
  BY DEF Alloc, Places, Place, mutexVars
<1>2. CASE pc' = [pc EXCEPT ![t] = "idle"] /\ UNCHANGED <<poolVars, dataVars, recVars, made>>
  <2>1. \A u \in Threads : pc'[u] = "destroy" <=> pc[u] = "destroy"
    BY <1>1, <1>2 DEF Types, ThreadTypes
  <2>2. RecTypes' /\ RecInv'
    BY <1>1, <1>2, <2>1, StillKeeps
  <2>3. ThreadTypes'
    BY <1>1, <1>2 DEF Types, ThreadTypes, Labels
  <2>4. ASSUME NEW u \in Threads PROVE Place(u)'
    <3>1. CASE u = t
      <4>1. pc'[t] = "idle"
        BY <1>2 DEF Types, ThreadTypes
      <4> QED
        BY <1>1, <1>2, <3>1, <4>1 DEF Place
    <3>2. CASE u # t
      <4>1. pc'[u] = pc[u] /\ want'[u] = want[u] /\ KeyOf(made[u])' = KeyOf(made[u])
        BY <1>1, <1>2, <3>2 DEF Types, ThreadTypes, KeyOf, recVars
      <4> QED
        BY <1>1, <1>2, <3>2, <4>1, OthersPlaced DEF Places, cacheVars
    <3> QED
      BY <3>1, <3>2
  <2> QED
    BY <2>2, <2>3, <2>4 DEF Types, Places
<1>3. ASSUME NEW r \in Recs, fKey[r] = None,
             fKey' = [fKey EXCEPT ![r] = want[t][2]], made' = [made EXCEPT ![t] = r],
             pc' = [pc EXCEPT ![t] = "built"],
             IF r \in Bitmaps
             THEN /\ PoolMake(r)
                  /\ fDM' = [fDM EXCEPT ![r] = TRUE]
                  /\ fDiscardableIsLocked' = [fDiscardableIsLocked EXCEPT ![r] = TRUE]
                  /\ fExternalCounter' = [fExternalCounter EXCEPT ![r] = 0]
                  /\ UNCHANGED dataVars
             ELSE /\ DataMake(r)
                  /\ UNCHANGED <<fDM, fDiscardableIsLocked, fExternalCounter>>
      PROVE  CacheInv'
  <2>1. want[t][2] \in Images
    BY <1>1 DEF Keys
  <2>2. RecTypes' /\ RecInv'
    BY <1>1, <1>3, <2>1, MakeKeeps DEF cacheVars
  <2>3. ThreadTypes'
    BY <1>1, <1>3 DEF Types, ThreadTypes, Labels
  <2>4. ASSUME NEW u \in Threads PROVE Place(u)'
    <3>1. CASE u = t
      <4>1. pc'[t] = "built" /\ made'[t] = r /\ r # None
        BY <1>3, Names DEF Types, ThreadTypes
      <4> QED
        BY <1>1, <3>1, <4>1 DEF Place
    <3>2. CASE u # t
      <4>1. pc'[u] = pc[u] /\ want'[u] = want[u] /\ made'[u] = made[u]
        BY <1>1, <1>3, <3>2 DEF Types, ThreadTypes
      <4>2. made[u] # r
        BY <1>3, FreshIsNobodys
      <4>3. fKey'[made[u]] = fKey[made[u]] \/ made[u] \notin Recs
        BY <1>3, <4>2 DEF Types, RecTypes
      <4>4. CASE pc[u] = "reuse"
        <5>1. made[u] \in Recs
          BY <4>4 DEF Places, Place, Types, ThreadTypes
        <5>2. KeyOf(made[u])' = KeyOf(made[u])
          BY <4>1, <4>3, <5>1 DEF KeyOf
        <5> QED
          BY <1>1, <3>2, <4>1, <5>2, OthersPlaced DEF Places, cacheVars
      <4>5. CASE pc[u] # "reuse"
        BY <1>1, <3>2, <4>1, <4>5 DEF Places, Place, cacheVars
      <4> QED
        BY <4>4, <4>5
    <3> QED
      BY <3>1, <3>2
  <2> QED
    BY <2>2, <2>3, <2>4 DEF Types, Places
<1> QED
  BY <1>2, <1>3 DEF Alloc, Goes

(* Who has it is not being made: a mip map is shared, a bitmap used again. *)
LEMMA ShareKeeps ==
  ASSUME CacheInv, NEW t \in Threads, NEW v \in Threads, Share(t, v)
  PROVE  CacheInv'
<1> USE DEF CacheInv
<1> DEFINE r == holds[t]
<1>1. /\ pc[t] = "has" /\ pc[v] = "idle" /\ r \in Datas /\ Ref(r)
      /\ pc' = [pc EXCEPT ![v] = "has"] /\ holds' = [holds EXCEPT ![v] = r]
      /\ UNCHANGED <<recVars, cacheVars, owner, cur, want, made>>
      /\ holds[v] = None /\ made[v] = None
  BY DEF Share, Goes, Places, Place, mutexVars
<1>2. r \in Recs /\ r # None /\ r \notin Bitmaps /\ fKey[r] # None /\ Counted(r)
      /\ \A u \in Threads : made[u] # r
  BY <1>1, Names DEF RecInv, AllCounted, MadeAlone, HeldExists
<1>3. DataAfterRef(r)
  <2>1. t \in Users(r)
    BY DEF Users, Owners
  <2>2. fData[r] = TRUE
    BY <1>1, <1>2, <2>1 DEF Counted, Types, RecTypes, DataTypeOK
  <2>3. fPointer[r]
    BY <1>2, <2>1 DEF Counted
  <2> QED
    BY <2>2, <2>3 DEF DataAfterRef
<1>4. \A u \in Threads : pc'[u] = "destroy" <=> pc[u] = "destroy"
  BY <1>1 DEF Types, ThreadTypes
<1> HIDE DEF r
<1>5. RecTypes' /\ RecInv'
  <2>1. UNCHANGED <<fKey, fHash, fLru, fDM, fDiscardableIsLocked, fExternalCounter>>
    BY <1>1 DEF recVars, cacheVars
  <2>2. fLru' \in Seq(Recs) /\ Listed' = Listed
        /\ \A i, j \in DOMAIN fLru' : fLru'[i] = fLru'[j] => i = j
    BY <2>1 DEF Types, RecTypes, RecInv, ListsAgree, Listed
  <2> QED
    BY <1>1, <1>2, <1>3, <1>4, <2>1, <2>2, JoinKeeps
<1>6. ThreadTypes'
  BY <1>1, <1>2 DEF Types, ThreadTypes, Labels
<1>7. ASSUME NEW u \in Threads PROVE Place(u)'
  <2>1. CASE u = v
    <3>1. pc'[v] = "has" /\ holds'[v] = r
      BY <1>1 DEF Types, ThreadTypes
    <3> QED
      BY <1>1, <1>2, <2>1, <3>1 DEF Place
  <2>2. CASE u # v
    <3>1. pc'[u] = pc[u] /\ holds'[u] = holds[u] /\ KeyOf(made[u])' = KeyOf(made[u])
      BY <1>1, <2>2 DEF Types, ThreadTypes, KeyOf, recVars
    <3> QED
      BY <1>1, <2>2, <3>1, OthersPlaced DEF Places, cacheVars
  <2> QED
    BY <2>1, <2>2
<1> QED
  BY <1>5, <1>6, <1>7 DEF Types, Places

(* add() of a bitmap whose key is in the cache, in use. Its last client    *)
(* may be gone since, and its memory; then nobody loses it.                *)
LEMMA ReuseKeeps ==
  ASSUME CacheInv, NEW t \in Threads, Reuse(t)
  PROVE  CacheInv'
<1> USE DEF CacheInv
<1>0. PICK prev : prev = fHash[KeyOf(made[t])]
  OBVIOUS
<1>1. /\ pc[t] = "reuse" /\ made[t] \in Bitmaps /\ holds[t] = None /\ owner = t
      /\ prev \in Bitmaps
      /\ pc' = [pc EXCEPT ![t] = "discard"]
      /\ UNCHANGED <<fKey, dataVars, cacheVars, owner, cur, want, made>>
      /\ \/ Install(prev) /\ holds' = [holds EXCEPT ![t] = prev]
         \/ InstallFails(prev) /\ UNCHANGED holds
  BY <1>0 DEF Reuse, Goes, Places, Place, mutexVars
<1>2. prev \in Recs /\ prev \in Listed /\ fKey[prev] # None /\ Counted(prev) /\ prev # None
      /\ \A u \in Threads : made[u] # prev
  <2>1. KeyOf(made[t]) \in Keys
    BY <1>1, KeyIsKey, Names DEF RecInv, MadeAlone
  <2>2. prev # None
    BY <1>1, Names
  <2>3. prev \in Recs /\ prev \in Listed /\ fKey[prev] # None
    BY <1>0, <2>1, <2>2, HashedIsListed DEF Types, RecInv
  <2> QED
    BY <2>2, <2>3 DEF RecInv, MadeAlone, AllCounted
<1>3. \A u \in Threads : pc'[u] = "destroy" <=> pc[u] = "destroy"
  BY <1>1 DEF Types, ThreadTypes
<1>4. RecTypes' /\ RecInv'
  <2>1. fLru' = fLru /\ fHash' = fHash /\ Listed' = Listed /\ fLru \in Seq(Recs)
        /\ \A i, j \in DOMAIN fLru' : fLru'[i] = fLru'[j] => i = j
    BY <1>1 DEF Types, RecTypes, RecInv, ListsAgree, Listed, cacheVars
  <2>2. CASE Install(prev) /\ holds' = [holds EXCEPT ![t] = prev]
    BY <1>1, <1>2, <1>3, <2>1, <2>2, Names, JoinKeeps
  <2>3. CASE InstallFails(prev) /\ UNCHANGED holds
    <3>1. /\ fDM' = [fDM EXCEPT ![prev] = FALSE]
          /\ UNCHANGED <<fDiscardableIsLocked, fExternalCounter, poolVars>>
      BY <2>3 DEF InstallFails
    <3>2. Owners(prev) = {}
      BY <1>1, <1>2, <2>3, FailsUnheld DEF InstallFails
    <3>3. Owners(prev)' = {} /\ Users(prev)' = Users(prev)
      BY <1>1, <1>3, <2>3, <3>2, SameUsers DEF Users
    <3>4. RecTypes'
      BY <1>1, <2>1, <3>1 DEF Types, RecTypes, DataTypeOK, dataVars, poolVars
    <3>5. Counted(prev)'
      BY <1>1, <1>2, <3>1, <3>2, <3>3, Names DEF Counted, dataVars, poolVars
    <3>6. ASSUME NEW q \in Recs \ {prev} PROVE Counted(q)'
      <4>1. fDM'[q] = fDM[q] \/ q \notin Bitmaps
        BY <3>1 DEF Types, RecTypes
      <4>2. Same(q)
        BY <1>1, <1>3, <2>3, <3>1, <4>1, SameUsers DEF Same, dataVars, poolVars
      <4> QED
        BY <4>2, SameCounted DEF RecInv, AllCounted
    <3>7. MadeAlone'
      <4>1. \A u \in Threads : made[u] # None =>
              /\ fKey'[made[u]] = fKey[made[u]]
              /\ made[u] \in Bitmaps => fDM'[made[u]] = fDM[made[u]]
              /\ made[u] \notin Bitmaps => fInCache'[made[u]] = fInCache[made[u]]
        BY <1>1, <1>2, <3>1 DEF Types, RecTypes, dataVars
      <4> QED
        BY <1>1, <1>3, <2>1, <2>3, <4>1, SameMade DEF RecInv
    <3>8. HeldExists'
      BY <1>1, <2>1, <2>3 DEF RecInv, HeldExists
    <3>9. ListsAgree'
      <4>1. \A q : KeyOf(q)' = KeyOf(q)
        BY <1>1 DEF KeyOf
      <4> QED
        BY <1>1, <2>1, <4>1 DEF RecInv, ListsAgree, dataVars
    <3> QED
      BY <3>4, <3>5, <3>6, <3>7, <3>8, <3>9 DEF RecInv, AllCounted
  <2> QED
    BY <1>1, <2>2, <2>3
<1>5. ThreadTypes'
  BY <1>1, <1>2 DEF Types, ThreadTypes, Labels
<1>6. ASSUME NEW u \in Threads PROVE Place(u)'
  <2>1. CASE u = t
    <3>1. pc'[t] = "discard" /\ made'[t] = made[t] /\ made[t] # None
      BY <1>1, Names DEF Types, ThreadTypes
    <3> QED
      BY <1>1, <2>1, <3>1 DEF Place
  <2>2. CASE u # t
    <3>1. pc'[u] = pc[u] /\ holds'[u] = holds[u]
      BY <1>1, <2>2 DEF Types, ThreadTypes
    <3> QED
      BY <1>1, <2>2, <3>1, OthersPlaced DEF Places
  <2> QED
    BY <2>1, <2>2
<1> QED
  BY <1>4, <1>5, <1>6 DEF Types, Places

(* A thread destroys what it made: first its block is unlocked ...         *)
LEMMA DiscardKeeps ==
  ASSUME CacheInv, NEW t \in Threads, Discard(t)
  PROVE  CacheInv'
<1> USE DEF CacheInv
<1>0. PICK m : m = made[t]
  OBVIOUS
<1>1. /\ pc[t] \in {"discard", "built"} /\ m \in Bitmaps /\ PoolUnlock(m)
      /\ fDiscardableIsLocked' = [fDiscardableIsLocked EXCEPT ![m] = FALSE]
      /\ pc' = [pc EXCEPT ![t] = "destroy"]
      /\ UNCHANGED <<fKey, fDM, fExternalCounter, dataVars, cacheVars, owner, cur,
                     want, made, holds>>
  BY <1>0 DEF Discard, Goes, Places, Place, mutexVars
<1>2. m \in Recs /\ m \in Blocks /\ m # None /\ m \notin Datas /\ m \notin Listed
      /\ fKey[m] # None /\ Counted(m)
      /\ \A u \in Threads : holds[u] # m /\ (u # t => made[u] # m)
  BY <1>0, <1>1, Names DEF RecInv, AllCounted, MadeAlone
<1>3. /\ fLocked' = [fLocked EXCEPT ![m] = FALSE] /\ fPointer' \in [Blocks -> BOOLEAN]
      /\ \A c \in Blocks : c # m /\ fLocked[c] /\ fPointer[c] => fPointer'[c]
  BY <1>1, <1>2, UnlockEffect
<1>4. pc'[t] = "destroy" /\ \A u \in Threads : u # t => pc'[u] = pc[u]
  BY <1>1 DEF Types, ThreadTypes
<1>5. /\ Owners(m) = {} /\ Owners(m)' = {} /\ Builders(m)' = {} /\ Users(m)' = {}
      /\ \A q \in Recs \ {m} : Owners(q)' = Owners(q) /\ Builders(q)' = Builders(q)
  <2>1. Owners(m) = {} /\ Owners(m)' = {}
    BY <1>1, <1>2 DEF Owners
  <2>2. Builders(m)' = {}
    BY <1>1, <1>2, <1>4 DEF Builders
  <2>3. \A q \in Recs \ {m} : Owners(q)' = Owners(q) /\ Builders(q)' = Builders(q)
    BY <1>0, <1>1, <1>4 DEF Owners, Builders
  <2> QED
    BY <2>1, <2>2, <2>3 DEF Users
<1>6. RecTypes'
  BY <1>1, <1>3 DEF Types, RecTypes, DataTypeOK, dataVars, cacheVars
<1>7. Counted(m)'
  <2>1. fLocked'[m] = FALSE /\ fDiscardableIsLocked'[m] = FALSE
    BY <1>1, <1>2, <1>3 DEF Types, RecTypes
  <2>2. fExternalCounter'[m] = Cardinality(Owners(m)')
    BY <1>1, <1>2, <1>5 DEF Counted
  <2> QED
    BY <1>2, <1>5, <2>1, <2>2 DEF Counted
<1>8. ASSUME NEW q \in Recs \ {m} PROVE Counted(q)'
  <2>1. fLocked'[q] = fLocked[q] /\ (fLocked[q] /\ fPointer[q] => fPointer'[q])
    BY <1>3, Names DEF Types, RecTypes
  <2>2. q \in Bitmaps => fDiscardableIsLocked'[q] = fDiscardableIsLocked[q]
    BY <1>1 DEF Types, RecTypes
  <2>3. Same(q)
    BY <1>1, <1>5, <2>1, <2>2 DEF Same, dataVars
  <2> QED
    BY <2>3, SameCounted DEF RecInv, AllCounted
<1>9. Listed' = Listed
  BY <1>1 DEF Listed, cacheVars
<1>10. MadeAlone'
  BY <1>1, <1>4, <1>9 DEF RecInv, MadeAlone, dataVars
<1>11. HeldExists'
  BY <1>1, <1>9 DEF RecInv, HeldExists
<1>12. ListsAgree'
  <2>1. \A q : KeyOf(q)' = KeyOf(q)
    BY <1>1 DEF KeyOf
  <2> QED
    BY <1>1, <1>9, <2>1 DEF RecInv, ListsAgree, dataVars, cacheVars
<1>13. ThreadTypes'
  BY <1>1 DEF Types, ThreadTypes, Labels
<1>14. ASSUME NEW u \in Threads PROVE Place(u)'
  <2>1. CASE u = t
    BY <1>0, <1>1, <1>2, <1>4, <2>1 DEF Place
  <2>2. CASE u # t
    <3>1. pc'[u] = pc[u] /\ KeyOf(made[u])' = KeyOf(made[u])
      BY <1>1, <1>4, <2>2 DEF KeyOf
    <3> QED
      BY <1>1, <2>2, <3>1, OthersPlaced DEF Places, cacheVars
  <2> QED
    BY <2>1, <2>2
<1> QED
  BY <1>6, <1>7, <1>8, <1>10, <1>11, <1>12, <1>13, <1>14
     DEF Types, Places, RecInv, AllCounted

(* ... then it leaves the pool, and is no record any more.                 *)
LEMMA DestroyKeeps ==
  ASSUME CacheInv, NEW t \in Threads, Destroy(t)
  PROVE  CacheInv'
<1> USE DEF CacheInv
<1>0. PICK m : m = made[t]
  OBVIOUS
<1>1. /\ pc[t] = "destroy" /\ PoolRemove(m) /\ m # None
      /\ fKey' = [fKey EXCEPT ![m] = None]
      /\ IF m \in Bitmaps THEN fDM' = [fDM EXCEPT ![m] = FALSE] ELSE UNCHANGED fDM
      /\ made' = [made EXCEPT ![t] = None]
      /\ UNCHANGED <<fDiscardableIsLocked, fExternalCounter, dataVars, cacheVars, want, holds>>
  BY <1>0 DEF Destroy, Places, Place
<1>2. PICK label \in {"idle", "has"} :
        /\ label = (IF holds[t] = None THEN "idle" ELSE "has")
        /\ pc' = [pc EXCEPT ![t] = label]
        /\ \/ owner = t /\ owner' = None /\ cur' = 0
           \/ UNCHANGED <<owner, cur>>
  BY DEF Destroy, Leaves, Goes, mutexVars
<1>3. m \in Recs /\ m \in Blocks /\ m \notin Listed /\ fKey[m] # None /\ Counted(m)
      /\ \A u \in Threads : holds[u] # m /\ (u # t => made[u] # m)
  BY <1>0, <1>1, Names DEF RecInv, AllCounted, MadeAlone, Types, ThreadTypes
<1>4. fLocked' = fLocked /\ fPointer' = [fPointer EXCEPT ![m] = FALSE]
  BY <1>1, <1>3, RemoveEffect
<1>5. /\ pc'[t] = label /\ made'[t] = None
      /\ \A u \in Threads : u # t => pc'[u] = pc[u] /\ made'[u] = made[u]
  BY <1>1, <1>2 DEF Types, ThreadTypes
<1>6. /\ Owners(m) = {} /\ Users(m) = {}
      /\ \A q \in Recs : Owners(q)' = Owners(q) /\ Builders(q)' = Builders(q)
  <2>1. Owners(m) = {} /\ Builders(m) = {}
    BY <1>1, <1>3 DEF Owners, Builders
  <2>2. ASSUME NEW q \in Recs PROVE Owners(q)' = Owners(q) /\ Builders(q)' = Builders(q)
    <3>1. q # None
      BY <2>2, Names
    <3> QED
      BY <1>1, <1>5, <3>1 DEF Owners, Builders
  <2> QED
    BY <2>1, <2>2 DEF Users
<1>7. /\ fPointer' \in [Blocks -> BOOLEAN] /\ fKey' \in [Recs -> Images \union {None}]
      /\ fDM' \in [Bitmaps -> BOOLEAN]
      /\ \A q \in Recs \ {m} : /\ fPointer'[q] = fPointer[q] /\ fKey'[q] = fKey[q]
                               /\ q \in Bitmaps => fDM'[q] = fDM[q]
      /\ fKey'[m] = None
  BY <1>1, <1>3, <1>4, Names DEF Types, RecTypes
<1>8. RecTypes'
  BY <1>1, <1>4, <1>7 DEF Types, RecTypes, DataTypeOK, dataVars, cacheVars
<1>9. Counted(m)'
  <2>1. Users(m)' = Users(m) /\ Owners(m)' = Owners(m)
    BY <1>3, <1>6 DEF Users
  <2>2. ~fLocked[m]
    BY <1>3, <1>6 DEF Counted
  <2> QED
    BY <1>1, <1>3, <1>4, <1>6, <2>1, <2>2 DEF Counted, dataVars
<1>10. ASSUME NEW q \in Recs \ {m} PROVE Counted(q)'
  <2>1. Same(q)
    BY <1>1, <1>4, <1>6, <1>7 DEF Same, dataVars
  <2> QED
    BY <2>1, SameCounted DEF RecInv, AllCounted
<1>11. Listed' = Listed
  BY <1>1 DEF Listed, cacheVars
<1>12. MadeAlone'
  <2>1. ASSUME NEW u \in Threads, made'[u] # None
        PROVE  /\ fKey'[made'[u]] # None /\ made'[u] \notin Listed
               /\ \A v \in Threads : holds'[v] # made'[u]
               /\ pc'[u] # "destroy" =>
                    IF made'[u] \in Bitmaps THEN fDM'[made'[u]] ELSE fInCache'[made'[u]]
    <3>1. u # t /\ made'[u] = made[u] /\ pc'[u] = pc[u] /\ made[u] \in Recs \ {m}
      BY <1>3, <1>5, <2>1 DEF Types, ThreadTypes
    <3> QED
      BY <1>1, <1>7, <2>1, <3>1 DEF RecInv, MadeAlone, dataVars
  <2>2. \A u, v \in Threads : made'[u] = made'[v] /\ made'[u] # None => u = v
    BY <1>5 DEF RecInv, MadeAlone
  <2> QED
    BY <1>11, <2>1, <2>2 DEF MadeAlone
<1>13. HeldExists'
  BY <1>1, <1>3, <1>7, <1>11 DEF RecInv, HeldExists, Types, ThreadTypes
<1>14. ListsAgree'
  <2>1. \A q \in Recs \ {m} : KeyOf(q)' = KeyOf(q)
    BY <1>7 DEF KeyOf
  <2>2. \A q \in Recs : q \in Listed' <=> fKey'[q] # None /\ fHash'[KeyOf(q)'] = q
    BY <1>1, <1>3, <1>7, <1>11, <2>1 DEF RecInv, ListsAgree, cacheVars
  <2>3. ASSUME NEW k \in Keys, fHash[k] # None PROVE KeyOf(fHash[k])' = k
    <3>1. fHash[k] \in Recs /\ fHash[k] \in Listed /\ KeyOf(fHash[k]) = k
      BY <2>3, HashedIsListed DEF Types, RecInv
    <3>2. fKey'[fHash[k]] = fKey[fHash[k]]
      BY <1>3, <1>7, <3>1
    <3>3. fHash' = fHash
      BY <1>1 DEF cacheVars
    <3> QED
      BY <3>1, <3>2, <3>3 DEF KeyOf
  <2> QED
    BY <1>1, <1>11, <2>2, <2>3 DEF RecInv, ListsAgree, dataVars, cacheVars
<1>15. ThreadTypes'
  BY <1>1, <1>2 DEF Types, ThreadTypes, Labels
<1>16. ASSUME NEW u \in Threads PROVE Place(u)'
  <2>1. CASE u = t
    BY <1>1, <1>2, <1>5, <2>1 DEF Place
  <2>2. CASE u # t
    <3>1. pc'[u] = pc[u] /\ made'[u] = made[u]
      BY <1>5, <2>2
    <3>2. CASE owner = t
      BY <1>1, <2>2, <3>1, <3>2, OthersPlaced DEF Places
    <3>3. CASE UNCHANGED <<owner, cur>>
      <4>1. CASE pc[u] = "reuse"
        <5>1. made[u] \in Recs \ {m}
          BY <1>3, <2>2, <4>1, Names DEF Places, Place
        <5>2. KeyOf(made[u])' = KeyOf(made[u])
          BY <1>7, <3>1, <5>1 DEF KeyOf
        <5> QED
          BY <1>1, <2>2, <3>1, <3>3, <5>2, OthersPlaced DEF Places, cacheVars
      <4>2. CASE pc[u] # "reuse"
        BY <1>1, <2>2, <3>1, <3>3, <4>2 DEF Places, Place, cacheVars
      <4> QED
        BY <4>1, <4>2
    <3> QED
      BY <1>2, <3>2, <3>3
  <2> QED
    BY <2>1, <2>2
<1> QED
  BY <1>8, <1>9, <1>10, <1>12, <1>13, <1>14, <1>15, <1>16
     DEF Types, Places, RecInv, AllCounted

(* add() of a record whose key is not in the cache.                        *)
LEMMA InsertKeeps ==
  ASSUME CacheInv, NEW t \in Threads, NEW rec, rec = made[t], pc[t] = "add",
         fHash[KeyOf(rec)] = None, Insert(t, rec), UNCHANGED <<owner, want>>
  PROVE  CacheInv'
<1> USE DEF CacheInv
<1>1. /\ fLru' = <<rec>> \o fLru /\ fHash' = [fHash EXCEPT ![KeyOf(rec)] = rec]
      /\ IF rec \in Bitmaps THEN Install(rec)
         ELSE UNCHANGED <<poolVars, fDM, fDiscardableIsLocked, fExternalCounter>>
      /\ made' = [made EXCEPT ![t] = None] /\ holds' = [holds EXCEPT ![t] = rec]
      /\ cur' = Len(fLru') /\ pc' = [pc EXCEPT ![t] = "purge"]
      /\ UNCHANGED <<fKey, dataVars>>
      /\ owner = t /\ holds[t] = None /\ rec # None
  BY DEF Insert, Goes, Places, Place
<1>2. /\ rec \in Recs /\ rec \in Blocks /\ rec \notin Listed /\ fKey[rec] # None /\ Counted(rec)
      /\ KeyOf(rec) \in Keys
      /\ \A u \in Threads : holds[u] # rec /\ (u # t => made[u] # rec)
      /\ IF rec \in Bitmaps THEN fDM[rec] ELSE fInCache[rec]
  BY <1>1, KeyIsKey, Names DEF RecInv, AllCounted, MadeAlone, Types, ThreadTypes
<1>3. /\ pc'[t] = "purge" /\ made'[t] = None /\ holds'[t] = rec
      /\ \A u \in Threads : u # t => /\ pc'[u] = pc[u] /\ made'[u] = made[u]
                                     /\ holds'[u] = holds[u]
  BY <1>1 DEF Types, ThreadTypes
<1>4. /\ Owners(rec) = {} /\ Builders(rec) = {t} /\ Owners(rec)' = {t} /\ Builders(rec)' = {}
      /\ \A q \in Recs \ {rec} : Owners(q)' = Owners(q) /\ Builders(q)' = Builders(q)
  <2>1. Owners(rec) = {} /\ Owners(rec)' = {t}
    BY <1>2, <1>3 DEF Owners
  <2>2. Builders(rec) = {t} /\ Builders(rec)' = {}
    BY <1>1, <1>2, <1>3 DEF Builders
  <2>3. ASSUME NEW q \in Recs \ {rec} PROVE Owners(q)' = Owners(q) /\ Builders(q)' = Builders(q)
    <3>1. q # None
      BY Names
    <3> QED
      BY <1>1, <1>3, <3>1 DEF Owners, Builders
  <2> QED
    BY <2>1, <2>2, <2>3
<1>5. Users(rec) = {t} /\ Users(rec)' = {t} /\ Cardinality(Owners(rec)') = 1
      /\ Cardinality(Owners(rec)) = 0
  <2>1. Users(rec) = {t} /\ Users(rec)' = {t}
    BY <1>4 DEF Users
  <2> QED
    BY <1>4, <2>1, OneCard, FS_EmptySet
<1>6. /\ fPointer' = fPointer /\ fDM' = fDM /\ fLocked' \in [Blocks -> BOOLEAN]
      /\ fDiscardableIsLocked' \in [Bitmaps -> BOOLEAN] /\ fExternalCounter' \in [Bitmaps -> Nat]
      /\ \A q \in Recs \ {rec} : fLocked'[q] = fLocked[q]
      /\ \A q \in Bitmaps \ {rec} : /\ fExternalCounter'[q] = fExternalCounter[q]
                                    /\ fDiscardableIsLocked'[q] = fDiscardableIsLocked[q]
      /\ Counted(rec)'
  <2>1. CASE rec \in Bitmaps
    <3>1. /\ fLocked' = [fLocked EXCEPT ![rec] = TRUE] /\ fPointer' = fPointer /\ fPointer[rec]
          /\ fDM' = fDM /\ fDM[rec]
          /\ fDiscardableIsLocked' = [fDiscardableIsLocked EXCEPT ![rec] = TRUE]
          /\ fExternalCounter' = [fExternalCounter EXCEPT ![rec] = fExternalCounter[rec] + 1]
      BY <1>1, <1>2, <2>1, InstallEffect
    <3>2. fExternalCounter[rec] = 0 /\ rec \notin Datas
      BY <1>2, <1>5, <2>1, Names DEF Counted
    <3>3. fLocked'[rec] = TRUE /\ fDiscardableIsLocked'[rec] = TRUE /\ fExternalCounter'[rec] = 1
      BY <1>2, <2>1, <3>1, <3>2 DEF Types, RecTypes
    <3>4. Counted(rec)'
      BY <1>5, <3>1, <3>2, <3>3 DEF Counted
    <3>5. /\ fLocked' \in [Blocks -> BOOLEAN] /\ fDiscardableIsLocked' \in [Bitmaps -> BOOLEAN]
          /\ fExternalCounter' \in [Bitmaps -> Nat]
      <4>1. fExternalCounter[rec] + 1 \in Nat
        BY <3>2
      <4>2. fExternalCounter' \in [Bitmaps -> Nat]
        BY <2>1, <3>1, <4>1 DEF Types, RecTypes
      <4> QED
        BY <1>2, <2>1, <3>1, <4>2 DEF Types, RecTypes
    <3>6. \A q \in Recs \ {rec} : fLocked'[q] = fLocked[q]
      BY <3>1, Names DEF Types, RecTypes
    <3>7. \A q \in Bitmaps \ {rec} : /\ fExternalCounter'[q] = fExternalCounter[q]
                                      /\ fDiscardableIsLocked'[q] = fDiscardableIsLocked[q]
      BY <3>1 DEF Types, RecTypes
    <3> QED
      BY <3>1, <3>4, <3>5, <3>6, <3>7
  <2>2. CASE rec \notin Bitmaps
    <3>1. UNCHANGED <<fPointer, fLocked, fDM, fDiscardableIsLocked, fExternalCounter>>
      BY <1>1, <2>2 DEF poolVars
    <3>2. Counted(rec)'
      BY <1>1, <1>2, <1>5, <2>2, <3>1 DEF Counted, dataVars
    <3> QED
      BY <3>1, <3>2 DEF Types, RecTypes
  <2> QED
    BY <2>1, <2>2
<1>7. ASSUME NEW q \in Recs \ {rec} PROVE Counted(q)'
  <2>1. Same(q)
    BY <1>1, <1>4, <1>6 DEF Same, dataVars
  <2> QED
    BY <2>1, SameCounted DEF RecInv, AllCounted
<1>8. /\ fLru' \in Seq(Recs) /\ Len(fLru') = Len(fLru) + 1 /\ Listed' = Listed \union {rec}
      /\ \A i, j \in DOMAIN fLru' : fLru'[i] = fLru'[j] => i = j
  BY <1>1, <1>2, PutFirst DEF Types, RecTypes, RecInv, ListsAgree, Listed
<1>9. /\ fHash' \in [Keys -> Recs \union {None}] /\ fHash'[KeyOf(rec)] = rec
      /\ \A k \in Keys : k # KeyOf(rec) => fHash'[k] = fHash[k]
  BY <1>1, <1>2 DEF Types, RecTypes
<1>10. RecTypes'
  BY <1>1, <1>6, <1>8, <1>9 DEF Types, RecTypes, DataTypeOK, dataVars
<1>11. MadeAlone'
  <2>1. ASSUME NEW u \in Threads, made'[u] # None
        PROVE  /\ fKey'[made'[u]] # None /\ made'[u] \notin Listed'
               /\ \A v \in Threads : holds'[v] # made'[u]
               /\ pc'[u] # "destroy" =>
                    IF made'[u] \in Bitmaps THEN fDM'[made'[u]] ELSE fInCache'[made'[u]]
    <3>1. u # t /\ made'[u] = made[u] /\ pc'[u] = pc[u] /\ made[u] # rec
      BY <1>2, <1>3, <2>1
    <3>2. \A v \in Threads : holds'[v] # made[u]
      BY <1>3, <2>1, <3>1 DEF RecInv, MadeAlone
    <3> QED
      BY <1>1, <1>6, <1>8, <2>1, <3>1, <3>2 DEF RecInv, MadeAlone, dataVars
  <2>2. \A u, v \in Threads : made'[u] = made'[v] /\ made'[u] # None => u = v
    BY <1>3 DEF RecInv, MadeAlone
  <2> QED
    BY <2>1, <2>2 DEF MadeAlone
<1>12. HeldExists'
  <2>1. ASSUME NEW u \in Threads, holds'[u] # None
        PROVE  fKey'[holds'[u]] # None /\ (holds'[u] \in Bitmaps => holds'[u] \in Listed')
    BY <1>1, <1>2, <1>3, <1>8, <2>1 DEF RecInv, HeldExists
  <2> QED
    BY <2>1 DEF HeldExists
<1>13. ListsAgree'
  <2>1. \A q : KeyOf(q)' = KeyOf(q)
    BY <1>1 DEF KeyOf
  <2>2. ASSUME NEW q \in Recs PROVE q \in Listed' <=> fKey'[q] # None /\ fHash'[KeyOf(q)'] = q
    <3>1. CASE q = rec
      BY <1>1, <1>2, <1>8, <1>9, <2>1, <3>1
    <3>2. CASE q # rec /\ fKey[q] = None
      BY <1>1, <1>8, <3>2 DEF RecInv, ListsAgree
    <3>3. CASE q # rec /\ fKey[q] # None
      <4>1. KeyOf(q) \in Keys
        BY <3>3, KeyIsKey
      <4>2. fHash'[KeyOf(q)] = q <=> fHash[KeyOf(q)] = q
        BY <1>9, <3>3, <4>1, Names
      <4> QED
        BY <1>1, <1>8, <2>1, <3>3, <4>2 DEF RecInv, ListsAgree
    <3> QED
      BY <3>1, <3>2, <3>3
  <2>3. ASSUME NEW k \in Keys, fHash'[k] # None PROVE KeyOf(fHash[k])' = k
    <3>1. KeyOf(fHash'[k]) = k
      BY <1>9, <2>3 DEF RecInv, ListsAgree
    <3> QED
      BY <1>1, <3>1 DEF KeyOf
  <2>4. \A d \in Datas : d \in Listed' => fInCache'[d]
    BY <1>1, <1>2, <1>8, Names DEF RecInv, ListsAgree, dataVars
  <2> QED
    BY <1>8, <2>2, <2>3, <2>4 DEF ListsAgree
<1>14. cur' \in Nat /\ cur' \in DOMAIN fLru'
  <2>1. Len(fLru) \in Nat /\ DOMAIN fLru' = 1 .. Len(fLru')
    BY <1>8, LenProperties DEF Types, RecTypes
  <2> QED
    BY <1>1, <1>8, <2>1
<1>15. ThreadTypes'
  BY <1>1, <1>2, <1>14 DEF Types, ThreadTypes, Labels
<1>16. ASSUME NEW u \in Threads PROVE Place(u)'
  <2>1. CASE u = t
    BY <1>1, <1>3, <1>14, <2>1 DEF Place
  <2>2. CASE u # t
    BY <1>1, <1>3, <2>2, OthersPlaced DEF Places
  <2> QED
    BY <2>1, <2>2
<1> QED
  BY <1>6, <1>7, <1>10, <1>11, <1>12, <1>13, <1>15, <1>16
     DEF Types, Places, RecInv, AllCounted

LEMMA AddKeeps ==
  ASSUME CacheInv, NEW t \in Threads, Add(t)
  PROVE  CacheInv'
<1> USE DEF CacheInv
<1>0. PICK prev : prev = fHash[KeyOf(made[t])]
  OBVIOUS
<1>1. /\ pc[t] = "add" /\ owner = t /\ made[t] # None /\ holds[t] = None
      /\ UNCHANGED <<owner, want>>
  BY DEF Add, Places, Place
<1>2. KeyOf(made[t]) \in Keys /\ made[t] \in Recs
  BY <1>1, KeyIsKey DEF RecInv, MadeAlone, Types, ThreadTypes
<1>3. prev # None => prev \in Recs /\ prev \in Listed /\ KeyOf(prev) = KeyOf(made[t])
                     /\ Counted(prev)
  BY <1>0, <1>2, HashedIsListed DEF Types, RecInv, AllCounted
<1>4. CASE prev = None /\ Insert(t, made[t])
  BY <1>0, <1>1, <1>4, InsertKeeps
<1>5. CASE prev # None /\ CanBePurged(prev) /\ RemoveRec(prev) /\ UNCHANGED <<pc, cur, made, holds>>
  <2>1. prev \in Bitmaps => Owners(prev) = {}
    BY <1>3, <1>5, NobodyHolds
  <2>2. RecTypes' /\ RecInv'
    BY <1>3, <1>5, <2>1, RemovedKeeps
  <2>3. ThreadTypes'
    BY <1>1, <1>5 DEF Types, ThreadTypes
  <2>4. ASSUME NEW u \in Threads PROVE Place(u)'
    <3>1. CASE u = t
      BY <1>1, <1>5, <3>1 DEF Places, Place
    <3>2. CASE u # t
      BY <1>1, <1>5, <3>2, OthersPlaced DEF Places
    <3> QED
      BY <3>1, <3>2
  <2> QED
    BY <2>2, <2>3, <2>4 DEF Types, Places
<1>6. CASE /\ prev # None /\ ~CanBePurged(prev) /\ pc' = [pc EXCEPT ![t] = "reuse"]
           /\ UNCHANGED <<poolVars, dataVars, recVars, cacheVars, cur, made, holds>>
  <2>1. \A u \in Threads : pc'[u] = "destroy" <=> pc[u] = "destroy"
    BY <1>1, <1>6 DEF Types, ThreadTypes
  <2>2. RecTypes' /\ RecInv'
    BY <1>6, <2>1, StillKeeps
  <2>3. ThreadTypes'
    BY <1>1, <1>6 DEF Types, ThreadTypes, Labels
  <2>4. prev \in Bitmaps /\ made[t] \in Bitmaps
    <3>1. prev \in Bitmaps
      BY <1>6 DEF CanBePurged
    <3>2. Kind(made[t]) = Kind(prev)
      BY <1>3, <1>6 DEF KeyOf
    <3> QED
      BY <3>1, <3>2 DEF Kind
  <2>5. fHash[KeyOf(made[t])]' = prev
    BY <1>0, <1>6 DEF KeyOf, recVars, cacheVars
  <2>6. ASSUME NEW u \in Threads PROVE Place(u)'
    <3>1. CASE u = t
      <4>1. pc'[t] = "reuse"
        BY <1>6 DEF Types, ThreadTypes
      <4>2. /\ made'[t] # None /\ holds'[t] = None /\ made'[t] \in Bitmaps /\ owner' = t
            /\ fHash[KeyOf(made[t])]' \in Bitmaps
        BY <1>1, <1>6, <2>4, <2>5
      <4> QED
        BY <3>1, <4>1, <4>2 DEF Place
    <3>2. CASE u # t
      <4>1. pc'[u] = pc[u]
        BY <1>6, <3>2 DEF Types, ThreadTypes
      <4> QED
        BY <1>1, <1>6, <3>2, <4>1, OthersPlaced DEF Places
    <3> QED
      BY <3>1, <3>2
  <2> QED
    BY <2>2, <2>3, <2>6 DEF Types, Places
<1> QED
  BY <1>0, <1>4, <1>5, <1>6 DEF Add, Goes
-----------------------------------------------------------------------------
(* A client is done with a record.                                         *)
LEMMA LeftAlone ==
  ASSUME NEW r, NEW t \in Owners(r), Owners(r)' = Owners(r) \ {t}
  PROVE  /\ Cardinality(Owners(r)) \in Nat \ {0} /\ Cardinality(Owners(r)') \in Nat
         /\ Cardinality(Owners(r)') = Cardinality(Owners(r)) - 1
         /\ Cardinality(Owners(r)) = 1 <=> Owners(r)' = {}
<1>1. IsFiniteSet(Owners(r)) /\ IsFiniteSet(Owners(r)')
      /\ Cardinality(Owners(r)') = Cardinality(Owners(r)) - 1
  BY UsersFinite, FS_RemoveElement
<1>2. Cardinality(Owners(r)) \in Nat /\ Cardinality(Owners(r)') \in Nat
  BY <1>1, FS_CardinalityType
<1>3. Cardinality(Owners(r)') = 0 <=> Owners(r)' = {}
  BY <1>1, FS_EmptySet
<1> QED
  BY <1>1, <1>2, <1>3

(* What leaving does, in common: the record's block stays locked as long   *)
(* as somebody else has it; nothing else changes.                          *)
LEMMA LeaveKeeps ==
  ASSUME CacheInv, NEW t \in Threads, NEW r \in Recs, r = holds[t], pc[t] = "has",
         holds' = [holds EXCEPT ![t] = None], UNCHANGED <<fKey, fDM, fInCache, cacheVars>>,
         Owners(r)' = Owners(r) \ {t}, Counted(r)', RecTypes',
         \A q \in Recs \ {r} :
           /\ fLocked'[q] = fLocked[q] /\ (fLocked[q] /\ fPointer[q] => fPointer'[q])
           /\ q \in Bitmaps => /\ fExternalCounter'[q] = fExternalCounter[q]
                               /\ fDiscardableIsLocked'[q] = fDiscardableIsLocked[q]
           /\ q \in Datas => /\ fIsLocked'[q] = fIsLocked[q] /\ fData'[q] = fData[q]
                             /\ fRefCnt'[q] = fRefCnt[q],
         \/ pc' = [pc EXCEPT ![t] = "idle"] /\ made' = made
         \/ /\ pc' = [pc EXCEPT ![t] = "destroy"] /\ made' = [made EXCEPT ![t] = r]
            /\ r \notin Listed /\ Owners(r)' = {},
         UNCHANGED <<owner, cur, want>>
  PROVE  CacheInv'
<1> USE DEF CacheInv
<1>1. made[t] = None /\ r # None /\ fKey[r] # None /\ \A u \in Threads : made[u] # r
  BY Names DEF Places, Place, RecInv, MadeAlone, HeldExists
<1>2. /\ holds'[t] = None
      /\ \A u \in Threads : u # t => /\ holds'[u] = holds[u] /\ pc'[u] = pc[u]
                                     /\ made'[u] = made[u]
      /\ \/ pc'[t] = "idle" /\ made'[t] = None
         \/ pc'[t] = "destroy" /\ made'[t] = r /\ r \notin Listed /\ Owners(r)' = {}
  BY <1>1 DEF Types, ThreadTypes
<1>3. ASSUME NEW q \in Recs \ {r} PROVE Counted(q)'
  <2>1. Owners(q)' = Owners(q)
    BY <1>2, Names DEF Owners
  <2>2. Builders(q)' = Builders(q)
    BY <1>1, <1>2, Names DEF Builders
  <2>3. Same(q)
    BY <2>1, <2>2 DEF Same
  <2> QED
    BY <2>3, SameCounted DEF RecInv, AllCounted
<1>4. Listed' = Listed /\ fLru' = fLru /\ fHash' = fHash
  BY DEF Listed, cacheVars
<1>5. MadeAlone'
  <2>1. ASSUME NEW u \in Threads, made'[u] # None
        PROVE  /\ fKey'[made'[u]] # None /\ made'[u] \notin Listed
               /\ \A v \in Threads : holds'[v] # made'[u]
               /\ pc'[u] # "destroy" =>
                    IF made'[u] \in Bitmaps THEN fDM'[made'[u]] ELSE fInCache'[made'[u]]
    <3>1. CASE u = t
      <4>1. pc'[t] = "destroy" /\ made'[t] = r /\ r \notin Listed /\ Owners(r)' = {}
        BY <1>2, <2>1, <3>1
      <4>2. \A v \in Threads : holds'[v] # r
        BY <4>1 DEF Owners
      <4> QED
        BY <1>1, <3>1, <4>1, <4>2
    <3>2. CASE u # t
      BY <1>2, <2>1, <3>2 DEF RecInv, MadeAlone
    <3> QED
      BY <3>1, <3>2
  <2>2. \A u, v \in Threads : made'[u] = made'[v] /\ made'[u] # None => u = v
    BY <1>1, <1>2 DEF RecInv, MadeAlone
  <2> QED
    BY <1>4, <2>1, <2>2 DEF MadeAlone
<1>6. HeldExists'
  BY <1>2, <1>4 DEF RecInv, HeldExists
<1>7. ListsAgree'
  <2>1. \A q : KeyOf(q)' = KeyOf(q)
    BY DEF KeyOf
  <2> QED
    BY <1>4, <2>1 DEF RecInv, ListsAgree
<1>8. ThreadTypes'
  BY DEF Types, ThreadTypes, Labels
<1>9. ASSUME NEW u \in Threads PROVE Place(u)'
  <2>1. CASE u = t
    BY <1>1, <1>2, <2>1 DEF Place
  <2>2. CASE u # t
    <3>1. /\ pc'[u] = pc[u] /\ made'[u] = made[u] /\ holds'[u] = holds[u]
          /\ KeyOf(made[u])' = KeyOf(made[u])
      BY <1>2, <2>2 DEF KeyOf
    <3> QED
      BY <1>4, <2>2, <3>1, OthersPlaced DEF Places
  <2> QED
    BY <2>1, <2>2
<1> QED
  BY <1>3, <1>5, <1>6, <1>7, <1>8, <1>9 DEF Types, Places, RecInv, AllCounted

LEMMA DropKeeps ==
  ASSUME CacheInv, NEW t \in Threads, Drop(t)
  PROVE  CacheInv'
<1> USE DEF CacheInv
<1>0. PICK r : r = holds[t]
  OBVIOUS
<1>1. /\ pc[t] = "has" /\ r # None /\ r \in Recs /\ r \in Blocks /\ Counted(r)
      /\ holds' = [holds EXCEPT ![t] = None]
      /\ UNCHANGED <<fKey, fDM, cacheVars, owner, cur, want>>
  BY <1>0, Names DEF Drop, Places, Place, Types, ThreadTypes, RecInv, AllCounted, mutexVars
<1>2. t \in Owners(r) /\ Owners(r)' = Owners(r) \ {t} /\ Builders(r) = {}
  <2>1. t \in Owners(r)
    BY <1>0 DEF Owners
  <2>2. Owners(r)' = Owners(r) \ {t}
    BY <1>1 DEF Owners, Types, ThreadTypes
  <2>3. Builders(r) = {}
    BY <1>0, <1>1 DEF Builders, RecInv, MadeAlone
  <2> QED
    BY <2>1, <2>2, <2>3
<1>3. /\ Cardinality(Owners(r)) \in Nat \ {0} /\ Cardinality(Owners(r)') \in Nat
      /\ Cardinality(Owners(r)') = Cardinality(Owners(r)) - 1
      /\ Cardinality(Owners(r)) = 1 <=> Owners(r)' = {}
  BY <1>2, LeftAlone
<1>4. Users(r) = Owners(r) /\ fLocked[r] = TRUE /\ fPointer[r]
  <2>1. Users(r) = Owners(r)
    BY <1>2 DEF Users
  <2> QED
    BY <1>1, <1>2, <2>1 DEF Counted, Types, RecTypes
<1>5. CASE r \in Bitmaps
  <2>1. /\ fExternalCounter' = [fExternalCounter EXCEPT ![r] = @ - 1]
        /\ IF fExternalCounter[r] = 1 /\ fDM[r]
           THEN /\ PoolUnlock(r)
                /\ fDiscardableIsLocked' = [fDiscardableIsLocked EXCEPT ![r] = FALSE]
           ELSE UNCHANGED <<poolVars, fDiscardableIsLocked>>
        /\ pc' = [pc EXCEPT ![t] = "idle"] /\ UNCHANGED <<dataVars, made>>
    BY <1>0, <1>5 DEF Drop, ReleaseProc, Goes
  <2>2. /\ fExternalCounter[r] = Cardinality(Owners(r)) /\ fDM[r] /\ r \notin Datas
        /\ fDiscardableIsLocked[r] = fLocked[r]
    BY <1>1, <1>2, <1>5, Names DEF Counted
  <2>3. Builders(r)' = {}
    BY <1>0, <1>1, <2>1 DEF Builders, RecInv, MadeAlone
  <2>4. Users(r)' = Owners(r)'
    BY <2>3 DEF Users
  <2>5. /\ fLocked' \in [Blocks -> BOOLEAN] /\ fPointer' \in [Blocks -> BOOLEAN]
        /\ fDiscardableIsLocked' \in [Bitmaps -> BOOLEAN]
        /\ fLocked'[r] <=> Owners(r)' # {}
        /\ fLocked'[r] => fPointer'[r]
        /\ fDiscardableIsLocked'[r] = fLocked'[r]
        /\ \A c \in Blocks \ {r} : fLocked'[c] = fLocked[c] /\ (fLocked[c] /\ fPointer[c] => fPointer'[c])
        /\ \A c \in Bitmaps \ {r} : fDiscardableIsLocked'[c] = fDiscardableIsLocked[c]
    <3>1. CASE fExternalCounter[r] = 1
      <4>1. Owners(r)' = {}
        BY <1>3, <2>2, <3>1
      <4>2. /\ fLocked' = [fLocked EXCEPT ![r] = FALSE] /\ fPointer' \in [Blocks -> BOOLEAN]
            /\ \A c \in Blocks : c # r /\ fLocked[c] /\ fPointer[c] => fPointer'[c]
        BY <1>1, <2>1, <2>2, <3>1, UnlockEffect
      <4>3. fDiscardableIsLocked' = [fDiscardableIsLocked EXCEPT ![r] = FALSE]
        BY <2>1, <2>2, <3>1
      <4> QED
        BY <1>1, <1>5, <4>1, <4>2, <4>3 DEF Types, RecTypes
    <3>2. CASE fExternalCounter[r] # 1
      <4>1. Owners(r)' # {}
        BY <1>3, <2>2, <3>2
      <4>2. UNCHANGED <<fLocked, fPointer, fDiscardableIsLocked>>
        BY <2>1, <3>2 DEF poolVars
      <4> QED
        BY <1>4, <2>2, <4>1, <4>2 DEF Types, RecTypes
    <3> QED
      BY <3>1, <3>2
  <2>6. /\ fExternalCounter' \in [Bitmaps -> Nat] /\ fExternalCounter'[r] = Cardinality(Owners(r)')
        /\ \A c \in Bitmaps \ {r} : fExternalCounter'[c] = fExternalCounter[c]
    BY <1>3, <1>5, <2>1, <2>2 DEF Types, RecTypes
  <2>7. Counted(r)'
    BY <1>1, <2>2, <2>4, <2>5, <2>6 DEF Counted
  <2>8. RecTypes'
    BY <1>1, <2>1, <2>5, <2>6 DEF Types, RecTypes, DataTypeOK, dataVars, cacheVars
  <2>9. \A q \in Recs \ {r} :
           /\ fLocked'[q] = fLocked[q] /\ (fLocked[q] /\ fPointer[q] => fPointer'[q])
           /\ q \in Bitmaps => /\ fExternalCounter'[q] = fExternalCounter[q]
                               /\ fDiscardableIsLocked'[q] = fDiscardableIsLocked[q]
           /\ q \in Datas => /\ fIsLocked'[q] = fIsLocked[q] /\ fData'[q] = fData[q]
                             /\ fRefCnt'[q] = fRefCnt[q]
    BY <2>1, <2>5, <2>6, Names DEF dataVars
  <2>10. fInCache' = fInCache
    BY <2>1 DEF dataVars
  <2> QED
    BY <1>0, <1>1, <1>2, <2>1, <2>7, <2>8, <2>9, <2>10, LeaveKeeps
<1>6. CASE r \in Datas
  <2>1. /\ Unref(r, FALSE)
        /\ IF fRefCnt[r] = 1
           THEN pc' = [pc EXCEPT ![t] = "destroy"] /\ made' = [made EXCEPT ![t] = r]
           ELSE pc' = [pc EXCEPT ![t] = "idle"] /\ UNCHANGED made
        /\ UNCHANGED <<fDiscardableIsLocked, fExternalCounter>>
    BY <1>0, <1>6, Names DEF Drop, Goes
  <2>2. /\ r \notin Bitmaps /\ fIsLocked[r] = TRUE /\ fData[r] = TRUE
        /\ fRefCnt[r] = Cardinality(Owners(r)) + IF fInCache[r] THEN 1 ELSE 0
        /\ fInCache[r] \in BOOLEAN
    BY <1>1, <1>4, <1>6, Names DEF Counted, Types, RecTypes, DataTypeOK
  <2>3. UnrefUnlocks(r, FALSE) <=> Owners(r)' = {}
    BY <1>3, <2>2 DEF UnrefUnlocks
  <2>4. /\ fRefCnt' = [fRefCnt EXCEPT ![r] = fRefCnt[r] - 1] /\ fInCache' = fInCache
        /\ fIsLocked' = [fIsLocked EXCEPT ![r] = Owners(r)' # {}]
        /\ fData' = [fData EXCEPT ![r] = Owners(r)' # {}]
        /\ IF Owners(r)' = {} THEN PoolUnlock(r) ELSE UNCHANGED poolVars
    BY <1>6, <2>1, <2>2, <2>3 DEF Unref, UnrefCounts, Types, RecTypes, DataTypeOK
  <2>5. /\ fLocked' = [fLocked EXCEPT ![r] = Owners(r)' # {}] /\ fPointer' \in [Blocks -> BOOLEAN]
        /\ \A c \in Blocks : c # r /\ fLocked[c] /\ fPointer[c] => fPointer'[c]
        /\ Owners(r)' # {} => fPointer'[r]
    <3>1. CASE Owners(r)' = {}
      BY <1>1, <2>4, <3>1, UnlockEffect
    <3>2. CASE Owners(r)' # {}
      BY <1>1, <1>4, <2>4, <3>2 DEF poolVars, Types, RecTypes
    <3> QED
      BY <3>1, <3>2
  <2>6. Builders(r)' = {}
    BY <1>0, <1>1, <2>1 DEF Builders, RecInv, MadeAlone, Types, ThreadTypes
  <2>7. Users(r)' = Owners(r)'
    BY <2>6 DEF Users
  <2>8. fRefCnt[r] - 1 \in Nat /\ fRefCnt[r] - 1 = Cardinality(Owners(r)') + IF fInCache[r] THEN 1 ELSE 0
    BY <1>3, <2>2
  <2>9. /\ DataTypeOK' /\ fRefCnt'[r] = fRefCnt[r] - 1
        /\ (fIsLocked'[r] <=> Owners(r)' # {}) /\ (fData'[r] <=> Owners(r)' # {})
        /\ \A d \in Datas \ {r} : /\ fIsLocked'[d] = fIsLocked[d] /\ fData'[d] = fData[d]
                                  /\ fRefCnt'[d] = fRefCnt[d]
    BY <1>6, <2>4, <2>8 DEF Types, RecTypes, DataTypeOK
  <2>10. /\ fLocked' \in [Blocks -> BOOLEAN] /\ (fLocked'[r] <=> Owners(r)' # {})
         /\ \A q \in Blocks \ {r} : fLocked'[q] = fLocked[q]
    BY <1>1, <2>5 DEF Types, RecTypes
  <2>11. fIsLocked'[r] = fLocked'[r] /\ fData'[r] = fLocked'[r]
    BY <1>1, <1>6, <2>9, <2>10 DEF DataTypeOK
  <2>12. fRefCnt'[r] = Cardinality(Users(r)') + IF fInCache'[r] THEN 1 ELSE 0
    BY <2>4, <2>7, <2>8, <2>9
  <2>13. Counted(r)'
    BY <2>2, <2>5, <2>7, <2>10, <2>11, <2>12 DEF Counted
  <2>14. RecTypes'
    BY <1>1, <2>1, <2>5, <2>9, <2>10 DEF Types, RecTypes, cacheVars
  <2>15. \A q \in Recs \ {r} :
           /\ fLocked'[q] = fLocked[q] /\ (fLocked[q] /\ fPointer[q] => fPointer'[q])
           /\ q \in Bitmaps => /\ fExternalCounter'[q] = fExternalCounter[q]
                               /\ fDiscardableIsLocked'[q] = fDiscardableIsLocked[q]
           /\ q \in Datas => /\ fIsLocked'[q] = fIsLocked[q] /\ fData'[q] = fData[q]
                             /\ fRefCnt'[q] = fRefCnt[q]
    BY <2>1, <2>5, <2>9, <2>10, Names
  <2>16. fRefCnt[r] = 1 => r \notin Listed /\ Owners(r)' = {}
    <3>1. r \in Listed => fInCache[r]
      BY <1>6 DEF RecInv, ListsAgree
    <3> QED
      BY <1>3, <2>2, <3>1
  <2> QED
    BY <1>0, <1>1, <1>2, <2>1, <2>4, <2>13, <2>14, <2>15, <2>16, LeaveKeeps
<1> QED
  BY <1>1, <1>5, <1>6, Names
-----------------------------------------------------------------------------
(* What holds at every point of every run: who is where with what, and the *)
(* lists, locks and counts that belong to it (add, find, remove, install   *)
(* and ReleaseProc, and inMutexRef and inMutexUnref of cached data).       *)
THEOREM CacheInvariance == Spec => []CacheInv
<1>1. Init => CacheInv
  BY InitHolds
<1>2. CacheInv /\ [Next]_vars => CacheInv'
  <2> SUFFICES ASSUME CacheInv, [Next]_vars PROVE CacheInv'
    OBVIOUS
  <2>1. ASSUME NEW t \in Threads, NEW key \in Keys \union {None}, Enter(t, key) PROVE CacheInv'
    BY <2>1, EnterKeeps
  <2>2. ASSUME NEW t \in Threads,
               Sweep(t) \/ Find(t) \/ Alloc(t) \/ Add(t) \/ Reuse(t) \/ Discard(t)
                 \/ Destroy(t) \/ PurgeAll(t) \/ Purge(t) \/ Drop(t)
        PROVE  CacheInv'
    BY <2>2, SweepKeeps, FindKeeps, AllocKeeps, AddKeeps, ReuseKeeps, DiscardKeeps,
       DestroyKeeps, PurgeAllKeeps, PurgeKeeps, DropKeeps
  <2>3. ASSUME NEW t \in Threads, NEW u \in Threads, Share(t, u) PROVE CacheInv'
    BY <2>3, ShareKeeps
  <2>4. ASSUME NEW image \in Images, PostPurgeSharedID(image) PROVE CacheInv'
    BY <2>4, PostKeeps
  <2>5. CASE Shrink
    BY <2>5, ShrinkKeeps
  <2>6. CASE UNCHANGED vars
    <3>1. UNCHANGED <<poolVars, dataVars, recVars, cacheVars, owner, cur, pc, want, made, holds>>
      BY <2>6 DEF vars, mutexVars, threadVars
    <3>2. RecTypes' /\ RecInv'
      BY <3>1, StillKeeps DEF CacheInv
    <3>3. ThreadTypes' /\ Places'
      BY <3>1 DEF CacheInv, Types, ThreadTypes, Places, Place, KeyOf, recVars, cacheVars
    <3> QED
      BY <3>2, <3>3 DEF CacheInv, Types
  <2> QED
    BY <2>1, <2>2, <2>3, <2>4, <2>5, <2>6 DEF Next
<1> QED
  BY <1>1, <1>2, PTL DEF Spec

(* A block is locked exactly while a thread sees its memory, and then the  *)
(* pool has not taken it: for any threads, records, sizes and budgets.     *)
THEOREM SeenIsLocked == Spec => []LockedWhileSeen
<1>1. CacheInv => LockedWhileSeen
  <2> SUFFICES ASSUME CacheInv, NEW r \in Recs
               PROVE  /\ fLocked[r] <=> Owners(r) \union Builders(r) # {}
                      /\ fLocked[r] => fPointer[r] /\ fKey[r] # None
    BY DEF LockedWhileSeen
  <2>1. (fLocked[r] <=> Users(r) # {}) /\ (fLocked[r] => fPointer[r])
    BY DEF CacheInv, RecInv, AllCounted, Counted
  <2>2. ASSUME NEW t \in Users(r) PROVE fKey[r] # None
    <3>1. t \in Threads /\ (holds[t] = r \/ made[t] = r) /\ r # None
      BY Names DEF Users, Owners, Builders
    <3> QED
      BY <3>1 DEF CacheInv, RecInv, HeldExists, MadeAlone
  <2> QED
    BY <2>1, <2>2 DEF Users
<1> QED
  BY <1>1, CacheInvariance, PTL

(* Threads that have bitmaps of one image share one record: find() and     *)
(* add() do not give out a second one while the first is in use.           *)
OneRecordInUse == \A t, u \in Threads :
  holds[t] \in Bitmaps /\ holds[u] \in Bitmaps /\ fKey[holds[t]] = fKey[holds[u]]
    => holds[t] = holds[u]

THEOREM ClientsShare == Spec => []OneRecordInUse
<1>1. CacheInv => OneRecordInUse
  <2> SUFFICES ASSUME CacheInv, NEW t \in Threads, NEW u \in Threads,
                      holds[t] \in Bitmaps, holds[u] \in Bitmaps,
                      fKey[holds[t]] = fKey[holds[u]]
               PROVE  holds[t] = holds[u]
    BY DEF OneRecordInUse
  <2>1. /\ holds[t] \in Recs /\ holds[t] \in Listed
        /\ holds[u] \in Recs /\ holds[u] \in Listed
    BY Names DEF CacheInv, RecInv, HeldExists
  <2>2. KeyOf(holds[t]) = KeyOf(holds[u])
    BY DEF KeyOf, Kind
  <2>3. fHash[KeyOf(holds[t])] = holds[t] /\ fHash[KeyOf(holds[u])] = holds[u]
    BY <2>1 DEF CacheInv, RecInv, ListsAgree
  <2> QED
    BY <2>2, <2>3
<1> QED
  BY <1>1, CacheInvariance, PTL
-----------------------------------------------------------------------------
(* Bytes of blocks.                                                        *)
LEMMA BytesAreTotal ==
  ASSUME NEW S, IsFiniteSet(S)
  PROVE  BytesOf(S) = Total(Bytes, S)
<1>1. BytesOf(S) = (CHOOSE g : Folds(g, Bytes, S))[S]
  BY DEF BytesOf, MapThenSumSet, MapThenFoldSet, Folds, Some, Less
<1>2. Folds(Fold(Bytes, S), Bytes, S)
  BY FoldExists
<1>3. Folds(CHOOSE g : Folds(g, Bytes, S), Bytes, S)
  BY <1>2, Zenon
<1> QED
  BY <1>1, <1>3, TotalIsFold

LEMMA BlocksFinite ==
  ASSUME NEW S \in SUBSET Blocks
  PROVE  IsFiniteSet(S) /\ \A b \in S : Bytes[b] \in Nat \ {0}
BY PoolAssumption, FS_Subset

LEMMA BytesEmpty == BytesOf({}) = 0
BY BytesAreTotal, TotalEmpty, FS_EmptySet

LEMMA BytesPlus ==
  ASSUME NEW S \in SUBSET Blocks, NEW b \in Blocks, b \notin S
  PROVE  BytesOf(S \union {b}) = BytesOf(S) + Bytes[b]
<1>1. IsFiniteSet(S) /\ IsFiniteSet(S \union {b}) /\ \A c \in S \union {b} : Bytes[c] \in Nat
  BY BlocksFinite, FS_AddElement
<1>2. Total(Bytes, S \union {b}) = Bytes[b] + Total(Bytes, S)
  BY <1>1, TotalAdd
<1>3. Total(Bytes, S) \in Nat /\ Bytes[b] \in Nat
  BY <1>1, TotalType
<1> QED
  BY <1>1, <1>2, <1>3, BytesAreTotal

LEMMA BytesMinus ==
  ASSUME NEW S \in SUBSET Blocks, NEW T \in SUBSET S
  PROVE  /\ BytesOf(S \ T) = BytesOf(S) - BytesOf(T)
         /\ BytesOf(T) <= BytesOf(S) /\ BytesOf(T) \in Nat /\ BytesOf(S) \in Nat
<1>1. IsFiniteSet(S) /\ IsFiniteSet(T) /\ IsFiniteSet(S \ T) /\ \A c \in S : Bytes[c] \in Nat
  BY BlocksFinite, FS_Subset
<1>2. /\ Total(Bytes, S \ T) = Total(Bytes, S) - Total(Bytes, T)
      /\ Total(Bytes, T) <= Total(Bytes, S)
      /\ Total(Bytes, T) \in Nat /\ Total(Bytes, S) \in Nat
  BY <1>1, TotalMinus
<1> QED
  BY <1>1, <1>2, BytesAreTotal

LEMMA BytesLess ==
  ASSUME NEW S \in SUBSET Blocks, NEW b \in S
  PROVE  BytesOf(S \ {b}) = BytesOf(S) - Bytes[b] /\ BytesOf(S \ {b}) \in Nat
<1>1. b \notin S \ {b} /\ (S \ {b}) \union {b} = S
  OBVIOUS
<1>2. BytesOf(S) = BytesOf(S \ {b}) + Bytes[b]
  BY <1>1, BytesPlus
<1>3. BytesOf(S \ {b}) \in Nat /\ Bytes[b] \in Nat
  BY BytesMinus, BlocksFinite
<1> QED
  BY <1>2, <1>3
-----------------------------------------------------------------------------
(* Blocks taken out of the list of the pool, or put first.                 *)
Once(list) == list \in Seq(Blocks) /\ \A i, j \in DOMAIN list : list[i] = list[j] => i = j

LEMMA WithoutList ==
  ASSUME NEW list, Once(list), NEW gone
  PROVE  Once(Omit(list, gone)) /\ ToSet(Omit(list, gone)) = ToSet(list) \ gone
<1> DEFINE R == Omit(list, gone)
<1>0. list \in Seq(Blocks) /\ \A i, j \in DOMAIN list : list[i] = list[j] => i = j
  BY DEF Once
<1>1. /\ R \in Seq(Blocks) /\ \A i, j \in DOMAIN R : R[i] = R[j] => i = j
      /\ {R[i] : i \in DOMAIN R} = {list[i] : i \in DOMAIN list} \ gone
  BY <1>0, OmitOnce
<1> HIDE DEF R
<1> QED
  BY <1>1 DEF Once, ToSet, R

LEMMA FirstInList ==
  ASSUME NEW list, Once(list), NEW b \in Blocks, b \notin ToSet(list)
  PROVE  Once(<<b>> \o list) /\ ToSet(<<b>> \o list) = ToSet(list) \union {b}
<1>1. list \in Seq(Recs) /\ b \in Recs
  BY Names DEF Once
<1> QED
  BY <1>1, Names, PutFirst DEF Once

LEMMA ListedBlocks ==
  ASSUME NEW list, Once(list)
  PROVE  /\ ToSet(list) \in SUBSET Blocks /\ Len(list) \in Nat /\ DOMAIN list = 1 .. Len(list)
         /\ \A i \in DOMAIN list : list[i] \in ToSet(list)
<1>1. Len(list) \in Nat /\ DOMAIN list = 1 .. Len(list) /\ \A i \in 1 .. Len(list) : list[i] \in Blocks
  BY LenProperties, ElementOfSeq DEF Once
<1> QED
  BY <1>1 DEF ToSet

(* A dump goes on until the rest is within the budget or all locked: the   *)
(* unlocked blocks after the last one it leaves are all purged.            *)
LEMMA DumpAgrees ==
  ASSUME NEW budget \in Nat, NEW list, Once(list),
         NEW pointer \in [Blocks -> BOOLEAN], NEW locked \in [Blocks -> BOOLEAN],
         NEW used, used = BytesOf(ToSet(list)), ToSet(list) = {b \in Blocks : pointer[b]},
         DumpDownTo(budget, list, used, pointer, locked)
  PROVE  /\ Once(fList') /\ fLocked' = locked /\ fPointer' \in [Blocks -> BOOLEAN]
         /\ ToSet(fList') = {b \in Blocks : fPointer'[b]}
         /\ ToSet(fList') \subseteq ToSet(list)
         /\ fUsed' = BytesOf(ToSet(fList')) /\ fUsed' \in Nat
         /\ fUsed' > budget => \A b \in ToSet(fList') : fLocked'[b]
<1> DEFINE gone == Dumped(list, locked, used, budget)
           After(i) == {list[j] : j \in {k \in i .. Len(list) : ~locked[list[k]]}}
           left == ToSet(list) \ gone
<1>1. /\ ToSet(list) \in SUBSET Blocks /\ Len(list) \in Nat /\ DOMAIN list = 1 .. Len(list)
      /\ \A i \in DOMAIN list : list[i] \in ToSet(list)
  BY ListedBlocks
<1>2. gone = {list[i] : i \in {k \in DOMAIN list :
                ~locked[list[k]] /\ used - BytesOf(After(k + 1)) > budget}}
  BY DEF Dumped
<1>3. /\ fList' = Omit(list, gone) /\ fUsed' = used - BytesOf(gone) /\ fLocked' = locked
      /\ fPointer' = [b \in Blocks |-> pointer[b] /\ b \notin gone]
  BY DEF DumpDownTo
<1>4. gone \in SUBSET ToSet(list)
  <2> HIDE DEF gone, After
  <2> QED
    BY <1>1, <1>2
<1>5. Once(fList') /\ ToSet(fList') = left
  BY <1>3, WithoutList
<1>6. /\ BytesOf(left) = BytesOf(ToSet(list)) - BytesOf(gone)
      /\ BytesOf(gone) \in Nat /\ BytesOf(ToSet(list)) \in Nat /\ BytesOf(gone) <= BytesOf(ToSet(list))
  BY <1>1, <1>4, BytesMinus
<1>7. fUsed' = BytesOf(left) /\ fUsed' \in Nat
  <2> DEFINE all == BytesOf(ToSet(list))
             less == BytesOf(gone)
             rest == BytesOf(left)
  <2>1. fUsed' = all - less
    BY <1>3
  <2>2. rest = all - less /\ less \in Nat /\ all \in Nat /\ less <= all
    BY <1>6
  <2>3. fUsed' = rest /\ fUsed' \in Nat
    <3> HIDE DEF all, less, rest
    <3> QED
      BY <2>1, <2>2
  <2> QED
    BY <2>3
<1>8. fPointer' \in [Blocks -> BOOLEAN] /\ left = {b \in Blocks : fPointer'[b]}
  <2> HIDE DEF gone
  <2> QED
    BY <1>1, <1>3
<1>9. ASSUME fUsed' > budget, NEW b \in left, ~locked[b] PROVE FALSE
  <2> DEFINE K == {k \in 1 .. Len(list) : list[k] \in left /\ ~locked[list[k]]}
  <2>1. K \in SUBSET (0 .. Len(list))
    OBVIOUS
  <2>2. K # {}
    <3>1. b \in ToSet(list)
      BY <1>9
    <3>2. PICK i \in 1 .. Len(list) : list[i] = b
      BY <1>1, <3>1 DEF ToSet
    <3>3. list[i] \in left /\ ~locked[list[i]]
      BY <1>9, <3>2
    <3> HIDE DEF left
    <3>4. i \in K
      BY <3>3
    <3> QED
      BY <3>4
  <2>3. PICK k \in K : \A j \in K : j <= k
    <3> HIDE DEF K
    <3> QED
      BY <1>1, <2>1, <2>2, LastOf
  <2>4. k \in 1 .. Len(list) /\ list[k] \in left /\ ~locked[list[k]] /\ k \in Int
    OBVIOUS
  <2>5. ~(used - BytesOf(After(k + 1)) > budget)
    <3> HIDE DEF After
    <3> QED
      BY <1>1, <1>2, <2>4
  <2>6. After(k + 1) \in SUBSET gone
    <3> SUFFICES ASSUME NEW j \in k + 1 .. Len(list), ~locked[list[j]] PROVE list[j] \in gone
      OBVIOUS
    <3>1. j \in 1 .. Len(list) /\ ~(j <= k)
      BY <2>4
    <3>2. j \notin K
      BY <2>3, <3>1
    <3> HIDE DEF gone
    <3> QED
      BY <1>1, <3>1, <3>2
  <2>7. BytesOf(After(k + 1)) <= BytesOf(gone) /\ BytesOf(After(k + 1)) \in Nat
    <3>1. gone \in SUBSET Blocks
      BY <1>1, <1>4
    <3> HIDE DEF gone, After
    <3> QED
      BY <2>6, <3>1, BytesMinus
  <2> DEFINE a == BytesOf(After(k + 1))
             g == BytesOf(gone)
  <2>8. a <= g /\ a \in Nat /\ g \in Nat /\ used \in Nat /\ ~(used - a > budget) /\ used - g > budget
    BY <1>3, <1>6, <1>9, <2>5, <2>7
  <2> HIDE DEF a, g
  <2> QED
    BY ONLY <2>8, budget \in Nat
<1> HIDE DEF gone
<1> QED
  BY <1>3, <1>5, <1>7, <1>8, <1>9

PoolInv == PoolTypeOK /\ PoolAgrees

LEMMA PoolIs ==
  PoolInv <=>
    /\ Once(fList) /\ fUsed \in Nat /\ fBudget \in Budgets
    /\ fPointer \in [Blocks -> BOOLEAN] /\ fLocked \in [Blocks -> BOOLEAN]
    /\ ToSet(fList) = {b \in Blocks : fPointer[b]}
    /\ fUsed = BytesOf(ToSet(fList))
    /\ fUsed > fBudget => \A b \in ToSet(fList) : fLocked[b]
BY DEF PoolInv, PoolTypeOK, PoolAgrees, Once, IsInjective

LEMMA DumpKeepsPool ==
  ASSUME NEW budget \in Budgets, fBudget' = budget, NEW limit \in Nat, limit <= budget,
         NEW list, Once(list),
         NEW pointer \in [Blocks -> BOOLEAN], NEW locked \in [Blocks -> BOOLEAN],
         NEW used, used = BytesOf(ToSet(list)), ToSet(list) = {b \in Blocks : pointer[b]},
         DumpDownTo(limit, list, used, pointer, locked)
  PROVE  PoolInv'
<1>1. budget \in Nat
  BY PoolAssumption
<1>2. /\ Once(fList') /\ fLocked' = locked /\ fPointer' \in [Blocks -> BOOLEAN]
      /\ ToSet(fList') = {b \in Blocks : fPointer'[b]}
      /\ fUsed' = BytesOf(ToSet(fList')) /\ fUsed' \in Nat
      /\ fUsed' > limit => \A b \in ToSet(fList') : fLocked'[b]
  BY DumpAgrees
<1>3. fUsed' > budget => fUsed' > limit
  BY <1>1, <1>2
<1>4. /\ fBudget' \in Budgets
      /\ fUsed' > fBudget' => \A b \in ToSet(fList') : fLocked'[b]
  BY <1>2, <1>3
<1> QED
  BY <1>2, <1>4 DEF PoolInv, PoolTypeOK, PoolAgrees, Once, IsInjective

LEMMA MakeKeepsPool ==
  ASSUME PoolInv, NEW b \in Blocks, ~fPointer[b], PoolMake(b)
  PROVE  PoolInv'
<1> DEFINE list == <<b>> \o fList
           pointer == [fPointer EXCEPT ![b] = TRUE]
           locked == [fLocked EXCEPT ![b] = TRUE]
<1>1. /\ Once(fList) /\ fUsed \in Nat /\ fBudget \in Budgets
      /\ fPointer \in [Blocks -> BOOLEAN] /\ fLocked \in [Blocks -> BOOLEAN]
      /\ ToSet(fList) = {c \in Blocks : fPointer[c]}
      /\ fUsed = BytesOf(ToSet(fList))
  BY PoolIs
<1>2. b \notin ToSet(fList) /\ ToSet(fList) \in SUBSET Blocks
  BY <1>1
<1>3. Once(list) /\ ToSet(list) = ToSet(fList) \union {b}
  BY <1>1, <1>2, FirstInList
<1>4. fUsed + Bytes[b] = BytesOf(ToSet(list))
  BY <1>1, <1>2, <1>3, BytesPlus
<1>5. pointer \in [Blocks -> BOOLEAN] /\ locked \in [Blocks -> BOOLEAN]
      /\ ToSet(list) = {c \in Blocks : pointer[c]}
  BY <1>1, <1>3
<1>6. fBudget' = fBudget /\ DumpDownTo(fBudget, list, fUsed + Bytes[b], pointer, locked)
  BY DEF PoolMake
<1>7. fBudget \in Nat /\ fBudget <= fBudget
  BY <1>1, PoolAssumption
<1> HIDE DEF list, pointer, locked
<1> QED
  BY <1>1, <1>3, <1>4, <1>5, <1>6, <1>7, DumpKeepsPool

LEMMA UnlockKeepsPool ==
  ASSUME PoolInv, NEW b \in Blocks, PoolUnlock(b)
  PROVE  PoolInv'
<1> DEFINE locked == [fLocked EXCEPT ![b] = FALSE]
<1>1. /\ Once(fList) /\ fBudget \in Budgets
      /\ fPointer \in [Blocks -> BOOLEAN] /\ fLocked \in [Blocks -> BOOLEAN]
      /\ ToSet(fList) = {c \in Blocks : fPointer[c]}
      /\ fUsed = BytesOf(ToSet(fList))
  BY PoolIs
<1>2. locked \in [Blocks -> BOOLEAN]
  BY <1>1
<1>3. fBudget' = fBudget /\ DumpDownTo(fBudget, fList, fUsed, fPointer, locked)
  BY DEF PoolUnlock
<1>4. fBudget \in Nat /\ fBudget <= fBudget
  BY <1>1, PoolAssumption
<1> HIDE DEF locked
<1> QED
  BY <1>1, <1>2, <1>3, <1>4, DumpKeepsPool

LEMMA LockKeepsPool ==
  ASSUME PoolInv, NEW b \in Blocks, PoolLock(b)
  PROVE  PoolInv'
<1>1. CASE ~fPointer[b]
  <2>1. UNCHANGED <<fList, fUsed, fBudget, fPointer, fLocked>>
    BY <1>1 DEF PoolLock, poolVars
  <2> QED
    BY <2>1 DEF PoolInv, PoolTypeOK, PoolAgrees
<1>2. CASE fPointer[b]
  <2> DEFINE rest == Omit(fList, {b})
  <2>1. /\ Once(fList) /\ fUsed \in Nat /\ fBudget \in Budgets
        /\ fPointer \in [Blocks -> BOOLEAN] /\ fLocked \in [Blocks -> BOOLEAN]
        /\ ToSet(fList) = {c \in Blocks : fPointer[c]}
        /\ fUsed = BytesOf(ToSet(fList))
        /\ fUsed > fBudget => \A c \in ToSet(fList) : fLocked[c]
    BY PoolIs
  <2>2. /\ fLocked' = [fLocked EXCEPT ![b] = TRUE] /\ fList' = <<b>> \o rest
        /\ UNCHANGED <<fUsed, fBudget, fPointer>>
    BY <1>2 DEF PoolLock
  <2>3. Once(rest) /\ ToSet(rest) = ToSet(fList) \ {b}
    BY <2>1, WithoutList
  <2> HIDE DEF rest
  <2>4. Once(fList') /\ ToSet(fList') = ToSet(fList)
    <3>1. b \notin ToSet(rest) /\ b \in ToSet(fList)
      BY <1>2, <2>1, <2>3
    <3>2. Once(<<b>> \o rest) /\ ToSet(<<b>> \o rest) = ToSet(rest) \union {b}
      BY <2>3, <3>1, FirstInList
    <3> QED
      BY <2>2, <2>3, <3>1, <3>2
  <2>5. fUsed' = BytesOf(ToSet(fList'))
    BY <2>1, <2>2, <2>4
  <2>6. /\ fLocked' \in [Blocks -> BOOLEAN]
        /\ \A c \in Blocks : fLocked[c] => fLocked'[c]
    BY <2>1, <2>2
  <2>7. fUsed' > fBudget' => \A c \in ToSet(fList') : fLocked'[c]
    BY <2>1, <2>2, <2>4, <2>6
  <2> QED
    BY <2>1, <2>2, <2>4, <2>5, <2>6, <2>7
    DEF PoolInv, PoolTypeOK, PoolAgrees, Once, IsInjective
<1> QED
  BY <1>1, <1>2

LEMMA RemoveKeepsPool ==
  ASSUME PoolInv, NEW b \in Blocks, PoolRemove(b)
  PROVE  PoolInv'
<1>1. /\ Once(fList) /\ fUsed \in Nat /\ fBudget \in Budgets
      /\ fPointer \in [Blocks -> BOOLEAN] /\ fLocked \in [Blocks -> BOOLEAN]
      /\ ToSet(fList) = {c \in Blocks : fPointer[c]}
      /\ fUsed = BytesOf(ToSet(fList))
      /\ fUsed > fBudget => \A c \in ToSet(fList) : fLocked[c]
  BY PoolIs
<1>2. fPointer' = [fPointer EXCEPT ![b] = FALSE] /\ UNCHANGED <<fBudget, fLocked>>
  BY DEF PoolRemove
<1>3. CASE ~fPointer[b]
  <2>1. UNCHANGED <<fList, fUsed, fBudget, fLocked>> /\ fPointer' = fPointer
    BY <1>1, <1>2, <1>3 DEF PoolRemove
  <2> QED
    BY <1>1, <2>1 DEF PoolInv, PoolTypeOK, PoolAgrees, Once, IsInjective
<1>4. CASE fPointer[b]
  <2>1. fList' = Omit(fList, {b}) /\ fUsed' = fUsed - Bytes[b]
    BY <1>4 DEF PoolRemove
  <2>2. Once(fList') /\ ToSet(fList') = ToSet(fList) \ {b}
    BY <1>1, <2>1, WithoutList
  <2>3. /\ fUsed' = BytesOf(ToSet(fList')) /\ fUsed' \in Nat /\ fUsed' <= fUsed
    <3>1. b \in ToSet(fList) /\ ToSet(fList) \in SUBSET Blocks
      BY <1>1, <1>4
    <3>2. /\ BytesOf(ToSet(fList) \ {b}) = BytesOf(ToSet(fList)) - Bytes[b]
          /\ BytesOf(ToSet(fList) \ {b}) \in Nat
      BY <3>1, BytesLess
    <3>3. Bytes[b] \in Nat /\ fUsed' = fUsed - Bytes[b]
      BY <2>1, PoolAssumption
    <3>4. fUsed - Bytes[b] = BytesOf(ToSet(fList) \ {b}) /\ fUsed' \in Nat
      BY <1>1, <3>2, <3>3
    <3>5. fUsed' = BytesOf(ToSet(fList'))
      BY <2>2, <3>3, <3>4
    <3>6. fUsed' <= fUsed
      BY ONLY <3>3, <3>4, <1>1, fUsed \in Nat
    <3> QED
      BY <3>4, <3>5, <3>6
  <2>4. fUsed' > fBudget' => fUsed > fBudget
    <3>1. fBudget \in Nat
      BY <1>1, PoolAssumption
    <3> QED
      BY <1>1, <1>2, <2>3, <3>1
  <2>5. fUsed' > fBudget' => \A c \in ToSet(fList') : fLocked'[c]
    BY <1>1, <1>2, <2>2, <2>4
  <2>6. fPointer' \in [Blocks -> BOOLEAN] /\ ToSet(fList') = {c \in Blocks : fPointer'[c]}
    BY <1>1, <1>2, <2>2
  <2> QED
    BY <1>1, <1>2, <2>2, <2>3, <2>5, <2>6
    DEF PoolInv, PoolTypeOK, PoolAgrees, Once, IsInjective
<1> QED
  BY <1>3, <1>4

LEMMA ShrinkKeepsPool ==
  ASSUME PoolInv, DumpPool \/ \E budget \in Budgets : SetRAMBudget(budget)
  PROVE  PoolInv'
<1>1. /\ Once(fList) /\ fBudget \in Budgets
      /\ fPointer \in [Blocks -> BOOLEAN] /\ fLocked \in [Blocks -> BOOLEAN]
      /\ ToSet(fList) = {c \in Blocks : fPointer[c]}
      /\ fUsed = BytesOf(ToSet(fList))
  BY PoolIs
<1>2. CASE DumpPool
  <2>1. fBudget' = fBudget /\ DumpDownTo(0, fList, fUsed, fPointer, fLocked)
    BY <1>2 DEF DumpPool
  <2>2. 0 \in Nat /\ 0 <= fBudget
    BY <1>1, PoolAssumption
  <2> QED
    BY <1>1, <2>1, <2>2, DumpKeepsPool
<1>3. ASSUME NEW budget \in Budgets, SetRAMBudget(budget) PROVE PoolInv'
  <2>1. fBudget' = budget /\ DumpDownTo(budget, fList, fUsed, fPointer, fLocked)
    BY <1>3 DEF SetRAMBudget
  <2>2. budget \in Nat /\ budget <= budget
    BY PoolAssumption
  <2> QED
    BY <1>1, <2>1, <2>2, DumpKeepsPool
<1> QED
  BY <1>2, <1>3
-----------------------------------------------------------------------------
(* What a step of the cache asks of the pool: one call, of a block that    *)
(* is made only where there was none and destroyed with its record.        *)
PoolCall ==
  \/ UNCHANGED <<poolVars, fKey>>
  \/ \E b \in Blocks, image \in Images :
       PoolMake(b) /\ fKey[b] = None /\ fKey' = [fKey EXCEPT ![b] = image]
  \/ \E b \in Blocks : (PoolLock(b) \/ PoolUnlock(b)) /\ fKey' = fKey
  \/ \E b \in Blocks : PoolRemove(b) /\ fKey' = [fKey EXCEPT ![b] = None]
  \/ (DumpPool \/ \E budget \in Budgets : SetRAMBudget(budget)) /\ fKey' = fKey

(* ... and what it does to the list of records and the totals.             *)
ListCall ==
  \/ UNCHANGED <<fLru, fTotalBytesUsed, fCount>>
  \/ \E r \in Listed :
       fLru' = <<r>> \o Unlisted(fLru, r) /\ UNCHANGED <<fTotalBytesUsed, fCount>>
  \/ \E r \in Listed :
       /\ fLru' = Unlisted(fLru, r)
       /\ fTotalBytesUsed' = fTotalBytesUsed - Bytes[r] /\ fCount' = fCount - 1
  \/ \E r \in Recs \ Listed :
       /\ fLru' = <<r>> \o fLru
       /\ fTotalBytesUsed' = fTotalBytesUsed + Bytes[r] /\ fCount' = fCount + 1

LEMMA RemoveRecCalls ==
  ASSUME Types, NEW r \in Listed, RemoveRec(r)
  PROVE  PoolCall /\ ListCall
<1>1. r \in Recs /\ r \in Blocks
  BY ListPlaces, Names DEF Types, Listed, ToSet
<1>2. PoolCall
  BY <1>1 DEF RemoveRec, DeleteRec, PoolCall
<1>3. ListCall
  BY DEF RemoveRec, ListCall
<1> QED
  BY <1>2, <1>3

LEMMA StillCalls ==
  ASSUME UNCHANGED <<poolVars, recVars, cacheVars>>
  PROVE  PoolCall /\ ListCall
BY DEF PoolCall, ListCall, recVars, cacheVars

LEMMA InstallCalls ==
  ASSUME NEW r \in Blocks, Install(r) \/ InstallFails(r), fKey' = fKey
  PROVE  PoolCall
BY DEF Install, InstallFails, PoolCall

LEMMA FindCalls ==
  ASSUME CacheInv, NEW t \in Threads, Find(t)
  PROVE  PoolCall /\ ListCall
<1> DEFINE r == fHash[want[t]]
<1>1. want[t] \in Keys /\ Types /\ ListsAgree
  BY DEF Find, CacheInv, Places, Place, RecInv
<1>2. r # None => r \in Listed /\ r \in Blocks
  BY <1>1, HashedIsListed, Names
<1>3. \/ UNCHANGED <<poolVars, recVars, cacheVars>>
      \/ r # None /\ RemoveRec(r)
      \/ /\ r # None
         /\ IF r \in Bitmaps THEN Install(r) ELSE Ref(r)
         /\ fLru' = <<r>> \o Unlisted(fLru, r)
         /\ UNCHANGED <<fKey, fTotalBytesUsed, fCount>>
  BY DEF Find
<1> HIDE DEF r
<1>4. CASE UNCHANGED <<poolVars, recVars, cacheVars>>
  BY <1>4, StillCalls
<1>5. CASE r # None /\ RemoveRec(r)
  BY <1>1, <1>2, <1>5, RemoveRecCalls
<1>6. CASE /\ r # None
           /\ IF r \in Bitmaps THEN Install(r) ELSE Ref(r)
           /\ fLru' = <<r>> \o Unlisted(fLru, r)
           /\ UNCHANGED <<fKey, fTotalBytesUsed, fCount>>
  <2>1. ListCall
    BY <1>2, <1>6 DEF ListCall
  <2>2. PoolCall
    BY <1>2, <1>6, InstallCalls DEF Ref, PoolCall
  <2> QED
    BY <2>1, <2>2
<1> QED
  BY <1>3, <1>4, <1>5, <1>6

LEMMA AddCalls ==
  ASSUME CacheInv, NEW t \in Threads, Add(t)
  PROVE  PoolCall /\ ListCall
<1> DEFINE prev == fHash[KeyOf(made[t])]
<1>1. /\ Types /\ ListsAgree /\ made[t] # None
      /\ made[t] \in Recs /\ made[t] \notin Listed /\ fKey[made[t]] # None
  BY DEF Add, CacheInv, Places, Place, RecInv, MadeAlone, Types, ThreadTypes
<1>2. KeyOf(made[t]) \in Keys
  BY <1>1, KeyIsKey
<1>3. prev # None => prev \in Listed
  BY <1>1, <1>2, HashedIsListed
<1>4. \/ Insert(t, made[t])
      \/ prev # None /\ RemoveRec(prev)
      \/ UNCHANGED <<poolVars, recVars, cacheVars>>
  BY DEF Add
<1> HIDE DEF prev
<1>5. CASE Insert(t, made[t])
  <2>1. ListCall
    BY <1>1, <1>5 DEF Insert, ListCall
  <2>2. made[t] \in Blocks /\ fKey' = fKey
    BY <1>1, <1>5, Names DEF Insert
  <2>3. CASE made[t] \in Bitmaps
    BY <1>5, <2>1, <2>2, <2>3, InstallCalls DEF Insert
  <2>4. CASE made[t] \notin Bitmaps
    BY <1>5, <2>1, <2>2, <2>4 DEF Insert, PoolCall
  <2> QED
    BY <2>1, <2>3, <2>4
<1>6. CASE prev # None /\ RemoveRec(prev)
  BY <1>1, <1>3, <1>6, RemoveRecCalls
<1>7. CASE UNCHANGED <<poolVars, recVars, cacheVars>>
  BY <1>7, StillCalls
<1> QED
  BY <1>4, <1>5, <1>6, <1>7

LEMMA AllocCalls ==
  ASSUME CacheInv, NEW t \in Threads, Alloc(t)
  PROVE  PoolCall /\ ListCall
<1>1. UNCHANGED cacheVars /\ want[t] \in Keys
  BY DEF Alloc, CacheInv, Places, Place
<1>2. CASE UNCHANGED <<poolVars, recVars>>
  BY <1>1, <1>2, StillCalls
<1>3. ASSUME NEW r \in Recs, fKey[r] = None, fKey' = [fKey EXCEPT ![r] = want[t][2]],
             IF r \in Bitmaps THEN PoolMake(r) ELSE DataMake(r)
      PROVE  PoolCall /\ ListCall
  <2>1. r \in Blocks /\ want[t][2] \in Images
    BY <1>1, Names DEF Keys
  <2>2. PoolMake(r)
    BY <1>3 DEF DataMake
  <2>3. PoolCall
    BY <1>3, <2>1, <2>2 DEF PoolCall
  <2>4. ListCall
    BY <1>1 DEF ListCall, cacheVars
  <2> QED
    BY <2>3, <2>4
<1>4. \/ UNCHANGED <<poolVars, recVars>>
      \/ \E r \in Recs :
           /\ fKey[r] = None /\ fKey' = [fKey EXCEPT ![r] = want[t][2]]
           /\ IF r \in Bitmaps THEN PoolMake(r) ELSE DataMake(r)
  BY DEF Alloc
<1> QED
  BY <1>2, <1>3, <1>4

LEMMA UnlockCalls ==
  ASSUME CacheInv, NEW t \in Threads, Reuse(t) \/ Discard(t) \/ Destroy(t) \/ Drop(t)
  PROVE  PoolCall /\ ListCall
<1>1. UNCHANGED cacheVars
  BY DEF Reuse, Discard, Destroy, Drop
<1>2. ListCall
  BY <1>1 DEF cacheVars, ListCall
<1>3. /\ Place(t) /\ holds[t] \in Recs \union {None} /\ made[t] \in Recs \union {None}
      /\ Recs = Blocks
  BY Names DEF CacheInv, Places, Types, ThreadTypes
<1>4. CASE Reuse(t)
  <2>1. fHash[KeyOf(made[t])] \in Blocks
    BY <1>3, <1>4, Names DEF Reuse, Place
  <2> QED
    BY <1>2, <1>4, <2>1, InstallCalls DEF Reuse
<1>5. CASE Discard(t)
  <2>1. made[t] \in Blocks
    BY <1>3, <1>5 DEF Discard, Place
  <2> QED
    BY <1>2, <1>5, <2>1 DEF Discard, PoolCall
<1>6. CASE Destroy(t)
  <2>1. made[t] \in Blocks
    BY <1>3, <1>6 DEF Destroy, Place
  <2> QED
    BY <1>2, <1>6, <2>1 DEF Destroy, PoolCall
<1>7. CASE Drop(t)
  <2>1. holds[t] \in Blocks /\ fKey' = fKey
    BY <1>3, <1>7 DEF Drop, Place
  <2>2. PoolUnlock(holds[t]) \/ UNCHANGED poolVars
    BY <1>7 DEF Drop, ReleaseProc, Unref
  <2> QED
    BY <1>2, <2>1, <2>2 DEF PoolCall
<1> QED
  BY <1>4, <1>5, <1>6, <1>7

LEMMA StepCalls ==
  ASSUME CacheInv, [Next]_vars
  PROVE  PoolCall /\ ListCall
<1>1. ASSUME NEW t \in Threads, NEW key \in Keys \union {None}, Enter(t, key)
      PROVE  PoolCall /\ ListCall
  BY <1>1, StillCalls DEF Enter
<1>2. ASSUME NEW t \in Threads, Sweep(t) \/ Purge(t) PROVE PoolCall /\ ListCall
  <2>1. \/ UNCHANGED <<poolVars, recVars, cacheVars>>
        \/ cur \in DOMAIN fLru /\ RemoveRec(fLru[cur])
    BY <1>2 DEF Sweep, Purge, CacheInv, Places, Place
  <2>2. cur \in DOMAIN fLru => fLru[cur] \in Listed
    BY ListPlaces DEF CacheInv, Types
  <2> QED
    BY <2>1, <2>2, StillCalls, RemoveRecCalls DEF CacheInv
<1>3. ASSUME NEW t \in Threads, PurgeAll(t) PROVE PoolCall /\ ListCall
  BY <1>3, StillCalls DEF PurgeAll
<1>4. ASSUME NEW t \in Threads, NEW u \in Threads, Share(t, u) PROVE PoolCall /\ ListCall
  <2>1. holds[t] \in Blocks /\ UNCHANGED <<recVars, cacheVars>> /\ Ref(holds[t])
    BY <1>4, Names DEF Share
  <2>2. PoolCall
    BY <2>1 DEF Ref, PoolCall, recVars
  <2> QED
    BY <2>1, <2>2 DEF ListCall, cacheVars
<1>5. ASSUME NEW image \in Images, PostPurgeSharedID(image) PROVE PoolCall /\ ListCall
  BY <1>5, StillCalls DEF PostPurgeSharedID
<1>6. CASE Shrink
  BY <1>6 DEF Shrink, PoolCall, ListCall, recVars, cacheVars
<1>7. CASE UNCHANGED vars
  BY <1>7, StillCalls DEF vars
<1> QED
  BY <1>1, <1>2, <1>3, <1>4, <1>5, <1>6, <1>7, FindCalls, AllocCalls, AddCalls, UnlockCalls
  DEF Next
-----------------------------------------------------------------------------
(* A block without a record has no memory.                                 *)
MemoryIsRecords == \A r \in Recs : fKey[r] = None => ~fPointer[r]

(* The totals are those of the list.                                       *)
Totals == fTotalBytesUsed = BytesOf(Listed) /\ fCount = Len(fLru)

LEMMA PoolCallKeeps ==
  ASSUME CacheInv, PoolInv, MemoryIsRecords, PoolCall
  PROVE  PoolInv' /\ MemoryIsRecords'
<1>1. /\ Recs = Blocks /\ None \notin Images
      /\ fPointer \in [Blocks -> BOOLEAN] /\ fLocked \in [Blocks -> BOOLEAN]
      /\ fKey \in [Blocks -> Images \union {None}]
      /\ Types
  BY Names DEF CacheInv, Types, RecTypes
<1>2. CASE UNCHANGED <<poolVars, fKey>>
  BY <1>2 DEF poolVars, PoolInv, PoolTypeOK, PoolAgrees, MemoryIsRecords
<1>3. ASSUME NEW b \in Blocks, NEW image \in Images,
             PoolMake(b), fKey[b] = None, fKey' = [fKey EXCEPT ![b] = image]
      PROVE  PoolInv' /\ MemoryIsRecords'
  <2>1. PoolInv'
    BY <1>1, <1>3, MakeKeepsPool DEF MemoryIsRecords
  <2>2. \A c \in Blocks : c # b => (fPointer'[c] => fPointer[c])
    BY <1>1, <1>3 DEF PoolMake, DumpDownTo
  <2>3. fKey'[b] # None /\ \A c \in Blocks : c # b => fKey'[c] = fKey[c]
    BY <1>1, <1>3
  <2> QED
    BY <1>1, <2>1, <2>2, <2>3 DEF MemoryIsRecords
<1>4. ASSUME NEW b \in Blocks, PoolLock(b) \/ PoolUnlock(b), fKey' = fKey
      PROVE  PoolInv' /\ MemoryIsRecords'
  <2>1. PoolInv'
    BY <1>4, LockKeepsPool, UnlockKeepsPool
  <2>2. \A c \in Blocks : fPointer'[c] => fPointer[c]
    BY <1>1, <1>4 DEF PoolLock, PoolUnlock, DumpDownTo, poolVars
  <2> QED
    BY <1>1, <1>4, <2>1, <2>2 DEF MemoryIsRecords
<1>5. ASSUME NEW b \in Blocks, PoolRemove(b), fKey' = [fKey EXCEPT ![b] = None]
      PROVE  PoolInv' /\ MemoryIsRecords'
  <2>1. PoolInv'
    BY <1>5, RemoveKeepsPool
  <2>2. fPointer' = [fPointer EXCEPT ![b] = FALSE]
    BY <1>5 DEF PoolRemove
  <2> QED
    BY <1>1, <1>5, <2>1, <2>2 DEF MemoryIsRecords
<1>6. CASE (DumpPool \/ \E budget \in Budgets : SetRAMBudget(budget)) /\ fKey' = fKey
  <2>1. PoolInv'
    BY <1>6, ShrinkKeepsPool
  <2>2. \A c \in Blocks : fPointer'[c] => fPointer[c]
    BY <1>1, <1>6 DEF DumpPool, SetRAMBudget, DumpDownTo
  <2> QED
    BY <1>1, <1>6, <2>1, <2>2 DEF MemoryIsRecords
<1> QED
  BY <1>2, <1>3, <1>4, <1>5, <1>6 DEF PoolCall

LEMMA ListCallKeeps ==
  ASSUME CacheInv, Totals, ListCall
  PROVE  Totals'
<1>1. /\ fLru \in Seq(Recs) /\ Len(fLru) \in Nat /\ Recs = Blocks
      /\ \A i, j \in DOMAIN fLru : fLru[i] = fLru[j] => i = j
  BY Names, LenProperties DEF CacheInv, Types, RecTypes, RecInv, ListsAgree
<1>2. Listed \in SUBSET Blocks
  <2>1. \A i \in DOMAIN fLru : fLru[i] \in Recs
    BY ListPlaces DEF CacheInv, Types
  <2> QED
    BY <1>1, <2>1 DEF Listed, ToSet
<1>3. Listed' = ToSet(fLru') /\ Listed = ToSet(fLru)
  BY DEF Listed
<1>4. CASE UNCHANGED <<fLru, fTotalBytesUsed, fCount>>
  BY <1>3, <1>4 DEF Totals
<1>5. ASSUME NEW r \in Listed PROVE
        /\ Unlisted(fLru, r) \in Seq(Recs) /\ Len(Unlisted(fLru, r)) = Len(fLru) - 1
        /\ \A i, j \in DOMAIN Unlisted(fLru, r) : Unlisted(fLru, r)[i] = Unlisted(fLru, r)[j] => i = j
        /\ ToSet(Unlisted(fLru, r)) = Listed \ {r}
  BY <1>1, <1>3, UnlistedList
<1>6. ASSUME NEW r \in Listed, fLru' = <<r>> \o Unlisted(fLru, r),
             UNCHANGED <<fTotalBytesUsed, fCount>>
      PROVE  Totals'
  <2> DEFINE rest == Unlisted(fLru, r)
  <2>1. /\ rest \in Seq(Recs) /\ Len(rest) = Len(fLru) - 1 /\ ToSet(rest) = Listed \ {r}
        /\ \A i, j \in DOMAIN rest : rest[i] = rest[j] => i = j
    BY <1>5
  <2>2. r \in Recs /\ r \notin ToSet(rest) /\ fLru' = <<r>> \o rest
    BY <1>1, <1>2, <1>6, <2>1
  <2> HIDE DEF rest
  <2>3. Len(fLru') = Len(rest) + 1 /\ ToSet(fLru') = ToSet(rest) \union {r}
    BY <2>1, <2>2, PutFirst
  <2>4. Len(fLru') = Len(fLru) /\ Listed' = Listed
    BY <1>1, <1>3, <2>1, <2>3
  <2> QED
    BY <1>6, <2>4 DEF Totals
<1>7. ASSUME NEW r \in Listed, fLru' = Unlisted(fLru, r),
             fTotalBytesUsed' = fTotalBytesUsed - Bytes[r], fCount' = fCount - 1
      PROVE  Totals'
  <2>1. Len(fLru') = Len(fLru) - 1 /\ Listed' = Listed \ {r}
    BY <1>3, <1>5, <1>7
  <2>2. BytesOf(Listed \ {r}) = BytesOf(Listed) - Bytes[r]
    BY <1>2, BytesLess
  <2> QED
    BY <1>7, <2>1, <2>2 DEF Totals
<1>8. ASSUME NEW r \in Recs \ Listed, fLru' = <<r>> \o fLru,
             fTotalBytesUsed' = fTotalBytesUsed + Bytes[r], fCount' = fCount + 1
      PROVE  Totals'
  <2>1. Len(fLru') = Len(fLru) + 1 /\ Listed' = Listed \union {r}
    BY <1>1, <1>3, <1>8, PutFirst
  <2>2. BytesOf(Listed \union {r}) = BytesOf(Listed) + Bytes[r]
    BY <1>1, <1>2, <1>8, BytesPlus
  <2> QED
    BY <1>8, <2>1, <2>2 DEF Totals
<1> QED
  BY <1>4, <1>6, <1>7, <1>8 DEF ListCall
-----------------------------------------------------------------------------
(* The mutex and the messages it guards.                                   *)
Messages ==
  /\ inbox \in Seq(Images) /\ msgs \in Seq(Images) /\ owner \in Threads \union {None}
  /\ \A t \in Threads : pc[t] = "sweep" => msgs # <<>>

LEMMA LeavesMessages ==
  ASSUME CacheInv, Messages, NEW t \in Threads, NEW label \in Labels \ {"sweep"},
         Leaves(t, label), owner \in {t, None}
  PROVE  Messages'
<1>1. msgs' = <<>> /\ owner' = None /\ inbox' = inbox /\ pc' = [pc EXCEPT ![t] = label]
  BY DEF Leaves, Goes
<1>2. \A u \in Threads : pc'[u] # "sweep"
  BY <1>1, Names DEF CacheInv, Places, Place, Types, ThreadTypes
<1> QED
  BY <1>1, <1>2 DEF Messages

LEMMA SameMessages ==
  ASSUME Messages, UNCHANGED <<inbox, msgs, owner>>,
         \A u \in Threads : pc'[u] = "sweep" => pc[u] = "sweep"
  PROVE  Messages'
BY DEF Messages

LEMMA StepMessages ==
  ASSUME CacheInv, Messages, [Next]_vars
  PROVE  Messages'
<1>0. pc \in [Threads -> Labels] /\ \A t \in Threads : Place(t)
  BY DEF CacheInv, Types, ThreadTypes, Places
<1>1. ASSUME NEW t \in Threads, NEW key \in Keys \union {None}, Enter(t, key)
      PROVE  Messages'
  <2>1. /\ owner = None /\ owner' = t /\ msgs' = inbox /\ inbox' = <<>>
        /\ Task(t) # "sweep"
    BY <1>1 DEF Enter, Task
  <2>2. \A u \in Threads : pc[u] # "sweep"
    BY <1>0, <2>1, Names DEF Place
  <2>3. \A u \in Threads : pc'[u] = "sweep" => inbox # <<>>
    BY <1>0, <1>1, <2>1, <2>2 DEF Enter, Goes
  <2> QED
    BY <2>1, <2>3 DEF Messages
<1>2. ASSUME NEW t \in Threads, Sweep(t) PROVE Messages'
  <2>1. /\ msgs # <<>> /\ msgs \in Seq(Images) /\ pc[t] = "sweep"
        /\ UNCHANGED <<inbox, owner>> /\ Task(t) # "sweep"
    BY <1>2 DEF Sweep, Messages, Task
  <2>2. CASE UNCHANGED <<msgs, pc>>
    BY <2>1, <2>2, SameMessages
  <2>3. CASE /\ msgs' = Tail(msgs)
             /\ pc' = [pc EXCEPT ![t] = IF msgs' # <<>> /\ fLru' # <<>> THEN "sweep" ELSE Task(t)]
    <3>1. msgs' \in Seq(Images)
      BY <2>1, <2>3, HeadTailProperties
    <3>2. \A u \in Threads : u # t => pc[u] # "sweep"
      BY <1>0, <2>1 DEF Place
    <3>3. \A u \in Threads : pc'[u] = "sweep" => msgs' # <<>>
      BY <1>0, <2>1, <2>3, <3>2
    <3> QED
      BY <2>1, <3>1, <3>3 DEF Messages
  <2> QED
    BY <1>2, <2>2, <2>3 DEF Sweep, Goes
<1>3. ASSUME NEW t \in Threads, Find(t) PROVE Messages'
  <2>1. owner = t /\ (Leaves(t, "miss") \/ Leaves(t, "has"))
    BY <1>0, <1>3 DEF Find, Place
  <2> QED
    BY <2>1, LeavesMessages DEF Labels
<1>4. ASSUME NEW t \in Threads, Alloc(t) \/ Add(t) \/ Reuse(t) \/ Discard(t) \/ PurgeAll(t) \/ Drop(t)
      PROVE  Messages'
  <2>1. \A u \in Threads : pc'[u] = "sweep" => pc[u] = "sweep"
    BY <1>0, <1>4 DEF Alloc, Add, Insert, Reuse, Discard, PurgeAll, Drop, Goes
  <2>2. inbox' = inbox /\ msgs' = msgs /\ owner' \in {owner, t}
    BY <1>4 DEF Alloc, Add, Reuse, Discard, PurgeAll, Drop, mutexVars
  <2> QED
    BY <2>1, <2>2 DEF Messages
<1>5. ASSUME NEW t \in Threads, Destroy(t) PROVE Messages'
  <2> DEFINE label == IF holds[t] = None THEN "idle" ELSE "has"
  <2>1. label \in Labels \ {"sweep"}
    BY DEF Labels
  <2>2. IF owner = t THEN Leaves(t, label) ELSE Goes(t, label) /\ UNCHANGED mutexVars
    BY <1>5 DEF Destroy
  <2> HIDE DEF label
  <2>3. CASE owner = t
    BY <2>1, <2>2, <2>3, LeavesMessages
  <2>4. CASE owner # t
    <3>1. UNCHANGED <<inbox, msgs, owner>> /\ pc' = [pc EXCEPT ![t] = label]
      BY <2>2, <2>4 DEF Goes, mutexVars
    <3> QED
      BY <1>0, <2>1, <3>1, SameMessages
  <2> QED
    BY <2>3, <2>4
<1>6. ASSUME NEW t \in Threads, Purge(t) PROVE Messages'
  <2> DEFINE label == IF holds[t] = None THEN "idle" ELSE "has"
  <2>1. label \in Labels \ {"sweep"}
    BY DEF Labels
  <2>2. owner = t /\ (Leaves(t, label) \/ UNCHANGED <<inbox, msgs, owner, pc>>)
    BY <1>0, <1>6 DEF Purge, Place
  <2> HIDE DEF label
  <2> QED
    BY <2>1, <2>2, LeavesMessages, SameMessages
<1>7. ASSUME NEW t \in Threads, NEW u \in Threads, Share(t, u) PROVE Messages'
  BY <1>0, <1>7, SameMessages DEF Share, Goes, mutexVars
<1>8. ASSUME NEW image \in Images, PostPurgeSharedID(image) PROVE Messages'
  <2>1. inbox' = Append(inbox, image) /\ UNCHANGED <<msgs, owner, pc>>
    BY <1>8 DEF PostPurgeSharedID, threadVars
  <2>2. inbox' \in Seq(Images)
    BY <2>1, AppendProperties DEF Messages
  <2> QED
    BY <2>1, <2>2 DEF Messages
<1>9. CASE Shrink \/ UNCHANGED vars
  BY <1>9, SameMessages DEF Shrink, vars, mutexVars, threadVars
<1> QED
  BY <1>1, <1>2, <1>3, <1>4, <1>5, <1>6, <1>7, <1>8, <1>9 DEF Next
-----------------------------------------------------------------------------
(* With the pool, the totals and the messages.                             *)
FullInv == CacheInv /\ PoolInv /\ MemoryIsRecords /\ Totals /\ Messages

THEOREM FullInvariance == Spec => []FullInv
<1>1. Init => FullInv
  <2> SUFFICES ASSUME Init PROVE FullInv
    OBVIOUS
  <2>1. CacheInv
    BY InitHolds
  <2>2. ToSet(<<>>) = {}
    BY DEF ToSet
  <2>3. PoolInv
    <3>1. fList = <<>> /\ fUsed = 0 /\ fBudget \in Budgets
          /\ fPointer = [b \in Blocks |-> FALSE] /\ fLocked = [b \in Blocks |-> FALSE]
      BY DEF Init, PoolInit
    <3>2. Once(<<>>)
      BY DEF Once
    <3>3. fBudget \in Nat
      BY <3>1, PoolAssumption
    <3> QED
      BY <2>2, <3>1, <3>2, <3>3, BytesEmpty, PoolIs
  <2>4. MemoryIsRecords
    BY Names DEF Init, PoolInit, MemoryIsRecords
  <2>5. Totals
    BY <2>2, BytesEmpty DEF Init, Totals, Listed
  <2>6. Messages
    BY DEF Init, Messages
  <2> QED
    BY <2>1, <2>3, <2>4, <2>5, <2>6 DEF FullInv
<1>2. CacheInv /\ CacheInv' /\ FullInv /\ [Next]_vars => FullInv'
  BY StepCalls, PoolCallKeeps, ListCallKeeps, StepMessages DEF FullInv
<1> QED
  BY <1>1, <1>2, CacheInvariance, PTL DEF Spec, FullInv

(* The pool's list holds each block that has its memory once, its total is *)
(* that of the list, and more than the budget is used only for the sake of *)
(* locked blocks: after every make(), lock(), unlock(), destructor, dump   *)
(* and new budget, for any sizes and budgets.                              *)
THEOREM PoolStaysWithinBudget == Spec => []PoolAgrees
<1>1. FullInv => PoolAgrees
  BY DEF FullInv, PoolInv
<1> QED
  BY <1>1, FullInvariance, PTL

(* The counts of the records and of cached data are those of their         *)
(* clients, and the assertions of validate() hold. With the types.         *)
THEOREM CountsAreClients == Spec => []CountsAgree
<1>1. FullInv => CountsAgree
  <2> SUFFICES ASSUME FullInv PROVE CountsAgree
    OBVIOUS
  <2>1. /\ CacheInv /\ PoolInv /\ Totals /\ Messages /\ Types /\ AllCounted
    BY DEF FullInv, CacheInv, RecInv
  <2>2. fTotalBytesUsed \in Nat /\ fCount \in Nat
    <3>1. \A i \in DOMAIN fLru : fLru[i] \in Blocks
      BY <2>1, ListPlaces, Names DEF Types
    <3>2. Listed \in SUBSET Blocks /\ Len(fLru) \in Nat
      BY <2>1, <3>1, ListPlaces DEF Types, Listed, ToSet
    <3>3. BytesOf(Listed) \in Nat
      BY <3>2, BytesMinus
    <3> QED
      BY <2>1, <3>2, <3>3 DEF Totals
  <2>3. TypeOK
    BY <2>1, <2>2 DEF TypeOK, PoolInv, Types, RecTypes, ThreadTypes, Labels, Messages
  <2>4. ASSUME NEW r \in Bitmaps
        PROVE  /\ fExternalCounter[r] = Cardinality(Owners(r))
               /\ Owners(r) # {} => fDM[r]
               /\ fDiscardableIsLocked[r] <=> fLocked[r]
    <3>1. Counted(r)
      BY <2>1, Names DEF AllCounted
    <3> QED
      BY <3>1 DEF Counted
  <2>5. ASSUME NEW d \in Datas
        PROVE  /\ Validated(d)
               /\ fRefCnt[d] = Cardinality(Owners(d) \union Builders(d))
                                 + IF fInCache[d] THEN 1 ELSE 0
    <3>1. Counted(d)
      BY <2>1, Names DEF AllCounted
    <3>2. /\ fLocked[d] <=> Users(d) # {}
          /\ fIsLocked[d] = fLocked[d] /\ fData[d] = fLocked[d]
          /\ fRefCnt[d] = Cardinality(Users(d)) + IF fInCache[d] THEN 1 ELSE 0
      BY <3>1 DEF Counted
    <3>3. Cardinality(Users(d)) \in Nat /\ (Users(d) = {} <=> Cardinality(Users(d)) = 0)
      BY UsersFinite, FS_EmptySet, FS_CardinalityType
    <3>4. CASE fIsLocked[d]
      <4>1. Cardinality(Users(d)) # 0
        BY <3>2, <3>3, <3>4
      <4>2. fInCache[d] => fRefCnt[d] > 1
        <5> DEFINE n == Cardinality(Users(d))
        <5>1. n \in Nat /\ n # 0 /\ (fInCache[d] => fRefCnt[d] = n + 1)
          BY <3>2, <3>3, <4>1
        <5> HIDE DEF n
        <5> QED
          BY <5>1
      <4> QED
        BY <3>2, <3>4, <4>2 DEF Validated, Users
    <3>5. CASE ~fIsLocked[d]
      <4>1. ~fData[d] /\ Cardinality(Users(d)) = 0
        BY <3>2, <3>3, <3>5
      <4>2. fRefCnt[d] = IF fInCache[d] THEN 1 ELSE 0
        BY <3>2, <4>1
      <4> QED
        BY <3>2, <3>5, <4>1, <4>2 DEF Validated, Users
    <3> QED
      BY <3>4, <3>5
  <2> QED
    BY <2>3, <2>4, <2>5 DEF CountsAgree
<1> QED
  BY <1>1, FullInvariance, PTL

(* The list, the hash and the totals of the cache hold the same records,   *)
(* and a bitmap that a client uses is the one of its key in the hash.      *)
THEOREM CacheListsAgree == Spec => []CacheAgrees
<1>1. FullInv => CacheAgrees
  <2> SUFFICES ASSUME FullInv PROVE CacheAgrees
    OBVIOUS
  <2>1. Types /\ MadeAlone /\ HeldExists /\ ListsAgree /\ Totals
    BY DEF FullInv, CacheInv, RecInv
  <2>2. IsInjective(fLru) /\ \A k \in Keys : fHash[k] # None => KeyOf(fHash[k]) = k
    BY <2>1 DEF ListsAgree, IsInjective
  <2>3. \A r \in Listed : r \in Recs /\ r # None
    BY <2>1, ListPlaces, Names DEF Types, Listed, ToSet
  <2>4. ToSet(fLru) = {fHash[k] : k \in Keys} \ {None}
    <3>1. ASSUME NEW r \in Listed PROVE r \in {fHash[k] : k \in Keys} \ {None}
      <4>1. KeyOf(r) \in Keys /\ fHash[KeyOf(r)] = r
        BY <2>1, <2>3, KeyIsKey DEF ListsAgree
      <4> QED
        BY <2>3, <4>1
    <3>2. ASSUME NEW k \in Keys, fHash[k] # None PROVE fHash[k] \in Listed
      BY <2>1, <3>2, HashedIsListed
    <3> QED
      BY <3>1, <3>2 DEF Listed
  <2>5. fTotalBytesUsed = BytesOf(ToSet(fLru)) /\ fCount = Len(fLru)
    BY <2>1 DEF Totals, Listed
  <2>6. ASSUME NEW t \in Threads, holds[t] \in Bitmaps PROVE fHash[KeyOf(holds[t])] = holds[t]
    BY <2>1, <2>6, Names DEF HeldExists, ListsAgree
  <2>7. ASSUME NEW d \in Datas, d \in ToSet(fLru) \union {made[t] : t \in Threads}
        PROVE  fInCache[d] \/ \E t \in Threads : made[t] = d /\ pc[t] = "destroy"
    <3>1. CASE d \in Listed
      BY <2>1, <3>1 DEF ListsAgree
    <3>2. ASSUME NEW t \in Threads, made[t] = d, pc[t] # "destroy" PROVE fInCache[d]
      BY <2>1, <3>2, Names DEF MadeAlone
    <3> QED
      BY <2>7, <3>1, <3>2 DEF Listed
  <2> QED
    BY <2>2, <2>4, <2>5, <2>6, <2>7 DEF CacheAgrees
<1> QED
  BY <1>1, FullInvariance, PTL
=============================================================================
