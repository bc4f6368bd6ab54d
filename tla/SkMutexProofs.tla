---------------------------- MODULE SkMutexProofs ----------------------------
(***************************************************************************)
(* Theorems about SkSemaphore and its SkOnce, for any finite set of        *)
(* threads, any initial count and any bound on the tokens, and about       *)
(* SkMutex, which rests on the semaphore's counts: a mutex is one token,   *)
(* which is free or with the thread that holds the mutex.                  *)
(***************************************************************************)
EXTENDS SkMutex, FiniteSetTheorems, TLAPS

(* SkSemaphore: which locals a thread has at which label.                  *)
Places ==
  \A t \in Threads :
    /\ toSignal[t] <= MaxSignal
    /\ pc[t] \in {"idle", "tryCas", "osWait"} => toSignal[t] = 0
    /\ pc[t] = "osSignal" => toSignal[t] > 0
    /\ pc[t] = "tryCas" => seen[t] > 0

(* One thread at most is between the claim and the final store, and the    *)
(* semaphore exists from its creation on.                                  *)
OnceHeld ==
  /\ \A t \in Threads :
       /\ pc[t] \in {"onceRun", "onceStore"} => onceState = "Claimed"
       /\ pc[t] = "onceRun" => fOSSemaphore = Null
       /\ pc[t] = "onceStore" => fOSSemaphore # Null
       /\ pc[t] \in {"osSignal", "osWait"} => onceState = "Done"
  /\ \A t, u \in Threads :
       pc[t] \in {"onceRun", "onceStore"} /\ pc[u] \in {"onceRun", "onceStore"} => t = u
  /\ onceState = "NotStarted" => fOSSemaphore = Null
  /\ onceState = "Done" => fOSSemaphore # Null

Locals == TypeOK /\ Places /\ OnceHeld

SemInv == Locals /\ SleepersPaidFor

Negative(n) == IF n < 0 THEN -n ELSE 0
Positive(n) == IF n > 0 THEN n ELSE 0
-----------------------------------------------------------------------------
(* What the steps do to the locals.                                        *)
LEMMA LocalsInit == Init => Locals
BY SemaphoreAssumption
DEF Init, Locals, TypeOK, Places, OnceHeld, OnceState, Pc, OncePc

(* The steps that only move a thread through the SkOnce. *)
OnceStep(t) == OnceLoad(t) \/ OnceClaim(t) \/ OnceRun(t) \/ OnceStore(t) \/ OnceSpin(t)

LEMMA LocalsOnce ==
  ASSUME Locals, NEW t \in Threads, OnceStep(t)
  PROVE  Locals'
<1> USE SemaphoreAssumption
    DEF Locals, TypeOK, Places, OnceHeld, OnceState, Pc, OncePc, Goto, AfterOnce, osVars
<1>1. CASE OnceLoad(t)
  BY <1>1 DEF OnceLoad
<1>2. CASE OnceClaim(t)
  BY <1>2 DEF OnceClaim
<1>3. CASE OnceRun(t)
  BY <1>3 DEF OnceRun
<1>4. CASE OnceStore(t)
  BY <1>4 DEF OnceStore
<1>5. CASE OnceSpin(t)
  BY <1>5 DEF OnceSpin
<1> QED
  BY <1>1, <1>2, <1>3, <1>4, <1>5 DEF OnceStep

LEMMA LocalsSignal ==
  ASSUME Locals, NEW t \in Threads, NEW n \in 1..MaxSignal, Signal(t, n)
  PROVE  Locals'
BY SemaphoreAssumption
DEF Signal, Minimum, Locals, TypeOK, Places, OnceHeld, OnceState, Pc, OncePc, Goto, osVars

LEMMA LocalsOther ==
  ASSUME Locals, NEW t \in Threads,
         Wait(t) \/ TryWait(t) \/ TryCas(t) \/ OsSignal(t) \/ OsWait(t)
  PROVE  Locals'
<1> USE SemaphoreAssumption
    DEF Locals, TypeOK, Places, OnceHeld, OnceState, Pc, OncePc, Goto, osVars
<1>1. CASE Wait(t)
  BY <1>1 DEF Wait
<1>2. CASE TryWait(t)
  BY <1>2 DEF TryWait
<1>3. CASE TryCas(t)
  BY <1>3 DEF TryCas
<1>4. CASE OsSignal(t)
  BY <1>4 DEF OsSignal
<1>5. CASE OsWait(t)
  BY <1>5 DEF OsWait
<1> QED
  BY <1>1, <1>2, <1>3, <1>4, <1>5
-----------------------------------------------------------------------------
(* The counts of sleepers and of posts owed are numbers. *)
LEMMA CountsAreNumbers ==
  ASSUME Locals
  PROVE  /\ IsFiniteSet(Sleepers) /\ Cardinality(Sleepers) \in Nat
         /\ IsFiniteSet(OwedPosts) /\ Owed \in Nat
         /\ Posts \in Nat
<1>1. IsFiniteSet(Sleepers)
  BY Sleepers \in SUBSET Threads, SemaphoreAssumption, FS_Subset DEF Sleepers
<1>2. IsFiniteSet(1..MaxSignal)
  BY SemaphoreAssumption, FS_Interval
<1>3. IsFiniteSet(Threads \X (1..MaxSignal))
  BY <1>2, SemaphoreAssumption, FS_Product
<1>4. OwedPosts \in SUBSET (Threads \X (1..MaxSignal))
  BY DEF OwedPosts
<1>5. IsFiniteSet(OwedPosts)
  BY <1>3, <1>4, FS_Subset
<1>6. Posts \in Nat
  BY DEF Posts, Locals, TypeOK
<1> QED
  BY <1>1, <1>5, <1>6, FS_CardinalityType DEF Owed

(* signal() comes to owe w posts. *)
LEMMA OwedMore ==
  ASSUME Locals, Locals', NEW t \in Threads, NEW w \in 1..MaxSignal, toSignal[t] = 0,
         toSignal' = [toSignal EXCEPT ![t] = w]
  PROVE  Owed' = Owed + w
<1> DEFINE More == {t} \X (1..w)
<1>1. w \in Nat /\ w > 0
  BY SemaphoreAssumption
<1>2. IsFiniteSet(1..w) /\ Cardinality(1..w) = w
  BY <1>1, FS_Interval
<1>3. IsFiniteSet({t}) /\ Cardinality({t}) = 1
  BY FS_Singleton
<1>4. IsFiniteSet(More) /\ Cardinality(More) = w
  <2>1. IsFiniteSet(More) /\ Cardinality(More) = Cardinality({t}) * Cardinality(1..w)
    BY ONLY <1>2, <1>3, FS_Product
  <2> QED
    BY <1>1, <1>2, <1>3, <2>1
<1>5. OwedPosts' = OwedPosts \union More
  <2>1. toSignal \in [Threads -> Nat] /\ MaxSignal \in Nat
    BY SemaphoreAssumption DEF Locals, TypeOK
  <2>2. ASSUME NEW x \in Threads, NEW k \in 1..MaxSignal
        PROVE  <<x, k>> \in OwedPosts' <=> <<x, k>> \in OwedPosts \/ <<x, k>> \in More
    BY <2>1 DEF OwedPosts
  <2>3. More \subseteq Threads \X (1..MaxSignal)
    BY <1>1, <2>1
  <2> QED
    BY <2>2, <2>3 DEF OwedPosts
<1>6. OwedPosts \intersect More = {}
  BY DEF OwedPosts
<1>7. IsFiniteSet(OwedPosts) /\ Owed \in Nat
  BY CountsAreNumbers
<1>8. Cardinality(OwedPosts \intersect More) = 0
  BY <1>6, FS_EmptySet
<1> HIDE DEF More
<1>9. Cardinality(OwedPosts \union More)
        = Cardinality(OwedPosts) + Cardinality(More) - Cardinality(OwedPosts \intersect More)
  BY ONLY <1>4, <1>7, FS_Union
<1>10. Owed' = Owed + w - 0
  BY <1>4, <1>5, <1>8, <1>9 DEF Owed
<1> QED
  BY <1>1, <1>7, <1>10

(* OSSemaphore::signal() makes one of the posts owed. *)
LEMMA OwedLess ==
  ASSUME Locals, NEW t \in Threads, toSignal[t] > 0,
         toSignal' = [toSignal EXCEPT ![t] = @ - 1]
  PROVE  Owed > 0 /\ Owed' = Owed - 1
<1> DEFINE made == <<t, toSignal[t]>>
<1>1. toSignal \in [Threads -> Nat] /\ MaxSignal \in Nat /\ toSignal[t] \in 1..MaxSignal
  BY SemaphoreAssumption DEF Locals, TypeOK, Places
<1>2. made \in OwedPosts
  BY <1>1 DEF OwedPosts
<1>3. OwedPosts' = OwedPosts \ {made}
  <2>1. ASSUME NEW x \in Threads, NEW k \in 1..MaxSignal
        PROVE  <<x, k>> \in OwedPosts' <=> <<x, k>> \in OwedPosts /\ <<x, k>> # made
    BY <1>1 DEF OwedPosts
  <2> QED
    BY <2>1 DEF OwedPosts
<1>4. IsFiniteSet(OwedPosts) /\ Owed \in Nat
  BY CountsAreNumbers
<1> HIDE DEF made
<1>5. Cardinality(OwedPosts \ {made}) = Cardinality(OwedPosts) - 1
  BY <1>2, <1>4, FS_RemoveElement
<1>6. Owed # 0
  BY <1>2, <1>4, FS_EmptySet DEF Owed
<1> QED
  BY <1>3, <1>4, <1>5, <1>6 DEF Owed
-----------------------------------------------------------------------------
(* What the steps do to the three counts: one lemma per kind of step.      *)
LEMMA SignalCounts ==
  ASSUME Locals, NEW t \in Threads, NEW n \in 1..MaxSignal, Signal(t, n)
  PROVE  /\ fCount' = fCount + n
         /\ Posts' = Posts /\ Sleepers' = Sleepers
         /\ Owed' = Owed + Positive(Minimum(-fCount, n))
<1>1. Locals'
  BY LocalsSignal
<1>2. fCount \in Int /\ n \in Nat /\ n > 0 /\ toSignal \in [Threads -> Nat] /\ toSignal[t] = 0
  BY SemaphoreAssumption DEF Locals, TypeOK, Places, Signal
<1>3. fCount' = fCount + n /\ Posts' = Posts
  BY DEF Signal, Posts, osVars
<1>4. CASE Minimum(-fCount, n) > 0
  <2>1. Minimum(-fCount, n) \in 1..MaxSignal
    BY <1>2, <1>4, SemaphoreAssumption DEF Minimum
  <2>2. toSignal' = [toSignal EXCEPT ![t] = Minimum(-fCount, n)]
    BY <1>4 DEF Signal
  <2>3. Owed' = Owed + Minimum(-fCount, n)
    BY <1>1, <1>2, <2>1, <2>2, OwedMore
  <2>4. Sleepers' = Sleepers
    BY <1>2, <1>4, <2>1, <2>2 DEF Signal, Sleepers, Goto, Locals, TypeOK, Pc, OncePc
  <2> QED
    BY <1>3, <1>4, <2>3, <2>4 DEF Positive
<1>5. CASE ~(Minimum(-fCount, n) > 0)
  <2>1. UNCHANGED <<toSignal, pc>>
    BY <1>5 DEF Signal
  <2>2. Owed' = Owed + 0 /\ Sleepers' = Sleepers
    BY <2>1, CountsAreNumbers DEF Owed, OwedPosts, Sleepers
  <2> QED
    BY <1>3, <1>5, <2>2 DEF Positive
<1> QED
  BY <1>4, <1>5

LEMMA WaitCounts ==
  ASSUME Locals, NEW t \in Threads, Wait(t)
  PROVE  /\ fCount' = fCount - 1
         /\ Posts' = Posts /\ Owed' = Owed
         /\ t \notin Sleepers
         /\ Sleepers' = IF fCount <= 0 THEN Sleepers \union {t} ELSE Sleepers
<1>1. Posts' = Posts /\ Owed' = Owed
  BY DEF Wait, Posts, Owed, OwedPosts, osVars
<1>2. t \notin Sleepers /\ toSignal[t] = 0
  BY DEF Wait, Sleepers, OncePc, Locals, Places
<1>3. Sleepers' = IF fCount <= 0 THEN Sleepers \union {t} ELSE Sleepers
  BY <1>2 DEF Wait, Sleepers, OncePc, Goto, Locals, TypeOK
<1> QED
  BY <1>1, <1>2, <1>3 DEF Wait

(* The steps of the SkOnce and of try_wait() touch none of the three.      *)
LEMMA QuietCounts ==
  ASSUME Locals, NEW t \in Threads, OnceStep(t) \/ TryWait(t) \/ TryCas(t)
  PROVE  /\ Posts' = Posts /\ Owed' = Owed /\ Sleepers' = Sleepers
         /\ \/ fCount' = fCount
            \/ fCount > 0 /\ fCount' = fCount - 1 /\ t \notin Sleepers
<1>1. toSignal' = toSignal
  BY DEF OnceStep, OnceLoad, OnceClaim, OnceRun, OnceStore, OnceSpin, TryWait, TryCas, osVars
<1>2. Owed' = Owed
  BY <1>1 DEF Owed, OwedPosts
<1>3. Posts' = Posts
  <2>1. CASE OnceRun(t)
    BY <2>1, SemaphoreAssumption DEF OnceRun, Posts, Locals, OnceHeld
  <2>2. CASE ~OnceRun(t)
    BY <2>2 DEF OnceStep, OnceLoad, OnceClaim, OnceStore, OnceSpin, TryWait, TryCas, osVars, Posts
  <2> QED
    BY <2>1, <2>2
<1>4. Sleepers' = Sleepers
  <2>1. PICK label \in Pc : Goto(t, label)
    BY DEF OnceStep, OnceLoad, OnceClaim, OnceRun, OnceStore, OnceSpin, TryWait, TryCas,
           AfterOnce, Pc, OncePc, Locals, TypeOK, OnceState
  <2>2. CASE OnceStep(t)
    BY <1>1, <2>2
    DEF OnceStep, OnceLoad, OnceClaim, OnceRun, OnceStore, OnceSpin, AfterOnce, Goto,
        Sleepers, OncePc, Pc, Locals, TypeOK, OnceState
  <2>3. CASE TryWait(t) \/ TryCas(t)
    BY <1>1, <2>3 DEF TryWait, TryCas, Goto, Sleepers, OncePc, Locals, TypeOK
  <2> QED
    BY <2>2, <2>3
<1>5. \/ fCount' = fCount
      \/ fCount > 0 /\ fCount' = fCount - 1 /\ t \notin Sleepers
  <2>1. CASE TryCas(t)
    BY <2>1 DEF TryCas, Locals, Places, Sleepers, OncePc
  <2>2. CASE OnceStep(t) \/ TryWait(t)
    BY <2>2 DEF OnceStep, OnceLoad, OnceClaim, OnceRun, OnceStore, OnceSpin, TryWait
  <2> QED
    BY <2>1, <2>2
<1> QED
  BY <1>2, <1>3, <1>4, <1>5

LEMMA OsSignalCounts ==
  ASSUME Locals, NEW t \in Threads, OsSignal(t)
  PROVE  /\ fCount' = fCount
         /\ Posts' = Posts + 1
         /\ Owed > 0 /\ Owed' = Owed - 1
         /\ Sleepers' = Sleepers
<1>1. toSignal[t] > 0 /\ toSignal' = [toSignal EXCEPT ![t] = @ - 1]
  BY DEF OsSignal, Locals, Places
<1>2. fOSSemaphore \in Nat /\ fOSSemaphore' = fOSSemaphore + 1 /\ Null \notin Nat
  BY SemaphoreAssumption DEF OsSignal, Locals, TypeOK, OnceHeld
<1>3. Posts' = Posts + 1
  BY <1>2 DEF Posts
<1>4. Sleepers' = Sleepers
  BY <1>1 DEF OsSignal, Goto, Sleepers, OncePc, Locals, TypeOK
<1> QED
  BY <1>1, <1>3, <1>4, OwedLess DEF OsSignal

LEMMA OsWaitCounts ==
  ASSUME Locals, NEW t \in Threads, OsWait(t)
  PROVE  /\ fCount' = fCount
         /\ Posts > 0 /\ Posts' = Posts - 1
         /\ Owed' = Owed
         /\ t \in Sleepers /\ Sleepers' = Sleepers \ {t}
<1>1. fOSSemaphore \in Nat /\ fOSSemaphore' = fOSSemaphore - 1 /\ fOSSemaphore > 0
      /\ Null \notin Nat
  BY SemaphoreAssumption DEF OsWait, Locals, TypeOK, OnceHeld
<1>2. Posts > 0 /\ Posts' = Posts - 1
  BY <1>1 DEF Posts
<1>3. Owed' = Owed
  BY DEF OsWait, Owed, OwedPosts
<1>4. t \in Sleepers
  BY DEF OsWait, Sleepers, Locals, Places
<1>5. Sleepers' = Sleepers \ {t}
  BY DEF OsWait, Goto, Sleepers, OncePc, Locals, TypeOK
<1> QED
  BY <1>2, <1>3, <1>4, <1>5 DEF OsWait
-----------------------------------------------------------------------------
LEMMA NextCases ==
  ASSUME Next
  PROVE  \E t \in Threads :
           \/ \E n \in 1..MaxSignal : Signal(t, n)
           \/ Wait(t)
           \/ OnceStep(t) \/ TryWait(t) \/ TryCas(t)
           \/ OsSignal(t)
           \/ OsWait(t)
BY DEF Next, Inside, OnceStep

LEMMA SemInvInit == Init => SemInv
<1> SUFFICES ASSUME Init PROVE SemInv
  OBVIOUS
<1>1. Locals
  BY LocalsInit
<1>2. Sleepers = {} /\ OwedPosts = {} /\ Posts = 0
  BY SemaphoreAssumption DEF Init, Sleepers, OncePc, OwedPosts, Posts
<1>3. Cardinality(Sleepers) = 0 /\ Owed = 0
  BY <1>2, FS_EmptySet DEF Owed
<1>4. ~(fCount < 0)
  BY SemaphoreAssumption DEF Init
<1> QED
  BY <1>1, <1>2, <1>3, <1>4 DEF SemInv, SleepersPaidFor, Locals

LEMMA SemInvNext == SemInv /\ [Next]_vars => SemInv'
<1> SUFFICES ASSUME SemInv, [Next]_vars PROVE SemInv'
  OBVIOUS
<1> DEFINE Balance == Cardinality(Sleepers) = Posts + Owed + Negative(fCount)
<1>1. CASE UNCHANGED vars
  BY <1>1
  DEF vars, SemInv, Locals, TypeOK, Places, OnceHeld, SleepersPaidFor, Sleepers, Posts, Owed,
      OwedPosts
<1>2. CASE Next
  <2>1. Locals /\ Balance /\ fCount \in Int
    BY DEF SemInv, SleepersPaidFor, Locals, TypeOK, Negative
  <2>2. PICK t \in Threads :
          \/ \E n \in 1..MaxSignal : Signal(t, n)
          \/ Wait(t)
          \/ OnceStep(t) \/ TryWait(t) \/ TryCas(t)
          \/ OsSignal(t)
          \/ OsWait(t)
    BY <1>2, NextCases
  <2>3. /\ IsFiniteSet(Sleepers) /\ Cardinality(Sleepers) \in Nat
        /\ Owed \in Nat /\ Posts \in Nat
    BY <2>1, CountsAreNumbers
  <2>4. Locals'
    BY <2>1, <2>2, LocalsSignal, LocalsOnce, LocalsOther
  <2>5. Balance'
    <3>1. ASSUME NEW n \in 1..MaxSignal, Signal(t, n) PROVE Balance'
      <4>1. /\ fCount' = fCount + n
            /\ Posts' = Posts /\ Sleepers' = Sleepers
            /\ Owed' = Owed + Positive(Minimum(-fCount, n))
        BY <2>1, <3>1, SignalCounts
      <4>2. n \in Nat
        BY SemaphoreAssumption
      <4> QED
        BY <2>1, <2>3, <4>1, <4>2 DEF Positive, Negative, Minimum
    <3>2. CASE Wait(t)
      <4>1. /\ fCount' = fCount - 1
            /\ Posts' = Posts /\ Owed' = Owed
            /\ t \notin Sleepers
            /\ Sleepers' = IF fCount <= 0 THEN Sleepers \union {t} ELSE Sleepers
        BY <2>1, <3>2, WaitCounts
      <4>2. Cardinality(Sleepers \union {t}) = Cardinality(Sleepers) + 1
        BY <2>3, <4>1, FS_AddElement
      <4> QED
        BY <2>1, <2>3, <4>1, <4>2 DEF Negative
    <3>3. CASE OnceStep(t) \/ TryWait(t) \/ TryCas(t)
      <4>1. /\ Posts' = Posts /\ Owed' = Owed /\ Sleepers' = Sleepers
            /\ fCount' = fCount \/ (fCount > 0 /\ fCount' = fCount - 1)
        BY <2>1, <3>3, QuietCounts
      <4> QED
        BY <2>1, <2>3, <4>1 DEF Negative
    <3>4. CASE OsSignal(t)
      <4>1. /\ fCount' = fCount /\ Sleepers' = Sleepers
            /\ Posts' = Posts + 1 /\ Owed' = Owed - 1
        BY <2>1, <3>4, OsSignalCounts
      <4> QED
        BY <2>1, <2>3, <4>1 DEF Negative
    <3>5. CASE OsWait(t)
      <4>1. /\ fCount' = fCount
            /\ Posts' = Posts - 1 /\ Owed' = Owed
            /\ t \in Sleepers /\ Sleepers' = Sleepers \ {t}
        BY <2>1, <3>5, OsWaitCounts
      <4>2. Cardinality(Sleepers \ {t}) = Cardinality(Sleepers) - 1
        BY <2>3, <4>1, FS_RemoveElement
      <4> QED
        BY <2>1, <2>3, <4>1, <4>2 DEF Negative
    <3> QED
      BY <2>2, <3>1, <3>2, <3>3, <3>4, <3>5
  <2> QED
    BY <2>4, <2>5 DEF SemInv, SleepersPaidFor, Locals, Negative
<1> QED
  BY <1>1, <1>2

(* The inductive invariant holds in every reachable state. *)
THEOREM Invariance == Spec => []SemInv
BY SemInvInit, SemInvNext, PTL DEF Spec

(* SkSemaphore.h:55-79: no wake-up is lost and no token wakes two threads. *)
THEOREM SleepersArePaidFor == Spec => []SleepersPaidFor
<1>1. SemInv => SleepersPaidFor
  BY DEF SemInv
<1> QED
  BY <1>1, Invariance, PTL

(* SkSemaphore.cpp:64-72: the OS semaphore exists where it is used, and    *)
(* no two threads create it.                                               *)
THEOREM CreatedByOne == Spec => []CreatedOnce
<1>1. SemInv => CreatedOnce
  <2> SUFFICES ASSUME SemInv PROVE CreatedOnce
    OBVIOUS
  <2> DEFINE Creators == {t \in Threads : pc[t] \in {"onceRun", "onceStore"}}
  <2>1. \A t \in Threads : pc[t] \in {"osSignal", "osWait"} => fOSSemaphore # Null
    BY DEF SemInv, Locals, OnceHeld
  <2>2. Cardinality(Creators) <= 1
    <3>1. CASE Creators = {}
      BY <3>1, FS_EmptySet
    <3>2. CASE Creators # {}
      <4>1. PICK t \in Threads : Creators = {t}
        BY <3>2 DEF SemInv, Locals, OnceHeld
      <4>2. Cardinality({t}) = 1
        BY FS_Singleton
      <4> QED
        BY <4>1, <4>2
    <3> QED
      BY <3>1, <3>2
  <2>3. onceState = "Done" => \A t \in Threads : pc[t] \notin {"onceRun", "onceStore"}
    BY DEF SemInv, Locals, OnceHeld
  <2> QED
    BY <2>1, <2>2, <2>3 DEF CreatedOnce
<1> QED
  BY <1>1, Invariance, PTL
-----------------------------------------------------------------------------
(* SkSemaphore is a counting semaphore: every atomic step is a step of the *)
(* abstract one or leaves its two variables alone.                         *)
THEOREM Refinement == Spec => ImplementsSemaphore
<1>1. Init => Abstract!SemInit
  <2> SUFFICES ASSUME Init PROVE Abstract!SemInit
    OBVIOUS
  <2>1. Sleepers = {} /\ OwedPosts = {} /\ Posts = 0
    BY SemaphoreAssumption DEF Init, Sleepers, OncePc, OwedPosts, Posts
  <2>2. Owed = 0
    BY <2>1, FS_EmptySet DEF Owed
  <2> QED
    BY <2>1, <2>2, SemaphoreAssumption DEF Init, Abstract!SemInit, FreeTokens
<1>2. SemInv /\ [Next]_vars => [Abstract!SemNext]_(Abstract!svars)
  <2> SUFFICES ASSUME SemInv, [Next]_vars PROVE [Abstract!SemNext]_(Abstract!svars)
    OBVIOUS
  <2> DEFINE Quiet == FreeTokens' = FreeTokens /\ Sleepers' = Sleepers
  <2>1. Quiet => [Abstract!SemNext]_(Abstract!svars)
    BY DEF Abstract!svars
  <2>2. CASE UNCHANGED vars
    BY <2>1, <2>2 DEF vars, FreeTokens, Posts, Owed, OwedPosts, Sleepers
  <2>3. CASE Next
    <3>1. /\ Locals /\ fCount \in Int /\ Owed \in Nat /\ Posts \in Nat
      BY CountsAreNumbers DEF SemInv, Locals, TypeOK
    <3>2. PICK t \in Threads :
            \/ \E n \in 1..MaxSignal : Signal(t, n)
            \/ Wait(t)
            \/ OnceStep(t) \/ TryWait(t) \/ TryCas(t)
            \/ OsSignal(t)
            \/ OsWait(t)
      BY <2>3, NextCases
    <3>3. ASSUME NEW n \in 1..MaxSignal, Signal(t, n) PROVE Abstract!Put(n)
      <4>1. n \in Nat
        BY SemaphoreAssumption
      <4> QED
        BY <3>1, <3>3, <4>1, SignalCounts DEF Abstract!Put, FreeTokens, Positive, Minimum
    <3>4. CASE Wait(t)
      BY <3>1, <3>4, WaitCounts
      DEF Abstract!Take, Abstract!Block, Abstract!SemNext, FreeTokens
    <3>5. CASE OnceStep(t) \/ TryWait(t) \/ TryCas(t)
      <4>1. Quiet \/ Abstract!Take(t)
        BY <3>1, <3>5, QuietCounts DEF Abstract!Take, FreeTokens
      <4> QED
        BY <2>1, <4>1 DEF Abstract!SemNext
    <3>6. CASE OsSignal(t)
      BY <2>1, <3>1, <3>6, OsSignalCounts DEF FreeTokens
    <3>7. CASE OsWait(t)
      <4>1. Abstract!Wake(t)
        BY <3>1, <3>7, OsWaitCounts DEF Abstract!Wake, FreeTokens
      <4> QED
        BY <4>1 DEF Abstract!SemNext
    <3> QED
      BY <3>2, <3>3, <3>4, <3>5, <3>6, <3>7 DEF Abstract!SemNext
  <2> QED
    BY <2>2, <2>3
<1> QED
  BY <1>1, <1>2, Invariance, PTL DEF Spec, ImplementsSemaphore, Abstract!SemSpec
-----------------------------------------------------------------------------
(* SkMutex.                                                                *)

Holders == {t \in Threads : Holding(t)}

(* A thread is inside its semaphore only in acquire() and in signal(). *)
InCalls ==
  \A t \in Threads :
    /\ call[t] \in {"free", "held", "releasing"} => pc[t] = "idle"
    /\ call[t] = "acquiring" => toSignal[t] = 0
    /\ call[t] = "signalling" /\ pc[t] # "idle" => toSignal[t] > 0
    /\ pc[t] # "tryCas"

OneToken == Cardinality(Holders) + FreeTokens = 1

OwnerKnown == \A t \in Threads : (fOwner = t) <=> (call[t] = "held")

MutexInv == MutexTypeOK /\ SemInv /\ InCalls /\ OneToken /\ OwnerKnown
-----------------------------------------------------------------------------
LEMMA HoldersFinite == IsFiniteSet(Holders) /\ Cardinality(Holders) \in Nat
<1>1. IsFiniteSet(Holders)
  BY Holders \in SUBSET Threads, SemaphoreAssumption, FS_Subset DEF Holders
<1> QED
  BY <1>1, FS_CardinalityType

LEMMA NumbersKnown ==
  ASSUME MutexInv
  PROVE  fCount \in Int /\ Owed \in Nat /\ Posts \in Nat /\ FreeTokens \in Nat
<1>1. Locals /\ fCount \in Int
  BY DEF MutexInv, SemInv, Locals, TypeOK
<1> QED
  BY <1>1, CountsAreNumbers DEF FreeTokens

(* The token is not two threads', and not free while one has it. *)
LEMMA HolderHasTheToken ==
  ASSUME MutexInv, NEW t \in Threads, Holding(t)
  PROVE  FreeTokens = 0 /\ Owed = 0 /\ \A u \in Threads : Holding(u) => u = t
<1>1. t \in Holders /\ IsFiniteSet(Holders) /\ Cardinality(Holders) \in Nat
  BY HoldersFinite DEF Holders
<1>2. Cardinality(Holders) # 0
  BY <1>1, FS_EmptySet
<1>3. FreeTokens \in Nat /\ Owed \in Nat /\ Posts \in Nat /\ fCount \in Int
  BY NumbersKnown
<1>4. FreeTokens = 0 /\ Cardinality(Holders) = 1
  BY <1>1, <1>2, <1>3 DEF MutexInv, OneToken
<1>5. Owed = 0
  BY <1>3, <1>4 DEF FreeTokens
<1>6. PICK x : Holders = {x}
  BY <1>1, <1>4, FS_Singleton
<1> QED
  BY <1>1, <1>4, <1>5, <1>6 DEF Holders
-----------------------------------------------------------------------------
(* What each step does to the holders and to the free tokens.              *)
LEMMA AcquireToken ==
  ASSUME MutexInv, NEW t \in Threads, Acquire(t)
  PROVE  OneToken'
<1>1. /\ Locals /\ Wait(t) /\ call[t] = "free" /\ pc[t] = "idle"
      /\ call' = [call EXCEPT ![t] = "acquiring"]
      /\ call \in [Threads -> Calls] /\ pc \in [Threads -> Pc]
  BY DEF Acquire, Step, Wait, MutexInv, SemInv, MutexTypeOK, Locals, TypeOK
<1>2. /\ fCount \in Int /\ Owed \in Nat /\ Posts \in Nat
      /\ IsFiniteSet(Holders) /\ Cardinality(Holders) \in Nat
  BY NumbersKnown, HoldersFinite
<1>3. fCount' = fCount - 1 /\ Posts' = Posts /\ Owed' = Owed
  BY <1>1, WaitCounts
<1>4. t \notin Holders
  BY <1>1 DEF Holders, Holding
<1>5. CASE fCount > 0
  <2>1. Holders' = Holders \union {t}
    BY <1>1, <1>2, <1>5 DEF Holders, Holding, Wait
  <2>2. Cardinality(Holders') = Cardinality(Holders) + 1
    BY <1>2, <1>4, <2>1, FS_AddElement
  <2>3. FreeTokens' = FreeTokens - 1 /\ FreeTokens \in Nat
    BY <1>2, <1>3, <1>5 DEF FreeTokens
  <2> QED
    BY <1>2, <2>2, <2>3 DEF MutexInv, OneToken
<1>6. CASE fCount <= 0
  <2>1. Holders' = Holders
    BY <1>1, <1>6 DEF Holders, Holding, Wait, Goto
  <2>2. FreeTokens' = FreeTokens
    BY <1>2, <1>3, <1>6 DEF FreeTokens
  <2> QED
    BY <2>1, <2>2 DEF MutexInv, OneToken
<1> QED
  BY <1>2, <1>5, <1>6

LEMMA SignalToken ==
  ASSUME MutexInv, NEW t \in Threads, ReleaseSignal(t)
  PROVE  OneToken'
<1>1. /\ Locals /\ Signal(t, 1) /\ call[t] = "releasing" /\ 1 \in 1..MaxSignal
      /\ call' = [call EXCEPT ![t] = "signalling"]
      /\ call \in [Threads -> Calls] /\ pc \in [Threads -> Pc]
  BY MutexAssumption
  DEF ReleaseSignal, Step, MutexInv, SemInv, MutexTypeOK, Locals, TypeOK
<1>2. /\ fCount \in Int /\ Owed \in Nat /\ Posts \in Nat /\ FreeTokens \in Nat
      /\ IsFiniteSet(Holders) /\ Cardinality(Holders) \in Nat
  BY NumbersKnown, HoldersFinite
<1>3. /\ fCount' = fCount + 1 /\ Posts' = Posts
      /\ Owed' = Owed + Positive(Minimum(-fCount, 1))
  BY <1>1, SignalCounts
<1>4. FreeTokens' = FreeTokens + 1
  BY <1>2, <1>3 DEF FreeTokens, Positive, Minimum
<1>5. t \in Holders /\ Holders' = Holders \ {t}
  BY <1>1 DEF Holders, Holding, Signal, Goto
<1>6. Cardinality(Holders') = Cardinality(Holders) - 1
  BY <1>2, <1>5, FS_RemoveElement
<1> QED
  BY <1>2, <1>4, <1>6 DEF MutexInv, OneToken

LEMMA InsideToken ==
  ASSUME MutexInv, NEW t \in Threads, SemaphoreStep(t)
  PROVE  OneToken'
<1>1. /\ Locals /\ ~TryCas(t) /\ call' = call
      /\ OnceStep(t) \/ OsSignal(t) \/ OsWait(t)
      /\ call \in [Threads -> Calls] /\ pc \in [Threads -> Pc]
      /\ toSignal \in [Threads -> Nat]
  BY DEF SemaphoreStep, Inside, OnceStep, TryCas, MutexInv, SemInv, InCalls, MutexTypeOK, Locals,
         TypeOK
<1>2. /\ fCount \in Int /\ Owed \in Nat /\ Posts \in Nat /\ FreeTokens \in Nat
      /\ IsFiniteSet(Holders) /\ Cardinality(Holders) \in Nat
  BY NumbersKnown, HoldersFinite
<1>3. CASE OnceStep(t)
  <2>1. Posts' = Posts /\ Owed' = Owed /\ fCount' = fCount
    BY <1>1, <1>3, QuietCounts
    DEF OnceStep, OnceLoad, OnceClaim, OnceRun, OnceStore, OnceSpin
  <2>2. Holders' = Holders
    BY <1>1, <1>3
    DEF OnceStep, OnceLoad, OnceClaim, OnceRun, OnceStore, OnceSpin, AfterOnce, Goto,
        Holders, Holding, Locals, TypeOK, OnceState
  <2> QED
    BY <2>1, <2>2 DEF MutexInv, OneToken, FreeTokens
<1>4. CASE OsSignal(t)
  <2>1. FreeTokens' = FreeTokens
    BY <1>1, <1>2, <1>4, OsSignalCounts DEF FreeTokens
  <2>2. toSignal[t] > 0
    BY <1>1, <1>4 DEF OsSignal, Locals, Places
  <2>3. Holders' = Holders
    BY <1>1, <1>4, <2>2 DEF OsSignal, Goto, Holders, Holding, MutexInv, InCalls
  <2> QED
    BY <2>1, <2>3 DEF MutexInv, OneToken
<1>5. CASE OsWait(t)
  <2>1. FreeTokens' = FreeTokens - 1
    BY <1>1, <1>2, <1>5, OsWaitCounts DEF FreeTokens
  <2>2. toSignal[t] = 0 /\ pc[t] = "osWait"
    BY <1>1, <1>5 DEF OsWait, Locals, Places
  <2>3. call[t] = "acquiring"
    BY <1>1, <2>2 DEF MutexInv, InCalls, Calls
  <2>4. t \notin Holders /\ Holders' = Holders \union {t}
    BY <1>1, <1>5, <2>2, <2>3 DEF OsWait, Goto, Holders, Holding
  <2>5. Cardinality(Holders') = Cardinality(Holders) + 1
    BY <1>2, <2>4, FS_AddElement
  <2> QED
    BY <1>2, <2>1, <2>5 DEF MutexInv, OneToken
<1> QED
  BY <1>1, <1>3, <1>4, <1>5

(* The steps that touch neither the token nor who holds it. *)
LEMMA CallToken ==
  ASSUME MutexInv, NEW t \in Threads, Acquired(t) \/ Release(t) \/ Released(t)
  PROVE  OneToken'
<1>1. fCount' = fCount /\ pc' = pc /\ toSignal' = toSignal /\ fOSSemaphore' = fOSSemaphore
  BY DEF Acquired, Release, Released, vars
<1>2. FreeTokens' = FreeTokens
  BY <1>1 DEF FreeTokens, Posts, Owed, OwedPosts
<1>3. Holders' = Holders
  BY <1>1
  DEF Acquired, Release, Released, Step, Holders, Holding, MutexInv, MutexTypeOK
<1> QED
  BY <1>2, <1>3 DEF MutexInv, OneToken
-----------------------------------------------------------------------------
(* Everything else the invariant says. *)
LEMMA CallsNext ==
  ASSUME MutexInv, NEW t \in Threads, Acquire(t) \/ GoesOn(t)
  PROVE  MutexTypeOK' /\ InCalls' /\ OwnerKnown'
<1>1. /\ Locals /\ call \in [Threads -> Calls] /\ fOwner \in Threads \union {Null}
      /\ InCalls /\ OwnerKnown /\ Null \notin Threads
      /\ pc \in [Threads -> Pc] /\ toSignal \in [Threads -> Nat]
  BY MutexAssumption DEF MutexInv, SemInv, MutexTypeOK, Locals, TypeOK
<1>2. TypeOK'
  <2>1. [Next]_vars
    BY MutexAssumption
    DEF Acquire, GoesOn, Acquired, Release, ReleaseSignal, Released, SemaphoreStep, Next
  <2> QED
    BY <2>1, SemInvNext DEF MutexInv, SemInv, Locals
<1>3. CASE Acquire(t)
  BY <1>1, <1>2, <1>3
  DEF Acquire, Step, Wait, Goto, MutexTypeOK, InCalls, OwnerKnown, Calls, Pc, OncePc,
      Locals, Places
<1>4. CASE Acquired(t)
  <2>1. Holding(t) /\ \A u \in Threads : call[u] = "held" => Holding(u)
    BY <1>4 DEF Acquired, Step, Holding
  <2>2. \A u \in Threads : call[u] = "held" => u = t
    BY <2>1, HolderHasTheToken
  <2> QED
    BY <1>1, <1>2, <1>4, <2>2
    DEF Acquired, Step, MutexTypeOK, InCalls, OwnerKnown, Calls, vars, Locals, Places
<1>5. CASE Release(t)
  BY <1>1, <1>2, <1>5
  DEF Release, Step, MutexTypeOK, InCalls, OwnerKnown, Calls, vars, Locals, Places
<1>6. CASE ReleaseSignal(t)
  BY <1>1, <1>2, <1>6
  DEF ReleaseSignal, Step, Signal, Minimum, Goto, MutexTypeOK, InCalls, OwnerKnown, Calls, Pc,
      OncePc, Locals, Places
<1>7. CASE Released(t)
  BY <1>1, <1>2, <1>7
  DEF Released, Step, MutexTypeOK, InCalls, OwnerKnown, Calls, vars, Locals, Places
<1>8. CASE SemaphoreStep(t)
  <2>1. call' = call /\ fOwner' = fOwner
    BY <1>8 DEF SemaphoreStep
  <2>2. InCalls'
    <3>1. CASE OnceStep(t)
      BY <1>1, <2>1, <3>1
      DEF InCalls, OnceStep, OnceLoad, OnceClaim, OnceRun, OnceStore, OnceSpin, AfterOnce, Goto,
          Locals, TypeOK, OnceState
    <3>2. CASE OsSignal(t)
      BY <1>1, <2>1, <3>2 DEF InCalls, OsSignal, Goto, Locals, Places
    <3>3. CASE OsWait(t)
      BY <1>1, <2>1, <3>3 DEF InCalls, OsWait, Goto
    <3>4. CASE TryCas(t)
      BY <1>1, <3>4 DEF InCalls, TryCas
    <3> QED
      BY <1>8, <3>1, <3>2, <3>3, <3>4 DEF SemaphoreStep, Inside, OnceStep
  <2> QED
    BY <1>1, <1>2, <2>1, <2>2 DEF MutexTypeOK, OwnerKnown
<1> QED
  BY <1>3, <1>4, <1>5, <1>6, <1>7, <1>8 DEF GoesOn
-----------------------------------------------------------------------------
LEMMA MutexInvInit == MutexInit => MutexInv
<1> SUFFICES ASSUME MutexInit PROVE MutexInv
  OBVIOUS
<1>1. SemInv
  BY SemInvInit DEF MutexInit
<1>2. MutexTypeOK /\ InCalls /\ OwnerKnown
  BY <1>1, MutexAssumption
  DEF MutexInit, Init, SemInv, Locals, MutexTypeOK, InCalls, OwnerKnown, Calls
<1>3. Holders = {} /\ OwedPosts = {} /\ Posts = 0
  BY SemaphoreAssumption DEF MutexInit, Init, Holders, Holding, OwedPosts, Posts
<1>4. Cardinality(Holders) = 0 /\ Owed = 0
  BY <1>3, FS_EmptySet DEF Owed
<1>5. OneToken
  BY <1>3, <1>4, MutexAssumption DEF MutexInit, Init, OneToken, FreeTokens
<1> QED
  BY <1>1, <1>2, <1>5 DEF MutexInv

LEMMA MutexInvNext == MutexInv /\ [MutexNext]_mutexVars => MutexInv'
<1> SUFFICES ASSUME MutexInv, [MutexNext]_mutexVars PROVE MutexInv'
  OBVIOUS
<1>1. CASE UNCHANGED mutexVars
  <2>1. UNCHANGED vars /\ fOwner' = fOwner /\ call' = call
    BY <1>1 DEF mutexVars
  <2>2. SemInv' /\ TypeOK'
    BY <2>1, SemInvNext DEF MutexInv, SemInv, Locals
  <2>3. InCalls' /\ OwnerKnown' /\ MutexTypeOK' /\ OneToken'
    BY <2>1, <2>2
    DEF vars, MutexInv, InCalls, OwnerKnown, MutexTypeOK, OneToken, Holders, Holding,
        FreeTokens, Posts, Owed, OwedPosts
  <2> QED
    BY <2>2, <2>3 DEF MutexInv
<1>2. CASE MutexNext
  <2>1. PICK t \in Threads : Acquire(t) \/ GoesOn(t)
    BY <1>2 DEF MutexNext
  <2>2. [Next]_vars
    BY <2>1, MutexAssumption
    DEF Acquire, GoesOn, Acquired, Release, ReleaseSignal, Released, SemaphoreStep, Next
  <2>3. SemInv'
    BY <2>2, SemInvNext DEF MutexInv
  <2>4. OneToken'
    BY <2>1, AcquireToken, SignalToken, InsideToken, CallToken DEF GoesOn
  <2> QED
    BY <2>1, <2>3, <2>4, CallsNext DEF MutexInv
<1> QED
  BY <1>1, <1>2

(* The inductive invariant: the one token is free or with one holder. *)
THEOREM MutexInvariance == MutexSpec => []MutexInv
BY MutexInvInit, MutexInvNext, PTL DEF MutexSpec

(* SkMutex.h:21-33: assertHeld() is right in whoever asks. *)
THEOREM OwnerHolds == MutexSpec => []OwnerIsHolder
<1>1. MutexInv => OwnerIsHolder
  BY DEF MutexInv, OwnerKnown, OwnerIsHolder
<1> QED
  BY <1>1, MutexInvariance, PTL

(* Two threads never hold the mutex. *)
THEOREM OneHolder ==
  MutexSpec => [](\A t, u \in Threads : Holding(t) /\ Holding(u) => t = u)
<1>1. MutexInv => \A t, u \in Threads : Holding(t) /\ Holding(u) => t = u
  BY HolderHasTheToken
<1> QED
  BY <1>1, MutexInvariance, PTL

(* A thread that gave the mutex back is out of it before the next holder   *)
(* is in, so that the holder may delete the mutex (SkMutex.h:26-30).       *)
THEOREM HolderAlone == MutexSpec => []HolderIsAlone
<1>1. MutexInv => HolderIsAlone
  <2> SUFFICES ASSUME MutexInv, NEW t \in Threads, NEW u \in Threads, Holding(t),
                      call[u] = "signalling", pc[u] # "idle"
               PROVE  FALSE
    BY DEF HolderIsAlone
  <2>1. Owed = 0
    BY HolderHasTheToken
  <2>2. toSignal[u] > 0 /\ 1 \in 1..MaxSignal /\ toSignal \in [Threads -> Nat]
    BY MutexAssumption DEF MutexInv, InCalls, SemInv, Locals, TypeOK
  <2>3. <<u, 1>> \in OwedPosts
    BY <2>2 DEF OwedPosts
  <2>4. IsFiniteSet(OwedPosts)
    BY CountsAreNumbers DEF MutexInv, SemInv
  <2> QED
    BY <2>1, <2>3, <2>4, FS_EmptySet DEF Owed
<1> QED
  BY <1>1, MutexInvariance, PTL
=============================================================================
