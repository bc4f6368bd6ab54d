----------------------------- MODULE SkSemaphore -----------------------------
(***************************************************************************)
(* SkSemaphore (include/private/SkSemaphore.h, src/core/SkSemaphore.cpp)   *)
(* with the SkOnce (include/private/SkOnce.h) that guards the creation of  *)
(* its OS semaphore.                                                       *)
(*                                                                         *)
(* Every atomic operation on fCount, every atomic operation on the SkOnce  *)
(* state and every call of the OS semaphore is a step of its own; what     *)
(* happens between two of them touches only locals of the thread.          *)
(***************************************************************************)
EXTENDS Integers, FiniteSets

CONSTANTS
  Threads,     (* the threads that call the semaphore                       *)
  InitCount,   (* SkSemaphore(int count)                                    *)
  MaxSignal,   (* bound: the largest n of one signal(n)                     *)
  MaxTokens,   (* bound: the largest value fCount gets                      *)
  Null         (* fOSSemaphore before osSignal or osWait created it         *)

ASSUME SemaphoreAssumption ==
  /\ IsFiniteSet(Threads)
  /\ InitCount \in Nat
  /\ MaxSignal \in Nat
  /\ MaxTokens \in Nat
  /\ Null \notin Nat

VARIABLES
  fCount,      (* the user-space count: negative when threads sleep         *)
  onceState,   (* fOSSemaphoreOnce.fState                                   *)
  fOSSemaphore,(* Null, or the count of the OS semaphore                    *)
  pc,          (* where each thread is                                      *)
  toSignal,    (* signal(): posts the thread still owes the OS semaphore    *)
  seen         (* try_wait(): the count the thread loaded                   *)

osVars == <<onceState, fOSSemaphore>>
vars == <<fCount, onceState, fOSSemaphore, pc, toSignal, seen>>

OnceState == {"NotStarted", "Claimed", "Done"}
OncePc == {"onceLoad", "onceClaim", "onceRun", "onceStore", "onceSpin"}
Pc == {"idle", "tryCas", "osSignal", "osWait"} \union OncePc

Minimum(a, b) == IF a < b THEN a ELSE b

Goto(t, label) == pc' = [pc EXCEPT ![t] = label]

Init ==
  /\ fCount = InitCount
  /\ onceState = "NotStarted"
  /\ fOSSemaphore = Null
  /\ pc = [t \in Threads |-> "idle"]
  /\ toSignal = [t \in Threads |-> 0]
  /\ seen = [t \in Threads |-> 0]
-----------------------------------------------------------------------------
(* Slips in signal(): without its test of toSignal; posting all n tokens;  *)
(* in try_wait(): a store in place of the compare-exchange.                *)
SignalUntested(t, n) ==
  /\ pc[t] = "idle"
  /\ fCount + n <= MaxTokens
  /\ fCount' = fCount + n
  /\ toSignal' = [toSignal EXCEPT ![t] = Minimum(-fCount, n)]
  /\ Goto(t, "onceLoad")
  /\ UNCHANGED <<osVars, seen>>

SignalPostsAll(t, n) ==
  /\ pc[t] = "idle"
  /\ fCount + n <= MaxTokens
  /\ fCount' = fCount + n
  /\ IF fCount < 0
       THEN toSignal' = [toSignal EXCEPT ![t] = n] /\ Goto(t, "onceLoad")
       ELSE UNCHANGED <<toSignal, pc>>
  /\ UNCHANGED <<osVars, seen>>

TryCasBlind(t) ==
  /\ pc[t] = "tryCas"
  /\ fCount' = seen[t] - 1
  /\ seen' = [seen EXCEPT ![t] = 0]
  /\ Goto(t, "idle")
  /\ UNCHANGED <<osVars, toSignal>>

(* signal(n): add n; when the count was negative, wake the sleepers that   *)
(* the n tokens serve.                                                     *)
Signal(t, n) ==
  LET wake == Minimum(-fCount, n) IN
  /\ pc[t] = "idle"
  /\ fCount + n <= MaxTokens
  /\ fCount' = fCount + n
  /\ IF wake > 0
       THEN toSignal' = [toSignal EXCEPT ![t] = wake] /\ Goto(t, "onceLoad")
       ELSE UNCHANGED <<toSignal, pc>>
  /\ UNCHANGED <<osVars, seen>>

(* wait(): take one; when there was none, sleep in the OS semaphore. *)
Wait(t) ==
  /\ pc[t] = "idle"
  /\ fCount' = fCount - 1
  /\ IF fCount <= 0 THEN Goto(t, "onceLoad") ELSE UNCHANGED pc
  /\ UNCHANGED <<osVars, toSignal, seen>>

(* try_wait() first loads the count and gives up when it is not positive. *)
TryWait(t) ==
  /\ pc[t] = "idle"
  /\ fCount > 0
  /\ seen' = [seen EXCEPT ![t] = fCount]
  /\ Goto(t, "tryCas")
  /\ UNCHANGED <<fCount, osVars, toSignal>>

(* The compare-exchange is weak and not retried: it may also fail when the *)
(* count is the one that was loaded.                                       *)
TryCas(t) ==
  /\ pc[t] = "tryCas"
  /\ \/ fCount = seen[t] /\ fCount' = seen[t] - 1
     \/ UNCHANGED fCount
  /\ seen' = [seen EXCEPT ![t] = 0]
  /\ Goto(t, "idle")
  /\ UNCHANGED <<osVars, toSignal>>
-----------------------------------------------------------------------------
(* SkOnce::operator(), called by osSignal and osWait. Once it returns the  *)
(* thread goes on to post (it owes posts) or to sleep (it owes none).      *)
AfterOnce(t) == IF toSignal[t] > 0 THEN "osSignal" ELSE "osWait"

(* Slips in SkOnce: a plain store in place of the claiming compare-        *)
(* exchange; the final store of Done forgotten.                            *)
OnceClaimBlind(t) ==
  /\ pc[t] = "onceClaim"
  /\ onceState' = "Claimed"
  /\ Goto(t, "onceRun")
  /\ UNCHANGED <<fCount, fOSSemaphore, toSignal, seen>>

OnceStoreForgotten(t) ==
  /\ pc[t] = "onceStore"
  /\ Goto(t, AfterOnce(t))
  /\ UNCHANGED <<fCount, osVars, toSignal, seen>>

OnceLoad(t) ==
  /\ pc[t] = "onceLoad"
  /\ Goto(t, CASE onceState = "Done" -> AfterOnce(t)
               [] onceState = "NotStarted" -> "onceClaim"
               [] onceState = "Claimed" -> "onceSpin")
  /\ UNCHANGED <<fCount, osVars, toSignal, seen>>

OnceClaim(t) ==
  /\ pc[t] = "onceClaim"
  /\ IF onceState = "NotStarted"
       THEN onceState' = "Claimed" /\ Goto(t, "onceRun")
       ELSE UNCHANGED onceState /\ Goto(t, "onceSpin")
  /\ UNCHANGED <<fCount, fOSSemaphore, toSignal, seen>>

(* The claimed job: fOSSemaphore = new OSSemaphore. *)
OnceRun(t) ==
  /\ pc[t] = "onceRun"
  /\ fOSSemaphore' = 0
  /\ Goto(t, "onceStore")
  /\ UNCHANGED <<fCount, onceState, toSignal, seen>>

OnceStore(t) ==
  /\ pc[t] = "onceStore"
  /\ onceState' = "Done"
  /\ Goto(t, AfterOnce(t))
  /\ UNCHANGED <<fCount, fOSSemaphore, toSignal, seen>>

OnceSpin(t) ==
  /\ pc[t] = "onceSpin"
  /\ onceState = "Done"
  /\ Goto(t, AfterOnce(t))
  /\ UNCHANGED <<fCount, osVars, toSignal, seen>>
-----------------------------------------------------------------------------
(* OSSemaphore::signal(n) posts one at a time. *)
OsSignal(t) ==
  /\ pc[t] = "osSignal"
  /\ fOSSemaphore' = fOSSemaphore + 1
  /\ toSignal' = [toSignal EXCEPT ![t] = @ - 1]
  /\ IF toSignal[t] = 1 THEN Goto(t, "idle") ELSE UNCHANGED pc
  /\ UNCHANGED <<fCount, onceState, seen>>

(* Slips in OSSemaphore::wait(): sem_wait() not tried again when a signal  *)
(* handler interrupted it.                                                 *)
OsWaitInterrupted(t) ==
  /\ pc[t] = "osWait"
  /\ Goto(t, "idle")
  /\ UNCHANGED <<fCount, osVars, toSignal, seen>>

(* OSSemaphore::wait() sleeps until there is a post to take. *)
OsWait(t) ==
  /\ pc[t] = "osWait"
  /\ fOSSemaphore > 0
  /\ fOSSemaphore' = fOSSemaphore - 1
  /\ Goto(t, "idle")
  /\ UNCHANGED <<fCount, onceState, toSignal, seen>>

(* What a thread does inside a call it has begun. *)
Inside(t) ==
  \/ TryCas(t)
  \/ OnceLoad(t) \/ OnceClaim(t) \/ OnceRun(t) \/ OnceStore(t) \/ OnceSpin(t)
  \/ OsSignal(t) \/ OsWait(t)

Next == \E t \in Threads :
          \/ \E n \in 1..MaxSignal : Signal(t, n)
          \/ Wait(t)
          \/ TryWait(t)
          \/ Inside(t)

(* A thread that has begun a call is scheduled until the call returns;     *)
(* nothing makes a thread begin one.                                       *)
Fairness == \A t \in Threads : WF_vars(Inside(t))

Spec == Init /\ [][Next]_vars /\ Fairness
-----------------------------------------------------------------------------
TypeOK ==
  /\ fCount \in Int
  /\ onceState \in OnceState
  /\ fOSSemaphore \in Nat \union {Null}
  /\ pc \in [Threads -> Pc]
  /\ toSignal \in [Threads -> Nat]
  /\ seen \in [Threads -> Nat]

Posts == IF fOSSemaphore = Null THEN 0 ELSE fOSSemaphore

(* The posts that signal() calls still owe: the 1st, 2nd, ... of each thread. *)
OwedPosts == {p \in Threads \X (1..MaxSignal) : p[2] <= toSignal[p[1]]}
Owed == Cardinality(OwedPosts)

(* The threads that took a token they did not get: inside wait(), not back. *)
Sleepers == {t \in Threads : toSignal[t] = 0 /\ pc[t] \in OncePc \union {"osWait"}}

(* Every sleeping thread is paid for: by a post in the OS semaphore, by a  *)
(* post a signal() still owes, or by the negative part of fCount, which    *)
(* the next signal() will see. If the two sides differ a wake-up is lost   *)
(* or one token wakes two threads (SkSemaphore.h:55-79). With the types.    *)
SleepersPaidFor ==
  /\ TypeOK
  /\ Cardinality(Sleepers) = Posts + Owed + (IF fCount < 0 THEN -fCount ELSE 0)

(* osSignal and osWait dereference fOSSemaphore right after the SkOnce     *)
(* returned: it has been created, and by a single thread, since a second   *)
(* creation would drop the posts of the first (SkSemaphore.cpp:64-72).     *)
CreatedOnce ==
  /\ \A t \in Threads : pc[t] \in {"osSignal", "osWait"} => fOSSemaphore # Null
  /\ Cardinality({t \in Threads : pc[t] \in {"onceRun", "onceStore"}}) <= 1
  /\ onceState = "Done" => \A t \in Threads : pc[t] \notin {"onceRun", "onceStore"}

(* The semaphore of src/core implements the abstract one: its free tokens  *)
(* are the positive part of fCount and the posts made or owed.             *)
FreeTokens == (IF fCount > 0 THEN fCount ELSE 0) + Posts + Owed

Abstract == INSTANCE Semaphore WITH tokens <- FreeTokens, blocked <- Sleepers

ImplementsSemaphore == Abstract!SemSpec

(* No wake-up is lost: while threads sleep and a token is free or owed,    *)
(* sleepers go on being woken, however the posts and the SkOnce interleave *)
(* (SkSemaphore.h:66-70, 76-79).                                           *)
NoLostWakeUp == Abstract!Served
=============================================================================
