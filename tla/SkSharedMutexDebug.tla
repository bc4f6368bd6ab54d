-------------------------- MODULE SkSharedMutexDebug --------------------------
(***************************************************************************)
(* SkSharedMutex as a debug build compiles it (the #ifdef SK_DEBUG branch  *)
(* of src/core/SkSharedMutex.cpp): sets of thread ids under the mutex fMu, *)
(* one semaphore for writers, two for readers.                             *)
(*                                                                         *)
(* A block that holds fMu is one step; the semaphores are counts of        *)
(* tokens, as the module Semaphore promises, and are used after fMu has    *)
(* been given back.                                                        *)
(***************************************************************************)
EXTENDS Integers, FiniteSets

CONSTANT Threads

ASSUME DebugAssumption == IsFiniteSet(Threads)

VARIABLES
  fCurrentShared,      (* readers running, or let in and not yet awake      *)
  fWaitingExclusive,   (* writers, the running one included                 *)
  fWaitingShared,      (* readers that the next release() lets in           *)
  fSharedQueueSelect,  (* the queue that readers now wait in                *)
  fSharedQueue,        (* tokens in each of the two readers' queues         *)
  fExclusiveQueue,     (* tokens in the writers' queue                      *)
  pc,                  (* where each thread is                              *)
  queue,               (* local sharedQueueSelect                           *)
  sharedWaitingCount   (* local of release(): tokens it owes the readers    *)

sets == <<fCurrentShared, fWaitingExclusive, fWaitingShared, fSharedQueueSelect>>
queues == <<fSharedQueue, fExclusiveQueue>>
locals == <<queue, sharedWaitingCount>>
vars == <<sets, queues, pc, locals>>

Pc == {"out", "waitEx", "holdEx", "signalShared", "signalEx", "waitSh", "holdSh"}

In(labels) == {t \in Threads : pc[t] \in labels}
Goto(t, label) == pc' = [pc EXCEPT ![t] = label]

Init ==
  /\ fCurrentShared = {} /\ fWaitingExclusive = {} /\ fWaitingShared = {}
  /\ fSharedQueueSelect = 0
  /\ fSharedQueue = [q \in 0..1 |-> 0]
  /\ fExclusiveQueue = 0
  /\ pc = [t \in Threads |-> "out"]
  /\ queue = [t \in Threads |-> 0]
  /\ sharedWaitingCount = [t \in Threads |-> 0]
-----------------------------------------------------------------------------
(* A slip in acquire(): the running readers are not looked at.             *)
AcquireOverReaders(t) ==
  /\ pc[t] = "out"
  /\ fWaitingExclusive' = fWaitingExclusive \union {t}
  /\ Goto(t, IF Cardinality(fWaitingExclusive') > 1 THEN "waitEx" ELSE "holdEx")
  /\ UNCHANGED <<fCurrentShared, fWaitingShared, fSharedQueueSelect, queues, locals>>

Acquire(t) ==
  /\ pc[t] = "out"
  /\ fWaitingExclusive' = fWaitingExclusive \union {t}
  /\ Goto(t, IF fCurrentShared # {} \/ Cardinality(fWaitingExclusive') > 1
               THEN "waitEx" ELSE "holdEx")
  /\ UNCHANGED <<fCurrentShared, fWaitingShared, fSharedQueueSelect, queues, locals>>

ExclusiveWake(t) ==
  /\ pc[t] = "waitEx"
  /\ fExclusiveQueue > 0
  /\ fExclusiveQueue' = fExclusiveQueue - 1
  /\ Goto(t, "holdEx")
  /\ UNCHANGED <<sets, fSharedQueue, locals>>

(* Slip in release(): the queue readers wait in stays the same.            *)
ReleaseSameQueue(t) ==
  /\ pc[t] = "holdEx"
  /\ fWaitingExclusive' = fWaitingExclusive \ {t}
  /\ fCurrentShared' = fWaitingShared
  /\ fWaitingShared' = fCurrentShared
  /\ queue' = [queue EXCEPT ![t] = fSharedQueueSelect]
  /\ sharedWaitingCount' = [sharedWaitingCount EXCEPT ![t] = Cardinality(fWaitingShared)]
  /\ Goto(t, IF fWaitingShared # {} THEN "signalShared"
             ELSE IF fWaitingExclusive' # {} THEN "signalEx" ELSE "out")
  /\ UNCHANGED <<queues, fSharedQueueSelect>>

(* release(): the waiting readers become the current ones, and those that  *)
(* come later wait in the other queue.                                     *)
Release(t) ==
  /\ pc[t] = "holdEx"
  /\ fWaitingExclusive' = fWaitingExclusive \ {t}
  /\ fCurrentShared' = fWaitingShared
  /\ fWaitingShared' = fCurrentShared
  /\ queue' = [queue EXCEPT ![t] = fSharedQueueSelect]
  /\ sharedWaitingCount' = [sharedWaitingCount EXCEPT ![t] = Cardinality(fWaitingShared)]
  /\ fSharedQueueSelect' = IF fWaitingShared # {} THEN 1 - fSharedQueueSelect
                           ELSE fSharedQueueSelect
  /\ Goto(t, IF fWaitingShared # {} THEN "signalShared"
             ELSE IF fWaitingExclusive' # {} THEN "signalEx" ELSE "out")
  /\ UNCHANGED queues

SignalShared(t) ==
  /\ pc[t] = "signalShared"
  /\ fSharedQueue' = [fSharedQueue EXCEPT ![queue[t]] = @ + sharedWaitingCount[t]]
  /\ sharedWaitingCount' = [sharedWaitingCount EXCEPT ![t] = 0]
  /\ Goto(t, "out")
  /\ UNCHANGED <<sets, fExclusiveQueue, queue>>

SignalExclusive(t) ==
  /\ pc[t] = "signalEx"
  /\ fExclusiveQueue' = fExclusiveQueue + 1
  /\ Goto(t, "out")
  /\ UNCHANGED <<sets, fSharedQueue, locals>>
-----------------------------------------------------------------------------
AcquireShared(t) ==
  /\ pc[t] = "out"
  /\ IF fWaitingExclusive # {}
       THEN /\ fWaitingShared' = fWaitingShared \union {t}
            /\ UNCHANGED fCurrentShared
            /\ Goto(t, "waitSh")
       ELSE /\ fCurrentShared' = fCurrentShared \union {t}
            /\ UNCHANGED fWaitingShared
            /\ Goto(t, "holdSh")
  /\ queue' = [queue EXCEPT ![t] = fSharedQueueSelect]
  /\ UNCHANGED <<fWaitingExclusive, fSharedQueueSelect, queues, sharedWaitingCount>>

SharedWake(t) ==
  /\ pc[t] = "waitSh"
  /\ fSharedQueue[queue[t]] > 0
  /\ fSharedQueue' = [fSharedQueue EXCEPT ![queue[t]] = @ - 1]
  /\ Goto(t, "holdSh")
  /\ UNCHANGED <<sets, fExclusiveQueue, locals>>

(* Slips in releaseShared(): the reader stays in the set; the last reader  *)
(* lets a writer in only when two wait.                                    *)
ReleaseSharedStays(t) ==
  /\ pc[t] = "holdSh"
  /\ Goto(t, IF fCurrentShared = {} /\ fWaitingExclusive # {} THEN "signalEx" ELSE "out")
  /\ UNCHANGED <<sets, queues, locals>>

ReleaseSharedOffByOne(t) ==
  /\ pc[t] = "holdSh"
  /\ fCurrentShared' = fCurrentShared \ {t}
  /\ Goto(t, IF fCurrentShared' = {} /\ Cardinality(fWaitingExclusive) > 1
               THEN "signalEx" ELSE "out")
  /\ UNCHANGED <<fWaitingExclusive, fWaitingShared, fSharedQueueSelect, queues, locals>>

ReleaseShared(t) ==
  /\ pc[t] = "holdSh"
  /\ fCurrentShared' = fCurrentShared \ {t}
  /\ Goto(t, IF fCurrentShared' = {} /\ fWaitingExclusive # {} THEN "signalEx" ELSE "out")
  /\ UNCHANGED <<fWaitingExclusive, fWaitingShared, fSharedQueueSelect, queues, locals>>
-----------------------------------------------------------------------------
Inside(t) ==
  ExclusiveWake(t) \/ SignalShared(t) \/ SignalExclusive(t) \/ SharedWake(t)
GiveBack(t) == Release(t) \/ ReleaseShared(t)

Next == \E t \in Threads :
  Acquire(t) \/ AcquireShared(t) \/ GiveBack(t) \/ Inside(t)

(* Calls that have begun go on, and critical sections end. *)
Fairness == \A t \in Threads : WF_vars(Inside(t)) /\ WF_vars(GiveBack(t))

Spec == Init /\ [][Next]_vars /\ Fairness
-----------------------------------------------------------------------------
TypeOK ==
  /\ fCurrentShared \subseteq Threads
  /\ fWaitingExclusive \subseteq Threads
  /\ fWaitingShared \subseteq Threads
  /\ fSharedQueueSelect \in 0..1
  /\ fSharedQueue \in [0..1 -> Nat]
  /\ fExclusiveQueue \in Nat
  /\ pc \in [Threads -> Pc]
  /\ queue \in [Threads -> 0..1]
  /\ sharedWaitingCount \in [Threads -> Nat]

(* None of the SkASSERTs and SkDEBUGFAILs fires for a thread that uses the *)
(* lock properly: assertHeld() while it writes, assertHeldShared() while   *)
(* it reads, tryAdd() of a thread that is outside                          *)
(* (SkSharedMutex.cpp:134, 163, 183, 198, 224, 236). With the types.       *)
AssertionsHold ==
  /\ TypeOK
  /\ \A t \in Threads :
       /\ pc[t] = "holdEx" => fCurrentShared = {} /\ t \in fWaitingExclusive
       /\ pc[t] = "holdSh" => t \in fCurrentShared
       /\ pc[t] \in {"out", "signalEx", "signalShared"} =>
            t \notin fCurrentShared \union fWaitingExclusive \union fWaitingShared

(* The two queues keep the readers that came after the writer apart from   *)
(* the ones before: the tokens in a queue, or owed to it, are exactly      *)
(* those of the readers that were let in and wait there, so nobody who     *)
(* came later can take them (SkSharedMutex.cpp:152-154).                   *)
QueuesApart == \A q \in 0..1 :
  Cardinality({t \in In({"waitSh"}) \intersect fCurrentShared : queue[t] = q}) =
    fSharedQueue[q] +
      (IF \E t \in In({"signalShared"}) : queue[t] = q
         THEN sharedWaitingCount[CHOOSE t \in In({"signalShared"}) : queue[t] = q]
         ELSE 0)

Abstract == INSTANCE ReadersWriterLock WITH
  reading <- In({"holdSh"}),
  writing <- In({"holdEx"}),
  waitingReaders <- In({"waitSh"}),
  waitingWriters <- In({"waitEx"}),
  turn <- IF fCurrentShared # {} THEN "readers" ELSE "writer"

(* The debug build implements the promise of the header, too. *)
ImplementsLock == Abstract!LockSpec

WritersServed == Abstract!WritersServed

(* Stronger than in a release build: no reader waits for ever, since the   *)
(* token the release() sent it cannot be taken by a later one.             *)
EveryReaderServed == \A t \in Threads : (pc[t] = "waitSh") ~> (pc[t] = "holdSh")
=============================================================================
