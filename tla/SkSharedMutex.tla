---------------------------- MODULE SkSharedMutex ----------------------------
(***************************************************************************)
(* SkSharedMutex as a release build compiles it (the #else branch of       *)
(* src/core/SkSharedMutex.cpp): three counts packed in the atomic          *)
(* fQueueCounts, and two semaphores to wait in.                            *)
(*                                                                         *)
(* Every atomic operation on fQueueCounts is a step. The semaphores are    *)
(* used through what the module Semaphore promises: a count of tokens that *)
(* signal() adds to and wait() takes one from when there is one.           *)
(***************************************************************************)
EXTENDS Integers, FiniteSets

CONSTANTS
  Threads,      (* the threads that use the lock                            *)
  kCountMask,   (* the largest value of one of the counts: (1 << 10) - 1    *)
  BitOr(_, _)   (* the bits of two counts together: the operator |=         *)

(* Ten bits have to be enough for the threads that are in the lock at once. *)
ASSUME SharedMutexAssumption ==
  /\ IsFiniteSet(Threads)
  /\ kCountMask \in Nat
  /\ Cardinality(Threads) <= kCountMask
  /\ \A n \in 0..kCountMask : BitOr(0, n) = n

VARIABLES
  fQueueCounts,     (* the packed counts, unpacked                          *)
  fSharedQueue,     (* tokens in the semaphore readers wait in              *)
  fExclusiveQueue,  (* tokens in the semaphore writers wait in              *)
  pc,               (* where each thread is                                 *)
  oldQueueCounts,   (* local: the counts a CAS loop last read, else none    *)
  waitingShared     (* local of release(): tokens it owes the readers       *)

vars == <<fQueueCounts, fSharedQueue, fExclusiveQueue, pc, oldQueueCounts, waitingShared>>

Counts == [shared : 0..kCountMask, exclusive : 0..kCountMask, waiting : 0..kCountMask]
NoCounts == [shared |-> 0, exclusive |-> 0, waiting |-> 0]

Pc == {"out", "waitEx", "holdEx", "releaseCas", "signalShared", "signalEx",
       "sharedCas", "waitSh", "holdSh"}

In(labels) == {t \in Threads : pc[t] \in labels}
Goto(t, label) == pc' = [pc EXCEPT ![t] = label]

(* Adding one to a field of the packed int: when the field is full it      *)
(* becomes zero and the next field gets the carry (the last one's is lost  *)
(* in bits that no mask reads).                                            *)
Wrap(n) == IF n > kCountMask THEN 0 ELSE n
AddWaiting(q) == [q EXCEPT !.waiting = Wrap(@ + 1)]
AddExclusive(q) ==
  LET r == [q EXCEPT !.exclusive = Wrap(@ + 1)]
  IN  IF q.exclusive = kCountMask THEN AddWaiting(r) ELSE r
AddShared(q) ==
  LET r == [q EXCEPT !.shared = Wrap(@ + 1)]
  IN  IF q.shared = kCountMask THEN AddExclusive(r) ELSE r

Init ==
  /\ fQueueCounts = NoCounts
  /\ fSharedQueue = 0
  /\ fExclusiveQueue = 0
  /\ pc = [t \in Threads |-> "out"]
  /\ oldQueueCounts = [t \in Threads |-> NoCounts]
  /\ waitingShared = [t \in Threads |-> 0]
-----------------------------------------------------------------------------
(* Slips in acquire(): running readers not looked at.                      *)
AcquireOverReaders(t) ==
  /\ pc[t] = "out"
  /\ fQueueCounts' = AddExclusive(fQueueCounts)
  /\ Goto(t, IF fQueueCounts.exclusive > 0 THEN "waitEx" ELSE "holdEx")
  /\ UNCHANGED <<fSharedQueue, fExclusiveQueue, oldQueueCounts, waitingShared>>

(* acquire(): register as a writer; run when there was neither a writer    *)
(* nor a running reader.                                                   *)
Acquire(t) ==
  /\ pc[t] = "out"
  /\ fQueueCounts' = AddExclusive(fQueueCounts)
  /\ Goto(t, IF fQueueCounts.exclusive > 0 \/ fQueueCounts.shared > 0
               THEN "waitEx" ELSE "holdEx")
  /\ UNCHANGED <<fSharedQueue, fExclusiveQueue, oldQueueCounts, waitingShared>>

(* fExclusiveQueue.wait() returns. *)
ExclusiveWake(t) ==
  /\ pc[t] = "waitEx"
  /\ fExclusiveQueue > 0
  /\ fExclusiveQueue' = fExclusiveQueue - 1
  /\ Goto(t, "holdEx")
  /\ UNCHANGED <<fQueueCounts, fSharedQueue, oldQueueCounts, waitingShared>>

(* release() begins with a load of the counts. *)
Release(t) ==
  /\ pc[t] = "holdEx"
  /\ oldQueueCounts' = [oldQueueCounts EXCEPT ![t] = fQueueCounts]
  /\ Goto(t, "releaseCas")
  /\ UNCHANGED <<fQueueCounts, fSharedQueue, fExclusiveQueue, waitingShared>>

(* Slips in release(): the waiting readers still count as waiting; their    *)
(* number is read from the new counts, where it is zero.                   *)
ReleasedKeepsWaiting(q) ==
  [q EXCEPT !.exclusive = @ - 1,
            !.shared = IF q.waiting > 0 THEN BitOr(@, q.waiting) ELSE @]

(* The counts release() computes from the ones it read: one writer less,   *)
(* and the waiting readers (if any) now count as running. The |= relies on *)
(* the shared bits being zero.                                             *)
Released(q) ==
  [exclusive |-> q.exclusive - 1,
   waiting   |-> 0,
   shared    |-> IF q.waiting > 0 THEN BitOr(q.shared, q.waiting) ELSE q.shared]

(* A compare-exchange of release() that succeeds, with what it decides. *)
ReleaseCas(t) ==
  LET old == oldQueueCounts[t] IN
  /\ pc[t] = "releaseCas"
  /\ fQueueCounts = old
  /\ fQueueCounts' = Released(old)
  /\ waitingShared' = [waitingShared EXCEPT ![t] = old.waiting]
  /\ oldQueueCounts' = [oldQueueCounts EXCEPT ![t] = NoCounts]
  /\ Goto(t, IF old.waiting > 0 THEN "signalShared"
             ELSE IF Released(old).exclusive > 0 THEN "signalEx" ELSE "out")
  /\ UNCHANGED <<fSharedQueue, fExclusiveQueue>>

(* A compare-exchange that fails leaves what it found in oldQueueCounts. *)
CasFails(t) ==
  /\ pc[t] \in {"releaseCas", "sharedCas"}
  /\ fQueueCounts # oldQueueCounts[t]
  /\ oldQueueCounts' = [oldQueueCounts EXCEPT ![t] = fQueueCounts]
  /\ UNCHANGED <<fQueueCounts, fSharedQueue, fExclusiveQueue, pc, waitingShared>>

(* A slip in release(): fSharedQueue.signal() for signal(waitingShared).   *)
SignalSharedOnce(t) ==
  /\ pc[t] = "signalShared"
  /\ fSharedQueue' = fSharedQueue + 1
  /\ waitingShared' = [waitingShared EXCEPT ![t] = 0]
  /\ Goto(t, "out")
  /\ UNCHANGED <<fQueueCounts, fExclusiveQueue, oldQueueCounts>>

(* fSharedQueue.signal(waitingShared) *)
SignalShared(t) ==
  /\ pc[t] = "signalShared"
  /\ fSharedQueue' = fSharedQueue + waitingShared[t]
  /\ waitingShared' = [waitingShared EXCEPT ![t] = 0]
  /\ Goto(t, "out")
  /\ UNCHANGED <<fQueueCounts, fExclusiveQueue, oldQueueCounts>>

(* fExclusiveQueue.signal() *)
SignalExclusive(t) ==
  /\ pc[t] = "signalEx"
  /\ fExclusiveQueue' = fExclusiveQueue + 1
  /\ Goto(t, "out")
  /\ UNCHANGED <<fQueueCounts, fSharedQueue, oldQueueCounts, waitingShared>>
-----------------------------------------------------------------------------
(* acquireShared() begins with a load of the counts. *)
AcquireShared(t) ==
  /\ pc[t] = "out"
  /\ oldQueueCounts' = [oldQueueCounts EXCEPT ![t] = fQueueCounts]
  /\ Goto(t, "sharedCas")
  /\ UNCHANGED <<fQueueCounts, fSharedQueue, fExclusiveQueue, waitingShared>>

(* Slip in acquireShared(): a reader let in beside running readers         *)
(* although a writer waits.                                                *)
SharedCasJoins(t) ==
  LET old == oldQueueCounts[t]
      waits == old.exclusive > 0 /\ old.shared = 0
  IN
  /\ pc[t] = "sharedCas"
  /\ fQueueCounts = old
  /\ fQueueCounts' = IF waits THEN AddWaiting(old) ELSE AddShared(old)
  /\ oldQueueCounts' = [oldQueueCounts EXCEPT ![t] = NoCounts]
  /\ Goto(t, IF waits THEN "waitSh" ELSE "holdSh")
  /\ UNCHANGED <<fSharedQueue, fExclusiveQueue, waitingShared>>

(* With a writer registered the reader waits, otherwise it runs. What the  *)
(* code tests after the loop is the writers' count it has just written.    *)
SharedCas(t) ==
  LET old == oldQueueCounts[t]
      new == IF old.exclusive > 0 THEN AddWaiting(old) ELSE AddShared(old)
  IN
  /\ pc[t] = "sharedCas"
  /\ fQueueCounts = old
  /\ fQueueCounts' = new
  /\ oldQueueCounts' = [oldQueueCounts EXCEPT ![t] = NoCounts]
  /\ Goto(t, IF new.exclusive > 0 THEN "waitSh" ELSE "holdSh")
  /\ UNCHANGED <<fSharedQueue, fExclusiveQueue, waitingShared>>

(* fSharedQueue.wait() returns. *)
SharedWake(t) ==
  /\ pc[t] = "waitSh"
  /\ fSharedQueue > 0
  /\ fSharedQueue' = fSharedQueue - 1
  /\ Goto(t, "holdSh")
  /\ UNCHANGED <<fQueueCounts, fExclusiveQueue, oldQueueCounts, waitingShared>>

(* Mutant: the last reader lets a writer in only when two writers wait.    *)
ReleaseSharedOffByOne(t) ==
  /\ pc[t] = "holdSh"
  /\ fQueueCounts' = [fQueueCounts EXCEPT !.shared = @ - 1]
  /\ Goto(t, IF fQueueCounts.shared = 1 /\ fQueueCounts.exclusive > 1
               THEN "signalEx" ELSE "out")
  /\ UNCHANGED <<fSharedQueue, fExclusiveQueue, oldQueueCounts, waitingShared>>

(* The last running reader lets one writer in. *)
ReleaseShared(t) ==
  /\ pc[t] = "holdSh"
  /\ fQueueCounts' = [fQueueCounts EXCEPT !.shared = @ - 1]
  /\ Goto(t, IF fQueueCounts.shared = 1 /\ fQueueCounts.exclusive > 0
               THEN "signalEx" ELSE "out")
  /\ UNCHANGED <<fSharedQueue, fExclusiveQueue, oldQueueCounts, waitingShared>>
-----------------------------------------------------------------------------
(* What a thread does inside a call it has begun. *)
Inside(t) ==
  \/ ExclusiveWake(t) \/ ReleaseCas(t) \/ CasFails(t) \/ SignalShared(t)
  \/ SignalExclusive(t) \/ SharedCas(t) \/ SharedWake(t)

(* A thread that holds the lock gives it back. *)
GiveBack(t) == Release(t) \/ ReleaseShared(t)

Next == \E t \in Threads :
  Acquire(t) \/ AcquireShared(t) \/ GiveBack(t) \/ Inside(t)

(* Calls that have begun go on, and critical sections end. *)
Fairness == \A t \in Threads : WF_vars(Inside(t)) /\ WF_vars(GiveBack(t))

Spec == Init /\ [][Next]_vars /\ Fairness
-----------------------------------------------------------------------------
TypeOK ==
  /\ fQueueCounts \in Counts
  /\ fSharedQueue \in Nat
  /\ fExclusiveQueue \in Nat
  /\ pc \in [Threads -> Pc]
  /\ oldQueueCounts \in [Threads -> Counts]
  /\ waitingShared \in [Threads -> Nat]

Writers == In({"holdEx", "releaseCas"})       (* a writer has the lock until its CAS *)
Readers == In({"holdSh"})
WaitingWriters == In({"waitEx"})
WaitingReaders == In({"waitSh"})
Registered == Writers \union WaitingWriters
OwingShared == In({"signalShared"})
OwingExclusive == In({"signalEx"})

(* The reader tokens a release() has decided on and not yet signalled. *)
OwedBy(owing, tokens) == IF owing = {} THEN 0 ELSE tokens[CHOOSE t \in owing : TRUE]
OwedShared == OwedBy(OwingShared, waitingShared)

(* A writer runs alone, however late the semaphores deliver what the       *)
(* counts have already decided (SkSharedMutex.cpp:273, 336, 352).          *)
MutualExclusion ==
  /\ Cardinality(Writers) <= 1
  /\ Writers # {} => Readers = {}

(* The packed counts say who is where: writers registered; readers running *)
(* or about to be; readers that wait for the next release(). A carry from  *)
(* one ten-bit field into the next, a stale CAS or a token too many breaks *)
(* it (SkSharedMutex.cpp:244-262).                                         *)
CountsAgree ==
  /\ fQueueCounts.exclusive = Cardinality(Registered)
  /\ fQueueCounts.shared = Cardinality(Readers) + fSharedQueue + OwedShared
  /\ Cardinality(WaitingReaders) = fQueueCounts.waiting + fSharedQueue + OwedShared

(* One pass for a writer exists, held or under way, exactly when a writer  *)
(* is registered and no reader runs: the decision to let a writer in is    *)
(* taken once, by acquire(), release() or releaseShared().                 *)
OneWriterPass ==
  Cardinality(Writers) + fExclusiveQueue + Cardinality(OwingExclusive) =
    IF fQueueCounts.exclusive > 0 /\ fQueueCounts.shared = 0 THEN 1 ELSE 0

(* Readers wait only behind a registered writer, whose release() is what   *)
(* will let them in.                                                       *)
WaitBehindWriter == fQueueCounts.waiting > 0 => fQueueCounts.exclusive > 0

(* At most one release() at a time has readers to wake, and it has some. *)
OneOwing == \A t \in OwingShared :
  OwingShared = {t} /\ waitingShared[t] > 0

(* The inductive invariant. *)
IInv == TypeOK /\ CountsAgree /\ OneWriterPass /\ WaitBehindWriter /\ OneOwing

(* Whose turn it is: the readers', while a reader runs or has been let in. *)
Turn == IF fQueueCounts.shared > 0 THEN "readers" ELSE "writer"

(* The implementation of the promise in the header. *)
Abstract == INSTANCE ReadersWriterLock WITH
  reading <- Readers,
  writing <- Writers,
  waitingReaders <- WaitingReaders,
  waitingWriters <- WaitingWriters,
  turn <- Turn

(* Readers and a single writer alternate: a writer that leaves while       *)
(* readers wait is followed by readers, a reader that comes while a writer *)
(* is around waits (SkSharedMutex.h:28).                                   *)
ImplementsLock == Abstract!LockSpec

(* While writers wait, a writer gets in; while readers wait, a reader does. *)
WritersServed == Abstract!WritersServed
ReadersServed == Abstract!ReadersServed
=============================================================================
