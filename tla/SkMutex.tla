------------------------------- MODULE SkMutex -------------------------------
(***************************************************************************)
(* SkMutex (include/private/SkMutex.h) on top of the steps of SkSemaphore: *)
(* acquire() is a wait() of a semaphore that starts at one, release() is a *)
(* signal(). The debug build's fOwner is kept, since assertHeld() reads it *)
(* with nothing but the mutex itself to protect it.                        *)
(***************************************************************************)
EXTENDS SkSemaphore

ASSUME MutexAssumption == MaxSignal >= 1 /\ Null \notin Threads

VARIABLES
  fOwner,      (* the thread that last said it owns the mutex, else Null    *)
  call         (* the call each thread is in, or what it did last           *)

mutexVars == <<vars, fOwner, call>>

Calls == {"free", "acquiring", "held", "releasing", "signalling"}

(* SkSemaphore fSemaphore{1}: for a mutex InitCount is 1. *)
MutexInit == Init /\ fCount = 1 /\ fOwner = Null /\ call = [t \in Threads |-> "free"]

Step(t, from, to) == call[t] = from /\ call' = [call EXCEPT ![t] = to]

(* acquire() begins: fSemaphore.wait() *)
Acquire(t) == Step(t, "free", "acquiring") /\ Wait(t) /\ UNCHANGED fOwner

(* wait() has returned: fOwner = SkGetThreadID() *)
Acquired(t) ==
  /\ pc[t] = "idle"
  /\ Step(t, "acquiring", "held")
  /\ fOwner' = t
  /\ UNCHANGED vars

(* release(): assertHeld(); fOwner = kIllegalThreadID *)
Release(t) == Step(t, "held", "releasing") /\ fOwner' = Null /\ UNCHANGED vars

(* release() goes on: fSemaphore.signal() *)
ReleaseSignal(t) ==
  Step(t, "releasing", "signalling") /\ Signal(t, 1) /\ UNCHANGED fOwner

(* signal() has returned, and with it release(). *)
Released(t) == pc[t] = "idle" /\ Step(t, "signalling", "free") /\ UNCHANGED <<fOwner, vars>>

(* The semaphore's own steps. *)
SemaphoreStep(t) == Inside(t) /\ UNCHANGED <<fOwner, call>>

GoesOn(t) ==
  Acquired(t) \/ Release(t) \/ ReleaseSignal(t) \/ Released(t) \/ SemaphoreStep(t)

MutexNext == \E t \in Threads : Acquire(t) \/ GoesOn(t)

(* Calls that have begun go on, and critical sections end. *)
MutexFairness == \A t \in Threads : WF_mutexVars(GoesOn(t))

MutexSpec == MutexInit /\ [][MutexNext]_mutexVars /\ MutexFairness
-----------------------------------------------------------------------------
MutexTypeOK ==
  /\ TypeOK
  /\ fOwner \in Threads \union {Null}
  /\ call \in [Threads -> Calls]

Holding(t) == call[t] \in {"held", "releasing"} \/ (call[t] = "acquiring" /\ pc[t] = "idle")

(* assertHeld() holds in whoever has the mutex and fails in everybody      *)
(* else: fOwner, which nothing but the mutex itself protects, never shows  *)
(* a thread itself when it does not hold, nor another when it does         *)
(* (SkMutex.h:23, 27-28, 33). With the types.                              *)
OwnerIsHolder ==
  /\ MutexTypeOK
  /\ \A t \in Threads : (fOwner = t) <=> (call[t] = "held")

(* Whoever has the mutex is the only one who may still touch it: no thread *)
(* that gave it back is on its way through signal(). Owners of a mutex     *)
(* rely on it when they delete it after their release (SkCachedData).      *)
HolderIsAlone == \A t, u \in Threads :
  Holding(t) => ~(call[u] = "signalling" /\ pc[u] # "idle")

(* While threads want the mutex, one of them gets it. *)
MutexServed ==
  (\E t \in Threads : call[t] = "acquiring") ~> (\E t \in Threads : call[t] = "held")
=============================================================================
