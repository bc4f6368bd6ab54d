---------------------------- MODULE MCSkSemaphore ----------------------------
(* SkSemaphore for TLC, in both of its uses: by threads that signal, wait   *)
(* and try as they like, and as the semaphore of an SkMutex that threads    *)
(* acquire and release for ever. A behaviour stays with the use it starts   *)
(* with.                                                                    *)
EXTENDS SkMutex

CONSTANT TokenUsers   (* the threads that use a semaphore without a mutex   *)

VARIABLE use          (* "tokens" or "mutex"                                *)

mcVars == <<mutexVars, use>>

MCInit ==
  \/ use = "mutex" /\ MutexInit
  \/ use = "tokens" /\ Init /\ fOwner = Null /\ call = [t \in Threads |-> "free"]

UseTokens ==
  /\ use = "tokens" /\ UNCHANGED <<fOwner, call, use>>
  /\ \E t \in TokenUsers :
       Wait(t) \/ TryWait(t) \/ Inside(t) \/ \E n \in 1..MaxSignal : Signal(t, n)

UseMutex == use = "mutex" /\ MutexNext /\ UNCHANGED use

(* Calls that have begun go on, and critical sections end. *)
ThreadGoesOn(t) ==
  /\ UNCHANGED use
  /\ \/ use = "tokens" /\ Inside(t) /\ UNCHANGED <<fOwner, call>>
     \/ use = "mutex" /\ GoesOn(t)

MCSpec ==
  MCInit /\ [][UseTokens \/ UseMutex]_mcVars /\ \A t \in Threads : WF_mcVars(ThreadGoesOn(t))
=============================================================================
