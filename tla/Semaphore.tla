------------------------------ MODULE Semaphore ------------------------------
(***************************************************************************)
(* What a counting semaphore promises its callers, with none of the way    *)
(* include/private/SkSemaphore.h gets there: tokens are put in by signal   *)
(* and taken out by wait and try_wait, a token is taken by one thread      *)
(* only, and a thread that went to sleep is woken when there is a token.   *)
(*                                                                         *)
(* SkSemaphore is shown to implement this module, and the modules that     *)
(* use semaphores (SkSharedMutex, SkThreadPool) use it in its place.       *)
(***************************************************************************)
EXTENDS Integers

CONSTANTS
  Threads,     (* the threads that share the semaphore            *)
  InitCount,   (* the count the semaphore is constructed with     *)
  MaxSignal    (* the largest number of tokens put in at once     *)

VARIABLES
  tokens,      (* tokens that nobody has taken yet                *)
  blocked      (* threads inside wait() that have not got a token *)

svars == <<tokens, blocked>>

SemInit == tokens = InitCount /\ blocked = {}

(* try_wait succeeds, or wait finds a token at once. *)
Take(t) ==
  /\ t \notin blocked
  /\ tokens > 0
  /\ tokens' = tokens - 1
  /\ UNCHANGED blocked

(* wait may go to sleep even while a signal that will serve it is under way. *)
Block(t) ==
  /\ t \notin blocked
  /\ blocked' = blocked \union {t}
  /\ UNCHANGED tokens

Wake(t) ==
  /\ t \in blocked
  /\ tokens > 0
  /\ tokens' = tokens - 1
  /\ blocked' = blocked \ {t}

Put(n) ==
  /\ tokens' = tokens + n
  /\ UNCHANGED blocked

SemNext ==
  \/ \E t \in Threads : Take(t) \/ Block(t) \/ Wake(t)
  \/ \E n \in 1..MaxSignal : Put(n)

SemSpec == SemInit /\ [][SemNext]_svars

(* A sleeping thread and a free token do not stay side by side for ever    *)
(* while nobody is woken.                                                  *)
Served ==
  \/ []<>(blocked = {} \/ tokens = 0)
  \/ []<><<\E t \in Threads : Wake(t)>>_svars
=============================================================================
