---------------------------- MODULE SkThreadPool ----------------------------
(***************************************************************************)
(* The thread pool of src/core/SkExecutor.cpp and the task groups of       *)
(* src/core/SkTaskGroup.cpp that run on it. Work may itself make a group,  *)
(* add tasks to it and wait for them, and a thread that waits borrows      *)
(* whatever work there is: every thread has a stack of unfinished work.    *)
(*                                                                         *)
(* A step is an atomic operation, a critical section of fWorkLock, or a    *)
(* call of fWorkAvailable, which is used as Semaphore promises it.         *)
(***************************************************************************)
EXTENDS Integers, FiniteSets, SequencesExt

CONSTANTS
  Workers,   (* the threads of the pool                                    *)
  Clients,   (* the threads that use it; they run work of their own        *)
  Owner,     (* the client that destroys the pool                          *)
  Tasks,     (* the functions given to add()                               *)
  AddedBy,   (* the client or task that adds each task                     *)
  Loose,     (* the tasks given to the executor itself, with no group      *)
  Null       (* the empty function that shuts a worker down                *)

Threads == Workers \union Clients

ASSUME PoolAssumption ==
  /\ Workers # {} /\ IsFiniteSet(Workers) /\ IsFiniteSet(Clients) /\ IsFiniteSet(Tasks)
  /\ Owner \in Clients
  /\ AddedBy \in [Tasks -> Tasks \union Clients] /\ Loose \subseteq Tasks
  /\ Null \notin Tasks \union Clients /\ Workers \intersect Clients = {}
  /\ Clients \intersect Tasks = {} /\ Workers \intersect Tasks = {}

VARIABLES
  fifo,      (* which of the two pools it is: pop() takes the first, or the last *)
  fWork,     (* the list of work                                                 *)
  tokens,    (* fWorkAvailable                                                   *)
  blocked,
  fPending,  (* of the group of a client or task                                 *)
  stack,     (* what each thread is doing, the innermost first                   *)
  nulls,     (* empty functions the destructor has added                         *)
  ran,       (* history: the tasks that have returned                            *)
  destroyed  (* the destructor of the pool has returned                          *)

vars == <<fifo, fWork, tokens, blocked, fPending, stack, nulls, ran, destroyed>>

fWorkAvailable == INSTANCE Semaphore WITH InitCount <- 0, MaxSignal <- 1

AddedTo(body) == {task \in Tasks : AddedBy[task] = body}

(* Some work under way: the tasks it has still to add, and the ones of a   *)
(* batch() that are counted but not added.                                 *)
Frame(body) ==
  [body |-> body, at |-> "run", todo |-> AddedTo(body), batch |-> {}]

Loop == [body |-> Null, at |-> "loop", todo |-> {}, batch |-> {}]

Init ==
  /\ fifo \in BOOLEAN
  /\ fWork = <<>> /\ fWorkAvailable!SemInit
  /\ fPending = [body \in Tasks \union Clients |-> 0]
  /\ stack = [t \in Threads |-> IF t \in Workers THEN <<Loop>> ELSE <<Frame(t)>>]
  /\ nulls = 0 /\ ran = {} /\ destroyed = FALSE
-----------------------------------------------------------------------------
At(t, label) == stack[t] # <<>> /\ Head(stack[t]).at = label
Top(t) == Head(stack[t])
Goes(t, frame) == stack' = [stack EXCEPT ![t] = <<frame>> \o Tail(@)]
Returns(t) == stack' = [stack EXCEPT ![t] = Tail(@)]

(* SkTaskGroup::add(), or batch() of all that is left: fPending first.     *)
Add(t) ==
  /\ At(t, "run") /\ Top(t).todo # {} /\ Top(t).batch = {}
  /\ \E batch \in {{task} : task \in Top(t).todo} \union {Top(t).todo} :
       /\ fPending' = [fPending EXCEPT ![Top(t).body] = @ + Cardinality(batch \ Loose)]
       /\ Goes(t, [Top(t) EXCEPT !.todo = @ \ batch, !.batch = batch])
  /\ UNCHANGED <<fifo, fWork, tokens, blocked, nulls, ran, destroyed>>

(* SkThreadPool::add(): into the list, then the signal. *)
Push(t) ==
  /\ At(t, "run")
  /\ \E task \in Top(t).batch :
       /\ fWork' = Append(fWork, task)
       /\ Goes(t, [Top(t) EXCEPT !.batch = @ \ {task}, !.at = "signal"])
  /\ UNCHANGED <<fifo, tokens, blocked, fPending, nulls, ran, destroyed>>

(* Mutant: nobody is told. *)
SignalForgotten(t) ==
  /\ At(t, "signal")
  /\ Goes(t, [Top(t) EXCEPT !.at = "run"])
  /\ UNCHANGED <<fifo, fWork, tokens, blocked, fPending, nulls, ran, destroyed>>

Signal(t) ==
  /\ At(t, "signal")
  /\ fWorkAvailable!Put(1)
  /\ Goes(t, [Top(t) EXCEPT !.at = "run"])
  /\ UNCHANGED <<fifo, fWork, fPending, nulls, ran, destroyed>>

(* SkTaskGroup::wait(): until done(), do other work. The count is looked   *)
(* at first; the group may be done when work is borrowed all the same.     *)
AddedAll(t) == At(t, "run") /\ Top(t).todo = {} /\ Top(t).batch = {}
Done(t) == AddedAll(t) /\ fPending[Top(t).body] = 0

NotDone(t) ==
  /\ AddedAll(t) /\ ~Done(t)
  /\ Goes(t, [Top(t) EXCEPT !.at = "borrow"])
  /\ UNCHANGED <<fifo, fWork, tokens, blocked, fPending, nulls, ran, destroyed>>

(* Mutant: the list is not asked for through the semaphore. *)
BorrowUntaken(t) ==
  /\ At(t, "borrow") /\ fWork # <<>>
  /\ Goes(t, [Top(t) EXCEPT !.at = "pop"])
  /\ UNCHANGED <<fifo, fWork, tokens, blocked, fPending, nulls, ran, destroyed>>

(* borrow(): its try_wait() takes a token, or fails, for want of work or   *)
(* because another thread changed the count.                               *)
Borrow(t) ==
  /\ At(t, "borrow")
  /\ fWorkAvailable!Take(t)
  /\ Goes(t, [Top(t) EXCEPT !.at = "pop"])
  /\ UNCHANGED <<fifo, fWork, fPending, nulls, ran, destroyed>>

BorrowNothing(t) ==
  /\ At(t, "borrow")
  /\ Goes(t, [Top(t) EXCEPT !.at = "run"])
  /\ UNCHANGED <<fifo, fWork, tokens, blocked, fPending, nulls, ran, destroyed>>

(* Loop(): wait() finds a token, goes to sleep, or is woken.               *)
LoopWait(t) ==
  /\ At(t, "loop")
  /\ \/ fWorkAvailable!Block(t) /\ UNCHANGED stack
     \/ /\ fWorkAvailable!Take(t) \/ fWorkAvailable!Wake(t)
        /\ Goes(t, [Top(t) EXCEPT !.at = "pop"])
  /\ UNCHANGED <<fifo, fWork, fPending, nulls, ran, destroyed>>

(* do_work(): the work is popped and run. An empty function ends Loop();   *)
(* borrow() asserts that it gets none, and goes on if it does.             *)
Popped == IF fifo THEN Head(fWork) ELSE Last(fWork)
Resumed(frame) == [frame EXCEPT !.at = IF frame.body = Null THEN "loop" ELSE "run"]

(* Mutant: one end of the list is read, the other removed. *)
PopOtherEnd(t) ==
  /\ At(t, "pop") /\ fWork # <<>>
  /\ fWork' = Tail(fWork)
  /\ IF Popped = Null
       THEN IF Top(t).body = Null THEN Returns(t) ELSE Goes(t, Resumed(Top(t)))
       ELSE stack' = [stack EXCEPT ![t] = <<Frame(Popped), Resumed(Head(@))>> \o Tail(@)]
  /\ UNCHANGED <<fifo, tokens, blocked, fPending, nulls, ran, destroyed>>

Pop(t) ==
  /\ At(t, "pop") /\ fWork # <<>>
  /\ fWork' = IF fifo THEN Tail(fWork) ELSE Front(fWork)
  /\ IF Popped = Null
       THEN IF Top(t).body = Null THEN Returns(t) ELSE Goes(t, Resumed(Top(t)))
       ELSE stack' = [stack EXCEPT ![t] = <<Frame(Popped), Resumed(Head(@))>> \o Tail(@)]
  /\ UNCHANGED <<fifo, tokens, blocked, fPending, nulls, ran, destroyed>>

(* Mutant: the destructor of a group does not wait. *)
ReturnUnwaited(t) ==
  /\ AddedAll(t) /\ Top(t).body \in Tasks
  /\ ran' = ran \union {Top(t).body}
  /\ IF Top(t).body \in Loose THEN Returns(t) ELSE Goes(t, [Top(t) EXCEPT !.at = "count"])
  /\ UNCHANGED <<fifo, fWork, tokens, blocked, fPending, nulls, destroyed>>

(* The function returns, and then the count of its group goes down.        *)
Return(t) ==
  /\ Done(t) /\ Top(t).body \in Tasks
  /\ ran' = ran \union {Top(t).body}
  /\ IF Top(t).body \in Loose THEN Returns(t) ELSE Goes(t, [Top(t) EXCEPT !.at = "count"])
  /\ UNCHANGED <<fifo, fWork, tokens, blocked, fPending, nulls, destroyed>>

CountDown(t) ==
  /\ At(t, "count")
  /\ fPending' = [fPending EXCEPT ![AddedBy[Top(t).body]] = @ - 1]
  /\ Returns(t)
  /\ UNCHANGED <<fifo, fWork, tokens, blocked, nulls, ran, destroyed>>

(* Mutant: the pool is destroyed with a group still at work. *)
DestroyingEarly ==
  /\ AddedAll(Owner) /\ Top(Owner).body = Owner
  /\ \A t \in Clients \ {Owner} : stack[t] = <<>>

(* A client is through. The owner destroys the pool when the others are:   *)
(* an empty function for each worker, then join().                         *)
Leave(t) ==
  /\ Done(t) /\ t = Top(t).body /\ t # Owner
  /\ Returns(t)
  /\ UNCHANGED <<fifo, fWork, tokens, blocked, fPending, nulls, ran, destroyed>>

Destroying ==
  /\ Done(Owner) /\ Top(Owner).body = Owner
  /\ \A t \in Clients \ {Owner} : stack[t] = <<>>

AddNull ==
  /\ Destroying /\ nulls < Cardinality(Workers)
  /\ nulls' = nulls + 1
  /\ fWork' = Append(fWork, Null)
  /\ Goes(Owner, [Top(Owner) EXCEPT !.at = "signal"])
  /\ UNCHANGED <<fifo, tokens, blocked, fPending, ran, destroyed>>

(* Mutant: the workers are not joined. *)
JoinNone ==
  /\ Destroying /\ nulls = Cardinality(Workers)
  /\ Returns(Owner) /\ destroyed' = TRUE
  /\ UNCHANGED <<fifo, fWork, tokens, blocked, fPending, nulls, ran>>

Join ==
  /\ Destroying /\ nulls = Cardinality(Workers)
  /\ \A t \in Workers : stack[t] = <<>>
  /\ Returns(Owner) /\ destroyed' = TRUE
  /\ UNCHANGED <<fifo, fWork, tokens, blocked, fPending, nulls, ran>>
-----------------------------------------------------------------------------
Step(t) ==
  \/ Add(t) \/ Push(t) \/ Signal(t) \/ NotDone(t) \/ Borrow(t) \/ BorrowNothing(t)
  \/ LoopWait(t) \/ Pop(t) \/ Return(t) \/ CountDown(t) \/ Leave(t)
  \/ t = Owner /\ (AddNull \/ Join)

Terminated == destroyed /\ UNCHANGED vars

Next == (\E t \in Threads : Step(t)) \/ Terminated

(* Every thread is scheduled, and no try_wait() fails for ever while there *)
(* are tokens again and again: one that does has lost against another      *)
(* thread that took a token or put one in.                                 *)
Spec ==
  /\ Init /\ [][Next]_vars
  /\ \A t \in Threads : WF_vars(Step(t)) /\ SF_vars(Borrow(t))
-----------------------------------------------------------------------------
Frames(t) == ToSet(stack[t])
Busy == UNION {{frame.body : frame \in Frames(t)} : t \in Threads}

TypeOK ==
  /\ \A t \in Threads : \A frame \in Frames(t) :
       /\ frame.body \in Tasks \union Clients \union {Null}
       /\ frame.at \in {"run", "signal", "borrow", "loop", "pop", "count"}
       /\ frame.todo \subseteq Tasks /\ frame.batch \subseteq Tasks
  /\ ToSet(fWork) \subseteq Tasks \union {Null}
  /\ tokens \in Nat
  /\ fPending \in [Tasks \union Clients -> 0..Cardinality(Tasks)]
  /\ ran \subseteq Tasks /\ nulls \in 0..Cardinality(Workers)

(* A thread that got a token finds work: the list is never shorter than    *)
(* the tokens and the threads about to pop, whoever else pops in between   *)
(* (SkASSERT(!fWork.empty()), SkExecutor.cpp:115). With the types.         *)
TokensHaveWork ==
  /\ TypeOK
  /\ tokens + Cardinality({t \in Threads : At(t, "pop")}) <= Len(fWork)

(* No task is run twice, or both kept and run, whatever is popped while it *)
(* waits below other work.                                                 *)
RunOnce ==
  LET listed(task) == {i \in DOMAIN fWork : fWork[i] = task}
      under(task) == {t \in Threads : \E frame \in Frames(t) : frame.body = task}
  IN \A task \in Tasks :
       /\ Cardinality(listed(task)) + Cardinality(under(task)) <= 1
       /\ task \in ran => listed(task) = {} /\ \A t \in under(task) : At(t, "count")

(* What SkTaskGroup::wait() promises: who is past it finds all the tasks   *)
(* that were added to the group run (SkTaskGroup.h:29-34). And the last    *)
(* thing a task does is to count down in a group on the stack of whoever   *)
(* waits for it: that group is still there (SkTaskGroup.cpp:17).           *)
Past(body) == body \in ran \/ body \in Clients \ Busy
WaitMeansRun ==
  /\ \A body \in Tasks \union Clients : Past(body) => AddedTo(body) \ Loose \subseteq ran
  /\ \A t \in Threads : At(t, "count") => ~Past(AddedBy[Top(t).body])

(* What the two properties below rest on: what is given to the executor    *)
(* itself makes no group and waits for nothing (SkPDFTypes.cpp:475,        *)
(* SkPDFBitmap.cpp:281), and every task is added, in the end, by a client. *)
LooseAlone == \A task \in Loose : AddedTo(task) = {}
Grounded == \A S \in SUBSET Tasks : S # {} => \E task \in S : AddedBy[task] \notin S

(* A FIFO pool runs everything it was given before its destructor returns, *)
(* also what nobody waits for: the empty functions are added behind it     *)
(* (SkExecutor.cpp:82-89). A LIFO pool does not.                           *)
FifoRunsAll == destroyed /\ fifo => ran = Tasks

(* borrow() never takes what is meant to shut a worker down                *)
(* (SkAssertResult, SkExecutor.cpp:105).                                   *)
BorrowGetsWork ==
  \A t \in Threads :
    At(t, "pop") /\ Top(t).body # Null /\ fWork # <<>> => Popped # Null

(* Every wait returns, however groups nest: no thread blocks waiting for   *)
(* others to do its work (SkTaskGroup.cpp:37-40). The destructor returns.  *)
WaitsReturn == \A t \in Clients : <>(stack[t] = <<>>)
=============================================================================
