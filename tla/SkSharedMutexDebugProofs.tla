---------------------- MODULE SkSharedMutexDebugProofs ----------------------
(***************************************************************************)
(* Theorems about SkSharedMutex in a debug build, for any finite set of    *)
(* threads: its assertions never fire, its two queues keep readers apart,  *)
(* and it implements the lock that the release build implements.           *)
(***************************************************************************)
EXTENDS SkSharedMutexDebug, FiniteSetTheorems, TLAPS

(* The sets say where the threads are. *)
SetsAgree ==
  /\ \A t \in Threads : t \in fWaitingExclusive <=> pc[t] \in {"waitEx", "holdEx"}
  /\ \A t \in Threads : t \in fCurrentShared \union fWaitingShared
                          <=> pc[t] \in {"waitSh", "holdSh"}
  /\ \A t \in Threads : pc[t] = "holdSh" => t \in fCurrentShared
  /\ fCurrentShared \intersect fWaitingShared = {}
  /\ fWaitingShared # {} => fWaitingExclusive # {}

(* There is one pass for a writer (held, owed, or in the queue) exactly    *)
(* when a writer wants the lock and the readers do not have it.            *)
Passing == In({"holdEx", "signalEx"})
OnePass ==
  IF fWaitingExclusive # {} /\ fCurrentShared = {}
    THEN \/ Passing = {} /\ fExclusiveQueue = 1
         \/ fExclusiveQueue = 0 /\ \E t \in Threads : Passing = {t}
    ELSE Passing = {} /\ fExclusiveQueue = 0

(* Readers let in wait in one queue, those that came later in the other.   *)
TwoQueues == \A t \in Threads :
  pc[t] = "waitSh" =>
    queue[t] = IF t \in fWaitingShared THEN fSharedQueueSelect ELSE 1 - fSharedQueueSelect

OneOwing ==
  /\ \A t \in Threads : pc[t] = "signalShared" => sharedWaitingCount[t] > 0
  /\ \A t, u \in Threads : pc[t] = "signalShared" /\ pc[u] = "signalShared" => t = u

(* The tokens in a queue and those owed to it are for the readers let in.  *)
LetIn(q) == {t \in Threads : t \in fCurrentShared /\ pc[t] = "waitSh" /\ queue[t] = q}
Owes(t, q) == pc[t] = "signalShared" /\ queue[t] = q
TokensMatch == \A q \in 0..1 :
  /\ (\A t \in Threads : ~Owes(t, q)) => Cardinality(LetIn(q)) = fSharedQueue[q]
  /\ \A t \in Threads :
       Owes(t, q) => Cardinality(LetIn(q)) = fSharedQueue[q] + sharedWaitingCount[t]

DebugInv == TypeOK /\ SetsAgree /\ OnePass /\ TwoQueues /\ OneOwing /\ TokensMatch
-----------------------------------------------------------------------------
LEMMA SubsetsFinite ==
  ASSUME NEW S, S \subseteq Threads
  PROVE  IsFiniteSet(S) /\ Cardinality(S) \in Nat /\ (Cardinality(S) = 0 <=> S = {})
<1>1. IsFiniteSet(S)
  BY DebugAssumption, FS_Subset
<1> QED
  BY <1>1, FS_CardinalityType, FS_EmptySet

(* Whoever adds himself to a set is one of several if it was not empty. *)
LEMMA SecondOne ==
  ASSUME NEW S, S \subseteq Threads, NEW t \in Threads, t \notin S
  PROVE  Cardinality(S \union {t}) > 1 <=> S # {}
<1>1. IsFiniteSet(S) /\ Cardinality(S) \in Nat /\ (Cardinality(S) = 0 <=> S = {})
  BY SubsetsFinite
<1>2. Cardinality(S \union {t}) = Cardinality(S) + 1
  BY <1>1, FS_AddElement
<1> QED
  BY <1>1, <1>2

(* While readers are not let in, no token is for one. *)
LEMMA NobodyLetIn ==
  ASSUME DebugInv, fCurrentShared = {}
  PROVE  /\ \A q \in 0..1 : LetIn(q) = {} /\ fSharedQueue[q] = 0
         /\ \A t \in Threads : pc[t] # "signalShared"
<1>1. \A q \in 0..1 : LetIn(q) = {} /\ Cardinality(LetIn(q)) = 0
  BY FS_EmptySet DEF LetIn
<1>2. ASSUME NEW t \in Threads, pc[t] = "signalShared" PROVE FALSE
  <2>1. queue[t] \in 0..1 /\ sharedWaitingCount[t] > 0 /\ sharedWaitingCount[t] \in Nat
    BY <1>2 DEF DebugInv, TypeOK, OneOwing
  <2>2. fSharedQueue[queue[t]] \in Nat
    BY <2>1 DEF DebugInv, TypeOK
  <2>3. 0 = fSharedQueue[queue[t]] + sharedWaitingCount[t]
    BY <1>1, <1>2, <2>1 DEF DebugInv, TokensMatch, Owes
  <2> QED
    BY <2>1, <2>2, <2>3
<1>3. \A q \in 0..1 : fSharedQueue[q] = 0
  BY <1>1, <1>2 DEF DebugInv, TokensMatch, Owes
<1> QED
  BY <1>1, <1>2, <1>3

(* A token in a queue is for a reader let in, and so is every reader that  *)
(* finds one.                                                              *)
LEMMA TokenIsForMe ==
  ASSUME DebugInv, NEW t \in Threads, pc[t] = "waitSh", fSharedQueue[queue[t]] > 0
  PROVE  t \in LetIn(queue[t])
<1>1. queue[t] \in 0..1 /\ fSharedQueue[queue[t]] \in Nat /\ fSharedQueueSelect \in 0..1
  BY DEF DebugInv, TypeOK
<1>2. LetIn(queue[t]) # {}
  <2> SUFFICES ASSUME LetIn(queue[t]) = {} PROVE FALSE
    OBVIOUS
  <2>1. Cardinality(LetIn(queue[t])) = 0
    BY FS_EmptySet
  <2>2. PICK u \in Threads : Owes(u, queue[t])
    <3>1. (\A u \in Threads : ~Owes(u, queue[t])) => 0 = fSharedQueue[queue[t]]
      BY <1>1, <2>1 DEF DebugInv, TokensMatch
    <3> QED
      BY <1>1, <3>1
  <2>3. 0 = fSharedQueue[queue[t]] + sharedWaitingCount[u]
    BY <1>1, <2>1, <2>2 DEF DebugInv, TokensMatch
  <2>4. sharedWaitingCount[u] \in Nat
    BY DEF DebugInv, TypeOK
  <2> QED
    BY <1>1, <2>3, <2>4
<1>3. PICK u \in Threads : u \in fCurrentShared /\ pc[u] = "waitSh" /\ queue[u] = queue[t]
  BY <1>2 DEF LetIn
<1>4. queue[t] = 1 - fSharedQueueSelect
  <2>1. u \notin fWaitingShared
    BY <1>3 DEF DebugInv, SetsAgree
  <2> QED
    BY <1>3, <2>1 DEF DebugInv, TwoQueues
<1>5. t \notin fWaitingShared
  <2>1. fSharedQueueSelect # 1 - fSharedQueueSelect
    BY <1>1
  <2> QED
    BY <1>4, <2>1 DEF DebugInv, TwoQueues
<1>6. t \in fCurrentShared
  BY <1>5 DEF DebugInv, SetsAgree
<1> QED
  BY <1>6 DEF LetIn

(* A writer that runs is alone, and has the only pass. *)
LEMMA WriterAlone ==
  ASSUME DebugInv, NEW t \in Threads, pc[t] = "holdEx"
  PROVE  /\ fCurrentShared = {} /\ fExclusiveQueue = 0 /\ Passing = {t}
         /\ t \in fWaitingExclusive
<1>1. t \in Passing
  BY DEF Passing, In
<1> QED
  BY <1>1 DEF DebugInv, OnePass, SetsAgree
-----------------------------------------------------------------------------
(* The matching of tokens after a step that concerns neither.              *)
LEMMA MatchKept ==
  ASSUME DebugInv, UNCHANGED <<fSharedQueue, sharedWaitingCount>>,
         \A u \in Threads : (pc[u] = "signalShared")' <=> pc[u] = "signalShared",
         \A u \in Threads : pc[u] = "signalShared" => queue'[u] = queue[u],
         \A q \in 0..1 : LetIn(q)' = LetIn(q)
  PROVE  OneOwing' /\ TokensMatch'
<1>1. OneOwing'
  BY DEF DebugInv, OneOwing
<1>2. \A u \in Threads : \A q \in 0..1 : Owes(u, q)' <=> Owes(u, q)
  BY DEF Owes
<1>3. TokensMatch'
  BY <1>2 DEF DebugInv, TokensMatch
<1> QED
  BY <1>1, <1>3

LEMMA InitHolds == Init => DebugInv
<1> SUFFICES ASSUME Init PROVE DebugInv
  OBVIOUS
<1>1. TypeOK /\ SetsAgree /\ TwoQueues /\ OneOwing
  BY DEF Init, TypeOK, Pc, SetsAgree, TwoQueues, OneOwing
<1>2. OnePass
  BY DEF Init, OnePass, Passing, In
<1>3. \A q \in 0..1 : LetIn(q) = {} /\ Cardinality(LetIn(q)) = 0
  BY FS_EmptySet DEF Init, LetIn
<1>4. TokensMatch
  BY <1>3 DEF Init, TokensMatch, Owes
<1> QED
  BY <1>1, <1>2, <1>4 DEF DebugInv

LEMMA AcquireKeeps ==
  ASSUME DebugInv, NEW t \in Threads, Acquire(t)
  PROVE  DebugInv'
<1> DEFINE waits == fCurrentShared # {} \/ fWaitingExclusive # {}
           label == IF waits THEN "waitEx" ELSE "holdEx"
<1>1. t \notin fWaitingExclusive /\ t \notin fCurrentShared /\ t \notin fWaitingShared
  BY DEF DebugInv, SetsAgree, Acquire
<1>2. Cardinality(fWaitingExclusive') > 1 <=> fWaitingExclusive # {}
  BY <1>1, SecondOne DEF DebugInv, TypeOK, Acquire
<1>3. pc' = [pc EXCEPT ![t] = label] /\ pc[t] = "out"
  BY <1>2 DEF Acquire, Goto
<1>4. TypeOK'
  BY <1>3 DEF DebugInv, TypeOK, Acquire, Pc, queues, locals
<1>5. SetsAgree'
  BY <1>3, <1>4 DEF DebugInv, TypeOK, SetsAgree, Acquire
<1>6. Passing' = IF waits THEN Passing ELSE Passing \union {t}
  BY <1>3 DEF DebugInv, TypeOK, Passing, In
<1>7. OnePass'
  BY <1>6 DEF DebugInv, OnePass, Acquire, queues
<1>8. TwoQueues'
  BY <1>3 DEF DebugInv, TypeOK, TwoQueues, Acquire, locals
<1>9. \A q \in 0..1 : LetIn(q)' = LetIn(q)
  BY <1>3 DEF DebugInv, TypeOK, LetIn, Acquire, locals
<1>10. OneOwing' /\ TokensMatch'
  <2>1. \A u \in Threads : (pc[u] = "signalShared")' <=> pc[u] = "signalShared"
    BY <1>3 DEF DebugInv, TypeOK
  <2> QED
    BY <1>9, <2>1, MatchKept DEF Acquire, queues, locals
<1> QED
  BY <1>4, <1>5, <1>7, <1>8, <1>10 DEF DebugInv

LEMMA ExclusiveWakeKeeps ==
  ASSUME DebugInv, NEW t \in Threads, ExclusiveWake(t)
  PROVE  DebugInv'
<1>1. pc' = [pc EXCEPT ![t] = "holdEx"] /\ pc[t] = "waitEx"
  BY DEF ExclusiveWake, Goto
<1>2. TypeOK'
  BY <1>1 DEF DebugInv, TypeOK, ExclusiveWake, Pc, sets, locals
<1>3. SetsAgree'
  BY <1>1 DEF DebugInv, TypeOK, SetsAgree, ExclusiveWake, sets
<1>4. Passing' = Passing \union {t}
  BY <1>1 DEF DebugInv, TypeOK, Passing, In
<1>5. OnePass'
  BY <1>4 DEF DebugInv, TypeOK, OnePass, ExclusiveWake, sets
<1>6. TwoQueues'
  BY <1>1 DEF DebugInv, TypeOK, TwoQueues, ExclusiveWake, sets, locals
<1>7. \A q \in 0..1 : LetIn(q)' = LetIn(q)
  BY <1>1 DEF DebugInv, TypeOK, LetIn, ExclusiveWake, sets, locals
<1>8. OneOwing' /\ TokensMatch'
  <2>1. \A u \in Threads : (pc[u] = "signalShared")' <=> pc[u] = "signalShared"
    BY <1>1 DEF DebugInv, TypeOK
  <2> QED
    BY <1>7, <2>1, MatchKept DEF ExclusiveWake, locals
<1> QED
  BY <1>2, <1>3, <1>5, <1>6, <1>8 DEF DebugInv

LEMMA ReleaseKeeps ==
  ASSUME DebugInv, NEW t \in Threads, Release(t)
  PROVE  DebugInv'
<1> DEFINE label == IF fWaitingShared # {} THEN "signalShared"
                    ELSE IF fWaitingExclusive \ {t} # {} THEN "signalEx" ELSE "out"
<1>1. pc' = [pc EXCEPT ![t] = label] /\ pc[t] = "holdEx"
  BY DEF Release, Goto
<1>2. fCurrentShared = {} /\ fExclusiveQueue = 0 /\ Passing = {t} /\ t \in fWaitingExclusive
  BY <1>1, WriterAlone
<1>3. Cardinality(fWaitingShared) \in Nat /\ (Cardinality(fWaitingShared) = 0 <=> fWaitingShared = {})
  BY SubsetsFinite DEF DebugInv, TypeOK
<1>4. /\ \A q \in 0..1 : LetIn(q) = {} /\ fSharedQueue[q] = 0
      /\ \A u \in Threads : pc[u] # "signalShared"
  BY <1>2, NobodyLetIn
<1>5. TypeOK'
  BY <1>1, <1>3 DEF DebugInv, TypeOK, Release, Pc, queues
<1>6. SetsAgree'
  BY <1>1, <1>2 DEF DebugInv, TypeOK, SetsAgree, Release
<1>7. Passing' = IF label = "signalEx" THEN {t} ELSE {}
  BY <1>1, <1>2 DEF DebugInv, TypeOK, Passing, In
<1>8. OnePass'
  BY <1>2, <1>7 DEF OnePass, Release, queues
<1>9. \A u \in Threads : pc[u] = "waitSh" => u \in fWaitingShared /\ queue[u] = fSharedQueueSelect
  BY <1>2 DEF DebugInv, SetsAgree, TwoQueues
<1>10. \A u \in Threads : u \in fWaitingShared => pc[u] = "waitSh"
  BY <1>2 DEF DebugInv, SetsAgree
<1>11. \A u \in Threads : (pc[u] = "waitSh")' <=> pc[u] = "waitSh" /\ u # t
  BY <1>1 DEF DebugInv, TypeOK
<1>12. \A u \in Threads : u # t => queue'[u] = queue[u]
  BY DEF Release, DebugInv, TypeOK
<1>13. queue'[t] = fSharedQueueSelect /\ sharedWaitingCount'[t] = Cardinality(fWaitingShared)
  BY DEF Release, DebugInv, TypeOK
<1>14. TwoQueues'
  <2> SUFFICES ASSUME NEW u \in Threads, (pc[u] = "waitSh")'
               PROVE  queue'[u] = IF u \in fWaitingShared' THEN fSharedQueueSelect'
                                  ELSE 1 - fSharedQueueSelect'
    BY DEF TwoQueues
  <2>1. u \in fWaitingShared /\ queue'[u] = fSharedQueueSelect
    BY <1>9, <1>11, <1>12
  <2>2. u \notin fWaitingShared' /\ fSharedQueueSelect' = 1 - fSharedQueueSelect
    BY <1>2, <2>1 DEF Release
  <2>3. fSharedQueueSelect \in 0..1
    BY DEF DebugInv, TypeOK
  <2> QED
    BY <2>1, <2>2, <2>3
<1>15. \A u \in Threads : (pc[u] = "signalShared")' <=> u = t /\ fWaitingShared # {}
  BY <1>1, <1>4 DEF DebugInv, TypeOK
<1>16. OneOwing'
  BY <1>3, <1>13, <1>15 DEF OneOwing
<1>17. \A q \in 0..1 : LetIn(q)' = IF q = fSharedQueueSelect THEN fWaitingShared ELSE {}
  <2> SUFFICES ASSUME NEW q \in 0..1, NEW u \in Threads
               PROVE  u \in LetIn(q)' <=> q = fSharedQueueSelect /\ u \in fWaitingShared
    BY DEF LetIn, DebugInv, TypeOK
  <2>1. u \in LetIn(q)' <=> u \in fWaitingShared /\ (pc[u] = "waitSh")' /\ queue'[u] = q
    BY DEF LetIn, Release
  <2>2. u \in fWaitingShared => u # t
    BY <1>1, <1>10
  <2> QED
    BY <1>9, <1>10, <1>11, <1>12, <2>1, <2>2
<1>18. TokensMatch'
  <2> SUFFICES ASSUME NEW q \in 0..1
               PROVE  /\ (\A u \in Threads : ~Owes(u, q)') => Cardinality(LetIn(q)') = fSharedQueue'[q]
                      /\ \A u \in Threads : Owes(u, q)' =>
                           Cardinality(LetIn(q)') = fSharedQueue'[q] + sharedWaitingCount'[u]
    BY DEF TokensMatch
  <2>1. fSharedQueue'[q] = 0
    BY <1>4 DEF Release, queues
  <2>2. \A u \in Threads : Owes(u, q)' <=> u = t /\ fWaitingShared # {} /\ q = fSharedQueueSelect
    BY <1>13, <1>15 DEF Owes
  <2>3. Cardinality(LetIn(q)') = IF q = fSharedQueueSelect THEN Cardinality(fWaitingShared) ELSE 0
    BY <1>17, FS_EmptySet
  <2> QED
    BY <1>3, <1>13, <2>1, <2>2, <2>3
<1> QED
  BY <1>5, <1>6, <1>8, <1>14, <1>16, <1>18 DEF DebugInv

LEMMA SignalSharedKeeps ==
  ASSUME DebugInv, NEW t \in Threads, SignalShared(t)
  PROVE  DebugInv'
<1>1. pc' = [pc EXCEPT ![t] = "out"] /\ pc[t] = "signalShared"
  BY DEF SignalShared, Goto
<1>2. queue[t] \in 0..1 /\ sharedWaitingCount[t] \in Nat
  BY DEF DebugInv, TypeOK
<1>3. TypeOK'
  BY <1>1, <1>2 DEF DebugInv, TypeOK, SignalShared, Pc, sets
<1>4. SetsAgree'
  BY <1>1 DEF DebugInv, TypeOK, SetsAgree, SignalShared, sets
<1>5. Passing' = Passing
  BY <1>1 DEF DebugInv, TypeOK, Passing, In
<1>6. OnePass'
  BY <1>5 DEF DebugInv, OnePass, SignalShared, sets
<1>7. TwoQueues'
  BY <1>1 DEF DebugInv, TypeOK, TwoQueues, SignalShared, sets
<1>8. \A q \in 0..1 : LetIn(q)' = LetIn(q)
  BY <1>1 DEF DebugInv, TypeOK, LetIn, SignalShared, sets
<1>9. \A u \in Threads : (pc[u] # "signalShared")'
  BY <1>1 DEF DebugInv, TypeOK, OneOwing
<1>10. OneOwing'
  BY <1>9 DEF OneOwing
<1>11. TokensMatch'
  <2> SUFFICES ASSUME NEW q \in 0..1
               PROVE  Cardinality(LetIn(q)') = fSharedQueue'[q]
    BY <1>9 DEF TokensMatch, Owes
  <2>1. \A u \in Threads : Owes(u, q) <=> u = t /\ q = queue[t]
    BY <1>1 DEF DebugInv, OneOwing, Owes
  <2>2. CASE q = queue[t]
    <3>1. Cardinality(LetIn(q)) = fSharedQueue[q] + sharedWaitingCount[t]
      BY <2>1, <2>2 DEF DebugInv, TokensMatch
    <3>2. fSharedQueue'[q] = fSharedQueue[q] + sharedWaitingCount[t]
      BY <2>2 DEF SignalShared, DebugInv, TypeOK
    <3> QED
      BY <1>8, <3>1, <3>2
  <2>3. CASE q # queue[t]
    <3>1. Cardinality(LetIn(q)) = fSharedQueue[q]
      BY <2>1, <2>3 DEF DebugInv, TokensMatch
    <3>2. fSharedQueue'[q] = fSharedQueue[q]
      BY <2>3 DEF SignalShared, DebugInv, TypeOK
    <3> QED
      BY <1>8, <3>1, <3>2
  <2> QED
    BY <2>2, <2>3
<1> QED
  BY <1>3, <1>4, <1>6, <1>7, <1>10, <1>11 DEF DebugInv

LEMMA SignalExclusiveKeeps ==
  ASSUME DebugInv, NEW t \in Threads, SignalExclusive(t)
  PROVE  DebugInv'
<1>1. pc' = [pc EXCEPT ![t] = "out"] /\ pc[t] = "signalEx"
  BY DEF SignalExclusive, Goto
<1>2. TypeOK'
  BY <1>1 DEF DebugInv, TypeOK, SignalExclusive, Pc, sets, locals
<1>3. SetsAgree'
  BY <1>1 DEF DebugInv, TypeOK, SetsAgree, SignalExclusive, sets
<1>4. t \in Passing /\ Passing' = Passing \ {t}
  BY <1>1 DEF DebugInv, TypeOK, Passing, In
<1>5. OnePass'
  BY <1>4 DEF DebugInv, OnePass, SignalExclusive, sets
<1>6. TwoQueues'
  BY <1>1 DEF DebugInv, TypeOK, TwoQueues, SignalExclusive, sets, locals
<1>7. \A q \in 0..1 : LetIn(q)' = LetIn(q)
  BY <1>1 DEF DebugInv, TypeOK, LetIn, SignalExclusive, sets, locals
<1>8. OneOwing' /\ TokensMatch'
  <2>1. \A u \in Threads : (pc[u] = "signalShared")' <=> pc[u] = "signalShared"
    BY <1>1 DEF DebugInv, TypeOK
  <2> QED
    BY <1>7, <2>1, MatchKept DEF SignalExclusive, locals
<1> QED
  BY <1>2, <1>3, <1>5, <1>6, <1>8 DEF DebugInv

LEMMA AcquireSharedKeeps ==
  ASSUME DebugInv, NEW t \in Threads, AcquireShared(t)
  PROVE  DebugInv'
<1> DEFINE waits == fWaitingExclusive # {}
           label == IF waits THEN "waitSh" ELSE "holdSh"
<1>1. /\ pc' = [pc EXCEPT ![t] = label] /\ pc[t] = "out"
      /\ fWaitingShared' = IF waits THEN fWaitingShared \union {t} ELSE fWaitingShared
      /\ fCurrentShared' = IF waits THEN fCurrentShared ELSE fCurrentShared \union {t}
      /\ queue' = [queue EXCEPT ![t] = fSharedQueueSelect]
      /\ UNCHANGED <<fWaitingExclusive, fSharedQueueSelect, fSharedQueue, fExclusiveQueue,
                     sharedWaitingCount>>
  BY DEF AcquireShared, Goto, queues
<1>2. t \notin fCurrentShared /\ t \notin fWaitingShared /\ t \notin fWaitingExclusive
  BY <1>1 DEF DebugInv, SetsAgree
<1>3. TypeOK'
  BY <1>1 DEF DebugInv, TypeOK, Pc
<1>4. \A u \in Threads : pc'[u] = IF u = t THEN label ELSE pc[u]
  BY <1>1 DEF DebugInv, TypeOK
<1>5. SetsAgree'
  BY <1>1, <1>2, <1>4 DEF DebugInv, SetsAgree
<1>6. Passing' = Passing
  BY <1>1, <1>4 DEF Passing, In
<1>7. OnePass'
  BY <1>1, <1>6 DEF DebugInv, OnePass
<1>8. \A u \in Threads : queue'[u] = IF u = t THEN fSharedQueueSelect ELSE queue[u]
  BY <1>1 DEF DebugInv, TypeOK
<1>9. TwoQueues'
  BY <1>1, <1>4, <1>8 DEF DebugInv, TwoQueues
<1>10. ASSUME NEW q \in 0..1 PROVE LetIn(q)' = LetIn(q)
  BY <1>1, <1>2, <1>4, <1>8 DEF LetIn
<1>11. OneOwing' /\ TokensMatch'
  <2>1. \A u \in Threads : (pc[u] = "signalShared")' <=> pc[u] = "signalShared"
    BY <1>1, <1>4
  <2>2. \A u \in Threads : pc[u] = "signalShared" => queue'[u] = queue[u]
    BY <1>1, <1>8
  <2> QED
    BY <1>1, <1>10, <2>1, <2>2, MatchKept
<1> QED
  BY <1>3, <1>5, <1>7, <1>9, <1>11 DEF DebugInv

LEMMA SharedWakeKeeps ==
  ASSUME DebugInv, NEW t \in Threads, SharedWake(t)
  PROVE  DebugInv'
<1>1. /\ pc' = [pc EXCEPT ![t] = "holdSh"] /\ pc[t] = "waitSh"
      /\ fSharedQueue[queue[t]] > 0
      /\ fSharedQueue' = [fSharedQueue EXCEPT ![queue[t]] = @ - 1]
      /\ UNCHANGED <<sets, fExclusiveQueue, locals>>
  BY DEF SharedWake, Goto
<1>2. t \in LetIn(queue[t]) /\ t \in fCurrentShared
  BY <1>1, TokenIsForMe DEF LetIn
<1>3. queue[t] \in 0..1 /\ \A q \in 0..1 : fSharedQueue[q] \in Nat
  BY DEF DebugInv, TypeOK
<1>4. \A q \in 0..1 : fSharedQueue'[q] = IF q = queue[t] THEN fSharedQueue[q] - 1
                                         ELSE fSharedQueue[q]
  BY <1>1 DEF DebugInv, TypeOK
<1>5. TypeOK'
  BY <1>1, <1>3, <1>4 DEF DebugInv, TypeOK, Pc, sets, locals
<1>6. \A u \in Threads : pc'[u] = IF u = t THEN "holdSh" ELSE pc[u]
  BY <1>1 DEF DebugInv, TypeOK
<1>7. SetsAgree'
  BY <1>1, <1>2, <1>6 DEF DebugInv, SetsAgree, sets
<1>8. Passing' = Passing
  BY <1>1, <1>6 DEF Passing, In
<1>9. OnePass'
  BY <1>1, <1>8 DEF DebugInv, OnePass, sets
<1>10. TwoQueues'
  BY <1>1, <1>6 DEF DebugInv, TwoQueues, sets, locals
<1>11. \A u \in Threads : (pc[u] = "signalShared")' <=> pc[u] = "signalShared"
  BY <1>1, <1>6
<1>12. OneOwing'
  BY <1>1, <1>11 DEF DebugInv, OneOwing, locals
<1>13. ASSUME NEW q \in 0..1
       PROVE  Cardinality(LetIn(q)') = IF q = queue[t] THEN Cardinality(LetIn(q)) - 1
                                       ELSE Cardinality(LetIn(q))
  <2>1. LetIn(q)' = IF q = queue[t] THEN LetIn(q) \ {t} ELSE LetIn(q)
    BY <1>1, <1>6 DEF LetIn, sets, locals
  <2>2. LetIn(q) \subseteq Threads
    BY DEF LetIn
  <2>3. IsFiniteSet(LetIn(q))
    BY <2>2, SubsetsFinite
  <2> QED
    BY <1>2, <2>1, <2>3, FS_RemoveElement
<1>14. TokensMatch'
  <2> SUFFICES ASSUME NEW q \in 0..1
               PROVE  /\ (\A u \in Threads : ~Owes(u, q)') => Cardinality(LetIn(q)') = fSharedQueue'[q]
                      /\ \A u \in Threads : Owes(u, q)' =>
                           Cardinality(LetIn(q)') = fSharedQueue'[q] + sharedWaitingCount'[u]
    BY DEF TokensMatch
  <2>1. \A u \in Threads : Owes(u, q)' <=> Owes(u, q)
    BY <1>1, <1>11 DEF Owes, locals
  <2>2. (\A u \in Threads : ~Owes(u, q)) => Cardinality(LetIn(q)) = fSharedQueue[q]
    BY DEF DebugInv, TokensMatch
  <2>3. ASSUME NEW u \in Threads, Owes(u, q)
        PROVE  Cardinality(LetIn(q)) = fSharedQueue[q] + sharedWaitingCount[u]
    BY <2>3 DEF DebugInv, TokensMatch
  <2>4. \A u \in Threads : sharedWaitingCount[u] \in Nat /\ sharedWaitingCount'[u] = sharedWaitingCount[u]
    BY <1>1 DEF DebugInv, TypeOK, locals
  <2> QED
    BY <1>3, <1>4, <1>13, <2>1, <2>2, <2>3, <2>4
<1> QED
  BY <1>5, <1>7, <1>9, <1>10, <1>12, <1>14 DEF DebugInv

LEMMA ReleaseSharedKeeps ==
  ASSUME DebugInv, NEW t \in Threads, ReleaseShared(t)
  PROVE  DebugInv'
<1> DEFINE last == fCurrentShared \ {t} = {} /\ fWaitingExclusive # {}
           label == IF last THEN "signalEx" ELSE "out"
<1>1. /\ pc' = [pc EXCEPT ![t] = label] /\ pc[t] = "holdSh"
      /\ fCurrentShared' = fCurrentShared \ {t}
      /\ UNCHANGED <<fWaitingExclusive, fWaitingShared, fSharedQueueSelect, fSharedQueue,
                     fExclusiveQueue, queue, sharedWaitingCount>>
  BY DEF ReleaseShared, Goto, queues, locals
<1>2. t \in fCurrentShared /\ t \notin fWaitingShared /\ t \notin fWaitingExclusive
  BY <1>1 DEF DebugInv, SetsAgree
<1>3. TypeOK'
  BY <1>1 DEF DebugInv, TypeOK, Pc
<1>4. \A u \in Threads : pc'[u] = IF u = t THEN label ELSE pc[u]
  BY <1>1 DEF DebugInv, TypeOK
<1>5. SetsAgree'
  BY <1>1, <1>2, <1>4 DEF DebugInv, SetsAgree
<1>6. Passing = {} /\ fExclusiveQueue = 0
  BY <1>2 DEF DebugInv, OnePass
<1>7. Passing' = IF last THEN {t} ELSE {}
  BY <1>4, <1>6 DEF Passing, In
<1>8. OnePass'
  BY <1>1, <1>6, <1>7 DEF OnePass
<1>9. TwoQueues'
  BY <1>1, <1>4 DEF DebugInv, TwoQueues
<1>10. \A q \in 0..1 : LetIn(q)' = LetIn(q)
  BY <1>1, <1>4 DEF LetIn
<1>11. OneOwing' /\ TokensMatch'
  <2>1. \A u \in Threads : (pc[u] = "signalShared")' <=> pc[u] = "signalShared"
    BY <1>1, <1>4
  <2> QED
    BY <1>1, <1>10, <2>1, MatchKept
<1> QED
  BY <1>3, <1>5, <1>8, <1>9, <1>11 DEF DebugInv

(* The inductive invariant holds for any number of readers and writers.    *)
THEOREM DebugInvariance == Spec => []DebugInv
<1>1. DebugInv /\ [Next]_vars => DebugInv'
  <2> SUFFICES ASSUME DebugInv, [Next]_vars PROVE DebugInv'
    OBVIOUS
  <2>1. ASSUME NEW t \in Threads,
               Acquire(t) \/ AcquireShared(t) \/ GiveBack(t) \/ Inside(t)
        PROVE  DebugInv'
    BY <2>1, AcquireKeeps, AcquireSharedKeeps, ReleaseKeeps, ReleaseSharedKeeps,
       ExclusiveWakeKeeps, SignalSharedKeeps, SignalExclusiveKeeps, SharedWakeKeeps
       DEF GiveBack, Inside
  <2>2. CASE UNCHANGED vars
    <3>1. \A q \in 0..1 : LetIn(q)' = LetIn(q)
      BY <2>2 DEF LetIn, vars, sets, locals
    <3>2. OneOwing' /\ TokensMatch'
      BY <2>2, <3>1, MatchKept DEF vars, queues, locals
    <3>3. TypeOK' /\ SetsAgree' /\ TwoQueues'
      BY <2>2 DEF DebugInv, TypeOK, SetsAgree, TwoQueues, vars, sets, queues, locals
    <3>4. OnePass'
      BY <2>2 DEF DebugInv, OnePass, Passing, In, vars, sets, queues
    <3> QED
      BY <3>2, <3>3, <3>4 DEF DebugInv
  <2> QED
    BY <2>1, <2>2 DEF Next
<1> QED
  BY InitHolds, <1>1, PTL DEF Spec
-----------------------------------------------------------------------------
(* No assertion of the debug build fires, whatever its threads do in       *)
(* whatever order, as long as each uses the lock as it should.             *)
THEOREM NoAssertionFires == Spec => []AssertionsHold
<1>1. DebugInv => AssertionsHold
  <2> SUFFICES ASSUME DebugInv PROVE AssertionsHold
    OBVIOUS
  <2>1. \A t \in Threads :
          pc[t] = "holdEx" => fCurrentShared = {} /\ t \in fWaitingExclusive
    BY WriterAlone
  <2> QED
    BY <2>1 DEF DebugInv, SetsAgree, AssertionsHold
<1> QED
  BY <1>1, DebugInvariance, PTL

(* The tokens of a queue are those of the readers let in that wait there:  *)
(* a reader that came later cannot take one.                               *)
THEOREM ReadersKeptApart == Spec => []QueuesApart
<1>1. DebugInv => QueuesApart
  <2> SUFFICES ASSUME DebugInv, NEW q \in 0..1
               PROVE  Cardinality({t \in In({"waitSh"}) \intersect fCurrentShared : queue[t] = q}) =
                        fSharedQueue[q] +
                          (IF \E t \in In({"signalShared"}) : queue[t] = q
                             THEN sharedWaitingCount[CHOOSE t \in In({"signalShared"}) : queue[t] = q]
                             ELSE 0)
    BY DEF QueuesApart
  <2>1. {t \in In({"waitSh"}) \intersect fCurrentShared : queue[t] = q} = LetIn(q)
    BY DEF In, LetIn
  <2>2. \A t : t \in In({"signalShared"}) /\ queue[t] = q <=> t \in Threads /\ Owes(t, q)
    BY DEF In, Owes
  <2>3. fSharedQueue[q] \in Nat
    BY DEF DebugInv, TypeOK
  <2>4. CASE \E t \in In({"signalShared"}) : queue[t] = q
    <3> DEFINE s == CHOOSE t \in In({"signalShared"}) : queue[t] = q
    <3>1. s \in In({"signalShared"}) /\ queue[s] = q
      BY <2>4
    <3> HIDE DEF s
    <3>2. Cardinality(LetIn(q)) = fSharedQueue[q] + sharedWaitingCount[s]
      BY <2>2, <3>1 DEF DebugInv, TokensMatch
    <3> QED
      BY <2>1, <2>4, <3>2 DEF s
  <2>5. CASE ~ \E t \in In({"signalShared"}) : queue[t] = q
    <3>1. Cardinality(LetIn(q)) = fSharedQueue[q]
      BY <2>2, <2>5 DEF DebugInv, TokensMatch
    <3> DEFINE owed == IF \E t \in In({"signalShared"}) : queue[t] = q
                         THEN sharedWaitingCount[CHOOSE t \in In({"signalShared"}) : queue[t] = q]
                         ELSE 0
    <3>2. owed = 0
      BY <2>5, Zenon
    <3> HIDE DEF owed
    <3>3. Cardinality(LetIn(q)) = fSharedQueue[q] + owed
      BY <2>3, <3>1, <3>2
    <3> QED
      BY <2>1, <3>3 DEF owed
  <2> QED
    BY <2>4, <2>5
<1> QED
  BY <1>1, DebugInvariance, PTL
-----------------------------------------------------------------------------
(* Each step of the debug build is one of the abstract lock, or none.      *)
Idle == UNCHANGED <<In({"holdSh"}), In({"holdEx"}), In({"waitSh"}), In({"waitEx"}),
                    IF fCurrentShared # {} THEN "readers" ELSE "writer">>

LEMMA AcquireSimulates ==
  ASSUME DebugInv, NEW t \in Threads, Acquire(t)
  PROVE  Abstract!StartWrite(t) \/ Abstract!AwaitWrite(t)
<1> DEFINE waits == fCurrentShared # {} \/ fWaitingExclusive # {}
           label == IF waits THEN "waitEx" ELSE "holdEx"
<1>1. t \notin fWaitingExclusive
  BY DEF DebugInv, SetsAgree, Acquire
<1>2. Cardinality(fWaitingExclusive') > 1 <=> fWaitingExclusive # {}
  BY <1>1, SecondOne DEF DebugInv, TypeOK, Acquire
<1>3. /\ pc' = [pc EXCEPT ![t] = label] /\ pc[t] = "out"
      /\ UNCHANGED fCurrentShared
  BY <1>2 DEF Acquire, Goto
<1>4. \A u \in Threads : pc'[u] = IF u = t THEN label ELSE pc[u]
  BY <1>3 DEF DebugInv, TypeOK
<1>5. t \notin Abstract!Engaged
  BY <1>3 DEF Abstract!Engaged, In
<1>6. In({"holdSh"})' = In({"holdSh"}) /\ In({"waitSh"})' = In({"waitSh"})
  BY <1>3, <1>4 DEF In
<1>7. CASE waits
  <2>1. In({"holdEx"})' = In({"holdEx"}) /\ In({"waitEx"})' = In({"waitEx"}) \union {t}
    BY <1>3, <1>4, <1>7 DEF In
  <2> QED
    BY <1>3, <1>5, <1>6, <2>1 DEF Abstract!AwaitWrite
<1>8. CASE ~waits
  <2>1. In({"holdEx"}) = {} /\ In({"waitEx"}) = {} /\ In({"holdSh"}) = {}
    BY <1>8 DEF DebugInv, SetsAgree, In
  <2>2. In({"holdEx"})' = {t} /\ In({"waitEx"})' = In({"waitEx"})
    BY <1>3, <1>4, <1>8, <2>1 DEF In
  <2> QED
    BY <1>3, <1>5, <1>6, <1>8, <2>1, <2>2 DEF Abstract!StartWrite, Abstract!WriterAround
<1> QED
  BY <1>7, <1>8

LEMMA ExclusiveWakeSimulates ==
  ASSUME DebugInv, NEW t \in Threads, ExclusiveWake(t)
  PROVE  Abstract!AdmitWriter(t)
<1>1. /\ pc' = [pc EXCEPT ![t] = "holdEx"] /\ pc[t] = "waitEx" /\ fExclusiveQueue > 0
      /\ UNCHANGED fCurrentShared
  BY DEF ExclusiveWake, Goto, sets
<1>2. \A u \in Threads : pc'[u] = IF u = t THEN "holdEx" ELSE pc[u]
  BY <1>1 DEF DebugInv, TypeOK
<1>3. Passing = {} /\ fCurrentShared = {}
  BY <1>1 DEF DebugInv, OnePass
<1>4. In({"holdEx"}) = {} /\ In({"holdSh"}) = {}
  BY <1>3 DEF Passing, In, DebugInv, SetsAgree
<1>5. /\ In({"holdSh"})' = In({"holdSh"}) /\ In({"waitSh"})' = In({"waitSh"})
      /\ In({"waitEx"})' = In({"waitEx"}) \ {t} /\ In({"holdEx"})' = {t}
      /\ t \in In({"waitEx"})
  BY <1>1, <1>2, <1>4 DEF In
<1> QED
  BY <1>1, <1>3, <1>4, <1>5 DEF Abstract!AdmitWriter

LEMMA ReleaseSimulates ==
  ASSUME DebugInv, NEW t \in Threads, Release(t)
  PROVE  Abstract!EndWrite(t)
<1> DEFINE label == IF fWaitingShared # {} THEN "signalShared"
                    ELSE IF fWaitingExclusive \ {t} # {} THEN "signalEx" ELSE "out"
<1>1. /\ pc' = [pc EXCEPT ![t] = label] /\ pc[t] = "holdEx"
      /\ fCurrentShared' = fWaitingShared
  BY DEF Release, Goto
<1>2. \A u \in Threads : pc'[u] = IF u = t THEN label ELSE pc[u]
  BY <1>1 DEF DebugInv, TypeOK
<1>3. fCurrentShared = {}
  BY <1>1, WriterAlone
<1>4. In({"waitSh"}) = fWaitingShared
  BY <1>3 DEF DebugInv, TypeOK, SetsAgree, In
<1>5. /\ In({"holdSh"})' = In({"holdSh"}) /\ In({"waitSh"})' = In({"waitSh"})
      /\ In({"waitEx"})' = In({"waitEx"}) /\ In({"holdEx"})' = In({"holdEx"}) \ {t}
      /\ t \in In({"holdEx"})
  BY <1>1, <1>2 DEF In
<1> QED
  BY <1>1, <1>4, <1>5 DEF Abstract!EndWrite

LEMMA SignalsSimulate ==
  ASSUME DebugInv, NEW t \in Threads, SignalShared(t) \/ SignalExclusive(t)
  PROVE  Idle
<1>1. /\ pc' = [pc EXCEPT ![t] = "out"] /\ pc[t] \in {"signalShared", "signalEx"}
      /\ UNCHANGED fCurrentShared
  BY DEF SignalShared, SignalExclusive, Goto, sets
<1>2. \A u \in Threads : pc'[u] = IF u = t THEN "out" ELSE pc[u]
  BY <1>1 DEF DebugInv, TypeOK
<1>3. /\ In({"holdSh"})' = In({"holdSh"}) /\ In({"waitSh"})' = In({"waitSh"})
      /\ In({"waitEx"})' = In({"waitEx"}) /\ In({"holdEx"})' = In({"holdEx"})
  BY <1>1, <1>2 DEF In
<1> QED
  BY <1>1, <1>3 DEF Idle

LEMMA AcquireSharedSimulates ==
  ASSUME DebugInv, NEW t \in Threads, AcquireShared(t)
  PROVE  Abstract!StartRead(t) \/ Abstract!AwaitRead(t)
<1> DEFINE waits == fWaitingExclusive # {}
           label == IF waits THEN "waitSh" ELSE "holdSh"
<1>1. /\ pc' = [pc EXCEPT ![t] = label] /\ pc[t] = "out"
      /\ fCurrentShared' = IF waits THEN fCurrentShared ELSE fCurrentShared \union {t}
  BY DEF AcquireShared, Goto
<1>2. \A u \in Threads : pc'[u] = IF u = t THEN label ELSE pc[u]
  BY <1>1 DEF DebugInv, TypeOK
<1>3. t \notin Abstract!Engaged
  BY <1>1 DEF Abstract!Engaged, In
<1>4. Abstract!WriterAround <=> waits
  BY DEF Abstract!WriterAround, In, DebugInv, TypeOK, SetsAgree
<1>5. In({"holdEx"})' = In({"holdEx"}) /\ In({"waitEx"})' = In({"waitEx"})
  BY <1>1, <1>2 DEF In
<1>6. CASE waits
  <2>1. In({"holdSh"})' = In({"holdSh"}) /\ In({"waitSh"})' = In({"waitSh"}) \union {t}
    BY <1>1, <1>2, <1>6 DEF In
  <2> QED
    BY <1>1, <1>3, <1>4, <1>5, <1>6, <2>1 DEF Abstract!AwaitRead
<1>7. CASE ~waits
  <2>1. In({"holdSh"})' = In({"holdSh"}) \union {t} /\ In({"waitSh"})' = In({"waitSh"})
    BY <1>1, <1>2, <1>7 DEF In
  <2> QED
    BY <1>1, <1>3, <1>4, <1>5, <1>7, <2>1 DEF Abstract!StartRead
<1> QED
  BY <1>6, <1>7

LEMMA SharedWakeSimulates ==
  ASSUME DebugInv, NEW t \in Threads, SharedWake(t)
  PROVE  Abstract!AdmitReader(t)
<1>1. /\ pc' = [pc EXCEPT ![t] = "holdSh"] /\ pc[t] = "waitSh"
      /\ fSharedQueue[queue[t]] > 0 /\ UNCHANGED fCurrentShared
  BY DEF SharedWake, Goto, sets
<1>2. \A u \in Threads : pc'[u] = IF u = t THEN "holdSh" ELSE pc[u]
  BY <1>1 DEF DebugInv, TypeOK
<1>3. t \in fCurrentShared
  BY <1>1, TokenIsForMe DEF LetIn
<1>4. /\ In({"holdSh"})' = In({"holdSh"}) \union {t} /\ In({"waitSh"})' = In({"waitSh"}) \ {t}
      /\ In({"waitEx"})' = In({"waitEx"}) /\ In({"holdEx"})' = In({"holdEx"})
      /\ t \in In({"waitSh"})
  BY <1>1, <1>2 DEF In
<1> QED
  BY <1>1, <1>3, <1>4 DEF Abstract!AdmitReader

LEMMA ReleaseSharedSimulates ==
  ASSUME DebugInv, NEW t \in Threads, ReleaseShared(t)
  PROVE  Abstract!EndRead(t)
<1> DEFINE last == fCurrentShared \ {t} = {} /\ fWaitingExclusive # {}
           label == IF last THEN "signalEx" ELSE "out"
<1>1. /\ pc' = [pc EXCEPT ![t] = label] /\ pc[t] = "holdSh"
      /\ fCurrentShared' = fCurrentShared \ {t}
  BY DEF ReleaseShared, Goto
<1>2. \A u \in Threads : pc'[u] = IF u = t THEN label ELSE pc[u]
  BY <1>1 DEF DebugInv, TypeOK
<1>3. /\ In({"holdSh"})' = In({"holdSh"}) \ {t} /\ In({"waitSh"})' = In({"waitSh"})
      /\ In({"waitEx"})' = In({"waitEx"}) /\ In({"holdEx"})' = In({"holdEx"})
      /\ t \in In({"holdSh"})
  BY <1>1, <1>2 DEF In
<1>4. In({"holdSh"}) \subseteq fCurrentShared
  BY DEF DebugInv, SetsAgree, In
<1>5. fCurrentShared' = {} => In({"holdSh"}) = {t}
  BY <1>1, <1>3, <1>4
<1>6. fCurrentShared # {}
  BY <1>3, <1>4
<1> QED
  BY <1>3, <1>5, <1>6 DEF Abstract!EndRead

(* The debug build implements the lock of the header, as the release build *)
(* does: whatever a caller may rely on with one holds with the other.      *)
THEOREM DebugRefinement == Spec => ImplementsLock
<1>1. Init => Abstract!LockInit
  BY DEF Init, Abstract!LockInit, In
<1>2. DebugInv /\ [Next]_vars => [Abstract!LockNext]_(Abstract!lockVars)
  <2> SUFFICES ASSUME DebugInv, [Next]_vars
               PROVE  Abstract!LockNext \/ UNCHANGED Abstract!lockVars
    OBVIOUS
  <2>1. Idle => UNCHANGED Abstract!lockVars
    BY DEF Idle, Abstract!lockVars
  <2>2. ASSUME NEW t \in Threads,
               Acquire(t) \/ AcquireShared(t) \/ GiveBack(t) \/ Inside(t)
        PROVE  Abstract!LockNext \/ Idle
    <3>1. CASE Acquire(t) \/ AcquireShared(t)
      BY <3>1, AcquireSimulates, AcquireSharedSimulates DEF Abstract!LockNext
    <3>2. CASE GiveBack(t)
      BY <3>2, ReleaseSimulates, ReleaseSharedSimulates DEF GiveBack, Abstract!LockNext
    <3>3. CASE Inside(t)
      BY <3>3, ExclusiveWakeSimulates, SharedWakeSimulates, SignalsSimulate
         DEF Inside, Abstract!LockNext
    <3> QED
      BY <2>2, <3>1, <3>2, <3>3
  <2>3. UNCHANGED vars => Idle
    BY DEF Idle, vars, sets, In
  <2> QED
    BY <2>1, <2>2, <2>3 DEF Next
<1> QED
  BY <1>1, <1>2, DebugInvariance, PTL DEF Spec, ImplementsLock, Abstract!LockSpec
=============================================================================
