------------------------- MODULE SkSharedMutexProofs -------------------------
(***************************************************************************)
(* Theorems about the release build of SkSharedMutex, for any finite set   *)
(* of threads and any width of the counts that is enough for them.         *)
(***************************************************************************)
EXTENDS SkSharedMutex, FiniteSetTheorems, TLAPS

(* How many threads are at one of the labels. *)
Num(f, labels) == Cardinality({x \in Threads : f[x] \in labels})
One(b) == IF b THEN 1 ELSE 0

LEMMA NumType ==
  ASSUME NEW f, NEW labels
  PROVE  /\ Num(f, labels) \in Nat
         /\ Num(f, labels) <= Cardinality(Threads)
         /\ IsFiniteSet({x \in Threads : f[x] \in labels})
<1>1. {x \in Threads : f[x] \in labels} \in SUBSET Threads
  OBVIOUS
<1>2. IsFiniteSet(Threads)
  BY SharedMutexAssumption
<1> QED
  BY <1>1, <1>2, FS_Subset, FS_CardinalityType DEF Num

(* A thread that moves leaves one place and enters another. *)
LEMMA NumMove ==
  ASSUME NEW f \in [Threads -> Pc], NEW t \in Threads, NEW label \in Pc, NEW labels
  PROVE  Num([f EXCEPT ![t] = label], labels)
           = Num(f, labels) + One(label \in labels) - One(f[t] \in labels)
<1> DEFINE S == {x \in Threads : f[x] \in labels}
           T == {x \in Threads : [f EXCEPT ![t] = label][x] \in labels}
<1>1. /\ IsFiniteSet(S) /\ Cardinality(S) \in Nat
      /\ IsFiniteSet(T) /\ Cardinality(T) \in Nat
  BY NumType DEF Num
<1>2. /\ Num(f, labels) = Cardinality(S)
      /\ Num([f EXCEPT ![t] = label], labels) = Cardinality(T)
      /\ t \in S <=> f[t] \in labels
  BY DEF Num
<1>3. CASE label \in labels
  <2>1. T = S \union {t}
    BY <1>3
  <2>2. Cardinality(T) = IF t \in S THEN Cardinality(S) ELSE Cardinality(S) + 1
    BY <1>1, <2>1, FS_AddElement
  <2> QED
    BY <1>1, <1>2, <1>3, <2>2 DEF One
<1>4. CASE label \notin labels
  <2>1. T = S \ {t}
    BY <1>4
  <2>2. Cardinality(T) = IF t \in S THEN Cardinality(S) - 1 ELSE Cardinality(S)
    BY <1>1, <2>1, FS_RemoveElement
  <2> QED
    BY <1>1, <1>2, <1>4, <2>2 DEF One
<1> QED
  BY <1>3, <1>4

LEMMA NumUnion ==
  ASSUME NEW f, NEW L, NEW M, L \intersect M = {}
  PROVE  Num(f, L \union M) = Num(f, L) + Num(f, M)
<1> DEFINE S == {x \in Threads : f[x] \in L}
           T == {x \in Threads : f[x] \in M}
<1>1. {x \in Threads : f[x] \in L \union M} = S \union T
  OBVIOUS
<1>2. S \intersect T = {}
  OBVIOUS
<1>3. /\ IsFiniteSet(S) /\ Cardinality(S) \in Nat
      /\ IsFiniteSet(T) /\ Cardinality(T) \in Nat
  BY NumType DEF Num
<1>6. Num(f, L) = Cardinality(S) /\ Num(f, M) = Cardinality(T)
      /\ Num(f, L \union M) = Cardinality(S \union T)
  BY <1>1 DEF Num
<1> HIDE DEF S, T
<1>4. Cardinality(S \union T) = Cardinality(S) + Cardinality(T) - Cardinality(S \intersect T)
  BY <1>3, FS_Union
<1>5. Cardinality(S \intersect T) = 0
  BY <1>2, FS_EmptySet
<1> QED
  BY <1>6, <1>3, <1>4, <1>5

LEMMA NumPositive ==
  ASSUME NEW f, NEW labels
  PROVE  Num(f, labels) > 0 <=> \E x \in Threads : f[x] \in labels
<1> DEFINE S == {x \in Threads : f[x] \in labels}
<1>1. IsFiniteSet(S) /\ Cardinality(S) \in Nat
  BY NumType DEF Num
<1>2. Cardinality(S) = 0 <=> S = {}
  BY <1>1, FS_EmptySet
<1> QED
  BY <1>1, <1>2 DEF Num

LEMMA OwedNone == \A tokens : OwedBy({}, tokens) = 0
  BY DEF OwedBy

LEMMA OwedOne == \A s, tokens : OwedBy({s}, tokens) = tokens[s]
<1> SUFFICES ASSUME NEW s, NEW tokens PROVE OwedBy({s}, tokens) = tokens[s]
  OBVIOUS
<1>1. (CHOOSE t \in {s} : TRUE) = s
  OBVIOUS
<1> QED
  BY <1>1 DEF OwedBy
-----------------------------------------------------------------------------
(* The sets of the invariant, counted: what holds of the numbers in a state *)
(* and how the step of one thread changes them.                             *)
WriterPc == {"holdEx", "releaseCas"}

Counted(c) ==
  /\ Cardinality(Writers) = Num(c, WriterPc)
  /\ Cardinality(Registered) = Num(c, WriterPc) + Num(c, {"waitEx"})
  /\ Cardinality(Readers) = Num(c, {"holdSh"})
  /\ Cardinality(WaitingReaders) = Num(c, {"waitSh"})
  /\ Cardinality(OwingExclusive) = Num(c, {"signalEx"})

LEMMA Counting == Counted(pc)
<1>1. Registered = {x \in Threads : pc[x] \in WriterPc \union {"waitEx"}}
  BY DEF Registered, Writers, WaitingWriters, In, WriterPc
<1>2. Cardinality(Registered) = Num(pc, WriterPc \union {"waitEx"})
  BY <1>1 DEF Num
<1>3. Cardinality(Registered) = Num(pc, WriterPc) + Num(pc, {"waitEx"})
  <2>1. WriterPc \intersect {"waitEx"} = {}
    BY DEF WriterPc
  <2> QED
    BY <1>2, <2>1, NumUnion
<1> QED
  BY <1>3 DEF Counted, Num, Writers, Readers, WaitingReaders, OwingExclusive, In, WriterPc

Fits(f) ==
  /\ Num(f, WriterPc) \in Nat /\ Num(f, {"waitEx"}) \in Nat
  /\ Num(f, {"holdSh"}) \in Nat /\ Num(f, {"waitSh"}) \in Nat
  /\ Num(f, {"signalEx"}) \in Nat
  /\ Num(f, WriterPc) + Num(f, {"waitEx"}) <= kCountMask
  /\ Num(f, {"holdSh"}) + Num(f, {"waitSh"}) <= kCountMask

LEMMA NumFits == ASSUME NEW f PROVE Fits(f)
<1>1. Cardinality(Threads) \in Nat /\ kCountMask \in Nat /\ Cardinality(Threads) <= kCountMask
  BY SharedMutexAssumption, FS_CardinalityType
<1>0. \A labels : Num(f, labels) \in Nat /\ Num(f, labels) <= Cardinality(Threads)
  BY NumType
<1>2. Num(f, WriterPc) + Num(f, {"waitEx"}) = Num(f, WriterPc \union {"waitEx"})
  <2>1. WriterPc \intersect {"waitEx"} = {}
    BY DEF WriterPc
  <2> QED
    BY <2>1, NumUnion
<1>3. Num(f, {"holdSh"}) + Num(f, {"waitSh"}) = Num(f, {"holdSh"} \union {"waitSh"})
  <2>1. {"holdSh"} \intersect {"waitSh"} = {}
    OBVIOUS
  <2> QED
    BY <2>1, NumUnion
<1>4. /\ Num(f, WriterPc \union {"waitEx"}) <= Cardinality(Threads)
      /\ Num(f, {"holdSh"} \union {"waitSh"}) <= Cardinality(Threads)
      /\ Num(f, WriterPc) \in Nat /\ Num(f, {"waitEx"}) \in Nat
      /\ Num(f, {"holdSh"}) \in Nat /\ Num(f, {"waitSh"}) \in Nat
      /\ Num(f, {"signalEx"}) \in Nat
  BY <1>0
<1> QED
  BY <1>1, <1>2, <1>3, <1>4 DEF Fits
-----------------------------------------------------------------------------
(* The invariant as arithmetic over the counts q, the tokens of the readers *)
(* and of the writers, the tokens owed to readers, and the places c of the  *)
(* threads.                                                                 *)
Balance(q, readTokens, writeTokens, owed, c) ==
  /\ q.exclusive = Num(c, WriterPc) + Num(c, {"waitEx"})
  /\ q.shared = Num(c, {"holdSh"}) + readTokens + owed
  /\ Num(c, {"waitSh"}) = q.waiting + readTokens + owed
  /\ Num(c, WriterPc) + writeTokens + Num(c, {"signalEx"}) =
       IF q.exclusive > 0 /\ q.shared = 0 THEN 1 ELSE 0
  /\ q.waiting > 0 => q.exclusive > 0

Balanced == Balance(fQueueCounts, fSharedQueue, fExclusiveQueue, OwedShared, pc)

LEMMA InvAsBalance == (CountsAgree /\ OneWriterPass /\ WaitBehindWriter) <=> Balanced
  BY Counting
  DEF Counted, CountsAgree, OneWriterPass, WaitBehindWriter, Balanced, Balance

(* What the step of one thread from pc[t] to label does to the numbers. *)
Shift(t, label, labels) ==
  Num(pc', labels) = Num(pc, labels) + One(label \in labels) - One(pc[t] \in labels)

LEMMA Moves ==
  ASSUME TypeOK, NEW t \in Threads, NEW label \in Pc, Goto(t, label)
  PROVE  /\ Shift(t, label, WriterPc) /\ Shift(t, label, {"waitEx"})
         /\ Shift(t, label, {"holdSh"}) /\ Shift(t, label, {"waitSh"})
         /\ Shift(t, label, {"signalEx"})
         /\ Fits(pc) /\ Fits(pc')
<1>1. \A labels : Shift(t, label, labels)
  BY NumMove DEF TypeOK, Goto, Shift
<1> QED
  BY <1>1, NumFits

(* A step that neither begins nor ends a reader's wake-up owes the same. *)
LEMMA SameOwed ==
  ASSUME TypeOK, OneOwing, NEW t \in Threads, NEW label \in Pc, Goto(t, label),
         pc[t] # "signalShared", label # "signalShared",
         UNCHANGED waitingShared
  PROVE  OwedShared' = OwedShared /\ OneOwing'
<1>1. OwingShared' = OwingShared
  BY DEF OwingShared, In, TypeOK, Goto
<1>2. OwedShared' = OwedShared
  BY <1>1 DEF OwedShared
<1> QED
  BY <1>1, <1>2 DEF OneOwing

LEMMA OwedIsNat == TypeOK /\ OneOwing => OwedShared \in Nat
<1> SUFFICES ASSUME TypeOK, OneOwing PROVE OwedShared \in Nat
  OBVIOUS
<1>1. CASE OwingShared = {}
  BY <1>1, OwedNone DEF OwedShared
<1>2. CASE OwingShared # {}
  <2>1. PICK s \in OwingShared : TRUE
    BY <1>2
  <2>2. OwingShared = {s} /\ s \in Threads
    BY <2>1 DEF OneOwing, OwingShared, In
  <2> QED
    BY <2>2, OwedOne DEF OwedShared, TypeOK
<1> QED
  BY <1>1, <1>2
-----------------------------------------------------------------------------
(* A count that has room takes one more without a carry. *)
LEMMA AddFits ==
  ASSUME NEW q \in Counts
  PROVE  /\ q.exclusive < kCountMask =>
              /\ AddExclusive(q) = [q EXCEPT !.exclusive = q.exclusive + 1]
              /\ AddExclusive(q) \in Counts
         /\ q.waiting < kCountMask =>
              /\ AddWaiting(q) = [q EXCEPT !.waiting = q.waiting + 1]
              /\ AddWaiting(q) \in Counts
         /\ q.shared < kCountMask =>
              /\ AddShared(q) = [q EXCEPT !.shared = q.shared + 1]
              /\ AddShared(q) \in Counts
<1>1. kCountMask \in Nat /\ q.exclusive \in Nat /\ q.waiting \in Nat /\ q.shared \in Nat
  BY SharedMutexAssumption DEF Counts
<1>2. /\ q.exclusive < kCountMask => Wrap(q.exclusive + 1) = q.exclusive + 1
      /\ q.waiting < kCountMask => Wrap(q.waiting + 1) = q.waiting + 1
      /\ q.shared < kCountMask => Wrap(q.shared + 1) = q.shared + 1
  BY <1>1 DEF Wrap
<1>3. /\ q.exclusive < kCountMask => q.exclusive # kCountMask
      /\ q.shared < kCountMask => q.shared # kCountMask
  BY <1>1
<1>4. q.exclusive < kCountMask => AddExclusive(q) = [q EXCEPT !.exclusive = q.exclusive + 1]
  BY <1>2, <1>3 DEF AddExclusive
<1>5. q.waiting < kCountMask => AddWaiting(q) = [q EXCEPT !.waiting = q.waiting + 1]
  BY <1>2 DEF AddWaiting
<1>6. q.shared < kCountMask => AddShared(q) = [q EXCEPT !.shared = q.shared + 1]
  BY <1>2, <1>3 DEF AddShared
<1>7. /\ q.exclusive < kCountMask => [q EXCEPT !.exclusive = q.exclusive + 1] \in Counts
      /\ q.waiting < kCountMask => [q EXCEPT !.waiting = q.waiting + 1] \in Counts
      /\ q.shared < kCountMask => [q EXCEPT !.shared = q.shared + 1] \in Counts
  BY <1>1 DEF Counts
<1> QED
  BY <1>4, <1>5, <1>6, <1>7

(* There is room in every count for a thread that is in none of them.      *)
LEMMA Room ==
  ASSUME IInv, NEW t \in Threads, pc[t] \in {"out", "sharedCas"}
  PROVE  /\ fQueueCounts \in Counts
         /\ fQueueCounts.exclusive < kCountMask
         /\ fQueueCounts.waiting < kCountMask
         /\ fQueueCounts.shared < kCountMask
<1> DEFINE f == [pc EXCEPT ![t] = "waitEx"]
           g == [pc EXCEPT ![t] = "waitSh"]
<1>1. TypeOK /\ Balanced /\ OwedShared \in Nat
  BY InvAsBalance, OwedIsNat DEF IInv
<1>2. /\ fQueueCounts \in Counts /\ kCountMask \in Nat /\ fSharedQueue \in Nat
      /\ fQueueCounts.waiting \in Nat /\ fQueueCounts.shared \in Nat
  BY <1>1, SharedMutexAssumption DEF TypeOK, Counts
<1>3. /\ Num(f, WriterPc) = Num(pc, WriterPc) /\ Num(f, {"waitEx"}) = Num(pc, {"waitEx"}) + 1
      /\ Num(g, {"holdSh"}) = Num(pc, {"holdSh"}) /\ Num(g, {"waitSh"}) = Num(pc, {"waitSh"}) + 1
      /\ Fits(f) /\ Fits(g) /\ Fits(pc)
  <2>1. /\ "waitEx" \in Pc /\ "waitSh" \in Pc /\ pc \in [Threads -> Pc]
    BY <1>1 DEF TypeOK, Pc
  <2>2. \A labels :
          /\ Num(f, labels) = Num(pc, labels) + One("waitEx" \in labels) - One(pc[t] \in labels)
          /\ Num(g, labels) = Num(pc, labels) + One("waitSh" \in labels) - One(pc[t] \in labels)
    BY <2>1, NumMove
  <2> HIDE DEF f, g
  <2>3. Fits(f) /\ Fits(g) /\ Fits(pc)
    BY NumFits
  <2>4. /\ One("waitEx" \in WriterPc) = 0 /\ One(pc[t] \in WriterPc) = 0
        /\ One("waitEx" \in {"waitEx"}) = 1 /\ One(pc[t] \in {"waitEx"}) = 0
        /\ One("waitSh" \in {"holdSh"}) = 0 /\ One(pc[t] \in {"holdSh"}) = 0
        /\ One("waitSh" \in {"waitSh"}) = 1 /\ One(pc[t] \in {"waitSh"}) = 0
    BY DEF One, WriterPc
  <2> QED
    BY <2>2, <2>3, <2>4 DEF Fits
<1> HIDE DEF f, g
<1>4. /\ Num(pc, WriterPc) + Num(pc, {"waitEx"}) < kCountMask
      /\ Num(pc, {"holdSh"}) + Num(pc, {"waitSh"}) < kCountMask
  BY <1>2, <1>3 DEF Fits
<1> QED
  BY <1>1, <1>2, <1>3, <1>4 DEF Balanced, Balance, Fits

(* acquire() changes the count of the writers and no other. *)
LEMMA AcquireCounts ==
  ASSUME IInv, NEW t \in Threads, Acquire(t)
  PROVE  /\ fQueueCounts' = [fQueueCounts EXCEPT !.exclusive = fQueueCounts.exclusive + 1]
         /\ fQueueCounts' \in Counts
<1>1. pc[t] \in {"out", "sharedCas"} /\ fQueueCounts' = AddExclusive(fQueueCounts)
  BY DEF Acquire
<1>2. fQueueCounts \in Counts /\ fQueueCounts.exclusive < kCountMask
  BY <1>1, Room
<1> QED
  BY <1>1, <1>2, AddFits

(* What acquireShared() decides after its CAS is the branch it took before. *)
LEMMA SharedCasCounts ==
  ASSUME IInv, NEW t \in Threads, SharedCas(t)
  PROVE  /\ fQueueCounts' \in Counts
         /\ IF fQueueCounts.exclusive > 0
              THEN /\ fQueueCounts' = [fQueueCounts EXCEPT !.waiting = fQueueCounts.waiting + 1]
                   /\ Goto(t, "waitSh")
              ELSE /\ fQueueCounts' = [fQueueCounts EXCEPT !.shared = fQueueCounts.shared + 1]
                   /\ Goto(t, "holdSh")
<1> DEFINE q == fQueueCounts
<1>1. /\ pc[t] \in {"out", "sharedCas"}
      /\ q' = IF q.exclusive > 0 THEN AddWaiting(q) ELSE AddShared(q)
      /\ Goto(t, IF q'.exclusive > 0 THEN "waitSh" ELSE "holdSh")
  BY DEF SharedCas
<1>2. q \in Counts /\ q.waiting < kCountMask /\ q.shared < kCountMask
  BY <1>1, Room
<1>3. CASE q.exclusive > 0
  <2>1. q' = [q EXCEPT !.waiting = q.waiting + 1] /\ q' \in Counts
    BY <1>1, <1>2, <1>3, AddFits
  <2>2. q'.exclusive > 0
    BY <1>2, <1>3, <2>1 DEF Counts
  <2> QED
    BY <1>1, <1>3, <2>1, <2>2
<1>4. CASE ~(q.exclusive > 0)
  <2>1. q' = [q EXCEPT !.shared = q.shared + 1] /\ q' \in Counts
    BY <1>1, <1>2, <1>4, AddFits
  <2>2. ~(q'.exclusive > 0)
    BY <1>2, <1>4, <2>1 DEF Counts
  <2> QED
    BY <1>1, <1>4, <2>1, <2>2
<1> QED
  BY <1>3, <1>4

LEMMA AcquireKeeps ==
  ASSUME IInv, NEW t \in Threads, Acquire(t)
  PROVE  IInv'
<1> DEFINE label == IF fQueueCounts.exclusive > 0 \/ fQueueCounts.shared > 0
                      THEN "waitEx" ELSE "holdEx"
<1>1. label \in Pc /\ label \in {"waitEx", "holdEx"} /\ pc[t] = "out" /\ Goto(t, label)
  BY DEF Acquire, Pc
<1>2. TypeOK /\ OneOwing /\ Balanced /\ OwedShared \in Nat
  BY InvAsBalance, OwedIsNat DEF IInv
<1>3. /\ Num(pc', WriterPc) = Num(pc, WriterPc) + One(label = "holdEx")
      /\ Num(pc', {"waitEx"}) = Num(pc, {"waitEx"}) + One(label = "waitEx")
      /\ Num(pc', {"holdSh"}) = Num(pc, {"holdSh"})
      /\ Num(pc', {"waitSh"}) = Num(pc, {"waitSh"})
      /\ Num(pc', {"signalEx"}) = Num(pc, {"signalEx"})
  BY <1>1, <1>2, Moves DEF Shift, One, WriterPc, Fits
<1>4. OwedShared' = OwedShared /\ OneOwing'
  BY <1>1, <1>2, SameOwed DEF Acquire
<1>5. fQueueCounts' = [fQueueCounts EXCEPT !.exclusive = fQueueCounts.exclusive + 1]
      /\ fQueueCounts' \in Counts
  BY AcquireCounts
<1>6. Balanced'
  BY <1>2, <1>3, <1>4, <1>5, NumFits DEF Fits, Balanced, Balance, Acquire, TypeOK, Counts, One
<1>7. TypeOK'
  BY <1>1, <1>2, <1>5 DEF TypeOK, Acquire, Goto
<1>8. (CountsAgree /\ OneWriterPass /\ WaitBehindWriter)'
  BY <1>6, InvAsBalance, PTL
<1> QED
  BY <1>4, <1>7, <1>8 DEF IInv
LEMMA ExclusiveWakeKeeps ==
  ASSUME IInv, NEW t \in Threads, ExclusiveWake(t)
  PROVE  IInv'
<1>1. "holdEx" \in Pc /\ pc[t] = "waitEx" /\ Goto(t, "holdEx")
  BY DEF ExclusiveWake, Pc
<1>2. TypeOK /\ OneOwing /\ Balanced /\ OwedShared \in Nat
  BY InvAsBalance, OwedIsNat DEF IInv
<1>3. /\ Num(pc', WriterPc) = Num(pc, WriterPc) + 1
      /\ Num(pc', {"waitEx"}) = Num(pc, {"waitEx"}) - 1
      /\ Num(pc', {"holdSh"}) = Num(pc, {"holdSh"})
      /\ Num(pc', {"waitSh"}) = Num(pc, {"waitSh"})
      /\ Num(pc', {"signalEx"}) = Num(pc, {"signalEx"})
  BY <1>1, <1>2, Moves DEF Shift, One, WriterPc, Fits
<1>4. OwedShared' = OwedShared /\ OneOwing'
  BY <1>1, <1>2, SameOwed DEF ExclusiveWake
<1>5. Balanced'
  BY <1>2, <1>3, <1>4, NumFits DEF Fits, Balanced, Balance, ExclusiveWake, TypeOK, Counts
<1>6. TypeOK'
  BY <1>1, <1>2 DEF TypeOK, ExclusiveWake, Goto
<1>7. (CountsAgree /\ OneWriterPass /\ WaitBehindWriter)'
  BY <1>5, InvAsBalance, PTL
<1> QED
  BY <1>4, <1>6, <1>7 DEF IInv

LEMMA ReleaseKeeps ==
  ASSUME IInv, NEW t \in Threads, Release(t)
  PROVE  IInv'
<1>1. "releaseCas" \in Pc /\ pc[t] = "holdEx" /\ Goto(t, "releaseCas")
  BY DEF Release, Pc
<1>2. TypeOK /\ OneOwing /\ Balanced /\ OwedShared \in Nat
  BY InvAsBalance, OwedIsNat DEF IInv
<1>3. /\ Num(pc', WriterPc) = Num(pc, WriterPc)
      /\ Num(pc', {"waitEx"}) = Num(pc, {"waitEx"})
      /\ Num(pc', {"holdSh"}) = Num(pc, {"holdSh"})
      /\ Num(pc', {"waitSh"}) = Num(pc, {"waitSh"})
      /\ Num(pc', {"signalEx"}) = Num(pc, {"signalEx"})
  <2>1. /\ One("releaseCas" \in WriterPc) = 1 /\ One(pc[t] \in WriterPc) = 1
    BY <1>1 DEF One, WriterPc
  <2>2. \A l \in {"waitEx", "holdSh", "waitSh", "signalEx"} :
           One("releaseCas" \in {l}) = 0 /\ One(pc[t] \in {l}) = 0
    BY <1>1 DEF One
  <2> QED
    BY <1>1, <1>2, <2>1, <2>2, Moves DEF Shift, Fits
<1>4. OwedShared' = OwedShared /\ OneOwing'
  BY <1>1, <1>2, SameOwed DEF Release
<1>5. Balanced'
  BY <1>2, <1>3, <1>4 DEF Balanced, Balance, Release
<1>6. TypeOK'
  BY <1>1, <1>2 DEF TypeOK, Release, Goto
<1>7. (CountsAgree /\ OneWriterPass /\ WaitBehindWriter)'
  BY <1>5, InvAsBalance, PTL
<1> QED
  BY <1>4, <1>6, <1>7 DEF IInv

(* A writer that is about to leave is alone: no reader runs, is about to   *)
(* run or is owed a wake-up, and no other writer has or gets a pass.       *)
LEMMA WriterAlone ==
  ASSUME IInv, NEW t \in Threads, pc[t] \in WriterPc
  PROVE  /\ fQueueCounts.exclusive > 0 /\ fQueueCounts.shared = 0
         /\ Num(pc, WriterPc) = 1 /\ Num(pc, {"holdSh"}) = 0 /\ Num(pc, {"signalEx"}) = 0
         /\ fExclusiveQueue = 0 /\ fSharedQueue = 0
         /\ OwedShared = 0 /\ OwingShared = {}
<1>1. TypeOK /\ OneOwing /\ Balanced /\ OwedShared \in Nat
  BY InvAsBalance, OwedIsNat DEF IInv
<1>2. Num(pc, WriterPc) > 0
  BY NumPositive
<1>3. /\ fQueueCounts.exclusive \in Nat /\ fQueueCounts.shared \in Nat
      /\ fExclusiveQueue \in Nat /\ fSharedQueue \in Nat
  BY <1>1, SharedMutexAssumption DEF TypeOK, Counts
<1>4. fQueueCounts.exclusive > 0 /\ fQueueCounts.shared = 0
  BY <1>1, <1>2, <1>3, NumFits DEF Fits, Balanced, Balance
<1>5. /\ Num(pc, WriterPc) = 1 /\ Num(pc, {"signalEx"}) = 0 /\ fExclusiveQueue = 0
      /\ Num(pc, {"holdSh"}) = 0 /\ fSharedQueue = 0 /\ OwedShared = 0
  <2>1. Fits(pc) /\ OwedShared \in Nat
    BY <1>1, NumFits
  <2>2. Num(pc, WriterPc) + fExclusiveQueue + Num(pc, {"signalEx"}) = 1
    BY <1>1, <1>4 DEF Balanced, Balance
  <2>3. Num(pc, {"holdSh"}) + fSharedQueue + OwedShared = 0
    BY <1>1, <1>4 DEF Balanced, Balance
  <2>4. /\ Num(pc, WriterPc) \in Nat /\ Num(pc, {"signalEx"}) \in Nat
        /\ Num(pc, {"holdSh"}) \in Nat
    BY <2>1 DEF Fits
  <2>5. Num(pc, WriterPc) = 1 /\ Num(pc, {"signalEx"}) = 0 /\ fExclusiveQueue = 0
    BY <1>2, <1>3, <2>2, <2>4
  <2>6. Num(pc, {"holdSh"}) = 0 /\ fSharedQueue = 0 /\ OwedShared = 0
    BY <1>3, <2>1, <2>3, <2>4
  <2> QED
    BY <2>5, <2>6
<1>6. OwingShared = {}
  <2>1. SUFFICES ASSUME NEW s \in OwingShared PROVE FALSE
    OBVIOUS
  <2>2. OwingShared = {s} /\ waitingShared[s] > 0
    BY <1>1 DEF OneOwing
  <2> QED
    BY <2>2, <1>5, OwedOne DEF OwedShared
<1> QED
  BY <1>4, <1>5, <1>6

(* A writer that releases finds no reader counted as running, so that the  *)
(* |= of release() stores the number of those that waited.                 *)
LEMMA OrIntoZero ==
  ASSUME IInv, NEW t \in Threads, ReleaseCas(t)
  PROVE  LET q == fQueueCounts IN
         fQueueCounts' = [exclusive |-> q.exclusive - 1, waiting |-> 0,
                          shared |-> IF q.waiting > 0 THEN q.waiting ELSE q.shared]
<1>1. fQueueCounts.shared = 0
  BY WriterAlone DEF ReleaseCas, WriterPc
<1>2. fQueueCounts.waiting \in 0..kCountMask
  BY DEF IInv, TypeOK, Counts
<1>3. BitOr(fQueueCounts.shared, fQueueCounts.waiting) = fQueueCounts.waiting
  BY <1>1, <1>2, SharedMutexAssumption
<1> QED
  BY <1>3 DEF ReleaseCas, Released

LEMMA ReleaseCasKeeps ==
  ASSUME IInv, NEW t \in Threads, ReleaseCas(t)
  PROVE  IInv'
<1> DEFINE q == fQueueCounts
           label == IF q.waiting > 0 THEN "signalShared"
                    ELSE IF q.exclusive - 1 > 0 THEN "signalEx" ELSE "out"
<1>1. /\ label \in Pc /\ pc[t] = "releaseCas" /\ Goto(t, label)
      /\ fQueueCounts' = [exclusive |-> q.exclusive - 1, waiting |-> 0,
                          shared |-> IF q.waiting > 0 THEN q.waiting ELSE q.shared]
      /\ waitingShared' = [waitingShared EXCEPT ![t] = q.waiting]
      /\ UNCHANGED <<fSharedQueue, fExclusiveQueue>>
  BY OrIntoZero DEF ReleaseCas, Released, Pc
<1>2. TypeOK /\ OneOwing /\ Balanced
  BY InvAsBalance DEF IInv
<1>3. /\ q.exclusive > 0 /\ q.shared = 0
      /\ Num(pc, WriterPc) = 1 /\ Num(pc, {"holdSh"}) = 0 /\ Num(pc, {"signalEx"}) = 0
      /\ fExclusiveQueue = 0 /\ fSharedQueue = 0
      /\ OwedShared = 0 /\ OwingShared = {}
  BY <1>1, WriterAlone DEF WriterPc
<1>4. /\ q.exclusive \in 0..kCountMask /\ q.waiting \in 0..kCountMask /\ kCountMask \in Nat
  BY <1>2, SharedMutexAssumption DEF TypeOK, Counts
<1>5. /\ Num(pc', WriterPc) = 0
      /\ Num(pc', {"waitEx"}) = Num(pc, {"waitEx"})
      /\ Num(pc', {"holdSh"}) = 0
      /\ Num(pc', {"waitSh"}) = Num(pc, {"waitSh"})
      /\ Num(pc', {"signalEx"}) = One(label = "signalEx")
  BY <1>1, <1>2, <1>3, Moves DEF Shift, One, WriterPc, Fits
<1>6. OwingShared' = IF q.waiting > 0 THEN {t} ELSE {}
  BY <1>1, <1>2, <1>3, <1>4 DEF OwingShared, In, TypeOK, Goto
<1>7. waitingShared'[t] = q.waiting
  BY <1>1, <1>2 DEF TypeOK
<1>8. OwedShared' = q.waiting
  BY <1>4, <1>6, <1>7, OwedNone, OwedOne DEF OwedShared
<1>9. OneOwing'
  BY <1>6, <1>7 DEF OneOwing
<1>10. Balanced'
  BY <1>1, <1>2, <1>3, <1>4, <1>5, <1>8, NumFits DEF Fits, Balanced, Balance, One
<1>11. TypeOK'
  BY <1>1, <1>2, <1>3, <1>4 DEF TypeOK, Counts, Goto, ReleaseCas, NoCounts
<1>12. (CountsAgree /\ OneWriterPass /\ WaitBehindWriter)'
  BY <1>10, InvAsBalance, PTL
<1> QED
  BY <1>9, <1>11, <1>12 DEF IInv
LEMMA CasFailsKeeps ==
  ASSUME IInv, NEW t \in Threads, CasFails(t)
  PROVE  IInv'
<1>1. TypeOK /\ OneOwing /\ Balanced
  BY InvAsBalance DEF IInv
<1>2. UNCHANGED <<fQueueCounts, fSharedQueue, fExclusiveQueue, pc, waitingShared>>
  BY DEF CasFails
<1>3. OwingShared' = OwingShared
  BY <1>2 DEF OwingShared, In
<1>4. OwedShared' = OwedShared /\ OneOwing'
  BY <1>1, <1>2, <1>3 DEF OwedShared, OneOwing
<1>5. Balanced'
  BY <1>1, <1>2, <1>4 DEF Balanced
<1>6. TypeOK'
  BY <1>1, <1>2 DEF CasFails, TypeOK
<1>7. (CountsAgree /\ OneWriterPass /\ WaitBehindWriter)'
  BY <1>5, InvAsBalance, PTL
<1> QED
  BY <1>4, <1>6, <1>7 DEF IInv

LEMMA SignalSharedKeeps ==
  ASSUME IInv, NEW t \in Threads, SignalShared(t)
  PROVE  IInv'
<1>1. "out" \in Pc /\ pc[t] = "signalShared" /\ Goto(t, "out")
  BY DEF SignalShared, Pc
<1>2. TypeOK /\ OneOwing /\ Balanced
  BY InvAsBalance DEF IInv
<1>3. /\ Num(pc', WriterPc) = Num(pc, WriterPc)
      /\ Num(pc', {"waitEx"}) = Num(pc, {"waitEx"})
      /\ Num(pc', {"holdSh"}) = Num(pc, {"holdSh"})
      /\ Num(pc', {"waitSh"}) = Num(pc, {"waitSh"})
      /\ Num(pc', {"signalEx"}) = Num(pc, {"signalEx"})
  BY <1>1, <1>2, Moves DEF Shift, One, WriterPc, Fits
<1>4. OwingShared = {t}
  BY <1>1, <1>2 DEF OneOwing, OwingShared, In
<1>5. OwedShared = waitingShared[t]
  BY <1>4, OwedOne DEF OwedShared
<1>6. OwingShared' = {}
  BY <1>1, <1>2, <1>4 DEF OwingShared, In, TypeOK, Goto
<1>7. OwedShared' = 0 /\ OneOwing'
  BY <1>6, OwedNone DEF OwedShared, OneOwing
<1>8. Balanced'
  <2>1. /\ fSharedQueue' = fSharedQueue + OwedShared
        /\ UNCHANGED <<fQueueCounts, fExclusiveQueue>>
    BY <1>5 DEF SignalShared
  <2>2. fSharedQueue \in Nat /\ OwedShared \in Nat /\ fQueueCounts.waiting \in Nat
        /\ Num(pc, {"holdSh"}) \in Nat
    BY <1>2, <1>5, NumFits, SharedMutexAssumption DEF TypeOK, Counts, Fits
  <2>3. /\ Num(pc', {"holdSh"}) + fSharedQueue' + OwedShared' =
             Num(pc, {"holdSh"}) + fSharedQueue + OwedShared
        /\ fQueueCounts'.waiting + fSharedQueue' + OwedShared' =
             fQueueCounts.waiting + fSharedQueue + OwedShared
    BY <1>3, <1>7, <2>1, <2>2
  <2> QED
    BY <1>2, <1>3, <2>1, <2>3 DEF Balanced, Balance
<1>9. TypeOK'
  BY <1>1, <1>2 DEF TypeOK, SignalShared, Goto
<1>10. (CountsAgree /\ OneWriterPass /\ WaitBehindWriter)'
  BY <1>8, InvAsBalance, PTL
<1> QED
  BY <1>7, <1>9, <1>10 DEF IInv

LEMMA SignalExclusiveKeeps ==
  ASSUME IInv, NEW t \in Threads, SignalExclusive(t)
  PROVE  IInv'
<1>1. "out" \in Pc /\ pc[t] = "signalEx" /\ Goto(t, "out")
  BY DEF SignalExclusive, Pc
<1>2. TypeOK /\ OneOwing /\ Balanced
  BY InvAsBalance DEF IInv
<1>3. /\ Num(pc', WriterPc) = Num(pc, WriterPc)
      /\ Num(pc', {"waitEx"}) = Num(pc, {"waitEx"})
      /\ Num(pc', {"holdSh"}) = Num(pc, {"holdSh"})
      /\ Num(pc', {"waitSh"}) = Num(pc, {"waitSh"})
      /\ Num(pc', {"signalEx"}) = Num(pc, {"signalEx"}) - 1
  <2>1. /\ One("out" \in WriterPc) = 0 /\ One(pc[t] \in WriterPc) = 0
    BY <1>1 DEF One, WriterPc
  <2>2. \A l \in {"waitEx", "holdSh", "waitSh"} :
           One("out" \in {l}) = 0 /\ One(pc[t] \in {l}) = 0
    BY <1>1 DEF One
  <2>3. One("out" \in {"signalEx"}) = 0 /\ One(pc[t] \in {"signalEx"}) = 1
    BY <1>1 DEF One
  <2> QED
    BY <1>1, <1>2, <2>1, <2>2, <2>3, Moves DEF Shift, Fits
<1>4. OwedShared' = OwedShared /\ OneOwing'
  BY <1>1, <1>2, SameOwed DEF SignalExclusive
<1>5. Balanced'
  BY <1>2, <1>3, <1>4, NumFits DEF Fits, Balanced, Balance, SignalExclusive, TypeOK
<1>6. TypeOK'
  BY <1>1, <1>2 DEF TypeOK, SignalExclusive, Goto
<1>7. (CountsAgree /\ OneWriterPass /\ WaitBehindWriter)'
  BY <1>5, InvAsBalance, PTL
<1> QED
  BY <1>4, <1>6, <1>7 DEF IInv

LEMMA AcquireSharedKeeps ==
  ASSUME IInv, NEW t \in Threads, AcquireShared(t)
  PROVE  IInv'
<1>1. "sharedCas" \in Pc /\ pc[t] = "out" /\ Goto(t, "sharedCas")
  BY DEF AcquireShared, Pc
<1>2. TypeOK /\ OneOwing /\ Balanced
  BY InvAsBalance DEF IInv
<1>3. /\ Num(pc', WriterPc) = Num(pc, WriterPc)
      /\ Num(pc', {"waitEx"}) = Num(pc, {"waitEx"})
      /\ Num(pc', {"holdSh"}) = Num(pc, {"holdSh"})
      /\ Num(pc', {"waitSh"}) = Num(pc, {"waitSh"})
      /\ Num(pc', {"signalEx"}) = Num(pc, {"signalEx"})
  BY <1>1, <1>2, Moves DEF Shift, One, WriterPc, Fits
<1>4. OwedShared' = OwedShared /\ OneOwing'
  BY <1>1, <1>2, SameOwed DEF AcquireShared
<1>5. Balanced'
  BY <1>2, <1>3, <1>4 DEF Balanced, Balance, AcquireShared
<1>6. TypeOK'
  BY <1>1, <1>2 DEF TypeOK, AcquireShared, Goto
<1>7. (CountsAgree /\ OneWriterPass /\ WaitBehindWriter)'
  BY <1>5, InvAsBalance, PTL
<1> QED
  BY <1>4, <1>6, <1>7 DEF IInv

LEMMA SharedWakeKeeps ==
  ASSUME IInv, NEW t \in Threads, SharedWake(t)
  PROVE  IInv'
<1>1. "holdSh" \in Pc /\ pc[t] = "waitSh" /\ Goto(t, "holdSh")
  BY DEF SharedWake, Pc
<1>2. TypeOK /\ OneOwing /\ Balanced /\ OwedShared \in Nat
  BY InvAsBalance, OwedIsNat DEF IInv
<1>3. /\ Num(pc', WriterPc) = Num(pc, WriterPc)
      /\ Num(pc', {"waitEx"}) = Num(pc, {"waitEx"})
      /\ Num(pc', {"holdSh"}) = Num(pc, {"holdSh"}) + 1
      /\ Num(pc', {"waitSh"}) = Num(pc, {"waitSh"}) - 1
      /\ Num(pc', {"signalEx"}) = Num(pc, {"signalEx"})
  BY <1>1, <1>2, Moves DEF Shift, One, WriterPc, Fits
<1>4. OwedShared' = OwedShared /\ OneOwing'
  BY <1>1, <1>2, SameOwed DEF SharedWake
<1>5. Balanced'
  BY <1>2, <1>3, <1>4, NumFits DEF Fits, Balanced, Balance, SharedWake, TypeOK, Counts
<1>6. TypeOK'
  BY <1>1, <1>2 DEF TypeOK, SharedWake, Goto
<1>7. (CountsAgree /\ OneWriterPass /\ WaitBehindWriter)'
  BY <1>5, InvAsBalance, PTL
<1> QED
  BY <1>4, <1>6, <1>7 DEF IInv

LEMMA SharedCasKeeps ==
  ASSUME IInv, NEW t \in Threads, SharedCas(t)
  PROVE  IInv'
<1> DEFINE q == fQueueCounts
           label == IF q.exclusive > 0 THEN "waitSh" ELSE "holdSh"
<1>1. /\ label \in Pc /\ label \in {"waitSh", "holdSh"}
      /\ pc[t] = "sharedCas" /\ Goto(t, label)
      /\ fQueueCounts' \in Counts
      /\ fQueueCounts' = IF q.exclusive > 0 THEN [q EXCEPT !.waiting = q.waiting + 1]
                                            ELSE [q EXCEPT !.shared = q.shared + 1]
      /\ UNCHANGED <<fSharedQueue, fExclusiveQueue, waitingShared>>
      /\ oldQueueCounts' = [oldQueueCounts EXCEPT ![t] = NoCounts]
  BY SharedCasCounts DEF SharedCas, Pc
<1>2. TypeOK /\ OneOwing /\ Balanced /\ OwedShared \in Nat
  BY InvAsBalance, OwedIsNat DEF IInv
<1>3. /\ Num(pc', WriterPc) = Num(pc, WriterPc)
      /\ Num(pc', {"waitEx"}) = Num(pc, {"waitEx"})
      /\ Num(pc', {"holdSh"}) = Num(pc, {"holdSh"}) + One(label = "holdSh")
      /\ Num(pc', {"waitSh"}) = Num(pc, {"waitSh"}) + One(label = "waitSh")
      /\ Num(pc', {"signalEx"}) = Num(pc, {"signalEx"})
      /\ Fits(pc) /\ Fits(pc')
  <2> HIDE DEF label
  <2> QED
    BY <1>1, <1>2, Moves DEF Shift, One, WriterPc, Fits
<1>4. OwedShared' = OwedShared /\ OneOwing'
  <2> HIDE DEF label
  <2> QED
    BY <1>1, <1>2, SameOwed
<1>5. q \in Counts /\ kCountMask \in Nat /\ fSharedQueue \in Nat
  BY <1>2, SharedMutexAssumption DEF TypeOK
<1>6. Balanced'
  BY <1>1, <1>2, <1>3, <1>4, <1>5 DEF Balanced, Balance, One, Fits, Counts
<1>7. TypeOK'
  <2>1. NoCounts \in Counts
    BY <1>5 DEF NoCounts, Counts
  <2> HIDE DEF label
  <2> QED
    BY <1>1, <1>2, <2>1 DEF TypeOK, Goto
<1>8. (CountsAgree /\ OneWriterPass /\ WaitBehindWriter)'
  BY <1>6, InvAsBalance, PTL
<1> QED
  BY <1>4, <1>7, <1>8 DEF IInv

LEMMA ReleaseSharedKeeps ==
  ASSUME IInv, NEW t \in Threads, ReleaseShared(t)
  PROVE  IInv'
<1> DEFINE q == fQueueCounts
           label == IF q.shared = 1 /\ q.exclusive > 0 THEN "signalEx" ELSE "out"
<1>1. /\ label \in Pc /\ label \in {"signalEx", "out"}
      /\ pc[t] = "holdSh" /\ Goto(t, label)
      /\ fQueueCounts' = [q EXCEPT !.shared = q.shared - 1]
      /\ UNCHANGED <<fSharedQueue, fExclusiveQueue, oldQueueCounts, waitingShared>>
  BY DEF ReleaseShared, Pc
<1>2. TypeOK /\ OneOwing /\ Balanced /\ OwedShared \in Nat
  BY InvAsBalance, OwedIsNat DEF IInv
<1>3. /\ Num(pc', WriterPc) = Num(pc, WriterPc)
      /\ Num(pc', {"waitEx"}) = Num(pc, {"waitEx"})
      /\ Num(pc', {"holdSh"}) = Num(pc, {"holdSh"}) - 1
      /\ Num(pc', {"waitSh"}) = Num(pc, {"waitSh"})
      /\ Num(pc', {"signalEx"}) = Num(pc, {"signalEx"}) + One(label = "signalEx")
      /\ Fits(pc) /\ Fits(pc')
  <2> HIDE DEF label
  <2> QED
    BY <1>1, <1>2, Moves DEF Shift, One, WriterPc, Fits
<1>4. OwedShared' = OwedShared /\ OneOwing'
  <2> HIDE DEF label
  <2> QED
    BY <1>1, <1>2, SameOwed
<1>5. /\ q \in Counts /\ kCountMask \in Nat
      /\ q.exclusive \in Nat /\ q.waiting \in Nat /\ q.shared \in Nat
      /\ fSharedQueue \in Nat /\ fExclusiveQueue \in Nat
  BY <1>2, SharedMutexAssumption DEF TypeOK, Counts
<1>6. q.shared > 0
  <2>1. Num(pc, {"holdSh"}) > 0
    BY <1>1, NumPositive
  <2> QED
    BY <1>2, <1>3, <1>5, <2>1 DEF Balanced, Balance, Fits
<1>7. Balanced'
  BY <1>1, <1>2, <1>3, <1>4, <1>5, <1>6 DEF Balanced, Balance, One, Fits, Counts
<1>8. TypeOK'
  <2>1. fQueueCounts' \in Counts
    BY <1>1, <1>5, <1>6 DEF Counts
  <2> HIDE DEF label
  <2> QED
    BY <1>1, <1>2, <2>1 DEF TypeOK, Goto
<1>9. (CountsAgree /\ OneWriterPass /\ WaitBehindWriter)'
  BY <1>7, InvAsBalance, PTL
<1> QED
  BY <1>4, <1>8, <1>9 DEF IInv
-----------------------------------------------------------------------------
LEMMA InitHolds == Init => IInv
<1> SUFFICES ASSUME Init PROVE IInv
  OBVIOUS
<1>1. /\ fQueueCounts = NoCounts /\ fSharedQueue = 0 /\ fExclusiveQueue = 0
      /\ pc = [t \in Threads |-> "out"]
      /\ oldQueueCounts = [t \in Threads |-> NoCounts]
      /\ waitingShared = [t \in Threads |-> 0]
  BY DEF Init
<1>2. TypeOK
  BY <1>1, SharedMutexAssumption DEF TypeOK, Counts, NoCounts, Pc
<1>3. OwingShared = {}
  BY <1>1 DEF OwingShared, In
<1>4. OwedShared = 0 /\ OneOwing
  BY <1>3, OwedNone DEF OwedShared, OneOwing
<1>5. \A labels : "out" \notin labels => Num(pc, labels) = 0
  <2> SUFFICES ASSUME NEW labels, "out" \notin labels PROVE Num(pc, labels) = 0
    OBVIOUS
  <2>1. ~(Num(pc, labels) > 0)
    BY <1>1, NumPositive
  <2>2. Num(pc, labels) \in Nat
    BY NumType
  <2> QED
    BY <2>1, <2>2
<1>6. /\ Num(pc, WriterPc) = 0 /\ Num(pc, {"waitEx"}) = 0 /\ Num(pc, {"holdSh"}) = 0
      /\ Num(pc, {"waitSh"}) = 0 /\ Num(pc, {"signalEx"}) = 0
  BY <1>5 DEF WriterPc
<1>7. Balanced
  BY <1>1, <1>4, <1>6 DEF Balanced, Balance, NoCounts
<1> QED
  BY <1>2, <1>4, <1>7, InvAsBalance DEF IInv

LEMMA StepKeeps == IInv /\ [Next]_vars => IInv'
<1> SUFFICES ASSUME IInv, [Next]_vars PROVE IInv'
  OBVIOUS
<1>1. CASE UNCHANGED vars
  BY <1>1
  DEF vars, IInv, TypeOK, CountsAgree, OneWriterPass, WaitBehindWriter, OneOwing, OwedShared,
      Registered, Writers, Readers, WaitingWriters, WaitingReaders, OwingShared,
      OwingExclusive, In
<1>2. CASE Next
  <2>1. PICK t \in Threads : Acquire(t) \/ AcquireShared(t) \/ GiveBack(t) \/ Inside(t)
    BY <1>2 DEF Next
  <2>2. CASE Acquire(t)
    BY <2>2, AcquireKeeps
  <2>3. CASE AcquireShared(t)
    BY <2>3, AcquireSharedKeeps
  <2>4. CASE GiveBack(t)
    BY <2>4, ReleaseKeeps, ReleaseSharedKeeps DEF GiveBack
  <2>5. CASE Inside(t)
    BY <2>5, ExclusiveWakeKeeps, ReleaseCasKeeps, CasFailsKeeps, SignalSharedKeeps,
       SignalExclusiveKeeps, SharedCasKeeps, SharedWakeKeeps DEF Inside
  <2> QED
    BY <2>1, <2>2, <2>3, <2>4, <2>5
<1> QED
  BY <1>1, <1>2

(* The invariant holds in every reachable state, with any number of threads *)
(* that the counts have room for: the packed counts, the tokens in the two  *)
(* semaphores and the decisions not yet carried out always agree.           *)
THEOREM Invariance == Spec => []IInv
<1>1. Init => IInv
  BY InitHolds
<1>2. IInv /\ [Next]_vars => IInv'
  BY StepKeeps
<1> QED
  BY <1>1, <1>2, PTL DEF Spec

(* The variables keep their types; in particular no count of fQueueCounts   *)
(* ever goes below zero or beyond its ten bits.                             *)
THEOREM TypeCorrect == Spec => []TypeOK
<1>1. IInv => TypeOK
  BY DEF IInv
<1> QED
  BY <1>1, Invariance, PTL

(* A writer runs alone.                                                     *)
THEOREM Exclusion == Spec => []MutualExclusion
<1>1. IInv => MutualExclusion
  <2> SUFFICES ASSUME IInv PROVE MutualExclusion
    OBVIOUS
  <2>1. TypeOK /\ OneOwing /\ Balanced
    BY InvAsBalance DEF IInv
  <2>2. Cardinality(Writers) = Num(pc, WriterPc) /\ Num(pc, WriterPc) \in Nat
    BY Counting, NumFits DEF Counted, Fits
  <2>3. CASE Writers = {}
    BY <2>3, FS_EmptySet DEF MutualExclusion
  <2>4. CASE Writers # {}
    <3>1. PICK t \in Threads : pc[t] \in WriterPc
      BY <2>4 DEF Writers, In, WriterPc
    <3>2. Num(pc, WriterPc) = 1 /\ Num(pc, {"holdSh"}) = 0
      BY <3>1, WriterAlone
    <3>3. ~ \E x \in Threads : pc[x] \in {"holdSh"}
      BY <3>2, NumPositive
    <3> QED
      BY <2>2, <3>2, <3>3 DEF MutualExclusion, Readers, In
  <2> QED
    BY <2>3, <2>4
<1> QED
  BY <1>1, Invariance, PTL

(* The packed counts agree with the threads, so that no decision is taken   *)
(* on a count that was carried into or lost.                                *)
THEOREM CountsCorrect == Spec => []CountsAgree
<1>1. IInv => CountsAgree
  BY DEF IInv
<1> QED
  BY <1>1, Invariance, PTL
-----------------------------------------------------------------------------
(* The refinement. The step of one thread, seen in the abstract variables.  *)
Places == <<Readers, Writers, WaitingReaders, WaitingWriters>>

LEMMA PlacesMove ==
  ASSUME TypeOK, NEW t \in Threads, NEW label \in Pc, Goto(t, label)
  PROVE  /\ Writers' = IF label \in WriterPc THEN Writers \union {t} ELSE Writers \ {t}
         /\ Readers' = IF label = "holdSh" THEN Readers \union {t} ELSE Readers \ {t}
         /\ WaitingReaders' = IF label = "waitSh" THEN WaitingReaders \union {t}
                                                 ELSE WaitingReaders \ {t}
         /\ WaitingWriters' = IF label = "waitEx" THEN WaitingWriters \union {t}
                                                 ELSE WaitingWriters \ {t}
  BY DEF TypeOK, Goto, Writers, Readers, WaitingReaders, WaitingWriters, In, WriterPc

(* Where pc[t] puts the thread in the abstract lock. *)
LEMMA PlaceOf ==
  ASSUME NEW t \in Threads
  PROVE  /\ t \in Writers <=> pc[t] \in WriterPc
         /\ t \in Readers <=> pc[t] = "holdSh"
         /\ t \in WaitingReaders <=> pc[t] = "waitSh"
         /\ t \in WaitingWriters <=> pc[t] = "waitEx"
  BY DEF Writers, Readers, WaitingReaders, WaitingWriters, In, WriterPc

(* What the counts say about the sets. *)
LEMMA CountsAndSets ==
  ASSUME IInv
  PROVE  /\ fQueueCounts.exclusive = 0 <=> Writers \union WaitingWriters = {}
         /\ fQueueCounts.shared = 0 => Readers = {}
         /\ fQueueCounts.shared <= 1 => \A t \in Readers : Readers = {t}
         /\ fSharedQueue > 0 => fQueueCounts.shared > 0
         /\ fExclusiveQueue > 0 =>
              fQueueCounts.exclusive > 0 /\ fQueueCounts.shared = 0 /\ Writers = {}
         /\ fQueueCounts.shared \in Nat /\ fQueueCounts.exclusive \in Nat
<1>1. TypeOK /\ OneOwing /\ CountsAgree /\ OneWriterPass /\ OwedShared \in Nat
  BY OwedIsNat DEF IInv
<1>2. /\ fQueueCounts.shared \in Nat /\ fQueueCounts.exclusive \in Nat
      /\ fSharedQueue \in Nat /\ fExclusiveQueue \in Nat
  BY <1>1, SharedMutexAssumption DEF TypeOK, Counts
<1>3. /\ IsFiniteSet(Registered) /\ IsFiniteSet(Readers) /\ IsFiniteSet(Writers)
      /\ IsFiniteSet(OwingExclusive)
  <2>1. /\ Registered \in SUBSET Threads /\ Readers \in SUBSET Threads
        /\ Writers \in SUBSET Threads /\ OwingExclusive \in SUBSET Threads
    BY DEF Registered, Readers, Writers, WaitingWriters, OwingExclusive, In
  <2>2. IsFiniteSet(Threads)
    BY SharedMutexAssumption
  <2> QED
    BY <2>1, <2>2, FS_Subset
<1>4. /\ Cardinality(Registered) \in Nat /\ Cardinality(Readers) \in Nat
      /\ Cardinality(Writers) \in Nat /\ Cardinality(OwingExclusive) \in Nat
  BY <1>3, FS_CardinalityType
<1>5. /\ Cardinality(Registered) = 0 <=> Registered = {}
      /\ Cardinality(Readers) = 0 <=> Readers = {}
      /\ Cardinality(Writers) = 0 <=> Writers = {}
  BY <1>3, FS_EmptySet
<1>6. fQueueCounts.exclusive = 0 <=> Writers \union WaitingWriters = {}
  BY <1>1, <1>5 DEF CountsAgree, Registered
<1>7. Cardinality(Readers) <= fQueueCounts.shared
  BY <1>1, <1>2, <1>4 DEF CountsAgree
<1>8. fQueueCounts.shared = 0 => Readers = {}
  BY <1>2, <1>4, <1>5, <1>7
<1>9. fQueueCounts.shared <= 1 => \A t \in Readers : Readers = {t}
  <2> SUFFICES ASSUME fQueueCounts.shared <= 1, NEW t \in Readers PROVE Readers = {t}
    OBVIOUS
  <2>1. Cardinality(Readers) = 1
    BY <1>2, <1>4, <1>5, <1>7
  <2>2. \E x : Readers = {x}
    BY <1>3, <2>1, FS_Singleton
  <2> QED
    BY <2>2
<1>10. fSharedQueue > 0 => fQueueCounts.shared > 0
  BY <1>1, <1>2, <1>4 DEF CountsAgree
<1>11. fExclusiveQueue > 0 =>
         fQueueCounts.exclusive > 0 /\ fQueueCounts.shared = 0 /\ Cardinality(Writers) = 0
  BY <1>1, <1>2, <1>4 DEF OneWriterPass
<1> QED
  BY <1>2, <1>5, <1>6, <1>8, <1>9, <1>10, <1>11

AbstractStep == [Abstract!LockNext]_(Abstract!lockVars)

(* A step that leaves the four sets and the shared count alone stutters. *)
LEMMA Stutters ==
  ASSUME UNCHANGED <<Readers, Writers, WaitingReaders, WaitingWriters, Turn>>
  PROVE  AbstractStep
  BY DEF AbstractStep, Abstract!lockVars

(* A thread that is nowhere in the abstract lock. *)
LEMMA NotEngaged ==
  ASSUME NEW t \in Threads, pc[t] \notin WriterPc \union {"waitEx", "waitSh", "holdSh"}
  PROVE  t \notin Abstract!Engaged
  BY PlaceOf DEF Abstract!Engaged

LEMMA AcquireSimulates ==
  ASSUME IInv, NEW t \in Threads, Acquire(t)
  PROVE  Abstract!AwaitWrite(t) \/ Abstract!StartWrite(t)
<1>1. TypeOK /\ pc[t] = "out" /\ "waitEx" \in Pc /\ "holdEx" \in Pc
  BY DEF Acquire, IInv, Pc
<1>2. t \notin Abstract!Engaged
  BY <1>1, NotEngaged DEF WriterPc
<1>3. Turn' = Turn
  <2>1. fQueueCounts'.shared = fQueueCounts.shared
    BY <1>1, AcquireCounts DEF TypeOK, Counts
  <2> QED
    BY <2>1 DEF Turn
<1>4. t \notin Readers /\ t \notin Writers /\ t \notin WaitingReaders /\ t \notin WaitingWriters
  BY <1>1, PlaceOf DEF WriterPc
<1>5. CASE fQueueCounts.exclusive > 0 \/ fQueueCounts.shared > 0
  <2>1. Goto(t, "waitEx")
    BY <1>5 DEF Acquire
  <2> QED
    BY <1>1, <1>2, <1>3, <1>4, <2>1, PlacesMove DEF Abstract!AwaitWrite, WriterPc
<1>6. CASE ~(fQueueCounts.exclusive > 0 \/ fQueueCounts.shared > 0)
  <2>1. Goto(t, "holdEx")
    BY <1>6 DEF Acquire
  <2>2. Writers \union WaitingWriters = {} /\ Readers = {} /\ Turn = "writer"
    BY <1>6, CountsAndSets DEF Turn
  <2> QED
    BY <1>1, <1>2, <1>3, <1>4, <2>1, <2>2, PlacesMove
    DEF Abstract!StartWrite, Abstract!WriterAround, WriterPc
<1> QED
  BY <1>5, <1>6

LEMMA ExclusiveWakeSimulates ==
  ASSUME IInv, NEW t \in Threads, ExclusiveWake(t)
  PROVE  Abstract!AdmitWriter(t)
<1>1. TypeOK /\ pc[t] = "waitEx" /\ "holdEx" \in Pc /\ Goto(t, "holdEx")
      /\ fExclusiveQueue > 0 /\ UNCHANGED fQueueCounts
  BY DEF ExclusiveWake, IInv, Pc
<1>2. fQueueCounts.shared = 0 /\ Writers = {} /\ Readers = {}
  BY <1>1, CountsAndSets
<1>3. Turn = "writer" /\ Turn' = Turn
  BY <1>1, <1>2 DEF Turn
<1> QED
  BY <1>1, <1>2, <1>3, PlacesMove, PlaceOf DEF Abstract!AdmitWriter, WriterPc

LEMMA ReleaseCasSimulates ==
  ASSUME IInv, NEW t \in Threads, ReleaseCas(t)
  PROVE  Abstract!EndWrite(t)
<1> DEFINE q == fQueueCounts
           label == IF q.waiting > 0 THEN "signalShared"
                    ELSE IF q.exclusive - 1 > 0 THEN "signalEx" ELSE "out"
<1>1. /\ label \in Pc /\ label \in {"signalShared", "signalEx", "out"}
      /\ pc[t] = "releaseCas" /\ Goto(t, label)
      /\ fQueueCounts'.shared = IF q.waiting > 0 THEN q.waiting ELSE q.shared
  BY OrIntoZero DEF ReleaseCas, Released, Pc
<1>2. /\ TypeOK /\ CountsAgree
      /\ q.shared = 0 /\ fSharedQueue = 0 /\ OwedShared = 0
  BY <1>1, WriterAlone DEF IInv, WriterPc
<1>3. q.waiting \in Nat
  BY <1>2, SharedMutexAssumption DEF TypeOK, Counts
<1>4. WaitingReaders = {} <=> q.waiting = 0
  <2>1. Cardinality(WaitingReaders) = q.waiting
    BY <1>2, <1>3 DEF CountsAgree
  <2>2. WaitingReaders \in SUBSET Threads /\ IsFiniteSet(Threads)
    BY SharedMutexAssumption DEF WaitingReaders, In
  <2>3. IsFiniteSet(WaitingReaders)
    BY <2>2, FS_Subset
  <2> QED
    BY <2>1, <2>3, FS_EmptySet
<1>5. Turn' = IF WaitingReaders = {} THEN "writer" ELSE "readers"
  BY <1>1, <1>2, <1>3, <1>4 DEF Turn
<1>6. /\ t \in Writers /\ t \notin Readers
      /\ t \notin WaitingReaders /\ t \notin WaitingWriters
  BY <1>1, PlaceOf DEF WriterPc
<1> HIDE DEF label
<1> QED
  BY <1>1, <1>2, <1>5, <1>6, PlacesMove DEF Abstract!EndWrite, WriterPc

LEMMA SharedCasSimulates ==
  ASSUME IInv, NEW t \in Threads, SharedCas(t)
  PROVE  Abstract!AwaitRead(t) \/ Abstract!StartRead(t)
<1>1. TypeOK /\ pc[t] = "sharedCas" /\ "waitSh" \in Pc /\ "holdSh" \in Pc
  BY DEF SharedCas, IInv, Pc
<1>2. t \notin Abstract!Engaged
  BY <1>1, NotEngaged DEF WriterPc
<1>3. t \notin Readers /\ t \notin Writers /\ t \notin WaitingReaders /\ t \notin WaitingWriters
  BY <1>1, PlaceOf DEF WriterPc
<1>4. fQueueCounts.exclusive \in Nat /\ fQueueCounts.shared \in Nat /\ fQueueCounts \in Counts
  BY <1>1, CountsAndSets DEF TypeOK
<1>5. CASE fQueueCounts.exclusive > 0
  <2>1. Goto(t, "waitSh") /\ fQueueCounts'.shared = fQueueCounts.shared
    BY <1>4, <1>5, SharedCasCounts DEF Counts
  <2>2. Turn' = Turn
    BY <2>1 DEF Turn
  <2>3. Abstract!WriterAround
    BY <1>4, <1>5, CountsAndSets DEF Abstract!WriterAround
  <2>4. /\ WaitingReaders' = WaitingReaders \union {t} /\ Readers' = Readers
        /\ Writers' = Writers /\ WaitingWriters' = WaitingWriters
    BY <1>1, <1>3, <2>1, PlacesMove DEF WriterPc
  <2> QED
    BY <1>2, <2>2, <2>3, <2>4 DEF Abstract!AwaitRead
<1>6. CASE ~(fQueueCounts.exclusive > 0)
  <2>1. Goto(t, "holdSh") /\ fQueueCounts'.shared = fQueueCounts.shared + 1
    BY <1>4, <1>6, SharedCasCounts DEF Counts
  <2>2. Turn' = "readers"
    BY <1>4, <2>1 DEF Turn
  <2>3. ~Abstract!WriterAround
    BY <1>4, <1>6, CountsAndSets DEF Abstract!WriterAround
  <2>4. /\ Readers' = Readers \union {t} /\ WaitingReaders' = WaitingReaders
        /\ Writers' = Writers /\ WaitingWriters' = WaitingWriters
    BY <1>1, <1>3, <2>1, PlacesMove DEF WriterPc
  <2> QED
    BY <1>2, <2>2, <2>3, <2>4 DEF Abstract!StartRead
<1> QED
  BY <1>5, <1>6

LEMMA SharedWakeSimulates ==
  ASSUME IInv, NEW t \in Threads, SharedWake(t)
  PROVE  Abstract!AdmitReader(t)
<1>1. TypeOK /\ pc[t] = "waitSh" /\ "holdSh" \in Pc /\ Goto(t, "holdSh")
      /\ fSharedQueue > 0 /\ UNCHANGED fQueueCounts
  BY DEF SharedWake, IInv, Pc
<1>2. Turn = "readers" /\ Turn' = Turn
  BY <1>1, CountsAndSets DEF Turn
<1> QED
  BY <1>1, <1>2, PlacesMove, PlaceOf DEF Abstract!AdmitReader, WriterPc

LEMMA ReleaseSharedSimulates ==
  ASSUME IInv, NEW t \in Threads, ReleaseShared(t)
  PROVE  Abstract!EndRead(t)
<1> DEFINE label == IF fQueueCounts.shared = 1 /\ fQueueCounts.exclusive > 0
                      THEN "signalEx" ELSE "out"
<1>1. /\ TypeOK /\ label \in Pc /\ label \in {"signalEx", "out"}
      /\ pc[t] = "holdSh" /\ Goto(t, label)
      /\ fQueueCounts' = [fQueueCounts EXCEPT !.shared = fQueueCounts.shared - 1]
  BY DEF ReleaseShared, IInv, Pc
<1>2. /\ t \in Readers /\ t \notin Writers
      /\ t \notin WaitingReaders /\ t \notin WaitingWriters
  BY <1>1, PlaceOf DEF WriterPc
<1>3. /\ fQueueCounts.shared \in Nat /\ fQueueCounts.shared > 0
      /\ fQueueCounts.shared <= 1 => Readers = {t}
  BY <1>2, CountsAndSets
<1>4. fQueueCounts'.shared = fQueueCounts.shared - 1
  BY <1>1 DEF TypeOK, Counts
<1>5. Turn' \in {Turn} \union (IF Readers = {t} THEN {"writer"} ELSE {})
  BY <1>3, <1>4 DEF Turn
<1> HIDE DEF label
<1>6. /\ Readers' = Readers \ {t}
      /\ UNCHANGED <<Writers, WaitingReaders, WaitingWriters>>
  BY <1>1, <1>2, PlacesMove DEF WriterPc
<1> QED
  BY <1>2, <1>5, <1>6 DEF Abstract!EndRead

LEMMA QuietSimulates ==
  ASSUME IInv, NEW t \in Threads,
         Release(t) \/ CasFails(t) \/ SignalShared(t) \/ SignalExclusive(t) \/ AcquireShared(t)
  PROVE  AbstractStep
<1>1. UNCHANGED fQueueCounts /\ TypeOK
  BY DEF Release, CasFails, SignalShared, SignalExclusive, AcquireShared, IInv
<1>2. UNCHANGED Turn
  BY <1>1 DEF Turn
<1>3. CASE CasFails(t)
  <2>1. UNCHANGED pc
    BY <1>3 DEF CasFails
  <2>2. UNCHANGED <<Readers, Writers, WaitingReaders, WaitingWriters>>
    BY <2>1 DEF Readers, Writers, WaitingReaders, WaitingWriters, In
  <2> QED
    BY <1>2, <2>2, Stutters
<1>4. CASE Release(t)
  <2>1. pc[t] = "holdEx" /\ Goto(t, "releaseCas") /\ "releaseCas" \in Pc
    BY <1>4 DEF Release, Pc
  <2>2. UNCHANGED <<Readers, Writers, WaitingReaders, WaitingWriters>>
    BY <1>1, <2>1, PlacesMove, PlaceOf DEF WriterPc
  <2> QED
    BY <1>2, <2>2, Stutters
<1>5. CASE SignalShared(t) \/ SignalExclusive(t) \/ AcquireShared(t)
  <2>1. PICK label \in {"out", "sharedCas"} : Goto(t, label)
    BY <1>5 DEF SignalShared, SignalExclusive, AcquireShared
  <2>2. pc[t] \in {"signalShared", "signalEx", "out"} /\ label \in Pc
    BY <1>5 DEF SignalShared, SignalExclusive, AcquireShared, Pc
  <2>3. UNCHANGED <<Readers, Writers, WaitingReaders, WaitingWriters>>
    BY <1>1, <2>1, <2>2, PlacesMove, PlaceOf DEF WriterPc
  <2> QED
    BY <1>2, <2>3, Stutters
<1> QED
  BY <1>3, <1>4, <1>5

(* The release build implements the lock of the header: many readers or one *)
(* writer, alternating, whatever the threads and the semaphores do.         *)
THEOREM Refinement == Spec => ImplementsLock
<1>1. Init => Abstract!LockInit
  <2> SUFFICES ASSUME Init PROVE Abstract!LockInit
    OBVIOUS
  <2>1. pc = [t \in Threads |-> "out"] /\ fQueueCounts.shared = 0
    BY DEF Init, NoCounts
  <2> QED
    BY <2>1
    DEF Abstract!LockInit, Turn, Readers, Writers, WaitingReaders, WaitingWriters, In
<1>2. IInv /\ [Next]_vars => AbstractStep
  <2> SUFFICES ASSUME IInv, [Next]_vars PROVE AbstractStep
    OBVIOUS
  <2>1. CASE UNCHANGED vars
    <3>1. UNCHANGED <<Readers, Writers, WaitingReaders, WaitingWriters, Turn>>
      BY <2>1 DEF vars, Readers, Writers, WaitingReaders, WaitingWriters, In, Turn
    <3> QED
      BY <3>1, Stutters
  <2>2. CASE Next
    <3>1. PICK t \in Threads : Acquire(t) \/ AcquireShared(t) \/ GiveBack(t) \/ Inside(t)
      BY <2>2 DEF Next
    <3>2. \/ \/ Abstract!StartRead(t) \/ Abstract!AwaitRead(t) \/ Abstract!AdmitReader(t)
             \/ Abstract!EndRead(t) \/ Abstract!StartWrite(t) \/ Abstract!AwaitWrite(t)
             \/ Abstract!AdmitWriter(t) \/ Abstract!EndWrite(t)
          \/ AbstractStep
      BY <3>1, AcquireSimulates, ExclusiveWakeSimulates, ReleaseCasSimulates, SharedCasSimulates,
         SharedWakeSimulates, ReleaseSharedSimulates, QuietSimulates DEF GiveBack, Inside
    <3> QED
      BY <3>2 DEF AbstractStep, Abstract!LockNext
  <2> QED
    BY <2>1, <2>2
<1> QED
  BY <1>1, <1>2, Invariance, PTL DEF Spec, ImplementsLock, Abstract!LockSpec, AbstractStep
=============================================================================
