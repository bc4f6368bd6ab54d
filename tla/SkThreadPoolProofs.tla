------------------------- MODULE SkThreadPoolProofs -------------------------
(***************************************************************************)
(* Theorems about the thread pool and its task groups, for any pool, any   *)
(* clients and any finite set of tasks that add tasks to one another.      *)
(*                                                                         *)
(* The stacks of the threads are looked at through four sets: which bodies *)
(* are under way (Occupied), and which tasks are still to be added         *)
(* (ToAdd), counted but not in the list (InBatch), and in it (Listed).     *)
(***************************************************************************)
EXTENDS SkThreadPool, FiniteSetTheorems, SequenceTheorems, TLAPS

Bodies == Tasks \union Clients
Labels == {"run", "signal", "borrow", "loop", "pop", "count"}

Frame1 == [body : Bodies \union {Null}, at : Labels, todo : SUBSET Tasks, batch : SUBSET Tasks]

(* What is true of every frame. *)
GoodFrame(f) ==
  /\ f \in Frame1
  /\ f.body = Null => f.at \in {"loop", "pop"}
  /\ f.at = "loop" => f.body = Null
  /\ f.at = "count" => f.body \in Tasks \ Loose
  /\ f.at \in {"borrow", "pop", "count"} => f.todo = {} /\ f.batch = {}
  /\ f.todo \union f.batch \subseteq AddedTo(f.body)
  /\ f.todo \intersect f.batch = {}


(* The stacks: no body has two frames, a client's is on its own stack, and *)
(* only the top of a stack is anywhere but resuming.                       *)
Shape ==
  /\ DOMAIN stack = Threads
  /\ \A t \in Threads : stack[t] \in Seq(Frame1)
  /\ \A t \in Threads : \A i \in DOMAIN stack[t] :
       /\ GoodFrame(stack[t][i])
       /\ i > 1 => stack[t][i].at \in {"run", "loop"}
       /\ stack[t][i].body \in Clients => stack[t][i].body = t
  /\ \A t, u \in Threads : \A i \in DOMAIN stack[t], j \in DOMAIN stack[u] :
       stack[t][i].body = stack[u][j].body /\ stack[t][i].body # Null => t = u /\ i = j

Occupied == {b \in Bodies : \E t \in Threads : \E i \in DOMAIN stack[t] : stack[t][i].body = b}
Counting == {b \in Bodies : \E t \in Threads : \E i \in DOMAIN stack[t] :
                              stack[t][i].body = b /\ stack[t][i].at = "count"}
ToAdd == {k \in Tasks : \E t \in Threads : \E i \in DOMAIN stack[t] : k \in stack[t][i].todo}
InBatch == {k \in Tasks : \E t \in Threads : \E i \in DOMAIN stack[t] : k \in stack[t][i].batch}
Listed == {k \in Tasks : \E i \in DOMAIN fWork : fWork[i] = k}
-----------------------------------------------------------------------------
(* What the three ways of changing a stack do to it.                       *)
LEMMA TopIsFirst ==
  ASSUME Shape, NEW t \in Threads, stack[t] # <<>>
  PROVE  /\ 1 \in DOMAIN stack[t] /\ Top(t) = stack[t][1] /\ GoodFrame(Top(t))
         /\ Len(stack[t]) \in Nat /\ Len(stack[t]) > 0 /\ DOMAIN stack[t] = 1..Len(stack[t])
<1>1. stack[t] \in Seq(Frame1)
  BY DEF Shape
<1>2. Len(stack[t]) \in Nat /\ Len(stack[t]) > 0 /\ DOMAIN stack[t] = 1..Len(stack[t])
  BY <1>1, LenProperties, EmptySeq
<1>3. 1 \in DOMAIN stack[t] /\ Top(t) = stack[t][1]
  BY <1>2 DEF Top
<1> QED
  BY <1>2, <1>3 DEF Shape

LEMMA GoesStack ==
  ASSUME Shape, NEW t \in Threads, stack[t] # <<>>, NEW f \in Frame1, Goes(t, f)
  PROVE  /\ DOMAIN stack' = Threads
         /\ stack'[t] \in Seq(Frame1) /\ stack'[t] # <<>>
         /\ DOMAIN stack'[t] = DOMAIN stack[t]
         /\ stack'[t][1] = f
         /\ \A i \in DOMAIN stack[t] : i # 1 => stack'[t][i] = stack[t][i]
         /\ \A u \in Threads : u # t => stack'[u] = stack[u]
<1> DEFINE s == stack[t]
           r == <<f>> \o Tail(s)
<1>1. s \in Seq(Frame1) /\ s # <<>>
  BY DEF Shape
<1>2. Tail(s) \in Seq(Frame1) /\ Len(Tail(s)) = Len(s) - 1 /\ Len(s) \in Nat /\ Len(s) > 0
      /\ \A i \in 1 .. Len(s) - 1 : Tail(s)[i] = s[i + 1]
  BY <1>1, HeadTailProperties, LenProperties, EmptySeq
<1>3. DOMAIN stack' = Threads /\ stack'[t] = r /\ \A u \in Threads : u # t => stack'[u] = stack[u]
  BY DEF Goes, Shape
<1>4. <<f>> \in Seq(Frame1) /\ Len(<<f>>) = 1 /\ <<f>>[1] = f
  OBVIOUS
<1>5. /\ r \in Seq(Frame1) /\ Len(r) = 1 + Len(Tail(s))
      /\ \A i \in 1 .. 1 + Len(Tail(s)) : r[i] = IF i <= 1 THEN <<f>>[i] ELSE Tail(s)[i - 1]
  BY <1>2, <1>4, ConcatProperties
<1>6. Len(r) = Len(s) /\ r # <<>> /\ DOMAIN r = 1..Len(s) /\ DOMAIN s = 1..Len(s)
  BY <1>1, <1>2, <1>5, LenProperties
<1>7. r[1] = f /\ \A i \in 1..Len(s) : i # 1 => r[i] = s[i]
  <2>1. ASSUME NEW i \in 1..Len(s), i # 1 PROVE r[i] = s[i]
    <3>1. i - 1 \in 1 .. Len(s) - 1 /\ ~(i <= 1) /\ (i - 1) + 1 = i
      BY <1>2, <2>1
    <3>2. r[i] = Tail(s)[i - 1]
      BY <1>2, <1>5, <2>1, <3>1
    <3>3. Tail(s)[i - 1] = s[(i - 1) + 1]
      BY <1>2, <3>1
    <3> QED
      BY <3>1, <3>2, <3>3
  <2>2. r[1] = f
    BY <1>2, <1>4, <1>5
  <2> QED
    BY <2>1, <2>2
<1> QED
  BY <1>1, <1>3, <1>5, <1>6, <1>7

LEMMA ReturnsStack ==
  ASSUME Shape, NEW t \in Threads, stack[t] # <<>>, Returns(t)
  PROVE  /\ DOMAIN stack' = Threads
         /\ stack'[t] \in Seq(Frame1)
         /\ DOMAIN stack'[t] = 1 .. Len(stack[t]) - 1
         /\ \A i \in 1 .. Len(stack[t]) - 1 : stack'[t][i] = stack[t][i + 1]
         /\ \A u \in Threads : u # t => stack'[u] = stack[u]
<1>1. stack[t] \in Seq(Frame1)
  BY DEF Shape
<1>2. /\ Tail(stack[t]) \in Seq(Frame1) /\ Len(Tail(stack[t])) = Len(stack[t]) - 1
      /\ \A i \in 1 .. Len(stack[t]) - 1 : Tail(stack[t])[i] = stack[t][i + 1]
  BY <1>1, HeadTailProperties
<1>3. DOMAIN Tail(stack[t]) = 1 .. Len(stack[t]) - 1
  BY <1>2, LenProperties
<1>4. /\ DOMAIN stack' = Threads /\ stack'[t] = Tail(stack[t])
      /\ \A u \in Threads : u # t => stack'[u] = stack[u]
  BY DEF Returns, Shape
<1> QED
  BY <1>2, <1>3, <1>4

(* A new frame on top, and what was the top resumed below it. *)
LEMMA EntersStack ==
  ASSUME Shape, NEW t \in Threads, stack[t] # <<>>, NEW f \in Frame1, NEW g \in Frame1,
         stack' = [stack EXCEPT ![t] = <<f, g>> \o Tail(@)]
  PROVE  /\ DOMAIN stack' = Threads
         /\ stack'[t] \in Seq(Frame1)
         /\ DOMAIN stack'[t] = 1 .. Len(stack[t]) + 1
         /\ stack'[t][1] = f /\ stack'[t][2] = g
         /\ \A i \in 3 .. Len(stack[t]) + 1 : stack'[t][i] = stack[t][i - 1]
         /\ \A u \in Threads : u # t => stack'[u] = stack[u]
<1> DEFINE s == stack[t]
           r == <<f, g>> \o Tail(s)
<1>1. s \in Seq(Frame1) /\ s # <<>>
  BY DEF Shape
<1>2. Tail(s) \in Seq(Frame1) /\ Len(Tail(s)) = Len(s) - 1 /\ Len(s) \in Nat /\ Len(s) > 0
      /\ \A i \in 1 .. Len(s) - 1 : Tail(s)[i] = s[i + 1]
  BY <1>1, HeadTailProperties, LenProperties, EmptySeq
<1>3. DOMAIN stack' = Threads /\ stack'[t] = r /\ \A u \in Threads : u # t => stack'[u] = stack[u]
  BY DEF Shape
<1>4. <<f, g>> \in Seq(Frame1) /\ Len(<<f, g>>) = 2 /\ <<f, g>>[1] = f /\ <<f, g>>[2] = g
  OBVIOUS
<1>5. /\ r \in Seq(Frame1) /\ Len(r) = 2 + Len(Tail(s))
      /\ \A i \in 1 .. 2 + Len(Tail(s)) : r[i] = IF i <= 2 THEN <<f, g>>[i] ELSE Tail(s)[i - 2]
  BY <1>2, <1>4, ConcatProperties
<1>6. Len(r) = Len(s) + 1 /\ DOMAIN r = 1 .. Len(s) + 1
  BY <1>2, <1>5, LenProperties
<1>7. r[1] = f /\ r[2] = g
  BY <1>2, <1>4, <1>5
<1>8. ASSUME NEW i \in 3 .. Len(s) + 1 PROVE r[i] = s[i - 1]
  <2>1. i - 2 \in 1 .. Len(s) - 1 /\ ~(i <= 2) /\ (i - 2) + 1 = i - 1 /\ i \in 1 .. 2 + Len(Tail(s))
    BY <1>2, <1>8
  <2>2. r[i] = Tail(s)[i - 2]
    BY <1>5, <2>1
  <2>3. Tail(s)[i - 2] = s[(i - 2) + 1]
    BY <1>2, <2>1
  <2> QED
    BY <2>1, <2>2, <2>3
<1> QED
  BY <1>3, <1>5, <1>6, <1>7, <1>8
-----------------------------------------------------------------------------
(* The shape of the stacks is kept, and the four sets move as they should. *)
Moves(occupied, counting, toAdd, inBatch) ==
  /\ Occupied' = occupied /\ Counting' = counting
  /\ ToAdd' = toAdd /\ InBatch' = inBatch

LEMMA OneFrame ==
  ASSUME Shape, NEW t \in Threads, NEW u \in Threads,
         NEW i \in DOMAIN stack[t], NEW j \in DOMAIN stack[u],
         stack[t][i].body = stack[u][j].body, stack[t][i].body # Null
  PROVE  t = u /\ i = j
BY DEF Shape

(* No task is left to two frames. *)
LEMMA LeftToOne ==
  ASSUME Shape, NEW t \in Threads, NEW u \in Threads,
         NEW i \in DOMAIN stack[t], NEW j \in DOMAIN stack[u], NEW k \in Tasks,
         k \in stack[t][i].todo \union stack[t][i].batch,
         k \in stack[u][j].todo \union stack[u][j].batch
  PROVE  t = u /\ i = j
<1>1. GoodFrame(stack[t][i]) /\ GoodFrame(stack[u][j])
  BY DEF Shape
<1>2. AddedBy[k] = stack[t][i].body /\ AddedBy[k] = stack[u][j].body
  BY <1>1 DEF GoodFrame, AddedTo
<1>3. AddedBy[k] # Null
  BY PoolAssumption
<1>4. stack[t][i].body = stack[u][j].body /\ stack[t][i].body # Null
  BY <1>2, <1>3
<1> QED
  BY <1>4, OneFrame

LEMMA GoesMoves ==
  ASSUME Shape, NEW t \in Threads, stack[t] # <<>>, NEW f, GoodFrame(f), Goes(t, f),
         f.body = Top(t).body, Top(t).at # "count"
  PROVE  /\ Shape'
         /\ Moves(Occupied, Counting \union {b \in {f.body} : f.at = "count"},
                  (ToAdd \ Top(t).todo) \union f.todo,
                  (InBatch \ Top(t).batch) \union f.batch)
<1>1. /\ DOMAIN stack' = Threads
      /\ stack'[t] \in Seq(Frame1)
      /\ DOMAIN stack'[t] = DOMAIN stack[t]
      /\ stack'[t][1] = f
      /\ \A i \in DOMAIN stack[t] : i # 1 => stack'[t][i] = stack[t][i]
      /\ \A u \in Threads : u # t => stack'[u] = stack[u]
  BY GoesStack DEF GoodFrame
<1>2. 1 \in DOMAIN stack[t] /\ Top(t) = stack[t][1] /\ f \in Frame1
  BY TopIsFirst DEF GoodFrame
<1>3. \A u \in Threads : \A i \in DOMAIN stack'[u] :
        /\ i \in DOMAIN stack[u]
        /\ stack'[u][i].body = stack[u][i].body
        /\ stack'[u][i] = IF u = t /\ i = 1 THEN f ELSE stack[u][i]
  BY <1>1, <1>2
<1>4. \A u \in Threads : DOMAIN stack'[u] = DOMAIN stack[u]
  BY <1>1
<1>5. Shape'
  <2>1. \A u \in Threads : stack'[u] \in Seq(Frame1)
    BY <1>1 DEF Shape
  <2>2. \A u \in Threads : \A i \in DOMAIN stack'[u] :
          /\ GoodFrame(stack'[u][i])
          /\ i > 1 => stack'[u][i].at \in {"run", "loop"}
          /\ stack'[u][i].body \in Clients => stack'[u][i].body = u
    BY <1>3 DEF Shape
  <2>3. \A u, v \in Threads : \A i \in DOMAIN stack'[u], j \in DOMAIN stack'[v] :
          stack'[u][i].body = stack'[v][j].body /\ stack'[u][i].body # Null => u = v /\ i = j
    BY <1>3 DEF Shape
  <2>4. (\A u \in Threads : \A i \in DOMAIN stack[u] :
           /\ GoodFrame(stack[u][i])
           /\ i > 1 => stack[u][i].at \in {"run", "loop"}
           /\ stack[u][i].body \in Clients => stack[u][i].body = u)'
    BY <2>2 DEF GoodFrame, AddedTo, Frame1, Labels
  <2>5. (\A u \in Threads : stack[u] \in Seq(Frame1))'
    BY <2>1 DEF Frame1, Labels
  <2> QED
    BY <1>1, <2>3, <2>4, <2>5 DEF Shape
<1>6. Occupied' = Occupied
  BY <1>3, <1>4 DEF Occupied
<1>7. Counting' = Counting \union {b \in {f.body} : f.at = "count"}
  <2>1. ASSUME NEW b \in Bodies
        PROVE  b \in Counting' <=> b \in Counting \/ (b = f.body /\ f.at = "count")
    BY <1>1, <1>2, <1>3, <1>4 DEF Counting
  <2>2. f.at = "count" => f.body \in Bodies
    BY DEF GoodFrame, Bodies
  <2> QED
    BY <2>1, <2>2 DEF Counting
<1>8. ToAdd' = (ToAdd \ Top(t).todo) \union f.todo
  <2>1. ASSUME NEW k \in Tasks, NEW u \in Threads, NEW i \in DOMAIN stack[u],
               k \in stack[u][i].todo, k \in Top(t).todo
        PROVE  u = t /\ i = 1
    BY <1>2, <2>1, LeftToOne
  <2>2. ASSUME NEW k \in Tasks
        PROVE  k \in ToAdd' <=> (k \in ToAdd /\ k \notin Top(t).todo) \/ k \in f.todo
    <3>1. k \in ToAdd' => (k \in ToAdd /\ k \notin Top(t).todo) \/ k \in f.todo
      BY <1>3, <2>1 DEF ToAdd
    <3>2. k \in f.todo => k \in ToAdd'
      BY <1>1, <1>2 DEF ToAdd
    <3>3. k \in ToAdd /\ k \notin Top(t).todo => k \in ToAdd'
      BY <1>2, <1>3, <1>4 DEF ToAdd
    <3> QED
      BY <3>1, <3>2, <3>3
  <2>3. f.todo \subseteq Tasks
    BY DEF GoodFrame, Frame1
  <2> QED
    BY <2>2, <2>3 DEF ToAdd
<1>9. InBatch' = (InBatch \ Top(t).batch) \union f.batch
  <2>1. ASSUME NEW k \in Tasks, NEW u \in Threads, NEW i \in DOMAIN stack[u],
               k \in stack[u][i].batch, k \in Top(t).batch
        PROVE  u = t /\ i = 1
    BY <1>2, <2>1, LeftToOne
  <2>2. ASSUME NEW k \in Tasks
        PROVE  k \in InBatch' <=> (k \in InBatch /\ k \notin Top(t).batch) \/ k \in f.batch
    <3>1. k \in InBatch' => (k \in InBatch /\ k \notin Top(t).batch) \/ k \in f.batch
      BY <1>3, <2>1 DEF InBatch
    <3>2. k \in f.batch => k \in InBatch'
      BY <1>1, <1>2 DEF InBatch
    <3>3. k \in InBatch /\ k \notin Top(t).batch => k \in InBatch'
      BY <1>2, <1>3, <1>4 DEF InBatch
    <3> QED
      BY <3>1, <3>2, <3>3
  <2>3. f.batch \subseteq Tasks
    BY DEF GoodFrame, Frame1
  <2> QED
    BY <2>2, <2>3 DEF InBatch
<1> QED
  BY <1>5, <1>6, <1>7, <1>8, <1>9 DEF Moves

LEMMA ReturnsMoves ==
  ASSUME Shape, NEW t \in Threads, stack[t] # <<>>, Returns(t),
         Top(t).todo = {}, Top(t).batch = {}
  PROVE  /\ Shape'
         /\ Moves(Occupied \ {Top(t).body}, Counting \ {Top(t).body}, ToAdd, InBatch)
<1>1. /\ DOMAIN stack' = Threads
      /\ stack'[t] \in Seq(Frame1)
      /\ DOMAIN stack'[t] = 1 .. Len(stack[t]) - 1
      /\ \A i \in 1 .. Len(stack[t]) - 1 : stack'[t][i] = stack[t][i + 1]
      /\ \A u \in Threads : u # t => stack'[u] = stack[u]
  BY ReturnsStack
<1>2. /\ 1 \in DOMAIN stack[t] /\ Top(t) = stack[t][1]
      /\ Len(stack[t]) \in Nat /\ DOMAIN stack[t] = 1..Len(stack[t])
  BY TopIsFirst
<1> DEFINE From(u, i) == IF u = t THEN i + 1 ELSE i
<1>3. \A u \in Threads : \A i \in DOMAIN stack'[u] :
        /\ From(u, i) \in DOMAIN stack[u]
        /\ stack'[u][i] = stack[u][From(u, i)]
        /\ u = t => i > 0 /\ From(u, i) > 1 /\ i \in Int
  BY <1>1, <1>2
<1>4. \A u \in Threads : \A i \in DOMAIN stack[u] :
        (u = t /\ i = 1) \/ \E j \in DOMAIN stack'[u] : stack'[u][j] = stack[u][i]
  <2>1. ASSUME NEW i \in DOMAIN stack[t], i # 1
        PROVE  \E j \in DOMAIN stack'[t] : stack'[t][j] = stack[t][i]
    <3>1. i - 1 \in 1 .. Len(stack[t]) - 1 /\ (i - 1) + 1 = i
      BY <1>2, <2>1
    <3> QED
      BY <1>1, <3>1
  <2> QED
    BY <1>1, <2>1
<1>5. Shape'
  <2>1. \A u \in Threads : stack'[u] \in Seq(Frame1)
    BY <1>1 DEF Shape
  <2>2. \A u \in Threads : \A i \in DOMAIN stack'[u] :
          /\ GoodFrame(stack'[u][i])
          /\ i > 1 => stack'[u][i].at \in {"run", "loop"}
          /\ stack'[u][i].body \in Clients => stack'[u][i].body = u
    BY <1>3 DEF Shape
  <2>3. \A u, v \in Threads : \A i \in DOMAIN stack'[u], j \in DOMAIN stack'[v] :
          stack'[u][i].body = stack'[v][j].body /\ stack'[u][i].body # Null => u = v /\ i = j
    <3> SUFFICES ASSUME NEW u \in Threads, NEW v \in Threads,
                        NEW i \in DOMAIN stack'[u], NEW j \in DOMAIN stack'[v],
                        stack'[u][i].body = stack'[v][j].body, stack'[u][i].body # Null
                 PROVE  u = v /\ i = j
      OBVIOUS
    <3>1. /\ From(u, i) \in DOMAIN stack[u] /\ stack'[u][i] = stack[u][From(u, i)]
          /\ From(v, j) \in DOMAIN stack[v] /\ stack'[v][j] = stack[v][From(v, j)]
      BY <1>3
    <3>2. u = v /\ From(u, i) = From(v, j)
      BY <3>1, OneFrame
    <3> QED
      BY <1>3, <3>2
  <2>4. (\A u \in Threads : \A i \in DOMAIN stack[u] :
           /\ GoodFrame(stack[u][i])
           /\ i > 1 => stack[u][i].at \in {"run", "loop"}
           /\ stack[u][i].body \in Clients => stack[u][i].body = u)'
    BY <2>2 DEF GoodFrame, AddedTo, Frame1, Labels
  <2>5. (\A u \in Threads : stack[u] \in Seq(Frame1))'
    BY <2>1 DEF Frame1, Labels
  <2> QED
    BY <1>1, <2>3, <2>4, <2>5 DEF Shape
<1>6. \A u \in Threads : \A i \in DOMAIN stack'[u] :
        stack'[u][i].body = Top(t).body => Top(t).body = Null
  <2> SUFFICES ASSUME NEW u \in Threads, NEW i \in DOMAIN stack'[u],
                      stack'[u][i].body = Top(t).body, Top(t).body # Null
               PROVE  FALSE
    OBVIOUS
  <2>1. From(u, i) \in DOMAIN stack[u] /\ stack[u][From(u, i)].body = stack[t][1].body
    BY <1>2, <1>3
  <2>2. u = t /\ From(u, i) = 1
    BY <1>2, <2>1, OneFrame
  <2> QED
    BY <1>3, <2>2
<1>7. Null \notin Bodies
  BY PoolAssumption DEF Bodies
<1>8. Occupied' = Occupied \ {Top(t).body}
  BY <1>2, <1>3, <1>4, <1>6, <1>7 DEF Occupied
<1>9. Counting' = Counting \ {Top(t).body}
  BY <1>2, <1>3, <1>4, <1>6, <1>7 DEF Counting
<1>10. ToAdd' = ToAdd
  BY <1>2, <1>3, <1>4 DEF ToAdd
<1>11. InBatch' = InBatch
  BY <1>2, <1>3, <1>4 DEF InBatch
<1> QED
  BY <1>5, <1>8, <1>9, <1>10, <1>11 DEF Moves

LEMMA EntersMoves ==
  ASSUME Shape, NEW t \in Threads, stack[t] # <<>>, NEW k \in Tasks, k \notin Occupied,
         NEW g, GoodFrame(g), g.body = Top(t).body, g.at \in {"run", "loop"},
         g.todo = Top(t).todo, g.batch = Top(t).batch, Top(t).at # "count",
         stack' = [stack EXCEPT ![t] = <<Frame(k), g>> \o Tail(@)]
  PROVE  /\ Shape'
         /\ Moves(Occupied \union {k}, Counting, ToAdd \union AddedTo(k), InBatch)
<1> DEFINE f == Frame(k)
<1>0. GoodFrame(f) /\ f.body = k /\ f.at = "run" /\ f.todo = AddedTo(k) /\ f.batch = {}
  <2>1. k # Null /\ k \notin Clients
    BY PoolAssumption
  <2> QED
    BY <2>1 DEF Frame, GoodFrame, Frame1, Bodies, Labels, AddedTo
<1> HIDE DEF f
<1>1. /\ DOMAIN stack' = Threads
      /\ stack'[t] \in Seq(Frame1)
      /\ DOMAIN stack'[t] = 1 .. Len(stack[t]) + 1
      /\ stack'[t][1] = f /\ stack'[t][2] = g
      /\ \A i \in 3 .. Len(stack[t]) + 1 : stack'[t][i] = stack[t][i - 1]
      /\ \A u \in Threads : u # t => stack'[u] = stack[u]
  <2>1. f \in Frame1 /\ g \in Frame1
    BY <1>0 DEF GoodFrame
  <2> QED
    BY <2>1, EntersStack DEF f
<1>2. /\ 1 \in DOMAIN stack[t] /\ Top(t) = stack[t][1]
      /\ Len(stack[t]) \in Nat /\ Len(stack[t]) > 0 /\ DOMAIN stack[t] = 1..Len(stack[t])
  BY TopIsFirst
<1> DEFINE From(u, i) == IF u = t THEN i - 1 ELSE i
           New(u, i) == u = t /\ i = 1
<1>3. \A u \in Threads : \A i \in DOMAIN stack'[u] :
        \/ New(u, i) /\ stack'[u][i] = f
        \/ /\ ~New(u, i)
           /\ From(u, i) \in DOMAIN stack[u]
           /\ stack'[u][i] = IF u = t /\ i = 2 THEN g ELSE stack[u][From(u, i)]
           /\ stack'[u][i].body = stack[u][From(u, i)].body
           /\ stack'[u][i].todo = stack[u][From(u, i)].todo
           /\ stack'[u][i].batch = stack[u][From(u, i)].batch
           /\ u = t => i > 1 /\ i \in Int
  BY <1>1, <1>2
<1>4. ASSUME NEW u \in Threads, NEW i \in DOMAIN stack[u]
      PROVE  \E j \in DOMAIN stack'[u] :
               /\ stack'[u][j].body = stack[u][i].body
               /\ stack'[u][j].todo = stack[u][i].todo
               /\ stack'[u][j].batch = stack[u][i].batch
               /\ stack[u][i].at = "count" => stack'[u][j].at = "count"
  <2>1. CASE u # t
    BY <1>1, <2>1
  <2>2. CASE u = t /\ i = 1
    <3>1. 2 \in DOMAIN stack'[t]
      BY <1>1, <1>2
    <3> QED
      BY <1>1, <1>2, <2>2, <3>1
  <2>3. CASE u = t /\ i # 1
    <3>1. i + 1 \in 3 .. Len(stack[t]) + 1 /\ (i + 1) - 1 = i
          /\ i + 1 \in 1 .. Len(stack[t]) + 1
      BY <1>2, <2>3
    <3>2. i + 1 \in DOMAIN stack'[t] /\ stack'[t][i + 1] = stack[t][i]
      BY <1>1, <3>1
    <3> QED
      BY <2>3, <3>2
  <2> QED
    BY <2>1, <2>2, <2>3
<1>5. \A u \in Threads : \A i \in DOMAIN stack[u] : stack[u][i].body # k
  BY DEF Occupied, Bodies
<1>6. Shape'
  <2>1. \A u \in Threads : stack'[u] \in Seq(Frame1)
    BY <1>1 DEF Shape
  <2>2. \A u \in Threads : \A i \in DOMAIN stack'[u] :
          /\ GoodFrame(stack'[u][i])
          /\ i > 1 => stack'[u][i].at \in {"run", "loop"}
          /\ stack'[u][i].body \in Clients => stack'[u][i].body = u
    <3> SUFFICES ASSUME NEW u \in Threads, NEW i \in DOMAIN stack'[u]
                 PROVE  /\ GoodFrame(stack'[u][i])
                        /\ i > 1 => stack'[u][i].at \in {"run", "loop"}
                        /\ stack'[u][i].body \in Clients => stack'[u][i].body = u
      OBVIOUS
    <3>1. CASE New(u, i)
      BY <1>0, <1>3, <3>1, PoolAssumption
    <3>2. CASE ~New(u, i) /\ u = t /\ i = 2
      BY <1>1, <1>2, <1>3, <3>2 DEF Shape
    <3>3. CASE ~New(u, i) /\ ~(u = t /\ i = 2)
      <4>1. From(u, i) \in DOMAIN stack[u] /\ stack'[u][i] = stack[u][From(u, i)]
        BY <1>3, <3>3
      <4>2. i > 1 => From(u, i) > 1
        BY <1>3, <3>3
      <4> QED
        BY <4>1, <4>2 DEF Shape
    <3> QED
      BY <3>1, <3>2, <3>3
  <2>3. \A u, v \in Threads : \A i \in DOMAIN stack'[u], j \in DOMAIN stack'[v] :
          stack'[u][i].body = stack'[v][j].body /\ stack'[u][i].body # Null => u = v /\ i = j
    <3> SUFFICES ASSUME NEW u \in Threads, NEW v \in Threads,
                        NEW i \in DOMAIN stack'[u], NEW j \in DOMAIN stack'[v],
                        stack'[u][i].body = stack'[v][j].body, stack'[u][i].body # Null
                 PROVE  u = v /\ i = j
      OBVIOUS
    <3>1. CASE New(u, i) \/ New(v, j)
      BY <1>0, <1>3, <1>5, <3>1
    <3>2. CASE ~New(u, i) /\ ~New(v, j)
      <4>1. u = v /\ From(u, i) = From(v, j)
        BY <1>3, <3>2, OneFrame
      <4> QED
        BY <1>3, <3>2, <4>1
    <3> QED
      BY <3>1, <3>2
  <2>4. (\A u \in Threads : \A i \in DOMAIN stack[u] :
           /\ GoodFrame(stack[u][i])
           /\ i > 1 => stack[u][i].at \in {"run", "loop"}
           /\ stack[u][i].body \in Clients => stack[u][i].body = u)'
    BY <2>2 DEF GoodFrame, AddedTo, Frame1, Labels
  <2>5. (\A u \in Threads : stack[u] \in Seq(Frame1))'
    BY <2>1 DEF Frame1, Labels
  <2> QED
    BY <1>1, <2>3, <2>4, <2>5 DEF Shape
<1>7. \E j \in DOMAIN stack'[t] : stack'[t][j] = f
  <2>1. 1 \in 1 .. Len(stack[t]) + 1
    BY <1>2
  <2>2. 1 \in DOMAIN stack'[t]
    BY <1>1, <2>1
  <2> QED
    BY <1>1, <2>2
<1>8. Occupied' = Occupied \union {k}
  <2>1. ASSUME NEW b \in Bodies PROVE b \in Occupied' <=> b \in Occupied \/ b = k
    <3>1. b \in Occupied' => b \in Occupied \/ b = k
      BY <1>0, <1>3 DEF Occupied
    <3>2. ASSUME b \in Occupied PROVE b \in Occupied'
      <4>0. PICK u \in Threads : \E i \in DOMAIN stack[u] : stack[u][i].body = b
        BY <3>2 DEF Occupied
      <4>1. PICK i \in DOMAIN stack[u] : stack[u][i].body = b
        BY <4>0
      <4>2. PICK j \in DOMAIN stack'[u] : stack'[u][j].body = stack[u][i].body
        BY <1>4
      <4> QED
        BY <4>1, <4>2 DEF Occupied
    <3>3. k \in Occupied'
      BY <1>0, <1>7 DEF Occupied, Bodies
    <3> QED
      BY <3>1, <3>2, <3>3
  <2> QED
    BY <2>1 DEF Occupied, Bodies
<1>9. Counting' = Counting
  <2>1. ASSUME NEW b \in Bodies PROVE b \in Counting' <=> b \in Counting
    <3>1. ASSUME b \in Counting' PROVE b \in Counting
      <4>0. PICK u \in Threads : \E i \in DOMAIN stack'[u] :
              stack'[u][i].body = b /\ stack'[u][i].at = "count"
        BY <3>1 DEF Counting
      <4>1. PICK i \in DOMAIN stack'[u] : stack'[u][i].body = b /\ stack'[u][i].at = "count"
        BY <4>0
      <4>2. ~New(u, i) /\ ~(u = t /\ i = 2)
        BY <1>0, <1>1, <4>1
      <4> QED
        BY <1>3, <4>1, <4>2 DEF Counting
    <3>2. ASSUME b \in Counting PROVE b \in Counting'
      <4>0. PICK u \in Threads : \E i \in DOMAIN stack[u] :
              stack[u][i].body = b /\ stack[u][i].at = "count"
        BY <3>2 DEF Counting
      <4>1. PICK i \in DOMAIN stack[u] : stack[u][i].body = b /\ stack[u][i].at = "count"
        BY <4>0
      <4> QED
        BY <1>4, <4>1 DEF Counting
    <3> QED
      BY <3>1, <3>2
  <2> QED
    BY <2>1 DEF Counting
<1>10. ToAdd' = ToAdd \union AddedTo(k)
  <2>1. ASSUME NEW x \in Tasks PROVE x \in ToAdd' <=> x \in ToAdd \/ x \in AddedTo(k)
    <3>1. x \in ToAdd' => x \in ToAdd \/ x \in AddedTo(k)
      BY <1>0, <1>3 DEF ToAdd
    <3>2. ASSUME x \in ToAdd PROVE x \in ToAdd'
      <4>0. PICK u \in Threads : \E i \in DOMAIN stack[u] : x \in stack[u][i].todo
        BY <3>2 DEF ToAdd
      <4>1. PICK i \in DOMAIN stack[u] : x \in stack[u][i].todo
        BY <4>0
      <4>2. PICK j \in DOMAIN stack'[u] : stack'[u][j].todo = stack[u][i].todo
        BY <1>4
      <4> QED
        BY <4>1, <4>2 DEF ToAdd
    <3>3. x \in AddedTo(k) => x \in ToAdd'
      BY <1>0, <1>7 DEF ToAdd
    <3> QED
      BY <3>1, <3>2, <3>3
  <2> QED
    BY <2>1 DEF ToAdd, AddedTo
<1>11. InBatch' = InBatch
  <2>1. ASSUME NEW x \in Tasks PROVE x \in InBatch' <=> x \in InBatch
    <3>1. x \in InBatch' => x \in InBatch
      BY <1>0, <1>3 DEF InBatch
    <3>2. ASSUME x \in InBatch PROVE x \in InBatch'
      <4>0. PICK u \in Threads : \E i \in DOMAIN stack[u] : x \in stack[u][i].batch
        BY <3>2 DEF InBatch
      <4>1. PICK i \in DOMAIN stack[u] : x \in stack[u][i].batch
        BY <4>0
      <4>2. PICK j \in DOMAIN stack'[u] : stack'[u][j].batch = stack[u][i].batch
        BY <1>4
      <4> QED
        BY <4>1, <4>2 DEF InBatch
    <3> QED
      BY <3>1, <3>2
  <2> QED
    BY <2>1 DEF InBatch
<1> QED
  BY <1>6, <1>8, <1>9, <1>10, <1>11 DEF Moves
-----------------------------------------------------------------------------
(* The list of work, and the threads at a label.                           *)
ListOK ==
  /\ fWork \in Seq(Tasks \union {Null})
  /\ \A i, j \in DOMAIN fWork : fWork[i] = fWork[j] /\ fWork[i] # Null => i = j

LEMMA AppendList ==
  ASSUME ListOK, NEW x \in Tasks \union {Null}, x \notin Listed, fWork' = Append(fWork, x)
  PROVE  /\ ListOK' /\ Len(fWork') = Len(fWork) + 1
         /\ Listed' = Listed \union ({x} \ {Null})
<1>1. /\ fWork' \in Seq(Tasks \union {Null}) /\ Len(fWork') = Len(fWork) + 1
      /\ \A i \in 1..Len(fWork) : fWork'[i] = fWork[i]
      /\ fWork'[Len(fWork) + 1] = x
  BY AppendProperties DEF ListOK
<1>2. /\ Len(fWork) \in Nat /\ DOMAIN fWork = 1..Len(fWork)
      /\ DOMAIN fWork' = 1..Len(fWork) + 1
  BY <1>1, LenProperties DEF ListOK
<1>3. \A i \in DOMAIN fWork' :
        \/ i = Len(fWork) + 1 /\ fWork'[i] = x
        \/ i \in DOMAIN fWork /\ i # Len(fWork) + 1 /\ fWork'[i] = fWork[i]
  BY <1>1, <1>2
<1>4. x # Null => \A i \in DOMAIN fWork : fWork[i] # x
  BY DEF Listed
<1>5. ListOK'
  BY <1>1, <1>3, <1>4 DEF ListOK
<1>6. ASSUME NEW k \in Tasks PROVE k \in Listed' <=> k \in Listed \/ k = x
  <2>1. Len(fWork) + 1 \in DOMAIN fWork' /\ fWork'[Len(fWork) + 1] = x
    BY <1>1, <1>2
  <2>2. \A i \in DOMAIN fWork : i \in DOMAIN fWork' /\ fWork'[i] = fWork[i]
    BY <1>1, <1>2
  <2> QED
    BY <1>3, <2>1, <2>2 DEF Listed
<1>7. Listed' = Listed \union ({x} \ {Null})
  BY <1>6, PoolAssumption DEF Listed
<1> QED
  BY <1>1, <1>5, <1>7

LEMMA PopList ==
  ASSUME ListOK, fWork # <<>>, fWork' = IF fifo THEN Tail(fWork) ELSE Front(fWork)
  PROVE  /\ ListOK' /\ Len(fWork) > 0 /\ Len(fWork') = Len(fWork) - 1
         /\ Popped \in Tasks \union {Null}
         /\ Popped # Null => Popped \in Listed
         /\ Listed' = Listed \ {Popped}
<1>1. Len(fWork) \in Nat /\ Len(fWork) > 0 /\ DOMAIN fWork = 1..Len(fWork)
  BY LenProperties, EmptySeq DEF ListOK
<1> DEFINE gone == IF fifo THEN 1 ELSE Len(fWork)
           From(i) == IF fifo THEN i + 1 ELSE i
<1>2. gone \in DOMAIN fWork /\ Popped = fWork[gone]
  BY <1>1 DEF Popped, Last, ListOK
<1>3. /\ fWork' \in Seq(Tasks \union {Null}) /\ Len(fWork') = Len(fWork) - 1
      /\ DOMAIN fWork' = 1 .. Len(fWork) - 1
      /\ \A i \in 1 .. Len(fWork) - 1 : fWork'[i] = fWork[From(i)]
  <2>1. CASE fifo
    BY <1>1, <2>1, HeadTailProperties, LenProperties DEF ListOK
  <2>2. CASE ~fifo
    BY <1>1, <2>2 DEF Front, ListOK
  <2> QED
    BY <2>1, <2>2
<1>4. \A i \in DOMAIN fWork' : From(i) \in DOMAIN fWork /\ From(i) # gone
  <2> SUFFICES ASSUME NEW i \in 1 .. Len(fWork) - 1
               PROVE  From(i) \in 1..Len(fWork) /\ From(i) # gone
    BY <1>1, <1>3
  <2> QED
    BY <1>1
<1>5. ASSUME NEW i \in DOMAIN fWork, i # gone
      PROVE  \E j \in DOMAIN fWork' : fWork'[j] = fWork[i]
  <2>1. CASE fifo
    <3>1. i - 1 \in DOMAIN fWork' /\ From(i - 1) = i
      BY <1>1, <1>3, <1>5, <2>1
    <3>2. fWork'[i - 1] = fWork[From(i - 1)]
      BY <1>3, <3>1
    <3> QED
      BY <3>1, <3>2
  <2>2. CASE ~fifo
    BY <1>1, <1>3, <1>5, <2>2
  <2> QED
    BY <2>1, <2>2
<1>6. ListOK'
  <2> SUFFICES ASSUME NEW i \in DOMAIN fWork', NEW j \in DOMAIN fWork',
                      fWork'[i] = fWork'[j], fWork'[i] # Null
               PROVE  i = j
    BY <1>3 DEF ListOK
  <2>1. From(i) = From(j)
    BY <1>3, <1>4 DEF ListOK
  <2>2. DOMAIN fWork' = 1 .. Len(fWork) - 1 /\ Len(fWork) \in Nat
    BY <1>1, <1>3
  <2>3. i \in Int /\ j \in Int
    BY <2>2
  <2> QED
    BY <2>1, <2>3
<1>7. Popped \in Tasks \union {Null} /\ (Popped # Null => Popped \in Listed)
  BY <1>2 DEF ListOK, Listed
<1>8. ASSUME NEW k \in Tasks PROVE k \in Listed' <=> k \in Listed /\ k # Popped
  <2>1. k \in Listed' => k \in Listed /\ k # Popped
    <3> SUFFICES ASSUME NEW i \in DOMAIN fWork', fWork'[i] = k
                 PROVE  k \in Listed /\ k # Popped
      BY DEF Listed
    <3>1. fWork[From(i)] = k /\ From(i) \in DOMAIN fWork /\ From(i) # gone
      BY <1>3, <1>4
    <3>2. k # Null
      BY PoolAssumption
    <3>3. fWork[From(i)] # fWork[gone]
      BY <1>2, <3>1, <3>2 DEF ListOK
    <3> HIDE DEF gone, From
    <3> QED
      BY <1>2, <3>1, <3>3 DEF Listed
  <2>2. ASSUME k \in Listed, k # Popped PROVE k \in Listed'
    <3>1. PICK i \in DOMAIN fWork : fWork[i] = k
      BY <2>2 DEF Listed
    <3>2. i # gone
      BY <1>2, <2>2, <3>1
    <3>3. PICK j \in DOMAIN fWork' : fWork'[j] = fWork[i]
      BY <1>5, <3>2
    <3> QED
      BY <3>1, <3>3 DEF Listed
  <2> QED
    BY <2>1, <2>2
<1>9. Listed' = Listed \ {Popped}
  BY <1>8 DEF Listed
<1> QED
  BY <1>1, <1>3, <1>6, <1>7, <1>9

One(b) == IF b THEN 1 ELSE 0
Num(label) == Cardinality({t \in Threads : At(t, label)})

LEMMA NumMoves ==
  ASSUME NEW t \in Threads, NEW label, \A u \in Threads : u # t => stack'[u] = stack[u]
  PROVE  /\ Num(label) \in Nat
         /\ Num(label)' = Num(label) + One(At(t, label)') - One(At(t, label))
         /\ At(t, label) => Num(label) > 0
<1> DEFINE S == {u \in Threads : At(u, label)}
           R == {u \in Threads : At(u, label)'}
<1>1. IsFiniteSet(Threads)
  BY PoolAssumption, FS_Union DEF Threads
<1>2. IsFiniteSet(S) /\ IsFiniteSet(R)
  BY <1>1, S \in SUBSET Threads, R \in SUBSET Threads, FS_Subset
<1>3. \A u \in Threads : u # t => (At(u, label)' <=> At(u, label))
  BY DEF At
<1>4. S \ {t} = R \ {t}
  BY <1>3
<1>5. t \in S <=> At(t, label)
  OBVIOUS
<1>6. t \in R <=> At(t, label)'
  OBVIOUS
<1>7. Num(label) = Cardinality(S) /\ Num(label)' = Cardinality(R)
  BY DEF Num
<1> HIDE DEF S, R
<1>8. Cardinality(S) \in Nat /\ Cardinality(R) \in Nat
  BY <1>2, FS_CardinalityType
<1>9. Cardinality(S \ {t}) = Cardinality(S) - One(t \in S)
  <2>1. Cardinality(S \ {t}) = IF t \in S THEN Cardinality(S) - 1 ELSE Cardinality(S)
    BY <1>2, FS_RemoveElement
  <2> QED
    BY <1>8, <2>1 DEF One
<1>10. Cardinality(R \ {t}) = Cardinality(R) - One(t \in R)
  <2>1. Cardinality(R \ {t}) = IF t \in R THEN Cardinality(R) - 1 ELSE Cardinality(R)
    BY <1>2, FS_RemoveElement
  <2> QED
    BY <1>8, <2>1 DEF One
<1>11. Cardinality(R) = Cardinality(S) + One(t \in R) - One(t \in S)
  BY <1>4, <1>8, <1>9, <1>10 DEF One
<1>12. t \in S => Cardinality(S) > 0
  BY <1>2, <1>8, FS_EmptySet
<1> QED
  BY <1>5, <1>6, <1>7, <1>8, <1>11, <1>12 DEF One

(* Where the thread is whose stack changed. *)
LEMMA GoesAt ==
  ASSUME Shape, NEW t \in Threads, stack[t] # <<>>, NEW f \in Frame1, Goes(t, f), NEW label
  PROVE  /\ At(t, label)' <=> f.at = label
         /\ At(t, label) <=> Top(t).at = label
         /\ \A u \in Threads : u # t => stack'[u] = stack[u]
BY GoesStack DEF At, Top

LEMMA ReturnsAt ==
  ASSUME Shape, NEW t \in Threads, stack[t] # <<>>, Returns(t),
         NEW label \in {"borrow", "pop", "signal"}
  PROVE  /\ ~At(t, label)'
         /\ At(t, label) <=> Top(t).at = label
         /\ \A u \in Threads : u # t => stack'[u] = stack[u]
<1>1. /\ stack'[t] \in Seq(Frame1)
      /\ DOMAIN stack'[t] = 1 .. Len(stack[t]) - 1
      /\ \A i \in 1 .. Len(stack[t]) - 1 : stack'[t][i] = stack[t][i + 1]
      /\ \A u \in Threads : u # t => stack'[u] = stack[u]
  BY ReturnsStack
<1>2. Len(stack[t]) \in Nat /\ DOMAIN stack[t] = 1..Len(stack[t])
  BY TopIsFirst
<1>3. ASSUME stack'[t] # <<>> PROVE Head(stack'[t]).at \in {"run", "loop"}
  <2>1. 1 \in 1 .. Len(stack[t]) - 1
    BY <1>1, <1>2, <1>3, LenProperties, EmptySeq
  <2>2. stack'[t][1] = stack[t][2] /\ 2 \in DOMAIN stack[t]
    BY <1>1, <1>2, <2>1
  <2> QED
    BY <1>1, <2>2 DEF Shape
<1> QED
  BY <1>1, <1>3 DEF At, Top

LEMMA EntersAt ==
  ASSUME Shape, NEW t \in Threads, stack[t] # <<>>, NEW k \in Tasks, NEW g \in Frame1,
         stack' = [stack EXCEPT ![t] = <<Frame(k), g>> \o Tail(@)],
         NEW label \in {"borrow", "pop", "signal"}
  PROVE  /\ ~At(t, label)'
         /\ At(t, label) <=> Top(t).at = label
         /\ \A u \in Threads : u # t => stack'[u] = stack[u]
<1>1. Frame(k) \in Frame1 /\ Frame(k).at = "run"
  BY DEF Frame, Frame1, Bodies, Labels, AddedTo
<1>2. /\ stack'[t] \in Seq(Frame1) /\ stack'[t][1] = Frame(k)
      /\ \A u \in Threads : u # t => stack'[u] = stack[u]
  BY <1>1, EntersStack
<1> QED
  BY <1>1, <1>2 DEF At, Top
-----------------------------------------------------------------------------
(* The inductive invariant. A task is at one place of its way; it is       *)
(* anywhere on it exactly when whoever adds it has started; and fPending   *)
(* counts the tasks of a group on their way.                               *)
Through(b) == b \in ran \/ b \in Clients \ Occupied
Out(b) == {k \in AddedTo(b) \ Loose : k \in InBatch \union Listed \union Occupied}

OnePlace ==
  /\ ToAdd \intersect InBatch = {}
  /\ Listed \intersect Occupied = {} /\ Listed \intersect ran = {}
  /\ (ToAdd \union InBatch) \intersect (Listed \union Occupied \union ran) = {}
  /\ Occupied \intersect ran = Counting

OnItsWay == \A k \in Tasks :
  k \in ToAdd \union InBatch \union Listed \union Occupied \union ran
    <=> AddedBy[k] \in Clients \union Occupied \union ran

Awaited ==
  /\ \A b \in Bodies : Through(b) => AddedTo(b) \ Loose \subseteq ran
  /\ \A k \in Counting : ~Through(AddedBy[k])

Pended == \A b \in Bodies : fPending[b] = Cardinality(Out(b))

Enough == Len(fWork) = tokens + Num("pop") + Num("signal")

Basics ==
  /\ fifo \in BOOLEAN /\ tokens \in Nat /\ ran \subseteq Tasks
  /\ nulls \in 0..Cardinality(Workers)
  /\ fPending \in [Bodies -> Int]

PoolInv ==
  /\ Shape /\ ListOK /\ Basics
  /\ OnePlace /\ OnItsWay /\ Awaited /\ Pended
  /\ Enough
-----------------------------------------------------------------------------
(* The part of the invariant that is about the four sets.                  *)
Ways == OnePlace /\ OnItsWay /\ Awaited

Kept == Moves(Occupied, Counting, ToAdd, InBatch) /\ Listed' = Listed /\ ran' = ran

LEMMA SetsOfTasks ==
  /\ ToAdd \subseteq Tasks /\ InBatch \subseteq Tasks /\ Listed \subseteq Tasks
  /\ Occupied \subseteq Bodies /\ Counting \subseteq Occupied
  /\ Null \notin Bodies
BY PoolAssumption DEF ToAdd, InBatch, Listed, Occupied, Counting, Bodies

LEMMA CountingTasks == Shape => Counting \subseteq Tasks \ Loose
BY DEF Shape, GoodFrame, Counting

LEMMA KeptWays == Ways /\ Kept => Ways'
BY DEF Ways, Kept, Moves, OnePlace, OnItsWay, Awaited, Through

LEMMA OutFinite ==
  ASSUME NEW b
  PROVE  IsFiniteSet(Out(b)) /\ Cardinality(Out(b)) \in Nat
<1>1. IsFiniteSet(Out(b))
  BY Out(b) \in SUBSET Tasks, PoolAssumption, FS_Subset DEF Out, AddedTo
<1> QED
  BY <1>1, FS_CardinalityType

LEMMA OutKept ==
  ASSUME Pended, fPending' = fPending,
         \A k \in Tasks \ Loose : k \in (InBatch \union Listed \union Occupied)'
                                    <=> k \in InBatch \union Listed \union Occupied
  PROVE  Pended'
<1>1. \A b : Out(b)' = Out(b)
  BY DEF Out, AddedTo
<1> QED
  BY <1>1 DEF Pended

(* The number of threads at a label, and the balance, after each change.   *)
LEMMA Balance ==
  ASSUME PoolInv, NEW t \in Threads, \A u \in Threads : u # t => stack'[u] = stack[u],
         NEW a \in Int, NEW b \in Int,
         Len(fWork') = Len(fWork) + a, tokens' = tokens + b,
         a = b + (One(At(t, "pop")') - One(At(t, "pop")))
               + (One(At(t, "signal")') - One(At(t, "signal")))
  PROVE  Enough'
<1>1. /\ Num("pop") \in Nat
      /\ Num("pop")' = Num("pop") + One(At(t, "pop")') - One(At(t, "pop"))
  BY NumMoves
<1>2. /\ Num("signal") \in Nat
      /\ Num("signal")' = Num("signal") + One(At(t, "signal")') - One(At(t, "signal"))
  BY NumMoves
<1>3. Len(fWork) \in Nat /\ tokens \in Nat
  BY LenProperties DEF PoolInv, ListOK, Basics
<1>4. /\ One(At(t, "pop")') \in Int /\ One(At(t, "pop")) \in Int
      /\ One(At(t, "signal")') \in Int /\ One(At(t, "signal")) \in Int
  BY DEF One
<1>5. Len(fWork) = tokens + Num("pop") + Num("signal")
  BY DEF PoolInv, Enough
<1> DEFINE popAfter == One(At(t, "pop")')
           popBefore == One(At(t, "pop"))
           signalAfter == One(At(t, "signal")')
           signalBefore == One(At(t, "signal"))
           pop == Num("pop")
           popNext == Num("pop")'
           signal == Num("signal")
           signalNext == Num("signal")'
<1>6. /\ popAfter \in Int /\ popBefore \in Int
      /\ signalAfter \in Int /\ signalBefore \in Int
  BY <1>4
<1>7. popNext = pop + popAfter - popBefore /\ pop \in Nat
  BY <1>1
<1>8. signalNext = signal + signalAfter - signalBefore /\ signal \in Nat
  BY <1>2
<1>9. a = b + (popAfter - popBefore) + (signalAfter - signalBefore)
  OBVIOUS
<1>10. Len(fWork) = tokens + pop + signal
  BY <1>5
<1>11. Len(fWork') = tokens' + popNext + signalNext <=> Enough'
  BY DEF Enough
<1> HIDE DEF popAfter, popBefore, signalAfter, signalBefore, pop, popNext, signal, signalNext
<1> QED
  BY <1>3, <1>6, <1>7, <1>8, <1>9, <1>10, <1>11

(* The place of a thread's frame in the four sets.                         *)
LEMMA TopKnown ==
  ASSUME Shape, NEW t \in Threads, stack[t] # <<>>
  PROVE  /\ GoodFrame(Top(t))
         /\ Top(t).body # Null => Top(t).body \in Occupied
         /\ Top(t).todo \subseteq ToAdd /\ Top(t).batch \subseteq InBatch
         /\ Top(t).at = "count" => Top(t).body \in Counting
         /\ Top(t).body # Null /\ Top(t).at # "count" => Top(t).body \notin Counting
         /\ \A k \in ToAdd : AddedBy[k] = Top(t).body => k \in Top(t).todo
         /\ \A k \in InBatch : AddedBy[k] = Top(t).body => k \in Top(t).batch
<1>1. 1 \in DOMAIN stack[t] /\ Top(t) = stack[t][1] /\ GoodFrame(Top(t))
  BY TopIsFirst
<1>2. Top(t).body # Null => Top(t).body \in Bodies
  BY <1>1 DEF GoodFrame, Frame1, Bodies
<1>3. Top(t).body # Null => Top(t).body \in Occupied
  BY <1>1, <1>2 DEF Occupied
<1>4. Top(t).todo \subseteq ToAdd /\ Top(t).batch \subseteq InBatch
  BY <1>1 DEF GoodFrame, Frame1, ToAdd, InBatch
<1>5. Top(t).at = "count" => Top(t).body \in Counting
  BY <1>1 DEF GoodFrame, Counting, Bodies
<1>6. Top(t).body # Null /\ Top(t).at # "count" => Top(t).body \notin Counting
  BY <1>1, OneFrame DEF Counting
<1>7. ASSUME NEW k \in Tasks, NEW u \in Threads, NEW i \in DOMAIN stack[u],
             k \in stack[u][i].todo \union stack[u][i].batch, AddedBy[k] = Top(t).body
      PROVE  stack[u][i] = Top(t)
  <2>1. GoodFrame(stack[u][i])
    BY DEF Shape
  <2>2. stack[u][i].body = AddedBy[k] /\ AddedBy[k] # Null
    BY <1>7, <2>1, PoolAssumption DEF GoodFrame, AddedTo
  <2>3. u = t /\ i = 1
    BY <1>1, <1>7, <2>2, OneFrame
  <2> QED
    BY <1>1, <2>3
<1>8. \A k \in ToAdd : AddedBy[k] = Top(t).body => k \in Top(t).todo
  BY <1>7 DEF ToAdd
<1>9. \A k \in InBatch : AddedBy[k] = Top(t).body => k \in Top(t).batch
  BY <1>7 DEF InBatch
<1> QED
  BY <1>1, <1>3, <1>4, <1>5, <1>6, <1>8, <1>9

(* What wait() finds when it returns: nothing of the group is on its way,  *)
(* so all of it has run.                                                   *)
LEMMA DoneMeansRun ==
  ASSUME PoolInv, NEW t \in Threads, Done(t)
  PROVE  /\ AddedTo(Top(t).body) \ Loose \subseteq ran
         /\ \A k \in Counting : AddedBy[k] # Top(t).body
         /\ Top(t).body \in Bodies /\ Top(t).at = "run"
<1>1. stack[t] # <<>> /\ Top(t).at = "run" /\ Top(t).todo = {} /\ Top(t).batch = {}
      /\ fPending[Top(t).body] = 0
  BY DEF Done, AddedAll, At, Top
<1>2. /\ GoodFrame(Top(t))
      /\ Top(t).body # Null => Top(t).body \in Occupied
      /\ \A k \in ToAdd : AddedBy[k] = Top(t).body => k \in Top(t).todo
      /\ \A k \in InBatch : AddedBy[k] = Top(t).body => k \in Top(t).batch
  BY <1>1, TopKnown DEF PoolInv
<1>3. Top(t).body \in Bodies /\ Top(t).body \in Occupied
  BY <1>1, <1>2, SetsOfTasks DEF GoodFrame
<1>4. Out(Top(t).body) = {}
  <2>1. Cardinality(Out(Top(t).body)) = 0
    BY <1>1, <1>3 DEF PoolInv, Pended
  <2> QED
    BY <2>1, OutFinite, FS_EmptySet
<1>5. ASSUME NEW k \in Tasks, AddedBy[k] = Top(t).body
      PROVE  k \in Listed \union Occupied \union ran
  BY <1>1, <1>2, <1>3, <1>5 DEF PoolInv, OnItsWay
<1>6. AddedTo(Top(t).body) \ Loose \subseteq ran
  BY <1>4, <1>5 DEF Out, AddedTo
<1>7. \A k \in Counting : AddedBy[k] # Top(t).body
  <2> SUFFICES ASSUME NEW k \in Counting, AddedBy[k] = Top(t).body PROVE FALSE
    OBVIOUS
  <2>1. k \in Tasks \ Loose /\ k \in Occupied
    BY CountingTasks, SetsOfTasks DEF PoolInv
  <2>2. k \in Out(Top(t).body)
    BY <2>1 DEF Out, AddedTo
  <2> QED
    BY <1>4, <2>2
<1> QED
  BY <1>1, <1>3, <1>6, <1>7
-----------------------------------------------------------------------------
(* One lemma per action: the invariant is kept.                            *)
LEMMA AtTop ==
  ASSUME NEW t, NEW label, At(t, label)
  PROVE  stack[t] # <<>> /\ Top(t).at = label
BY DEF At, Top

LEMMA AddKeeps ==
  ASSUME PoolInv, NEW t \in Threads, Add(t)
  PROVE  PoolInv'
<1>1. PICK batch \in {{task} : task \in Top(t).todo} \union {Top(t).todo} :
        /\ fPending' = [fPending EXCEPT ![Top(t).body] = @ + Cardinality(batch \ Loose)]
        /\ Goes(t, [Top(t) EXCEPT !.todo = @ \ batch, !.batch = batch])
  BY DEF Add
<1> DEFINE b == Top(t).body
           f == [Top(t) EXCEPT !.todo = @ \ batch, !.batch = batch]
<1>2. /\ stack[t] # <<>> /\ Top(t).at = "run" /\ Top(t).batch = {} /\ batch \subseteq Top(t).todo
      /\ UNCHANGED <<fifo, fWork, tokens, nulls, ran>>
  BY <1>1, AtTop DEF Add
<1>3. /\ GoodFrame(Top(t)) /\ b \in Bodies
      /\ Top(t).todo \subseteq ToAdd /\ Top(t).todo \subseteq AddedTo(b)
  BY <1>2, TopKnown DEF PoolInv, GoodFrame, Frame1, Bodies
<1>4. f \in Frame1 /\ f.body = b /\ f.at = "run" /\ f.todo = Top(t).todo \ batch /\ f.batch = batch
  BY <1>2, <1>3 DEF GoodFrame, Frame1
<1>5. GoodFrame(f)
  BY <1>2, <1>3, <1>4 DEF GoodFrame
<1> HIDE DEF f
<1>6. /\ Shape'
      /\ Moves(Occupied, Counting, ToAdd \ batch, InBatch \union batch)
  <2>1. /\ Shape'
        /\ Moves(Occupied, Counting \union {x \in {f.body} : f.at = "count"},
                 (ToAdd \ Top(t).todo) \union f.todo, (InBatch \ Top(t).batch) \union f.batch)
    BY <1>1, <1>2, <1>4, <1>5, GoesMoves DEF PoolInv, f
  <2>2. /\ Counting \union {x \in {f.body} : f.at = "count"} = Counting
        /\ (ToAdd \ Top(t).todo) \union f.todo = ToAdd \ batch
        /\ (InBatch \ Top(t).batch) \union f.batch = InBatch \union batch
    BY <1>2, <1>3, <1>4
  <2> QED
    BY <2>1, <2>2
<1>7. Listed' = Listed /\ ran' = ran
  BY <1>2 DEF Listed
<1>8. OnePlace' /\ OnItsWay' /\ Awaited'
  BY <1>2, <1>3, <1>6, <1>7 DEF PoolInv, Moves, OnePlace, OnItsWay, Awaited, Through
<1>9. Pended'
  <2> SUFFICES ASSUME NEW x \in Bodies PROVE fPending'[x] = Cardinality(Out(x)')
    BY DEF Pended
  <2>1. fPending[x] = Cardinality(Out(x)) /\ fPending \in [Bodies -> Int]
    BY DEF PoolInv, Pended, Basics
  <2>2. CASE x # b
    <3>1. Out(x)' = Out(x)
      BY <1>2, <1>3, <1>6, <1>7, <2>2 DEF Out, AddedTo, Moves
    <3>2. fPending'[x] = fPending[x]
      BY <1>1, <2>1, <2>2
    <3> QED
      BY <2>1, <3>1, <3>2
  <2>3. CASE x = b
    <3>1. Out(x)' = Out(x) \union (batch \ Loose)
      BY <1>2, <1>3, <1>6, <1>7, <2>3 DEF Out, AddedTo, Moves
    <3>2. Out(x) \intersect (batch \ Loose) = {}
      BY <1>2, <1>3 DEF PoolInv, OnePlace, Out
    <3>3. IsFiniteSet(batch \ Loose) /\ Cardinality(batch \ Loose) \in Nat
      <4>1. batch \ Loose \in SUBSET Tasks
        BY <1>2, <1>3 DEF AddedTo
      <4> QED
        BY <4>1, PoolAssumption, FS_Subset, FS_CardinalityType
    <3>4. IsFiniteSet(Out(x)) /\ Cardinality(Out(x)) \in Nat
      BY OutFinite
    <3> DEFINE more == batch \ Loose
               before == Out(x)
    <3>5. Cardinality(before \intersect more) = 0
      BY <3>2, FS_EmptySet
    <3> HIDE DEF more, before
    <3>6. Cardinality(before \union more)
            = Cardinality(before) + Cardinality(more) - Cardinality(before \intersect more)
      BY <3>3, <3>4, FS_Union DEF more, before
    <3>7. Cardinality(before) \in Nat /\ Cardinality(more) \in Nat
      BY <3>3, <3>4 DEF more, before
    <3>8. Cardinality(before \union more) = Cardinality(before) + Cardinality(more)
      BY <3>5, <3>6, <3>7
    <3>9. fPending'[x] = fPending[x] + Cardinality(more)
      BY <1>1, <2>1, <2>3 DEF more
    <3> QED
      BY <2>1, <3>1, <3>8, <3>9 DEF more, before
  <2> QED
    BY <2>2, <2>3
<1>10. Enough'
  <2>1. /\ \A u \in Threads : u # t => stack'[u] = stack[u]
        /\ ~At(t, "pop") /\ ~At(t, "signal") /\ ~At(t, "pop")' /\ ~At(t, "signal")'
    BY <1>1, <1>2, <1>4, GoesAt DEF PoolInv, f
  <2>2. Len(fWork') = Len(fWork) + 0 /\ tokens' = tokens + 0
    BY <1>2, LenProperties DEF PoolInv, ListOK, Basics
  <2>3. 0 = 0 + (One(At(t, "pop")') - One(At(t, "pop")))
              + (One(At(t, "signal")') - One(At(t, "signal")))
    BY <2>1 DEF One
  <2> QED
    BY <2>1, <2>2, <2>3, Balance
<1>11. Basics' /\ ListOK'
  <2>1. fPending' \in [Bodies -> Int]
    <3>1. Cardinality(batch \ Loose) \in Int
      <4>1. batch \ Loose \in SUBSET Tasks
        BY <1>2, <1>3 DEF AddedTo
      <4> QED
        BY <4>1, PoolAssumption, FS_Subset, FS_CardinalityType
    <3> QED
      BY <1>1, <1>3, <3>1 DEF PoolInv, Basics
  <2> QED
    BY <1>2, <2>1 DEF PoolInv, Basics, ListOK
<1> QED
  BY <1>6, <1>8, <1>9, <1>10, <1>11 DEF PoolInv

LEMMA PushKeeps ==
  ASSUME PoolInv, NEW t \in Threads, Push(t)
  PROVE  PoolInv'
<1>1. PICK k \in Top(t).batch :
        /\ fWork' = Append(fWork, k)
        /\ Goes(t, [Top(t) EXCEPT !.batch = @ \ {k}, !.at = "signal"])
  BY DEF Push
<1> DEFINE f == [Top(t) EXCEPT !.batch = @ \ {k}, !.at = "signal"]
<1>2. /\ stack[t] # <<>> /\ Top(t).at = "run"
      /\ UNCHANGED <<fifo, tokens, fPending, nulls, ran>>
  BY AtTop DEF Push
<1>3. GoodFrame(Top(t)) /\ k \in InBatch /\ k \in Tasks
  BY <1>2, TopKnown, SetsOfTasks DEF PoolInv
<1>4. /\ f \in Frame1 /\ f.body = Top(t).body /\ f.at = "signal" /\ f.todo = Top(t).todo
      /\ f.batch = Top(t).batch \ {k}
  BY <1>2, <1>3 DEF GoodFrame, Frame1, Labels
<1>5. GoodFrame(f)
  BY <1>2, <1>3, <1>4 DEF GoodFrame
<1> HIDE DEF f
<1>6. Shape' /\ Moves(Occupied, Counting, ToAdd, InBatch \ {k})
  <2>1. /\ Shape'
        /\ Moves(Occupied, Counting \union {x \in {f.body} : f.at = "count"},
                 (ToAdd \ Top(t).todo) \union f.todo, (InBatch \ Top(t).batch) \union f.batch)
    BY <1>1, <1>2, <1>4, <1>5, GoesMoves DEF PoolInv, f
  <2>2. Top(t).todo \subseteq ToAdd /\ Top(t).batch \subseteq InBatch
    BY <1>2, TopKnown DEF PoolInv
  <2>3. /\ Counting \union {x \in {f.body} : f.at = "count"} = Counting
        /\ (ToAdd \ Top(t).todo) \union f.todo = ToAdd
        /\ (InBatch \ Top(t).batch) \union f.batch = InBatch \ {k}
    BY <1>1, <1>4, <2>2
  <2> QED
    BY <2>1, <2>3
<1>7. ListOK' /\ Len(fWork') = Len(fWork) + 1 /\ Listed' = Listed \union {k}
  <2>1. k \notin Listed /\ k # Null
    BY <1>3, PoolAssumption DEF PoolInv, OnePlace
  <2> QED
    BY <1>1, <1>3, <2>1, AppendList DEF PoolInv
<1>8. OnePlace' /\ OnItsWay' /\ Awaited'
  BY <1>2, <1>3, <1>6, <1>7 DEF PoolInv, Moves, OnePlace, OnItsWay, Awaited, Through
<1>9. Pended'
  BY <1>2, <1>3, <1>6, <1>7, OutKept DEF PoolInv, Moves
<1>10. Enough'
  <2>1. /\ \A u \in Threads : u # t => stack'[u] = stack[u]
        /\ ~At(t, "pop") /\ ~At(t, "signal") /\ ~At(t, "pop")' /\ At(t, "signal")'
    BY <1>1, <1>2, <1>4, GoesAt DEF PoolInv, f
  <2>2. tokens' = tokens + 0
    BY <1>2 DEF PoolInv, Basics
  <2> QED
    BY <1>7, <2>1, <2>2, Balance DEF One
<1>11. Basics'
  BY <1>2 DEF PoolInv, Basics
<1> QED
  BY <1>6, <1>7, <1>8, <1>9, <1>10, <1>11 DEF PoolInv

(* A frame that goes to another label and is otherwise what it was. *)
LEMMA LabelMoves ==
  ASSUME PoolInv, NEW t \in Threads, stack[t] # <<>>, Top(t).at # "count",
         NEW label \in Labels \ {"count"},
         label = "loop" <=> Top(t).body = Null /\ label # "pop",
         label \in {"borrow", "pop"} => Top(t).todo = {} /\ Top(t).batch = {},
         Goes(t, [Top(t) EXCEPT !.at = label])
  PROVE  /\ Shape' /\ Moves(Occupied, Counting, ToAdd, InBatch)
         /\ \A u \in Threads : u # t => stack'[u] = stack[u]
         /\ \A l : (At(t, l)' <=> l = label) /\ (At(t, l) <=> Top(t).at = l)
<1> DEFINE f == [Top(t) EXCEPT !.at = label]
<1>1. /\ GoodFrame(Top(t)) /\ Top(t).todo \subseteq ToAdd /\ Top(t).batch \subseteq InBatch
  BY TopKnown DEF PoolInv
<1>2. /\ f \in Frame1 /\ f.body = Top(t).body /\ f.at = label /\ f.todo = Top(t).todo
      /\ f.batch = Top(t).batch
  BY <1>1 DEF GoodFrame, Frame1
<1>3. GoodFrame(f)
  BY <1>1, <1>2 DEF GoodFrame, Labels
<1> HIDE DEF f
<1>4. /\ Shape'
      /\ Moves(Occupied, Counting \union {x \in {f.body} : f.at = "count"},
               (ToAdd \ Top(t).todo) \union f.todo, (InBatch \ Top(t).batch) \union f.batch)
  BY <1>2, <1>3, GoesMoves DEF PoolInv, f
<1>5. /\ Counting \union {x \in {f.body} : f.at = "count"} = Counting
      /\ (ToAdd \ Top(t).todo) \union f.todo = ToAdd
      /\ (InBatch \ Top(t).batch) \union f.batch = InBatch
  BY <1>1, <1>2
<1>6. \A l : (At(t, l)' <=> l = label) /\ (At(t, l) <=> Top(t).at = l)
  BY <1>2, GoesAt DEF PoolInv, f
<1>7. \A u \in Threads : u # t => stack'[u] = stack[u]
  BY DEF Goes, PoolInv, Shape
<1> QED
  BY <1>4, <1>5, <1>6, <1>7

(* What the steps that only move tokens have in common. *)
LEMMA TokenKeeps ==
  ASSUME PoolInv, NEW t \in Threads, stack[t] # <<>>, NEW from, NEW label \in Labels \ {"count"},
         Top(t).at = from, from # "count",
         label = "loop" <=> Top(t).body = Null /\ label # "pop",
         label \in {"borrow", "pop"} => Top(t).todo = {} /\ Top(t).batch = {},
         Goes(t, [Top(t) EXCEPT !.at = label]),
         UNCHANGED <<fifo, fWork, fPending, nulls, ran>>,
         NEW b \in Int, tokens' = tokens + b, tokens' \in Nat,
         0 = b + (One(label = "pop") - One(from = "pop"))
               + (One(label = "signal") - One(from = "signal"))
  PROVE  PoolInv'
<1>1. /\ Shape' /\ Moves(Occupied, Counting, ToAdd, InBatch)
      /\ \A u \in Threads : u # t => stack'[u] = stack[u]
      /\ \A l : (At(t, l)' <=> l = label) /\ (At(t, l) <=> Top(t).at = l)
  BY LabelMoves
<1>2. Kept
  BY <1>1 DEF Kept, Listed
<1>3. OnePlace' /\ OnItsWay' /\ Awaited'
  BY <1>2, KeptWays DEF Ways, PoolInv
<1>4. Pended'
  BY <1>2, OutKept DEF PoolInv, Kept, Moves
<1>5. Enough'
  <2>1. Len(fWork') = Len(fWork) + 0
    BY LenProperties DEF PoolInv, ListOK
  <2>2. /\ One(At(t, "pop")') = One(label = "pop") /\ One(At(t, "pop")) = One(from = "pop")
        /\ One(At(t, "signal")') = One(label = "signal")
        /\ One(At(t, "signal")) = One(from = "signal")
    BY <1>1 DEF One
  <2>3. 0 = b + (One(At(t, "pop")') - One(At(t, "pop")))
              + (One(At(t, "signal")') - One(At(t, "signal")))
    BY <2>2
  <2>4. \A u \in Threads : u # t => stack'[u] = stack[u]
    BY <1>1
  <2>5. PoolInv /\ t \in Threads /\ b \in Int /\ 0 \in Int /\ tokens' = tokens + b
    OBVIOUS
  <2> QED
    BY ONLY <2>1, <2>3, <2>4, <2>5, Balance
<1>6. Basics' /\ ListOK'
  BY DEF PoolInv, Basics, ListOK
<1> QED
  BY <1>1, <1>3, <1>4, <1>5, <1>6 DEF PoolInv

LEMMA SignalKeeps ==
  ASSUME PoolInv, NEW t \in Threads, Signal(t)
  PROVE  PoolInv'
<1>1. stack[t] # <<>> /\ Top(t).at = "signal" /\ tokens' = tokens + 1
      /\ Goes(t, [Top(t) EXCEPT !.at = "run"])
      /\ UNCHANGED <<fifo, fWork, fPending, nulls, ran>>
  BY AtTop DEF Signal, fWorkAvailable!Put
<1>2. Top(t).body # Null
  BY <1>1, TopKnown DEF PoolInv, GoodFrame
<1>3. tokens' \in Nat
  BY <1>1 DEF PoolInv, Basics
<1>4. 0 = 1 + (One("run" = "pop") - One("signal" = "pop"))
            + (One("run" = "signal") - One("signal" = "signal"))
  BY DEF One
<1>5. "run" \in Labels \ {"count"}
  BY DEF Labels
<1> QED
  BY <1>1, <1>2, <1>3, <1>4, <1>5, TokenKeeps

LEMMA NotDoneKeeps ==
  ASSUME PoolInv, NEW t \in Threads, NotDone(t)
  PROVE  PoolInv'
<1>1. /\ stack[t] # <<>> /\ Top(t).at = "run" /\ Top(t).todo = {} /\ Top(t).batch = {}
      /\ Goes(t, [Top(t) EXCEPT !.at = "borrow"])
      /\ UNCHANGED <<fifo, fWork, tokens, fPending, nulls, ran>>
  BY AtTop DEF NotDone, AddedAll
<1>2. Top(t).body # Null
  BY <1>1, TopKnown DEF PoolInv, GoodFrame
<1>3. tokens' = tokens + 0 /\ tokens' \in Nat
  BY <1>1 DEF PoolInv, Basics
<1>4. 0 = 0 + (One("borrow" = "pop") - One("run" = "pop"))
            + (One("borrow" = "signal") - One("run" = "signal"))
  BY DEF One
<1>5. "borrow" \in Labels \ {"count"}
  BY DEF Labels
<1> QED
  BY <1>1, <1>2, <1>3, <1>4, <1>5, TokenKeeps

(* A thread at borrow() has a frame of its own that is through with add(). *)
LEMMA AtBorrow ==
  ASSUME PoolInv, NEW t \in Threads, At(t, "borrow")
  PROVE  /\ stack[t] # <<>> /\ Top(t).at = "borrow" /\ Top(t).body # Null
         /\ Top(t).todo = {} /\ Top(t).batch = {}
<1>1. stack[t] # <<>> /\ Top(t).at = "borrow"
  BY AtTop
<1>2. GoodFrame(Top(t))
  BY <1>1, TopKnown DEF PoolInv
<1> QED
  BY <1>1, <1>2 DEF GoodFrame

LEMMA BorrowKeeps ==
  ASSUME PoolInv, NEW t \in Threads, Borrow(t)
  PROVE  PoolInv'
<1>1. /\ stack[t] # <<>> /\ Top(t).at = "borrow" /\ Top(t).body # Null
      /\ Top(t).todo = {} /\ Top(t).batch = {}
  BY AtBorrow DEF Borrow
<1>2. /\ tokens' = tokens + (-1) /\ tokens' \in Nat
      /\ Goes(t, [Top(t) EXCEPT !.at = "pop"])
      /\ UNCHANGED <<fifo, fWork, fPending, nulls, ran>>
  BY DEF Borrow, fWorkAvailable!Take, PoolInv, Basics
<1>3. 0 = (-1) + (One("pop" = "pop") - One("borrow" = "pop"))
            + (One("pop" = "signal") - One("borrow" = "signal"))
  BY DEF One
<1>4. "pop" \in Labels \ {"count"}
  BY DEF Labels
<1> QED
  BY <1>1, <1>2, <1>3, <1>4, TokenKeeps

LEMMA BorrowNothingKeeps ==
  ASSUME PoolInv, NEW t \in Threads, BorrowNothing(t)
  PROVE  PoolInv'
<1>1. stack[t] # <<>> /\ Top(t).at = "borrow" /\ Top(t).body # Null
  BY AtBorrow DEF BorrowNothing
<1>2. /\ tokens' = tokens + 0 /\ tokens' \in Nat
      /\ Goes(t, [Top(t) EXCEPT !.at = "run"])
      /\ UNCHANGED <<fifo, fWork, fPending, nulls, ran>>
  BY DEF BorrowNothing, PoolInv, Basics
<1>3. 0 = 0 + (One("run" = "pop") - One("borrow" = "pop"))
            + (One("run" = "signal") - One("borrow" = "signal"))
  BY DEF One
<1>4. "run" \in Labels \ {"count"}
  BY DEF Labels
<1> QED
  BY <1>1, <1>2, <1>3, <1>4, TokenKeeps

LEMMA NothingKeeps ==
  ASSUME PoolInv, UNCHANGED <<fifo, fWork, tokens, fPending, stack, nulls, ran>>
  PROVE  PoolInv'
<1>1. /\ Occupied' = Occupied /\ Counting' = Counting /\ ToAdd' = ToAdd /\ InBatch' = InBatch
      /\ Listed' = Listed
  BY DEF Occupied, Counting, ToAdd, InBatch, Listed
<1>2. Kept
  BY <1>1 DEF Kept, Moves
<1>3. OnePlace' /\ OnItsWay' /\ Awaited'
  BY <1>2, KeptWays DEF Ways, PoolInv
<1>4. Pended'
  BY <1>1, OutKept DEF PoolInv
<1>5. Enough'
  BY DEF PoolInv, Enough, Num, At
<1>6. ListOK' /\ Basics'
  BY DEF PoolInv, ListOK, Basics
<1>7. Shape'
  <2>1. DOMAIN stack' = Threads /\ \A u \in Threads : stack'[u] \in Seq(Frame1)
    BY DEF PoolInv, Shape
  <2>2. \A u \in Threads : \A i \in DOMAIN stack'[u] :
          /\ GoodFrame(stack'[u][i])
          /\ i > 1 => stack'[u][i].at \in {"run", "loop"}
          /\ stack'[u][i].body \in Clients => stack'[u][i].body = u
    BY DEF PoolInv, Shape
  <2>3. \A u, v \in Threads : \A i \in DOMAIN stack'[u], j \in DOMAIN stack'[v] :
          stack'[u][i].body = stack'[v][j].body /\ stack'[u][i].body # Null => u = v /\ i = j
    BY DEF PoolInv, Shape
  <2> QED
    BY <2>1, <2>2, <2>3 DEF Shape, GoodFrame, Frame1, AddedTo, Labels
<1> QED
  BY <1>3, <1>4, <1>5, <1>6, <1>7 DEF PoolInv

LEMMA LoopWaitKeeps ==
  ASSUME PoolInv, NEW t \in Threads, LoopWait(t)
  PROVE  PoolInv'
<1>1. stack[t] # <<>> /\ Top(t).at = "loop" /\ UNCHANGED <<fifo, fWork, fPending, nulls, ran>>
  BY AtTop DEF LoopWait
<1>2. CASE fWorkAvailable!Block(t) /\ UNCHANGED stack
  BY <1>1, <1>2, NothingKeeps DEF fWorkAvailable!Block
<1>3. CASE (fWorkAvailable!Take(t) \/ fWorkAvailable!Wake(t))
           /\ Goes(t, [Top(t) EXCEPT !.at = "pop"])
  <2>1. tokens' = tokens + (-1) /\ tokens' \in Nat
    BY <1>3 DEF fWorkAvailable!Take, fWorkAvailable!Wake, PoolInv, Basics
  <2>2. Top(t).todo = {} /\ Top(t).batch = {}
    <3>1. Top(t).body = Null /\ GoodFrame(Top(t))
      BY <1>1, TopKnown DEF PoolInv, GoodFrame
    <3>2. AddedTo(Null) = {}
      BY PoolAssumption DEF AddedTo
    <3> QED
      BY <3>1, <3>2 DEF GoodFrame
  <2>3. 0 = (-1) + (One("pop" = "pop") - One("loop" = "pop"))
              + (One("pop" = "signal") - One("loop" = "signal"))
    BY DEF One
  <2>4. "pop" \in Labels \ {"count"}
    BY DEF Labels
  <2> QED
    BY <1>1, <1>3, <2>1, <2>2, <2>3, <2>4, TokenKeeps
<1> QED
  BY <1>2, <1>3 DEF LoopWait

LEMMA PopNullKeeps ==
  ASSUME PoolInv, NEW t \in Threads, Pop(t), Popped = Null
  PROVE  PoolInv'
<1>1. /\ stack[t] # <<>> /\ Top(t).at = "pop" /\ fWork # <<>>
      /\ fWork' = IF fifo THEN Tail(fWork) ELSE Front(fWork)
      /\ UNCHANGED <<fifo, tokens, fPending, nulls, ran>>
  BY AtTop DEF Pop
<1>2. ListOK' /\ Len(fWork') = Len(fWork) + (-1) /\ Listed' = Listed
  <2>1. ListOK' /\ Len(fWork') = Len(fWork) - 1 /\ Listed' = Listed \ {Null}
    BY <1>1, PopList DEF PoolInv
  <2>2. Null \notin Listed
    BY SetsOfTasks DEF Bodies
  <2>3. Len(fWork) \in Nat
    BY LenProperties DEF PoolInv, ListOK
  <2> QED
    BY <2>1, <2>2, <2>3
<1>3. Top(t).todo = {} /\ Top(t).batch = {}
  BY <1>1, TopKnown DEF PoolInv, GoodFrame
<1>4. /\ Shape' /\ Moves(Occupied, Counting, ToAdd, InBatch)
      /\ \A u \in Threads : u # t => stack'[u] = stack[u]
      /\ At(t, "pop") /\ ~At(t, "signal") /\ ~At(t, "pop")' /\ ~At(t, "signal")'
  <2>1. CASE Top(t).body = Null
    <3>1. Returns(t)
      BY <2>1 DEF Pop
    <3>2. /\ Shape'
          /\ Moves(Occupied \ {Null}, Counting \ {Null}, ToAdd, InBatch)
      BY <1>1, <1>3, <2>1, <3>1, ReturnsMoves DEF PoolInv
    <3>3. Occupied \ {Null} = Occupied /\ Counting \ {Null} = Counting
      BY SetsOfTasks
    <3> QED
      BY <1>1, <3>1, <3>2, <3>3, ReturnsAt DEF PoolInv
  <2>2. CASE Top(t).body # Null
    <3>1. Goes(t, [Top(t) EXCEPT !.at = "run"])
      BY <2>2 DEF Pop, Resumed
    <3>2. "run" \in Labels \ {"count"}
      BY DEF Labels
    <3>3. /\ Shape' /\ Moves(Occupied, Counting, ToAdd, InBatch)
          /\ \A u \in Threads : u # t => stack'[u] = stack[u]
          /\ \A l : (At(t, l)' <=> l = "run") /\ (At(t, l) <=> Top(t).at = l)
      BY <1>1, <2>2, <3>1, <3>2, LabelMoves
    <3> QED
      BY <1>1, <3>3
  <2> QED
    BY <2>1, <2>2
<1>5. Kept
  BY <1>1, <1>2, <1>4 DEF Kept
<1>6. OnePlace' /\ OnItsWay' /\ Awaited'
  BY <1>5, KeptWays DEF Ways, PoolInv
<1>7. Pended'
  BY <1>1, <1>5, OutKept DEF PoolInv, Kept, Moves
<1>8. Enough'
  <2>1. tokens' = tokens + 0 /\ (-1) \in Int
    BY <1>1 DEF PoolInv, Basics
  <2>2. -1 = 0 + (One(At(t, "pop")') - One(At(t, "pop")))
               + (One(At(t, "signal")') - One(At(t, "signal")))
    BY <1>4 DEF One
  <2> QED
    BY <1>2, <1>4, <2>1, <2>2, Balance
<1>9. Basics'
  BY <1>1 DEF PoolInv, Basics
<1> QED
  BY <1>2, <1>4, <1>6, <1>7, <1>8, <1>9 DEF PoolInv

LEMMA PopTaskKeeps ==
  ASSUME PoolInv, NEW t \in Threads, Pop(t), Popped # Null
  PROVE  PoolInv'
<1> DEFINE k == Popped
           g == Resumed(Top(t))
<1>1. /\ stack[t] # <<>> /\ Top(t).at = "pop" /\ fWork # <<>>
      /\ fWork' = IF fifo THEN Tail(fWork) ELSE Front(fWork)
      /\ stack' = [stack EXCEPT ![t] = <<Frame(k), g>> \o Tail(@)]
      /\ UNCHANGED <<fifo, tokens, fPending, nulls, ran>>
  BY AtTop DEF Pop, Top
<1>2. /\ ListOK' /\ Len(fWork') = Len(fWork) + (-1) /\ Listed' = Listed \ {k}
      /\ k \in Tasks /\ k \in Listed
  <2>1. /\ ListOK' /\ Len(fWork') = Len(fWork) - 1 /\ Listed' = Listed \ {k}
        /\ k \in Tasks \union {Null} /\ k \in Listed
    BY <1>1, PopList DEF PoolInv
  <2>2. Len(fWork) \in Nat
    BY LenProperties DEF PoolInv, ListOK
  <2> QED
    BY <2>1, <2>2
<1> HIDE DEF k
<1>3. k \notin Occupied /\ k \notin ran
  BY <1>2 DEF PoolInv, OnePlace
<1>4. GoodFrame(Top(t)) /\ Top(t).todo = {} /\ Top(t).batch = {}
  BY <1>1, TopKnown DEF PoolInv, GoodFrame
<1>5. /\ g \in Frame1 /\ g.body = Top(t).body /\ g.todo = {} /\ g.batch = {}
      /\ g.at = IF g.body = Null THEN "loop" ELSE "run"
  BY <1>4 DEF Resumed, GoodFrame, Frame1, Labels
<1>6. GoodFrame(g)
  BY <1>4, <1>5 DEF GoodFrame
<1> HIDE DEF g
<1>7. /\ Shape'
      /\ Moves(Occupied \union {k}, Counting, ToAdd \union AddedTo(k), InBatch)
  BY <1>1, <1>2, <1>3, <1>4, <1>5, <1>6, EntersMoves DEF PoolInv
<1>8. OnePlace'
  <2>1. ASSUME NEW j \in AddedTo(k)
        PROVE  j \notin ToAdd \union InBatch \union Listed \union Occupied \union ran
    <3>1. AddedBy[j] = k /\ j \in Tasks
      BY DEF AddedTo
    <3>2. k \notin Clients
      BY <1>2, PoolAssumption
    <3> QED
      BY <1>3, <3>1, <3>2 DEF PoolInv, OnItsWay
  <2> QED
    BY <1>1, <1>2, <1>3, <1>7, <2>1 DEF PoolInv, Moves, OnePlace
<1>9. OnItsWay'
  <2> SUFFICES ASSUME NEW j \in Tasks
               PROVE  j \in (ToAdd \union InBatch \union Listed \union Occupied \union ran)'
                        <=> AddedBy[j] \in Clients \union Occupied' \union ran'
    BY DEF OnItsWay
  <2>1. j \in (ToAdd \union InBatch \union Listed \union Occupied \union ran)'
          <=> j \in ToAdd \union InBatch \union Listed \union Occupied \union ran
              \/ AddedBy[j] = k
    BY <1>1, <1>2, <1>7 DEF Moves, AddedTo
  <2> QED
    BY <1>1, <1>7, <2>1 DEF PoolInv, OnItsWay, Moves
<1>10. Awaited'
  <2>1. \A b : Through(b)' <=> Through(b)
    BY <1>1, <1>2, <1>7, PoolAssumption DEF Through, Moves
  <2> QED
    BY <1>1, <1>7, <2>1 DEF PoolInv, Awaited, Moves
<1>11. Pended'
  BY <1>1, <1>2, <1>7, OutKept DEF PoolInv, Moves
<1>12. Enough'
  <2>1. /\ \A u \in Threads : u # t => stack'[u] = stack[u]
        /\ At(t, "pop") /\ ~At(t, "signal") /\ ~At(t, "pop")' /\ ~At(t, "signal")'
    BY <1>1, <1>2, <1>5, EntersAt DEF PoolInv
  <2>2. tokens' = tokens + 0 /\ (-1) \in Int
    BY <1>1 DEF PoolInv, Basics
  <2>3. -1 = 0 + (One(At(t, "pop")') - One(At(t, "pop")))
               + (One(At(t, "signal")') - One(At(t, "signal")))
    BY <2>1 DEF One
  <2> QED
    BY <1>2, <2>1, <2>2, <2>3, Balance
<1>13. Basics'
  BY <1>1 DEF PoolInv, Basics
<1> QED
  BY <1>2, <1>7, <1>8, <1>9, <1>10, <1>11, <1>12, <1>13 DEF PoolInv

(* A frame that leaves its stack without having anything left to add. *)
LEMMA LeavesBasics ==
  ASSUME PoolInv, NEW t \in Threads, stack[t] # <<>>, Top(t).at \in {"run", "count"},
         Top(t).todo = {}, Top(t).batch = {}, Returns(t),
         UNCHANGED <<fifo, fWork, tokens, nulls>>
  PROVE  /\ Shape' /\ ListOK' /\ Enough'
         /\ Moves(Occupied \ {Top(t).body}, Counting \ {Top(t).body}, ToAdd, InBatch)
         /\ Listed' = Listed
<1>1. /\ Shape'
      /\ Moves(Occupied \ {Top(t).body}, Counting \ {Top(t).body}, ToAdd, InBatch)
  BY ReturnsMoves DEF PoolInv
<1>2. Enough'
  <2>1. /\ \A u \in Threads : u # t => stack'[u] = stack[u]
        /\ ~At(t, "pop") /\ ~At(t, "signal") /\ ~At(t, "pop")' /\ ~At(t, "signal")'
    BY ReturnsAt DEF PoolInv
  <2>2. Len(fWork') = Len(fWork) + 0 /\ tokens' = tokens + 0
    BY LenProperties DEF PoolInv, ListOK, Basics
  <2>3. 0 = 0 + (One(At(t, "pop")') - One(At(t, "pop")))
              + (One(At(t, "signal")') - One(At(t, "signal")))
    BY <2>1 DEF One
  <2>4. PoolInv /\ t \in Threads /\ 0 \in Int
    OBVIOUS
  <2> QED
    BY ONLY <2>1, <2>2, <2>3, <2>4, Balance
<1> QED
  BY <1>1, <1>2 DEF PoolInv, ListOK, Listed

LEMMA ReturnKeeps ==
  ASSUME PoolInv, NEW t \in Threads, Return(t)
  PROVE  PoolInv'
<1>0. PICK k \in Tasks : k = Top(t).body
  BY DEF Return
<1>1. /\ stack[t] # <<>> /\ Top(t).at = "run" /\ Top(t).todo = {} /\ Top(t).batch = {}
      /\ k \in Tasks /\ ran' = ran \union {k}
      /\ UNCHANGED <<fifo, fWork, tokens, fPending, nulls>>
  BY <1>0, AtTop DEF Return, Done, AddedAll
<1>2. /\ k \in Occupied /\ k \notin Counting /\ GoodFrame(Top(t))
  <2>1. k # Null
    BY <1>1, PoolAssumption
  <2> QED
    BY <1>0, <1>1, <2>1, TopKnown DEF PoolInv
<1>3. /\ AddedTo(k) \ Loose \subseteq ran
      /\ \A j \in Counting : AddedBy[j] # k
  BY <1>0, DoneMeansRun DEF Return
<1>4. k \notin ran
  BY <1>2 DEF PoolInv, OnePlace
<1>5. ASSUME k \in Tasks \ Loose PROVE ~Through(AddedBy[k])
  <2>1. AddedBy[k] \in Bodies /\ k \in AddedTo(AddedBy[k])
    BY <1>1, PoolAssumption DEF Bodies, AddedTo
  <2> QED
    BY <1>4, <1>5, <2>1 DEF PoolInv, Awaited
<1>6. \A b \in Bodies : b # k => (b \in ran' \/ b \in Clients \ Occupied <=> Through(b))
  BY <1>1 DEF Through
<1>7. Basics'
  BY <1>1 DEF PoolInv, Basics
<1>8. CASE k \in Loose
  <2>1. Returns(t)
    BY <1>0, <1>8 DEF Return
  <2>2. /\ Shape' /\ ListOK' /\ Enough' /\ Listed' = Listed
        /\ Moves(Occupied \ {k}, Counting \ {k}, ToAdd, InBatch)
    BY <1>0, <1>1, <2>1, LeavesBasics
  <2>3. OnePlace' /\ OnItsWay'
    BY <1>1, <1>2, <1>4, <2>2 DEF PoolInv, OnePlace, OnItsWay, Moves
  <2>4. Awaited'
    <3>1. \A b \in Bodies : b # k => (Through(b)' <=> Through(b))
      BY <1>1, <2>2, PoolAssumption DEF Through, Moves
    <3>2. \A j \in Counting : AddedBy[j] \in Bodies /\ AddedBy[j] # k
      BY <1>3, CountingTasks, PoolAssumption DEF PoolInv, Bodies
    <3>3. \A b \in Bodies : Through(b)' => AddedTo(b) \ Loose \subseteq ran'
      BY <1>1, <1>3, <3>1 DEF PoolInv, Awaited
    <3>4. \A j \in Counting' : ~Through(AddedBy[j])'
      BY <2>2, <3>1, <3>2 DEF PoolInv, Awaited, Moves
    <3> QED
      BY <3>3, <3>4 DEF Awaited
  <2>5. Pended'
    BY <1>1, <1>8, <2>2, OutKept DEF PoolInv, Moves
  <2> QED
    BY <1>7, <2>2, <2>3, <2>4, <2>5 DEF PoolInv
<1>9. CASE k \notin Loose
  <2> DEFINE f == [Top(t) EXCEPT !.at = "count"]
  <2>1. Goes(t, f)
    BY <1>0, <1>9 DEF Return
  <2>2. f \in Frame1 /\ f.body = k /\ f.at = "count" /\ f.todo = {} /\ f.batch = {}
    BY <1>0, <1>1, <1>2 DEF GoodFrame, Frame1, Labels
  <2>3. GoodFrame(f)
    BY <1>1, <1>9, <2>2, PoolAssumption DEF GoodFrame
  <2> HIDE DEF f
  <2>4. Shape' /\ Moves(Occupied, Counting \union {k}, ToAdd, InBatch)
    <3>1. /\ Shape'
          /\ Moves(Occupied, Counting \union {x \in {f.body} : f.at = "count"},
                   (ToAdd \ Top(t).todo) \union f.todo, (InBatch \ Top(t).batch) \union f.batch)
      BY <1>0, <1>1, <2>1, <2>2, <2>3, GoesMoves DEF PoolInv
    <3>2. /\ Counting \union {x \in {f.body} : f.at = "count"} = Counting \union {k}
          /\ (ToAdd \ Top(t).todo) \union f.todo = ToAdd
          /\ (InBatch \ Top(t).batch) \union f.batch = InBatch
      BY <1>1, <2>2
    <3> QED
      BY <3>1, <3>2
  <2>5. Listed' = Listed
    BY <1>1 DEF Listed
  <2>6. OnePlace' /\ OnItsWay'
    BY <1>1, <1>2, <1>4, <2>4, <2>5 DEF PoolInv, OnePlace, OnItsWay, Moves
  <2>7. Awaited'
    <3>1. \A b \in Bodies : b # k => (Through(b)' <=> Through(b))
      BY <1>1, <2>4 DEF Through, Moves
    <3>2. \A j \in Counting : AddedBy[j] \in Bodies /\ AddedBy[j] # k
      BY <1>3, CountingTasks, PoolAssumption DEF PoolInv, Bodies
    <3>3. \A b \in Bodies : Through(b)' => AddedTo(b) \ Loose \subseteq ran'
      BY <1>1, <1>3, <3>1 DEF PoolInv, Awaited
    <3>4. \A j \in Counting : ~Through(AddedBy[j])'
      BY <3>1, <3>2 DEF PoolInv, Awaited
    <3>5. ~Through(AddedBy[k])'
      <4>1. ~Through(AddedBy[k]) /\ AddedBy[k] \in Bodies
        BY <1>1, <1>5, <1>9, PoolAssumption DEF Bodies
      <4>2. AddedBy[k] # k
        <5> SUFFICES ASSUME AddedBy[k] = k PROVE FALSE
          OBVIOUS
        <5>1. k \in AddedTo(k) \ Loose
          BY <1>1, <1>9 DEF AddedTo
        <5> QED
          BY <1>3, <1>4, <5>1
      <4> QED
        BY <3>1, <4>1, <4>2
    <3> QED
      BY <2>4, <3>3, <3>4, <3>5 DEF Awaited, Moves
  <2>8. Pended'
    BY <1>1, <2>4, <2>5, OutKept DEF PoolInv, Moves
  <2>9. Enough'
    <3>1. /\ \A u \in Threads : u # t => stack'[u] = stack[u]
          /\ ~At(t, "pop") /\ ~At(t, "signal") /\ ~At(t, "pop")' /\ ~At(t, "signal")'
      BY <1>1, <2>1, <2>2, GoesAt DEF PoolInv
    <3>2. Len(fWork') = Len(fWork) + 0 /\ tokens' = tokens + 0
      BY <1>1, LenProperties DEF PoolInv, ListOK, Basics
    <3>3. 0 = 0 + (One(At(t, "pop")') - One(At(t, "pop")))
                + (One(At(t, "signal")') - One(At(t, "signal")))
      BY <3>1 DEF One
    <3> QED
      BY <3>1, <3>2, <3>3, Balance
  <2>10. ListOK'
    BY <1>1 DEF PoolInv, ListOK
  <2> QED
    BY <1>7, <2>4, <2>6, <2>7, <2>8, <2>9, <2>10 DEF PoolInv
<1> QED
  BY <1>8, <1>9

LEMMA CountDownKeeps ==
  ASSUME PoolInv, NEW t \in Threads, CountDown(t)
  PROVE  PoolInv'
<1>1. stack[t] # <<>> /\ Top(t).at = "count"
  BY AtTop DEF CountDown
<1>2. /\ Top(t).body \in Tasks \ Loose /\ Top(t).body \in Counting
      /\ Top(t).todo = {} /\ Top(t).batch = {}
  BY <1>1, TopKnown DEF PoolInv, GoodFrame
<1>3. PICK k \in Tasks \ Loose : k = Top(t).body
  BY <1>2
<1>4. PICK b \in Bodies : b = AddedBy[k]
  BY PoolAssumption DEF Bodies
<1>5. /\ Returns(t) /\ fPending' = [fPending EXCEPT ![b] = @ - 1]
      /\ UNCHANGED <<fifo, fWork, tokens, nulls, ran>>
  BY <1>3, <1>4 DEF CountDown
<1>6. /\ Shape' /\ ListOK' /\ Enough' /\ Listed' = Listed
      /\ Moves(Occupied \ {k}, Counting \ {k}, ToAdd, InBatch)
  BY <1>1, <1>2, <1>3, <1>5, LeavesBasics
<1>7. k \in Counting /\ k \in Occupied /\ k \in ran
  BY <1>2, <1>3, SetsOfTasks DEF PoolInv, OnePlace
<1>8. OnePlace' /\ OnItsWay'
  BY <1>5, <1>6, <1>7 DEF PoolInv, OnePlace, OnItsWay, Moves
<1>9. Awaited'
  <2>1. \A x : Through(x)' <=> Through(x)
    BY <1>5, <1>6, PoolAssumption DEF Through, Moves
  <2> QED
    BY <1>5, <1>6, <2>1 DEF PoolInv, Awaited, Moves
<1>10. Pended'
  <2> SUFFICES ASSUME NEW x \in Bodies PROVE fPending'[x] = Cardinality(Out(x)')
    BY DEF Pended
  <2>1. fPending[x] = Cardinality(Out(x)) /\ fPending \in [Bodies -> Int]
    BY DEF PoolInv, Pended, Basics
  <2>2. k \notin InBatch \union Listed
    BY <1>7 DEF PoolInv, OnePlace
  <2>3. CASE x # b
    <3>1. Out(x)' = Out(x)
      BY <1>4, <1>6, <2>3 DEF Out, AddedTo, Moves
    <3> QED
      BY <1>5, <2>1, <2>3, <3>1
  <2>4. CASE x = b
    <3>1. Out(x)' = Out(x) \ {k} /\ k \in Out(x)
      BY <1>4, <1>6, <1>7, <2>2, <2>4 DEF Out, AddedTo, Moves
    <3>2. Cardinality(Out(x) \ {k}) = Cardinality(Out(x)) - 1
      BY <3>1, OutFinite, FS_RemoveElement
    <3> QED
      BY <1>5, <2>1, <2>4, <3>1, <3>2
  <2> QED
    BY <2>3, <2>4
<1>11. Basics'
  BY <1>5 DEF PoolInv, Basics
<1> QED
  BY <1>6, <1>8, <1>9, <1>10, <1>11 DEF PoolInv

(* A client leaves, or the owner does with the pool destroyed. *)
LEMMA ClientKeeps ==
  ASSUME PoolInv, NEW t \in Threads, Done(t), NEW c \in Clients, c = Top(t).body, Returns(t),
         UNCHANGED <<fifo, fWork, tokens, fPending, nulls, ran>>
  PROVE  PoolInv'
<1>1. stack[t] # <<>> /\ Top(t).at = "run" /\ Top(t).todo = {} /\ Top(t).batch = {}
  BY AtTop DEF Done, AddedAll
<1>2. AddedTo(c) \ Loose \subseteq ran /\ \A k \in Counting : AddedBy[k] # c
  BY DoneMeansRun
<1>3. /\ Shape' /\ ListOK' /\ Enough' /\ Listed' = Listed
      /\ Moves(Occupied \ {c}, Counting \ {c}, ToAdd, InBatch)
  BY <1>1, LeavesBasics
<1>4. c \notin Tasks /\ c \notin ran /\ c \notin Counting
  BY PoolAssumption, CountingTasks DEF PoolInv, Basics
<1>5. OnePlace' /\ OnItsWay'
  BY <1>3, <1>4 DEF PoolInv, OnePlace, OnItsWay, Moves
<1>6. Awaited'
  <2>1. \A x : x # c => (Through(x)' <=> Through(x))
    BY <1>3 DEF Through, Moves
  <2> QED
    BY <1>2, <1>3, <2>1, <1>4 DEF PoolInv, Awaited, Moves
<1>7. Pended'
  BY <1>3, <1>4, OutKept DEF PoolInv, Moves
<1>8. Basics'
  BY DEF PoolInv, Basics
<1> QED
  BY <1>3, <1>5, <1>6, <1>7, <1>8 DEF PoolInv

LEMMA AddNullKeeps ==
  ASSUME PoolInv, AddNull
  PROVE  PoolInv'
<1> DEFINE t == Owner
<1>1. /\ t \in Threads /\ stack[t] # <<>> /\ Top(t).at = "run" /\ Top(t).body # Null
      /\ fWork' = Append(fWork, Null) /\ nulls' = nulls + 1 /\ nulls < Cardinality(Workers)
      /\ Goes(t, [Top(t) EXCEPT !.at = "signal"])
      /\ UNCHANGED <<fifo, tokens, fPending, ran>>
  BY AtTop, PoolAssumption DEF AddNull, Destroying, Done, AddedAll, Threads
<1> HIDE DEF t
<1>2. /\ Shape' /\ Moves(Occupied, Counting, ToAdd, InBatch)
      /\ \A u \in Threads : u # t => stack'[u] = stack[u]
      /\ \A l : (At(t, l)' <=> l = "signal") /\ (At(t, l) <=> Top(t).at = l)
  <2>1. "signal" \in Labels \ {"count"}
    BY DEF Labels
  <2> QED
    BY <1>1, <2>1, LabelMoves
<1>3. ListOK' /\ Len(fWork') = Len(fWork) + 1 /\ Listed' = Listed
  <2>1. Null \notin Listed
    BY SetsOfTasks DEF Bodies
  <2> QED
    BY <1>1, <2>1, AppendList DEF PoolInv
<1>4. Kept
  BY <1>1, <1>2, <1>3 DEF Kept
<1>5. OnePlace' /\ OnItsWay' /\ Awaited'
  BY <1>4, KeptWays DEF Ways, PoolInv
<1>6. Pended'
  BY <1>1, <1>4, OutKept DEF PoolInv, Kept, Moves
<1>7. Enough'
  <2>1. ~At(t, "pop") /\ ~At(t, "signal") /\ ~At(t, "pop")' /\ At(t, "signal")'
    BY <1>1, <1>2
  <2>2. tokens' = tokens + 0
    BY <1>1 DEF PoolInv, Basics
  <2>3. 1 = 0 + (One(At(t, "pop")') - One(At(t, "pop")))
              + (One(At(t, "signal")') - One(At(t, "signal")))
    BY <2>1 DEF One
  <2>4. PoolInv /\ 0 \in Int /\ 1 \in Int
    OBVIOUS
  <2> QED
    BY ONLY <1>1, <1>2, <1>3, <2>2, <2>3, <2>4, Balance
<1>8. Basics'
  <2>1. Cardinality(Workers) \in Nat
    BY PoolAssumption, FS_CardinalityType
  <2> QED
    BY <1>1, <2>1 DEF PoolInv, Basics
<1> QED
  BY <1>2, <1>3, <1>5, <1>6, <1>7, <1>8 DEF PoolInv
-----------------------------------------------------------------------------
LEMMA PoolInvInit == Init => PoolInv
<1> SUFFICES ASSUME Init PROVE PoolInv
  OBVIOUS
<1>1. /\ stack = [t \in Threads |-> IF t \in Workers THEN <<Loop>> ELSE <<Frame(t)>>]
      /\ fWork = <<>> /\ tokens = 0 /\ nulls = 0 /\ ran = {} /\ fifo \in BOOLEAN
      /\ fPending = [b \in Bodies |-> 0]
  BY DEF Init, fWorkAvailable!SemInit, Bodies
<1> DEFINE first(t) == IF t \in Workers THEN Loop ELSE Frame(t)
<1>2. ASSUME NEW t \in Threads
      PROVE  /\ GoodFrame(first(t)) /\ first(t).at \in {"run", "loop"} /\ first(t).batch = {}
             /\ first(t).body = IF t \in Workers THEN Null ELSE t
             /\ first(t).todo = IF t \in Workers THEN {} ELSE AddedTo(t)
  BY PoolAssumption DEF Threads, Loop, Frame, GoodFrame, Frame1, Bodies, Labels, AddedTo
<1>3. \A t \in Threads : stack[t] = <<first(t)>>
  BY <1>1
<1>4. \A t \in Threads : first(t) \in Frame1
  BY <1>2 DEF GoodFrame
<1> HIDE DEF first
<1>5. \A t \in Threads : /\ stack[t] \in Seq(Frame1) /\ DOMAIN stack[t] = {1}
                         /\ stack[t][1] = first(t) /\ stack[t] # <<>>
  <2> SUFFICES ASSUME NEW t \in Threads, NEW f \in Frame1, f = first(t)
               PROVE  /\ stack[t] \in Seq(Frame1) /\ DOMAIN stack[t] = {1}
                      /\ stack[t][1] = f /\ stack[t] # <<>>
    BY <1>4
  <2>1. stack[t] = <<f>>
    BY <1>3
  <2>2. <<f>> \in Seq(Frame1) /\ Len(<<f>>) = 1 /\ <<f>>[1] = f /\ <<f>> # <<>>
    OBVIOUS
  <2>3. DOMAIN <<f>> = 1..1
    BY <2>2, LenProperties
  <2>4. 1..1 = {1}
    OBVIOUS
  <2> QED
    BY <2>1, <2>2, <2>3, <2>4
<1>6. \A t \in Threads : t \notin Workers <=> t \in Clients
  BY PoolAssumption DEF Threads
<1>7. Shape
  <2>1. DOMAIN stack = Threads
    BY <1>1
  <2> QED
    BY <1>2, <1>5, <1>6, <2>1, PoolAssumption DEF Shape
<1>8. Occupied = Clients /\ Counting = {} /\ InBatch = {} /\ Listed = {}
  <2>1. Occupied = Clients
    <3>1. ASSUME NEW b \in Bodies PROVE b \in Occupied <=> b \in Clients
      <4>1. b \in Occupied => b \in Clients
        BY <1>2, <1>5, <1>6, PoolAssumption DEF Occupied, Bodies
      <4>2. b \in Clients => b \in Threads /\ b \notin Workers
        BY PoolAssumption DEF Threads
      <4> QED
        BY <1>2, <1>5, <4>1, <4>2 DEF Occupied
    <3> QED
      BY <3>1 DEF Occupied, Bodies
  <2>2. \A t \in Threads : \A i \in DOMAIN stack[t] :
          stack[t][i].at # "count" /\ stack[t][i].batch = {}
    BY <1>2, <1>5
  <2>3. Listed = {}
    BY <1>1 DEF Listed
  <2> QED
    BY <2>1, <2>2, <2>3 DEF Counting, InBatch
<1>9. ASSUME NEW k \in Tasks PROVE k \in ToAdd <=> AddedBy[k] \in Clients
  <2>1. k \in ToAdd <=> \E t \in Threads : k \in first(t).todo
    BY <1>5 DEF ToAdd
  <2>2. Clients \subseteq Threads
    BY DEF Threads
  <2>3. ASSUME NEW t \in Threads PROVE k \in first(t).todo <=> AddedBy[k] = t /\ t \in Clients
    <3>1. first(t).todo = IF t \in Workers THEN {} ELSE AddedTo(t)
      BY <1>2
    <3> QED
      BY <1>6, <3>1 DEF AddedTo
  <2> QED
    BY <2>1, <2>2, <2>3
<1>10. OnePlace /\ OnItsWay /\ Awaited
  <2>1. OnePlace
    BY <1>1, <1>8, PoolAssumption DEF OnePlace, ToAdd
  <2>2. OnItsWay
    BY <1>1, <1>8, <1>9, PoolAssumption DEF OnItsWay
  <2>3. Awaited
    BY <1>1, <1>8 DEF Awaited, Through
  <2> QED
    BY <2>1, <2>2, <2>3
<1>11. Pended
  <2>1. \A b \in Bodies : Out(b) = {}
    BY <1>8, PoolAssumption DEF Out, AddedTo
  <2> QED
    BY <1>1, <2>1, FS_EmptySet DEF Pended
<1>12. Enough
  <2>1. {t \in Threads : At(t, "pop")} = {} /\ {t \in Threads : At(t, "signal")} = {}
    BY <1>2, <1>5 DEF At
  <2>2. Num("pop") = 0 /\ Num("signal") = 0
    BY <2>1, FS_EmptySet DEF Num
  <2> QED
    BY <1>1, <2>2 DEF Enough
<1>13. ListOK /\ Basics
  <2>1. Cardinality(Workers) \in Nat
    BY PoolAssumption, FS_CardinalityType
  <2> QED
    BY <1>1, <2>1 DEF ListOK, Basics
<1> QED
  BY <1>7, <1>10, <1>11, <1>12, <1>13 DEF PoolInv

LEMMA PoolInvNext == PoolInv /\ [Next]_vars => PoolInv'
<1> SUFFICES ASSUME PoolInv, [Next]_vars PROVE PoolInv'
  OBVIOUS
<1>1. CASE UNCHANGED vars
  BY <1>1, NothingKeeps DEF vars
<1>2. CASE Next
  <2>1. CASE Terminated
    BY <2>1, NothingKeeps DEF Terminated, vars
  <2>2. ASSUME NEW t \in Threads, Step(t) PROVE PoolInv'
    <3>1. CASE Add(t) \/ Push(t) \/ Signal(t)
      BY <3>1, AddKeeps, PushKeeps, SignalKeeps
    <3>6. CASE NotDone(t) \/ Borrow(t) \/ BorrowNothing(t)
      BY <3>6, NotDoneKeeps, BorrowKeeps, BorrowNothingKeeps
    <3>2. CASE LoopWait(t) \/ Pop(t) \/ Return(t) \/ CountDown(t)
      BY <3>2, LoopWaitKeeps, PopNullKeeps, PopTaskKeeps, ReturnKeeps, CountDownKeeps
    <3>3. CASE Leave(t)
      <4>1. t \in Clients
        <5>1. Top(t).body \in Bodies
          BY <3>3, DoneMeansRun DEF Leave
        <5> QED
          BY <3>3, <5>1, PoolAssumption DEF Leave, Bodies, Threads
      <4> QED
        BY <3>3, <4>1, ClientKeeps DEF Leave
    <3>4. CASE t = Owner /\ AddNull
      BY <3>4, AddNullKeeps
    <3>5. CASE t = Owner /\ Join
      <4>1. Done(Owner) /\ Top(Owner).body = Owner /\ Owner \in Clients /\ Owner \in Threads
        BY <3>5, PoolAssumption DEF Join, Destroying, Threads
      <4> QED
        BY <3>5, <4>1, ClientKeeps DEF Join
    <3> QED
      BY <2>2, <3>1, <3>2, <3>3, <3>4, <3>5, <3>6 DEF Step
  <2> QED
    BY <1>2, <2>1, <2>2 DEF Next
<1> QED
  BY <1>1, <1>2

(* The invariant holds in every state of the pool, with any number of      *)
(* workers and clients, and with groups made inside the work of others.    *)
THEOREM PoolInvariance == Spec => []PoolInv
BY PoolInvInit, PoolInvNext, PTL DEF Spec
-----------------------------------------------------------------------------
(* What the properties of SkThreadPool say, from the invariant.            *)
LEMMA FramesKnown ==
  ASSUME Shape, NEW t \in Threads, NEW frame
  PROVE  frame \in Frames(t) <=> \E i \in DOMAIN stack[t] : frame = stack[t][i]
BY DEF Frames, ToSet

LEMMA TypesHold == PoolInv => TypeOK
<1> SUFFICES ASSUME PoolInv PROVE TypeOK
  OBVIOUS
<1>1. ASSUME NEW t \in Threads, NEW frame \in Frames(t)
      PROVE  /\ frame.body \in Tasks \union Clients \union {Null}
             /\ frame.at \in {"run", "signal", "borrow", "loop", "pop", "count"}
             /\ frame.todo \subseteq Tasks /\ frame.batch \subseteq Tasks
  <2>1. PICK i \in DOMAIN stack[t] : frame = stack[t][i]
    BY FramesKnown DEF PoolInv
  <2>2. frame \in Frame1
    BY <2>1 DEF PoolInv, Shape, GoodFrame
  <2> QED
    BY <2>2 DEF Frame1, Bodies, Labels
<1>2. ToSet(fWork) \subseteq Tasks \union {Null}
  BY DEF PoolInv, ListOK, ToSet
<1>3. fPending \in [Tasks \union Clients -> 0..Cardinality(Tasks)]
  <2>1. ASSUME NEW b \in Bodies PROVE fPending[b] \in 0..Cardinality(Tasks)
    <3>1. Out(b) \in SUBSET Tasks /\ IsFiniteSet(Tasks)
      BY PoolAssumption DEF Out, AddedTo
    <3>2. Cardinality(Out(b)) <= Cardinality(Tasks) /\ Cardinality(Tasks) \in Nat
      BY <3>1, FS_Subset, FS_CardinalityType
    <3>3. fPending[b] = Cardinality(Out(b)) /\ Cardinality(Out(b)) \in Nat
      BY OutFinite DEF PoolInv, Pended
    <3> QED
      BY <3>2, <3>3
  <2> QED
    BY <2>1 DEF PoolInv, Basics, Bodies
<1> QED
  BY <1>1, <1>2, <1>3 DEF TypeOK, PoolInv, Basics

(* Whoever gets a token finds work in the list, however many threads pop   *)
(* at once (the assertion in SkThreadPool::do_work()).                     *)
THEOREM TokensFindWork == Spec => []TokensHaveWork
<1>1. PoolInv => TokensHaveWork
  <2> SUFFICES ASSUME PoolInv PROVE TokensHaveWork
    OBVIOUS
  <2>1. Num("signal") \in Nat
    <3>1. IsFiniteSet(Threads)
      BY PoolAssumption, FS_Union DEF Threads
    <3>2. IsFiniteSet({t \in Threads : At(t, "signal")})
      BY <3>1, {t \in Threads : At(t, "signal")} \in SUBSET Threads, FS_Subset
    <3> QED
      BY <3>2, FS_CardinalityType DEF Num
  <2>2. Num("pop") \in Nat
    <3>1. IsFiniteSet(Threads)
      BY PoolAssumption, FS_Union DEF Threads
    <3>2. IsFiniteSet({t \in Threads : At(t, "pop")})
      BY <3>1, {t \in Threads : At(t, "pop")} \in SUBSET Threads, FS_Subset
    <3> QED
      BY <3>2, FS_CardinalityType DEF Num
  <2>3. Len(fWork) = tokens + Num("pop") + Num("signal") /\ tokens \in Nat
    BY DEF PoolInv, Enough, Basics
  <2>4. tokens + Num("pop") <= Len(fWork)
    BY <2>1, <2>2, <2>3
  <2> QED
    BY <2>4, TypesHold DEF TokensHaveWork, Num
<1> QED
  BY <1>1, PoolInvariance, PTL

(* A set whose members are all equal has one at most. *)
LEMMA OneAtMost ==
  ASSUME NEW S, \A x, y \in S : x = y
  PROVE  Cardinality(S) \in {0, 1} /\ (S # {} => Cardinality(S) = 1)
<1>1. CASE S = {}
  BY <1>1, FS_EmptySet
<1>2. CASE S # {}
  <2>1. PICK x \in S : TRUE
    BY <1>2
  <2>2. S = {x}
    BY <2>1
  <2> QED
    BY <2>2, FS_Singleton
<1> QED
  BY <1>1, <1>2

(* No task is run twice, nor kept once it has run: it is in the list or    *)
(* on one stack, wherever batches, borrowing and nesting take it.          *)
THEOREM EachRunsOnce == Spec => []RunOnce
<1>1. PoolInv => RunOnce
  <2> SUFFICES ASSUME PoolInv, NEW task \in Tasks
               PROVE  LET listed == {i \in DOMAIN fWork : fWork[i] = task}
                          under == {t \in Threads : \E frame \in Frames(t) : frame.body = task}
                      IN  /\ Cardinality(listed) + Cardinality(under) <= 1
                          /\ task \in ran => listed = {} /\ \A t \in under : At(t, "count")
    BY DEF RunOnce
  <2> DEFINE listed == {i \in DOMAIN fWork : fWork[i] = task}
             under == {t \in Threads : \E frame \in Frames(t) : frame.body = task}
  <2>0. task # Null /\ task \in Bodies
    BY PoolAssumption DEF Bodies
  <2>1. \A i, j \in listed : i = j
    BY <2>0 DEF PoolInv, ListOK
  <2>2. ASSUME NEW t \in under PROVE \E i \in DOMAIN stack[t] : stack[t][i].body = task
    BY <2>2, FramesKnown DEF PoolInv
  <2>3. \A t, u \in under : t = u
    BY <2>0, <2>2, OneFrame DEF PoolInv
  <2>4. listed # {} => task \in Listed
    BY DEF Listed
  <2>5. under # {} => task \in Occupied
    BY <2>0, <2>2 DEF Occupied
  <2>6. listed = {} \/ under = {}
    BY <2>4, <2>5 DEF PoolInv, OnePlace
  <2>7. task \in ran => listed = {}
    BY <2>4 DEF PoolInv, OnePlace
  <2>8. ASSUME task \in ran, NEW t \in under PROVE At(t, "count")
    <3>1. PICK i \in DOMAIN stack[t] : stack[t][i].body = task
      BY <2>2
    <3>2. task \in Counting
      BY <2>5, <2>8 DEF PoolInv, OnePlace
    <3>3. PICK u \in Threads : \E j \in DOMAIN stack[u] :
            stack[u][j].body = task /\ stack[u][j].at = "count"
      BY <3>2 DEF Counting
    <3>4. PICK j \in DOMAIN stack[u] : stack[u][j].body = task /\ stack[u][j].at = "count"
      BY <3>3
    <3>5. u = t /\ j = i
      BY <2>0, <3>1, <3>4, OneFrame DEF PoolInv
    <3>6. stack[t] \in Seq(Frame1)
      BY DEF PoolInv, Shape
    <3>7. stack[t] # <<>> /\ i \in 1..Len(stack[t]) /\ ~(i > 1)
      BY <3>1, <3>4, <3>5, <3>6, LenProperties, EmptySeq DEF PoolInv, Shape
    <3>8. i = 1 /\ Top(t) = stack[t][1]
      BY <3>7, TopIsFirst DEF PoolInv
    <3> QED
      BY <3>4, <3>5, <3>7, <3>8 DEF At, Top
  <2>9. Cardinality(listed) + Cardinality(under) <= 1
    <3>1. Cardinality(listed) \in {0, 1} /\ (listed = {} => Cardinality(listed) = 0)
      BY <2>1, OneAtMost, FS_EmptySet
    <3>2. Cardinality(under) \in {0, 1} /\ (under = {} => Cardinality(under) = 0)
      BY <2>3, OneAtMost, FS_EmptySet
    <3> HIDE DEF listed, under
    <3> QED
      BY <2>6, <3>1, <3>2
  <2> QED
    BY <2>7, <2>8, <2>9
<1> QED
  BY <1>1, PoolInvariance, PTL

(* Whoever is past SkTaskGroup::wait() finds all the tasks of the group    *)
(* run, and the group outlives the last task that counts down in it.       *)
THEOREM WaitersFindThemRun == Spec => []WaitMeansRun
<1>1. PoolInv => WaitMeansRun
  <2> SUFFICES ASSUME PoolInv PROVE WaitMeansRun
    OBVIOUS
  <2>1. ASSUME NEW b \in Bodies PROVE b \in Busy <=> b \in Occupied
    <3>1. b \in Busy <=> \E t \in Threads : \E frame \in Frames(t) : b = frame.body
      BY DEF Busy
    <3>2. \A t \in Threads : (\E frame \in Frames(t) : b = frame.body)
                               <=> \E i \in DOMAIN stack[t] : b = stack[t][i].body
      BY FramesKnown DEF PoolInv
    <3> QED
      BY <3>1, <3>2 DEF Occupied
  <2>2. \A b \in Bodies : Past(b) <=> Through(b)
    BY <2>1 DEF Past, Through, Bodies
  <2>3. ASSUME NEW t \in Threads, At(t, "count") PROVE ~Past(AddedBy[Top(t).body])
    <3>1. Top(t).body \in Counting
      BY <2>3, AtTop, TopKnown DEF PoolInv
    <3>2. Top(t).body \in Tasks /\ AddedBy[Top(t).body] \in Bodies
      BY <3>1, CountingTasks, PoolAssumption DEF PoolInv, Bodies
    <3> QED
      BY <2>2, <3>1, <3>2 DEF PoolInv, Awaited
  <2>4. \A b \in Bodies : Past(b) => AddedTo(b) \ Loose \subseteq ran
    BY <2>2 DEF PoolInv, Awaited
  <2> QED
    BY <2>3, <2>4 DEF WaitMeansRun, Bodies
<1> QED
  BY <1>1, PoolInvariance, PTL
-----------------------------------------------------------------------------
(* The end of the pool, for clients that use groups as they are meant to   *)
(* be used (LooseAlone, Grounded). Without the first, a worker that waits  *)
(* inside such a task may borrow an empty function.                        *)
(* At the bottom of a stack is Loop(), or the client itself.               *)
Own(t) == IF t \in Workers THEN Null ELSE t
Bottoms == \A t \in Threads : \A i \in DOMAIN stack[t] :
  stack[t][i].body = Own(t) <=> i = Len(stack[t])

(* Threads that have found their group not done, or got a token.           *)
Waits(t) == At(t, "borrow") \/ At(t, "pop")

LooseNeverWait == \A t \in Threads : Waits(t) => Top(t).body \notin Loose
NoNulls == \A i \in DOMAIN fWork : fWork[i] # Null
NullsLast == \A i, j \in DOMAIN fWork : i < j /\ fWork[i] = Null => fWork[j] = Null

(* From the first empty function on: all groups are done, nobody adds or   *)
(* waits, and only Loop() takes work.                                      *)
Ending ==
  /\ Tasks \ Loose \subseteq ran
  /\ ToAdd = {} /\ InBatch = {} /\ Counting = {}
  /\ Occupied \intersect Clients \subseteq {Owner}
  /\ \A t \in Threads : Waits(t) => Top(t).body = Null

EndInv ==
  /\ Bottoms /\ LooseNeverWait
  /\ nulls = 0 => NoNulls
  /\ nulls > 0 => Ending
  /\ fifo => NullsLast
  /\ \A w \in Workers : stack[w] = <<>> => nulls > 0 /\ (fifo => Listed = {})
  /\ destroyed => nulls > 0 /\ \A t \in Threads : stack[t] = <<>>

LEMMA BottomsGo ==
  ASSUME Shape, Bottoms, NEW t \in Threads, stack[t] # <<>>, NEW f \in Frame1, Goes(t, f),
         f.body = Top(t).body
  PROVE  Bottoms' /\ stack'[t] # <<>> /\ \A u \in Threads : u # t => stack'[u] = stack[u]
<1>1. /\ stack'[t] \in Seq(Frame1) /\ stack'[t] # <<>>
      /\ DOMAIN stack'[t] = DOMAIN stack[t]
      /\ stack'[t][1] = f
      /\ \A i \in DOMAIN stack[t] : i # 1 => stack'[t][i] = stack[t][i]
      /\ \A u \in Threads : u # t => stack'[u] = stack[u]
  BY GoesStack
<1>2. stack[t] \in Seq(Frame1) /\ Top(t) = stack[t][1]
  BY TopIsFirst DEF Shape
<1>3. Len(stack'[t]) = Len(stack[t])
  BY <1>1, <1>2, LenProperties
<1>4. \A i \in DOMAIN stack'[t] : stack'[t][i].body = stack[t][i].body
  BY <1>1, <1>2
<1>5. \A i \in DOMAIN stack'[t] : stack'[t][i].body = Own(t) <=> i = Len(stack'[t])
  BY <1>1, <1>3, <1>4 DEF Bottoms
<1> QED
  BY <1>1, <1>5 DEF Bottoms

LEMMA BottomsReturn ==
  ASSUME Shape, Bottoms, NEW t \in Threads, stack[t] # <<>>, Returns(t)
  PROVE  /\ Bottoms' /\ \A u \in Threads : u # t => stack'[u] = stack[u]
         /\ t \in Workers /\ Top(t).body # Null => stack'[t] # <<>>
         /\ Top(t).body = Own(t) => stack'[t] = <<>>
<1>1. /\ stack'[t] \in Seq(Frame1)
      /\ DOMAIN stack'[t] = 1 .. Len(stack[t]) - 1
      /\ \A i \in 1 .. Len(stack[t]) - 1 : stack'[t][i] = stack[t][i + 1]
      /\ \A u \in Threads : u # t => stack'[u] = stack[u]
  BY ReturnsStack
<1>2. /\ Top(t) = stack[t][1] /\ Len(stack[t]) \in Nat /\ Len(stack[t]) > 0
      /\ DOMAIN stack[t] = 1..Len(stack[t])
  BY TopIsFirst
<1>3. Len(stack'[t]) = Len(stack[t]) - 1
  BY <1>1, <1>2, LenProperties
<1>4. ASSUME NEW i \in DOMAIN stack'[t]
      PROVE  stack'[t][i].body = Own(t) <=> i = Len(stack'[t])
  <2>1. i + 1 \in DOMAIN stack[t] /\ stack'[t][i] = stack[t][i + 1] /\ i \in Int
    BY <1>1, <1>2
  <2>2. stack[t][i + 1].body = Own(t) <=> i + 1 = Len(stack[t])
    BY <2>1 DEF Bottoms
  <2>3. i + 1 = Len(stack[t]) <=> i = Len(stack'[t])
    BY <1>2, <1>3, <2>1
  <2> QED
    BY <2>1, <2>2, <2>3
<1>5. ASSUME t \in Workers, Top(t).body # Null PROVE stack'[t] # <<>>
  <2>1. 1 # Len(stack[t])
    BY <1>2, <1>5 DEF Bottoms, Own
  <2>2. Len(stack'[t]) # 0
    BY <1>2, <1>3, <2>1
  <2> QED
    BY <1>1, <2>2, EmptySeq
<1>6. ASSUME Top(t).body = Own(t) PROVE stack'[t] = <<>>
  <2>1. 1 \in DOMAIN stack[t] /\ stack[t][1].body = Own(t)
    BY <1>2, <1>6
  <2>2. 1 = Len(stack[t])
    BY <2>1 DEF Bottoms
  <2> QED
    BY <1>1, <1>3, <2>2, EmptySeq
<1> QED
  BY <1>1, <1>4, <1>5, <1>6 DEF Bottoms

LEMMA BottomsEnter ==
  ASSUME Shape, Bottoms, NEW t \in Threads, stack[t] # <<>>, NEW k \in Tasks, NEW g \in Frame1,
         g.body = Top(t).body, stack' = [stack EXCEPT ![t] = <<Frame(k), g>> \o Tail(@)]
  PROVE  Bottoms' /\ stack'[t] # <<>> /\ \A u \in Threads : u # t => stack'[u] = stack[u]
<1>0. Frame(k) \in Frame1 /\ Frame(k).body = k /\ k # Own(t)
  BY PoolAssumption DEF Frame, Frame1, Bodies, Labels, AddedTo, Own, Threads
<1>1. /\ DOMAIN stack' = Threads
      /\ stack'[t] \in Seq(Frame1)
      /\ DOMAIN stack'[t] = 1 .. Len(stack[t]) + 1
      /\ stack'[t][1] = Frame(k) /\ stack'[t][2] = g
      /\ \A i \in 3 .. Len(stack[t]) + 1 : stack'[t][i] = stack[t][i - 1]
      /\ \A u \in Threads : u # t => stack'[u] = stack[u]
  <2>1. Frame(k) \in Frame1
    BY <1>0
  <2>2. ASSUME NEW f \in Frame1, stack' = [stack EXCEPT ![t] = <<f, g>> \o Tail(@)]
        PROVE  /\ DOMAIN stack' = Threads
               /\ stack'[t] \in Seq(Frame1)
               /\ DOMAIN stack'[t] = 1 .. Len(stack[t]) + 1
               /\ stack'[t][1] = f /\ stack'[t][2] = g
               /\ \A i \in 3 .. Len(stack[t]) + 1 : stack'[t][i] = stack[t][i - 1]
               /\ \A u \in Threads : u # t => stack'[u] = stack[u]
    BY <2>2, EntersStack
  <2> QED
    BY <2>1, <2>2
<1>2. /\ Top(t) = stack[t][1] /\ Len(stack[t]) \in Nat /\ Len(stack[t]) > 0
      /\ DOMAIN stack[t] = 1..Len(stack[t])
  BY TopIsFirst
<1>3. Len(stack'[t]) = Len(stack[t]) + 1
  BY <1>1, <1>2, LenProperties
<1>4. ASSUME NEW i \in DOMAIN stack'[t]
      PROVE  stack'[t][i].body = Own(t) <=> i = Len(stack'[t])
  <2>1. CASE i = 1
    BY <1>0, <1>1, <1>2, <1>3, <2>1
  <2>2. CASE i \in 2 .. Len(stack[t]) + 1
    <3>1. stack'[t][i].body = stack[t][i - 1].body /\ i - 1 \in DOMAIN stack[t]
      <4>1. CASE i = 2
        BY <1>1, <1>2, <4>1
      <4>2. CASE i # 2
        <5>1. i \in 3 .. Len(stack[t]) + 1 /\ i - 1 \in 1..Len(stack[t])
          BY ONLY <1>2, <2>2, <4>2
        <5>2. stack'[t][i] = stack[t][i - 1]
          BY <1>1, <5>1
        <5>3. DOMAIN stack[t] = 1..Len(stack[t])
          BY <1>2
        <5> QED
          BY ONLY <5>1, <5>2, <5>3
      <4> QED
        BY <4>1, <4>2
    <3>2. stack[t][i - 1].body = Own(t) <=> i - 1 = Len(stack[t])
      BY <3>1 DEF Bottoms
    <3>3. i - 1 = Len(stack[t]) <=> i = Len(stack'[t])
      BY <1>2, <1>3, <2>2
    <3> QED
      BY <3>1, <3>2, <3>3
  <2> QED
    BY <1>1, <1>2, <2>1, <2>2
<1>5. stack'[t] # <<>>
  BY <1>1, <1>2, <1>3, EmptySeq
<1> QED
  BY <1>1, <1>4, <1>5 DEF Bottoms

(* What is left of the list when an element is taken from one of its ends. *)
LEMMA PopShifts ==
  ASSUME fWork \in Seq(Tasks \union {Null}), fWork # <<>>,
         fWork' = IF fifo THEN Tail(fWork) ELSE Front(fWork)
  PROVE  /\ DOMAIN fWork' = 1 .. Len(fWork) - 1
         /\ DOMAIN fWork = 1 .. Len(fWork) /\ Len(fWork) \in Nat /\ Len(fWork) > 0
         /\ \A i \in DOMAIN fWork' : LET j == IF fifo THEN i + 1 ELSE i
                                     IN  j \in DOMAIN fWork /\ fWork'[i] = fWork[j]
         /\ Popped = fWork[IF fifo THEN 1 ELSE Len(fWork)]
<1>1. Len(fWork) \in Nat /\ Len(fWork) > 0 /\ DOMAIN fWork = 1..Len(fWork)
  BY LenProperties, EmptySeq
<1>2. CASE fifo
  <2>1. /\ Tail(fWork) \in Seq(Tasks \union {Null}) /\ Len(Tail(fWork)) = Len(fWork) - 1
        /\ \A i \in 1 .. Len(fWork) - 1 : Tail(fWork)[i] = fWork[i + 1]
    BY HeadTailProperties
  <2>2. DOMAIN Tail(fWork) = 1 .. Len(fWork) - 1
    BY <2>1, LenProperties
  <2>3. Popped = fWork[1]
    BY <1>2 DEF Popped
  <2> QED
    BY <1>1, <1>2, <2>1, <2>2, <2>3
<1>3. CASE ~fifo
  <2>1. Front(fWork) = [i \in 1 .. Len(fWork) - 1 |-> fWork[i]]
    BY <1>1 DEF Front
  <2>2. Popped = fWork[Len(fWork)]
    BY <1>3 DEF Popped, Last
  <2>3. DOMAIN fWork' = 1 .. Len(fWork) - 1 /\ \A i \in 1 .. Len(fWork) - 1 : fWork'[i] = fWork[i]
    BY <1>3, <2>1
  <2> QED
    BY <1>1, <1>3, <2>2, <2>3
<1> QED
  BY <1>2, <1>3

(* While nobody has added an empty function, nobody meets one.             *)
LEMMA EarlyPop ==
  ASSUME PoolInv, EndInv, nulls = 0, NEW t \in Threads, Pop(t)
  PROVE  /\ Popped # Null /\ Bottoms'
         /\ NoNulls'
         /\ \A u \in Threads : stack'[u] # <<>> \/ stack'[u] = stack[u]
         /\ \A u \in Threads : Waits(u)' => Waits(u) /\ Top(u)' = Top(u)
<1>1. /\ stack[t] # <<>> /\ Top(t).at = "pop" /\ fWork # <<>>
      /\ fWork' = IF fifo THEN Tail(fWork) ELSE Front(fWork)
  BY AtTop DEF Pop
<1>2. NoNulls /\ fWork \in Seq(Tasks \union {Null})
  BY DEF EndInv, PoolInv, ListOK
<1>3. Len(fWork) \in Nat /\ Len(fWork) > 0 /\ DOMAIN fWork = 1..Len(fWork)
  BY <1>1, <1>2, LenProperties, EmptySeq
<1>4. Popped \in Tasks
  <2>1. Popped \in Tasks \union {Null}
    BY <1>1, PopList DEF PoolInv
  <2>2. Popped = fWork[IF fifo THEN 1 ELSE Len(fWork)]
    BY <1>2, <1>3 DEF Popped, Last
  <2> QED
    BY <1>2, <1>3, <2>1, <2>2 DEF NoNulls
<1>5. NoNulls'
  BY <1>1, <1>2, <1>3, PopShifts DEF NoNulls
<1>6. /\ Resumed(Top(t)) \in Frame1 /\ Resumed(Top(t)).body = Top(t).body
  <2>1. GoodFrame(Top(t))
    BY <1>1, TopKnown DEF PoolInv
  <2> QED
    BY <2>1 DEF Resumed, GoodFrame, Frame1, Labels
<1>7. stack' = [stack EXCEPT ![t] = <<Frame(Popped), Resumed(Top(t))>> \o Tail(@)]
  BY <1>4, PoolAssumption DEF Pop, Top
<1>8. Bottoms' /\ stack'[t] # <<>> /\ \A u \in Threads : u # t => stack'[u] = stack[u]
  BY <1>1, <1>4, <1>6, <1>7, BottomsEnter DEF PoolInv, EndInv
<1>9. ~Waits(t)'
  BY <1>1, <1>4, <1>6, <1>7, EntersAt DEF PoolInv, Waits
<1>10. \A u \in Threads : Waits(u)' => Waits(u) /\ Top(u)' = Top(u)
  BY <1>8, <1>9 DEF Waits, At, Top
<1> QED
  BY <1>4, <1>5, <1>8, <1>10, PoolAssumption

LEMMA LooseIsDone ==
  ASSUME PoolInv, LooseAlone, NEW k \in Loose
  PROVE  fPending[k] = 0 /\ k \in Tasks
<1>1. k \in Tasks /\ k \in Bodies
  BY PoolAssumption DEF Bodies
<1>2. Out(k) = {}
  BY DEF LooseAlone, Out
<1> QED
  BY <1>1, <1>2, FS_EmptySet DEF PoolInv, Pended

(* The steps before the first empty function, by what they do to a stack.  *)
LEMMA EarlyEnough ==
  ASSUME EndInv, nulls = 0, nulls' = 0, destroyed' = destroyed,
         Bottoms', NoNulls', LooseNeverWait', \A w \in Workers : stack'[w] # <<>>
  PROVE  EndInv'
<1>1. NullsLast'
  BY DEF NoNulls, NullsLast
<1>2. ~(nulls' > 0) /\ ~(nulls > 0)
  OBVIOUS
<1> QED
  BY <1>1, <1>2 DEF EndInv

LEMMA EarlyGoes ==
  ASSUME PoolInv, EndInv, nulls = 0, nulls' = 0, destroyed' = destroyed, NoNulls',
         NEW t \in Threads, stack[t] # <<>>, NEW f \in Frame1, Goes(t, f),
         f.body = Top(t).body, f.at \in {"borrow", "pop"} => f.body \notin Loose
  PROVE  EndInv'
<1>1. Bottoms' /\ stack'[t] # <<>> /\ \A u \in Threads : u # t => stack'[u] = stack[u]
  BY BottomsGo DEF PoolInv, EndInv
<1>2. /\ stack'[t] \in Seq(Frame1) /\ stack'[t][1] = f
  BY GoesStack DEF PoolInv
<1>3. \A u \in Threads : Waits(u)' => Top(u)'.body \notin Loose
  <2>1. Head(stack'[t]) = f
    BY <1>1, <1>2
  <2>2. Waits(t)' => Top(t)'.body \notin Loose
    BY <2>1 DEF Waits, At, Top
  <2>3. \A u \in Threads : u # t /\ Waits(u)' => Top(u)'.body \notin Loose
    BY <1>1 DEF Waits, At, Top, EndInv, LooseNeverWait
  <2> QED
    BY <2>2, <2>3
<1>4. \A w \in Workers : stack'[w] # <<>>
  BY <1>1 DEF EndInv, Threads
<1> QED
  BY <1>1, <1>3, <1>4, EarlyEnough DEF LooseNeverWait

LEMMA EarlyReturns ==
  ASSUME PoolInv, EndInv, nulls = 0, nulls' = 0, destroyed' = destroyed, NoNulls',
         NEW t \in Threads, stack[t] # <<>>, Returns(t), Top(t).body # Null
  PROVE  EndInv'
<1>1. /\ Bottoms' /\ \A u \in Threads : u # t => stack'[u] = stack[u]
      /\ t \in Workers => stack'[t] # <<>>
  BY BottomsReturn DEF PoolInv, EndInv
<1>2. ~Waits(t)'
  BY ReturnsAt DEF PoolInv, Waits
<1>3. \A u \in Threads : Waits(u)' => Top(u)'.body \notin Loose
  BY <1>1, <1>2 DEF Waits, At, Top, EndInv, LooseNeverWait
<1>4. \A w \in Workers : stack'[w] # <<>>
  BY <1>1 DEF EndInv, Threads
<1> QED
  BY <1>1, <1>3, <1>4, EarlyEnough DEF LooseNeverWait

LEMMA EarlyAdds ==
  ASSUME PoolInv, EndInv, nulls = 0, NEW t \in Threads, Add(t) \/ Push(t)
  PROVE  EndInv'
<1>1. CASE Add(t)
  <2>1. PICK batch \in {{task} : task \in Top(t).todo} \union {Top(t).todo} :
          Goes(t, [Top(t) EXCEPT !.todo = @ \ batch, !.batch = batch])
    BY <1>1 DEF Add
  <2>2. stack[t] # <<>> /\ Top(t).at = "run" /\ batch \subseteq Top(t).todo
        /\ UNCHANGED <<fWork, nulls, destroyed>>
    BY <1>1, AtTop DEF Add
  <2>3. GoodFrame(Top(t))
    BY <2>2, TopKnown DEF PoolInv
  <2> DEFINE f == [Top(t) EXCEPT !.todo = @ \ batch, !.batch = batch]
  <2>4. f \in Frame1 /\ f.body = Top(t).body /\ f.at = "run"
    BY <2>2, <2>3 DEF GoodFrame, Frame1
  <2>5. NoNulls'
    BY <2>2 DEF EndInv, NoNulls
  <2> HIDE DEF f
  <2> QED
    BY <2>1, <2>2, <2>4, <2>5, EarlyGoes DEF f
<1>2. CASE Push(t)
  <2>1. PICK k \in Top(t).batch :
          /\ fWork' = Append(fWork, k)
          /\ Goes(t, [Top(t) EXCEPT !.batch = @ \ {k}, !.at = "signal"])
    BY <1>2 DEF Push
  <2>2. stack[t] # <<>> /\ Top(t).at = "run" /\ UNCHANGED <<nulls, destroyed>>
    BY <1>2, AtTop DEF Push
  <2>3. GoodFrame(Top(t))
    BY <2>2, TopKnown DEF PoolInv
  <2> DEFINE f == [Top(t) EXCEPT !.batch = @ \ {k}, !.at = "signal"]
  <2>4. f \in Frame1 /\ f.body = Top(t).body /\ f.at = "signal" /\ k \in Tasks
    BY <2>2, <2>3 DEF GoodFrame, Frame1, Labels
  <2>5. NoNulls'
    <3>1. fWork \in Seq(Tasks \union {Null}) /\ k # Null /\ NoNulls
      BY <2>4, PoolAssumption DEF PoolInv, ListOK, EndInv
    <3>2. /\ Len(fWork') = Len(fWork) + 1 /\ fWork' \in Seq(Tasks \union {Null})
          /\ \A i \in 1..Len(fWork) : fWork'[i] = fWork[i]
          /\ fWork'[Len(fWork) + 1] = k
      BY <2>1, <2>4, <3>1, AppendProperties
    <3>3. DOMAIN fWork = 1..Len(fWork) /\ DOMAIN fWork' = 1 .. Len(fWork) + 1 /\ Len(fWork) \in Nat
      BY <3>1, <3>2, LenProperties
    <3> QED
      BY <3>1, <3>2, <3>3 DEF NoNulls
  <2> HIDE DEF f
  <2> QED
    BY <2>1, <2>2, <2>4, <2>5, EarlyGoes DEF f
<1> QED
  BY <1>1, <1>2

LEMMA EarlyTokens ==
  ASSUME PoolInv, EndInv, LooseAlone, nulls = 0, NEW t \in Threads,
         Signal(t) \/ NotDone(t) \/ Borrow(t) \/ BorrowNothing(t) \/ LoopWait(t)
  PROVE  EndInv'
<1>1. stack[t] # <<>> /\ UNCHANGED <<fWork, nulls, destroyed>>
  BY AtTop DEF Signal, NotDone, Borrow, BorrowNothing, AddedAll, LoopWait
<1>2. GoodFrame(Top(t)) /\ NoNulls'
  BY <1>1, TopKnown DEF PoolInv, EndInv, NoNulls
<1>3. ASSUME NEW label \in Labels, Goes(t, [Top(t) EXCEPT !.at = label]),
             label \in {"borrow", "pop"} => Top(t).body \notin Loose
      PROVE  EndInv'
  <2> DEFINE f == [Top(t) EXCEPT !.at = label]
  <2>1. f \in Frame1 /\ f.body = Top(t).body /\ f.at = label
    BY <1>2 DEF GoodFrame, Frame1
  <2> HIDE DEF f
  <2> QED
    BY <1>1, <1>2, <1>3, <2>1, EarlyGoes DEF f
<1>4. CASE Signal(t)
  BY <1>3, <1>4 DEF Signal, Labels
<1>5. CASE NotDone(t) \/ Borrow(t) \/ BorrowNothing(t)
  <2>1. CASE NotDone(t)
    <3>1. Top(t).body \notin Loose
      BY <2>1, LooseIsDone DEF NotDone, Done
    <3> QED
      BY <1>3, <2>1, <3>1 DEF NotDone, Labels
  <2>2. CASE Borrow(t)
    <3>1. Top(t).body \notin Loose
      BY <2>2 DEF Borrow, EndInv, LooseNeverWait, Waits
    <3> QED
      BY <1>3, <2>2, <3>1 DEF Borrow, Labels
  <2>3. CASE BorrowNothing(t)
    BY <1>3, <2>3 DEF BorrowNothing, Labels
  <2> QED
    BY <1>5, <2>1, <2>2, <2>3
<1>6. CASE LoopWait(t)
  <2>1. Top(t).body \notin Loose
    BY <1>2, <1>6, AtTop, PoolAssumption DEF LoopWait, GoodFrame
  <2>2. CASE UNCHANGED stack
    <3>1. Bottoms' /\ LooseNeverWait' /\ \A w \in Workers : stack'[w] # <<>>
      BY <2>2 DEF EndInv, Bottoms, LooseNeverWait, Waits, At, Top
    <3> QED
      BY <1>1, <1>2, <3>1, EarlyEnough
  <2>3. CASE Goes(t, [Top(t) EXCEPT !.at = "pop"])
    BY <1>3, <2>1, <2>3 DEF Labels
  <2> QED
    BY <1>6, <2>2, <2>3 DEF LoopWait
<1> QED
  BY <1>4, <1>5, <1>6

LEMMA EarlyLeaves ==
  ASSUME PoolInv, EndInv, nulls = 0, NEW t \in Threads,
         Return(t) \/ CountDown(t) \/ Leave(t)
  PROVE  EndInv'
<1>1. stack[t] # <<>> /\ UNCHANGED <<fWork, nulls, destroyed>>
  BY AtTop DEF Return, CountDown, Leave, Done, AddedAll
<1>2. GoodFrame(Top(t)) /\ NoNulls'
  BY <1>1, TopKnown DEF PoolInv, EndInv, NoNulls
<1>3. Top(t).body # Null
  BY <1>2, AtTop, PoolAssumption DEF Return, CountDown, Leave, GoodFrame, Done, AddedAll
<1>4. CASE Returns(t)
  BY <1>1, <1>2, <1>3, <1>4, EarlyReturns
<1>5. CASE Goes(t, [Top(t) EXCEPT !.at = "count"])
  <2> DEFINE f == [Top(t) EXCEPT !.at = "count"]
  <2>1. f \in Frame1 /\ f.body = Top(t).body /\ f.at = "count"
    BY <1>2 DEF GoodFrame, Frame1, Labels
  <2> HIDE DEF f
  <2> QED
    BY <1>1, <1>2, <1>5, <2>1, EarlyGoes DEF f
<1> QED
  BY <1>4, <1>5 DEF Return, CountDown, Leave

LEMMA EarlyPops ==
  ASSUME PoolInv, EndInv, nulls = 0, NEW t \in Threads, Pop(t)
  PROVE  EndInv'
<1>1. UNCHANGED <<nulls, destroyed>>
  BY DEF Pop
<1>2. LooseNeverWait' /\ \A w \in Workers : stack'[w] # <<>>
  BY EarlyPop DEF EndInv, LooseNeverWait, Threads
<1> QED
  BY <1>1, <1>2, EarlyPop, EarlyEnough

(* The steps from the first empty function on.                             *)
LEMMA LateEnough ==
  ASSUME EndInv, nulls > 0, nulls' > 0, fifo' = fifo, ran \subseteq ran',
         ToAdd' = {}, InBatch' = {}, Counting' = {}, Occupied' \intersect Clients \subseteq {Owner},
         \A t \in Threads : Waits(t)' => Top(t)'.body = Null,
         Bottoms', fifo => NullsLast', Listed' \subseteq Listed,
         \A w \in Workers : stack'[w] = <<>> => stack[w] = <<>> \/ (fifo => Listed' = {}),
         destroyed' => \A t \in Threads : stack'[t] = <<>>
  PROVE  EndInv'
<1>1. Ending /\ ~(nulls = 0) /\ ~(nulls' = 0)
  BY DEF EndInv
<1>2. Ending'
  BY <1>1 DEF Ending
<1>3. LooseNeverWait'
  BY PoolAssumption DEF LooseNeverWait
<1>4. \A w \in Workers : stack'[w] = <<>> => (fifo => Listed' = {})
  BY DEF EndInv
<1> QED
  BY <1>1, <1>2, <1>3, <1>4 DEF EndInv

LEMMA LateIdle ==
  ASSUME PoolInv, EndInv, nulls > 0, NEW t \in Threads
  PROVE  /\ ~Add(t) /\ ~Push(t) /\ ~CountDown(t) /\ ~Leave(t)
         /\ ~destroyed \/ stack[t] = <<>>
<1>1. Ending
  BY DEF EndInv
<1>2. ASSUME Add(t) PROVE FALSE
  <2>1. stack[t] # <<>> /\ Top(t).todo # {}
    BY <1>2, AtTop DEF Add
  <2> QED
    BY <1>1, <2>1, TopKnown DEF PoolInv, Ending
<1>3. ASSUME Push(t) PROVE FALSE
  <2>1. stack[t] # <<>> /\ Top(t).batch # {}
    BY <1>3, AtTop DEF Push
  <2> QED
    BY <1>1, <2>1, TopKnown DEF PoolInv, Ending
<1>4. ASSUME CountDown(t) PROVE FALSE
  BY <1>1, <1>4, AtTop, TopKnown DEF CountDown, PoolInv, Ending
<1>5. ASSUME Leave(t) PROVE FALSE
  <2>1. stack[t] # <<>> /\ Top(t).body \in Bodies /\ Top(t).body = t /\ t # Owner
    BY <1>5, AtTop, DoneMeansRun DEF Leave, Done, AddedAll
  <2>2. t \in Occupied /\ t \in Clients
    BY <2>1, TopKnown, SetsOfTasks, PoolAssumption DEF PoolInv, Bodies, Threads
  <2> QED
    BY <1>1, <2>1, <2>2 DEF Ending
<1> QED
  BY <1>2, <1>3, <1>4, <1>5 DEF EndInv

(* Nothing any thread still waits for is on its way.                       *)
LEMMA LateNoBorrow ==
  ASSUME PoolInv, EndInv, nulls > 0, NEW t \in Threads
  PROVE  ~NotDone(t) /\ ~Borrow(t) /\ ~BorrowNothing(t)
<1>1. Ending
  BY DEF EndInv
<1>2. ASSUME NotDone(t) PROVE FALSE
  <2>1. stack[t] # <<>> /\ Top(t).at = "run" /\ fPending[Top(t).body] # 0
    BY <1>2, AtTop DEF NotDone, Done, AddedAll
  <2>2. Top(t).body \in Bodies
    BY <2>1, TopKnown DEF PoolInv, GoodFrame, Frame1, Bodies
  <2>3. Out(Top(t).body) = {}
    BY <1>1 DEF Ending, Out, PoolInv, OnePlace, AddedTo
  <2> QED
    BY <2>1, <2>2, <2>3, FS_EmptySet DEF PoolInv, Pended
<1>3. ~At(t, "borrow")
  BY <1>1, AtBorrow DEF Ending, Waits
<1> QED
  BY <1>2, <1>3 DEF Borrow, BorrowNothing

(* A frame of the end goes to another label.                               *)
LEMMA LateLabel ==
  ASSUME PoolInv, EndInv, nulls > 0, nulls' > 0, NEW t \in Threads, stack[t] # <<>>,
         Top(t).at # "count", NEW label \in Labels \ {"count"},
         label = "loop" <=> Top(t).body = Null /\ label # "pop",
         label \in {"borrow", "pop"} => Top(t).body = Null,
         Goes(t, [Top(t) EXCEPT !.at = label]),
         fifo' = fifo, ran' = ran, fifo => NullsLast', Listed' = Listed, destroyed' = destroyed
  PROVE  EndInv'
<1>1. Ending /\ GoodFrame(Top(t)) /\ ~destroyed
  BY TopKnown, LateIdle DEF PoolInv, EndInv
<1>2. label \in {"borrow", "pop"} => Top(t).todo = {} /\ Top(t).batch = {}
  BY <1>1, PoolAssumption DEF GoodFrame, AddedTo
<1>3. Moves(Occupied, Counting, ToAdd, InBatch)
  BY <1>2, LabelMoves
<1> DEFINE f == [Top(t) EXCEPT !.at = label]
<1>4. f \in Frame1 /\ f.body = Top(t).body /\ f.at = label
  BY <1>1 DEF GoodFrame, Frame1
<1> HIDE DEF f
<1>5. Goes(t, f)
  BY DEF f
<1>6. Bottoms' /\ stack'[t] # <<>> /\ \A u \in Threads : u # t => stack'[u] = stack[u]
  BY <1>4, <1>5, BottomsGo DEF PoolInv, EndInv
<1>7. Head(stack'[t]) = f
  BY <1>4, <1>5, GoesStack DEF PoolInv
<1>8. \A u \in Threads : Waits(u)' => Top(u)'.body = Null
  <2>1. Waits(t)' => Top(t)'.body = Null
    BY <1>4, <1>7 DEF Waits, At, Top
  <2>2. \A u \in Threads : u # t /\ Waits(u)' => Top(u)'.body = Null
    BY <1>1, <1>6 DEF Waits, At, Top, Ending
  <2> QED
    BY <2>1, <2>2
<1>9. \A w \in Workers : stack'[w] = <<>> => stack[w] = <<>>
  BY <1>6 DEF Threads
<1>10. /\ ToAdd' = {} /\ InBatch' = {} /\ Counting' = {}
       /\ Occupied' \intersect Clients \subseteq {Owner}
  BY <1>1, <1>3 DEF Moves, Ending
<1> QED
  BY <1>1, <1>6, <1>8, <1>9, <1>10, LateEnough

LEMMA LateReturns ==
  ASSUME PoolInv, EndInv, nulls > 0, NEW t \in Threads, stack[t] # <<>>,
         Returns(t), nulls' = nulls, fifo' = fifo, ran \subseteq ran',
         fifo => NullsLast', Listed' \subseteq Listed,
         Top(t).body = Null => (fifo => Listed' = {}),
         destroyed' => \A u \in Threads : stack'[u] = <<>>
  PROVE  EndInv'
<1>1. Ending
  BY DEF EndInv
<1>2. Top(t).todo = {} /\ Top(t).batch = {}
  BY <1>1, TopKnown DEF PoolInv, Ending
<1>3. Moves(Occupied \ {Top(t).body}, Counting \ {Top(t).body}, ToAdd, InBatch)
  BY <1>2, ReturnsMoves DEF PoolInv
<1>4. /\ Bottoms' /\ \A u \in Threads : u # t => stack'[u] = stack[u]
      /\ t \in Workers /\ Top(t).body # Null => stack'[t] # <<>>
  BY BottomsReturn DEF PoolInv, EndInv
<1>5. ~Waits(t)'
  BY ReturnsAt DEF PoolInv, Waits
<1>6. \A u \in Threads : Waits(u)' => Top(u)'.body = Null
  BY <1>1, <1>4, <1>5 DEF Waits, At, Top, Ending
<1>7. \A w \in Workers : stack'[w] = <<>> => stack[w] = <<>> \/ (fifo => Listed' = {})
  BY <1>4 DEF Threads
<1>8. /\ ToAdd' = {} /\ InBatch' = {} /\ Counting' = {}
      /\ Occupied' \intersect Clients \subseteq {Owner}
  BY <1>1, <1>3 DEF Moves, Ending
<1> QED
  BY <1>4, <1>6, <1>7, <1>8, LateEnough

LEMMA LatePops ==
  ASSUME PoolInv, EndInv, LooseAlone, nulls > 0, NEW t \in Threads, Pop(t)
  PROVE  EndInv'
<1>1. /\ stack[t] # <<>> /\ Top(t).at = "pop" /\ fWork # <<>>
      /\ fWork' = IF fifo THEN Tail(fWork) ELSE Front(fWork)
      /\ UNCHANGED <<fifo, nulls, ran, destroyed>>
  BY AtTop DEF Pop
<1>2. Ending /\ Top(t).body = Null /\ ~destroyed
  BY <1>1, LateIdle DEF EndInv, Ending, Waits, At, Top
<1>3. /\ Popped \in Tasks \union {Null} /\ (Popped # Null => Popped \in Listed)
      /\ Listed' = Listed \ {Popped}
  BY <1>1, PopList DEF PoolInv
<1>4. fWork \in Seq(Tasks \union {Null})
  BY DEF PoolInv, ListOK
<1>5. /\ DOMAIN fWork' = 1 .. Len(fWork) - 1
      /\ DOMAIN fWork = 1 .. Len(fWork) /\ Len(fWork) \in Nat /\ Len(fWork) > 0
      /\ \A i \in DOMAIN fWork' : LET j == IF fifo THEN i + 1 ELSE i
                                  IN  j \in DOMAIN fWork /\ fWork'[i] = fWork[j]
      /\ Popped = fWork[IF fifo THEN 1 ELSE Len(fWork)]
  BY <1>1, <1>4, PopShifts
<1>6. fifo => NullsLast'
  BY <1>5 DEF EndInv, NullsLast
<1>7. CASE Popped = Null
  <2>1. Returns(t)
    BY <1>2, <1>7 DEF Pop
  <2>2. fifo => Listed' = {}
    <3> SUFFICES ASSUME fifo PROVE Listed = {}
      BY <1>3
    <3>0. fWork[1] = Null
      BY <1>5, <1>7
    <3>1. fWork[1] = Null /\ NullsLast /\ 1 \in DOMAIN fWork
      BY <1>5, <3>0 DEF EndInv
    <3>2. ASSUME NEW j \in DOMAIN fWork PROVE fWork[j] = Null
      <4>1. j = 1 \/ 1 < j
        BY <1>5
      <4> QED
        BY <3>1, <4>1 DEF NullsLast
    <3> QED
      BY <3>2, PoolAssumption DEF Listed
  <2> QED
    BY <1>1, <1>2, <1>3, <1>6, <2>1, <2>2, LateReturns
<1>8. CASE Popped # Null
  <2> DEFINE g == Resumed(Top(t))
             k == Popped
  <2>1. k \in Loose /\ k \in Tasks /\ k \notin Occupied /\ AddedTo(k) = {}
    <3> HIDE DEF k
    <3>1. k \in Listed /\ k \in Tasks
      BY <1>3, <1>8, PoolAssumption DEF k
    <3>2. k \notin Occupied /\ k \notin ran
      BY <3>1 DEF PoolInv, OnePlace
    <3> QED
      BY <1>2, <3>1, <3>2 DEF Ending, LooseAlone
  <2>2. stack' = [stack EXCEPT ![t] = <<Frame(k), g>> \o Tail(@)]
    BY <1>8 DEF Pop, Top
  <2>3. GoodFrame(Top(t))
    BY <1>1, TopKnown DEF PoolInv
  <2>4. /\ g \in Frame1 /\ g.body = Top(t).body /\ g.at = "loop"
        /\ g.todo = Top(t).todo /\ g.batch = Top(t).batch
    BY <1>2, <2>3 DEF Resumed, GoodFrame, Frame1, Labels
  <2>5. GoodFrame(g)
    BY <1>1, <1>2, <2>3, <2>4 DEF GoodFrame
  <2> HIDE DEF g, k
  <2>6. Moves(Occupied \union {k}, Counting, ToAdd \union AddedTo(k), InBatch)
    BY <1>1, <2>1, <2>2, <2>4, <2>5, EntersMoves DEF PoolInv
  <2>7. Bottoms' /\ stack'[t] # <<>> /\ \A u \in Threads : u # t => stack'[u] = stack[u]
    BY <1>1, <2>1, <2>2, <2>4, BottomsEnter DEF PoolInv, EndInv
  <2>8. ~Waits(t)'
    BY <1>1, <2>1, <2>2, <2>4, EntersAt DEF PoolInv, Waits
  <2>9. \A u \in Threads : Waits(u)' => Top(u)'.body = Null
    BY <1>2, <2>7, <2>8 DEF Waits, At, Top, Ending
  <2>10. \A w \in Workers : stack'[w] = <<>> => stack[w] = <<>>
    BY <2>7 DEF Threads
  <2>11. /\ ToAdd' = {} /\ InBatch' = {} /\ Counting' = {}
         /\ Occupied' \intersect Clients \subseteq {Owner}
    BY <1>2, <2>1, <2>6, PoolAssumption DEF Moves, Ending
  <2>12. ran \subseteq ran' /\ fifo' = fifo /\ nulls' > 0 /\ Listed' \subseteq Listed /\ ~destroyed'
    BY <1>1, <1>2, <1>3
  <2> QED
    BY <1>6, <2>7, <2>9, <2>10, <2>11, <2>12, LateEnough
<1> QED
  BY <1>7, <1>8

LEMMA LateSteps ==
  ASSUME PoolInv, EndInv, nulls > 0, NEW t \in Threads, Signal(t) \/ LoopWait(t) \/ Return(t)
  PROVE  EndInv'
<1>1. /\ stack[t] # <<>> /\ UNCHANGED <<fifo, fWork, nulls, destroyed>>
      /\ Listed' = Listed /\ (fifo => NullsLast')
  BY AtTop DEF Signal, LoopWait, Return, Done, AddedAll, EndInv, NullsLast, Listed
<1>2. Ending /\ GoodFrame(Top(t)) /\ nulls' > 0 /\ ~destroyed
  BY <1>1, TopKnown, LateIdle DEF PoolInv, EndInv
<1>3. CASE Signal(t)
  <2>1. Top(t).at = "signal" /\ Top(t).body # Null /\ ran' = ran
    BY <1>2, <1>3, AtTop DEF Signal, GoodFrame
  <2> QED
    <3>1. Goes(t, [Top(t) EXCEPT !.at = "run"]) /\ "run" \in Labels \ {"count"}
      BY <1>3 DEF Signal, Labels
    <3>2. fifo' = fifo /\ destroyed' = destroyed /\ Top(t).at # "count"
      BY <1>1, <2>1
    <3>3. "run" = "loop" <=> Top(t).body = Null /\ "run" # "pop"
      BY <2>1
    <3> QED
      BY <1>1, <1>2, <2>1, <3>1, <3>2, <3>3, LateLabel
<1>4. CASE LoopWait(t)
  <2>1. Top(t).at = "loop" /\ Top(t).body = Null /\ ran' = ran
    BY <1>2, <1>4, AtTop DEF LoopWait, GoodFrame
  <2>2. CASE UNCHANGED stack
    <3>1. Bottoms' /\ Occupied' = Occupied /\ ToAdd' = ToAdd /\ InBatch' = InBatch
          /\ Counting' = Counting
      BY <2>2 DEF EndInv, Bottoms, Occupied, ToAdd, InBatch, Counting
    <3>2. \A u \in Threads : Waits(u)' => Top(u)'.body = Null
      BY <1>2, <2>2 DEF Waits, At, Top, Ending
    <3> QED
      <4>1. /\ fifo' = fifo /\ ran \subseteq ran' /\ Listed' \subseteq Listed /\ ~destroyed'
            /\ ToAdd' = {} /\ InBatch' = {} /\ Counting' = {}
            /\ Occupied' \intersect Clients \subseteq {Owner}
        BY <1>1, <1>2, <2>1, <3>1 DEF Ending
      <4>2. \A w \in Workers : stack'[w] = <<>> => stack[w] = <<>>
        BY <2>2
      <4> QED
        BY <1>1, <1>2, <3>1, <3>2, <4>1, <4>2, LateEnough
  <2>3. CASE Goes(t, [Top(t) EXCEPT !.at = "pop"])
    <3>1. "pop" \in Labels \ {"count"} /\ Top(t).at # "count"
      BY <2>1 DEF Labels
    <3>2. fifo' = fifo /\ destroyed' = destroyed
      BY <1>1
    <3>3. "pop" = "loop" <=> Top(t).body = Null /\ "pop" # "pop"
      OBVIOUS
    <3> QED
      BY <1>1, <1>2, <2>1, <2>3, <3>1, <3>2, <3>3, LateLabel
  <2> QED
    BY <1>4, <2>2, <2>3 DEF LoopWait
<1>5. CASE Return(t)
  <2>1. /\ Top(t).at = "run" /\ Top(t).body \in Tasks /\ ran \subseteq ran'
    BY <1>5, AtTop DEF Return, Done, AddedAll
  <2>2. Top(t).body # Null
    BY <2>1, PoolAssumption
  <2>3. Top(t).body \in Occupied /\ Top(t).body \notin Counting
    BY <1>1, <2>1, <2>2, TopKnown DEF PoolInv
  <2>4. Top(t).body \in Loose
    BY <1>2, <2>1, <2>3 DEF Ending, PoolInv, OnePlace
  <2>5. Returns(t)
    BY <1>5, <2>4 DEF Return
  <2> QED
    <3>1. fifo' = fifo /\ nulls' = nulls /\ Listed' \subseteq Listed /\ ~destroyed'
      BY <1>1, <1>2
    <3> QED
      BY <1>1, <2>1, <2>2, <2>5, <3>1, LateReturns
<1> QED
  BY <1>3, <1>4, <1>5

(* When the destructor adds its empty functions everything that somebody   *)
(* waits for has run: the clients are through with their groups, and so,   *)
(* from there down, is every task.                                         *)
LEMMA LastLeaves ==
  ASSUME PoolInv, EndInv, LooseAlone, Grounded, nulls = 0, Destroying
  PROVE  Ending
<1>1. /\ Owner \in Threads /\ Owner \in Bodies /\ stack[Owner] # <<>>
      /\ Top(Owner).at = "run" /\ Top(Owner).todo = {} /\ Top(Owner).batch = {}
      /\ Top(Owner).body = Owner
      /\ \A t \in Clients \ {Owner} : stack[t] = <<>>
  BY AtTop, PoolAssumption DEF Destroying, Done, AddedAll, Threads, Bodies
<1>2. /\ AddedTo(Owner) \ Loose \subseteq ran
      /\ \A k \in Counting : AddedBy[k] # Owner
  BY <1>1, DoneMeansRun DEF Destroying
<1>3. \A t \in Threads : \A i \in DOMAIN stack[t] : stack[t][i].body \in Clients => t = Owner
  <2> SUFFICES ASSUME NEW t \in Threads, NEW i \in DOMAIN stack[t], stack[t][i].body \in Clients
               PROVE  t = Owner
    OBVIOUS
  <2>1. t \in Clients
    BY DEF PoolInv, Shape
  <2>2. stack[t] # <<>>
    OBVIOUS
  <2> QED
    BY <1>1, <2>1, <2>2
<1>4. Occupied \intersect Clients \subseteq {Owner}
  BY <1>3 DEF Occupied, PoolInv, Shape
<1>5. \A b \in Bodies : AddedBy[b] \in Clients /\ b \in Tasks => AddedBy[b] = Owner \/ Through(AddedBy[b])
  BY <1>4 DEF Through
<1>6. Tasks \ Loose \subseteq ran
  <2> DEFINE S == {k \in Tasks \ Loose : k \notin ran}
  <2>1. ASSUME S # {} PROVE FALSE
    <3>1. PICK k \in S : AddedBy[k] \notin S
      BY <2>1 DEF Grounded
    <3>2. k \in Tasks \ Loose /\ k \notin ran /\ AddedBy[k] \in Tasks \union Clients
          /\ k \in AddedTo(AddedBy[k]) /\ k \in Bodies
      BY PoolAssumption DEF AddedTo, Bodies
    <3>3. AddedBy[k] \notin Loose
      BY <3>2 DEF LooseAlone
    <3>4. AddedBy[k] = Owner \/ Through(AddedBy[k])
      BY <1>5, <3>1, <3>2, <3>3 DEF Through
    <3> QED
      BY <1>2, <3>2, <3>4 DEF PoolInv, Awaited, Bodies
  <2> QED
    BY <2>1
<1>7. Counting = {}
  <2>1. ASSUME NEW k \in Counting PROVE FALSE
    <3>1. k \in Tasks \ Loose /\ AddedBy[k] \in Tasks \union Clients /\ k \in AddedTo(AddedBy[k])
          /\ k \in Bodies
      BY CountingTasks, PoolAssumption DEF PoolInv, AddedTo, Bodies
    <3>2. AddedBy[k] \notin Loose /\ AddedBy[k] # Owner
      BY <1>2, <3>1 DEF LooseAlone
    <3>3. Through(AddedBy[k])
      BY <1>5, <1>6, <3>1, <3>2 DEF Through
    <3> QED
      BY <3>3 DEF PoolInv, Awaited
  <2> QED
    BY <2>1
<1>8. Occupied \intersect (Tasks \ Loose) = {}
  BY <1>6, <1>7 DEF PoolInv, OnePlace
<1>9. ToAdd = {} /\ InBatch = {}
  <2>1. ASSUME NEW t \in Threads, NEW i \in DOMAIN stack[t],
               NEW k \in stack[t][i].todo \union stack[t][i].batch
        PROVE  FALSE
    <3>1. GoodFrame(stack[t][i])
      BY DEF PoolInv, Shape
    <3>2. k \in Tasks /\ AddedBy[k] = stack[t][i].body /\ AddedBy[k] \in Bodies
      BY <3>1, PoolAssumption DEF GoodFrame, AddedTo, Bodies
    <3>3. AddedBy[k] \in Occupied
      BY <3>2 DEF Occupied
    <3>4. AddedBy[k] \notin Loose
      BY <3>2 DEF LooseAlone, AddedTo
    <3>5. AddedBy[k] \in Clients
      BY <1>8, <3>2, <3>3, <3>4 DEF Bodies
    <3>6. AddedBy[k] = Owner
      BY <1>4, <3>3, <3>5
    <3>7. k \in ToAdd \union InBatch
      BY <3>2 DEF ToAdd, InBatch
    <3> QED
      BY <1>1, <3>6, <3>7, TopKnown DEF PoolInv
  <2> QED
    BY <2>1 DEF ToAdd, InBatch
<1>10. ASSUME NEW t \in Threads, Waits(t) PROVE Top(t).body = Null
  <2>1. stack[t] # <<>> /\ Top(t).at \in {"borrow", "pop"} /\ Top(t).body \notin Loose
    BY <1>10, AtTop DEF EndInv, LooseNeverWait, Waits
  <2>2. Top(t).body # Null => Top(t).body \in Occupied
    BY <2>1, TopKnown DEF PoolInv
  <2>3. Top(t).body \notin Tasks \/ Top(t).body = Null
    BY <1>8, <2>1, <2>2
  <2>4. Top(t).body \notin Clients
    <3>1. 1 \in DOMAIN stack[t] /\ Top(t) = stack[t][1]
      BY <2>1, TopIsFirst DEF PoolInv
    <3> QED
      BY <1>1, <1>3, <2>1, <3>1
  <2> QED
    BY <2>1, <2>2, <2>3, <2>4, SetsOfTasks DEF Bodies
<1> QED
  BY <1>4, <1>6, <1>7, <1>9, <1>10 DEF Ending

LEMMA EndAddsNull ==
  ASSUME PoolInv, EndInv, LooseAlone, Grounded, AddNull
  PROVE  EndInv'
<1>1. /\ Owner \in Threads /\ stack[Owner] # <<>> /\ Top(Owner).body = Owner
      /\ Top(Owner).at = "run" /\ Top(Owner).todo = {} /\ Top(Owner).batch = {}
      /\ nulls' = nulls + 1 /\ fWork' = Append(fWork, Null)
      /\ Goes(Owner, [Top(Owner) EXCEPT !.at = "signal"])
      /\ UNCHANGED <<fifo, ran, destroyed>>
  BY AtTop, PoolAssumption DEF AddNull, Destroying, Done, AddedAll, Threads
<1>2. nulls \in Nat /\ nulls' > 0 /\ ~(nulls' = 0)
  <2>1. nulls \in Nat
    BY DEF PoolInv, Basics
  <2> QED
    BY <1>1, <2>1
<1>3. Ending
  BY <1>2, LastLeaves DEF EndInv, AddNull
<1>4. ~destroyed
  BY <1>1 DEF EndInv
<1>5. GoodFrame(Top(Owner)) /\ Owner # Null
  BY <1>1, TopKnown, PoolAssumption DEF PoolInv
<1>6. Moves(Occupied, Counting, ToAdd, InBatch)
  <2>1. "signal" \in Labels \ {"count"} /\ "signal" # "loop" /\ "signal" # "pop"
    BY DEF Labels
  <2> QED
    BY <1>1, <1>5, <2>1, LabelMoves
<1> DEFINE f == [Top(Owner) EXCEPT !.at = "signal"]
<1>7. f \in Frame1 /\ f.body = Top(Owner).body /\ f.at = "signal"
  BY <1>5 DEF GoodFrame, Frame1, Labels
<1> HIDE DEF f
<1>8. Goes(Owner, f)
  BY <1>1 DEF f
<1>9. Bottoms' /\ stack'[Owner] # <<>> /\ \A u \in Threads : u # Owner => stack'[u] = stack[u]
  BY <1>1, <1>7, <1>8, BottomsGo DEF PoolInv, EndInv
<1>10. Head(stack'[Owner]) = f
  BY <1>1, <1>7, <1>8, GoesStack DEF PoolInv
<1>11. \A u \in Threads : Waits(u)' => Top(u)'.body = Null
  <2>1. ~Waits(Owner)'
    BY <1>7, <1>10 DEF Waits, At
  <2>2. \A u \in Threads : u # Owner /\ Waits(u)' => Top(u)'.body = Null
    BY <1>3, <1>9 DEF Waits, At, Top, Ending
  <2> QED
    BY <2>1, <2>2
<1>12. Ending'
  BY <1>1, <1>3, <1>6, <1>11 DEF Ending, Moves
<1>13. LooseNeverWait'
  BY <1>11, PoolAssumption DEF LooseNeverWait
<1>14. Listed' = Listed
  <2>1. Null \notin Listed
    BY PoolAssumption DEF Listed
  <2> QED
    BY <1>1, <2>1, AppendList DEF PoolInv
<1>15. (fifo => NullsLast)'
  <2> SUFFICES ASSUME fifo PROVE NullsLast'
    BY <1>1
  <2>1. fWork \in Seq(Tasks \union {Null}) /\ NullsLast
    BY DEF PoolInv, ListOK, EndInv
  <2>2. /\ Len(fWork') = Len(fWork) + 1 /\ fWork' \in Seq(Tasks \union {Null})
        /\ \A i \in 1..Len(fWork) : fWork'[i] = fWork[i]
        /\ fWork'[Len(fWork) + 1] = Null
    BY <1>1, <2>1, AppendProperties
  <2>3. DOMAIN fWork = 1..Len(fWork) /\ DOMAIN fWork' = 1 .. Len(fWork) + 1 /\ Len(fWork) \in Nat
    BY <2>1, <2>2, LenProperties
  <2> QED
    BY <2>1, <2>2, <2>3 DEF NullsLast
<1>16. \A w \in Workers : stack'[w] = <<>> => nulls' > 0 /\ (fifo' => Listed' = {})
  BY <1>1, <1>2, <1>9, <1>14 DEF EndInv, Threads
<1> QED
  BY <1>1, <1>2, <1>4, <1>9, <1>12, <1>13, <1>15, <1>16 DEF EndInv

LEMMA EndJoins ==
  ASSUME PoolInv, EndInv, Join
  PROVE  EndInv'
<1>1. /\ Owner \in Threads /\ stack[Owner] # <<>> /\ Top(Owner).body = Owner
      /\ nulls = Cardinality(Workers) /\ Returns(Owner)
      /\ \A t \in Workers : stack[t] = <<>>
      /\ \A t \in Clients \ {Owner} : stack[t] = <<>>
      /\ UNCHANGED <<fifo, fWork, nulls, ran>>
  BY AtTop, PoolAssumption DEF Join, Destroying, Done, AddedAll, Threads
<1>2. nulls > 0
  <2>1. Cardinality(Workers) \in Nat /\ Cardinality(Workers) # 0
    BY PoolAssumption, FS_CardinalityType, FS_EmptySet
  <2> QED
    BY <1>1, <2>1
<1>3. Owner # Null /\ Own(Owner) = Owner
  BY PoolAssumption DEF Own
<1>4. \A u \in Threads : stack'[u] = <<>>
  BY <1>1, <1>3, BottomsReturn DEF PoolInv, EndInv, Threads
<1>5. Listed' = Listed /\ (fifo => NullsLast')
  BY <1>1 DEF Listed, NullsLast, EndInv
<1>6. nulls' = nulls /\ fifo' = fifo /\ ran \subseteq ran' /\ Listed' \subseteq Listed
  BY <1>1, <1>5
<1> QED
  BY <1>1, <1>2, <1>3, <1>4, <1>5, <1>6, LateReturns

LEMMA EndInvInit == Init => EndInv
<1> SUFFICES ASSUME Init PROVE EndInv
  OBVIOUS
<1>1. /\ fWork = <<>> /\ nulls = 0 /\ destroyed = FALSE
      /\ stack = [t \in Threads |-> IF t \in Workers THEN <<Loop>> ELSE <<Frame(t)>>]
  BY DEF Init
<1>2. DOMAIN fWork = {}
  BY <1>1
<1>3. NoNulls /\ NullsLast
  BY <1>2 DEF NoNulls, NullsLast
<1>4. ASSUME NEW t \in Threads
      PROVE  /\ stack[t] # <<>> /\ ~Waits(t)
             /\ \A i \in DOMAIN stack[t] : stack[t][i].body = Own(t) /\ i = Len(stack[t])
  <2>1. CASE t \in Workers
    BY <1>1, <2>1 DEF Loop, Own, Waits, At
  <2>2. CASE t \notin Workers
    BY <1>1, <2>2 DEF Frame, Own, Waits, At
  <2> QED
    BY <2>1, <2>2
<1>5. Bottoms /\ LooseNeverWait /\ \A w \in Workers : stack[w] # <<>>
  BY <1>4 DEF Bottoms, LooseNeverWait, Threads
<1>6. ~(nulls > 0)
  BY <1>1
<1> QED
  BY <1>1, <1>3, <1>5, <1>6 DEF EndInv

LEMMA EndStutters ==
  ASSUME EndInv, UNCHANGED <<fifo, fWork, stack, nulls, ran, destroyed>>
  PROVE  EndInv'
<1>1. /\ Bottoms' /\ LooseNeverWait' /\ (NoNulls => NoNulls') /\ (NullsLast => NullsLast')
      /\ Listed' = Listed
  BY DEF EndInv, Bottoms, LooseNeverWait, NoNulls, NullsLast, Listed, Waits, At, Top
<1>2. Ending => Ending'
  BY DEF Ending, ToAdd, InBatch, Counting, Occupied, Waits, At, Top
<1> QED
  BY <1>1, <1>2 DEF EndInv

LEMMA EndInvNext ==
  ASSUME LooseAlone, Grounded
  PROVE  PoolInv /\ EndInv /\ [Next]_vars => EndInv'
<1> SUFFICES ASSUME PoolInv, EndInv, [Next]_vars PROVE EndInv'
  OBVIOUS
<1>1. nulls = 0 \/ nulls > 0
  BY DEF PoolInv, Basics
<1>2. ASSUME NEW t \in Threads, Add(t) \/ Push(t) PROVE EndInv'
  BY <1>1, <1>2, EarlyAdds, LateIdle
<1>3. ASSUME NEW t \in Threads,
             Signal(t) \/ NotDone(t) \/ Borrow(t) \/ BorrowNothing(t) \/ LoopWait(t)
      PROVE  EndInv'
  BY <1>1, <1>3, EarlyTokens, LateSteps, LateNoBorrow
<1>4. ASSUME NEW t \in Threads, Pop(t) PROVE EndInv'
  BY <1>1, <1>4, EarlyPops, LatePops
<1>5. ASSUME NEW t \in Threads, Return(t) \/ CountDown(t) \/ Leave(t) PROVE EndInv'
  BY <1>1, <1>5, EarlyLeaves, LateSteps, LateIdle
<1>6. CASE AddNull
  BY <1>6, EndAddsNull
<1>7. CASE Join
  BY <1>7, EndJoins
<1>8. CASE UNCHANGED vars
  BY <1>8, EndStutters DEF vars
<1> QED
  BY <1>2, <1>3, <1>4, <1>5, <1>6, <1>7, <1>8 DEF Next, Step, Terminated

(* A FIFO pool has run everything it was given when its destructor is      *)
(* through, also what nobody waits for (SkExecutor.cpp:82-89).             *)
THEOREM FifoRunsEverything ==
  ASSUME LooseAlone, Grounded
  PROVE  Spec => []FifoRunsAll
<1>1. PoolInv /\ EndInv => FifoRunsAll
  <2> SUFFICES ASSUME PoolInv, EndInv, destroyed, fifo, NEW k \in Tasks
               PROVE  k \in ran
    BY DEF FifoRunsAll, PoolInv, Basics
  <2>1. Ending /\ \A t \in Threads : stack[t] = <<>>
    BY DEF EndInv
  <2>2. Occupied = {}
    BY <2>1 DEF Occupied
  <2>3. Listed = {}
    <3>1. PICK w \in Workers : TRUE
      BY PoolAssumption
    <3> QED
      BY <2>1, <3>1 DEF EndInv, Threads
  <2>4. AddedBy[k] \in Clients \union ran
    BY <2>1, PoolAssumption DEF Ending, LooseAlone, AddedTo
  <2>5. k \in ToAdd \union InBatch \union Listed \union Occupied \union ran
    BY <2>4 DEF PoolInv, OnItsWay
  <2> QED
    BY <2>1, <2>2, <2>3, <2>5 DEF Ending
<1>2. Init => EndInv
  BY EndInvInit
<1>3. PoolInv /\ EndInv /\ [Next]_vars => EndInv'
  BY EndInvNext
<1> QED
  BY <1>1, <1>2, <1>3, PoolInvariance, PTL DEF Spec

(* A thread that borrows work never takes an empty function, which is for  *)
(* a worker: no worker is left waiting for the one it needs to stop        *)
(* (SkAssertResult, SkExecutor.cpp:105).                                   *)
THEOREM BorrowersGetWork ==
  ASSUME LooseAlone, Grounded
  PROVE  Spec => []BorrowGetsWork
<1>1. PoolInv /\ EndInv => BorrowGetsWork
  <2> SUFFICES ASSUME PoolInv, EndInv, NEW t \in Threads, At(t, "pop"), Top(t).body # Null, fWork # <<>>
               PROVE  Popped # Null
    BY DEF BorrowGetsWork
  <2>1. nulls = 0 /\ NoNulls
    BY DEF EndInv, Ending, PoolInv, Basics, Waits
  <2>2. fWork \in Seq(Tasks \union {Null})
    BY DEF PoolInv, ListOK
  <2>3. Len(fWork) \in Nat /\ Len(fWork) > 0 /\ DOMAIN fWork = 1..Len(fWork)
    BY <2>2, LenProperties, EmptySeq
  <2>4. Popped = fWork[IF fifo THEN 1 ELSE Len(fWork)]
    BY <2>3 DEF Popped, Last
  <2> QED
    BY <2>1, <2>3, <2>4 DEF NoNulls
<1>2. Init => EndInv
  BY EndInvInit
<1>3. PoolInv /\ EndInv /\ [Next]_vars => EndInv'
  BY EndInvNext
<1> QED
  BY <1>1, <1>2, <1>3, PoolInvariance, PTL DEF Spec
=============================================================================
