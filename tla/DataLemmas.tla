------------------------------ MODULE DataLemmas ----------------------------
(***************************************************************************)
(* What the proofs need of sums over finite sets, of the order of a list,  *)
(* of what is left of a list when some elements are taken out, and of the  *)
(* rows and columns of a table. A sum is the community modules' fold of +: *)
(* one element after another, in the order of CHOOSE. That the order makes *)
(* no difference is proved here.                                           *)
(*                                                                         *)
(* An induction over finite sets is an argument about a smallest           *)
(* counterexample, which MinimalSet provides; one over a list is about the *)
(* first place where it goes wrong (FirstOf).                              *)
(***************************************************************************)
EXTENDS Integers, FiniteSets, Sequences, Lists, FiniteSetTheorems, SequenceTheorems,
        WellFoundedInduction, TLAPS

Some(s) == CHOOSE x \in s : TRUE
Less(s) == s \ {Some(s)}

(* A fold over the subsets of S, and what it gives for S itself.           *)
Fold(W, S) == CHOOSE g : g = [s \in SUBSET S |-> IF s = {} THEN 0 ELSE W[Some(s)] + g[Less(s)]]
Total(W, S) == Fold(W, S)[S]

LEMMA MinimalSet ==
  ASSUME NEW S, IsFiniteSet(S), NEW P \in SUBSET SUBSET S, P # {}
  PROVE  \E s \in P : \A u \in P : u \subseteq s => u = s
<1> DEFINE R == StrictSubsetOrdering(S)
<1>1. IsWellFoundedOn(R, SUBSET S)
  BY FS_StrictSubsetOrderingWellFounded, FS_FiniteSubsetsOfFinite
<1>2. \A u, s \in SUBSET S : <<u, s>> \in R <=> u \subseteq s /\ u # s
  BY DEF StrictSubsetOrdering
<1> HIDE DEF R
<1>3. PICK s \in P : \A u \in P : <<u, s>> \notin R
  BY <1>1, WFMin, Zenon
<1> QED
  BY <1>2, <1>3

LEMMA SomeIn ==
  ASSUME NEW s, s # {}
  PROVE  Some(s) \in s /\ Less(s) \subseteq s /\ Less(s) # s /\ s = Less(s) \union {Some(s)}
<1>1. Some(s) \in s
  BY DEF Some
<1> QED
  BY <1>1 DEF Less

(* What a fold over S has to satisfy.                                      *)
Folds(g, W, S) == g = [s \in SUBSET S |-> IF s = {} THEN 0 ELSE W[Some(s)] + g[Less(s)]]

LEMMA FoldsAre ==
  ASSUME NEW g, NEW W, NEW S, Folds(g, W, S), NEW s \in SUBSET S
  PROVE  g[s] = IF s = {} THEN 0 ELSE W[Some(s)] + g[Less(s)]
<1> DEFINE F(h) == [u \in SUBSET S |-> IF u = {} THEN 0 ELSE W[Some(u)] + h[Less(u)]]
<1>1. g = F(g)
  BY DEF Folds
<1>2. F(g)[s] = IF s = {} THEN 0 ELSE W[Some(s)] + g[Less(s)]
  OBVIOUS
<1> QED
  BY <1>1, <1>2

LEMMA FoldsAgree ==
  ASSUME NEW W, NEW S, IsFiniteSet(S), NEW T \in SUBSET S, NEW U \in SUBSET S,
         NEW g, Folds(g, W, T), NEW h, Folds(h, W, U), NEW s \in SUBSET (T \intersect U)
  PROVE  g[s] = h[s]
<1> DEFINE P == {u \in SUBSET (T \intersect U) : g[u] # h[u]}
<1>1. ASSUME P # {} PROVE FALSE
  <2>2. PICK u \in P : \A v \in P : v \subseteq u => v = u
    <3>1. P \in SUBSET SUBSET S
      OBVIOUS
    <3> HIDE DEF P
    <3> QED
      BY <1>1, <3>1, MinimalSet
  <2>3. u \in SUBSET T /\ u \in SUBSET U /\ u \subseteq T \intersect U /\ g[u] # h[u]
    OBVIOUS
  <2>4. /\ g[u] = IF u = {} THEN 0 ELSE W[Some(u)] + g[Less(u)]
        /\ h[u] = IF u = {} THEN 0 ELSE W[Some(u)] + h[Less(u)]
    BY <2>3, FoldsAre
  <2>5. u # {}
    BY <2>3, <2>4
  <2>6. Less(u) \notin P /\ Less(u) \subseteq u
    BY <2>2, <2>5, SomeIn
  <2>7. g[Less(u)] = h[Less(u)]
    BY <2>3, <2>6
  <2> QED
    BY <2>3, <2>4, <2>5, <2>7
<1> QED
  BY <1>1

LEMMA FoldExists ==
  ASSUME NEW W, NEW S, IsFiniteSet(S), NEW T \in SUBSET S
  PROVE  Folds(Fold(W, T), W, T)
<1> DEFINE P == {u \in SUBSET S : ~ \E g : Folds(g, W, u)}
<1>1. ASSUME P # {} PROVE FALSE
  <2>1. PICK u \in P : \A v \in P : v \subseteq u => v = u
    <3>1. P \in SUBSET SUBSET S
      OBVIOUS
    <3> HIDE DEF P
    <3> QED
      BY <1>1, <3>1, MinimalSet
  <2>2. \A v \in SUBSET u : v # u => Folds(Fold(W, v), W, v)
    <3> SUFFICES ASSUME NEW v \in SUBSET u, v # u PROVE Folds(Fold(W, v), W, v)
      OBVIOUS
    <3>1. \E g : Folds(g, W, v)
      BY <2>1
    <3> QED
      BY <3>1 DEF Folds, Fold
  <2> DEFINE h == [v \in SUBSET u |-> IF v = {} THEN 0 ELSE W[Some(v)] + Total(W, Less(v))]
  <2>3. ASSUME NEW v \in SUBSET u, v # u PROVE h[v] = Total(W, v)
    <3>1. Folds(Fold(W, v), W, v) /\ v \in SUBSET v /\ v \in SUBSET S
      BY <2>2, <2>3
    <3>2. Total(W, v) = IF v = {} THEN 0 ELSE W[Some(v)] + Fold(W, v)[Less(v)]
      BY <3>1, FoldsAre DEF Total
    <3>3. ASSUME v # {} PROVE Fold(W, v)[Less(v)] = Total(W, Less(v))
      <4>1. Less(v) \in SUBSET u /\ Less(v) # u /\ Less(v) \in SUBSET S /\ Less(v) \in SUBSET v
        BY <2>3, <3>1, <3>3, SomeIn
      <4>2. Folds(Fold(W, Less(v)), W, Less(v))
        BY <2>2, <4>1
      <4>3. Less(v) \in SUBSET (v \intersect Less(v))
        BY <4>1
      <4> QED
        BY <3>1, <4>1, <4>2, <4>3, FoldsAgree DEF Total
    <3>4. h[v] = IF v = {} THEN 0 ELSE W[Some(v)] + Total(W, Less(v))
      OBVIOUS
    <3> HIDE DEF h
    <3> QED
      BY <3>2, <3>3, <3>4
  <2>4. \A v \in SUBSET u : v # {} => Less(v) \in SUBSET u /\ Less(v) # u
    BY SomeIn
  <2>5. h = [v \in SUBSET u |-> IF v = {} THEN 0 ELSE W[Some(v)] + h[Less(v)]]
    <3> DEFINE k == [v \in SUBSET u |-> IF v = {} THEN 0 ELSE W[Some(v)] + h[Less(v)]]
    <3>1. ASSUME NEW v \in SUBSET u PROVE h[v] = k[v]
      <4>1. v # {} => h[Less(v)] = Total(W, Less(v))
        BY <2>3, <2>4
      <4>2. h[v] = IF v = {} THEN 0 ELSE W[Some(v)] + Total(W, Less(v))
        OBVIOUS
      <4>3. k[v] = IF v = {} THEN 0 ELSE W[Some(v)] + h[Less(v)]
        OBVIOUS
      <4> HIDE DEF h, k
      <4> QED
        BY <4>1, <4>2, <4>3
    <3>2. h = [v \in SUBSET u |-> h[v]] /\ k = [v \in SUBSET u |-> k[v]]
      OBVIOUS
    <3> QED
      BY <3>1, <3>2
  <2>6. Folds(h, W, u)
    BY <2>5 DEF Folds
  <2> QED
    BY <2>1, <2>6
<1>2. \E g : Folds(g, W, T)
  BY <1>1
<1> QED
  BY <1>2 DEF Folds, Fold

(* The sum, one element at a time as the fold takes them.                  *)
LEMMA TotalRec ==
  ASSUME NEW W, NEW S, IsFiniteSet(S)
  PROVE  Total(W, S) = IF S = {} THEN 0 ELSE W[Some(S)] + Total(W, Less(S))
<1>1. Folds(Fold(W, S), W, S)
  BY FoldExists
<1>2. Total(W, S) = IF S = {} THEN 0 ELSE W[Some(S)] + Fold(W, S)[Less(S)]
  BY <1>1, FoldsAre DEF Total
<1>3. ASSUME S # {} PROVE Fold(W, S)[Less(S)] = Total(W, Less(S))
  <2>1. Less(S) \in SUBSET S /\ Less(S) \in SUBSET (S \intersect Less(S))
    BY <1>3, SomeIn
  <2>2. Folds(Fold(W, Less(S)), W, Less(S))
    BY <2>1, FoldExists
  <2> QED
    BY <1>1, <2>1, <2>2, FoldsAgree DEF Total
<1> QED
  BY <1>2, <1>3

LEMMA TotalEmpty ==
  ASSUME NEW W
  PROVE  Total(W, {}) = 0
BY TotalRec, FS_EmptySet

LEMMA TotalType ==
  ASSUME NEW W, NEW S, IsFiniteSet(S), \A x \in S : W[x] \in Nat
  PROVE  Total(W, S) \in Nat
<1> DEFINE P == {u \in SUBSET S : Total(W, u) \notin Nat}
<1>1. ASSUME P # {} PROVE FALSE
  <2>1. PICK u \in P : \A v \in P : v \subseteq u => v = u
    <3>1. P \in SUBSET SUBSET S
      OBVIOUS
    <3> HIDE DEF P
    <3> QED
      BY <1>1, <3>1, MinimalSet
  <2>2. u \in SUBSET S /\ IsFiniteSet(u) /\ Total(W, u) \notin Nat
    BY FS_Subset
  <2>3. u # {}
    <3>1. Total(W, {}) = 0
      BY TotalEmpty
    <3> HIDE DEF P
    <3> QED
      BY <2>2, <3>1
  <2>4. Some(u) \in S /\ Less(u) \in SUBSET S /\ Less(u) \notin P
    BY <2>1, <2>2, <2>3, SomeIn
  <2>5. Total(W, Less(u)) \in Nat /\ W[Some(u)] \in Nat
    BY <2>4
  <2> QED
    BY <2>1, <2>2, <2>3, <2>5, TotalRec
<1> QED
  BY <1>1

(* ... and in any order.                                                   *)
LEMMA TotalTake ==
  ASSUME NEW W, NEW S, IsFiniteSet(S), \A x \in S : W[x] \in Nat
  PROVE  \A x \in S : Total(W, S) = W[x] + Total(W, S \ {x})
<1> DEFINE P == {u \in SUBSET S : \E x \in u : Total(W, u) # W[x] + Total(W, u \ {x})}
<1>1. ASSUME P # {} PROVE FALSE
  <2>1. PICK u \in P : \A v \in P : v \subseteq u => v = u
    <3>1. P \in SUBSET SUBSET S
      OBVIOUS
    <3> HIDE DEF P
    <3> QED
      BY <1>1, <3>1, MinimalSet
  <2>2. PICK x \in u : Total(W, u) # W[x] + Total(W, u \ {x})
    OBVIOUS
  <2> DEFINE y == Some(u)
  <2>3. u \in SUBSET S /\ y \in u /\ Less(u) = u \ {y}
    BY <2>2, SomeIn DEF Less
  <2>4. \A v \in SUBSET S : IsFiniteSet(v) /\ Total(W, v) \in Nat
    <3> SUFFICES ASSUME NEW v \in SUBSET S PROVE IsFiniteSet(v) /\ Total(W, v) \in Nat
      OBVIOUS
    <3>1. IsFiniteSet(v) /\ \A z \in v : W[z] \in Nat
      BY FS_Subset
    <3> QED
      BY <3>1, TotalType
  <2>5. Total(W, u) = W[y] + Total(W, u \ {y})
    BY <2>2, <2>3, <2>4, TotalRec, ZenonT(60)
  <2> HIDE DEF y
  <2>6. x # y
    BY <2>2, <2>5
  <2>7. \A v \in SUBSET u : v # u => \A z \in v : Total(W, v) = W[z] + Total(W, v \ {z})
    BY <2>1, <2>3
  <2>8. Total(W, u \ {y}) = W[x] + Total(W, (u \ {y}) \ {x})
    BY <2>3, <2>6, <2>7
  <2>9. Total(W, u \ {x}) = W[y] + Total(W, (u \ {x}) \ {y})
    BY <2>2, <2>3, <2>6, <2>7
  <2>10. (u \ {y}) \ {x} = (u \ {x}) \ {y}
    OBVIOUS
  <2>11. W[x] \in Nat /\ W[y] \in Nat /\ Total(W, (u \ {x}) \ {y}) \in Nat
    BY <2>2, <2>3, <2>4
  <2> QED
    BY <2>2, <2>5, <2>8, <2>9, <2>10, <2>11
<1> QED
  BY <1>1

LEMMA TotalAdd ==
  ASSUME NEW W, NEW S, IsFiniteSet(S), NEW x, x \notin S, \A y \in S \union {x} : W[y] \in Nat
  PROVE  Total(W, S \union {x}) = W[x] + Total(W, S)
<1>1. IsFiniteSet(S \union {x}) /\ (S \union {x}) \ {x} = S
  BY FS_AddElement
<1> QED
  BY <1>1, TotalTake

LEMMA TotalUnion ==
  ASSUME NEW W, NEW S, IsFiniteSet(S), NEW T, IsFiniteSet(T), S \intersect T = {},
         \A x \in S \union T : W[x] \in Nat
  PROVE  /\ Total(W, S \union T) = Total(W, S) + Total(W, T)
         /\ Total(W, S) \in Nat /\ Total(W, T) \in Nat
<1>1. Total(W, S) \in Nat /\ Total(W, T) \in Nat
  BY TotalType
<1> DEFINE P == {u \in SUBSET S : Total(W, u \union T) # Total(W, u) + Total(W, T)}
<1>2. ASSUME P # {} PROVE FALSE
  <2>1. PICK u \in P : \A v \in P : v \subseteq u => v = u
    <3>1. P \in SUBSET SUBSET S
      OBVIOUS
    <3> HIDE DEF P
    <3> QED
      BY <1>2, <3>1, MinimalSet
  <2>2. u \in SUBSET S /\ IsFiniteSet(u) /\ Total(W, u \union T) # Total(W, u) + Total(W, T)
    BY FS_Subset
  <2>3. u # {}
    <3>1. Total(W, {}) = 0 /\ {} \union T = T
      BY TotalEmpty
    <3> QED
      BY <1>1, <2>2, <3>1
  <2>4. PICK x \in u : TRUE
    BY <2>3
  <2> DEFINE v == u \ {x}
  <2>5. IsFiniteSet(u \union T) /\ IsFiniteSet(v) /\ v \in SUBSET S
    BY <2>2, FS_Union, FS_RemoveElement
  <2>6. Total(W, u) = W[x] + Total(W, v) /\ Total(W, v) \in Nat
    <3>1. \A z \in u : W[z] \in Nat
      BY <2>2
    <3>2. \A z \in v : W[z] \in Nat
      BY <2>2
    <3> QED
      BY <2>2, <2>4, <2>5, <3>1, <3>2, TotalTake, TotalType
  <2>7. Total(W, u \union T) = W[x] + Total(W, v \union T)
    <3>1. (u \union T) \ {x} = v \union T /\ \A z \in u \union T : W[z] \in Nat
      BY <2>2, <2>4
    <3> HIDE DEF v
    <3> QED
      BY <2>4, <2>5, <3>1, TotalTake
  <2>8. Total(W, v \union T) = Total(W, v) + Total(W, T)
    BY <2>1, <2>2, <2>4
  <2>9. W[x] \in Nat
    BY <2>2, <2>4
  <2> HIDE DEF v
  <2> QED
    BY <1>1, <2>2, <2>6, <2>7, <2>8, <2>9
<1> QED
  BY <1>1, <1>2

LEMMA TotalMinus ==
  ASSUME NEW W, NEW S, IsFiniteSet(S), NEW T \in SUBSET S, \A x \in S : W[x] \in Nat
  PROVE  /\ Total(W, S \ T) = Total(W, S) - Total(W, T)
         /\ Total(W, T) <= Total(W, S) /\ Total(W, T) \in Nat /\ Total(W, S) \in Nat
<1>1. IsFiniteSet(T) /\ IsFiniteSet(S \ T) /\ T \intersect (S \ T) = {}
      /\ S \ T \in SUBSET S /\ T \union (S \ T) = S
  BY FS_Subset
<1>2. \A x \in T \union (S \ T) : W[x] \in Nat
  OBVIOUS
<1>3. /\ Total(W, T \union (S \ T)) = Total(W, T) + Total(W, S \ T)
      /\ Total(W, T) \in Nat /\ Total(W, S \ T) \in Nat
  BY <1>1, <1>2, TotalUnion
<1> DEFINE D == S \ T
<1> HIDE DEF D
<1>4. Total(W, S) = Total(W, T) + Total(W, D) /\ Total(W, T) \in Nat /\ Total(W, D) \in Nat
  BY <1>1, <1>3 DEF D
<1>5. Total(W, D) = Total(W, S) - Total(W, T) /\ Total(W, T) <= Total(W, S) /\ Total(W, S) \in Nat
  BY <1>4
<1> QED
  BY <1>4, <1>5 DEF D

(* Only the weights of its elements matter.                                *)
LEMMA TotalSame ==
  ASSUME NEW W, NEW V, NEW S, IsFiniteSet(S), \A x \in S : W[x] = V[x]
  PROVE  Total(W, S) = Total(V, S)
<1> DEFINE P == {u \in SUBSET S : Total(W, u) # Total(V, u)}
<1>1. ASSUME P # {} PROVE FALSE
  <2>1. PICK u \in P : \A v \in P : v \subseteq u => v = u
    <3>1. P \in SUBSET SUBSET S
      OBVIOUS
    <3> HIDE DEF P
    <3> QED
      BY <1>1, <3>1, MinimalSet
  <2>2. u \in SUBSET S /\ IsFiniteSet(u) /\ Total(W, u) # Total(V, u)
    BY FS_Subset
  <2>3. /\ Total(W, u) = IF u = {} THEN 0 ELSE W[Some(u)] + Total(W, Less(u))
        /\ Total(V, u) = IF u = {} THEN 0 ELSE V[Some(u)] + Total(V, Less(u))
    BY <2>2, TotalRec
  <2>4. u # {} => Some(u) \in S /\ Less(u) \in SUBSET S /\ Less(u) \notin P
    BY <2>1, <2>2, SomeIn
  <2>5. u # {} => W[Some(u)] = V[Some(u)] /\ Total(W, Less(u)) = Total(V, Less(u))
    BY <2>4
  <2> QED
    BY <2>2, <2>3, <2>5
<1> QED
  BY <1>1

LEMMA TotalZero ==
  ASSUME NEW W, NEW S, IsFiniteSet(S), \A x \in S : W[x] = 0
  PROVE  Total(W, S) = 0
<1> DEFINE P == {u \in SUBSET S : Total(W, u) # 0}
<1>1. ASSUME P # {} PROVE FALSE
  <2>1. PICK u \in P : \A v \in P : v \subseteq u => v = u
    <3>1. P \in SUBSET SUBSET S
      OBVIOUS
    <3> HIDE DEF P
    <3> QED
      BY <1>1, <3>1, MinimalSet
  <2>2. u \in SUBSET S /\ IsFiniteSet(u) /\ Total(W, u) # 0
    BY FS_Subset
  <2>3. u # {} => Some(u) \in S /\ Less(u) \in SUBSET S /\ Less(u) \notin P
    BY <2>1, <2>2, SomeIn
  <2>4. u # {} => W[Some(u)] = 0 /\ Total(W, Less(u)) = 0
    BY <2>3
  <2> QED
    BY <2>2, <2>4, TotalRec
<1> QED
  BY <1>1

(* One weight changes.                                                     *)
LEMMA TotalChange ==
  ASSUME NEW W, NEW V, NEW S, IsFiniteSet(S), NEW x \in S,
         \A y \in S : W[y] \in Nat /\ V[y] \in Nat, \A y \in S \ {x} : V[y] = W[y]
  PROVE  Total(V, S) = Total(W, S) - W[x] + V[x]
<1> DEFINE T == S \ {x}
<1>1. IsFiniteSet(T) /\ \A y \in T : V[y] = W[y] /\ W[y] \in Nat
  BY FS_RemoveElement
<1>2. Total(W, S) = W[x] + Total(W, T) /\ Total(V, S) = V[x] + Total(V, T)
  BY TotalTake
<1> HIDE DEF T
<1>3. Total(V, T) = Total(W, T) /\ Total(W, T) \in Nat
  BY <1>1, TotalSame, TotalType
<1>4. W[x] \in Nat /\ V[x] \in Nat
  OBVIOUS
<1> QED
  BY <1>2, <1>3, <1>4

(* Weights of zero do not matter.                                          *)
LEMMA TotalWhere ==
  ASSUME NEW W, NEW V, NEW S, IsFiniteSet(S), NEW T \in SUBSET S,
         \A y \in S : W[y] \in Nat, \A y \in T : V[y] = W[y], \A y \in S \ T : W[y] = 0
  PROVE  Total(W, S) = Total(V, T)
<1>1. /\ Total(W, S \ T) = Total(W, S) - Total(W, T)
      /\ Total(W, T) \in Nat /\ Total(W, S) \in Nat
  BY TotalMinus
<1> DEFINE Z == S \ T
<1>2. IsFiniteSet(T) /\ IsFiniteSet(Z) /\ \A y \in Z : W[y] = 0
  BY FS_Subset
<1> HIDE DEF Z
<1>3. Total(W, T) = Total(V, T)
  BY <1>2, TotalSame
<1>4. Total(W, Z) = 0
  BY <1>2, TotalZero
<1>5. Total(W, Z) = Total(W, S) - Total(W, T)
  BY <1>1 DEF Z
<1> QED
  BY <1>1, <1>3, <1>4, <1>5

(* A cardinality is a sum of ones.                                         *)
LEMMA TotalOnes ==
  ASSUME NEW W, NEW S, IsFiniteSet(S), \A x \in S : W[x] = 1
  PROVE  Total(W, S) = Cardinality(S)
<1> DEFINE P == {u \in SUBSET S : Total(W, u) # Cardinality(u)}
<1>1. ASSUME P # {} PROVE FALSE
  <2>1. PICK u \in P : \A v \in P : v \subseteq u => v = u
    <3>1. P \in SUBSET SUBSET S
      OBVIOUS
    <3> HIDE DEF P
    <3> QED
      BY <1>1, <3>1, MinimalSet
  <2>2. u \in SUBSET S /\ IsFiniteSet(u) /\ Total(W, u) # Cardinality(u)
    BY FS_Subset
  <2>3. u # {}
    BY <2>2, TotalEmpty, FS_EmptySet
  <2>4. Some(u) \in u /\ Less(u) \in SUBSET S /\ Less(u) \notin P
    BY <2>1, <2>2, <2>3, SomeIn
  <2>5. Total(W, Less(u)) = Cardinality(Less(u)) /\ W[Some(u)] = 1
    BY <2>2, <2>4
  <2>6. Cardinality(Less(u)) = Cardinality(u) - 1 /\ Cardinality(u) \in Nat
    BY <2>2, <2>4, FS_RemoveElement, FS_CardinalityType DEF Less
  <2> QED
    BY <2>2, <2>3, <2>5, <2>6, TotalRec
<1> QED
  BY <1>1

(* What the fold of the community modules says of a sum is what Folds says. *)
LEMMA TotalIsFold ==
  ASSUME NEW W, NEW S, IsFiniteSet(S), NEW g, Folds(g, W, S)
  PROVE  g[S] = Total(W, S)
<1>1. Folds(Fold(W, S), W, S) /\ S \in SUBSET (S \intersect S)
  BY FoldExists
<1> QED
  BY <1>1, FoldsAgree DEF Total
-----------------------------------------------------------------------------
(* First and last of some numbers.                                         *)
LEMMA LastOf ==
  ASSUME NEW n \in Nat, NEW K \in SUBSET (0 .. n), K # {}
  PROVE  \E k \in K : \A j \in K : j <= k
<1> DEFINE Up(k) == {i \in 0 .. n : k <= i}
           P == {Up(k) : k \in K}
<1>1. IsFiniteSet(0 .. n)
  BY FS_Interval
<1>2. P \in SUBSET SUBSET (0 .. n)
  OBVIOUS
<1>3. PICK s \in P : \A u \in P : u \subseteq s => u = s
  <2>1. P # {}
    OBVIOUS
  <2> DEFINE S == 0 .. n
  <2>2. IsFiniteSet(S) /\ P \in SUBSET SUBSET S
    BY <1>1, <1>2
  <2> HIDE DEF P, S
  <2> QED
    BY <2>1, <2>2, MinimalSet
<1> USE DEF P
<1>4. PICK k \in K : s = Up(k)
  OBVIOUS
<1>5. ASSUME NEW j \in K, ~(j <= k) PROVE FALSE
  <2>1. j \in 0 .. n /\ k \in 0 .. n
    OBVIOUS
  <2>2. Up(j) \subseteq Up(k) /\ k \notin Up(j) /\ k \in Up(k)
    BY <1>5, <2>1
  <2>3. Up(j) \in P
    OBVIOUS
  <2> HIDE DEF Up, P
  <2> QED
    BY <1>3, <1>4, <2>2, <2>3
<1> QED
  BY <1>5

LEMMA FirstOf ==
  ASSUME NEW n \in Nat, NEW K \in SUBSET (0 .. n), K # {}
  PROVE  \E k \in K : \A j \in K : k <= j
<1> DEFINE J == {n - k : k \in K}
<1>1. J \in SUBSET (0 .. n) /\ J # {}
  <2>1. \A k \in 0 .. n : n - k \in 0 .. n
    OBVIOUS
  <2> QED
    BY <2>1
<1>2. PICK j \in J : \A i \in J : i <= j
  <2> HIDE DEF J
  <2> QED
    BY <1>1, LastOf
<1> USE DEF J
<1>3. PICK k \in K : j = n - k
  OBVIOUS
<1>4. \A i \in K : n - i <= n - k
  BY <1>2, <1>3
<1>5. \A i \in K : i \in Int /\ k \in Int /\ n \in Int
  OBVIOUS
<1> HIDE DEF J
<1> QED
  BY <1>4, <1>5

LEMMA FiniteIsBounded ==
  ASSUME NEW S, IsFiniteSet(S), \A x \in S : x \in Nat
  PROVE  \E n \in Nat : \A x \in S : x <= n
<1> DEFINE Bounded(u) == \E n \in Nat : \A x \in u : x <= n
           P == {u \in SUBSET S : ~Bounded(u)}
<1>1. ASSUME P # {} PROVE FALSE
  <2>1. PICK u \in P : \A v \in P : v \subseteq u => v = u
    <3>1. P \in SUBSET SUBSET S
      OBVIOUS
    <3> HIDE DEF P
    <3> QED
      BY <1>1, <3>1, MinimalSet
  <2>2. u \in SUBSET S /\ ~Bounded(u)
    OBVIOUS
  <2>3. PICK y \in u : TRUE
    BY <2>2
  <2>4. u \ {y} \in SUBSET S /\ u \ {y} \notin P
    BY <2>1, <2>2, <2>3
  <2>5. PICK n \in Nat : \A x \in u \ {y} : x <= n
    BY <2>4
  <2>6. y \in Nat /\ \A x \in u : x \in Nat
    BY <2>2, <2>3
  <2>7. n + y \in Nat /\ \A x \in u : x <= n + y
    BY <2>5, <2>6
  <2> QED
    BY <2>2, <2>7
<1>2. S \in SUBSET S
  OBVIOUS
<1> QED
  BY <1>1, <1>2

(* A sum over places that are counted from further on.                     *)
Shifted(W, V, m, n) == \A i \in 1 .. n : V[i] \in Nat /\ W[m + i] = V[i]
Stretch(m, n) == (m + 1) .. (m + n)

LEMMA TotalShift ==
  ASSUME NEW W, NEW V, NEW m \in Nat, NEW n \in Nat, Shifted(W, V, m, n)
  PROVE  Total(W, Stretch(m, n)) = Total(V, 1 .. n)
<1>0. \A i \in 1 .. n : V[i] \in Nat /\ W[m + i] = V[i]
  BY DEF Shifted
<1> DEFINE K == {k \in 0 .. n : Total(W, (m + 1) .. (m + k)) # Total(V, 1 .. k)}
<1>1. ASSUME K # {} PROVE FALSE
  <2>1. PICK k \in K : \A j \in K : k <= j
    <3>1. K \in SUBSET (0 .. n)
      OBVIOUS
    <3> HIDE DEF K
    <3> QED
      BY <1>1, <3>1, FirstOf
  <2>2. k \in 0 .. n /\ Total(W, (m + 1) .. (m + k)) # Total(V, 1 .. k)
    OBVIOUS
  <2>3. k # 0
    <3>1. CASE k = 0
      <4>1. (m + 1) .. (m + k) = {} /\ 1 .. k = {}
        BY <3>1
      <4> QED
        BY <2>2, <4>1, TotalEmpty
    <3> QED
      BY <3>1
  <2> DEFINE j == k - 1
             S == (m + 1) .. (m + j)
             T == 1 .. j
  <2>4. j \in 0 .. n /\ ~ (k <= j) /\ k = j + 1 /\ k \in 1 .. n
    BY <2>2, <2>3
  <2>5. Total(W, S) = Total(V, T)
    BY <2>1, <2>4
  <2>6. /\ (m + 1) .. (m + k) = S \union {m + k} /\ m + k \notin S
        /\ 1 .. k = T \union {k} /\ k \notin T
    BY <2>4
  <2>7. IsFiniteSet(S) /\ IsFiniteSet(T)
    <3>1. m + 1 \in Int /\ m + j \in Int /\ 1 \in Int /\ j \in Int
      BY <2>4
    <3> QED
      BY <3>1, FS_Interval
  <2>8. \A i \in T \union {k} : V[i] \in Nat
    BY <1>0, <2>4
  <2>9. \A i \in S \union {m + k} : W[i] \in Nat
    <3>1. \A i \in S \union {m + k} : i - m \in 1 .. n /\ i = m + (i - m)
      BY <2>4
    <3> HIDE DEF S, j
    <3> QED
      BY <1>0, <3>1
  <2>10. W[m + k] = V[k]
    BY <1>0, <2>4
  <2> HIDE DEF S, T, j, K
  <2>11. /\ Total(W, S \union {m + k}) = W[m + k] + Total(W, S)
         /\ Total(V, T \union {k}) = V[k] + Total(V, T)
    BY <2>6, <2>7, <2>8, <2>9, TotalAdd
  <2> QED
    BY <2>2, <2>5, <2>6, <2>10, <2>11
<1>2. n \in 0 .. n
  OBVIOUS
<1> QED
  BY <1>1, <1>2 DEF Stretch

(* ... and over two lists, one after the other.                            *)
EndToEnd(U, W, V, m, n) ==
  (\A i \in 1 .. m : W[i] \in Nat /\ U[i] = W[i]) /\ Shifted(U, V, m, n)

LEMMA TotalConcat ==
  ASSUME NEW W, NEW V, NEW U, NEW m \in Nat, NEW n \in Nat, EndToEnd(U, W, V, m, n),
         NEW k \in Nat, k = m + n
  PROVE  /\ Total(U, 1 .. k) = Total(W, 1 .. m) + Total(V, 1 .. n)
         /\ Total(W, 1 .. m) \in Nat /\ Total(V, 1 .. n) \in Nat
<1>0. /\ \A i \in 1 .. m : W[i] \in Nat /\ U[i] = W[i]
      /\ \A i \in 1 .. n : V[i] \in Nat /\ U[m + i] = V[i]
  BY DEF EndToEnd, Shifted
<1> DEFINE S == 1 .. m
           T == (m + 1) .. (m + n)
           R == 1 .. n
<1>1. S \union T = 1 .. k /\ S \intersect T = {}
  OBVIOUS
<1>2. IsFiniteSet(S) /\ IsFiniteSet(T) /\ IsFiniteSet(R)
  BY FS_Interval
<1>3. \A i \in T : U[i] \in Nat
  <2>1. \A i \in T : i - m \in 1 .. n /\ i = m + (i - m)
    OBVIOUS
  <2> HIDE DEF T
  <2> QED
    BY <1>0, <2>1
<1>4. \A i \in S : U[i] \in Nat /\ U[i] = W[i] /\ W[i] \in Nat
  BY <1>0
<1>5. Total(U, T) = Total(V, R)
  <2>1. Shifted(U, V, m, n)
    BY DEF EndToEnd
  <2>2. T = Stretch(m, n)
    BY DEF Stretch
  <2> HIDE DEF T
  <2> QED
    BY <2>1, <2>2, TotalShift
<1>6. \A i \in R : V[i] \in Nat
  BY <1>0
<1> HIDE DEF S, T, R
<1>7. Total(U, S \union T) = Total(U, S) + Total(U, T)
  BY <1>1, <1>2, <1>3, <1>4, TotalUnion
<1>8. Total(U, S) = Total(W, S)
  BY <1>2, <1>4, TotalSame
<1>9. Total(W, S) \in Nat /\ Total(V, R) \in Nat
  BY <1>2, <1>4, <1>6, TotalType
<1> QED
  BY <1>1, <1>5, <1>7, <1>8, <1>9 DEF S, T, R

-----------------------------------------------------------------------------
(* What is left of a sequence without the elements of X, taken from its    *)
(* beginning on.                                                           *)
Keeps(F, s, X, n) ==
  F = [i \in 0 .. n |-> IF i = 0 THEN <<>>
                        ELSE IF s[i] \in X THEN F[i - 1] ELSE Append(F[i - 1], s[i])]

LEMMA KeptIs ==
  ASSUME NEW F, NEW s, NEW X, NEW n \in Nat, Keeps(F, s, X, n), NEW i \in 0 .. n
  PROVE  F[i] = IF i = 0 THEN <<>> ELSE IF s[i] \in X THEN F[i - 1] ELSE Append(F[i - 1], s[i])
<1> DEFINE G(H) == [k \in 0 .. n |-> IF k = 0 THEN <<>>
                      ELSE IF s[k] \in X THEN H[k - 1] ELSE Append(H[k - 1], s[k])]
<1>1. F = G(F)
  BY DEF Keeps
<1>2. G(F)[i] = IF i = 0 THEN <<>> ELSE IF s[i] \in X THEN F[i - 1] ELSE Append(F[i - 1], s[i])
  OBVIOUS
<1> HIDE DEF G
<1> QED
  BY <1>1, <1>2

LEMMA KeepsExists ==
  ASSUME NEW s, NEW X, NEW m \in Nat
  PROVE  \E F : Keeps(F, s, X, m)
<1> DEFINE P == {n \in 0 .. m : ~ \E F : Keeps(F, s, X, n)}
<1>1. ASSUME P # {} PROVE FALSE
  <2>1. PICK n \in P : \A k \in P : n <= k
    <3>1. P \in SUBSET (0 .. m)
      OBVIOUS
    <3> HIDE DEF P
    <3> QED
      BY <1>1, <3>1, FirstOf
  <2>2. n \in 0 .. m /\ ~ \E F : Keeps(F, s, X, n)
    OBVIOUS
  <2>3. n # 0
    <3> SUFFICES ASSUME n = 0 PROVE FALSE
      OBVIOUS
    <3> DEFINE E == [i \in 0 .. 0 |-> <<>>]
    <3>1. Keeps(E, s, X, 0)
      <4>1. \A i \in 0 .. 0 : i = 0
        OBVIOUS
      <4> QED
        BY <4>1 DEF Keeps
    <3> QED
      BY <2>2, <3>1
  <2>4. n - 1 \in 0 .. m /\ n - 1 \in Nat /\ ~(n <= n - 1) /\ n \in Nat
    BY <2>2, <2>3
  <2>5. PICK F : Keeps(F, s, X, n - 1)
    <3>1. n - 1 \notin P
      BY <2>1, <2>4
    <3> QED
      BY <2>4, <3>1
  <2> DEFINE Step(H, i) == IF i = 0 THEN <<>>
                           ELSE IF s[i] \in X THEN H[i - 1] ELSE Append(H[i - 1], s[i])
             G == [i \in 0 .. n |-> IF i = n THEN Step(F, n) ELSE F[i]]
  <2>6. ASSUME NEW i \in 0 .. n PROVE G[i] = Step(G, i)
    <3>1. i # 0 => i - 1 \in 0 .. n /\ i - 1 # n
      BY <2>4
    <3>2. i # 0 => G[i - 1] = F[i - 1]
      BY <3>1
    <3>3. Step(G, i) = Step(F, i)
      <4> HIDE DEF G
      <4> QED
        BY <3>2
    <3>4. i # n => F[i] = Step(F, i)
      <4>1. i # n => i \in 0 .. n - 1
        BY <2>4
      <4> QED
        BY <2>4, <2>5, <4>1, KeptIs
    <3>5. G[i] = IF i = n THEN Step(F, n) ELSE F[i]
      OBVIOUS
    <3> HIDE DEF G, Step
    <3> QED
      BY <3>3, <3>4, <3>5
  <2>7. Keeps(G, s, X, n)
    <3>1. [i \in 0 .. n |-> Step(G, i)] = [i \in 0 .. n |-> G[i]]
      <4> HIDE DEF G, Step
      <4> QED
        BY <2>6
    <3>2. G = [i \in 0 .. n |-> G[i]]
      OBVIOUS
    <3>3. G = [i \in 0 .. n |-> Step(G, i)]
      <4> HIDE DEF G, Step
      <4> QED
        BY <3>1, <3>2
    <3> HIDE DEF G
    <3> QED
      BY <3>3 DEF Keeps
  <2> QED
    BY <2>2, <2>7
<1> QED
  BY <1>1

(* R has the first n elements of s that are not in X, in their order.      *)
Rest(R, s, X, n) ==
  /\ \A j, l \in DOMAIN R : j < l =>
       \E k, m \in 1 .. n : k < m /\ R[j] = s[k] /\ R[l] = s[m]
  /\ \A j \in DOMAIN R : \E k \in 1 .. n : R[j] = s[k] /\ s[k] \notin X
  /\ \A k \in 1 .. n : s[k] \notin X => \E j \in DOMAIN R : R[j] = s[k]

LEMMA RestSkip ==
  ASSUME NEW R, NEW s, NEW X, NEW n \in Nat \ {0}, Rest(R, s, X, n - 1), s[n] \in X
  PROVE  Rest(R, s, X, n)
<1>1. \A k \in 1 .. n - 1 : k \in 1 .. n
  OBVIOUS
<1>2. \A k \in 1 .. n : k # n => k \in 1 .. n - 1
  OBVIOUS
<1>3. \A j, l \in DOMAIN R : j < l =>
        \E k, m \in 1 .. n : k < m /\ R[j] = s[k] /\ R[l] = s[m]
  BY <1>1 DEF Rest
<1>4. \A j \in DOMAIN R : \E k \in 1 .. n : R[j] = s[k] /\ s[k] \notin X
  BY <1>1 DEF Rest
<1>5. \A k \in 1 .. n : s[k] \notin X => \E j \in DOMAIN R : R[j] = s[k]
  BY <1>2 DEF Rest
<1> QED
  BY <1>3, <1>4, <1>5 DEF Rest

LEMMA RestTake ==
  ASSUME NEW S, NEW R \in Seq(S), NEW s, NEW X, NEW n \in Nat \ {0},
         Rest(R, s, X, n - 1), s[n] \notin X, s[n] \in S
  PROVE  Append(R, s[n]) \in Seq(S) /\ Rest(Append(R, s[n]), s, X, n)
<1> DEFINE Q == Append(R, s[n])
<1>1. /\ Q \in Seq(S) /\ Len(R) \in Nat /\ DOMAIN R = 1 .. Len(R)
      /\ DOMAIN Q = 1 .. Len(R) + 1 /\ Q[Len(R) + 1] = s[n]
      /\ \A j \in 1 .. Len(R) : Q[j] = R[j]
  BY AppendProperties, LenProperties
<1> HIDE DEF Q
<1>2. \A k \in 1 .. n - 1 : k \in 1 .. n /\ k < n
  OBVIOUS
<1>3. n \in 1 .. n /\ \A k \in 1 .. n : k # n => k \in 1 .. n - 1
  OBVIOUS
<1>4. ASSUME NEW j \in DOMAIN Q, NEW l \in DOMAIN Q, j < l
      PROVE  \E k, m \in 1 .. n : k < m /\ Q[j] = s[k] /\ Q[l] = s[m]
  <2>1. j \in DOMAIN R /\ Q[j] = R[j]
    BY <1>1, <1>4
  <2>2. CASE l = Len(R) + 1
    <3>1. PICK k \in 1 .. n - 1 : R[j] = s[k]
      BY <2>1 DEF Rest
    <3> QED
      BY <1>1, <1>2, <1>3, <2>1, <2>2, <3>1
  <2>3. CASE l # Len(R) + 1
    <3>1. l \in DOMAIN R /\ Q[l] = R[l]
      BY <1>1, <2>3
    <3>2. PICK k, m \in 1 .. n - 1 : k < m /\ R[j] = s[k] /\ R[l] = s[m]
      BY <1>4, <2>1, <3>1 DEF Rest
    <3> QED
      BY <1>2, <2>1, <3>1, <3>2
  <2> QED
    BY <2>2, <2>3
<1>5. ASSUME NEW j \in DOMAIN Q PROVE \E k \in 1 .. n : Q[j] = s[k] /\ s[k] \notin X
  <2>1. CASE j = Len(R) + 1
    BY <1>1, <1>3, <2>1
  <2>2. CASE j # Len(R) + 1
    <3>1. j \in DOMAIN R /\ Q[j] = R[j]
      BY <1>1, <2>2
    <3>2. PICK k \in 1 .. n - 1 : R[j] = s[k] /\ s[k] \notin X
      BY <3>1 DEF Rest
    <3> QED
      BY <1>2, <3>1, <3>2
  <2> QED
    BY <2>1, <2>2
<1>6. ASSUME NEW k \in 1 .. n, s[k] \notin X PROVE \E j \in DOMAIN Q : Q[j] = s[k]
  <2>1. CASE k = n
    BY <1>1, <2>1
  <2>2. CASE k # n
    <3>1. PICK j \in DOMAIN R : R[j] = s[k]
      BY <1>3, <1>6, <2>2 DEF Rest
    <3> QED
      BY <1>1, <3>1
  <2> QED
    BY <2>1, <2>2
<1>7. Rest(Q, s, X, n)
  BY <1>4, <1>5, <1>6 DEF Rest
<1> QED
  BY <1>1, <1>7 DEF Q

LEMMA KeepsRest ==
  ASSUME NEW S, NEW s \in Seq(S), NEW X, NEW F, Keeps(F, s, X, Len(s))
  PROVE  F[Len(s)] \in Seq(S) /\ Rest(F[Len(s)], s, X, Len(s))
<1> DEFINE P == {n \in 0 .. Len(s) : ~(F[n] \in Seq(S) /\ Rest(F[n], s, X, n))}
<1>0. Len(s) \in Nat /\ \A i \in 1 .. Len(s) : s[i] \in S
  BY LenProperties, ElementOfSeq
<1>1. ASSUME P # {} PROVE FALSE
  <2>1. PICK n \in P : \A k \in P : n <= k
    <3>1. P \in SUBSET (0 .. Len(s))
      OBVIOUS
    <3> HIDE DEF P
    <3> QED
      BY <1>0, <1>1, <3>1, FirstOf
  <2>2. n \in 0 .. Len(s) /\ n \in Nat /\ ~(F[n] \in Seq(S) /\ Rest(F[n], s, X, n))
    BY <1>0
  <2>3. F[n] = IF n = 0 THEN <<>> ELSE IF s[n] \in X THEN F[n - 1] ELSE Append(F[n - 1], s[n])
    BY <1>0, <2>2, KeptIs
  <2>4. CASE n = 0
    <3>1. <<>> \in Seq(S) /\ DOMAIN <<>> = {} /\ 1 .. n = {}
      BY <2>4
    <3> QED
      BY <2>2, <2>3, <2>4, <3>1 DEF Rest
  <2>5. CASE n # 0
    <3>1. n - 1 \in 0 .. Len(s) /\ ~(n <= n - 1) /\ n \in Nat \ {0} /\ n \in 1 .. Len(s)
      BY <1>0, <2>2, <2>5
    <3>2. F[n - 1] \in Seq(S) /\ Rest(F[n - 1], s, X, n - 1)
      <4>1. n - 1 \notin P
        BY <2>1, <3>1
      <4> QED
        BY <3>1, <4>1
    <3> HIDE DEF P
    <3>3. CASE s[n] \in X
      BY <2>2, <2>3, <2>5, <3>1, <3>2, <3>3, RestSkip
    <3>4. CASE s[n] \notin X
      BY <1>0, <2>2, <2>3, <2>5, <3>1, <3>2, <3>4, RestTake
    <3> QED
      BY <3>3, <3>4
  <2> QED
    BY <2>4, <2>5
<1>2. Len(s) \in 0 .. Len(s)
  BY <1>0
<1> QED
  BY <1>1, <1>2
(* A list without some of its elements.                                    *)
LEMMA OmitIs ==
  ASSUME NEW S, NEW list \in Seq(S), NEW gone
  PROVE  /\ Omit(list, gone) \in Seq(S)
         /\ Rest(Omit(list, gone), list, gone, Len(list))
         /\ Len(list) \in Nat /\ DOMAIN list = 1 .. Len(list)
<1> DEFINE F == CHOOSE G : Keeps(G, list, gone, Len(list))
           R == F[Len(list)]
<1>1. Len(list) \in Nat /\ DOMAIN list = 1 .. Len(list)
  BY LenProperties
<1>2. Keeps(F, list, gone, Len(list))
  BY <1>1, KeepsExists, Zenon
<1>3. Omit(list, gone) = R
  BY DEF Omit, Keeps
<1> HIDE DEF F
<1>4. R \in Seq(S) /\ Rest(R, list, gone, Len(list))
  BY <1>2, KeepsRest
<1> QED
  BY <1>1, <1>3, <1>4

(* When nothing is in it twice, neither it is in what is left.             *)
LEMMA OmitOnce ==
  ASSUME NEW S, NEW list \in Seq(S), NEW gone,
         \A i, j \in DOMAIN list : list[i] = list[j] => i = j
  PROVE  /\ Omit(list, gone) \in Seq(S)
         /\ \A i, j \in DOMAIN Omit(list, gone) : Omit(list, gone)[i] = Omit(list, gone)[j] => i = j
         /\ {Omit(list, gone)[i] : i \in DOMAIN Omit(list, gone)}
              = {list[i] : i \in DOMAIN list} \ gone
<1> DEFINE R == Omit(list, gone)
<1>1. /\ R \in Seq(S) /\ Rest(R, list, gone, Len(list))
      /\ Len(list) \in Nat /\ DOMAIN list = 1 .. Len(list)
  BY OmitIs
<1> HIDE DEF R
<1>2. DOMAIN R = 1 .. Len(R) /\ Len(R) \in Nat
  BY <1>1, LenProperties
<1>3. ASSUME NEW i \in DOMAIN R, NEW j \in DOMAIN R, i < j PROVE R[i] # R[j]
  <2>1. PICK k, m \in 1 .. Len(list) : k < m /\ R[i] = list[k] /\ R[j] = list[m]
    BY <1>1, <1>3 DEF Rest
  <2>2. k # m
    BY <1>1, <2>1
  <2> QED
    BY <1>1, <2>1, <2>2
<1>4. ASSUME NEW i \in DOMAIN R, NEW j \in DOMAIN R, R[i] = R[j] PROVE i = j
  <2>1. ~(i < j) /\ ~(j < i)
    BY <1>3, <1>4
  <2> QED
    BY <1>2, <2>1
<1>5. {R[i] : i \in DOMAIN R} = {list[i] : i \in DOMAIN list} \ gone
  <2>1. ASSUME NEW i \in DOMAIN R PROVE \E k \in DOMAIN list : R[i] = list[k] /\ list[k] \notin gone
    BY <1>1 DEF Rest
  <2>2. ASSUME NEW k \in DOMAIN list, list[k] \notin gone PROVE \E i \in DOMAIN R : R[i] = list[k]
    BY <1>1, <2>2 DEF Rest
  <2> QED
    BY <2>1, <2>2
<1> QED
  BY <1>1, <1>4, <1>5 DEF R

(* ... and it is as long as it has elements.                               *)
LEMMA OnceLen ==
  ASSUME NEW S, NEW list \in Seq(S), \A i, j \in DOMAIN list : list[i] = list[j] => i = j
  PROVE  /\ IsFiniteSet({list[i] : i \in DOMAIN list})
         /\ Cardinality({list[i] : i \in DOMAIN list}) = Len(list)
         /\ Len(list) \in Nat
<1> DEFINE D == 1 .. Len(list)
           T == {list[i] : i \in DOMAIN list}
           f == [i \in D |-> list[i]]
<1>1. Len(list) \in Nat /\ DOMAIN list = D
  BY LenProperties
<1>2. IsFiniteSet(D) /\ Cardinality(D) = Len(list)
  BY <1>1, FS_Interval
<1>3. f \in Bijection(D, T)
  <2>1. f \in [D -> T] /\ (\A i, j \in D : f[i] = f[j] => i = j) /\ \A x \in T : \E i \in D : f[i] = x
    BY <1>1
  <2> HIDE DEF D, T, f
  <2> QED
    BY <2>1 DEF Bijection, Injection, Surjection, IsInjective
<1> HIDE DEF D, T, f
<1>4. IsFiniteSet(T) /\ Cardinality(T) = Cardinality(D)
  BY <1>2, <1>3, FS_Bijection DEF ExistsBijection
<1> QED
  BY <1>1, <1>2, <1>4 DEF T
-----------------------------------------------------------------------------
(* The rows and columns of a table that is numbered row by row.            *)
LEMMA RowsDiffer ==
  ASSUME NEW n \in Nat \ {0}, NEW q \in Nat, NEW r \in 0 .. n - 1,
         NEW d \in Nat, NEW m \in 0 .. n - 1, q < d
  PROVE  q * n + r # d * n + m
<1>1. PICK k \in Nat : d = q + 1 + k
  <2>1. d - q - 1 \in Nat
    OBVIOUS
  <2> QED
    BY <2>1
<1>2. d * n = q * n + n + k * n
  BY <1>1
<1>3. k * n \in Nat /\ q * n \in Nat
  OBVIOUS
<1>4. ASSUME NEW qn \in Nat, NEW kn \in Nat PROVE qn + r # qn + n + kn + m
  OBVIOUS
<1> QED
  BY <1>2, <1>3, <1>4

LEMMA RowAndColumn ==
  ASSUME NEW n \in Nat \ {0}, NEW x \in Nat
  PROVE  /\ x \div n \in Nat /\ x % n \in 0 .. n - 1
         /\ x = (x \div n) * n + (x % n)
         /\ \A m \in Nat : x < m * n => x \div n < m
<1> DEFINE q == x \div n
           r == x % n
<1>1. q \in Nat /\ r \in 0 .. n - 1 /\ x = q * n + r
  OBVIOUS
<1> HIDE DEF q, r
<1>2. ASSUME NEW m \in Nat, x < m * n PROVE q < m
  <2> SUFFICES ASSUME m <= q PROVE FALSE
    BY <1>1
  <2>1. PICK k \in Nat : q = m + k
    <3>1. q - m \in Nat
      BY <1>1
    <3> QED
      BY <1>1, <3>1
  <2>2. q * n = m * n + k * n /\ k * n \in Nat /\ m * n \in Nat
    BY <2>1
  <2>3. ASSUME NEW mn \in Nat, NEW kn \in Nat, x < mn, x = mn + kn + r PROVE FALSE
    BY <1>1, <2>3
  <2> QED
    BY <1>1, <1>2, <2>2, <2>3
<1> QED
  BY <1>1, <1>2 DEF q, r

LEMMA InRow ==
  ASSUME NEW n \in Nat \ {0}, NEW q \in Nat, NEW r \in 0 .. n - 1
  PROVE  /\ (q * n + r) \div n = q /\ (q * n + r) % n = r
         /\ \A m \in Nat : q < m => q * n + r < m * n
<1> DEFINE x == q * n + r
           d == x \div n
           m == x % n
<1>1. x \in Nat /\ q * n \in Nat
  OBVIOUS
<1>2. d \in Nat /\ m \in 0 .. n - 1 /\ x = d * n + m
  <2> HIDE DEF x
  <2> QED
    BY <1>1, RowAndColumn DEF d, m
<1> HIDE DEF d, m
<1>3. q = d
  <2>1. ~(q < d) /\ ~(d < q)
    BY <1>2, RowsDiffer
  <2> QED
    BY <1>2, <2>1
<1>4. r = m
  <2>1. ASSUME NEW qn \in Nat, qn + r = qn + m PROVE r = m
    BY <1>2, <2>1
  <2> QED
    BY <1>1, <1>2, <1>3, <2>1
<1>5. ASSUME NEW k \in Nat, q < k PROVE x < k * n
  <2>1. PICK j \in Nat : k = q + 1 + j
    <3>1. k - q - 1 \in Nat
      BY <1>5
    <3> QED
      BY <3>1
  <2>2. k * n = q * n + n + j * n /\ j * n \in Nat
    BY <2>1
  <2>3. ASSUME NEW qn \in Nat, NEW jn \in Nat PROVE qn + r < qn + n + jn
    OBVIOUS
  <2> QED
    BY <1>1, <2>2, <2>3
<1> QED
  BY <1>3, <1>4, <1>5 DEF d, m
=============================================================================
