--------------------------- MODULE MCSkThreadPool ---------------------------
(* A pool for TLC: the owner adds two tasks, which each add one to a group *)
(* of their own, and another client adds work to no group.                 *)
EXTENDS SkThreadPool

CONSTANTS w1, w2, main, other, a, b, a1, b1, l

MCAddedBy ==
  a :> main @@ b :> main @@ l :> other @@ a1 :> a @@ b1 :> b

(* The clients of this pool use groups as they are meant to be used. *)
ASSUME UsedAsMeant == LooseAlone /\ Grounded
=============================================================================
