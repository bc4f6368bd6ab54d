-------------------------- MODULE MCGrResourceCache --------------------------
(* The resource cache for TLC: two or three resources and a small budget.  *)
(* No definition tells resources apart, or keys of one kind.               *)
EXTENDS GrResourceCache

Symmetry ==
  Permutations(Resources) \union Permutations(ScratchKeys) \union Permutations(UniqueKeys)

(* A bound on the run that looks for a miscount: a living context, and no  *)
(* wrapped resource.                                                       *)
Unwrapped == context = "alive" /\ \A r \in Resources : ~cache.res[r].refsWrapped

(* Omit is what SelectSeq does. *)
ASSUME OmitIsSelectSeq ==
  \A list \in BoundedSeq(Resources, 3) : \A gone \in SUBSET Resources :
    Omit(list, gone) = SelectSeq(list, LAMBDA r : r \notin gone)

=============================================================================
