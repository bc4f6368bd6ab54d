-------------------------------- MODULE Lists --------------------------------
(* A list without some of its elements. (This is SelectSeq written out, of *)
(* which the provers have no definition.)                                  *)
EXTENDS Integers, Sequences

Omit(list, gone) ==
  LET F[i \in 0 .. Len(list)] ==
        IF i = 0 THEN <<>>
        ELSE IF list[i] \in gone THEN F[i - 1] ELSE Append(F[i - 1], list[i])
  IN F[Len(list)]
=============================================================================
