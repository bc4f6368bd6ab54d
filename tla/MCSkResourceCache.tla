------------------------- MODULE MCSkResourceCache -------------------------
(* Bitmaps take two bytes, mip maps one. Two blocks of a kind: a key can be *)
(* decoded twice at a time.                                                *)
EXTENDS SkResourceCache

MCBlocks == Bitmaps \union Datas
MCBytes == [b \in MCBlocks |-> IF b \in Bitmaps THEN 2 ELSE 1]

Symmetry == Permutations(Threads) \union Permutations(Bitmaps) \union Permutations(Datas)
=============================================================================
