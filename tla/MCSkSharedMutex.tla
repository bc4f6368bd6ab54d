--------------------------- MODULE MCSkSharedMutex ---------------------------
(* SkSharedMutex for TLC: four threads, each free to read or write, and     *)
(* counts just wide enough for them: one more than there are threads would  *)
(* carry into the next count.                                               *)
EXTENDS SkSharedMutex, Bitwise

MCBitOr(m, n) == m | n

=============================================================================
