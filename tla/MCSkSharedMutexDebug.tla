------------------------ MODULE MCSkSharedMutexDebug ------------------------
(* The debug SkSharedMutex for TLC: four threads, each free to read or      *)
(* write.                                                                   *)
EXTENDS SkSharedMutexDebug

=============================================================================
