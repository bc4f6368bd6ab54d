-------------------------- MODULE ReadersWriterLock --------------------------
(***************************************************************************)
(* What src/core/SkSharedMutex.h promises: a lock held by many readers or  *)
(* by one writer, with no strict queue order, that alternates between      *)
(* readers and a single writer.                                            *)
(*                                                                         *)
(* turn is whom the lock lets in next. A writer that leaves while readers  *)
(* wait gives the turn to the readers, and only readers that leave give it *)
(* back. A reader that arrives when a writer holds the lock or waits for   *)
(* it has to wait.                                                         *)
(***************************************************************************)
CONSTANT Threads

VARIABLES
  reading,         (* threads that hold the lock shared      *)
  writing,         (* threads that hold the lock exclusively *)
  waitingReaders,  (* threads waiting inside acquireShared() *)
  waitingWriters,  (* threads waiting inside acquire()       *)
  turn             (* "readers" or "writer"                  *)

lockVars == <<reading, writing, waitingReaders, waitingWriters, turn>>

Engaged == reading \union writing \union waitingReaders \union waitingWriters
WriterAround == writing \union waitingWriters # {}

LockInit ==
  /\ reading = {} /\ writing = {}
  /\ waitingReaders = {} /\ waitingWriters = {}
  /\ turn = "writer"

StartRead(t) ==
  /\ t \notin Engaged /\ ~WriterAround
  /\ reading' = reading \union {t}
  /\ turn' = "readers"
  /\ UNCHANGED <<writing, waitingReaders, waitingWriters>>

AwaitRead(t) ==
  /\ t \notin Engaged /\ WriterAround
  /\ waitingReaders' = waitingReaders \union {t}
  /\ UNCHANGED <<reading, writing, waitingWriters, turn>>

AdmitReader(t) ==
  /\ t \in waitingReaders /\ turn = "readers"
  /\ waitingReaders' = waitingReaders \ {t}
  /\ reading' = reading \union {t}
  /\ UNCHANGED <<writing, waitingWriters, turn>>

EndRead(t) ==
  /\ t \in reading
  /\ reading' = reading \ {t}
  /\ turn' \in {turn} \union (IF reading = {t} THEN {"writer"} ELSE {})
  /\ UNCHANGED <<writing, waitingReaders, waitingWriters>>

StartWrite(t) ==
  /\ t \notin Engaged /\ ~WriterAround
  /\ reading = {} /\ turn = "writer"
  /\ writing' = {t}
  /\ UNCHANGED <<reading, waitingReaders, waitingWriters, turn>>

AwaitWrite(t) ==
  /\ t \notin Engaged
  /\ waitingWriters' = waitingWriters \union {t}
  /\ UNCHANGED <<reading, writing, waitingReaders, turn>>

AdmitWriter(t) ==
  /\ t \in waitingWriters /\ turn = "writer"
  /\ reading = {} /\ writing = {}
  /\ waitingWriters' = waitingWriters \ {t}
  /\ writing' = {t}
  /\ UNCHANGED <<reading, waitingReaders, turn>>

EndWrite(t) ==
  /\ t \in writing
  /\ writing' = writing \ {t}
  /\ turn' = IF waitingReaders = {} THEN "writer" ELSE "readers"
  /\ UNCHANGED <<reading, waitingReaders, waitingWriters>>

LockNext == \E t \in Threads :
  \/ StartRead(t) \/ AwaitRead(t) \/ AdmitReader(t) \/ EndRead(t)
  \/ StartWrite(t) \/ AwaitWrite(t) \/ AdmitWriter(t) \/ EndWrite(t)

LockSpec == LockInit /\ [][LockNext]_lockVars

(* Whoever waits does not wait while the lock is never given to its kind.  *)
WritersServed == (waitingWriters # {}) ~> (writing # {})
ReadersServed == (waitingReaders # {}) ~> (reading # {})
=============================================================================
