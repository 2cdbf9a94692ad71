------------------------------- MODULE RWLock -------------------------------
(***************************************************************************)
(* What a reader/writer lock promises its callers, with no mutex and no    *)
(* count: a writer is alone, readers may share.  RWMutexClients is shown   *)
(* to implement it.                                                        *)
(***************************************************************************)
CONSTANT Threads

VARIABLES
  readers,   (* the threads that hold the lock for reading *)
  writers    (* the threads that hold it for writing *)

lockVars == <<readers, writers>>

Init ==
  /\ readers = {}
  /\ writers = {}

EnterRead(t) ==
  /\ t \notin readers
  /\ writers = {}
  /\ readers' = readers \cup {t}
  /\ UNCHANGED writers

LeaveRead(t) ==
  /\ t \in readers
  /\ readers' = readers \ {t}
  /\ UNCHANGED writers

EnterWrite(t) ==
  /\ readers = {}
  /\ writers = {}
  /\ writers' = {t}
  /\ UNCHANGED readers

LeaveWrite(t) ==
  /\ t \in writers
  /\ writers' = writers \ {t}
  /\ UNCHANGED readers

Next ==
  \E t \in Threads :
    EnterRead(t) \/ LeaveRead(t) \/ EnterWrite(t) \/ LeaveWrite(t)

Spec == Init /\ [][Next]_lockVars
=============================================================================
