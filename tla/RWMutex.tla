------------------------------ MODULE RWMutex ------------------------------
(***************************************************************************)
(* The reader/writer lock of src/system/system.c: one operating system     *)
(* mutex (hMtx) and a count of the readers (ulReadLocks).                  *)
(*                                                                         *)
(* A reader holds hMtx only while it counts itself in or out.  A writer    *)
(* that finds the count at zero keeps hMtx until it unlocks; otherwise it  *)
(* gives hMtx back, sleeps and tries again.  Every operator below is one   *)
(* stretch of code during which the caller holds hMtx, so it is one step.  *)
(* The module only has the operations: the modules that use a lock say     *)
(* which threads call them, and when.                                      *)
(***************************************************************************)
EXTENDS Integers

CONSTANTS
  Threads,    (* the threads that call the operations *)
  NoThread    (* nobody owns hMtx *)

ASSUME NoThreadAssumption == NoThread \notin Threads

VARIABLES
  hMtx,         (* the thread that owns the mutex, or NoThread *)
  ulReadLocks   (* how many read locks are counted in *)

rwVars == <<hMtx, ulReadLocks>>

RWTypeOK ==
  /\ hMtx \in Threads \cup {NoThread}
  /\ ulReadLocks \in Nat

(* (A definition marked "mutant" is the one that follows it with a bug put *)
(* in; nothing uses it but the check that some property notices.)          *)

SysRWMutexCreate ==
  /\ hMtx = NoThread
  /\ ulReadLocks = 0

(* mutant: does not look at the count *)
LockWriteUnchecked(t) ==
  /\ hMtx = NoThread
  /\ hMtx' = t
  /\ UNCHANGED ulReadLocks

(* SysRWMutexLockWrite, an attempt that succeeds: no reader is counted in, *)
(* and the writer leaves the loop with hMtx in its hands.                  *)
LockWrite(t) ==
  /\ hMtx = NoThread
  /\ ulReadLocks = 0
  /\ hMtx' = t
  /\ UNCHANGED ulReadLocks

(* mutant: goes round the loop without giving the mutex back *)
LockWriteHolding(t) ==
  /\ hMtx \in {NoThread, t}
  /\ ulReadLocks # 0
  /\ hMtx' = t
  /\ UNCHANGED ulReadLocks

(* An attempt that finds a reader: hMtx is taken and given back.           *)
LockWriteBusy(t) ==
  /\ hMtx = NoThread
  /\ ulReadLocks # 0
  /\ UNCHANGED rwVars

UnlockWrite(t) ==
  /\ hMtx = t
  /\ hMtx' = NoThread
  /\ UNCHANGED ulReadLocks

(* mutant: counts itself in without the mutex *)
LockReadUnguarded(t) ==
  /\ ulReadLocks' = ulReadLocks + 1
  /\ UNCHANGED hMtx

LockRead(t) ==
  /\ hMtx = NoThread
  /\ ulReadLocks' = ulReadLocks + 1
  /\ UNCHANGED hMtx

(* mutant: does not count itself out *)
UnlockReadNot(t) == hMtx = NoThread /\ UNCHANGED rwVars

(* The count never goes below zero: unlocking a lock nobody counted in is  *)
(* silently accepted, which is what hides an unbalanced caller.            *)
UnlockRead(t) ==
  /\ hMtx = NoThread
  /\ ulReadLocks' = IF ulReadLocks > 0 THEN ulReadLocks - 1 ELSE 0
  /\ UNCHANGED hMtx
=============================================================================
