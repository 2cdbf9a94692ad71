--------------------------- MODULE RWMutexClients ---------------------------
(***************************************************************************)
(* Threads that use the lock of RWMutex in matched pairs, the way the      *)
(* template, relay, file host and connection lists do: lock, work, unlock, *)
(* and never one lock inside another of the same list.                     *)
(***************************************************************************)
EXTENDS RWMutex, FiniteSets

ASSUME ThreadsFinite == IsFiniteSet(Threads)

VARIABLE pc   (* what each thread is doing with the lock *)

vars == <<hMtx, ulReadLocks, pc>>

Phases == {"idle", "wantRead", "reading", "wantWrite", "asleep", "writing"}

Reading == {t \in Threads : pc[t] = "reading"}
Writing == {t \in Threads : pc[t] = "writing"}

TypeOK ==
  /\ RWTypeOK
  /\ pc \in [Threads -> Phases]

Init ==
  /\ SysRWMutexCreate
  /\ pc = [t \in Threads |-> "idle"]

Goto(t, from, to) ==
  /\ pc[t] = from
  /\ pc' = [pc EXCEPT ![t] = to]

(* A thread decides to look at the list, or to change it.                  *)
WantRead(t)  == Goto(t, "idle", "wantRead") /\ UNCHANGED rwVars
WantWrite(t) == Goto(t, "idle", "wantWrite") /\ UNCHANGED rwVars

BeginRead(t)  == Goto(t, "wantRead", "reading") /\ LockRead(t)
EndRead(t)    == Goto(t, "reading", "idle") /\ UnlockRead(t)
BeginWrite(t) == Goto(t, "wantWrite", "writing") /\ LockWrite(t)
(* The attempt failed: the writer sleeps a tick (SysSleep) ...             *)
Backoff(t)    == Goto(t, "wantWrite", "asleep") /\ LockWriteBusy(t)
(* ... and goes round its loop.                                            *)
WakeUp(t)     == Goto(t, "asleep", "wantWrite") /\ UNCHANGED rwVars
EndWrite(t)   == Goto(t, "writing", "idle") /\ UnlockWrite(t)

Step(t) ==
  \/ WantRead(t) \/ BeginRead(t) \/ EndRead(t)
  \/ WantWrite(t) \/ BeginWrite(t) \/ Backoff(t) \/ WakeUp(t) \/ EndWrite(t)

Next == \E t \in Threads : Step(t)

Spec == Init /\ [][Next]_vars

(* The system mutex queues its waiters and hands itself to each in turn,   *)
(* so a thread that waits for it gets it (strong fairness); a thread that  *)
(* holds the lock, or sleeps, goes on (weak fairness).  Nothing obliges a  *)
(* thread to want the lock.                                                *)
Fairness ==
  \A t \in Threads :
    /\ SF_vars(BeginRead(t)) /\ SF_vars(EndRead(t))
    /\ SF_vars(BeginWrite(t) \/ Backoff(t))
    /\ WF_vars(WakeUp(t)) /\ WF_vars(EndWrite(t))

FairSpec == Spec /\ Fairness

----------------------------------------------------------------------------
(* Safety *)

(* A writer works alone: while one thread changes a list, no other thread  *)
(* walks it or changes it (the reason the lock exists).                    *)
Exclusion ==
  /\ Writing # {} => Reading = {}
  /\ \A t, u \in Writing : t = u

(* The count is exact: the guard of UnlockRead against an empty count is   *)
(* never what keeps it from going negative, and a writer that waits for    *)
(* zero waits for real readers and for nothing else.                       *)
CountsReaders == ulReadLocks = Cardinality(Reading)

(* hMtx is kept across steps by a thread that writes and by nobody else.   *)
OwnerWrites == \A t \in Threads : hMtx = t <=> pc[t] = "writing"

(* The promise of RWLock, kept by the mutex and the count.                 *)
Abstract == INSTANCE RWLock WITH readers <- Reading, writers <- Writing
LockPromise == Abstract!Spec

----------------------------------------------------------------------------
(* Liveness *)

(* A thread that wants to read gets in, whatever writers do.               *)
ReaderGetsIn == \A t \in Threads : pc[t] = "wantRead" ~> pc[t] = "reading"

(* The lock has no queue for writers: one gets in for certain only once    *)
(* the readers leave it alone.  Nothing stronger is promised, since readers *)
(* that overlap keep the count above zero and the writer asleep.           *)
WriterGetsIn ==
  <>[](\A t \in Threads : pc[t] \notin {"wantRead", "reading"})
    => \A t \in Threads : pc[t] = "wantWrite" ~> pc[t] = "writing"

(* Who waits for the lock does not wait for ever: a reader never, a writer *)
(* never once it has no more readers to wait for.                          *)
EverybodyGetsIn == ReaderGetsIn /\ WriterGetsIn
=============================================================================
