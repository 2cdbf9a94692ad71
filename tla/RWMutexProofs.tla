--------------------------- MODULE RWMutexProofs ---------------------------
(***************************************************************************)
(* For any finite set of threads, the reader/writer lock keeps writers     *)
(* alone and implements the abstract lock of RWLock.                       *)
(*                                                                         *)
(* Exclusion is not inductive: that a writer may enter depends on the      *)
(* count being the number of readers, and that a reader may not enter on   *)
(* hMtx being the writer's.  IInv adds both.                               *)
(*                                                                         *)
(* The second part is about the same lock in the hands of the calls of     *)
(* sources.c (SourceLocks), which also take the mutexes of the sources and *)
(* are not always in pairs: nobody relinks the list under a walk, unless a *)
(* call out of pair counted that walk out.                                 *)
(***************************************************************************)
EXTENDS RWMutexClients, SourceLocks, FiniteSetTheorems, TLAPS

WriterAlone == hMtx # NoThread => Reading = {}

IInv == TypeOK /\ OwnerWrites /\ CountsReaders /\ WriterAlone

(* The readers are finitely many: CountsReaders is about a natural number. *)
LEMMA ReadingFinite == IsFiniteSet(Reading) /\ Cardinality(Reading) \in Nat
<1>1. Reading \in SUBSET Threads
  BY DEF Reading
<1>2. IsFiniteSet(Reading)
  BY <1>1, ThreadsFinite, FS_Subset
<1> QED
  BY <1>2, FS_CardinalityType

(* A thread that stops or starts being a reader changes their number by    *)
(* one; a move between two other phases does not change the set.           *)
LEMMA ReadingMoves ==
  ASSUME TypeOK, NEW t \in Threads, NEW from \in Phases, NEW to \in Phases,
         Goto(t, from, to)
  PROVE  /\ pc' \in [Threads -> Phases]
         /\ from # "reading" /\ to = "reading"
              => Reading' = Reading \cup {t} /\ t \notin Reading
         /\ from = "reading" /\ to # "reading"
              => Reading' = Reading \ {t} /\ t \in Reading
         /\ from # "reading" /\ to # "reading" => Reading' = Reading
  BY DEF TypeOK, Goto, Reading

(* The invariant holds of a new lock, ...                                  *)
LEMMA InitIInv == Init => IInv
<1> SUFFICES ASSUME Init PROVE IInv
  OBVIOUS
<1>1. TypeOK /\ OwnerWrites
  BY NoThreadAssumption
     DEF Init, SysRWMutexCreate, TypeOK, RWTypeOK, OwnerWrites, Phases
<1>2. Reading = {}
  BY DEF Init, Reading
<1>3. CountsReaders /\ WriterAlone
  BY <1>2, FS_EmptySet DEF Init, SysRWMutexCreate, CountsReaders, WriterAlone
<1> QED
  BY <1>1, <1>3 DEF IInv

(* ... and every step keeps it: a reader changes the count by one, and a   *)
(* writer enters when the count says that nobody reads.                    *)
LEMMA NextIInv == IInv /\ [Next]_vars => IInv'
<1> SUFFICES ASSUME IInv, [Next]_vars PROVE IInv'
  OBVIOUS
<1> USE NoThreadAssumption DEF IInv, Phases
<1>1. ASSUME NEW t \in Threads, BeginRead(t) PROVE IInv'
  <2>1. Reading' = Reading \cup {t} /\ t \notin Reading /\ TypeOK'
    BY <1>1, ReadingMoves DEF BeginRead, LockRead, TypeOK, RWTypeOK
  <2>2. Cardinality(Reading') = Cardinality(Reading) + 1
    BY <2>1, ReadingFinite, FS_AddElement
  <2>3. CountsReaders'
    BY <1>1, <2>2 DEF BeginRead, LockRead, CountsReaders
  <2>4. OwnerWrites' /\ WriterAlone'
    BY <1>1 DEF BeginRead, LockRead, OwnerWrites, WriterAlone, Goto, TypeOK
  <2> QED
    BY <2>1, <2>3, <2>4
<1>2. ASSUME NEW t \in Threads, EndRead(t) PROVE IInv'
  <2>1. Reading' = Reading \ {t} /\ t \in Reading /\ pc' \in [Threads -> Phases]
    BY <1>2, ReadingMoves DEF EndRead
  <2>2. Cardinality(Reading') = Cardinality(Reading) - 1
    BY <2>1, ReadingFinite, FS_RemoveElement
  <2>3. Cardinality(Reading) # 0
    BY <2>1, ReadingFinite, FS_EmptySet
  <2>4. CountsReaders' /\ TypeOK'
    BY <1>2, <2>1, <2>2, <2>3, ReadingFinite
       DEF EndRead, UnlockRead, CountsReaders, TypeOK, RWTypeOK
  <2>5. OwnerWrites' /\ WriterAlone'
    BY <1>2 DEF EndRead, UnlockRead, OwnerWrites, WriterAlone, Goto, TypeOK
  <2> QED
    BY <2>4, <2>5
<1>3. ASSUME NEW t \in Threads, BeginWrite(t) PROVE IInv'
  <2>1. Reading' = Reading /\ TypeOK'
    BY <1>3, ReadingMoves DEF BeginWrite, LockWrite, TypeOK, RWTypeOK
  <2>2. Reading = {}
    BY <1>3, ReadingFinite, FS_EmptySet DEF BeginWrite, LockWrite, CountsReaders
  <2>3. OwnerWrites'
    BY <1>3 DEF BeginWrite, LockWrite, OwnerWrites, Goto, TypeOK
  <2>4. CountsReaders' /\ WriterAlone'
    BY <1>3, <2>1, <2>2 DEF BeginWrite, LockWrite, CountsReaders, WriterAlone
  <2> QED
    BY <2>1, <2>3, <2>4
<1>4. ASSUME NEW t \in Threads, EndWrite(t) PROVE IInv'
  <2>1. Reading' = Reading /\ TypeOK'
    BY <1>4, ReadingMoves DEF EndWrite, UnlockWrite, TypeOK, RWTypeOK
  <2>2. OwnerWrites'
    BY <1>4 DEF EndWrite, UnlockWrite, OwnerWrites, Goto, TypeOK
  <2>3. CountsReaders' /\ WriterAlone'
    BY <1>4, <2>1 DEF EndWrite, UnlockWrite, CountsReaders, WriterAlone
  <2> QED
    BY <2>1, <2>2, <2>3
<1>5. ASSUME NEW t \in Threads,
             WantRead(t) \/ WantWrite(t) \/ Backoff(t) \/ WakeUp(t)
      PROVE  IInv'
  <2>1. UNCHANGED rwVars
    BY <1>5 DEF WantRead, WantWrite, Backoff, LockWriteBusy, WakeUp
  <2>2. Reading' = Reading /\ pc' \in [Threads -> Phases]
    BY <1>5, ReadingMoves DEF WantRead, WantWrite, Backoff, WakeUp
  <2>3. OwnerWrites'
    BY <1>5, <2>1
       DEF WantRead, WantWrite, Backoff, WakeUp, OwnerWrites, Goto, TypeOK, rwVars
  <2> QED
    BY <2>1, <2>2, <2>3 DEF rwVars, TypeOK, RWTypeOK, CountsReaders, WriterAlone
<1>6. CASE UNCHANGED vars
  BY <1>6 DEF vars, TypeOK, RWTypeOK, OwnerWrites, CountsReaders, WriterAlone, Reading
<1> QED
  BY <1>1, <1>2, <1>3, <1>4, <1>5, <1>6 DEF Next, Step

(* The strengthened invariant holds in every reachable state.              *)
THEOREM Inductive == Spec => []IInv
  BY InitIInv, NextIInv, PTL DEF Spec

(* hMtx, ulReadLocks and the threads' phases keep their types.             *)
THEOREM Typed == Spec => []TypeOK
<1>1. IInv => TypeOK
  BY DEF IInv
<1> QED
  BY <1>1, Inductive, PTL

(* A writer works alone, however many threads use the lock.                *)
THEOREM WriterIsAlone == Spec => []Exclusion
<1>1. IInv => Exclusion
  BY NoThreadAssumption
     DEF IInv, Exclusion, OwnerWrites, WriterAlone, Writing
<1> QED
  BY <1>1, Inductive, PTL

(* The count is the number of readers, and hMtx is kept by writers only.   *)
THEOREM CountIsExact == Spec => [](CountsReaders /\ OwnerWrites)
<1>1. IInv => CountsReaders /\ OwnerWrites
  BY DEF IInv
<1> QED
  BY <1>1, Inductive, PTL

(* Every step of the mutex and the count is a step of the abstract lock,   *)
(* or one that it does not see.                                            *)
LEMMA AbstractStep == IInv /\ [Next]_vars => [Abstract!Next]_(Abstract!lockVars)
<1> SUFFICES ASSUME IInv, [Next]_vars PROVE [Abstract!Next]_(Abstract!lockVars)
  OBVIOUS
<1> USE NoThreadAssumption DEF IInv, Phases
<1>1. ASSUME NEW t \in Threads, BeginRead(t) PROVE Abstract!EnterRead(t)
  <2>1. Reading' = Reading \cup {t} /\ t \notin Reading
    BY <1>1, ReadingMoves DEF BeginRead
  <2>2. Writing = {} /\ Writing' = {}
    BY <1>1 DEF BeginRead, LockRead, Goto, OwnerWrites, Writing, TypeOK
  <2> QED
    BY <2>1, <2>2 DEF Abstract!EnterRead
<1>2. ASSUME NEW t \in Threads, EndRead(t) PROVE Abstract!LeaveRead(t)
  <2>1. Reading' = Reading \ {t} /\ t \in Reading
    BY <1>2, ReadingMoves DEF EndRead
  <2>2. Writing' = Writing
    BY <1>2 DEF EndRead, Goto, Writing, TypeOK
  <2> QED
    BY <2>1, <2>2 DEF Abstract!LeaveRead
<1>3. ASSUME NEW t \in Threads, BeginWrite(t) PROVE Abstract!EnterWrite(t)
  <2>1. Reading = {} /\ Reading' = Reading
    BY <1>3, ReadingMoves, ReadingFinite, FS_EmptySet
       DEF BeginWrite, LockWrite, CountsReaders
  <2>2. Writing = {} /\ Writing' = {t}
    BY <1>3 DEF BeginWrite, LockWrite, Goto, OwnerWrites, Writing, TypeOK
  <2> QED
    BY <2>1, <2>2 DEF Abstract!EnterWrite
<1>4. ASSUME NEW t \in Threads, EndWrite(t) PROVE Abstract!LeaveWrite(t)
  <2>1. Reading' = Reading
    BY <1>4, ReadingMoves DEF EndWrite
  <2>2. t \in Writing /\ Writing' = Writing \ {t}
    BY <1>4 DEF EndWrite, Goto, Writing, TypeOK
  <2> QED
    BY <2>1, <2>2 DEF Abstract!LeaveWrite
<1>5. ASSUME NEW t \in Threads,
             WantRead(t) \/ WantWrite(t) \/ Backoff(t) \/ WakeUp(t)
      PROVE  UNCHANGED <<Reading, Writing>>
  <2>1. Reading' = Reading
    BY <1>5, ReadingMoves DEF WantRead, WantWrite, Backoff, WakeUp
  <2>2. Writing' = Writing
    BY <1>5 DEF WantRead, WantWrite, Backoff, WakeUp, Goto, Writing, TypeOK
  <2> QED
    BY <2>1, <2>2
<1>6. CASE UNCHANGED vars
  BY <1>6 DEF vars, Reading, Writing, Abstract!lockVars
<1> QED
  BY <1>1, <1>2, <1>3, <1>4, <1>5, <1>6
     DEF Next, Step, Abstract!Next, Abstract!lockVars

(* The lock of system.c implements the abstract readers/writers lock.      *)
THEOREM Implements == Spec => LockPromise
<1>1. Init => Abstract!Init
  BY DEF Init, Abstract!Init, Reading, Writing
<1> QED
  BY <1>1, AbstractStep, Inductive, PTL DEF Spec, LockPromise, Abstract!Spec

----------------------------------------------------------------------------
(* The calls of sources.c                                                  *)
(*                                                                         *)
(* A page that finds the list empty gives a lock back that it has not, and *)
(* may so count out somebody who walks the list meanwhile.  The count and  *)
(* the number of those counted out so are together that of the walks.      *)

Relinks == {"unlinking", "inserting"}

CallsInv ==
  /\ place \in [Threads -> CallPhases]
  /\ ulReadLocks \in Nat /\ unpaired \in Nat
  /\ WalkersCounted
  /\ \A t \in Threads : place[t] \in Relinks => hMtx = t
  /\ WalksUndisturbed

(* The threads that walk are finitely many.                                *)
LEMMA WalkersFinite == IsFiniteSet(Walking) /\ Cardinality(Walking) \in Nat
<1>1. Walking \in SUBSET Threads
  BY DEF Walking
<1>2. IsFiniteSet(Walking)
  BY <1>1, ThreadsFinite, FS_Subset
<1> QED
  BY <1>2, FS_CardinalityType

(* A thread that begins or ends its walk changes their number by one.      *)
LEMMA WalkersMove ==
  ASSUME place \in [Threads -> CallPhases], NEW t \in Threads, NEW to \in CallPhases,
         place' = [place EXCEPT ![t] = to]
  PROVE  /\ place' \in [Threads -> CallPhases]
         /\ t \notin Walking /\ to \in {"walk", "leave", "paging"}
              => Cardinality(Walking') = Cardinality(Walking) + 1
         /\ t \in Walking /\ to \notin {"walk", "leave", "paging"}
              => /\ Cardinality(Walking') = Cardinality(Walking) - 1
                 /\ Cardinality(Walking) # 0
         /\ t \in Walking <=> to \in {"walk", "leave", "paging"}
              => Walking' = Walking
<1> DEFINE walks == to \in {"walk", "leave", "paging"}
<1>1. place' \in [Threads -> CallPhases]
  OBVIOUS
<1>2. ASSUME t \notin Walking, walks
      PROVE  Cardinality(Walking') = Cardinality(Walking) + 1
  <2>1. Walking' = Walking \cup {t}
    BY <1>2 DEF Walking
  <2> QED
    BY <1>2, <2>1, WalkersFinite, FS_AddElement
<1>3. ASSUME t \in Walking, ~walks
      PROVE  /\ Cardinality(Walking') = Cardinality(Walking) - 1
             /\ Cardinality(Walking) # 0
  <2>1. Walking' = Walking \ {t}
    BY <1>3 DEF Walking
  <2> QED
    BY <1>3, <2>1, WalkersFinite, FS_RemoveElement, FS_EmptySet
<1>4. ASSUME t \in Walking <=> walks PROVE Walking' = Walking
  BY <1>4 DEF Walking
<1> QED
  BY <1>1, <1>2, <1>3, <1>4

(* With no walk and no call under way the invariant holds.                 *)
LEMMA InitCalls == CallsInit => CallsInv
<1> SUFFICES ASSUME CallsInit PROVE CallsInv
  OBVIOUS
<1> USE DEF CallsInit
<1>1. Walking = {} /\ Changing = {}
  BY DEF Walking, Changing
<1>2. WalkersCounted /\ WalksUndisturbed
  BY <1>1, FS_EmptySet DEF WalkersCounted, WalksUndisturbed, SysRWMutexCreate
<1> QED
  BY <1>2 DEF CallsInv, Relinks, CallPhases, SysRWMutexCreate

(* While the mutex of the list is free nobody relinks it.                  *)
LEMMA NobodyRelinks ==
  ASSUME CallsInv, NEW t \in Threads, NEW to \in CallPhases \ Relinks,
         place' = [place EXCEPT ![t] = to], hMtx = NoThread
  PROVE  Changing' = {} /\ \A u \in Threads : place'[u] \notin Relinks
<1>1. \A u \in Threads : place[u] \notin Relinks
  BY NoThreadAssumption DEF CallsInv
<1>2. \A u \in Threads : place'[u] \notin Relinks
  BY <1>1 DEF CallsInv
<1> QED
  BY <1>2 DEF Changing, Relinks

(* A thread that takes the lock to read: nobody has it to write.           *)
LEMMA WalkBegins ==
  ASSUME CallsInv, NEW t \in Threads, NEW to \in {"walk", "paging"},
         t \notin Walking, place' = [place EXCEPT ![t] = to],
         LockRead(t), UNCHANGED unpaired
  PROVE  CallsInv'
<1>1. to \in CallPhases \ Relinks
  BY DEF CallPhases, Relinks
<1>2. /\ place' \in [Threads -> CallPhases]
      /\ Cardinality(Walking') = Cardinality(Walking) + 1
  BY <1>1, WalkersMove DEF CallsInv
<1>3. Changing' = {} /\ \A u \in Threads : place'[u] \notin Relinks
  BY <1>1, NobodyRelinks DEF LockRead
<1>4. WalkersCounted' /\ ulReadLocks' \in Nat /\ unpaired' \in Nat
  BY <1>2, WalkersFinite DEF CallsInv, WalkersCounted, LockRead
<1> QED
  BY <1>2, <1>3, <1>4 DEF CallsInv, WalksUndisturbed

(* A thread that gives it back had it: the counts are right again.         *)
LEMMA WalkEnds ==
  ASSUME CallsInv, NEW t \in Threads, t \in Walking,
         place' = [place EXCEPT ![t] = "idle"], WalkOver(t)
  PROVE  CallsInv'
<1>1. "idle" \in CallPhases \ Relinks
  BY DEF CallPhases, Relinks
<1>2. /\ place' \in [Threads -> CallPhases]
      /\ Cardinality(Walking') = Cardinality(Walking) - 1
      /\ Cardinality(Walking) # 0
  BY <1>1, WalkersMove DEF CallsInv
<1>3. Changing' = {} /\ \A u \in Threads : place'[u] \notin Relinks
  BY <1>1, NobodyRelinks DEF WalkOver, UnlockRead
<1>4. WalkersCounted' /\ ulReadLocks' \in Nat /\ unpaired' \in Nat
  BY <1>2, WalkersFinite DEF CallsInv, WalkersCounted, WalkOver, UnlockRead
<1> QED
  BY <1>2, <1>3, <1>4 DEF CallsInv, WalksUndisturbed

(* One that gives back what it had not: what it takes from the count of    *)
(* the others is known.                                                    *)
LEMMA PageOfNothing ==
  ASSUME CallsInv, NEW t \in Threads, place[t] = "paged",
         place' = [place EXCEPT ![t] = "idle"], UnlockRead(t),
         unpaired' = IF ulReadLocks > 0 THEN unpaired + 1 ELSE unpaired
  PROVE  CallsInv'
<1>1. "idle" \in CallPhases \ Relinks /\ t \notin Walking
  BY DEF CallPhases, Relinks, Walking
<1>2. place' \in [Threads -> CallPhases] /\ Walking' = Walking
  BY <1>1, WalkersMove DEF CallsInv
<1>3. Changing' = {} /\ \A u \in Threads : place'[u] \notin Relinks
  BY <1>1, NobodyRelinks DEF UnlockRead
<1>4. WalkersCounted' /\ ulReadLocks' \in Nat /\ unpaired' \in Nat
  BY <1>2, WalkersFinite DEF CallsInv, WalkersCounted, UnlockRead
<1> QED
  BY <1>2, <1>3, <1>4 DEF CallsInv, WalksUndisturbed

(* A thread that takes the lock to write: the count says that nobody walks *)
(* but who was counted out.                                                *)
LEMMA RelinkBegins ==
  ASSUME CallsInv, NEW t \in Threads, NEW to \in Relinks, t \notin Walking,
         place' = [place EXCEPT ![t] = to], LockWrite(t), UNCHANGED unpaired
  PROVE  CallsInv'
<1>1. to \in CallPhases /\ to \notin {"walk", "leave", "paging"}
  BY DEF CallPhases, Relinks
<1>2. place' \in [Threads -> CallPhases] /\ Walking' = Walking
  BY <1>1, WalkersMove DEF CallsInv
<1>3. Cardinality(Walking) = unpaired
  BY WalkersFinite DEF CallsInv, WalkersCounted, LockWrite
<1>4. WalkersCounted' /\ WalksUndisturbed'
  BY <1>2, <1>3, WalkersFinite DEF CallsInv, WalkersCounted, WalksUndisturbed, LockWrite
<1>5. \A u \in Threads : place'[u] \in Relinks => hMtx' = u
  BY NoThreadAssumption DEF CallsInv, LockWrite
<1> QED
  BY <1>2, <1>4, <1>5 DEF CallsInv, LockWrite

(* A thread that is not in the list, and does not get into it.             *)
LEMMA WalksElsewhere ==
  ASSUME CallsInv, NEW t \in Threads, NEW to \in CallPhases \ Relinks,
         t \in Walking <=> to \in {"walk", "leave", "paging"},
         place' = [place EXCEPT ![t] = to],
         UNCHANGED <<ulReadLocks, unpaired>>,
         hMtx' = hMtx \/ (hMtx = t /\ hMtx' = NoThread)
  PROVE  CallsInv'
<1>1. place' \in [Threads -> CallPhases] /\ Walking' = Walking
  BY WalkersMove DEF CallsInv
<1>2. \A u \in Threads : place'[u] \in Relinks => place[u] \in Relinks /\ u # t
  BY DEF CallsInv
<1>3. \A u \in Threads : place'[u] \in Relinks => hMtx' = u
  BY <1>2 DEF CallsInv
<1>4. Changing' \subseteq Changing
  BY <1>2 DEF Changing, Relinks
<1>5. WalkersCounted' /\ WalksUndisturbed'
  BY <1>1, <1>4 DEF CallsInv, WalkersCounted, WalksUndisturbed
<1> QED
  BY <1>1, <1>3, <1>5 DEF CallsInv

(* The operations one by one.                                              *)
LEMMA NextCalls == CallsInv /\ [CallsNext]_callvars => CallsInv'
<1> SUFFICES ASSUME CallsInv, [CallsNext]_callvars PROVE CallsInv'
  OBVIOUS
<1> USE DEF CallGoto, Start, CallPhases, Relinks
<1>1. ASSUME NEW t \in Threads, NEW s \in Sources, QueryBegin(t, s) PROVE CallsInv'
  BY <1>1, WalkBegins DEF QueryBegin, Walking
<1>2. ASSUME NEW t \in Threads, QueryFound(t) PROVE CallsInv'
  BY <1>2, WalksElsewhere DEF QueryFound, Walking, rwVars
<1>3. ASSUME NEW t \in Threads, QueryEnd(t) PROVE CallsInv'
  BY <1>3, WalkEnds DEF QueryEnd, Walking
<1>4. ASSUME NEW t \in Threads, NEW s \in Sources, DestroyBegin(t, s) PROVE CallsInv'
  BY <1>4, WalksElsewhere DEF DestroyBegin, Walking, rwVars
<1>5. ASSUME NEW t \in Threads, DestroyLocks(t) PROVE CallsInv'
  BY <1>5, RelinkBegins DEF DestroyLocks, Walking
<1>6. ASSUME NEW t \in Threads, DestroyUnlinks(t) PROVE CallsInv'
  BY <1>6, WalksElsewhere DEF DestroyUnlinks, UnlockWrite, Walking
<1>7. ASSUME NEW t \in Threads, DestroyEnd(t) PROVE CallsInv'
  BY <1>7, WalksElsewhere DEF DestroyEnd, Walking, rwVars
<1>8. ASSUME NEW t \in Threads, NEW s \in Sources, InsertBegin(t, s) PROVE CallsInv'
  BY <1>8, WalksElsewhere DEF InsertBegin, Walking, rwVars
<1>9. ASSUME NEW t \in Threads, InsertLocks(t) PROVE CallsInv'
  BY <1>9, RelinkBegins DEF InsertLocks, Walking
<1>10. ASSUME NEW t \in Threads, InsertEnd(t) PROVE CallsInv'
  BY <1>10, WalksElsewhere DEF InsertEnd, UnlockWrite, Walking
<1>11. ASSUME NEW t \in Threads, PageBegin(t) PROVE CallsInv'
  <2>1. PICK to \in {"page", "paged"} : place' = [place EXCEPT ![t] = to]
    BY <1>11 DEF PageBegin
  <2>2. t \notin Walking /\ UNCHANGED <<rwVars, unpaired>>
    BY <1>11 DEF PageBegin, Walking
  <2> QED
    BY <2>1, <2>2, WalksElsewhere DEF rwVars
<1>12. ASSUME NEW t \in Threads, PageLocks(t) PROVE CallsInv'
  BY <1>12, WalkBegins DEF PageLocks, Walking
<1>13. ASSUME NEW t \in Threads, PageEnd(t) PROVE CallsInv'
  BY <1>13, WalkEnds, PageOfNothing DEF PageEnd, Walking
<1>14. CASE UNCHANGED callvars
  BY <1>14 DEF callvars, rwVars, CallsInv, WalkersCounted, Walking, WalksUndisturbed, Changing
<1> QED
  BY <1>1, <1>2, <1>3, <1>4, <1>5, <1>6, <1>7, <1>8, <1>9, <1>10, <1>11, <1>12, <1>13, <1>14
     DEF CallsNext, Begin, CallStep

(* Nobody relinks the list of sources under a walk, whoever queries,       *)
(* removes, inserts and lists at once (SourceQuery, SourceDestroy,         *)
(* SourceCreate, SourceQueryList), but for as many walks as were counted   *)
(* out by pages that found the list empty.                                 *)
THEOREM WalksStayUndisturbed == CallsSpec => []WalksUndisturbed
<1>1. CallsInv => WalksUndisturbed
  BY DEF CallsInv
<1>2. CallsInv /\ [CallsNext]_callvars => CallsInv'
  BY NextCalls
<1> QED
  BY <1>1, <1>2, InitCalls, PTL DEF CallsSpec
=============================================================================
