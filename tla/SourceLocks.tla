---------------------------- MODULE SourceLocks ----------------------------
(***************************************************************************)
(* How the two kinds of lock of src/src/sources.c meet: rwmtxSourcesList,  *)
(* the reader/writer lock of the list, and hmtxQueryLocks, one mutex per   *)
(* source.  Sources takes each stretch under a lock as one step; here the  *)
(* steps are the calls that take and give back the locks, in the order of  *)
(* the code:                                                               *)
(*                                                                         *)
(*   SourceQuery, SourceQueryById and the collector: the list for reading, *)
(*     and inside it the mutex of the source they found;                   *)
(*   SourceDestroy: the mutex of the source, and inside it the list for    *)
(*     writing;                                                            *)
(*   SourceCreate: the list for writing;                                   *)
(*   SourceQueryList ... SourceReleaseList, around a page that lists the   *)
(*     sources: the list for reading, unless it looks empty; but it is     *)
(*     given back in any case.                                             *)
(*                                                                         *)
(* The last of these can let the list be changed under a walk.  What a     *)
(* walk finds then is not described: here it goes on as if nothing were.   *)
(***************************************************************************)
EXTENDS RWMutex, FiniteSets

CONSTANTS
  Sources,     (* the SOURCE objects *)
  NoSource,    (* no source *)
  Queriers,    (* the threads that query a source *)
  Destroyers,  (* the threads that destroy one *)
  Creators,    (* the threads that insert one *)
  Pagers,      (* the threads that draw a page with all of them *)
  MaxCalls     (* bound: how many operations each thread starts *)

ASSUME SourceLocksAssumption ==
  /\ Queriers \cup Destroyers \cup Creators \cup Pagers \subseteq Threads
  /\ NoSource \notin Sources /\ MaxCalls \in Nat

VARIABLES
  linked,           (* the sources in psSourcesList *)
  hmtxQueryLocks,   (* the thread that owns each source's mutex *)
  place,            (* where each thread is *)
  psSource,         (* the source each thread's operation is about *)
  calls,            (* how many operations each thread has started *)
  unpaired          (* history: how many of those who walk are not counted *)
                    (* any more, since a page gave back what it had not *)

callvars == <<rwVars, linked, hmtxQueryLocks, place, psSource, calls, unpaired>>

CallPhases == {"idle", "walk", "leave", "unlink", "unlinking", "unlinked",
               "insert", "inserting", "page", "paging", "paged"}

CallsTypeOK ==
  /\ RWTypeOK
  /\ linked \subseteq Sources
  /\ hmtxQueryLocks \in [Sources -> Threads \cup {NoThread}]
  /\ place \in [Threads -> CallPhases]
  /\ psSource \in [Threads -> Sources \cup {NoSource}]
  /\ calls \in [Threads -> 0..MaxCalls]
  /\ unpaired \in Nat

CallsInit ==
  /\ SysRWMutexCreate
  /\ linked = {}
  /\ hmtxQueryLocks = [s \in Sources |-> NoThread]
  /\ place = [t \in Threads |-> "idle"]
  /\ psSource = [t \in Threads |-> NoSource]
  /\ calls = [t \in Threads |-> 0]
  /\ unpaired = 0

(* A thread starts an operation on s (or on the list).                     *)
Start(t, phase, s) ==
  /\ place[t] = "idle" /\ calls[t] < MaxCalls
  /\ place' = [place EXCEPT ![t] = phase]
  /\ psSource' = [psSource EXCEPT ![t] = s]
  /\ calls' = [calls EXCEPT ![t] = @ + 1]

CallGoto(t, from, to) ==
  /\ place[t] = from
  /\ place' = [place EXCEPT ![t] = to]
  /\ UNCHANGED <<psSource, calls>>

----------------------------------------------------------------------------
(* SourceQuery: the walk of the list, and _SourceQuery of what it found    *)

QueryBegin(t, s) ==
  /\ t \in Queriers
  /\ Start(t, "walk", s) /\ LockRead(t)
  /\ UNCHANGED <<linked, hmtxQueryLocks, unpaired>>

(* Mutant: _SourceQuery does not give the source's mutex back.             *)
QueryFoundKept(t) ==
  /\ psSource[t] \in linked => hmtxQueryLocks[psSource[t]] \in {NoThread, t}
  /\ CallGoto(t, "walk", "leave")
  /\ hmtxQueryLocks' = [s \in Sources |-> IF s \in linked \cap {psSource[t]} THEN t ELSE hmtxQueryLocks[s]]
  /\ UNCHANGED <<rwVars, linked, unpaired>>

(* The mutex of the source is taken and given back in one go, once it is   *)
(* free: that is where a walk may have to wait with the list locked.       *)
QueryFound(t) ==
  /\ psSource[t] \in linked => hmtxQueryLocks[psSource[t]] = NoThread
  /\ CallGoto(t, "walk", "leave")
  /\ UNCHANGED <<rwVars, linked, hmtxQueryLocks, unpaired>>

(* Whoever walked gives the lock back, and is counted out if a count is    *)
(* left.                                                                   *)
WalkOver(t) ==
  /\ UnlockRead(t)
  /\ unpaired' = IF ulReadLocks = 0 THEN unpaired - 1 ELSE unpaired

QueryEnd(t) == CallGoto(t, "leave", "idle") /\ WalkOver(t) /\ UNCHANGED <<linked, hmtxQueryLocks>>

----------------------------------------------------------------------------
(* SourceDestroy, called by the owner of a source (or for it)              *)

DestroyBegin(t, s) ==
  /\ t \in Destroyers
  /\ s \in linked /\ hmtxQueryLocks[s] = NoThread
  /\ Start(t, "unlink", s)
  /\ hmtxQueryLocks' = [hmtxQueryLocks EXCEPT ![s] = t]
  /\ UNCHANGED <<rwVars, linked, unpaired>>

DestroyLocks(t) ==
  /\ CallGoto(t, "unlink", "unlinking")
  /\ LockWrite(t)
  /\ UNCHANGED <<linked, hmtxQueryLocks, unpaired>>

(* A failed attempt and the sleep after it change nothing.                 *)
DestroyUnlinks(t) ==
  /\ CallGoto(t, "unlinking", "unlinked")
  /\ UnlockWrite(t)
  /\ linked' = linked \ {psSource[t]}
  /\ UNCHANGED <<hmtxQueryLocks, unpaired>>

DestroyEnd(t) ==
  /\ CallGoto(t, "unlinked", "idle")
  /\ hmtxQueryLocks' = [hmtxQueryLocks EXCEPT ![psSource[t]] = NoThread]
  /\ UNCHANGED <<rwVars, linked, unpaired>>

----------------------------------------------------------------------------
(* SourceCreate: the insertion at its end                                  *)

InsertBegin(t, s) ==
  /\ t \in Creators /\ s \notin linked
  /\ \A u \in Threads : psSource[u] = s => place[u] = "idle"
  /\ Start(t, "insert", s)
  /\ UNCHANGED <<rwVars, linked, hmtxQueryLocks, unpaired>>

InsertLocks(t) ==
  /\ CallGoto(t, "insert", "inserting")
  /\ LockWrite(t)
  /\ UNCHANGED <<linked, hmtxQueryLocks, unpaired>>

InsertEnd(t) ==
  /\ CallGoto(t, "inserting", "idle")
  /\ UnlockWrite(t)
  /\ linked' = linked \cup {psSource[t]}
  /\ UNCHANGED <<hmtxQueryLocks, unpaired>>

----------------------------------------------------------------------------
(* SourceQueryList, the walk, and SourceReleaseList                        *)

(* An empty list is not locked; the caller cannot tell.                    *)
PageBegin(t) ==
  /\ t \in Pagers
  /\ Start(t, IF linked = {} THEN "paged" ELSE "page", NoSource)
  /\ UNCHANGED <<rwVars, linked, hmtxQueryLocks, unpaired>>

PageLocks(t) ==
  /\ CallGoto(t, "page", "paging")
  /\ LockRead(t)
  /\ UNCHANGED <<linked, hmtxQueryLocks, unpaired>>

(* It unlocks the list all the same: then a thread that came to walk the   *)
(* list meanwhile is counted out in its place.                             *)
PageEnd(t) ==
  /\ \/ CallGoto(t, "paging", "idle") /\ WalkOver(t)
     \/ /\ CallGoto(t, "paged", "idle") /\ UnlockRead(t)
        /\ unpaired' = IF ulReadLocks > 0 THEN unpaired + 1 ELSE unpaired
  /\ UNCHANGED <<linked, hmtxQueryLocks>>

----------------------------------------------------------------------------

Begin(t) ==
  \/ \E s \in Sources : QueryBegin(t, s) \/ DestroyBegin(t, s) \/ InsertBegin(t, s)
  \/ PageBegin(t)

CallStep(t) ==
  \/ QueryFound(t) \/ QueryEnd(t)
  \/ DestroyLocks(t) \/ DestroyUnlinks(t) \/ DestroyEnd(t)
  \/ InsertLocks(t) \/ InsertEnd(t)
  \/ PageLocks(t) \/ PageEnd(t)

CallsNext == \E t \in Threads : Begin(t) \/ CallStep(t)

CallsSpec == CallsInit /\ [][CallsNext]_callvars

(* A thread in an operation runs, and gets a mutex that is free again and  *)
(* again: the system queues the waiters of a mutex.                        *)
CallsFairSpec == CallsSpec /\ \A t \in Threads : SF_callvars(CallStep(t))

----------------------------------------------------------------------------
(* Properties *)

Walking  == {t \in Threads : place[t] \in {"walk", "leave", "paging"}}
Changing == {t \in Threads : place[t] \in {"unlinking", "inserting"}}

(* While a thread walks the list nobody relinks it: psNext of the source   *)
(* it stands on is not cleared, and the source is not freed, under it.     *)
(* The exceptions are as many as pages have given back a lock they had not *)
(* taken: every other walk keeps the writers out.                          *)
WalksUndisturbed == Changing # {} => Cardinality(Walking) <= unpaired

(* Every thread that walks is counted in, but for those.                   *)
WalkersCounted == ulReadLocks + unpaired = Cardinality(Walking)

(* A broken connection ends in the end: its source leaves the list.        *)
DestroyCompletes ==
  \A t \in Threads, s \in Sources :
    place[t] = "unlink" /\ psSource[t] = s ~> s \notin linked

(* A query of a source returns to its caller, unless it waits with the     *)
(* list locked for a thread that waits, with the source locked, for the    *)
(* list: that is the one way in which the locks stop a query.              *)
Inverted(t) ==
  /\ place[t] = "walk" /\ psSource[t] \in linked
  /\ \E u \in Threads : hmtxQueryLocks[psSource[t]] = u /\ place[u] = "unlink"

QueryReturns == \A t \in Threads : place[t] = "walk" ~> place[t] = "idle" \/ Inverted(t)
=============================================================================
