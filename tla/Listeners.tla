----------------------------- MODULE Listeners -----------------------------
(***************************************************************************)
(* The listeners of one source: src/src/clients.c and what src/src/sources *)
(* .c does for it (SourceAttachClient, SourceRead, SourceDetachClient,     *)
(* SourceDetachClientById, _SourceDestroy), up to the end of the source.   *)
(*                                                                         *)
(* The threads: each listener's request (it opens, reads, closes), the     *)
(* administrators' requests that stop a listener, the visitors' requests   *)
(* that draw the list of listeners, and the source's feeder, which ends it.*)
(* Each of them may be the one whose release of the unlinked source is the *)
(* last and frees it.                                                      *)
(*                                                                         *)
(* A step is a stretch of code under one mutex, or what a thread does      *)
(* between two of them; a stretch that needs a mutex in somebody's hands   *)
(* has to wait.  A thread about to touch freed memory takes no step.       *)
(***************************************************************************)
EXTENDS Integers, FiniteSets, SequencesExt

CONSTANTS
  Clients,      (* the listeners: a request each, one CLIENT each *)
  Admins,       (* the requests that stop a listener *)
  Visitors,     (* the requests that draw the list *)
  Feeder,       (* the thread that feeds the source *)
  Nobody,       (* no thread, no client *)
  ulMaxClients  (* the template's limit; 0 is no limit *)

Others  == Admins \cup Visitors \cup {Feeder}
Threads == Clients \cup Others

ASSUME ListenersAssumption ==
  /\ IsFiniteSet(Threads) /\ Clients \cap Others = {}
  /\ Admins \cap Visitors = {} /\ Feeder \notin Admins \cup Visitors
  /\ Nobody \notin Threads /\ ulMaxClients \in Nat

VARIABLES
  linked, ulQueryLocks, freed,   (* the source: in the list, pins, gone *)
  psClientsList, ulClientsCount, (* its listeners *)
  hmtxClientsList, hmtxClient,   (* who owns the mutex of the list, of each listener *)
  memory,       (* of each CLIENT: "none", "live" or "freed" *)
  psSource,     (* of each CLIENT: is psSource set? *)
  ppsSelf,      (* of each CLIENT: is ppsSelf set? *)
  format,       (* of each CLIENT: psFormatClient is NULL, live or freed *)
  pc, back,     (* where each thread is, and where it goes after _SourceDestroy *)
  psClient,     (* the listener each thread's operation is about *)
  stopped,      (* history: the listeners an administrator has picked *)
  early         (* history: those it unlinked before ClientCreate was over *)

source  == <<linked, ulQueryLocks, freed>>
clients == <<psClientsList, ulClientsCount>>
mutexes == <<hmtxClientsList, hmtxClient>>
objects == <<memory, psSource, ppsSelf, format>>
threads == <<pc, back, psClient>>
history == <<early, stopped>>
vars    == <<source, clients, mutexes, objects, threads, history>>

Places == {"idle", "open", "limit", "append", "attached", "create", "created", "refused",
           "ready", "read", "reading", "readend", "detach", "detaching", "unlink", "detached",
           "result", "close", "pick", "release", "wipe", "wiped", "gone"}

TypeOK ==
  /\ linked \in BOOLEAN /\ freed \in BOOLEAN /\ ulQueryLocks \in 0..2 * Cardinality(Threads)
  /\ psClientsList \in BoundedSeq(Clients, Cardinality(Clients))
  /\ ulClientsCount \in 0..Cardinality(Clients)
  /\ hmtxClientsList \in Threads \cup {Nobody}
  /\ hmtxClient \in [Clients -> Threads \cup {Nobody}]
  /\ memory \in [Clients -> {"none", "live", "freed"}]
  /\ psSource \in [Clients -> BOOLEAN] /\ ppsSelf \in [Clients -> BOOLEAN]
  /\ format \in [Clients -> {"none", "live", "freed"}]
  /\ pc \in [Threads -> Places] /\ back \in [Threads -> Places]
  /\ psClient \in [Threads -> Clients \cup {Nobody}]
  /\ stopped \subseteq Clients /\ early \subseteq stopped

Init ==
  /\ linked = TRUE /\ ulQueryLocks = 0 /\ freed = FALSE
  /\ psClientsList = <<>> /\ ulClientsCount = 0
  /\ hmtxClientsList = Nobody /\ hmtxClient = [c \in Clients |-> Nobody]
  /\ memory = [c \in Clients |-> "none"]
  /\ psSource = [c \in Clients |-> FALSE] /\ ppsSelf = [c \in Clients |-> FALSE]
  /\ format = [c \in Clients |-> "none"]
  /\ pc = [t \in Threads |-> "idle"] /\ back = [t \in Threads |-> "idle"]
  /\ psClient = [t \in Threads |-> Nobody]
  /\ early = {} /\ stopped = {}

----------------------------------------------------------------------------
(* Pinning and releasing the source                                        *)

Goto(t, from, to) == pc[t] = from /\ pc' = [pc EXCEPT ![t] = to] /\ UNCHANGED back

(* _SourceQuery, from a place that has a pointer: "yes" if it is linked.   *)
Query(t, from, yes, no) ==
  /\ ~freed
  /\ Goto(t, from, IF linked THEN yes ELSE no)
  /\ ulQueryLocks' = IF linked THEN ulQueryLocks + 1 ELSE ulQueryLocks
  /\ UNCHANGED <<linked, freed>>

(* SourceRelease: the last one, of an unlinked source, destroys it and     *)
(* then goes on.                                                           *)
Release(t, from, to) ==
  LET last == ulQueryLocks = 1 /\ ~linked
  IN  /\ ~freed /\ pc[t] = from
      /\ ulQueryLocks' = ulQueryLocks - 1
      /\ pc' = [pc EXCEPT ![t] = IF last THEN "wipe" ELSE to]
      /\ back' = [back EXCEPT ![t] = IF last THEN to ELSE @]
      /\ UNCHANGED <<linked, freed>>

(* What a release leaves alone, but for psClient: _SourceDestroy starts at *)
(* the head of the list.                                                   *)
First == IF psClientsList = <<>> THEN Nobody ELSE Head(psClientsList)
WipeFromFirst(t) ==
  psClient' = [psClient EXCEPT ![t] = IF pc'[t] = "wipe" THEN First ELSE @]

After(c) ==
  LET i == CHOOSE k \in DOMAIN psClientsList : psClientsList[k] = c
  IN  IF i = Len(psClientsList) THEN Nobody ELSE psClientsList[i + 1]

(* The thread takes and keeps the mutex of the list of listeners.          *)
LockList(t)   == hmtxClientsList = Nobody /\ hmtxClientsList' = t /\ UNCHANGED hmtxClient
UnlockList(t) == hmtxClientsList' = Nobody /\ UNCHANGED hmtxClient

(* Is the mutex of a listener free, or this thread's already?              *)
Open(t, c) == hmtxClient[c] \in {Nobody, t}

(* mutant: does not take the listener's mutex *)
ClientUnlinkUnlocked(t, c) ==
  /\ memory[c] = "live" /\ format[c] = "live"
  /\ psSource' = [psSource EXCEPT ![c] = FALSE]
  /\ format' = [format EXCEPT ![c] = "freed"]

(* ClientUnlinkSource waits for the listener's mutex.                      *)
ClientUnlinkSource(t, c) ==
  /\ memory[c] = "live" /\ Open(t, c)
  /\ format[c] = "live"
  /\ psSource' = [psSource EXCEPT ![c] = FALSE]
  /\ format' = [format EXCEPT ![c] = "freed"]

(* _SourceDestroy: unlinks each listener, then reads its psNext.           *)
WipeUnlink(t) ==
  /\ psClient[t] # Nobody
  /\ Goto(t, "wipe", "wiped") /\ ClientUnlinkSource(t, psClient[t])
  /\ UNCHANGED <<source, clients, mutexes, memory, ppsSelf, psClient, history>>

WipeNext(t) ==
  /\ Goto(t, "wiped", "wipe") /\ memory[psClient[t]] = "live"
  /\ psClient' = [psClient EXCEPT ![t] = After(psClient[t])]
  /\ UNCHANGED <<source, clients, mutexes, objects, history>>

WipeEnd(t) ==
  /\ pc[t] = "wipe" /\ psClient[t] = Nobody
  /\ freed' = TRUE
  /\ pc' = [pc EXCEPT ![t] = back[t]] /\ back' = [back EXCEPT ![t] = "idle"]
  /\ UNCHANGED <<linked, ulQueryLocks, clients, mutexes, objects, psClient, history>>

----------------------------------------------------------------------------
(* A listener's request opens the stream: _ClientOpen, ClientCreate        *)

ClientOpen(c) ==
  /\ c \in Clients /\ linked
  /\ Query(c, "idle", "open", "open")
  /\ memory' = [memory EXCEPT ![c] = "live"]
  /\ UNCHANGED <<clients, mutexes, psSource, ppsSelf, format, psClient, history>>

(* SourceAttachClient pins the source again and looks at the limit.        *)
AttachQuery(c) ==
  /\ Query(c, "open", "limit", "refused")
  /\ UNCHANGED <<clients, mutexes, objects, psClient, history>>

TooMany == ulMaxClients # 0 /\ ulClientsCount >= ulMaxClients

AttachTooMany(c) ==
  /\ TooMany /\ Release(c, "limit", "refused")
  /\ WipeFromFirst(c) /\ UNCHANGED <<clients, mutexes, objects, history>>

AttachAppend(c) ==
  /\ pc[c] = "append" /\ hmtxClientsList = Nobody
  /\ Goto(c, "append", "attached")
  /\ psClientsList' = Append(psClientsList, c)
  /\ ulClientsCount' = ulClientsCount + 1
  /\ format' = [format EXCEPT ![c] = "live"]
  /\ ppsSelf' = [ppsSelf EXCEPT ![c] = TRUE]
  /\ UNCHANGED <<source, mutexes, memory, psSource, psClient, history>>

AttachAllowed(c) ==
  /\ ~TooMany /\ Goto(c, "limit", "append")
  /\ UNCHANGED <<source, clients, mutexes, objects, psClient, history>>

AttachRelease(c) ==
  /\ Release(c, "attached", "create")
  /\ WipeFromFirst(c) /\ UNCHANGED <<clients, mutexes, objects, history>>

(* ClientCreate sets psSource only now.                                    *)
ClientCreate(c) ==
  /\ Goto(c, "create", "created")
  /\ psSource' = [psSource EXCEPT ![c] = TRUE]
  /\ UNCHANGED <<source, clients, mutexes, memory, ppsSelf, format, psClient, history>>

OpenRelease(c) ==
  /\ Release(c, "created", "ready")
  /\ WipeFromFirst(c) /\ UNCHANGED <<clients, mutexes, objects, history>>

(* The listener is refused, and its memory given back.                     *)
OpenRefused(c) ==
  /\ Release(c, "refused", "gone")
  /\ memory' = [memory EXCEPT ![c] = "freed"]
  /\ WipeFromFirst(c)
  /\ UNCHANGED <<clients, mutexes, psSource, ppsSelf, format, history>>

----------------------------------------------------------------------------
(* It reads: ClientRead, SourceRead.  ClientGetFields is as a read is.     *)

ReadBegin(c) ==
  /\ c \in Clients /\ psSource[c] /\ hmtxClient[c] = Nobody
  /\ Goto(c, "ready", "read")
  /\ hmtxClient' = [hmtxClient EXCEPT ![c] = c]
  /\ UNCHANGED <<source, clients, hmtxClientsList, objects, psClient, history>>

ReadQuery(c) ==
  /\ Query(c, "read", "reading", "readend")
  /\ UNCHANGED <<clients, mutexes, objects, psClient, history>>

(* FormatRead, with the format of the source and that of the listener.     *)
ReadRelease(c) ==
  /\ Release(c, "reading", "readend") /\ format[c] = "live"
  /\ WipeFromFirst(c) /\ UNCHANGED <<clients, mutexes, objects, history>>

ReadEnd(c) ==
  /\ Goto(c, "readend", "ready")
  /\ hmtxClient' = [hmtxClient EXCEPT ![c] = Nobody]
  /\ UNCHANGED <<source, clients, hmtxClientsList, objects, psClient, history>>

----------------------------------------------------------------------------
(* It leaves: ClientDestroy looks at psSource without a mutex, and calls   *)
(* SourceDetachClient, or else there is nothing to detach from             *)

Freed(c) == memory' = [memory EXCEPT ![c] = "freed"]

ClientDestroy(c) ==
  /\ c \in Clients
  /\ pc[c] = "ready" /\ Goto(c, "ready", IF psSource[c] THEN "detach" ELSE "close")
  /\ UNCHANGED <<source, clients, mutexes, objects, psClient, history>>

ClientClose(c) ==
  /\ Goto(c, "close", "gone") /\ Freed(c)
  /\ UNCHANGED <<source, clients, mutexes, psSource, ppsSelf, format, psClient, history>>

----------------------------------------------------------------------------
(* SourceDetachClient, of the listener Target(t): called by the listener's *)
(* own request or by an administrator's                                    *)

Target(t) == IF t \in Clients THEN t ELSE psClient[t]
Done(t)   == IF t \in Clients THEN "close" ELSE "release"

(* History: an administrator unlinks one that is still being created.      *)
NoteEarly(t) ==
  early' = IF t \in Admins /\ pc[Target(t)] \in {"attached", "create"}
           THEN early \cup {Target(t)} ELSE early

(* ppsSelf is NULL: already detached, unlink it again.                     *)
DetachAgain(t) ==
  /\ pc[t] = "detach" /\ memory[Target(t)] = "live" /\ ~ppsSelf[Target(t)]
  /\ Goto(t, "detach", Done(t)) /\ ClientUnlinkSource(t, Target(t))
  /\ NoteEarly(t)
  /\ UNCHANGED <<source, clients, mutexes, memory, ppsSelf, psClient, stopped>>

DetachQuery(t) ==
  /\ pc[t] = "detach" /\ memory[Target(t)] = "live" /\ ppsSelf[Target(t)]
  /\ Query(t, "detach", "detaching", Done(t))
  /\ UNCHANGED <<clients, mutexes, objects, psClient, history>>

(* mutant: leaves it in the list *)
DetachFoundKept(t) ==
  /\ pc[t] = "detaching" /\ Contains(psClientsList, Target(t)) /\ memory[Target(t)] = "live"
  /\ LockList(t) /\ Goto(t, "detaching", "unlink")
  /\ ppsSelf' = [ppsSelf EXCEPT ![Target(t)] = FALSE]
  /\ UNCHANGED <<source, clients, memory, psSource, format, psClient, history>>

DetachFound(t) ==
  /\ pc[t] = "detaching" /\ Contains(psClientsList, Target(t)) /\ memory[Target(t)] = "live"
  /\ LockList(t) /\ Goto(t, "detaching", "unlink")
  /\ psClientsList' = RemoveFirst(psClientsList, Target(t))
  /\ ppsSelf' = [ppsSelf EXCEPT ![Target(t)] = FALSE]
  /\ UNCHANGED <<source, ulClientsCount, memory, psSource, format, psClient, history>>

DetachNotFound(t) ==
  /\ pc[t] = "detaching" /\ ~Contains(psClientsList, Target(t))
  /\ hmtxClientsList = Nobody /\ Goto(t, "detaching", "detached")
  /\ UNCHANGED <<source, clients, mutexes, objects, psClient, history>>

(* mutant: does not count it down *)
DetachUnlinkUncounted(t) ==
  /\ Goto(t, "unlink", "detached") /\ ClientUnlinkSource(t, Target(t))
  /\ UnlockList(t)
  /\ NoteEarly(t)
  /\ UNCHANGED <<source, clients, memory, ppsSelf, psClient, stopped>>

(* With the list locked it waits for the listener's mutex.                 *)
DetachUnlink(t) ==
  /\ Goto(t, "unlink", "detached") /\ ClientUnlinkSource(t, Target(t))
  /\ ulClientsCount' = ulClientsCount - 1
  /\ UnlockList(t)
  /\ NoteEarly(t)
  /\ UNCHANGED <<source, psClientsList, memory, ppsSelf, psClient, stopped>>

DetachRelease(t) ==
  /\ Release(t, "detached", IF t \in Clients THEN "close" ELSE "result")
  /\ WipeFromFirst(t) /\ UNCHANGED <<clients, mutexes, objects, history>>

(* The result is read from the listener's memory.                          *)
DetachResult(t) ==
  /\ Goto(t, "result", "release") /\ memory[psClient[t]] = "live"
  /\ UNCHANGED <<source, clients, mutexes, objects, psClient, history>>

----------------------------------------------------------------------------
(* An administrator's request (CtrlQueryTextClientStop), a visitor's, and  *)
(* the end of the source                                                   *)

OtherQuery(t) ==
  /\ t \in Admins \cup Visitors /\ linked /\ Query(t, "idle", "pick", "pick")
  /\ UNCHANGED <<clients, mutexes, objects, psClient, history>>

Listed == ToSet(psClientsList)

(* SourceDetachClientById finds a listener in the locked list, unlocks it. *)
PickClient(a, c) ==
  /\ a \in Admins /\ c \in Listed /\ hmtxClientsList = Nobody /\ memory[c] = "live"
  /\ Goto(a, "pick", "detach")
  /\ psClient' = [psClient EXCEPT ![a] = c]
  /\ stopped' = stopped \cup {c}
  /\ UNCHANGED <<source, clients, mutexes, objects, early>>

(* It does not find the one it was asked for.                              *)
PickNobody(a) ==
  /\ a \in Admins /\ hmtxClientsList = Nobody /\ Goto(a, "pick", "release")
  /\ UNCHANGED <<source, clients, mutexes, objects, psClient, history>>

(* _StoreSourceClients reads all the listeners in the locked list.         *)
StoreClients(v) ==
  /\ v \in Visitors /\ hmtxClientsList = Nobody /\ Goto(v, "pick", "release")
  /\ \A c \in Listed : memory[c] = "live"
  /\ UNCHANGED <<source, clients, mutexes, objects, psClient, history>>

OtherRelease(t) ==
  /\ t \in Others /\ Release(t, "release", "gone")
  /\ WipeFromFirst(t) /\ UNCHANGED <<clients, mutexes, objects, history>>

(* SourceDestroy, without a keep-alive period.                             *)
SourceDestroy(t) ==
  /\ t = Feeder /\ pc[t] = "idle" /\ linked
  /\ linked' = FALSE
  /\ pc' = [pc EXCEPT ![t] = IF ulQueryLocks = 0 THEN "wipe" ELSE "gone"]
  /\ back' = [back EXCEPT ![t] = "gone"]
  /\ WipeFromFirst(t)
  /\ UNCHANGED <<ulQueryLocks, freed, clients, mutexes, objects, history>>

----------------------------------------------------------------------------

Opening(t)   == ClientOpen(t) \/ AttachQuery(t) \/ AttachTooMany(t) \/ AttachAllowed(t) \/ AttachAppend(t)
                \/ AttachRelease(t) \/ ClientCreate(t) \/ OpenRelease(t) \/ OpenRefused(t)
Reading(t)   == ReadBegin(t) \/ ReadQuery(t) \/ ReadRelease(t) \/ ReadEnd(t)
Leaving(t)   == ClientDestroy(t) \/ ClientClose(t)
Detaching(t) == DetachAgain(t) \/ DetachQuery(t) \/ DetachFound(t) \/ DetachNotFound(t)
                \/ DetachUnlink(t) \/ DetachRelease(t) \/ DetachResult(t)
Wiping(t)    == WipeUnlink(t) \/ WipeNext(t) \/ WipeEnd(t)
Asking(t)    == OtherQuery(t) \/ (\E c \in Clients : PickClient(t, c)) \/ PickNobody(t)
                \/ StoreClients(t) \/ OtherRelease(t)

Next == \E t \in Threads :
  \/ Opening(t) \/ Reading(t) \/ Leaving(t) \/ Detaching(t) \/ Wiping(t)
  \/ Asking(t) \/ SourceDestroy(t)

Spec == Init /\ [][Next]_vars

----------------------------------------------------------------------------
(* Properties *)

(* ulClientsCount, which the limit is compared with and the pages show, is *)
(* the length of the list whenever the list is not locked.                 *)
CountExact == hmtxClientsList = Nobody => ulClientsCount = Len(psClientsList)

(* A listener that reads has a source and a format to read from, however   *)
(* the source ends meanwhile: hmtxClient keeps both until the read is over.*)
(* Not so for one that an administrator stops while it is still being      *)
(* created: ClientCreate gives it back the source it was detached from.    *)
ReadsAreSafe ==
  \A c \in Clients \ early :
    /\ pc[c] = "read" => ~freed /\ format[c] = "live"
    /\ pc[c] = "reading" => ulQueryLocks > 0 /\ ~freed /\ format[c] = "live"

(* The listeners whose format's part the thread is about to destroy.       *)
Unlinks(t) ==
  CASE pc[t] = "unlink" -> {Target(t)}
    [] pc[t] = "wipe"   -> {psClient[t]} \ {Nobody}
    [] pc[t] = "detach" -> {c \in {Target(t)} : ~ppsSelf[c]}
    [] OTHER            -> {}

(* While the source is linked every listener in its list is one whose      *)
(* request is still there: the pages that show the list read live memory.  *)
(* And the format's part of a listener is destroyed once: whoever unlinks  *)
(* the listener, its own request that leaves or the end of the source,     *)
(* finds it there.  Not so for one an administrator has picked: its        *)
(* pointer may be stale by the time it is used.                            *)
FoundAlive ==
  /\ linked => \A c \in Listed : memory[c] = "live"
  /\ \A t \in Threads : \A c \in Unlinks(t) \ stopped : format[c] = "live"

(* What the limit, the pages and the end of the source may rely on: the    *)
(* count is that of the list, and the list is of listeners that are there. *)
ListHolds == CountExact /\ FoundAlive

(* When the last pin of the unlinked source is gone and the thread that    *)
(* took it destroys the source without a lock, no other thread has the     *)
(* source in its hands.                                                    *)
UnlinkedIsPrivate ==
  (\E t \in Threads : pc[t] \in {"wipe", "wiped"}) \/ freed =>
    \A t \in Threads : pc[t] # "detach"
=============================================================================
