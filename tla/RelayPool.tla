------------------------------ MODULE RelayPool ------------------------------
(***************************************************************************)
(* The threads that process relays (src/src/relays.c 545-805): they count  *)
(* themselves, start one another as relays become more, and end as they    *)
(* become fewer.  Administrators add relays, look them up, remove them and *)
(* replace all of them; the main thread ends the pool.                     *)
(*                                                                         *)
(* What a thread does to a relay is the subject of Relays; here it is two  *)
(* steps, the taking of ulLockFlag and the giving back.  rwmtxRelaysList   *)
(* is not a variable: who has it follows from where everybody is.          *)
(*                                                                         *)
(* Relays are named by their turn of insertion: new ones go to the tail,   *)
(* so that the list is the set linked in increasing order.                 *)
(***************************************************************************)
EXTENDS Naturals, FiniteSets

CONSTANTS
  MaxRelays,   (* bound: how many relays a behaviour adds *)
  Threads,     (* the relay threads, as many as can be alive at once *)
  PoolAdmins,      (* the request threads that serve an administrator *)
  Main,        (* the main thread *)
  PerThread,   (* RELAYS_ON_TREAD *)
  MaxThreads,  (* MAX_TREADS_NUMB *)
  Width        (* how many values a ULONG has *)

PoolRelays == 1..MaxRelays
PoolNone   == 0
Callers    == PoolAdmins \cup {Main}

ASSUME RelayPoolAssumption ==
  /\ MaxRelays \in Nat /\ PerThread \in Nat \ {0} /\ MaxThreads \in Nat
  /\ Width \in Nat /\ Width > MaxRelays
  /\ IsFiniteSet(Threads) /\ Cardinality(Threads) < Width
  /\ IsFiniteSet(PoolAdmins) /\ Main \notin PoolAdmins

VARIABLES
  added,           (* how many relays were added *)
  linked,          (* those in psRelaysList *)
  freed,           (* those given back to the heap *)
  ulRelaysCount,
  ulQueryLocks,    (* of each relay *)
  ulThreadsCount,
  ulCtrlThreadLock,
  pc, at, tmp,     (* of each thread: where it is, its relay, what it read *)
  doing, ref,      (* of each caller: where it is, its relay *)
  excuses          (* history: which of the events in Excuses has happened *)

relays  == <<added, linked, freed, ulRelaysCount, ulQueryLocks>>
threads == <<ulThreadsCount, ulCtrlThreadLock, pc, at, tmp>>
callers == <<doing, ref>>
poolvars    == <<relays, threads, callers, excuses>>

(* What the properties below have to except:                               *)
(*   "missed"   a relay was added when the last thread had decided to end; *)
(*   "twice"    a relay was removed that was not in the list any more;     *)
(*   "raced"    ulThreadsCount was changed while another thread did;       *)
(*   "failed"   the system could not create a thread;                      *)
(*   "late"     a relay was added after RelayDone had removed them all.    *)
Excuses == {"missed", "twice", "raced", "failed", "late"}

ThreadPhases == {"none", "born", "counting", "control", "starting", "sleeping",
                 "at", "processing", "leaving", "uncounting"}
CallerPhases == {"idle", "finding", "holding", "removing", "releasing",
                 "starting", "clearing", "waiting", "done"}

PoolTypeOK ==
  /\ added \in 0..MaxRelays /\ linked \subseteq PoolRelays /\ freed \subseteq PoolRelays
  /\ ulRelaysCount \in 0..(Width - 1)
  /\ ulQueryLocks \in [PoolRelays -> Nat]
  /\ ulThreadsCount \in 0..(Width - 1) /\ ulCtrlThreadLock \in BOOLEAN
  /\ pc \in [Threads -> ThreadPhases]
  /\ at \in [Threads -> PoolRelays \cup {PoolNone}]
  /\ tmp \in [Threads -> 0..(Width - 1)]
  /\ doing \in [Callers -> CallerPhases]
  /\ ref \in [Callers -> PoolRelays \cup {PoolNone}]
  /\ excuses \subseteq Excuses

PoolInit ==
  /\ added = 0 /\ linked = {} /\ freed = {}
  /\ ulRelaysCount = 0
  /\ ulQueryLocks = [r \in PoolRelays |-> 0]
  /\ ulThreadsCount = 0 /\ ulCtrlThreadLock = FALSE
  /\ pc = [t \in Threads |-> "none"]
  /\ at = [t \in Threads |-> PoolNone]
  /\ tmp = [t \in Threads |-> 0]
  /\ doing = [c \in Callers |-> "idle"]
  /\ ref = [c \in Callers |-> PoolNone]
  /\ excuses = {}

----------------------------------------------------------------------------
(* The list and its locks *)

First(S) == IF S = {} THEN PoolNone ELSE CHOOSE r \in S : \A q \in S : r <= q

psNext(r) == First({q \in linked : q > r})

Plus(n)  == (n + 1) % Width
Minus(n) == (n + Width - 1) % Width

Walking == {t \in Threads : pc[t] \in {"at", "processing"}}

(* rwmtxRelaysList: a thread reads the list as long as it walks, a caller  *)
(* while it looks for a relay; two calls keep it for writing.              *)
NoWriter == \A c \in Callers : doing[c] \notin {"starting", "clearing"}
NoReader == Walking = {} /\ \A c \in Callers : doing[c] # "finding"

(* hmtxQueryLocks of a relay is kept by one who waits to unlink it.        *)
Unlocked(r) == \A c \in Callers : ~(doing[c] = "removing" /\ ref[c] = r)

Go(t, to) == pc' = [pc EXCEPT ![t] = to]
Call(c, to, r) == doing' = [doing EXCEPT ![c] = to] /\ ref' = [ref EXCEPT ![c] = r]

Excuse(e, happened) == excuses' = IF happened THEN excuses \cup {e} ELSE excuses

(* The threads that are not there yet, and those that will not end now.    *)
Fresh == {t \in Threads : pc[t] = "none"}
Staying == {t \in Threads : pc[t] \notin {"none", "leaving", "uncounting"}}

(* _StartThread where it works: it does not wait for the new thread, which *)
(* will count itself.                                                      *)
Started(t) == t = CHOOSE u \in Fresh : TRUE

----------------------------------------------------------------------------
(* RelayThread *)

(* ulThreadsCount++ is a read and a write; others may come in between.     *)
CountRead(t) ==
  /\ pc[t] = "born"
  /\ tmp' = [tmp EXCEPT ![t] = ulThreadsCount]
  /\ Go(t, "counting")
  /\ UNCHANGED <<relays, ulThreadsCount, ulCtrlThreadLock, at, callers, excuses>>

CountWrite(t) ==
  /\ pc[t] = "counting"
  /\ ulThreadsCount' = Plus(tmp[t])
  /\ Excuse("raced", ulThreadsCount # tmp[t])
  /\ Go(t, "control")
  /\ UNCHANGED <<relays, ulCtrlThreadLock, at, tmp, callers>>

(* ulNeedThreads *)
Needed == IF ulRelaysCount = 0 THEN 0 ELSE (ulRelaysCount - 1) \div PerThread + 1

(* mutant: a thread ends when it would be just enough *)
SurplusOrEqual == Needed <= ulThreadsCount

Surplus == Needed < ulThreadsCount

(* One thread at a time looks whether there are enough of them.  It may    *)
(* start one (if the system cannot create it, the thread waits until some  *)
(* other changes the count, 247) ...                                       *)
ControlStarts(t) ==
  /\ pc[t] = "control" /\ ~ulCtrlThreadLock
  /\ Needed > ulThreadsCount /\ ulThreadsCount < MaxThreads /\ Fresh # {}
  /\ \/ /\ \E u \in Fresh : Started(u) /\ pc' = [pc EXCEPT ![t] = "sleeping", ![u] = "born"]
        /\ UNCHANGED <<ulCtrlThreadLock, tmp, excuses>>
     \/ /\ Go(t, "starting")
        /\ ulCtrlThreadLock' = TRUE
        /\ tmp' = [tmp EXCEPT ![t] = ulThreadsCount]
        /\ Excuse("failed", TRUE)
  /\ UNCHANGED <<relays, ulThreadsCount, at, callers>>

ControlStarted(t) ==
  /\ pc[t] = "starting" /\ ulThreadsCount # tmp[t]
  /\ Go(t, "sleeping")
  /\ ulCtrlThreadLock' = FALSE
  /\ UNCHANGED <<relays, ulThreadsCount, at, tmp, callers, excuses>>

(* ... or end itself, with the flag kept ...                               *)
ControlEnds(t) ==
  /\ pc[t] = "control" /\ ~ulCtrlThreadLock /\ Surplus
  /\ Go(t, "leaving")
  /\ ulCtrlThreadLock' = TRUE
  /\ UNCHANGED <<relays, ulThreadsCount, at, tmp, callers, excuses>>

(* ... or nothing, as when another one is looking.                         *)
ControlPasses(t) ==
  /\ pc[t] = "control"
  /\ \/ ulCtrlThreadLock
     \/ ~Surplus /\ (Needed = ulThreadsCount \/ ulThreadsCount >= MaxThreads)
  /\ Go(t, "sleeping")
  /\ UNCHANGED <<relays, ulThreadsCount, ulCtrlThreadLock, at, tmp, callers, excuses>>

(* The place after r in a walk, or the end of the walk.                    *)
WalkTo(t, r) ==
  /\ at' = [at EXCEPT ![t] = r]
  /\ Go(t, IF r = PoolNone THEN "control" ELSE "at")

Walk(t) ==
  /\ pc[t] = "sleeping" /\ NoWriter
  /\ WalkTo(t, First(linked))
  /\ UNCHANGED <<relays, ulThreadsCount, ulCtrlThreadLock, tmp, callers, excuses>>

(* ulLockFlag of a relay: somebody is processing it.                       *)
ulLockFlag(r) == \E u \in Threads : pc[u] = "processing" /\ at[u] = r

(* mutant: does not look at ulLockFlag *)
ProcessUnlocked(t) ==
  /\ pc[t] = "at"
  /\ Go(t, "processing")
  /\ UNCHANGED <<relays, ulThreadsCount, ulCtrlThreadLock, at, tmp, callers, excuses>>

StartProcess(t) ==
  /\ pc[t] = "at" /\ ~ulLockFlag(at[t])
  /\ Go(t, "processing")
  /\ UNCHANGED <<relays, ulThreadsCount, ulCtrlThreadLock, at, tmp, callers, excuses>>

Pass(t) ==
  /\ pc[t] = "at" /\ ulLockFlag(at[t])
  /\ WalkTo(t, psNext(at[t]))
  /\ UNCHANGED <<relays, ulThreadsCount, ulCtrlThreadLock, tmp, callers, excuses>>

Processed(t) ==
  /\ pc[t] = "processing"
  /\ WalkTo(t, psNext(at[t]))
  /\ UNCHANGED <<relays, ulThreadsCount, ulCtrlThreadLock, tmp, callers, excuses>>

(* ulThreadsCount--, and the flag is given back                            *)
UncountRead(t) ==
  /\ pc[t] = "leaving"
  /\ tmp' = [tmp EXCEPT ![t] = ulThreadsCount]
  /\ Go(t, "uncounting")
  /\ UNCHANGED <<relays, ulThreadsCount, ulCtrlThreadLock, at, callers, excuses>>

UncountWrite(t) ==
  /\ pc[t] = "uncounting"
  /\ ulThreadsCount' = Minus(tmp[t])
  /\ Excuse("raced", ulThreadsCount # tmp[t])
  /\ ulCtrlThreadLock' = FALSE
  /\ Go(t, "none")
  /\ UNCHANGED <<relays, at, tmp, callers>>

ThreadStep(t) ==
  \/ CountRead(t) \/ CountWrite(t)
  \/ ControlStarts(t) \/ ControlStarted(t) \/ ControlEnds(t) \/ ControlPasses(t)
  \/ Walk(t) \/ StartProcess(t) \/ Pass(t) \/ Processed(t)
  \/ UncountRead(t) \/ UncountWrite(t)

----------------------------------------------------------------------------
(* RelayReady, RelayQueryById, RelayDestroy, RelayRelease, RelayRemoveAll  *)

(* RelayReady starts a thread if it finds none counted; if the system      *)
(* cannot create it, the call waits with the list locked.                  *)
PoolReady(c) ==
  /\ c \in PoolAdmins /\ doing[c] = "idle" /\ NoWriter /\ NoReader
  /\ added < MaxRelays
  /\ added' = added + 1
  /\ linked' = linked \cup {added'}
  /\ ulRelaysCount' = Plus(ulRelaysCount)
  /\ IF ulThreadsCount = 0
       THEN /\ Fresh # {}
            /\ \/ /\ \E u \in Fresh : Started(u) /\ Go(u, "born")
                  /\ Excuse("late", doing[Main] = "waiting")
                  /\ UNCHANGED callers
               \/ /\ Call(c, "starting", PoolNone)
                  /\ Excuse("failed", TRUE)
                  /\ UNCHANGED pc
       ELSE /\ excuses' = excuses \cup {e \in {"missed", "late"} :
                            IF e = "missed" THEN Staying = {} ELSE doing[Main] = "waiting"}
            /\ UNCHANGED <<pc, callers>>
  /\ UNCHANGED <<freed, ulQueryLocks, ulThreadsCount, ulCtrlThreadLock, at, tmp>>

RelayStarted(c) ==
  /\ doing[c] = "starting" /\ ulThreadsCount # 0
  /\ Call(c, "idle", PoolNone)
  /\ UNCHANGED <<relays, threads, excuses>>

(* RelayQueryById finds a relay under the lock of the list, and waits for  *)
(* that of the relay.                                                      *)
Find(c) ==
  /\ c \in PoolAdmins /\ doing[c] = "idle" /\ NoWriter
  /\ \E r \in linked : Call(c, "finding", r)
  /\ UNCHANGED <<relays, threads, excuses>>

Pin(c) ==
  /\ doing[c] = "finding" /\ Unlocked(ref[c])
  /\ ulQueryLocks' = [ulQueryLocks EXCEPT ![ref[c]] = @ + 1]
  /\ Call(c, "holding", ref[c])
  /\ UNCHANGED <<added, linked, freed, ulRelaysCount, threads, excuses>>

(* RelayDestroy takes the lock of the relay, waits for that of the list,   *)
Destroy(c) ==
  /\ doing[c] = "holding" /\ Unlocked(ref[c])
  /\ Call(c, "removing", ref[c])
  /\ UNCHANGED <<relays, threads, excuses>>

(* mutant: does not count the relay out *)
UnlinkUncounted(r) ==
  /\ linked' = linked \ {r}
  /\ freed' = IF ulQueryLocks[r] = 0 THEN freed \cup {r} ELSE freed
  /\ Excuse("twice", r \notin linked)
  /\ UNCHANGED ulRelaysCount

(* and unlinks the relay; it counts it out even if somebody else had       *)
(* unlinked it (645).                                                      *)
Unlink(r) ==
  /\ linked' = linked \ {r}
  /\ ulRelaysCount' = Minus(ulRelaysCount)
  /\ freed' = IF ulQueryLocks[r] = 0 THEN freed \cup {r} ELSE freed
  /\ Excuse("twice", r \notin linked)

DestroyUnlinks(c) ==
  /\ doing[c] = "removing" /\ NoReader /\ NoWriter
  /\ Unlink(ref[c])
  /\ Call(c, "releasing", ref[c])
  /\ UNCHANGED <<added, ulQueryLocks, threads>>

RelayRelease(c) ==
  LET r == ref[c] IN
  /\ doing[c] \in {"holding", "releasing"} /\ Unlocked(r)
  /\ ulQueryLocks' = [ulQueryLocks EXCEPT ![r] = @ - 1]
  /\ freed' = IF ulQueryLocks[r] = 1 /\ r \notin linked THEN freed \cup {r} ELSE freed
  /\ Call(c, "idle", PoolNone)
  /\ UNCHANGED <<added, linked, ulRelaysCount, threads, excuses>>

(* RelayRemoveAll keeps the list locked and destroys the first relay of it *)
(* until there is none.  RelayDone begins with that.                       *)
RemoveAll(c) ==
  /\ doing[c] = "idle" /\ NoWriter /\ NoReader
  /\ Call(c, "clearing", PoolNone)
  /\ UNCHANGED <<relays, threads, excuses>>

RemoveFirst(c) ==
  /\ doing[c] = "clearing" /\ linked # {} /\ Unlocked(First(linked))
  /\ Unlink(First(linked))
  /\ UNCHANGED <<added, ulQueryLocks, threads, callers>>

RemovedAll(c) ==
  /\ doing[c] = "clearing" /\ linked = {}
  /\ Call(c, IF c = Main THEN "waiting" ELSE "idle", PoolNone)
  /\ UNCHANGED <<relays, threads, excuses>>

(* RelayDone waits until no thread is counted, and destroys the lock.      *)
RelayDone ==
  /\ doing[Main] = "waiting" /\ ulThreadsCount = 0
  /\ Call(Main, "done", PoolNone)
  /\ UNCHANGED <<relays, threads, excuses>>

CallGoesOn(c) ==
  \/ RelayStarted(c) \/ Pin(c) \/ DestroyUnlinks(c) \/ RelayRelease(c)
  \/ RemoveFirst(c) \/ RemovedAll(c)

(* Nothing is defined once the lock of the list is destroyed.              *)
Running == doing[Main] # "done"

PoolNext ==
  /\ Running
  /\ \/ \E t \in Threads : ThreadStep(t)
     \/ \E c \in Callers : CallGoesOn(c) \/ PoolReady(c) \/ Find(c) \/ Destroy(c) \/ RemoveAll(c)
     \/ RelayDone

PoolSpec == PoolInit /\ [][PoolNext]_poolvars

(* Threads run, and who waits for the list's lock to read is queued; calls *)
(* that have begun go on.  Nobody has to call, and a writer may wait for   *)
(* ever: it polls.                                                         *)
Fairness ==
  /\ \A t \in Threads : WF_poolvars(Running /\ ThreadStep(t)) /\ SF_poolvars(Running /\ Walk(t))
  /\ \A c \in Callers : WF_poolvars(Running /\ CallGoesOn(c))
  /\ WF_poolvars(RelayDone)

PoolFairSpec == PoolSpec /\ Fairness

----------------------------------------------------------------------------

(* A relay is processed by one thread at a time, and while it is it stays  *)
(* in the list and in memory, whoever removes it; the same for a relay an  *)
(* administrator has found.  When RelayDone returns, no thread that had    *)
(* counted itself is left to use what it destroyed.                        *)
UseIsSafe ==
  /\ \A t, u \in Walking : pc[t] = "processing" /\ pc[u] = "processing" /\ at[t] = at[u] => t = u
  /\ \A t \in Walking : at[t] \in linked \ freed
  /\ \A c \in Callers : doing[c] \in {"finding", "holding", "removing", "releasing"}
                          => ref[c] \in 1..added /\ ref[c] \notin freed
  /\ doing[Main] = "done" =>
       \/ \A t \in Threads : pc[t] \in {"none", "born", "counting"}
       \/ "raced" \in excuses

(* One administrator has a relay's lock and waits for the list's, another  *)
(* has the list's and waits for the relay's (632 and 570): for ever.       *)
Crossed ==
  \E a, c \in Callers : doing[a] = "removing" /\ doing[c] = "clearing" /\ First(linked) = ref[a]

(* A relay in the list is processed again and again, through all the       *)
(* threads that come and go, unless one of the events happened after which *)
(* the counts are wrong or no thread is left.                              *)
Attended ==
  \A r \in PoolRelays :
    r \in linked ~> \/ r \notin linked \/ ulLockFlag(r) \/ Crossed \/ ~Running
                    \/ excuses \cap {"missed", "twice", "raced", "failed"} # {}

(* RelayDone returns: the threads notice that they are not needed, and end *)
(* one after the other.                                                    *)
StopReturns ==
  doing[Main] \in {"clearing", "waiting"} ~>
    doing[Main] = "done" \/ Crossed \/ excuses \ {"missed"} # {}
=============================================================================
