------------------------------ MODULE Sources ------------------------------
(***************************************************************************)
(* The registry of sources of src/src/sources.c and the threads that use   *)
(* it: owners (the connections and relays that feed a source: SourceCreate,*)
(* SourceWrite, SourceDestroy), users (requests that query a source, work  *)
(* on it and release it; some of them stop it) and the garbage collector   *)
(* run by the main thread.                                                 *)
(*                                                                         *)
(* A step is one stretch of code under hmtxQueryLocks of a source or under *)
(* rwmtxSourcesList: what happens between two such stretches is where the  *)
(* threads interleave.  How the two locks themselves meet is the subject   *)
(* of SourceLocks.                                                         *)
(*                                                                         *)
(* A SOURCE is named by its turn of insertion: new sources go to the tail  *)
(* of the list, so psSourcesList is the set linked in increasing order.    *)
(* A thread whose next access would be to freed memory or through a NULL   *)
(* pointer takes no further step: what the program does then is not        *)
(* described.  It does come to that; UseAlive and ScanAlive say when.      *)
(***************************************************************************)
EXTENDS Integers, FiniteSets

CONSTANTS
  MaxSources,  (* bound: how many SOURCE objects a behaviour allocates *)
  MaxLocks,    (* bound: how many pins the status page may add to a source *)
  Mounts,      (* the mount points *)
  NoMount,     (* no mount point *)
  Owners,      (* the threads that feed sources *)
  Users,       (* the threads whose requests query sources *)
  Main,        (* the main thread, which runs the garbage collector *)
  Nobody,      (* who holds the pins that no thread will give back *)
  Stoppers,    (* the users that may ask for a source to be stopped *)
  Viewers,     (* the users that may ask for the page about one source *)
  KeepAlive,   (* the mount points whose template has ulKeepAlive # 0 *)
  Expires      (* may a keep-alive period run out? *)

Threads == Owners \cup Users
Sources == 1..MaxSources
NoSource == 0    \* the NULL pointer

ASSUME SourcesAssumption ==
  /\ MaxSources \in Nat /\ MaxLocks \in Nat
  /\ IsFiniteSet(Owners) /\ IsFiniteSet(Users)
  /\ Owners \cap Users = {} /\ Main \notin Owners \cup Users
  /\ Nobody \notin Owners \cup Users \cup {Main}
  /\ Stoppers \subseteq Users /\ Viewers \subseteq Users
  /\ KeepAlive \subseteq Mounts /\ NoMount \notin Mounts
  /\ Expires \in BOOLEAN

VARIABLES
  linked,               (* the sources in psSourcesList: ppsSelf # NULL *)
  psSourceGarbageScan,  (* the collector's place in the list *)
  created,              (* how many sources were allocated and inserted *)
  freed,                (* the sources given back to the heap *)
  pszMountPoint, ulQueryLocks, bStop, bDetached,  (* fields of each source *)
  expired,              (* has ulDetachTime of a detached source passed? *)
  pc,                   (* where each thread is *)
  ref,                  (* the source each thread has a pointer to *)
  want,                 (* the mount point a creating owner found free *)
  gc,                   (* where the garbage collector is *)
  gcref,                (* the source its next call is given, or NULL *)
  gcpin,                (* the source it has queried and not yet released *)
  contested,            (* history: sources taken from an owner: a take-over *)
                        (* came too late, or the collector did *)
  kept,                 (* history: sources with a pin nobody will give back *)
  robbed                (* history: sources the collector took a pin from *)

list    == <<linked, psSourceGarbageScan>>
memory  == <<created, freed>>
fields  == <<pszMountPoint, ulQueryLocks, bStop, bDetached, expired>>
threads == <<pc, ref, want>>
gcvars  == <<gc, gcref, gcpin>>
history == <<contested, kept, robbed>>
vars    == <<list, memory, fields, threads, gcvars, history>>

Alive(s) == s \in 1..created /\ s \notin freed

(* The first source of a set in list order, NULL if there is none.         *)
First(S) ==
  IF S = {} THEN NoSource ELSE CHOOSE s \in S : \A r \in S : s <= r

psNext(s) == First({r \in linked : r > s /\ s \in linked})

Pinning == {"found", "takeover", "taken", "writing", "passed",
            "using", "viewing", "leaving"}
Feeding == {"owning", "writing", "passed", "closing"}
OwnerPhases == {"idle", "absent", "found", "takeover", "taken"} \cup Feeding
UserPhases  == {"idle", "using", "viewing", "leaving"}

(* The source a thread has queried and not yet released, if any, ...       *)
Pinned(t) ==
  IF t = Main THEN gcpin ELSE IF pc[t] \in Pinning THEN ref[t] ELSE NoSource

(* ... and the threads that have a source pinned so.                       *)
Holders(s) == {t \in Threads \cup {Main} : Pinned(t) = s}

TypeOK ==
  /\ linked \subseteq Sources
  /\ psSourceGarbageScan \in Sources \cup {NoSource}
  /\ created \in 0..MaxSources
  /\ freed \subseteq Sources
  /\ pszMountPoint \in [Sources -> Mounts \cup {NoMount}]
  /\ ulQueryLocks \in [Sources -> Nat]
  /\ bStop \in [Sources -> BOOLEAN]
  /\ bDetached \in [Sources -> BOOLEAN]
  /\ expired \in [Sources -> BOOLEAN]
  /\ pc \in [Threads -> OwnerPhases \cup UserPhases]
  /\ \A o \in Owners : pc[o] \in OwnerPhases
  /\ \A u \in Users : pc[u] \in UserPhases
  /\ ref \in [Threads -> Sources \cup {NoSource}]
  /\ \A t \in Threads : pc[t] \in Pinning \cup Feeding => ref[t] \in Sources
  /\ want \in [Owners -> Mounts \cup {NoMount}]
  /\ \A o \in Owners : pc[o] = "absent" => want[o] \in Mounts
  /\ gc \in {"scan", "read", "destroy", "reread", "release"}
  /\ gcref \in Sources \cup {NoSource} /\ gcpin \in Sources \cup {NoSource}
  /\ contested \subseteq Sources /\ kept \subseteq Sources /\ robbed \subseteq Sources

Init ==
  /\ linked = {}
  /\ psSourceGarbageScan = NoSource
  /\ created = 0
  /\ freed = {}
  /\ pszMountPoint = [s \in Sources |-> NoMount]
  /\ ulQueryLocks = [s \in Sources |-> 0]
  /\ bStop = [s \in Sources |-> FALSE]
  /\ bDetached = [s \in Sources |-> FALSE]
  /\ expired = [s \in Sources |-> FALSE]
  /\ pc = [t \in Threads |-> "idle"]
  /\ ref = [t \in Threads |-> NoSource]
  /\ want = [o \in Owners |-> NoMount]
  /\ gc = "scan" /\ gcref = NoSource /\ gcpin = NoSource
  /\ contested = {} /\ kept = {} /\ robbed = {}

----------------------------------------------------------------------------
(* Operations of the registry: each says what happens to the registry and  *)
(* the sources, the thread that calls it adds its own control state.       *)

(* (A definition marked "mutant" is the one that follows it with a bug put *)
(* in; nothing uses it but the check that some property notices.)          *)

(* mutant: whoever has the pointer may pin the source *)
SourceQueryUnlinked(s) == ulQueryLocks' = [ulQueryLocks EXCEPT ![s] = @ + 1]

(* _SourceQuery: pins a source that is still in the list.                  *)
SourceQueryPtr(s) ==
  /\ s \in linked
  /\ ulQueryLocks' = [ulQueryLocks EXCEPT ![s] = @ + 1]

(* mutant: frees without a look at ppsSelf *)
SourceReleaseLinked(s) ==
  /\ ulQueryLocks' = [ulQueryLocks EXCEPT ![s] = IF @ > 0 THEN @ - 1 ELSE 0]
  /\ freed' = IF ulQueryLocks[s] = 1 THEN freed \cup {s} ELSE freed

(* mutant: leaves it to nobody to free an unlinked source *)
SourceReleaseNoFree(s) ==
  /\ ulQueryLocks' = [ulQueryLocks EXCEPT ![s] = IF @ > 0 THEN @ - 1 ELSE 0]
  /\ UNCHANGED freed

(* SourceRelease: the last release of an unlinked source frees it.         *)
SourceRelease(s) ==
  /\ ulQueryLocks' = [ulQueryLocks EXCEPT ![s] = IF @ > 0 THEN @ - 1 ELSE 0]
  /\ freed' = IF ulQueryLocks[s] = 1 /\ s \notin linked
                THEN freed \cup {s} ELSE freed

(* mutant: leaves the collector on the unlinked source *)
SourceUnlinkUnderScan(s) ==
  /\ linked' = linked \ {s}
  /\ freed' = IF ulQueryLocks[s] = 0 THEN freed \cup {s} ELSE freed
  /\ UNCHANGED <<psSourceGarbageScan, bDetached, expired>>

(* mutant: frees the source whether it is pinned or not *)
SourceUnlinkPinned(s) ==
  /\ psSourceGarbageScan' =
       IF s = psSourceGarbageScan THEN psNext(s) ELSE psSourceGarbageScan
  /\ linked' = linked \ {s}
  /\ freed' = freed \cup {s}
  /\ UNCHANGED <<bDetached, expired>>

(* SourceDestroy, for good: unlink the source, step the collector past it, *)
(* free it unless it is pinned.                                            *)
SourceUnlink(s) ==
  /\ psSourceGarbageScan' =
       IF s = psSourceGarbageScan THEN psNext(s) ELSE psSourceGarbageScan
  /\ linked' = linked \ {s}
  /\ freed' = IF ulQueryLocks[s] = 0 THEN freed \cup {s} ELSE freed
  /\ UNCHANGED <<bDetached, expired>>

(* SourceDestroy, for now: the source waits for its owner to come back.    *)
SourceDetach(s) ==
  /\ bDetached' = [bDetached EXCEPT ![s] = TRUE]
  /\ expired' = [expired EXCEPT ![s] = FALSE]
  /\ UNCHANGED <<list, freed>>

SourceDestroyAlways(s) == SourceUnlink(s)    \* mutant: no keep-alive period

SourceDestroy(s) ==
  IF bStop[s] \/ bDetached[s] \/ pszMountPoint[s] \notin KeepAlive
    THEN SourceUnlink(s)
    ELSE SourceDetach(s)

(* mutant: destroys the source although it has an owner *)
SourceStopAtOnce(s) == bStop' = [bStop EXCEPT ![s] = TRUE] /\ SourceUnlink(s)

(* SourceStop: the owner learns of it at its next write; a source without  *)
(* an owner is destroyed on the spot.                                      *)
SourceStop(s) ==
  /\ bStop' = [bStop EXCEPT ![s] = TRUE]
  /\ IF bDetached[s]
       THEN SourceUnlink(s)
       ELSE UNCHANGED <<list, freed, bDetached, expired>>

Move(t, to, s) ==
  /\ pc' = [pc EXCEPT ![t] = to]
  /\ ref' = [ref EXCEPT ![t] = s]

Stay(t, to) == pc' = [pc EXCEPT ![t] = to] /\ UNCHANGED ref

----------------------------------------------------------------------------
(* Owners: SourceCreate, SourceWrite, SourceDestroy                        *)

(* SourceCreate queries its mount point ...                                *)
CreateQuery(o, m) ==
  LET s == First({r \in linked : pszMountPoint[r] = m}) IN
  /\ pc[o] = "idle"
  /\ \/ /\ s # NoSource
        /\ SourceQueryPtr(s)
        /\ Move(o, "found", s)
        /\ UNCHANGED want
     \/ /\ s = NoSource
        /\ want' = [want EXCEPT ![o] = m]
        /\ Move(o, "absent", NoSource)
        /\ UNCHANGED ulQueryLocks
  /\ UNCHANGED <<list, memory, pszMountPoint, bStop, bDetached, expired, gcvars, history>>

(* ... finds it taken by a live source (SCRES_MPOINT_EXIST) ...            *)
CreateExists(o) ==
  /\ pc[o] = "found" /\ Alive(ref[o]) /\ ~bDetached[ref[o]]
  /\ SourceRelease(ref[o])
  /\ Move(o, "idle", NoSource)
  /\ UNCHANGED <<list, created, pszMountPoint, bStop, bDetached, expired, want, gcvars, history>>

(* ... or by a source that lost its owner, which it takes over: it reads   *)
(* bDetached, clears it, and releases its pin, in three separate steps.    *)
(* It does not look whether the source is still in the list, nor whether   *)
(* it is still detached when it clears bDetached: then it is contested.    *)
CreateSeesDetached(o) ==
  /\ pc[o] = "found" /\ Alive(ref[o]) /\ bDetached[ref[o]]
  /\ Stay(o, "takeover")
  /\ UNCHANGED <<list, memory, fields, want, gcvars, history>>

CreateTakesOver(o) ==
  /\ pc[o] = "takeover" /\ Alive(ref[o])
  /\ bDetached' = [bDetached EXCEPT ![ref[o]] = FALSE]
  /\ contested' = IF ref[o] \notin linked \/ ~bDetached[ref[o]]
                    THEN contested \cup {ref[o]} ELSE contested
  /\ Stay(o, "taken")
  /\ UNCHANGED <<list, memory, pszMountPoint, ulQueryLocks, bStop, expired, want, gcvars, kept, robbed>>

CreateTaken(o) ==
  /\ pc[o] = "taken" /\ Alive(ref[o])
  /\ SourceRelease(ref[o])
  /\ Stay(o, "owning")
  /\ UNCHANGED <<list, created, pszMountPoint, bStop, bDetached, expired, want, gcvars, history>>

(* No source was found: a new one is built in private and appended.        *)
CreateNew(o) ==
  LET s == created + 1 IN
  /\ pc[o] = "absent" /\ s \in Sources
  /\ created' = s
  /\ linked' = linked \cup {s}
  /\ pszMountPoint' = [pszMountPoint EXCEPT ![s] = want[o]]
  /\ Move(o, "owning", s)
  /\ want' = [want EXCEPT ![o] = NoMount]
  /\ UNCHANGED <<psSourceGarbageScan, freed, ulQueryLocks, bStop, bDetached, expired, gcvars, history>>

(* Out of memory, an unknown format, or a template being removed.          *)
CreateFails(o) ==
  /\ pc[o] = "absent"
  /\ Stay(o, "idle")
  /\ want' = [want EXCEPT ![o] = NoMount]
  /\ UNCHANGED <<list, memory, fields, gcvars, history>>

(* SourceWrite pins the source, unless it was unlinked meanwhile: then the *)
(* connection is closed by its caller.                                     *)
WriteQuery(o) ==
  /\ pc[o] = "owning" /\ Alive(ref[o])
  /\ \/ SourceQueryPtr(ref[o]) /\ Stay(o, "writing")
     \/ ref[o] \notin linked /\ Stay(o, "closing") /\ UNCHANGED ulQueryLocks
  /\ UNCHANGED <<list, memory, pszMountPoint, bStop, bDetached, expired, want, gcvars, history>>

(* mutant: the owner is not told of the stop *)
WriteCheckedStopped(o) ==
  /\ pc[o] = "writing" /\ Alive(ref[o])
  /\ Stay(o, "passed")
  /\ UNCHANGED <<list, memory, fields, want, gcvars, history>>

WriteChecked(o) ==
  /\ pc[o] = "writing" /\ Alive(ref[o]) /\ ~bStop[ref[o]]
  /\ Stay(o, "passed")
  /\ UNCHANGED <<list, memory, fields, want, gcvars, history>>

(* mutant: returns with the pin *)
WriteRefusedPinned(o) ==
  /\ pc[o] = "writing" /\ Alive(ref[o]) /\ bStop[ref[o]]
  /\ Stay(o, "closing")
  /\ UNCHANGED <<list, memory, fields, want, gcvars, history>>

(* The source is stopped: the write is refused ...                         *)
WriteRefused(o) ==
  /\ pc[o] = "writing" /\ Alive(ref[o]) /\ bStop[ref[o]]
  /\ SourceRelease(ref[o])
  /\ Stay(o, "closing")
  /\ UNCHANGED <<list, created, pszMountPoint, bStop, bDetached, expired, want, gcvars, history>>

(* ... or the data went to the format (bad data closes the connection).    *)
WriteDone(o) ==
  /\ pc[o] = "passed" /\ Alive(ref[o])
  /\ SourceRelease(ref[o])
  /\ Stay(o, "owning") \/ Stay(o, "closing")
  /\ UNCHANGED <<list, created, pszMountPoint, bStop, bDetached, expired, want, gcvars, history>>

(* The connection breaks, or is closed after a failed write.               *)
Close(o) ==
  /\ pc[o] \in {"owning", "closing"} /\ Alive(ref[o])
  /\ SourceDestroy(ref[o])
  /\ Move(o, "idle", NoSource)
  /\ UNCHANGED <<created, pszMountPoint, ulQueryLocks, bStop, want, gcvars, history>>

----------------------------------------------------------------------------
(* Users: SourceQuery or SourceQueryById, then SourceRelease               *)

UserQuery(u, s) ==
  /\ pc[u] = "idle"
  /\ SourceQueryPtr(s)
  /\ Move(u, "using", s)
  /\ UNCHANGED <<list, memory, pszMountPoint, bStop, bDetached, expired, want, gcvars, history>>

UserStop(u) ==
  /\ u \in Stoppers
  /\ pc[u] = "using" /\ Alive(ref[u])
  /\ SourceStop(ref[u])
  /\ Stay(u, "leaving")
  /\ UNCHANGED <<created, pszMountPoint, ulQueryLocks, want, gcvars, history>>

UserRelease(u) ==
  /\ pc[u] \in {"using", "leaving"} /\ Alive(ref[u])
  /\ SourceRelease(ref[u])
  /\ Move(u, "idle", NoSource)
  /\ UNCHANGED <<list, created, pszMountPoint, bStop, bDetached, expired, want, gcvars, history>>

(* CtrlQueryTextSource queries the source to see whether it exists ...     *)
ViewQuery(u, s) ==
  /\ u \in Viewers
  /\ pc[u] = "idle" /\ ulQueryLocks[s] < MaxLocks
  /\ SourceQueryPtr(s)
  /\ Move(u, "viewing", s)
  /\ UNCHANGED <<list, memory, pszMountPoint, bStop, bDetached, expired, want, gcvars, history>>

(* ... and queries it again to describe it.  Only the second query is ever *)
(* released: the first one's pin is kept.                                  *)
ViewAgain(u) ==
  /\ pc[u] = "viewing" /\ Alive(ref[u])
  /\ \/ SourceQueryPtr(ref[u]) /\ Stay(u, "leaving")
     \/ ref[u] \notin linked /\ Move(u, "idle", NoSource) /\ UNCHANGED ulQueryLocks
  /\ kept' = kept \cup {ref[u]}
  /\ UNCHANGED <<list, memory, pszMountPoint, bStop, bDetached, expired, want, gcvars,
                 contested, robbed>>

----------------------------------------------------------------------------
(* The clock, and SourceGarbageCollector                                   *)

Expire(s) ==
  /\ Expires
  /\ s \in linked /\ bDetached[s] /\ ~expired[s]
  /\ expired' = [expired EXCEPT ![s] = TRUE]
  /\ UNCHANGED <<list, memory, pszMountPoint, ulQueryLocks, bStop, bDetached,
                 threads, gcvars, history>>

(* One turn of the loop: the collector stands on a source (on the first of *)
(* the list if it had come to the end), queries it and looks at its time.  *)
(* Nobody unlinks a source during the turn, so its query and its release   *)
(* cancel out when there is nothing to collect.  When there is, the list   *)
(* is unlocked and the source stays pinned.                                *)
GcScan ==
  LET s == IF psSourceGarbageScan = NoSource
             THEN First(linked) ELSE psSourceGarbageScan IN
  /\ gc = "scan" /\ s # NoSource
  /\ IF bDetached[s] /\ expired[s]
       THEN /\ SourceQueryPtr(s)
            /\ psSourceGarbageScan' = s
            /\ gcpin' = s
            /\ gc' = "read"
       ELSE /\ psSourceGarbageScan' = psNext(s)
            /\ UNCHANGED <<ulQueryLocks, gcpin, gc>>
  /\ UNCHANGED <<linked, memory, pszMountPoint, bStop, bDetached, expired, threads,
                 gcref, history>>

(* The argument of SourceDestroy, and then that of SourceRelease, is read  *)
(* from psSourceGarbageScan with no lock held.  If it is not the source    *)
(* that the collector has pinned, the pin is kept.                         *)
GcRead ==
  /\ gc \in {"read", "reread"}
  /\ gcref' = psSourceGarbageScan
  /\ gc' = IF gc = "read" THEN "destroy" ELSE "release"
  /\ IF psSourceGarbageScan = gcpin
       THEN UNCHANGED <<gcpin, kept>>
       ELSE gcpin' = NoSource /\ kept' = kept \cup ({gcpin} \ {NoSource})
  /\ UNCHANGED <<list, memory, fields, threads, contested, robbed>>

(* Whatever was read is destroyed, also a source that has an owner; NULL   *)
(* is not looked for.                                                      *)
GcDestroy ==
  /\ gc = "destroy" /\ Alive(gcref)
  /\ SourceDestroy(gcref)
  /\ contested' = IF gcref \in linked /\ ~bDetached[gcref]
                    THEN contested \cup {gcref} ELSE contested
  /\ gc' = "reread" /\ gcref' = NoSource
  /\ UNCHANGED <<created, pszMountPoint, ulQueryLocks, bStop, threads, gcpin, kept, robbed>>

(* Whatever was read the second time is released, pinned or not; NULL is   *)
(* looked for here.                                                        *)
GcRelease ==
  /\ gc = "release"
  /\ \/ gcref = NoSource /\ UNCHANGED <<ulQueryLocks, freed, robbed>>
     \/ /\ Alive(gcref)
        /\ SourceRelease(gcref)
        /\ robbed' = IF gcref = gcpin \/ ulQueryLocks[gcref] = 0
                       THEN robbed ELSE robbed \cup {gcref}
  /\ gc' = "scan" /\ gcref' = NoSource /\ gcpin' = NoSource
  /\ UNCHANGED <<list, created, pszMountPoint, bStop, bDetached, expired, threads,
                 contested, kept>>

----------------------------------------------------------------------------

OwnerStep(o) ==
  \/ \E m \in Mounts : CreateQuery(o, m)
  \/ CreateExists(o) \/ CreateSeesDetached(o) \/ CreateTakesOver(o)
  \/ CreateTaken(o) \/ CreateNew(o) \/ CreateFails(o)
  \/ WriteQuery(o) \/ WriteChecked(o) \/ WriteRefused(o) \/ WriteDone(o) \/ Close(o)

UserStep(u) ==
  \/ \E s \in Sources : UserQuery(u, s) \/ ViewQuery(u, s)
  \/ UserStop(u) \/ UserRelease(u) \/ ViewAgain(u)

Collector == GcScan \/ GcRead \/ GcDestroy \/ GcRelease

Next ==
  \/ \E o \in Owners : OwnerStep(o)
  \/ \E u \in Users : UserStep(u)
  \/ \E s \in Sources : Expire(s)
  \/ Collector

Spec == Init /\ [][Next]_vars

(* Request threads are scheduled and their connections go on being served: *)
(* an owner's next data arrives, a request in progress ends.  No owner has *)
(* to connect and no user has to come.                                     *)
Fairness ==
  /\ \A o \in Owners :
       /\ WF_vars(WriteQuery(o)) /\ WF_vars(WriteDone(o))
       /\ WF_vars(WriteChecked(o) \/ WriteRefused(o))
       /\ WF_vars(pc[o] = "closing" /\ Close(o))
       /\ WF_vars(CreateExists(o) \/ CreateSeesDetached(o)
                  \/ CreateTakesOver(o) \/ CreateTaken(o))
  /\ \A u \in Users : WF_vars(UserRelease(u)) /\ WF_vars(ViewAgain(u))
  /\ WF_vars(Collector)

FairSpec == Spec /\ Fairness

----------------------------------------------------------------------------
(* Safety *)

(* A thread never follows a pointer to a source that was freed.  What it   *)
(* pinned, the collector included, is in memory unless the collector took  *)
(* that pin for another's; what it owns without a pin, created or taken    *)
(* over, is in memory unless it was contested.                             *)
UseAlive ==
  /\ \A s \in Sources : Holders(s) # {} => Alive(s) \/ s \in robbed
  /\ \A o \in Owners : pc[o] \in {"owning", "closing"}
                       => Alive(ref[o]) \/ ref[o] \in contested

(* Neither the list nor the collector's place in it leads to freed memory, *)
(* so a walk of the list under the read lock is safe.  The collector reads *)
(* its place without the lock: it finds the source that it has chosen and  *)
(* pinned, unless somebody else has unlinked that.  (If so it may find     *)
(* NULL, or a source it has no pin on: gcref is NULL or freed at times.)   *)
ScanAlive ==
  /\ \A s \in linked : Alive(s)
  /\ psSourceGarbageScan \in linked \cup {NoSource}
  /\ gc = "read" /\ gcpin \in linked => psSourceGarbageScan = gcpin

(* A source whose owner still feeds it is in the list: listeners can find  *)
(* it, and only its owner ends it, unless it was contested.                *)
OwnedLinked ==
  \A o \in Owners : pc[o] \in Feeding => ref[o] \in linked \cup contested

(* ulQueryLocks counts the queries in progress: no fewer (or a source in   *)
(* use would be freed) unless the collector gave back one too many, and no *)
(* more unless the status page or the collector never gave one back.       *)
PinsCounted ==
  \A s \in Sources :
    /\ s \notin robbed => ulQueryLocks[s] >= Cardinality(Holders(s))
    /\ s \notin kept => ulQueryLocks[s] <= Cardinality(Holders(s))

(* Destruction completes: a source that left the list is in memory only as *)
(* long as some thread still has it pinned, or its pin is kept for ever.   *)
Destroyed ==
  \A s \in 1..created :
    s \notin linked /\ Holders(s) = {} => s \in freed \cup kept

(* Once a source has left the list nobody new gets hold of it: its pins    *)
(* only drain, which is what makes the last release the right moment to    *)
(* free it without a lock.                                                 *)
UnlinkedOnlyDrains ==
  [][\A s \in 1..created : s \notin linked => Holders(s)' \subseteq Holders(s)]_vars

(* While no administrator stops a source, no period runs out and owners    *)
(* come one after the other,                                               *)
Undisturbed ==
  /\ gc = "scan" /\ \A s \in Sources : ~bStop[s]
  /\ \A o, q \in Owners : o = q \/ pc[o] = "idle" \/ pc[q] = "idle"

(* a mount point with a keep-alive period survives the loss of its owner:  *)
(* its source stays in the list for ever, and whoever comes back to the    *)
(* mount point finds that source and no other.                             *)
SurvivesDisconnect ==
  []Undisturbed =>
    [](/\ \A s \in 1..created : pszMountPoint[s] \in KeepAlive => s \in linked
       /\ \A s \in linked : First({r \in linked : pszMountPoint[r] = pszMountPoint[s]}) = s)

(* The promise of SourceLife, kept by the list, the counts, the owners and *)
(* the collector, for every source that the collector took no pin from.    *)
Stage(s) ==
  IF s \in robbed THEN "void"
  ELSE IF s > created THEN "absent"
  ELSE IF s \in freed THEN "gone"
  ELSE IF s \in linked THEN "open" ELSE "closing"

Acquirers(s) ==
  IF s \in robbed THEN {}
  ELSE Holders(s) \cup (IF s \in kept THEN {Nobody} ELSE {})

Life == INSTANCE SourceLife WITH
          Objects <- Sources, Agents <- Threads \cup {Main},
          life <- [s \in Sources |-> Stage(s)],
          holders <- [s \in Sources |-> Acquirers(s)]
LifePromise == Life!Spec

----------------------------------------------------------------------------
(* Liveness *)

(* A stopped source is freed in the end, whatever its owner, the users and *)
(* the collector were doing, unless somebody never gave a pin of it back.  *)
StopFrees == \A s \in Sources : bStop[s] ~> s \in freed \cup kept
=============================================================================
