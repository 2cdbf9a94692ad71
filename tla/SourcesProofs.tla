--------------------------- MODULE SourcesProofs ---------------------------
(***************************************************************************)
(* Proofs about the registry of sources, for any number of sources, owners *)
(* and users, any keep-alive periods, stops and status pages: there is no  *)
(* assumption beyond SourcesAssumption.                                    *)
(*                                                                         *)
(* Part one is about the types, the list with the collector's place in it, *)
(* and that an unlinked source is never pinned anew.  Part two is about    *)
(* the pins and the owners: nothing in use is freed, sources that are fed  *)
(* can be found, and the registry keeps the promise of SourceLife, each up *)
(* to the named events (contested, kept, robbed).                          *)
(*                                                                         *)
(* Part three is about the ring of pages each source writes to, for any    *)
(* number of pages, of bytes in one and of listeners: its memory is one    *)
(* stretch, a listener's data is kept, and what is copied is not torn.     *)
(***************************************************************************)
EXTENDS Sources, BufRing, FiniteSetTheorems, WellFoundedInduction, TLAPS

(* The list, the heap and the history speak of sources that were created,  *)
(* and what is linked is in memory.                                        *)
ListSound ==
  /\ \A s \in linked : Alive(s)
  /\ psSourceGarbageScan \in linked \cup {NoSource}

Known ==
  /\ freed \subseteq 1..created /\ contested \subseteq 1..created
  /\ kept \subseteq 1..created /\ robbed \subseteq 1..created

(* Where the collector is, and what it has pinned.                         *)
GcPlace ==
  /\ gcpin \in 1..created \cup {NoSource}
  /\ gc = "scan" => gcpin = NoSource
  /\ gc = "read" => gcpin # NoSource
  /\ gc = "read" /\ gcpin \in linked => psSourceGarbageScan = gcpin
  /\ gc \in {"destroy", "release"} /\ gcpin # NoSource => gcref = gcpin

ListInv == TypeOK /\ ListSound /\ GcPlace /\ Known

----------------------------------------------------------------------------
(* The operators on the list *)

(* A set of sources that is not empty has a first one.                     *)
LEMMA FirstIsIn ==
  ASSUME NEW S \in SUBSET Sources
  PROVE  First(S) \in S \cup {NoSource}
<1>1. CASE S = {}
  BY <1>1 DEF First
<1>2. CASE S # {}
  <2> DEFINE T == {1..n : n \in S}
  <2>1. \A n \in S : n \in Nat /\ n > 0
    BY SourcesAssumption DEF Sources
  <2>2. T \subseteq FiniteSubsetsOf(Nat)
    <3>1. ASSUME NEW n \in S PROVE 1..n \in SUBSET Nat /\ IsFiniteSet(1..n)
      BY <2>1, FS_Interval
    <3> QED
      BY <3>1 DEF FiniteSubsetsOf
  <2>3. T # {}
    BY <1>2
  <2>4. PICK X \in T : \A Y \in T : <<Y, X>> \notin StrictSubsetOrdering(Nat)
    BY <2>2, <2>3, FS_StrictSubsetOrderingWellFounded, WFMin
  <2>5. PICK s \in S : X = 1..s
    OBVIOUS
  <2>6. ASSUME NEW r \in S, r < s PROVE FALSE
    <3>1. 1..r \in SUBSET Nat /\ 1..s \in SUBSET Nat
      BY <2>1
    <3>2. 1..r \subseteq 1..s /\ s \in 1..s /\ s \notin 1..r
      BY <2>1, <2>6
    <3>3. <<1..r, 1..s>> \in StrictSubsetOrdering(Nat)
      <4> DEFINE A == 1..r
                 B == 1..s
      <4>1. A \in SUBSET Nat /\ B \in SUBSET Nat /\ A \subseteq B /\ A # B
        BY <3>1, <3>2
      <4> HIDE DEF A, B
      <4>2. <<A, B>> \in StrictSubsetOrdering(Nat)
        BY <4>1 DEF StrictSubsetOrdering
      <4> QED
        BY <4>2 DEF A, B
    <3> QED
      BY <2>4, <2>5, <3>3
  <2>7. \A r \in S : s <= r
    BY <2>1, <2>6
  <2> QED
    BY <1>2, <2>7 DEF First
<1> QED
  BY <1>1, <1>2

(* The successor of a source is another source of the list, or NULL.       *)
LEMMA NextIsLinked ==
  ASSUME TypeOK, NEW s \in Sources
  PROVE  psNext(s) \in (linked \ {s}) \cup {NoSource}
<1> DEFINE S == {r \in linked : r > s /\ s \in linked}
<1>1. S \in SUBSET Sources
  BY DEF TypeOK
<1>2. First(S) \in S \cup {NoSource}
  BY <1>1, FirstIsIn
<1>3. s \notin S
  BY SourcesAssumption DEF Sources
<1> QED
  BY <1>2, <1>3 DEF psNext

----------------------------------------------------------------------------
(* Part one: types, the list, and the pins of unlinked sources             *)

(* It holds at first: there are no sources.                                *)
LEMMA InitListInv == Init => ListInv
<1> SUFFICES ASSUME Init PROVE ListInv
  OBVIOUS
<1>1. TypeOK
  BY SourcesAssumption
     DEF Init, TypeOK, Sources, Threads, OwnerPhases, UserPhases, Pinning, Feeding
<1>2. ListSound /\ GcPlace /\ Known
  BY DEF Init, ListSound, GcPlace, Known
<1> QED
  BY <1>1, <1>2 DEF ListInv

(* What has been created is within the bound.                              *)
LEMMA AllocatedIsSource ==
  ASSUME TypeOK, NEW s \in 1..created
  PROVE  s \in Sources
  BY SourcesAssumption DEF TypeOK, Sources

(* What an operation on source s leaves of the list and of the heap: the   *)
(* three ways it may end.                                                  *)
ListKept == UNCHANGED <<linked, psSourceGarbageScan, created>>

Unlinks(s) ==
  /\ linked' = linked \ {s}
  /\ psSourceGarbageScan' =
       IF s = psSourceGarbageScan THEN psNext(s) ELSE psSourceGarbageScan
  /\ created' = created
  /\ freed' \in {freed, freed \cup {s}}

(* A release frees nothing that is linked; it frees nothing else than s.   *)
LEMMA ReleaseKeepsList ==
  ASSUME ListInv, NEW s \in 1..created, SourceRelease(s), ListKept
  PROVE  /\ ListSound' /\ freed' \subseteq 1..created' /\ freed' \subseteq Sources
         /\ ulQueryLocks' \in [Sources -> Nat]
<1>1. s \in Sources
  BY AllocatedIsSource DEF ListInv
<1>2. freed' \in {freed, freed \cup {s}} /\ (s \in linked => freed' = freed)
  BY DEF SourceRelease
<1>3. ulQueryLocks' \in [Sources -> Nat]
  BY <1>1 DEF SourceRelease, ListInv, TypeOK
<1> QED
  BY <1>1, <1>2, <1>3
     DEF ListInv, TypeOK, ListKept, ListSound, Known, Alive

(* A source is unlinked: the collector's pointer moves on to the next.     *)
LEMMA UnlinkKeepsList ==
  ASSUME ListInv, NEW s \in 1..created, Unlinks(s)
  PROVE  /\ ListSound' /\ freed' \subseteq 1..created'
         /\ linked' \subseteq Sources /\ freed' \subseteq Sources
         /\ psSourceGarbageScan' \in Sources \cup {NoSource}
<1>1. s \in Sources
  BY AllocatedIsSource DEF ListInv
<1>2. psNext(s) \in (linked \ {s}) \cup {NoSource}
  BY <1>1, NextIsLinked DEF ListInv
<1> QED
  BY <1>1, <1>2 DEF ListInv, TypeOK, ListSound, Known, Alive, Unlinks

(* SourceDestroy and SourceStop either unlink the source or leave the list *)
(* as it is.                                                               *)
LEMMA DestroyEffect ==
  ASSUME TypeOK, NEW s \in Sources, UNCHANGED created,
         SourceDestroy(s) \/ SourceStop(s)
  PROVE  /\ Unlinks(s) \/ (ListKept /\ freed' = freed)
         /\ bDetached' \in [Sources -> BOOLEAN]
         /\ expired' \in [Sources -> BOOLEAN]
  BY DEF SourceDestroy, SourceStop, SourceUnlink, SourceDetach, Unlinks,
         ListKept, TypeOK, list

(* Their effect on the list, whoever calls them.                           *)
LEMMA DestroyKeepsList ==
  ASSUME ListInv, NEW s \in 1..created, UNCHANGED created,
         SourceDestroy(s) \/ SourceStop(s)
  PROVE  /\ Unlinks(s) \/ ListKept
         /\ ListSound' /\ freed' \subseteq 1..created'
         /\ linked' \subseteq Sources /\ freed' \subseteq Sources
         /\ psSourceGarbageScan' \in Sources \cup {NoSource}
         /\ bDetached' \in [Sources -> BOOLEAN]
         /\ expired' \in [Sources -> BOOLEAN]
<1>1. /\ Unlinks(s) \/ (ListKept /\ freed' = freed)
      /\ bDetached' \in [Sources -> BOOLEAN]
      /\ expired' \in [Sources -> BOOLEAN]
  BY AllocatedIsSource, DestroyEffect DEF ListInv
<1>2. CASE Unlinks(s)
  BY <1>1, <1>2, UnlinkKeepsList
<1>3. CASE ListKept /\ freed' = freed
  BY <1>1, <1>3 DEF ListInv, TypeOK, ListKept, ListSound, Known, Alive
<1> QED
  BY <1>1, <1>2, <1>3

(* While other threads work on the list the collector finds its source     *)
(* where it was, unless that was unlinked.                                 *)
LEMMA GcStays ==
  ASSUME ListInv, UNCHANGED gcvars, ListKept \/ \E s \in 1..created : Unlinks(s)
  PROVE  GcPlace'
  BY DEF ListInv, GcPlace, gcvars, ListKept, Unlinks

(* Three kinds of steps of other threads, for the list and the collector:  *)
(* nothing is freed and nothing linked or unlinked ...                     *)
LEMMA KeptCase ==
  ASSUME ListInv, ListKept, freed' = freed, UNCHANGED gcvars,
         contested' \subseteq 1..created, kept' \subseteq 1..created,
         robbed' \subseteq 1..created
  PROVE  ListSound' /\ GcPlace' /\ Known'
<1>1. GcPlace'
  BY GcStays
<1> QED
  BY <1>1 DEF ListInv, ListKept, ListSound, Known, Alive

(* ... a release ...                                                       *)
LEMMA ReleaseCase ==
  ASSUME ListInv, NEW s \in 1..created, SourceRelease(s), ListKept,
         UNCHANGED <<gcvars, history>>
  PROVE  /\ ListSound' /\ GcPlace' /\ Known'
         /\ freed' \subseteq Sources /\ ulQueryLocks' \in [Sources -> Nat]
<1>1. GcPlace'
  BY GcStays
<1>2. /\ ListSound' /\ freed' \subseteq 1..created' /\ freed' \subseteq Sources
      /\ ulQueryLocks' \in [Sources -> Nat]
  BY ReleaseKeepsList
<1> QED
  BY <1>1, <1>2 DEF ListInv, ListKept, Known, history

(* ... and a source destroyed or stopped.                                  *)
LEMMA DestroyCase ==
  ASSUME ListInv, NEW s \in 1..created, UNCHANGED <<created, gcvars, history>>,
         SourceDestroy(s) \/ SourceStop(s)
  PROVE  /\ ListSound' /\ GcPlace' /\ Known'
         /\ linked' \subseteq Sources /\ freed' \subseteq Sources
         /\ psSourceGarbageScan' \in Sources \cup {NoSource}
         /\ bDetached' \in [Sources -> BOOLEAN]
         /\ expired' \in [Sources -> BOOLEAN]
<1>1. /\ Unlinks(s) \/ ListKept
      /\ ListSound' /\ freed' \subseteq 1..created'
      /\ linked' \subseteq Sources /\ freed' \subseteq Sources
      /\ psSourceGarbageScan' \in Sources \cup {NoSource}
      /\ bDetached' \in [Sources -> BOOLEAN]
      /\ expired' \in [Sources -> BOOLEAN]
  BY DestroyKeepsList
<1>2. GcPlace'
  BY <1>1, GcStays
<1> QED
  BY <1>1, <1>2 DEF ListInv, Known, history

(* Every step keeps the list sound.                                        *)
LEMMA NextListInv == ListInv /\ [Next]_vars => ListInv'
<1> SUFFICES ASSUME ListInv, [Next]_vars PROVE ListInv'
  OBVIOUS
<1> USE SourcesAssumption DEF Threads, OwnerPhases, UserPhases, Pinning, Feeding
<1>0. TypeOK /\ Known /\ created \in Nat
  BY DEF ListInv, TypeOK
<1>1. ASSUME NEW o \in Owners, NEW m \in Mounts, CreateQuery(o, m)
      PROVE  ListInv'
  <2>1. ListKept /\ freed' = freed /\ UNCHANGED <<gcvars, history>>
    BY <1>1 DEF CreateQuery, ListKept, list, memory
  <2>2. TypeOK'
    BY <1>0, <1>1 DEF CreateQuery, SourceQueryPtr, Move, TypeOK, list, memory, fields,
                      threads, gcvars, history
  <2> QED
    BY <1>0, <2>1, <2>2, KeptCase DEF ListInv, Known, history
<1>2. ASSUME NEW o \in Owners,
             CreateExists(o) \/ CreateTaken(o) \/ WriteRefused(o) \/ WriteDone(o)
      PROVE  ListInv'
  <2>1. /\ ListKept /\ ref[o] \in 1..created /\ SourceRelease(ref[o])
        /\ UNCHANGED <<gcvars, history>>
    BY <1>2 DEF CreateExists, CreateTaken, WriteRefused, WriteDone, ListKept, list, Alive
  <2>2. /\ ListSound' /\ GcPlace' /\ Known'
        /\ freed' \subseteq Sources /\ ulQueryLocks' \in [Sources -> Nat]
    BY <2>1, ReleaseCase
  <2>3. /\ UNCHANGED <<pszMountPoint, bStop, bDetached, expired, want>>
        /\ pc' \in [Threads -> OwnerPhases \cup UserPhases]
        /\ ref' \in [Threads -> Sources \cup {NoSource}]
        /\ \A p \in Owners : pc'[p] \in OwnerPhases
        /\ \A u \in Users : pc'[u] \in UserPhases
        /\ \A t \in Threads : pc'[t] \in Pinning \cup Feeding => ref'[t] \in Sources
        /\ \A p \in Owners : pc'[p] = "absent" => want'[p] \in Mounts
    BY <1>0, <1>2
       DEF CreateExists, CreateTaken, WriteRefused, WriteDone, Move, Stay, TypeOK
  <2>4. TypeOK'
    BY <1>0, <2>1, <2>2, <2>3 DEF TypeOK, ListKept, gcvars, history
  <2> QED
    BY <2>2, <2>4 DEF ListInv
<1>3. ASSUME NEW o \in Owners, CreateSeesDetached(o) \/ WriteChecked(o)
      PROVE  ListInv'
  <2>1. ListKept /\ freed' = freed /\ UNCHANGED <<gcvars, history>>
    BY <1>3 DEF CreateSeesDetached, WriteChecked, ListKept, list, memory
  <2>2. TypeOK'
    BY <1>0, <1>3 DEF CreateSeesDetached, WriteChecked, Stay, TypeOK, list, memory,
                      fields, threads, gcvars, history
  <2> QED
    BY <1>0, <2>1, <2>2, KeptCase DEF ListInv, Known, history
<1>4. ASSUME NEW o \in Owners, CreateTakesOver(o)
      PROVE  ListInv'
  <2>1. /\ ListKept /\ freed' = freed /\ UNCHANGED <<gcvars, kept, robbed>>
        /\ contested' \subseteq contested \cup {ref[o]} /\ ref[o] \in 1..created
    BY <1>4 DEF CreateTakesOver, ListKept, list, memory, Alive
  <2>2. TypeOK'
    BY <1>0, <1>4, <2>1, AllocatedIsSource
       DEF CreateTakesOver, Stay, TypeOK, list, memory, fields, threads, gcvars
  <2> QED
    BY <1>0, <2>1, <2>2, KeptCase DEF ListInv, Known
<1>5. ASSUME NEW o \in Owners, CreateNew(o)
      PROVE  ListInv'
  <2>1. created + 1 \in Sources /\ created \in Nat /\ created' = created + 1
    BY <1>5 DEF CreateNew, ListInv, TypeOK, Sources
  <2>2. ListSound'
    BY <1>5, <2>1 DEF CreateNew, ListInv, ListSound, Known, Alive
  <2>3. GcPlace'
    BY <1>5, <2>1 DEF CreateNew, ListInv, GcPlace, gcvars
  <2>4. Known'
    BY <1>0, <1>5, <2>1 DEF CreateNew, Known, history
  <2>5. TypeOK'
    BY <1>0, <1>5, <2>1 DEF CreateNew, Move, TypeOK, Sources, gcvars, history
  <2> QED
    BY <2>2, <2>3, <2>4, <2>5 DEF ListInv
<1>6. ASSUME NEW o \in Owners, CreateFails(o)
      PROVE  ListInv'
  <2>1. ListKept /\ freed' = freed /\ UNCHANGED <<gcvars, history>>
    BY <1>6 DEF CreateFails, ListKept, list, memory
  <2>2. TypeOK'
    BY <1>0, <1>6 DEF CreateFails, Stay, TypeOK, list, memory, fields, threads, gcvars, history
  <2> QED
    BY <1>0, <2>1, <2>2, KeptCase DEF ListInv, Known, history
<1>7. ASSUME NEW o \in Owners, WriteQuery(o)
      PROVE  ListInv'
  <2>1. ListKept /\ freed' = freed /\ UNCHANGED <<gcvars, history>>
    BY <1>7 DEF WriteQuery, ListKept, list, memory
  <2>2. TypeOK'
    BY <1>0, <1>7 DEF WriteQuery, SourceQueryPtr, Stay, TypeOK, list, memory, fields,
                      threads, gcvars, history
  <2> QED
    BY <1>0, <2>1, <2>2, KeptCase DEF ListInv, Known, history
<1>8. ASSUME NEW o \in Owners, Close(o)
      PROVE  ListInv'
  <2>1. /\ ref[o] \in 1..created /\ UNCHANGED <<created, gcvars, history>>
        /\ SourceDestroy(ref[o]) \/ SourceStop(ref[o])
    BY <1>8 DEF Close, Alive
  <2>2. /\ ListSound' /\ GcPlace' /\ Known'
        /\ linked' \subseteq Sources /\ freed' \subseteq Sources
        /\ psSourceGarbageScan' \in Sources \cup {NoSource}
        /\ bDetached' \in [Sources -> BOOLEAN]
        /\ expired' \in [Sources -> BOOLEAN]
    BY <2>1, DestroyCase
  <2>3. TypeOK'
    BY <1>0, <1>8, <2>2 DEF Close, Move, TypeOK, gcvars, history
  <2> QED
    BY <2>2, <2>3 DEF ListInv
<1>9. ASSUME NEW u \in Users, NEW s \in Sources, UserQuery(u, s) \/ ViewQuery(u, s)
      PROVE  ListInv'
  <2>1. ListKept /\ freed' = freed /\ UNCHANGED <<gcvars, history>>
    BY <1>9 DEF UserQuery, ViewQuery, ListKept, list, memory
  <2>2. TypeOK'
    BY <1>0, <1>9 DEF UserQuery, ViewQuery, SourceQueryPtr, Move, TypeOK, list, memory,
                      fields, threads, gcvars, history
  <2> QED
    BY <1>0, <2>1, <2>2, KeptCase DEF ListInv, Known, history
<1>10. ASSUME NEW u \in Users, UserStop(u)
      PROVE  ListInv'
  <2>1. /\ ref[u] \in 1..created /\ UNCHANGED <<created, gcvars, history>>
        /\ SourceDestroy(ref[u]) \/ SourceStop(ref[u])
    BY <1>10 DEF UserStop, Alive
  <2>2. /\ ListSound' /\ GcPlace' /\ Known'
        /\ linked' \subseteq Sources /\ freed' \subseteq Sources
        /\ psSourceGarbageScan' \in Sources \cup {NoSource}
        /\ bDetached' \in [Sources -> BOOLEAN]
        /\ expired' \in [Sources -> BOOLEAN]
    BY <2>1, DestroyCase
  <2>3. TypeOK'
    BY <1>0, <1>10, <2>2 DEF UserStop, SourceStop, Stay, TypeOK, gcvars, history
  <2> QED
    BY <2>2, <2>3 DEF ListInv
<1>11. ASSUME NEW u \in Users, UserRelease(u)
      PROVE  ListInv'
  <2>1. /\ ListKept /\ ref[u] \in 1..created /\ SourceRelease(ref[u])
        /\ UNCHANGED <<gcvars, history>>
    BY <1>11 DEF UserRelease, ListKept, list, Alive
  <2>2. /\ ListSound' /\ GcPlace' /\ Known'
        /\ freed' \subseteq Sources /\ ulQueryLocks' \in [Sources -> Nat]
    BY <2>1, ReleaseCase
  <2>3. TypeOK'
    BY <1>0, <1>11, <2>1, <2>2 DEF UserRelease, Move, TypeOK, ListKept, gcvars, history
  <2> QED
    BY <2>2, <2>3 DEF ListInv
<1>12. ASSUME NEW u \in Users, ViewAgain(u)
      PROVE  ListInv'
  <2>1. /\ ListKept /\ freed' = freed /\ UNCHANGED <<gcvars, contested, robbed>>
        /\ kept' = kept \cup {ref[u]} /\ ref[u] \in 1..created
    BY <1>12 DEF ViewAgain, ListKept, list, memory, Alive
  <2>2. TypeOK'
    BY <1>0, <1>12, <2>1, AllocatedIsSource
       DEF ViewAgain, SourceQueryPtr, Stay, Move, TypeOK, list, memory, fields, threads, gcvars
  <2> QED
    BY <1>0, <2>1, <2>2, KeptCase DEF ListInv, Known
<1>13. ASSUME NEW s \in Sources, Expire(s)
      PROVE  ListInv'
  <2>1. ListKept /\ freed' = freed /\ UNCHANGED <<gcvars, history>>
    BY <1>13 DEF Expire, ListKept, list, memory
  <2>2. TypeOK'
    BY <1>0, <1>13 DEF Expire, TypeOK, list, memory, fields, threads, gcvars, history
  <2> QED
    BY <1>0, <2>1, <2>2, KeptCase DEF ListInv, Known, history
<1>14. ASSUME GcScan
      PROVE  ListInv'
  <2> DEFINE s == IF psSourceGarbageScan = NoSource
                    THEN First(linked) ELSE psSourceGarbageScan
  <2>1. s \in linked /\ linked \subseteq Sources /\ s \in 1..created
    BY <1>14, FirstIsIn DEF GcScan, ListInv, TypeOK, ListSound, Alive
  <2>2. psNext(s) \in linked \cup {NoSource}
    BY <2>1, NextIsLinked DEF ListInv
  <2>3. \/ /\ psSourceGarbageScan' = s /\ gcpin' = s /\ gc' = "read"
           /\ ulQueryLocks' = [ulQueryLocks EXCEPT ![s] = @ + 1]
        \/ /\ psSourceGarbageScan' = psNext(s) /\ gc' = "scan"
           /\ UNCHANGED <<ulQueryLocks, gcpin>>
    BY <1>14 DEF GcScan, SourceQueryPtr
  <2> HIDE DEF s
  <2>4. ListSound'
    BY <1>14, <2>1, <2>2, <2>3 DEF GcScan, memory, ListInv, ListSound, Alive
  <2>5. GcPlace'
    BY <1>14, <2>1, <2>3 DEF GcScan, memory, ListInv, GcPlace, Sources, NoSource
  <2>6. Known'
    BY <1>0, <1>14 DEF GcScan, memory, history, Known
  <2>7. /\ psSourceGarbageScan' \in Sources \cup {NoSource}
        /\ gcpin' \in Sources \cup {NoSource} /\ gc' \in {"scan", "read"}
        /\ ulQueryLocks' \in [Sources -> Nat]
    <3>1. CASE /\ psSourceGarbageScan' = s /\ gcpin' = s /\ gc' = "read"
               /\ ulQueryLocks' = [ulQueryLocks EXCEPT ![s] = @ + 1]
      BY <1>0, <2>1, <3>1 DEF TypeOK
    <3>2. CASE /\ psSourceGarbageScan' = psNext(s) /\ gc' = "scan"
               /\ UNCHANGED <<ulQueryLocks, gcpin>>
      BY <1>0, <2>1, <2>2, <3>2 DEF TypeOK
    <3> QED
      BY <2>3, <3>1, <3>2
  <2>8. TypeOK'
    BY <1>0, <1>14, <2>7 DEF GcScan, TypeOK, memory, threads, history
  <2> QED
    BY <2>4, <2>5, <2>6, <2>8 DEF ListInv
<1>15. ASSUME GcRead
      PROVE  ListInv'
  <2>1. /\ ListKept /\ freed' = freed
        /\ gcpin \in 1..created \cup {NoSource}
        /\ kept' \subseteq kept \cup (1..created)
        /\ UNCHANGED <<contested, robbed>>
    BY <1>15 DEF GcRead, ListKept, list, memory, ListInv, GcPlace
  <2>2. ListSound' /\ Known'
    BY <1>0, <2>1 DEF ListKept, ListInv, ListSound, Known, Alive
  <2>3. GcPlace'
    BY <1>15, <2>1 DEF GcRead, ListKept, ListInv, GcPlace
  <2>4. kept' \subseteq Sources
    BY <2>1, <1>0, AllocatedIsSource DEF TypeOK
  <2>5. TypeOK'
    BY <1>0, <1>15, <2>4 DEF GcRead, TypeOK, list, memory, fields, threads
  <2> QED
    BY <2>2, <2>3, <2>5 DEF ListInv
<1>16. ASSUME GcDestroy
      PROVE  ListInv'
  <2>1. /\ gcref \in 1..created /\ UNCHANGED created
        /\ SourceDestroy(gcref) \/ SourceStop(gcref)
    BY <1>16 DEF GcDestroy, Alive
  <2>2. /\ ListSound' /\ freed' \subseteq 1..created'
        /\ linked' \subseteq Sources /\ freed' \subseteq Sources
        /\ psSourceGarbageScan' \in Sources \cup {NoSource}
        /\ bDetached' \in [Sources -> BOOLEAN]
        /\ expired' \in [Sources -> BOOLEAN]
    BY <2>1, DestroyKeepsList
  <2>3. GcPlace'
    BY <1>16, <2>1 DEF GcDestroy, ListInv, GcPlace
  <2>4. contested' \subseteq contested \cup {gcref} /\ gcref \in Sources
    BY <1>0, <1>16, <2>1, AllocatedIsSource DEF GcDestroy
  <2>5. Known'
    BY <1>0, <1>16, <2>1, <2>2, <2>4 DEF GcDestroy, Known
  <2>6. TypeOK'
    BY <1>0, <1>16, <2>2, <2>4 DEF GcDestroy, threads, TypeOK
  <2> QED
    BY <2>2, <2>3, <2>5, <2>6 DEF ListInv
<1>17. ASSUME GcRelease
      PROVE  ListInv'
  <2>1. ListKept /\ UNCHANGED <<contested, kept>>
    BY <1>17 DEF GcRelease, ListKept, list
  <2>2. /\ ListSound' /\ freed' \subseteq 1..created' /\ freed' \subseteq Sources
        /\ ulQueryLocks' \in [Sources -> Nat] /\ robbed' \subseteq robbed \cup (1..created)
    <3>1. CASE gcref = NoSource /\ UNCHANGED <<ulQueryLocks, freed, robbed>>
      BY <1>0, <2>1, <3>1 DEF ListKept, ListInv, TypeOK, ListSound, Known, Alive
    <3>2. CASE Alive(gcref) /\ SourceRelease(gcref)
      <4>1. gcref \in 1..created
        BY <3>2 DEF Alive
      <4>2. /\ ListSound' /\ freed' \subseteq 1..created' /\ freed' \subseteq Sources
            /\ ulQueryLocks' \in [Sources -> Nat]
        BY <2>1, <3>2, <4>1, ReleaseKeepsList
      <4>3. robbed' \subseteq robbed \cup (1..created)
        BY <1>17, <3>2, <4>1 DEF GcRelease
      <4> QED
        BY <4>2, <4>3
    <3> QED
      BY <1>17, <3>1, <3>2 DEF GcRelease
  <2>3. GcPlace'
    BY <1>17 DEF GcRelease, GcPlace
  <2>4. Known'
    BY <1>0, <2>1, <2>2 DEF Known, ListKept
  <2>5. robbed' \subseteq Sources
    BY <1>0, <2>2, AllocatedIsSource DEF TypeOK
  <2>6. TypeOK'
    BY <1>0, <1>17, <2>1, <2>2, <2>5 DEF GcRelease, TypeOK, ListKept, threads
  <2> QED
    BY <2>2, <2>3, <2>4, <2>6 DEF ListInv
<1>18. CASE UNCHANGED vars
  BY <1>18 DEF vars, list, memory, fields, threads, gcvars, history, ListInv, TypeOK,
              ListSound, GcPlace, Known, Alive
<1> QED
  BY <1>1, <1>2, <1>3, <1>4, <1>5, <1>6, <1>7, <1>8, <1>9, <1>10, <1>11, <1>12, <1>13,
     <1>14, <1>15, <1>16, <1>17, <1>18
     DEF Next, OwnerStep, UserStep, Collector

(* The list is sound in every state, whatever is configured.               *)
THEOREM ListInductive == Spec => []ListInv
  BY InitListInv, NextListInv, PTL DEF Spec

(* Every variable keeps its type, whatever is configured.                  *)
THEOREM Typed == Spec => []TypeOK
<1>1. ListInv => TypeOK
  BY DEF ListInv
<1> QED
  BY <1>1, ListInductive, PTL

(* The list and the collector's place in it never lead to freed memory,    *)
(* and the collector's unlocked read finds the source that it has chosen   *)
(* as long as that is in the list.                                         *)
THEOREM WalksAreSafe == Spec => []ScanAlive
<1>1. ListInv => ScanAlive
  BY DEF ListInv, ListSound, GcPlace, ScanAlive
<1> QED
  BY <1>1, ListInductive, PTL

(* A pin that a thread did not have before is on a linked source: only the *)
(* thread's own step gives it one.                                         *)
LEMMA NewPinsAreLinked ==
  ASSUME ListInv, [Next]_vars, NEW t \in Threads \cup {Main},
         Pinned(t)' # Pinned(t)
  PROVE  Pinned(t)' \in linked \cup {NoSource}
<1> USE SourcesAssumption DEF Threads
<1>0. TypeOK
  BY DEF ListInv
<1>1. ASSUME NEW a \in Threads, NEW to, NEW s, Move(a, to, s), UNCHANGED gcpin
      PROVE  t = a /\ Pinned(t)' = IF to \in Pinning THEN s ELSE NoSource
  BY <1>0, <1>1 DEF Move, TypeOK, Pinned
<1>2. ASSUME NEW a \in Threads, NEW to, Stay(a, to), UNCHANGED gcpin
      PROVE  t = a /\ Pinned(t)' = IF to \in Pinning THEN ref[a] ELSE NoSource
  BY <1>0, <1>2 DEF Stay, TypeOK, Pinned
<1>3. ASSUME NEW o \in Owners, OwnerStep(o) PROVE Pinned(t)' \in linked \cup {NoSource}
  <2>1. ASSUME NEW m \in Mounts, CreateQuery(o, m)
        PROVE  Pinned(t)' \in linked \cup {NoSource}
    BY <1>1, <2>1 DEF CreateQuery, SourceQueryPtr, Pinning, gcvars
  <2>2. ASSUME WriteQuery(o) PROVE Pinned(t)' \in linked \cup {NoSource}
    BY <1>2, <2>2 DEF WriteQuery, SourceQueryPtr, Pinning, gcvars
  <2>3. ASSUME CreateExists(o) \/ CreateNew(o) \/ Close(o)
        PROVE  Pinned(t)' \in linked \cup {NoSource}
    BY <1>1, <2>3 DEF CreateExists, CreateNew, Close, Pinning, gcvars
  <2>4. ASSUME \/ CreateTaken(o) \/ CreateFails(o) \/ WriteRefused(o) \/ WriteDone(o)
        PROVE  Pinned(t)' \in linked \cup {NoSource}
    BY <1>2, <2>4
       DEF CreateTaken, CreateFails, WriteRefused, WriteDone, Pinning, gcvars
  <2>5. ASSUME \/ CreateSeesDetached(o) \/ CreateTakesOver(o) \/ WriteChecked(o)
        PROVE  FALSE
    <3>1. pc[o] \in Pinning /\ UNCHANGED gcpin
      BY <2>5 DEF CreateSeesDetached, CreateTakesOver, WriteChecked, Pinning, gcvars
    <3>2. \E to \in Pinning : Stay(o, to)
      BY <2>5 DEF CreateSeesDetached, CreateTakesOver, WriteChecked, Pinning
    <3> QED
      BY <1>2, <3>1, <3>2 DEF Pinned
  <2> QED
    BY <1>3, <2>1, <2>2, <2>3, <2>4, <2>5 DEF OwnerStep
<1>4. ASSUME NEW u \in Users, UserStep(u) PROVE Pinned(t)' \in linked \cup {NoSource}
  <2>1. ASSUME NEW s \in Sources, UserQuery(u, s) \/ ViewQuery(u, s)
        PROVE  Pinned(t)' \in linked \cup {NoSource}
    BY <1>1, <2>1 DEF UserQuery, ViewQuery, SourceQueryPtr, gcvars
  <2>2. ASSUME UserRelease(u) PROVE Pinned(t)' \in linked \cup {NoSource}
    BY <1>1, <2>2 DEF UserRelease, Pinning, gcvars
  <2>3. ASSUME UserStop(u) PROVE FALSE
    <3>1. pc[u] \in Pinning /\ UNCHANGED gcpin /\ Stay(u, "leaving")
      BY <2>3 DEF UserStop, Pinning, gcvars
    <3> QED
      BY <1>2, <3>1 DEF Pinned, Pinning
  <2>4. ASSUME ViewAgain(u) PROVE Pinned(t)' \in linked \cup {NoSource}
    BY <1>1, <1>2, <2>4 DEF ViewAgain, SourceQueryPtr, Pinning, gcvars
  <2> QED
    BY <1>4, <2>1, <2>2, <2>3, <2>4 DEF UserStep
<1>5. ASSUME UNCHANGED threads, gcpin' \in linked \cup {gcpin, NoSource}
      PROVE  Pinned(t)' \in linked \cup {NoSource}
  BY <1>5 DEF threads, Pinned
<1>6. ASSUME GcScan PROVE gcpin' \in linked \cup {gcpin, NoSource} /\ UNCHANGED threads
  BY <1>0, <1>6 DEF GcScan, SourceQueryPtr
<1>7. ASSUME \/ GcRead \/ GcDestroy \/ GcRelease \/ UNCHANGED vars
             \/ \E s \in Sources : Expire(s)
      PROVE  gcpin' \in linked \cup {gcpin, NoSource} /\ UNCHANGED threads
  BY <1>7 DEF GcRead, GcDestroy, GcRelease, Expire, vars, gcvars
<1> QED
  BY <1>3, <1>4, <1>5, <1>6, <1>7 DEF Next, Collector

(* After a source left the list its pins only drain, whatever the threads  *)
(* and the collector do and whatever is configured.                        *)
THEOREM PinsDrain == Spec => UnlinkedOnlyDrains
<1>1. ASSUME ListInv, [Next]_vars, NEW s \in 1..created, s \notin linked
      PROVE  Holders(s)' \subseteq Holders(s)
  <2>1. s # NoSource
    BY DEF NoSource
  <2>2. ASSUME NEW t \in Threads \cup {Main}, Pinned(t)' = s PROVE Pinned(t) = s
    BY <1>1, <2>1, <2>2, NewPinsAreLinked
  <2> QED
    BY <2>2 DEF Holders
<1>2. ListInv /\ [Next]_vars
        => [\A s \in 1..created : s \notin linked => Holders(s)' \subseteq Holders(s)]_vars
  BY <1>1
<1> QED
  BY <1>2, ListInductive, PTL DEF Spec, UnlinkedOnlyDrains

----------------------------------------------------------------------------
(* Part two: pins and owners                                               *)
(*                                                                         *)
(* A pinned source is safe because the count covers its pins (PinsCounted) *)
(* and an unlinked one with no pin is gone because its last release saw    *)
(* the count at one (Draining).  That goes for the collector's pin, too,   *)
(* and it is the only one that takes a pin from others (robbed).           *)
(*                                                                         *)
(* The owner of a source keeps a pointer without a pin between two writes. *)
(* It may because the source stays linked as long as it is owned; which    *)
(* holds because a source with an owner is not detached (Owned), so that   *)
(* neither a stop nor the collector unlinks it, and has no second owner    *)
(* that would (OneOwner): unless it is contested.                          *)

Agents == Threads \cup {Main}

Owning == {"taken"} \cup Feeding

Owned ==
  \A o \in Owners :
    pc[o] \in Owning /\ ref[o] \notin contested
      => ref[o] \in linked /\ ~bDetached[ref[o]]

OneOwner ==
  \A o, p \in Owners :
    /\ pc[o] \in Owning /\ pc[p] \in Owning
    /\ ref[o] = ref[p] /\ ref[o] \notin contested
    => o = p

OwnerInv == Owned /\ OneOwner

(* Only what was created is ever detached.                                 *)
DetachedKnown == \A s \in Sources : bDetached[s] => s \in 1..created

PinnedAlive == \A s \in Sources : Holders(s) # {} => Alive(s) \/ s \in robbed

Draining ==
  \A s \in 1..created : s \notin linked /\ s \notin freed => ulQueryLocks[s] # 0

(* A pin that is kept makes the count run ahead of the holders.            *)
KeptCounted ==
  \A s \in kept : s \notin robbed => ulQueryLocks[s] > Cardinality(Holders(s))

PinInv == PinsCounted /\ KeptCounted /\ PinnedAlive /\ Draining

IInv == ListInv /\ DetachedKnown /\ OwnerInv /\ PinInv

----------------------------------------------------------------------------
(* Owners                                                                  *)

OthersStay(t) ==
  \A u \in Threads : u # t => pc'[u] = pc[u] /\ ref'[u] = ref[u]

(* A thread that moves to a place and a source is there.                   *)
LEMMA MoveEffect ==
  ASSUME TypeOK, NEW t \in Threads, NEW to, NEW s, Move(t, to, s)
  PROVE  pc'[t] = to /\ ref'[t] = s /\ OthersStay(t)
  BY DEF Move, TypeOK, OthersStay

(* One that moves with the source it has keeps that.                       *)
LEMMA StayEffect ==
  ASSUME TypeOK, NEW t \in Threads, NEW to, Stay(t, to)
  PROVE  pc'[t] = to /\ ref'[t] = ref[t] /\ OthersStay(t)
  BY DEF Stay, TypeOK, OthersStay

(* A step by which nobody becomes an owner, and which leaves the sources   *)
(* of those who go on owning linked and attached, or contests them.        *)
LEMMA OwnersKeep ==
  ASSUME OwnerInv, contested \subseteq contested',
         \A o \in Owners : pc'[o] \in Owning => pc[o] \in Owning /\ ref'[o] = ref[o],
         \A o \in Owners :
           /\ pc'[o] \in Owning /\ ref[o] \notin contested'
           /\ ref[o] \in linked /\ ~bDetached[ref[o]]
           => ref[o] \in linked' /\ ~bDetached'[ref[o]]
  PROVE  OwnerInv'
<1>1. Owned'
  BY DEF OwnerInv, Owned
<1>2. OneOwner'
  BY DEF OwnerInv, OneOwner
<1> QED
  BY <1>1, <1>2 DEF OwnerInv

(* ... in particular a step that does nothing to sources and history.      *)
LEMMA OwnersQuiet ==
  ASSUME OwnerInv, UNCHANGED <<linked, bDetached, contested>>,
         \A o \in Owners : pc'[o] \in Owning => pc[o] \in Owning /\ ref'[o] = ref[o]
  PROVE  OwnerInv'
  BY OwnersKeep

(* Whoever destroys a source does nothing to the others.                   *)
LEMMA DestroyElsewhere ==
  ASSUME TypeOK, NEW s \in Sources, SourceDestroy(s)
  PROVE  /\ linked \ {s} \subseteq linked'
         /\ \A r \in Sources : r # s => bDetached'[r] = bDetached[r]
  BY DEF SourceDestroy, SourceUnlink, SourceDetach, TypeOK, list

(* A source is detached by a step on it, while it is in memory.            *)
LEMMA NextDetached == ListInv /\ DetachedKnown /\ [Next]_vars => DetachedKnown'
<1> SUFFICES ASSUME ListInv, DetachedKnown, [Next]_vars PROVE DetachedKnown'
  OBVIOUS
<1>0. TypeOK /\ created \in Nat
  BY DEF ListInv, TypeOK
<1>1. ASSUME created' \in {created, created + 1},
             \A s \in Sources : bDetached'[s] => bDetached[s] \/ s \in 1..created
      PROVE  DetachedKnown'
  <2>1. 1..created \subseteq 1..created'
    BY <1>0, <1>1
  <2> QED
    BY <1>1, <2>1 DEF DetachedKnown
<1>2. ASSUME NEW r \in 1..created, SourceDestroy(r) \/ SourceStop(r)
      PROVE  \A s \in Sources : bDetached'[s] => bDetached[s] \/ s \in 1..created
  <2>1. bDetached' = bDetached \/ bDetached' = [bDetached EXCEPT ![r] = TRUE]
    BY <1>2 DEF SourceDestroy, SourceStop, SourceUnlink, SourceDetach
  <2> QED
    BY <1>0, <1>2, <2>1 DEF TypeOK
<1>3. ASSUME NEW o \in Owners, Close(o) PROVE DetachedKnown'
  BY <1>1, <1>2, <1>3 DEF Close, Alive
<1>4. ASSUME NEW u \in Users, UserStop(u) PROVE DetachedKnown'
  BY <1>1, <1>2, <1>4 DEF UserStop, Alive
<1>5. ASSUME GcDestroy PROVE DetachedKnown'
  BY <1>1, <1>2, <1>5 DEF GcDestroy, Alive
<1>6. ASSUME NEW o \in Owners, CreateTakesOver(o) PROVE DetachedKnown'
  <2>1. \A s \in Sources : bDetached'[s] => bDetached[s]
    BY <1>0, <1>6 DEF CreateTakesOver, TypeOK
  <2> QED
    BY <1>1, <1>6, <2>1 DEF CreateTakesOver, memory
<1>7. ASSUME UNCHANGED bDetached, created' \in {created, created + 1} PROVE DetachedKnown'
  BY <1>1, <1>7
<1>8. ASSUME NEW o \in Owners, OwnerStep(o) PROVE DetachedKnown'
  BY <1>3, <1>6, <1>7, <1>8
     DEF OwnerStep, CreateQuery, CreateExists, CreateSeesDetached, CreateTaken, CreateNew,
         CreateFails, WriteQuery, WriteChecked, WriteRefused, WriteDone, memory, fields
<1>9. ASSUME NEW u \in Users, UserStep(u) PROVE DetachedKnown'
  BY <1>4, <1>7, <1>9 DEF UserStep, UserQuery, ViewQuery, UserRelease, ViewAgain, memory
<1>10. ASSUME \/ GcScan \/ GcRead \/ GcRelease \/ UNCHANGED vars
              \/ \E s \in Sources : Expire(s)
       PROVE  DetachedKnown'
  BY <1>7, <1>10 DEF GcScan, GcRead, GcRelease, Expire, vars, memory, fields
<1> QED
  BY <1>5, <1>8, <1>9, <1>10 DEF Next, Collector

(* Every step keeps owners and sources matched.                            *)
LEMMA NextOwnerInv == ListInv /\ DetachedKnown /\ OwnerInv /\ [Next]_vars => OwnerInv'
<1> SUFFICES ASSUME ListInv, DetachedKnown, OwnerInv, [Next]_vars PROVE OwnerInv'
  OBVIOUS
<1>0. TypeOK /\ TypeOK' /\ Known
  BY NextListInv DEF ListInv
<1> USE SourcesAssumption DEF Threads
<1>1. ASSUME NEW o \in Owners, NEW m \in Mounts, CreateQuery(o, m) PROVE OwnerInv'
  <2>1. UNCHANGED <<linked, bDetached, contested>>
    BY <1>1 DEF CreateQuery, list, history
  <2>2. \E s : Move(o, "found", s) \/ Move(o, "absent", s)
    BY <1>1 DEF CreateQuery
  <2>3. pc'[o] \notin Owning /\ OthersStay(o)
    BY <1>0, <2>2, MoveEffect DEF Owning, Feeding
  <2> QED
    BY <2>1, <2>3, OwnersQuiet DEF OthersStay
<1>2. ASSUME NEW o \in Owners, CreateExists(o) \/ CreateSeesDetached(o) \/ CreateFails(o)
      PROVE  OwnerInv'
  <2>1. UNCHANGED <<linked, bDetached, contested>>
    BY <1>2 DEF CreateExists, CreateSeesDetached, CreateFails, list, fields, history
  <2>2. \/ Move(o, "idle", NoSource)
        \/ Stay(o, "takeover") \/ Stay(o, "idle")
    BY <1>2 DEF CreateExists, CreateSeesDetached, CreateFails
  <2>3. pc'[o] \notin Owning /\ OthersStay(o)
    BY <1>0, <2>2, MoveEffect, StayEffect DEF Owning, Feeding
  <2> QED
    BY <2>1, <2>3, OwnersQuiet DEF OthersStay
<1>3. ASSUME NEW o \in Owners, CreateTakesOver(o) PROVE OwnerInv'
  <2> DEFINE s == ref[o]
  <2>1. /\ pc'[o] = "taken" /\ ref'[o] = s /\ OthersStay(o) /\ UNCHANGED linked
        /\ bDetached' = [bDetached EXCEPT ![s] = FALSE] /\ s \in Sources
        /\ contested \subseteq contested'
    BY <1>0, <1>3, StayEffect DEF CreateTakesOver, list, TypeOK, Pinning
  <2>2. s \notin contested' => s \in linked /\ bDetached[s] /\ s \notin contested
    BY <1>3 DEF CreateTakesOver
  <2> HIDE DEF s
  <2>3. \A r \in Sources : bDetached'[r] = IF r = s THEN FALSE ELSE bDetached[r]
    BY <1>0, <2>1 DEF TypeOK
  <2>4. ASSUME NEW p \in Owners, p # o, pc'[p] \in Owning, ref'[p] \notin contested'
        PROVE  /\ pc[p] \in Owning /\ ref'[p] = ref[p] /\ ref[p] \in linked
               /\ ~bDetached[ref[p]] /\ ref[p] # s
    BY <2>1, <2>2, <2>4 DEF OthersStay, OwnerInv, Owned
  <2>5. Owned'
    BY <1>0, <2>1, <2>2, <2>3, <2>4 DEF Owned, TypeOK
  <2>6. OneOwner'
    <3> SUFFICES ASSUME NEW p \in Owners, NEW q \in Owners, pc'[p] \in Owning,
                        pc'[q] \in Owning, ref'[p] = ref'[q], ref'[p] \notin contested'
                 PROVE  p = q
      BY DEF OneOwner
    <3>1. p # o /\ q # o => p = q
      BY <2>1, <2>4 DEF OwnerInv, OneOwner
    <3>2. p = o <=> q = o
      BY <2>1, <2>4
    <3> QED
      BY <3>1, <3>2
  <2> QED
    BY <2>5, <2>6 DEF OwnerInv
<1>4. ASSUME NEW o \in Owners,
             CreateTaken(o) \/ WriteQuery(o) \/ WriteChecked(o) \/ WriteRefused(o)
               \/ WriteDone(o)
      PROVE  OwnerInv'
  <2>1. UNCHANGED <<linked, bDetached, contested>> /\ pc[o] \in Owning
    BY <1>4 DEF CreateTaken, WriteQuery, WriteChecked, WriteRefused, WriteDone, list,
                fields, history, Owning, Feeding
  <2>2. \E to \in Feeding : Stay(o, to)
    BY <1>4 DEF CreateTaken, WriteQuery, WriteChecked, WriteRefused, WriteDone, Feeding
  <2>3. ref'[o] = ref[o] /\ OthersStay(o)
    BY <1>0, <2>2, StayEffect
  <2> QED
    BY <2>1, <2>3, OwnersQuiet DEF OthersStay
<1>5. ASSUME NEW o \in Owners, CreateNew(o) PROVE OwnerInv'
  <2> DEFINE s == created + 1
  <2>1. /\ pc'[o] = "owning" /\ ref'[o] = s /\ OthersStay(o)
        /\ linked' = linked \cup {s} /\ UNCHANGED <<bDetached, contested>>
    BY <1>0, <1>5, MoveEffect DEF CreateNew, history
  <2>2. s \notin linked /\ s \notin contested
    BY <1>0 DEF ListInv, ListSound, Alive, TypeOK, Known
  <2>3. s \in Sources /\ ~bDetached[s]
    BY <1>0, <1>5 DEF CreateNew, DetachedKnown, TypeOK
  <2> HIDE DEF s
  <2>4. ASSUME NEW p \in Owners, p # o, pc'[p] \in Owning, ref'[p] \notin contested'
        PROVE  pc[p] \in Owning /\ ref'[p] = ref[p] /\ ref[p] \in linked /\ ref[p] # s
    BY <2>1, <2>2, <2>4 DEF OthersStay, OwnerInv, Owned
  <2>5. Owned'
    BY <2>1, <2>3, <2>4 DEF Owned, OwnerInv
  <2>6. OneOwner'
    <3> SUFFICES ASSUME NEW p \in Owners, NEW q \in Owners, pc'[p] \in Owning,
                        pc'[q] \in Owning, ref'[p] = ref'[q], ref'[p] \notin contested'
                 PROVE  p = q
      BY DEF OneOwner
    <3>1. p # o /\ q # o => p = q
      BY <2>1, <2>4 DEF OwnerInv, OneOwner
    <3>2. p = o <=> q = o
      BY <2>1, <2>4
    <3> QED
      BY <3>1, <3>2
  <2> QED
    BY <2>5, <2>6 DEF OwnerInv
<1>6. ASSUME NEW o \in Owners, Close(o) PROVE OwnerInv'
  <2> DEFINE s == ref[o]
  <2>1. /\ pc'[o] = "idle" /\ OthersStay(o) /\ pc[o] \in Owning /\ s \in Sources
        /\ UNCHANGED contested
    BY <1>0, <1>6, MoveEffect DEF Close, Owning, Feeding, history, TypeOK
  <2>2. /\ linked \ {s} \subseteq linked'
        /\ \A r \in Sources : r # s => bDetached'[r] = bDetached[r]
    BY <1>0, <1>6, <2>1, DestroyElsewhere DEF Close
  <2>3. ASSUME NEW p \in Owners, pc'[p] \in Owning
        PROVE  p # o /\ pc[p] \in Owning /\ ref'[p] = ref[p] /\ ref[p] \in Sources
    BY <1>0, <2>1, <2>3 DEF Owning, Feeding, Pinning, OthersStay, TypeOK
  <2>4. ASSUME NEW p \in Owners, pc'[p] \in Owning, ref[p] \notin contested'
        PROVE  ref[p] # s
    BY <2>1, <2>3, <2>4 DEF OwnerInv, OneOwner
  <2> HIDE DEF s
  <2> QED
    BY <2>1, <2>2, <2>3, <2>4, OwnersKeep
<1>7. ASSUME NEW u \in Users, UserStop(u) PROVE OwnerInv'
  <2> DEFINE s == ref[u]
  <2>1. /\ pc'[u] = "leaving" /\ OthersStay(u) /\ s \in Sources /\ UNCHANGED contested
    BY <1>0, <1>7, StayEffect DEF UserStop, history, TypeOK, Pinning
  <2>2. /\ UNCHANGED bDetached /\ linked \ {s} \subseteq linked'
        /\ ~bDetached[s] => UNCHANGED linked
    BY <1>7 DEF UserStop, SourceStop, SourceUnlink, list
  <2>3. ASSUME NEW p \in Owners PROVE pc'[p] = pc[p] /\ ref'[p] = ref[p]
    BY <2>1 DEF OthersStay
  <2> HIDE DEF s
  <2> QED
    BY <2>1, <2>2, <2>3, OwnersKeep
<1>8. ASSUME NEW u \in Users,
             \/ \E s \in Sources : UserQuery(u, s) \/ ViewQuery(u, s)
             \/ UserRelease(u) \/ ViewAgain(u)
      PROVE  OwnerInv'
  <2>1. UNCHANGED <<linked, bDetached, contested>>
    BY <1>8 DEF UserQuery, ViewQuery, UserRelease, ViewAgain, list, history
  <2>2. \E to, r : Move(u, to, r) \/ Stay(u, to)
    BY <1>8 DEF UserQuery, ViewQuery, UserRelease, ViewAgain
  <2>3. OthersStay(u)
    BY <1>0, <2>2, MoveEffect, StayEffect
  <2> QED
    BY <2>1, <2>3, OwnersQuiet DEF OthersStay
<1>9. ASSUME \/ GcScan \/ GcRead \/ GcRelease \/ UNCHANGED vars
             \/ \E s \in Sources : Expire(s)
      PROVE  OwnerInv'
  <2>1. UNCHANGED <<linked, bDetached, contested, pc, ref>>
    BY <1>9 DEF GcScan, GcRead, GcRelease, Expire, vars, list, fields, threads, history
  <2> QED
    BY <2>1, OwnersQuiet
<1>10. ASSUME GcDestroy PROVE OwnerInv'
  <2>1. /\ UNCHANGED <<pc, ref>> /\ contested \subseteq contested' /\ gcref \in Sources
    BY <1>0, <1>10, AllocatedIsSource DEF GcDestroy, threads, Alive
  <2>2. /\ linked \ {gcref} \subseteq linked'
        /\ \A r \in Sources : r # gcref => bDetached'[r] = bDetached[r]
    BY <1>0, <1>10, <2>1, DestroyElsewhere DEF GcDestroy
  <2>3. gcref \in linked /\ ~bDetached[gcref] => gcref \in contested'
    BY <1>10 DEF GcDestroy
  <2>4. ASSUME NEW p \in Owners, pc'[p] \in Owning PROVE ref[p] \in Sources
    BY <1>0, <2>1, <2>4 DEF Owning, Feeding, Pinning, TypeOK
  <2> QED
    BY <2>1, <2>2, <2>3, <2>4, OwnersKeep
<1> QED
  BY <1>1, <1>2, <1>3, <1>4, <1>5, <1>6, <1>7, <1>8, <1>9, <1>10
     DEF Next, OwnerStep, UserStep, Collector

----------------------------------------------------------------------------
(* Pins                                                                    *)

(* What a step may do to the pins, the list and the heap.                  *)
OthersKeep(t) == \A u \in Agents : u # t => Pinned(u)' = Pinned(u)
PinsStay == \A u \in Agents : Pinned(u)' = Pinned(u)

Queries(t, s) ==
  /\ OthersKeep(t) /\ Pinned(t) = NoSource /\ Pinned(t)' = s
  /\ SourceQueryPtr(s) /\ UNCHANGED <<linked, created, freed, kept, robbed>>

QueriesAgain(t, s) ==
  /\ PinsStay /\ Pinned(t) = s
  /\ SourceQueryPtr(s) /\ UNCHANGED <<linked, created, freed, robbed>>
  /\ kept' = kept \cup {s}

Releases(t, s) ==
  /\ OthersKeep(t) /\ Pinned(t) = s /\ Pinned(t)' = NoSource
  /\ Alive(s) /\ SourceRelease(s) /\ UNCHANGED <<linked, created, kept, robbed>>

Forgets(t, s) ==
  /\ OthersKeep(t) /\ Pinned(t) = s /\ Pinned(t)' = NoSource
  /\ UNCHANGED <<linked, created, freed, ulQueryLocks, robbed>>
  /\ kept' = kept \cup {s}

Robs(s) ==
  /\ PinsStay /\ Alive(s) /\ SourceRelease(s) /\ UNCHANGED <<linked, created, kept>>
  /\ robbed' = robbed \cup {s}

Quiet == PinsStay /\ UNCHANGED <<linked, created, freed, ulQueryLocks, kept, robbed>>

Inserts ==
  /\ PinsStay /\ UNCHANGED <<freed, ulQueryLocks, kept, robbed>>
  /\ created' = created + 1 /\ linked' = linked \cup {created + 1}

Ends(s) == PinsStay /\ SourceUnlink(s) /\ UNCHANGED <<created, ulQueryLocks, kept, robbed>>

PinStep ==
  \/ \E t \in Agents :
       \/ \E s \in linked : Queries(t, s) \/ QueriesAgain(t, s)
       \/ \E s \in Sources : Releases(t, s) \/ Forgets(t, s)
  \/ \E s \in Sources : Robs(s)
  \/ Quiet \/ Inserts
  \/ \E s \in linked : Ends(s)

(* What one thread's step does to the pins.                                *)
LEMMA ThreadPins ==
  ASSUME NEW t \in Threads, OthersStay(t), UNCHANGED gcpin
  PROVE  /\ OthersKeep(t) /\ t \in Agents
         /\ Pinned(t) = IF pc[t] \in Pinning THEN ref[t] ELSE NoSource
         /\ Pinned(t)' = IF pc'[t] \in Pinning THEN ref'[t] ELSE NoSource
         /\ Pinned(t)' = Pinned(t) => PinsStay
  BY SourcesAssumption DEF OthersStay, OthersKeep, PinsStay, Pinned, Agents, Threads

(* ... and what the collector's does.                                      *)
LEMMA MainPins ==
  ASSUME UNCHANGED <<pc, ref>>
  PROVE  /\ OthersKeep(Main) /\ Main \in Agents
         /\ Pinned(Main) = gcpin /\ Pinned(Main)' = gcpin'
         /\ gcpin' = gcpin => PinsStay
  BY DEF OthersKeep, PinsStay, Pinned, Agents

(* A source that has left the list and is unlinked again only loses what   *)
(* it has not.                                                             *)
LEMMA UnlinkedAgain ==
  ASSUME ListInv, Draining, NEW s \in Sources, Alive(s), SourceUnlink(s)
  PROVE  \/ s \in linked
         \/ s \notin linked /\ UNCHANGED <<linked, freed>>
  BY DEF Draining, SourceUnlink, Alive

(* A destruction is one, or does nothing to pins.                          *)
LEMMA DestroyPins ==
  ASSUME ListInv, Draining, NEW s \in Sources, Alive(s), SourceDestroy(s) \/ SourceStop(s),
         PinsStay, UNCHANGED <<created, ulQueryLocks, kept, robbed>>
  PROVE  PinStep
<1>1. SourceUnlink(s) \/ UNCHANGED <<linked, freed>>
  BY DEF SourceDestroy, SourceStop, SourceDetach, list
<1>2. CASE SourceUnlink(s) /\ s \in linked
  BY <1>2 DEF PinStep, Ends
<1>3. CASE UNCHANGED <<linked, freed>>
  BY <1>3 DEF PinStep, Quiet
<1> QED
  BY <1>1, <1>2, <1>3, UnlinkedAgain

(* Every step is of one of these kinds.                                    *)
LEMMA StepKind == ListInv /\ Draining /\ [Next]_vars => PinStep
<1> SUFFICES ASSUME ListInv, Draining, [Next]_vars PROVE PinStep
  OBVIOUS
<1>0. TypeOK /\ TypeOK'
  BY NextListInv DEF ListInv
<1>a. \A o \in Owners : o \in Threads
  BY DEF Threads
<1>b. \A u \in Users : u \in Threads
  BY DEF Threads
<1>c. NoSource \notin Sources
  BY SourcesAssumption DEF Sources, NoSource
<1>1. ASSUME NEW o \in Owners, NEW m \in Mounts, CreateQuery(o, m) PROVE PinStep
  <2> DEFINE s == First({r \in linked : pszMountPoint[r] = m})
  <2>1. s \in linked \cup {NoSource}
    BY <1>0, FirstIsIn DEF TypeOK
  <2>2. UNCHANGED <<linked, created, freed, gcpin, kept, robbed>> /\ pc[o] = "idle"
    BY <1>1 DEF CreateQuery, list, memory, gcvars, history
  <2>3. CASE s # NoSource
    <3>1. SourceQueryPtr(s) /\ Move(o, "found", s)
      BY <1>1, <2>3 DEF CreateQuery
    <3>2. pc'[o] = "found" /\ ref'[o] = s /\ OthersStay(o)
      BY <1>0, <1>a, <3>1, MoveEffect
    <3>3. OthersKeep(o) /\ o \in Agents /\ Pinned(o) = NoSource /\ Pinned(o)' = s
      BY <1>a, <2>2, <3>2, ThreadPins DEF Pinning
    <3> HIDE DEF s
    <3> QED
      BY <2>1, <2>2, <2>3, <3>1, <3>3 DEF PinStep, Queries
  <2>4. CASE s = NoSource
    <3>1. Move(o, "absent", NoSource) /\ UNCHANGED ulQueryLocks
      BY <1>1, <2>4 DEF CreateQuery
    <3>2. pc'[o] = "absent" /\ OthersStay(o)
      BY <1>0, <1>a, <3>1, MoveEffect
    <3>3. PinsStay
      BY <1>a, <2>2, <3>2, ThreadPins DEF Pinning
    <3> QED
      BY <2>2, <3>1, <3>3 DEF PinStep, Quiet
  <2> QED
    BY <2>3, <2>4
<1>2. ASSUME NEW o \in Owners,
             CreateExists(o) \/ CreateTaken(o) \/ WriteRefused(o) \/ WriteDone(o)
      PROVE  PinStep
  <2>1. \/ Move(o, "idle", NoSource)
        \/ Stay(o, "owning") \/ Stay(o, "closing")
    BY <1>2 DEF CreateExists, CreateTaken, WriteRefused, WriteDone
  <2>2. pc'[o] \notin Pinning /\ OthersStay(o)
    BY <1>0, <1>a, <2>1, MoveEffect, StayEffect DEF Pinning
  <2>3. /\ Alive(ref[o]) /\ SourceRelease(ref[o]) /\ pc[o] \in Pinning
        /\ UNCHANGED <<linked, created, kept, robbed, gcpin>>
    BY <1>2 DEF CreateExists, CreateTaken, WriteRefused, WriteDone, list, gcvars, history,
                Pinning
  <2>4. ref[o] \in Sources
    BY <1>0, <1>a, <2>3 DEF TypeOK
  <2>5. OthersKeep(o) /\ o \in Agents /\ Pinned(o) = ref[o] /\ Pinned(o)' = NoSource
    BY <1>a, <2>2, <2>3, ThreadPins
  <2> QED
    BY <2>3, <2>4, <2>5 DEF PinStep, Releases
<1>3. ASSUME NEW o \in Owners, CreateSeesDetached(o) \/ CreateTakesOver(o) \/ WriteChecked(o)
      PROVE  PinStep
  <2>1. pc'[o] \in Pinning /\ ref'[o] = ref[o] /\ OthersStay(o)
    <3>1. \E to \in Pinning : Stay(o, to)
      BY <1>3 DEF CreateSeesDetached, CreateTakesOver, WriteChecked, Pinning
    <3> QED
      BY <1>0, <1>a, <3>1, StayEffect
  <2>2. /\ UNCHANGED <<linked, created, freed, ulQueryLocks, kept, robbed, gcpin>>
        /\ pc[o] \in Pinning
    BY <1>3 DEF CreateSeesDetached, CreateTakesOver, WriteChecked, list, memory, fields,
                gcvars, history, Pinning
  <2>3. PinsStay
    BY <1>a, <2>1, <2>2, ThreadPins
  <2> QED
    BY <2>2, <2>3 DEF PinStep, Quiet
<1>4. ASSUME NEW o \in Owners, CreateNew(o) PROVE PinStep
  <2>1. pc'[o] = "owning" /\ OthersStay(o)
    BY <1>0, <1>4, <1>a, MoveEffect DEF CreateNew
  <2>2. /\ linked' = linked \cup {created + 1} /\ created' = created + 1 /\ pc[o] = "absent"
        /\ UNCHANGED <<freed, ulQueryLocks, kept, robbed, gcpin>>
    BY <1>4 DEF CreateNew, gcvars, history
  <2>3. PinsStay
    BY <1>a, <2>1, <2>2, ThreadPins DEF Pinning
  <2> QED
    BY <2>2, <2>3 DEF PinStep, Inserts
<1>5. ASSUME NEW o \in Owners, CreateFails(o) PROVE PinStep
  <2>1. pc[o] = "absent" /\ pc'[o] = "idle" /\ OthersStay(o)
    BY <1>0, <1>5, <1>a, StayEffect DEF CreateFails
  <2>2. UNCHANGED <<linked, created, freed, ulQueryLocks, kept, robbed, gcpin>>
    BY <1>5 DEF CreateFails, list, memory, fields, gcvars, history
  <2>3. PinsStay
    BY <1>a, <2>1, <2>2, ThreadPins DEF Pinning
  <2> QED
    BY <2>2, <2>3 DEF PinStep, Quiet
<1>6. ASSUME NEW o \in Owners, WriteQuery(o) PROVE PinStep
  <2>1. /\ UNCHANGED <<linked, created, freed, kept, robbed, gcpin>> /\ pc[o] = "owning"
    BY <1>6 DEF WriteQuery, list, memory, gcvars, history
  <2>2. CASE SourceQueryPtr(ref[o]) /\ Stay(o, "writing")
    <3>1. pc'[o] = "writing" /\ ref'[o] = ref[o] /\ OthersStay(o)
      BY <1>0, <1>a, <2>2, StayEffect
    <3>2. OthersKeep(o) /\ o \in Agents /\ Pinned(o) = NoSource /\ Pinned(o)' = ref[o]
      BY <1>a, <2>1, <3>1, ThreadPins DEF Pinning
    <3>3. ref[o] \in linked
      BY <2>2 DEF SourceQueryPtr
    <3> QED
      BY <2>1, <2>2, <3>2, <3>3 DEF PinStep, Queries
  <2>3. CASE Stay(o, "closing") /\ UNCHANGED ulQueryLocks
    <3>1. pc'[o] = "closing" /\ OthersStay(o)
      BY <1>0, <1>a, <2>3, StayEffect
    <3>2. PinsStay
      BY <1>a, <2>1, <3>1, ThreadPins DEF Pinning
    <3> QED
      BY <2>1, <2>3, <3>2 DEF PinStep, Quiet
  <2> QED
    BY <1>6, <2>2, <2>3 DEF WriteQuery
<1>7. ASSUME NEW o \in Owners, Close(o) PROVE PinStep
  <2>1. pc'[o] = "idle" /\ OthersStay(o)
    BY <1>0, <1>7, <1>a, MoveEffect DEF Close
  <2>2. /\ Alive(ref[o]) /\ SourceDestroy(ref[o]) /\ pc[o] \in {"owning", "closing"}
        /\ UNCHANGED <<created, ulQueryLocks, kept, robbed, gcpin>>
    BY <1>7 DEF Close, gcvars, history
  <2>3. PinsStay
    BY <1>a, <2>1, <2>2, ThreadPins DEF Pinning
  <2>4. ref[o] \in Sources
    BY <1>0, <1>a, <2>2 DEF TypeOK, Feeding
  <2> QED
    BY <2>2, <2>3, <2>4, DestroyPins
<1>8. ASSUME NEW u \in Users, NEW s \in Sources, UserQuery(u, s) \/ ViewQuery(u, s)
      PROVE  PinStep
  <2>1. /\ SourceQueryPtr(s) /\ UNCHANGED <<linked, created, freed, kept, robbed, gcpin>>
        /\ pc[u] = "idle" /\ s \in linked
    BY <1>8 DEF UserQuery, ViewQuery, SourceQueryPtr, list, memory, gcvars, history
  <2>2. pc'[u] \in {"using", "viewing"} /\ ref'[u] = s /\ OthersStay(u)
    BY <1>0, <1>8, <1>b, MoveEffect DEF UserQuery, ViewQuery
  <2>3. OthersKeep(u) /\ u \in Agents /\ Pinned(u) = NoSource /\ Pinned(u)' = s
    BY <1>b, <2>1, <2>2, ThreadPins DEF Pinning
  <2> QED
    BY <2>1, <2>3 DEF PinStep, Queries
<1>9. ASSUME NEW u \in Users, UserStop(u) PROVE PinStep
  <2>1. pc[u] = "using" /\ pc'[u] = "leaving" /\ ref'[u] = ref[u] /\ OthersStay(u)
    BY <1>0, <1>9, <1>b, StayEffect DEF UserStop
  <2>2. /\ Alive(ref[u]) /\ SourceStop(ref[u])
        /\ UNCHANGED <<created, ulQueryLocks, kept, robbed, gcpin>>
    BY <1>9 DEF UserStop, gcvars, history
  <2>3. PinsStay
    BY <1>b, <2>1, <2>2, ThreadPins DEF Pinning
  <2>4. ref[u] \in Sources
    BY <1>0, <1>b, <2>1 DEF TypeOK, Pinning
  <2> QED
    BY <2>2, <2>3, <2>4, DestroyPins
<1>10. ASSUME NEW u \in Users, UserRelease(u) PROVE PinStep
  <2>1. pc'[u] = "idle" /\ OthersStay(u)
    BY <1>0, <1>10, <1>b, MoveEffect DEF UserRelease
  <2>2. /\ Alive(ref[u]) /\ SourceRelease(ref[u]) /\ pc[u] \in Pinning
        /\ UNCHANGED <<linked, created, kept, robbed, gcpin>>
    BY <1>10 DEF UserRelease, list, gcvars, history, Pinning
  <2>3. ref[u] \in Sources
    BY <1>0, <1>b, <2>2 DEF TypeOK
  <2>4. OthersKeep(u) /\ u \in Agents /\ Pinned(u) = ref[u] /\ Pinned(u)' = NoSource
    BY <1>b, <2>1, <2>2, ThreadPins DEF Pinning
  <2> QED
    BY <2>2, <2>3, <2>4 DEF PinStep, Releases
<1>11. ASSUME NEW u \in Users, ViewAgain(u) PROVE PinStep
  <2>1. /\ UNCHANGED <<linked, created, freed, robbed, gcpin>>
        /\ kept' = kept \cup {ref[u]} /\ pc[u] \in Pinning
    BY <1>11 DEF ViewAgain, list, memory, gcvars, Pinning
  <2>2. ref[u] \in Sources
    BY <1>0, <1>b, <2>1 DEF TypeOK
  <2>3. CASE SourceQueryPtr(ref[u]) /\ Stay(u, "leaving")
    <3>1. pc'[u] = "leaving" /\ ref'[u] = ref[u] /\ OthersStay(u)
      BY <1>0, <1>b, <2>3, StayEffect
    <3>2. PinsStay /\ u \in Agents /\ Pinned(u) = ref[u]
      BY <1>b, <2>1, <3>1, ThreadPins DEF Pinning
    <3>3. ref[u] \in linked
      BY <2>3 DEF SourceQueryPtr
    <3> QED
      BY <2>1, <2>3, <3>2, <3>3 DEF PinStep, QueriesAgain
  <2>4. CASE Move(u, "idle", NoSource) /\ UNCHANGED ulQueryLocks
    <3>1. pc'[u] = "idle" /\ OthersStay(u)
      BY <1>0, <1>b, <2>4, MoveEffect
    <3>2. OthersKeep(u) /\ u \in Agents /\ Pinned(u) = ref[u] /\ Pinned(u)' = NoSource
      BY <1>b, <2>1, <3>1, ThreadPins DEF Pinning
    <3> QED
      BY <2>1, <2>2, <2>4, <3>2 DEF PinStep, Forgets
  <2> QED
    BY <1>11, <2>3, <2>4 DEF ViewAgain
<1>12. ASSUME \/ UNCHANGED vars \/ \E s \in Sources : Expire(s)
       PROVE  PinStep
  <2>1. /\ UNCHANGED <<pc, ref, gcpin>>
        /\ UNCHANGED <<linked, created, freed, ulQueryLocks, kept, robbed>>
    BY <1>12 DEF Expire, vars, list, memory, fields, threads, gcvars, history
  <2>2. PinsStay
    BY <2>1, MainPins
  <2> QED
    BY <2>1, <2>2 DEF PinStep, Quiet
<1>13. ASSUME GcScan PROVE PinStep
  <2> DEFINE s == IF psSourceGarbageScan = NoSource
                    THEN First(linked) ELSE psSourceGarbageScan
  <2>1. /\ UNCHANGED <<pc, ref, linked, created, freed, kept, robbed>> /\ gcpin = NoSource
    BY <1>13 DEF GcScan, memory, threads, history, ListInv, GcPlace
  <2>2. \/ SourceQueryPtr(s) /\ gcpin' = s
        \/ UNCHANGED <<ulQueryLocks, gcpin>>
    BY <1>13 DEF GcScan
  <2> HIDE DEF s
  <2>3. CASE SourceQueryPtr(s) /\ gcpin' = s
    <3>1. s \in linked
      BY <2>3 DEF SourceQueryPtr
    <3> QED
      BY <2>1, <2>3, <3>1, MainPins DEF PinStep, Queries
  <2>4. CASE UNCHANGED <<ulQueryLocks, gcpin>>
    BY <2>1, <2>4, MainPins DEF PinStep, Quiet
  <2> QED
    BY <2>2, <2>3, <2>4
<1>14. ASSUME GcRead PROVE PinStep
  <2>1. UNCHANGED <<pc, ref, linked, created, freed, ulQueryLocks, robbed>>
    BY <1>14 DEF GcRead, list, memory, fields, threads
  <2>2. CASE UNCHANGED <<gcpin, kept>>
    BY <2>1, <2>2, MainPins DEF PinStep, Quiet
  <2>3. CASE gcpin' = NoSource /\ kept' = kept \cup ({gcpin} \ {NoSource})
    <3>1. CASE gcpin = NoSource
      BY <2>1, <2>3, <3>1, MainPins DEF PinStep, Quiet
    <3>2. CASE gcpin # NoSource
      <4>1. gcpin \in Sources /\ kept' = kept \cup {gcpin}
        BY <1>0, <2>3, <3>2 DEF TypeOK
      <4> QED
        BY <2>1, <2>3, <4>1, MainPins DEF PinStep, Forgets
    <3> QED
      BY <3>1, <3>2
  <2> QED
    BY <1>14, <2>2, <2>3 DEF GcRead
<1>15. ASSUME GcDestroy PROVE PinStep
  <2>1. /\ UNCHANGED <<pc, ref, gcpin, created, ulQueryLocks, kept, robbed>>
        /\ Alive(gcref) /\ SourceDestroy(gcref)
    BY <1>15 DEF GcDestroy, threads
  <2>2. PinsStay
    BY <2>1, MainPins
  <2>3. gcref \in Sources
    BY <1>0, <2>1, AllocatedIsSource DEF Alive
  <2> QED
    BY <2>1, <2>2, <2>3, DestroyPins
<1>16. ASSUME GcRelease PROVE PinStep
  <2>1. UNCHANGED <<pc, ref, linked, created, kept>> /\ gcpin' = NoSource
    BY <1>16 DEF GcRelease, list, threads
  <2>2. gcpin # NoSource => gcref = gcpin
    BY <1>16 DEF GcRelease, ListInv, GcPlace
  <2>3. CASE gcref = NoSource /\ UNCHANGED <<ulQueryLocks, freed, robbed>>
    BY <2>1, <2>2, <2>3, MainPins DEF PinStep, Quiet
  <2>4. CASE Alive(gcref) /\ SourceRelease(gcref)
    <3>1. gcref \in Sources
      BY <1>0, <2>4, AllocatedIsSource DEF Alive
    <3>2. CASE gcref = gcpin
      <4>1. UNCHANGED robbed
        BY <1>16, <1>c, <3>1, <3>2 DEF GcRelease
      <4> QED
        BY <2>1, <2>4, <3>1, <3>2, <4>1, MainPins DEF PinStep, Releases
    <3>3. CASE gcref # gcpin /\ ulQueryLocks[gcref] # 0
      <4>1. robbed' = robbed \cup {gcref} /\ gcpin' = gcpin
        BY <1>16, <1>c, <2>1, <2>2, <3>1, <3>3 DEF GcRelease
      <4> QED
        BY <2>1, <2>4, <3>1, <4>1, MainPins DEF PinStep, Robs
    <3>4. CASE gcref # gcpin /\ ulQueryLocks[gcref] = 0
      <4>1. UNCHANGED robbed /\ gcpin' = gcpin
        BY <1>16, <1>c, <2>1, <2>2, <3>1, <3>4 DEF GcRelease
      <4>2. UNCHANGED <<ulQueryLocks, freed>>
        BY <1>0, <2>4, <3>1, <3>4 DEF SourceRelease, TypeOK
      <4> QED
        BY <2>1, <4>1, <4>2, MainPins DEF PinStep, Quiet
    <3> QED
      BY <3>2, <3>3, <3>4
  <2> QED
    BY <1>16, <2>3, <2>4 DEF GcRelease
<1> QED
  BY <1>1, <1>2, <1>3, <1>4, <1>5, <1>6, <1>7, <1>8, <1>9, <1>10, <1>11, <1>12, <1>13,
     <1>14, <1>15, <1>16 DEF Next, OwnerStep, UserStep, Collector

(* The holders of a source can be counted.                                 *)
LEMMA HoldersFinite ==
  ASSUME NEW s
  PROVE  /\ IsFiniteSet(Holders(s)) /\ Cardinality(Holders(s)) \in Nat
         /\ Cardinality(Holders(s)) = 0 <=> Holders(s) = {}
<1>1. IsFiniteSet(Threads)
  BY SourcesAssumption, FS_Union DEF Threads
<1>2. IsFiniteSet(Threads \cup {Main})
  BY <1>1, FS_AddElement
<1>3. Holders(s) \in SUBSET (Threads \cup {Main})
  BY DEF Holders
<1>4. IsFiniteSet(Holders(s))
  BY <1>2, <1>3, FS_Subset
<1> QED
  BY <1>4, FS_CardinalityType, FS_EmptySet

(* A step of one agent changes the holders of a source by that agent.      *)
LEMMA HoldersStep ==
  ASSUME NEW t \in Agents, OthersKeep(t), NEW s \in Sources
  PROVE  /\ t \in Holders(s) <=> Pinned(t) = s
         /\ Pinned(t)' = s => Holders(s)' = Holders(s) \cup {t}
         /\ Pinned(t)' # s => Holders(s)' = Holders(s) \ {t}
BY DEF Holders, OthersKeep, Agents

(* Where all pins stay so do the holders.                                  *)
LEMMA HoldersStay ==
  ASSUME PinsStay, NEW s \in Sources
  PROVE  Holders(s)' = Holders(s)
BY DEF Holders, PinsStay, Agents

(* ... and so their number, by one at most.                                *)
LEMMA HoldersCount ==
  ASSUME NEW t \in Agents, OthersKeep(t), NEW s \in Sources
  PROVE  LET n == Cardinality(Holders(s)) IN
         /\ Pinned(t) = s /\ Pinned(t)' # s
              => n # 0 /\ Cardinality(Holders(s)') = n - 1
         /\ Pinned(t) # s /\ Pinned(t)' = s => Cardinality(Holders(s)') = n + 1
         /\ Pinned(t) # s /\ Pinned(t)' # s => Holders(s)' = Holders(s)
<1>1. CASE Pinned(t)' = s
  <2>1. Holders(s)' = Holders(s) \cup {t}
    BY <1>1, HoldersStep
  <2>2. IsFiniteSet(Holders(s))
    BY HoldersFinite
  <2>3. t \notin Holders(s)
          => Cardinality(Holders(s) \cup {t}) = Cardinality(Holders(s)) + 1
    BY <2>2, FS_AddElement
  <2> QED
    BY <1>1, <2>1, <2>3, HoldersStep
<1>2. CASE Pinned(t)' # s
  <2>1. Holders(s)' = Holders(s) \ {t}
    BY <1>2, HoldersStep
  <2>2. IsFiniteSet(Holders(s))
    BY HoldersFinite
  <2>3. t \in Holders(s)
          => Cardinality(Holders(s) \ {t}) = Cardinality(Holders(s)) - 1
    BY <2>2, FS_RemoveElement
  <2>4. t \in Holders(s) => Cardinality(Holders(s)) # 0
    BY HoldersFinite
  <2>5. t \notin Holders(s) => Holders(s)' = Holders(s)
    BY <2>1
  <2> QED
    BY <1>2, <2>1, <2>3, <2>4, <2>5, HoldersStep
<1> QED
  BY <1>1, <1>2

(* What the invariant says of one source: n is its count, H the holders.   *)
Balanced(s, n, H) ==
  /\ s \notin robbed => n >= Cardinality(H)
  /\ s \notin kept => n <= Cardinality(H)
  /\ s \in kept /\ s \notin robbed => n > Cardinality(H)

(* It is the part of the invariant about counts, source by source, ...     *)
LEMMA BalancedPins ==
  ASSUME TypeOK
  PROVE  PinsCounted /\ KeptCounted
           <=> \A s \in Sources : Balanced(s, ulQueryLocks[s], Holders(s))
BY DEF TypeOK, PinsCounted, KeptCounted, Balanced

(* ... after a step as well as before it.                                  *)
LEMMA AllBalanced ==
  ASSUME TypeOK', \A s \in Sources : Balanced(s, ulQueryLocks[s], Holders(s))'
  PROVE  PinsCounted' /\ KeptCounted'
BY DEF TypeOK, PinsCounted, KeptCounted, Balanced

(* A linked source is one, and in memory.                                  *)
LEMMA LinkedIs ==
  ASSUME ListInv, NEW s \in linked
  PROVE  TypeOK /\ s \in Sources /\ s # NoSource /\ Alive(s) /\ ulQueryLocks[s] \in Nat
<1>1. TypeOK /\ Alive(s)
  BY DEF ListInv, ListSound
<1>2. s \in Sources /\ ulQueryLocks[s] \in Nat
  BY <1>1 DEF TypeOK
<1>3. s # NoSource
  BY <1>2, SourcesAssumption DEF Sources, NoSource
<1> QED
  BY <1>1, <1>2, <1>3

(* The sources a step does not concern stay balanced.                      *)
LEMMA OthersBalanced ==
  ASSUME PinInv, TypeOK, TypeOK', NEW r \in Sources, Holders(r)' = Holders(r),
         ulQueryLocks'[r] = ulQueryLocks[r],
         r \in kept' <=> r \in kept, r \in robbed' <=> r \in robbed
  PROVE  Balanced(r, ulQueryLocks[r], Holders(r))'
<1>1. Balanced(r, ulQueryLocks[r], Holders(r))
  BY BalancedPins DEF PinInv
<1> QED
  BY <1>1 DEF Balanced

(* A query pins a linked source and counts the pin.                        *)
LEMMA GainKeepsPins ==
  ASSUME ListInv, PinInv, TypeOK', NEW t \in Agents, NEW s \in linked, Queries(t, s)
  PROVE  PinInv'
<1>0. TypeOK /\ s \in Sources /\ s # NoSource /\ Alive(s)
  BY LinkedIs
<1>1. \A r \in Sources : ulQueryLocks'[r] = IF r = s THEN ulQueryLocks[s] + 1 ELSE ulQueryLocks[r]
  BY <1>0 DEF Queries, SourceQueryPtr, TypeOK
<1>2. ASSUME NEW r \in Sources, r # s PROVE Holders(r)' = Holders(r)
  <2>1. Pinned(t) # r /\ Pinned(t)' # r
    BY <1>2, SourcesAssumption DEF Queries, Sources, NoSource
  <2> QED
    BY <2>1, HoldersCount DEF Queries
<1>3. ASSUME NEW r \in Sources PROVE Balanced(r, ulQueryLocks[r], Holders(r))'
  <2>1. CASE r # s
    BY <1>0, <1>1, <1>2, <2>1, OthersBalanced DEF Queries
  <2>2. CASE r = s
    <3> DEFINE n == Cardinality(Holders(s))
    <3>1. Balanced(s, ulQueryLocks[s], Holders(s)) /\ ulQueryLocks[s] \in Nat /\ n \in Nat
      BY <1>0, BalancedPins, HoldersFinite DEF PinInv, TypeOK
    <3>2. Cardinality(Holders(s)') = n + 1
      BY <1>0, HoldersCount DEF Queries
    <3>3. ulQueryLocks'[s] = ulQueryLocks[s] + 1
      BY <1>0, <1>1
    <3>4. Balanced(s, ulQueryLocks[s], Holders(s))'
      BY <3>1, <3>2, <3>3 DEF Balanced, Queries
    <3> QED
      BY <2>2, <3>4
  <2> QED
    BY <2>1, <2>2
<1>4. PinsCounted' /\ KeptCounted'
  BY <1>3, AllBalanced
<1>5. PinnedAlive'
  BY <1>0, <1>2 DEF PinInv, PinnedAlive, Alive, Queries
<1>6. Draining'
  <2> SUFFICES ASSUME NEW r \in 1..created, r \notin linked, r \notin freed
               PROVE  ulQueryLocks'[r] # 0
    BY DEF Draining, Queries
  <2>1. r \in Sources /\ r # s /\ ulQueryLocks[r] # 0
    BY <1>0, AllocatedIsSource DEF PinInv, Draining
  <2> QED
    BY <1>1, <2>1
<1> QED
  BY <1>4, <1>5, <1>6 DEF PinInv

(* The status page queries a source it has pinned already: the count then  *)
(* runs ahead for ever.                                                    *)
LEMMA AgainKeepsPins ==
  ASSUME ListInv, PinInv, TypeOK', NEW t \in Agents, NEW s \in linked, QueriesAgain(t, s)
  PROVE  PinInv'
<1>0. TypeOK /\ s \in Sources /\ ulQueryLocks[s] \in Nat
  BY LinkedIs
<1>1. \A r \in Sources : ulQueryLocks'[r] = IF r = s THEN ulQueryLocks[s] + 1 ELSE ulQueryLocks[r]
  BY <1>0 DEF QueriesAgain, SourceQueryPtr, TypeOK
<1>2. ASSUME NEW r \in Sources PROVE Holders(r)' = Holders(r)
  BY HoldersStay DEF QueriesAgain
<1>3. ASSUME NEW r \in Sources PROVE Balanced(r, ulQueryLocks[r], Holders(r))'
  <2>1. CASE r # s
    BY <1>0, <1>1, <1>2, <2>1, OthersBalanced DEF QueriesAgain
  <2>2. CASE r = s
    <3> DEFINE n == Cardinality(Holders(s))
    <3>1. /\ s \notin robbed => ulQueryLocks[s] >= n
          /\ ulQueryLocks[s] \in Nat /\ n \in Nat
      BY <1>0, BalancedPins, HoldersFinite DEF PinInv, Balanced
    <3>2. Cardinality(Holders(s)') = n
      BY <1>0, <1>2
    <3>3. ulQueryLocks'[s] = ulQueryLocks[s] + 1 /\ s \in kept' /\ robbed' = robbed
      BY <1>0, <1>1 DEF QueriesAgain
    <3> HIDE DEF n
    <3>4. Balanced(s, ulQueryLocks[s], Holders(s))'
      BY <3>1, <3>2, <3>3 DEF Balanced
    <3> QED
      BY <2>2, <3>4
  <2> QED
    BY <2>1, <2>2
<1>4. PinsCounted' /\ KeptCounted'
  BY <1>3, AllBalanced
<1>5. PinnedAlive'
  BY <1>2 DEF PinInv, PinnedAlive, Alive, QueriesAgain
<1>6. Draining'
  <2> SUFFICES ASSUME NEW r \in 1..created, r \notin linked, r \notin freed
               PROVE  ulQueryLocks'[r] # 0
    BY DEF Draining, QueriesAgain
  <2>1. r \in Sources /\ r # s /\ ulQueryLocks[r] # 0
    BY <1>0, AllocatedIsSource DEF PinInv, Draining
  <2> QED
    BY <1>1, <2>1
<1> QED
  BY <1>4, <1>5, <1>6 DEF PinInv

(* What a release does to the count and the heap; one of an unlinked       *)
(* source leaves a count or no source.                                     *)
LEMMA ReleaseEffect ==
  ASSUME TypeOK, Draining, NEW s \in Sources, SourceRelease(s), UNCHANGED <<linked, created>>
  PROVE  /\ \A r \in Sources : r # s => ulQueryLocks'[r] = ulQueryLocks[r]
         /\ ulQueryLocks[s] = 0 => ulQueryLocks'[s] = 0
         /\ ulQueryLocks[s] # 0 => ulQueryLocks'[s] = ulQueryLocks[s] - 1
         /\ \A r : r # s => (r \in freed' <=> r \in freed)
         /\ ulQueryLocks[s] # 1 => freed' = freed
         /\ ulQueryLocks[s] = 1 => freed' = IF s \in linked THEN freed ELSE freed \cup {s}
         /\ Draining'
<1>1. \A r \in Sources : ulQueryLocks[r] \in Nat
  BY DEF TypeOK
<1>2. \A r \in Sources :
        ulQueryLocks'[r] = IF r = s THEN IF ulQueryLocks[s] > 0 THEN ulQueryLocks[s] - 1 ELSE 0
                                    ELSE ulQueryLocks[r]
  BY DEF SourceRelease, TypeOK
<1>3. freed' = IF ulQueryLocks[s] = 1 /\ s \notin linked THEN freed \cup {s} ELSE freed
  BY DEF SourceRelease
<1>4. Draining'
  <2> SUFFICES ASSUME NEW r \in 1..created, r \notin linked, r \notin freed'
               PROVE  ulQueryLocks'[r] # 0
    BY DEF Draining
  <2>1. r \in Sources /\ r \notin freed /\ ulQueryLocks[r] # 0
    BY <1>3, AllocatedIsSource DEF Draining
  <2> QED
    BY <1>1, <1>2, <1>3, <2>1
<1> QED
  BY <1>1, <1>2, <1>3, <1>4

(* A release gives the pin back; if it frees the source nobody else has a  *)
(* pin on it.                                                              *)
LEMMA LoseKeepsPins ==
  ASSUME ListInv, PinInv, TypeOK', NEW t \in Agents, NEW s \in Sources, Releases(t, s)
  PROVE  PinInv'
<1>0. /\ TypeOK /\ Draining /\ SourceRelease(s) /\ UNCHANGED <<linked, created, kept, robbed>>
      /\ OthersKeep(t) /\ Pinned(t) = s /\ Pinned(t)' = NoSource /\ s # NoSource
  BY SourcesAssumption DEF ListInv, PinInv, Releases, Sources, NoSource
<1>1. /\ \A r \in Sources : r # s => ulQueryLocks'[r] = ulQueryLocks[r]
      /\ ulQueryLocks[s] = 0 => ulQueryLocks'[s] = 0
      /\ ulQueryLocks[s] # 0 => ulQueryLocks'[s] = ulQueryLocks[s] - 1
      /\ \A r : r # s => (r \in freed' <=> r \in freed)
      /\ ulQueryLocks[s] # 1 => freed' = freed
      /\ Draining'
  BY <1>0, ReleaseEffect
<1>2. ASSUME NEW r \in Sources, r # s PROVE Holders(r)' = Holders(r)
  <2>1. Pinned(t) # r /\ Pinned(t)' # r
    BY <1>0, <1>2, SourcesAssumption DEF Sources, NoSource
  <2> QED
    BY <1>0, <2>1, HoldersCount
<1> DEFINE n == Cardinality(Holders(s))
<1>3. /\ Balanced(s, ulQueryLocks[s], Holders(s)) /\ ulQueryLocks[s] \in Nat
      /\ n \in Nat /\ n # 0 /\ Cardinality(Holders(s)') = n - 1
  BY <1>0, BalancedPins, HoldersFinite, HoldersCount DEF PinInv, TypeOK
<1>4. ASSUME NEW r \in Sources PROVE Balanced(r, ulQueryLocks[r], Holders(r))'
  <2>1. CASE r # s
    BY <1>0, <1>1, <1>2, <2>1, OthersBalanced
  <2>2. CASE r = s
    <3>1. Balanced(s, ulQueryLocks[s], Holders(s))'
      BY <1>0, <1>1, <1>3 DEF Balanced
    <3> QED
      BY <2>2, <3>1
  <2> QED
    BY <2>1, <2>2
<1>5. PinsCounted' /\ KeptCounted'
  BY <1>4, AllBalanced
<1>6. PinnedAlive'
  <2> SUFFICES ASSUME NEW r \in Sources, Holders(r)' # {}, r \notin robbed
               PROVE  r \in 1..created /\ r \notin freed'
    BY <1>0 DEF PinnedAlive, Alive
  <2>1. CASE r # s
    BY <1>1, <1>2, <2>1 DEF PinInv, PinnedAlive, Alive
  <2>2. CASE r = s
    <3>1. Holders(s) # {} /\ Alive(s)
      BY <1>0, <2>2, HoldersStep DEF PinInv, PinnedAlive
    <3>2. Cardinality(Holders(s)') # 0
      <4>1. IsFiniteSet(Holders(s) \ {t}) /\ Holders(s)' = Holders(s) \ {t}
        BY <1>0, HoldersStep, HoldersFinite, FS_RemoveElement
      <4> QED
        BY <2>2, <4>1, FS_EmptySet
    <3>3. ulQueryLocks[s] # 1
      BY <1>3, <2>2, <3>2 DEF Balanced
    <3> QED
      BY <1>1, <2>2, <3>1, <3>3 DEF Alive
  <2> QED
    BY <2>1, <2>2
<1> QED
  BY <1>1, <1>5, <1>6 DEF PinInv

(* A pin that is forgotten is not given back: the count still covers the   *)
(* rest, and runs ahead.                                                   *)
LEMMA ForgetKeepsPins ==
  ASSUME ListInv, PinInv, TypeOK', NEW t \in Agents, NEW s \in Sources, Forgets(t, s)
  PROVE  PinInv'
<1>0. /\ TypeOK /\ UNCHANGED <<linked, created, freed, ulQueryLocks, robbed>>
      /\ OthersKeep(t) /\ Pinned(t) = s /\ Pinned(t)' = NoSource /\ s # NoSource
      /\ kept' = kept \cup {s}
  BY SourcesAssumption DEF ListInv, Forgets, Sources, NoSource
<1>1. ASSUME NEW r \in Sources, r # s PROVE Holders(r)' = Holders(r)
  <2>1. Pinned(t) # r /\ Pinned(t)' # r
    BY <1>0, <1>1, SourcesAssumption DEF Sources, NoSource
  <2> QED
    BY <1>0, <2>1, HoldersCount
<1>2. ASSUME NEW r \in Sources PROVE Balanced(r, ulQueryLocks[r], Holders(r))'
  <2>1. CASE r # s
    BY <1>0, <1>1, <2>1, OthersBalanced
  <2>2. CASE r = s
    <3> DEFINE n == Cardinality(Holders(s))
    <3>1. /\ s \notin robbed => ulQueryLocks[s] >= n
          /\ ulQueryLocks[s] \in Nat /\ n \in Nat /\ n # 0
          /\ Cardinality(Holders(s)') = n - 1
      BY <1>0, BalancedPins, HoldersFinite, HoldersCount DEF PinInv, TypeOK, Balanced
    <3> HIDE DEF n
    <3>2. Balanced(s, ulQueryLocks[s], Holders(s))'
      BY <1>0, <3>1 DEF Balanced
    <3> QED
      BY <2>2, <3>2
  <2> QED
    BY <2>1, <2>2
<1>3. PinsCounted' /\ KeptCounted'
  BY <1>2, AllBalanced
<1>4. PinnedAlive'
  <2>1. \A r \in Sources : Holders(r)' \subseteq Holders(r)
    BY <1>0, <1>1, HoldersStep
  <2> QED
    BY <1>0, <2>1 DEF PinInv, PinnedAlive, Alive
<1>5. Draining'
  BY <1>0 DEF PinInv, Draining
<1> QED
  BY <1>3, <1>4, <1>5 DEF PinInv

(* The collector takes a pin of others: nothing more is said of them, but  *)
(* nothing is said wrongly of the rest.                                    *)
LEMMA RobKeepsPins ==
  ASSUME ListInv, PinInv, TypeOK', NEW s \in Sources, Robs(s)
  PROVE  PinInv'
<1>0. /\ TypeOK /\ Draining /\ SourceRelease(s) /\ UNCHANGED <<linked, created, kept>>
      /\ robbed' = robbed \cup {s}
  BY DEF ListInv, PinInv, Robs
<1>1. /\ \A r \in Sources : r # s => ulQueryLocks'[r] = ulQueryLocks[r]
      /\ ulQueryLocks[s] = 0 => ulQueryLocks'[s] = 0
      /\ ulQueryLocks[s] # 0 => ulQueryLocks'[s] = ulQueryLocks[s] - 1
      /\ \A r : r # s => (r \in freed' <=> r \in freed)
      /\ Draining'
  BY <1>0, ReleaseEffect
<1>2. ASSUME NEW r \in Sources PROVE Holders(r)' = Holders(r)
  BY HoldersStay DEF Robs
<1>3. ASSUME NEW r \in Sources PROVE Balanced(r, ulQueryLocks[r], Holders(r))'
  <2>1. CASE r # s
    BY <1>0, <1>1, <1>2, <2>1, OthersBalanced
  <2>2. CASE r = s
    <3> DEFINE n == Cardinality(Holders(s))
    <3>1. /\ s \notin kept => ulQueryLocks[s] <= n
          /\ ulQueryLocks[s] \in Nat /\ n \in Nat
      BY <1>0, BalancedPins, HoldersFinite DEF PinInv, TypeOK, Balanced
    <3>2. Cardinality(Holders(s)') = n /\ s \in robbed'
      BY <1>0, <1>2
    <3> HIDE DEF n
    <3>3. Balanced(s, ulQueryLocks[s], Holders(s))'
      BY <1>0, <1>1, <3>1, <3>2 DEF Balanced
    <3> QED
      BY <2>2, <3>3
  <2> QED
    BY <2>1, <2>2
<1>4. PinsCounted' /\ KeptCounted'
  BY <1>3, AllBalanced
<1>5. PinnedAlive'
  BY <1>0, <1>1, <1>2 DEF PinInv, PinnedAlive, Alive
<1> QED
  BY <1>1, <1>4, <1>5 DEF PinInv

(* A step that leaves every pin where it is, and frees nothing.            *)
LEMMA SamePins ==
  ASSUME ListInv, PinInv, TypeOK', Quiet \/ Inserts
  PROVE  PinInv'
<1>0. TypeOK /\ created \in Nat
  BY DEF ListInv, TypeOK
<1>1. UNCHANGED <<freed, ulQueryLocks, kept, robbed>> /\ created' \in {created, created + 1}
  BY DEF Quiet, Inserts
<1>2. ASSUME NEW r \in Sources PROVE Holders(r)' = Holders(r)
  BY HoldersStay DEF Quiet, Inserts
<1>3. ASSUME NEW r \in Sources PROVE Balanced(r, ulQueryLocks[r], Holders(r))'
  BY <1>0, <1>1, <1>2, OthersBalanced
<1>4. PinsCounted' /\ KeptCounted'
  BY <1>3, AllBalanced
<1>5. PinnedAlive'
  <2>1. 1..created \subseteq 1..created'
    BY <1>0, <1>1
  <2> QED
    BY <1>1, <1>2, <2>1 DEF PinInv, PinnedAlive, Alive
<1>6. Draining'
  <2> SUFFICES ASSUME NEW r \in 1..created', r \notin linked', r \notin freed
               PROVE  ulQueryLocks[r] # 0
    BY <1>1 DEF Draining
  <2>1. r \in 1..created /\ r \notin linked
    BY <1>0 DEF Quiet, Inserts
  <2> QED
    BY <2>1 DEF PinInv, Draining
<1> QED
  BY <1>4, <1>5, <1>6 DEF PinInv

(* Unlinking a source frees it only if nobody has it pinned.               *)
LEMMA UnlinkKeepsPins ==
  ASSUME ListInv, PinInv, TypeOK', NEW s \in linked, Ends(s)
  PROVE  PinInv'
<1>0. /\ TypeOK /\ s \in Sources /\ ulQueryLocks[s] \in Nat
      /\ UNCHANGED <<created, ulQueryLocks, kept, robbed>> /\ SourceUnlink(s)
  BY LinkedIs DEF Ends
<1>1. ASSUME NEW r \in Sources PROVE Holders(r)' = Holders(r)
  BY HoldersStay DEF Ends
<1>2. ASSUME NEW r \in Sources PROVE Balanced(r, ulQueryLocks[r], Holders(r))'
  BY <1>0, <1>1, OthersBalanced
<1>3. PinsCounted' /\ KeptCounted'
  BY <1>2, AllBalanced
<1>4. PinnedAlive'
  <2>1. s \notin robbed /\ Holders(s) # {} => ulQueryLocks[s] # 0
    BY <1>0, BalancedPins, HoldersFinite DEF PinInv, Balanced
  <2> QED
    BY <1>0, <1>1, <2>1 DEF PinInv, PinnedAlive, Alive, SourceUnlink
<1>5. Draining'
  BY <1>0 DEF PinInv, Draining, SourceUnlink
<1> QED
  BY <1>3, <1>4, <1>5 DEF PinInv

----------------------------------------------------------------------------
(* The invariant and what follows from it                                  *)

(* It holds at first: nobody holds anything.                               *)
LEMMA InitIInv == Init => IInv
<1> SUFFICES ASSUME Init PROVE IInv
  OBVIOUS
<1>1. ListInv
  BY InitListInv
<1>2. DetachedKnown
  BY DEF Init, DetachedKnown
<1>3. OwnerInv
  BY DEF Init, OwnerInv, Owned, OneOwner, Owning, Feeding, Threads
<1>4. ASSUME NEW s \in Sources
      PROVE  Holders(s) = {} /\ Cardinality(Holders(s)) = 0 /\ ulQueryLocks[s] = 0
  <2>1. \A t \in Threads : pc[t] \notin Pinning
    BY DEF Init, Pinning
  <2>2. gcpin # s
    BY SourcesAssumption DEF Init, Sources, NoSource
  <2>3. NoSource # s
    BY SourcesAssumption DEF Sources, NoSource
  <2>4. Holders(s) = {}
    BY <2>1, <2>2, <2>3 DEF Holders, Pinned
  <2> QED
    BY <2>4, FS_EmptySet DEF Init
<1>5. PinsCounted
  BY <1>4 DEF PinsCounted
<1>6. KeptCounted /\ Draining /\ PinnedAlive
  BY <1>4 DEF Init, KeptCounted, Draining, PinnedAlive
<1> QED
  BY <1>1, <1>2, <1>3, <1>5, <1>6 DEF IInv, PinInv

(* Every step keeps it.                                                    *)
LEMMA NextIInv == IInv /\ [Next]_vars => IInv'
<1> SUFFICES ASSUME IInv, [Next]_vars PROVE IInv'
  OBVIOUS
<1>1. ListInv /\ PinInv /\ ListInv' /\ DetachedKnown' /\ OwnerInv' /\ PinStep
  BY NextListInv, NextDetached, NextOwnerInv, StepKind DEF IInv, PinInv
<1>2. TypeOK /\ TypeOK'
  BY <1>1 DEF ListInv
<1>3. PinInv'
  BY <1>1, <1>2, GainKeepsPins, AgainKeepsPins, LoseKeepsPins, ForgetKeepsPins,
     RobKeepsPins, SamePins, UnlinkKeepsPins DEF PinStep
<1> QED
  BY <1>1, <1>3 DEF IInv

(* So it holds in every state.                                             *)
LEMMA Inductive == Spec => []IInv
  BY InitIInv, NextIInv, PTL DEF Spec

(* No thread ever touches a source that was freed, pinned or not, unless   *)
(* the collector took its pin, or took the source from its owner, or the   *)
(* owner took it over too late.                                            *)
THEOREM NothingInUseIsFreed == Spec => []UseAlive
<1>1. ASSUME IInv PROVE UseAlive
  <2>1. \A s \in Sources : Holders(s) # {} => Alive(s) \/ s \in robbed
    BY <1>1 DEF IInv, PinInv, PinnedAlive
  <2>2. ASSUME NEW o \in Owners, pc[o] \in {"owning", "closing"}
        PROVE  Alive(ref[o]) \/ ref[o] \in contested
    BY <1>1, <2>2 DEF IInv, OwnerInv, Owned, Owning, Feeding, ListInv, ListSound
  <2> QED
    BY <2>1, <2>2 DEF UseAlive
<1> QED
  BY <1>1, Inductive, PTL

(* Every source that is fed can be found, unless it was contested, ...     *)
THEOREM FedSourcesAreFound == Spec => []OwnedLinked
<1>1. IInv => OwnedLinked
  BY DEF IInv, OwnerInv, Owned, Owning, OwnedLinked
<1> QED
  BY <1>1, Inductive, PTL

(* ... the count of a source covers the queries in progress, unless the    *)
(* collector took a pin from it, and is no more than they are unless one   *)
(* was never given back ...                                                *)
THEOREM CountCoversPins == Spec => []PinsCounted
<1>1. IInv => PinsCounted
  BY DEF IInv, PinInv
<1> QED
  BY <1>1, Inductive, PTL

(* ... and every unlinked source is freed by the last one that leaves it,  *)
(* unless a pin of it is kept for ever.                                    *)
THEOREM NothingLeaks == Spec => []Destroyed
<1>1. IInv => Destroyed
  <2> SUFFICES ASSUME IInv, NEW s \in 1..created, s \notin linked, Holders(s) = {},
                      s \notin freed, s \notin kept
               PROVE  FALSE
    BY DEF Destroyed
  <2>1. s \in Sources /\ ulQueryLocks[s] \in Nat
    BY AllocatedIsSource DEF IInv, ListInv, TypeOK
  <2>2. ulQueryLocks[s] <= Cardinality(Holders(s))
    BY <2>1 DEF IInv, PinInv, PinsCounted
  <2>3. ulQueryLocks[s] # 0
    BY DEF IInv, PinInv, Draining
  <2> QED
    BY <2>1, <2>2, <2>3, HoldersFinite
<1> QED
  BY <1>1, Inductive, PTL

----------------------------------------------------------------------------
(* The promise of SourceLife                                               *)

(* The stage of a source, by the list, the heap and the history.           *)
LEMMA StageOf ==
  ASSUME ListInv, NEW s \in Sources, s \notin robbed
  PROVE  /\ s \in linked => Stage(s) = "open"
         /\ s \in 1..created /\ s \notin linked /\ s \notin freed => Stage(s) = "closing"
         /\ s \notin 1..created => Stage(s) = "absent"
         /\ s \in freed => Stage(s) = "gone"
<1>1. created \in Nat /\ \A r \in Sources : r \in Nat /\ r # 0
  BY SourcesAssumption DEF ListInv, TypeOK, Sources
<1>2. s \in 1..created <=> ~(s > created)
  BY <1>1
<1>3. /\ s \in linked => s \in 1..created /\ s \notin freed
      /\ s \in freed => s \in 1..created
  BY DEF ListInv, ListSound, Known, Alive
<1> QED
  BY <1>2, <1>3 DEF Stage

(* A step that leaves a source where it is does not change its stage ...   *)
LEMMA SameStage ==
  ASSUME NEW s \in Sources, UNCHANGED created, s \in linked' <=> s \in linked,
         s \in freed' <=> s \in freed, s \in robbed' <=> s \in robbed
  PROVE  Stage(s)' = Stage(s)
BY DEF Stage

(* ... nor are its acquirers changed.                                      *)
LEMMA SameAcquirers ==
  ASSUME NEW s \in Sources, Holders(s)' = Holders(s), s \in kept' <=> s \in kept,
         s \in robbed' <=> s \in robbed
  PROVE  Acquirers(s)' = Acquirers(s)
BY DEF Acquirers

(* What the promise sees of a step: life and holders of every source.      *)
LifeAt(s, l, H) ==
  /\ \A r \in Sources : r # s => Stage(r)' = Stage(r) /\ Acquirers(r)' = Acquirers(r)
  /\ Stage(s)' = l /\ Acquirers(s)' = H

(* It is not seen if it changes nothing of that.                           *)
LEMMA UnseenAt ==
  ASSUME NEW s \in Sources, LifeAt(s, Stage(s), Acquirers(s))
  PROVE  UNCHANGED Life!lifeVars
BY DEF LifeAt, Life!lifeVars

(* A query that pins a linked source, by whom it is held from then on.     *)
LEMMA AcquireStep ==
  ASSUME ListInv, NEW s \in linked, s \notin robbed, NEW a \in Agents \cup {Nobody},
         a \notin Acquirers(s), LifeAt(s, Stage(s), Acquirers(s) \cup {a})
  PROVE  Life!Next
<1>1. s \in Sources /\ Stage(s) = "open"
  BY LinkedIs, StageOf
<1>2. Life!Acquire(a, s)
  BY <1>1 DEF LifeAt, Life!Acquire
<1> QED
  BY <1>1, <1>2 DEF Life!Next, Agents

(* So a query is one, ...                                                  *)
LEMMA GainSeen ==
  ASSUME ListInv, NEW t \in Agents, NEW s \in linked, Queries(t, s)
  PROVE  [Life!Next]_(Life!lifeVars)
<1>1. /\ s \in Sources /\ s # NoSource /\ UNCHANGED <<linked, created, freed, kept, robbed>>
      /\ Nobody # t
  BY LinkedIs, SourcesAssumption DEF Queries, Agents, Threads
<1>2. ASSUME NEW r \in Sources, r # s PROVE Holders(r)' = Holders(r)
  <2>1. Pinned(t) # r /\ Pinned(t)' # r
    BY <1>2, SourcesAssumption DEF Queries, Sources, NoSource
  <2> QED
    BY <2>1, HoldersCount DEF Queries
<1>3. t \notin Holders(s) /\ Holders(s)' = Holders(s) \cup {t}
  BY <1>1, HoldersStep DEF Queries
<1>4. /\ \A r \in Sources : r # s => Stage(r)' = Stage(r) /\ Acquirers(r)' = Acquirers(r)
      /\ Stage(s)' = Stage(s)
  BY <1>1, <1>2, SameStage, SameAcquirers
<1>5. CASE s \in robbed
  <2>1. LifeAt(s, Stage(s), Acquirers(s))
    BY <1>1, <1>4, <1>5 DEF LifeAt, Acquirers
  <2> QED
    BY <1>1, <2>1, UnseenAt
<1>6. CASE s \notin robbed
  <2>1. LifeAt(s, Stage(s), Acquirers(s) \cup {t}) /\ t \notin Acquirers(s)
    BY <1>1, <1>3, <1>4, <1>6 DEF LifeAt, Acquirers
  <2> QED
    BY <1>6, <2>1, AcquireStep
<1> QED
  BY <1>5, <1>6

(* One that pins a source for nobody.                                      *)
LEMMA AgainSeen ==
  ASSUME ListInv, NEW t \in Agents, NEW s \in linked, QueriesAgain(t, s)
  PROVE  [Life!Next]_(Life!lifeVars)
<1>1. /\ s \in Sources /\ UNCHANGED <<linked, created, freed, robbed>>
      /\ kept' = kept \cup {s}
  BY LinkedIs DEF QueriesAgain
<1>2. \A r \in Sources : Holders(r)' = Holders(r)
  BY HoldersStay DEF QueriesAgain
<1>3. /\ \A r \in Sources : r # s => Stage(r)' = Stage(r) /\ Acquirers(r)' = Acquirers(r)
      /\ Stage(s)' = Stage(s)
  BY <1>1, <1>2, SameStage, SameAcquirers
<1>4. CASE s \in robbed \/ s \in kept
  <2>1. LifeAt(s, Stage(s), Acquirers(s))
    BY <1>1, <1>2, <1>3, <1>4 DEF LifeAt, Acquirers
  <2> QED
    BY <1>1, <2>1, UnseenAt
<1>5. CASE s \notin robbed /\ s \notin kept
  <2>1. LifeAt(s, Stage(s), Acquirers(s) \cup {Nobody}) /\ Nobody \notin Acquirers(s)
    BY <1>1, <1>2, <1>3, <1>5, SourcesAssumption DEF LifeAt, Acquirers, Holders, Threads
  <2> QED
    BY <1>5, <2>1, AcquireStep
<1> QED
  BY <1>4, <1>5

(* A release frees a closed source exactly when its last holder leaves.    *)
LEMMA LoseSeen ==
  ASSUME ListInv, PinInv, NEW t \in Agents, NEW s \in Sources, Releases(t, s)
  PROVE  [Life!Next]_(Life!lifeVars)
<1>0. /\ TypeOK /\ Draining /\ SourceRelease(s) /\ UNCHANGED <<linked, created, kept, robbed>>
      /\ OthersKeep(t) /\ Pinned(t) = s /\ Pinned(t)' = NoSource /\ s # NoSource
      /\ Nobody # t /\ s \in 1..created /\ s \notin freed
  BY SourcesAssumption
     DEF ListInv, PinInv, Releases, Sources, NoSource, Agents, Threads, Alive
<1>1. /\ \A r : r # s => (r \in freed' <=> r \in freed)
      /\ ulQueryLocks[s] # 1 => freed' = freed
      /\ ulQueryLocks[s] = 1 => freed' = IF s \in linked THEN freed ELSE freed \cup {s}
  BY <1>0, ReleaseEffect
<1>2. ASSUME NEW r \in Sources, r # s PROVE Holders(r)' = Holders(r)
  <2>1. Pinned(t) # r /\ Pinned(t)' # r
    BY <1>0, <1>2, SourcesAssumption DEF Sources, NoSource
  <2> QED
    BY <1>0, <2>1, HoldersCount
<1>3. t \in Holders(s) /\ Holders(s)' = Holders(s) \ {t}
  BY <1>0, HoldersStep
<1>4. \A r \in Sources : r # s => Stage(r)' = Stage(r) /\ Acquirers(r)' = Acquirers(r)
  BY <1>0, <1>1, <1>2, SameStage, SameAcquirers
<1>5. CASE s \in robbed
  <2>1. LifeAt(s, Stage(s), Acquirers(s))
    BY <1>0, <1>4, <1>5 DEF LifeAt, Stage, Acquirers
  <2> QED
    BY <2>1, UnseenAt
<1>6. CASE s \notin robbed
  <2>1. ulQueryLocks[s] = 1 <=> Acquirers(s) = {t}
    <3>1. /\ ulQueryLocks[s] >= Cardinality(Holders(s))
          /\ s \notin kept => ulQueryLocks[s] <= Cardinality(Holders(s))
          /\ s \in kept => ulQueryLocks[s] > Cardinality(Holders(s))
          /\ ulQueryLocks[s] \in Nat /\ Cardinality(Holders(s)) \in Nat
          /\ IsFiniteSet(Holders(s)) /\ Cardinality(Holders(s)) # 0
      BY <1>0, <1>3, <1>6, BalancedPins, HoldersFinite DEF PinInv, Balanced, TypeOK
    <3>2. CASE s \in kept
      <4>1. Nobody \in Acquirers(s)
        BY <1>6, <3>2 DEF Acquirers
      <4> QED
        BY <1>0, <3>1, <3>2, <4>1
    <3>3. CASE s \notin kept
      <4>1. ulQueryLocks[s] = Cardinality(Holders(s)) /\ Acquirers(s) = Holders(s)
        BY <1>6, <3>1, <3>3 DEF Acquirers
      <4>2. Cardinality(Holders(s)) = 1 => Holders(s) = {t}
        <5> SUFFICES ASSUME Cardinality(Holders(s)) = 1 PROVE Holders(s) = {t}
          OBVIOUS
        <5>1. PICK x : Holders(s) = {x}
          BY <3>1, FS_Singleton
        <5> QED
          BY <1>3, <5>1
      <4>3. Cardinality({t}) = 1
        BY FS_Singleton
      <4> QED
        BY <4>1, <4>2, <4>3
    <3> QED
      BY <3>2, <3>3
  <2>2. Stage(s) = IF s \in linked THEN "open" ELSE "closing"
    BY <1>0, <1>6, StageOf
  <2>3. ~(s > created)
    BY <1>0 DEF TypeOK
  <2>4. Stage(s)' = IF s \in freed' THEN "gone" ELSE IF s \in linked THEN "open" ELSE "closing"
    BY <1>0, <1>6, <2>3 DEF Stage
  <2> DEFINE l == IF Stage(s) = "closing" /\ Acquirers(s) = {t} THEN "gone" ELSE Stage(s)
  <2>5. Stage(s)' = l
    BY <1>0, <1>1, <2>1, <2>2, <2>4
  <2>6. Acquirers(s)' = Acquirers(s) \ {t} /\ t \in Acquirers(s)
    BY <1>0, <1>3, <1>6 DEF Acquirers
  <2>7. LifeAt(s, l, Acquirers(s) \ {t})
    BY <1>4, <2>5, <2>6 DEF LifeAt
  <2>8. Life!Release(t, s)
    BY <2>6, <2>7 DEF LifeAt, Life!Release
  <2> QED
    BY <1>0, <2>6, <2>8 DEF Life!Next
<1> QED
  BY <1>5, <1>6

(* What is not given back is left to nobody.                               *)
LEMMA ForgetSeen ==
  ASSUME ListInv, NEW t \in Agents, NEW s \in Sources, Forgets(t, s)
  PROVE  [Life!Next]_(Life!lifeVars)
<1>0. /\ UNCHANGED <<linked, created, freed, robbed>> /\ kept' = kept \cup {s}
      /\ OthersKeep(t) /\ Pinned(t) = s /\ Pinned(t)' = NoSource /\ s # NoSource
      /\ Nobody # t
  BY SourcesAssumption DEF Forgets, Sources, NoSource, Agents, Threads
<1>1. ASSUME NEW r \in Sources, r # s PROVE Holders(r)' = Holders(r)
  <2>1. Pinned(t) # r /\ Pinned(t)' # r
    BY <1>0, <1>1, SourcesAssumption DEF Sources, NoSource
  <2> QED
    BY <1>0, <2>1, HoldersCount
<1>2. t \in Holders(s) /\ Holders(s)' = Holders(s) \ {t}
  BY <1>0, HoldersStep
<1>3. /\ \A r \in Sources : r # s => Stage(r)' = Stage(r) /\ Acquirers(r)' = Acquirers(r)
      /\ Stage(s)' = Stage(s)
  BY <1>0, <1>1, SameStage, SameAcquirers
<1>4. CASE s \in robbed
  <2>1. LifeAt(s, Stage(s), Acquirers(s))
    BY <1>0, <1>3, <1>4 DEF LifeAt, Acquirers
  <2> QED
    BY <2>1, UnseenAt
<1>5. CASE s \notin robbed
  <2>1. t \in Acquirers(s) /\ Acquirers(s)' = (Acquirers(s) \ {t}) \cup {Nobody}
    BY <1>0, <1>2, <1>5 DEF Acquirers
  <2>2. LifeAt(s, Stage(s), (Acquirers(s) \ {t}) \cup {Nobody})
    BY <1>3, <2>1 DEF LifeAt
  <2>3. Life!Leave(t, s)
    BY <2>1, <2>2 DEF LifeAt, Life!Leave
  <2> QED
    BY <1>0, <2>1, <2>3 DEF Life!Next
<1> QED
  BY <1>4, <1>5

(* With the pins the collector takes the promise is void for the source.   *)
LEMMA RobSeen ==
  ASSUME ListInv, PinInv, NEW s \in Sources, Robs(s)
  PROVE  [Life!Next]_(Life!lifeVars)
<1>0. /\ TypeOK /\ Draining /\ SourceRelease(s) /\ UNCHANGED <<linked, created, kept>>
      /\ robbed' = robbed \cup {s} /\ s \in 1..created /\ s \notin freed
  BY DEF ListInv, PinInv, Robs, Alive
<1>1. \A r : r # s => (r \in freed' <=> r \in freed)
  BY <1>0, ReleaseEffect
<1>2. \A r \in Sources : Holders(r)' = Holders(r)
  BY HoldersStay DEF Robs
<1>3. \A r \in Sources : r # s => Stage(r)' = Stage(r) /\ Acquirers(r)' = Acquirers(r)
  BY <1>0, <1>1, <1>2, SameStage, SameAcquirers
<1>4. LifeAt(s, "void", {})
  BY <1>0, <1>3 DEF LifeAt, Stage, Acquirers
<1>5. CASE s \in robbed
  <2>1. LifeAt(s, Stage(s), Acquirers(s))
    BY <1>4, <1>5 DEF LifeAt, Stage, Acquirers
  <2> QED
    BY <2>1, UnseenAt
<1>6. CASE s \notin robbed
  <2>1. Stage(s) \in {"open", "closing"}
    BY <1>0, <1>6, StageOf
  <2>2. Life!Void(s)
    BY <1>4, <2>1 DEF LifeAt, Life!Void
  <2> QED
    BY <2>2 DEF Life!Next
<1> QED
  BY <1>5, <1>6

(* An insertion is an Open of the promise, ...                             *)
LEMMA OpenSeen ==
  ASSUME ListInv, TypeOK', Inserts
  PROVE  Life!Next
<1>0. PICK s \in Sources : s = created + 1
  BY DEF ListInv, Inserts, TypeOK, Sources
<1>1. /\ s \in Sources /\ s \notin 1..created /\ s > created /\ s \in Nat
      /\ created \in Nat
      /\ created' = s /\ linked' = linked \cup {s} /\ UNCHANGED <<freed, kept, robbed>>
  BY <1>0 DEF ListInv, Inserts, TypeOK
<1>2. s \notin freed /\ s \notin robbed
  BY <1>1 DEF ListInv, Known
<1>3. Stage(s) = "absent" /\ Stage(s)' = "open"
  <2>1. s > created /\ ~(s > created')
    BY <1>1
  <2>2. s \notin robbed' /\ s \notin freed' /\ s \in linked'
    BY <1>1, <1>2
  <2> QED
    BY <1>2, <2>1, <2>2 DEF Stage
<1>4. \A r \in Sources : Acquirers(r)' = Acquirers(r)
  BY <1>1, HoldersStay, SameAcquirers DEF Inserts
<1>5. ASSUME NEW r \in Sources, r # s PROVE Stage(r)' = Stage(r)
  <2>1. r \in Nat
    BY SourcesAssumption DEF Sources
  <2> QED
    BY <1>0, <1>1, <1>5, <2>1 DEF Stage
<1>6. LifeAt(s, "open", Acquirers(s))
  BY <1>1, <1>3, <1>4, <1>5 DEF LifeAt
<1>7. Life!Open(s)
  BY <1>1, <1>3, <1>6 DEF LifeAt, Life!Open
<1> QED
  BY <1>1, <1>7 DEF Life!Next

(* ... an end a Close.                                                     *)
LEMMA CloseSeen ==
  ASSUME ListInv, PinInv, NEW s \in linked, Ends(s)
  PROVE  [Life!Next]_(Life!lifeVars)
<1>0. /\ TypeOK /\ s \in Sources /\ ulQueryLocks[s] \in Nat /\ s \in 1..created
      /\ s \notin freed /\ UNCHANGED <<created, ulQueryLocks, kept, robbed>>
      /\ linked' = linked \ {s}
      /\ freed' = IF ulQueryLocks[s] = 0 THEN freed \cup {s} ELSE freed
  BY LinkedIs DEF Ends, SourceUnlink, Alive
<1>1. \A r \in Sources : Holders(r)' = Holders(r)
  BY HoldersStay DEF Ends
<1>2. \A r \in Sources : Acquirers(r)' = Acquirers(r)
  BY <1>0, <1>1, SameAcquirers
<1>3. ASSUME NEW r \in Sources, r # s PROVE Stage(r)' = Stage(r)
  BY <1>0, <1>3, SameStage
<1>4. CASE s \in robbed
  <2>1. LifeAt(s, Stage(s), Acquirers(s))
    BY <1>0, <1>2, <1>3, <1>4 DEF LifeAt, Stage
  <2> QED
    BY <1>0, <2>1, UnseenAt
<1>5. CASE s \notin robbed
  <2>1. ulQueryLocks[s] = 0 <=> Acquirers(s) = {}
    <3>1. /\ ulQueryLocks[s] >= Cardinality(Holders(s))
          /\ s \notin kept => ulQueryLocks[s] <= Cardinality(Holders(s))
          /\ s \in kept => ulQueryLocks[s] > Cardinality(Holders(s))
          /\ Cardinality(Holders(s)) \in Nat
          /\ Cardinality(Holders(s)) = 0 <=> Holders(s) = {}
      BY <1>0, <1>5, BalancedPins, HoldersFinite DEF PinInv, Balanced
    <3>2. s \in kept <=> Nobody \in Acquirers(s)
      BY <1>5, SourcesAssumption DEF Acquirers, Holders, Threads
    <3>3. s \notin kept => Acquirers(s) = Holders(s)
      BY <1>5 DEF Acquirers
    <3> QED
      BY <1>0, <3>1, <3>2, <3>3
  <2>2. Stage(s) = "open"
    BY <1>0, <1>5, StageOf
  <2>3. ~(s > created)
    BY <1>0 DEF TypeOK
  <2> DEFINE l == IF Acquirers(s) = {} THEN "gone" ELSE "closing"
  <2>4. Stage(s)' = l
    BY <1>0, <1>5, <2>1, <2>3 DEF Stage
  <2>5. LifeAt(s, l, Acquirers(s))
    BY <1>0, <1>2, <1>3, <2>4 DEF LifeAt
  <2>6. Life!Close(s)
    BY <1>0, <2>2, <2>5 DEF LifeAt, Life!Close
  <2> QED
    BY <1>0, <2>6 DEF Life!Next
<1> QED
  BY <1>4, <1>5

(* Every step is one of its steps, or none.                                *)
LEMMA LifeStep == IInv /\ [Next]_vars => [Life!Next]_(Life!lifeVars)
<1> SUFFICES ASSUME IInv, [Next]_vars PROVE [Life!Next]_(Life!lifeVars)
  OBVIOUS
<1>1. PinStep /\ ListInv /\ PinInv /\ TypeOK'
  BY StepKind, NextListInv DEF IInv, ListInv, PinInv
<1>2. CASE Quiet
  <2>1. \A r \in Sources : Stage(r)' = Stage(r) /\ Acquirers(r)' = Acquirers(r)
    BY <1>2, HoldersStay, SameStage, SameAcquirers DEF Quiet
  <2> QED
    BY <2>1 DEF Life!lifeVars
<1> QED
  BY <1>1, <1>2, GainSeen, AgainSeen, LoseSeen, ForgetSeen, RobSeen, OpenSeen, CloseSeen
     DEF PinStep

(* At first every source is absent, in the promise too.                    *)
LEMMA LifeInit == Init => Life!Init
<1> SUFFICES ASSUME Init PROVE Life!Init
  OBVIOUS
<1>1. ASSUME NEW s \in Sources PROVE Stage(s) = "absent" /\ Acquirers(s) = {}
  <2>1. s # NoSource /\ s > created
    BY SourcesAssumption DEF Init, Sources, NoSource
  <2>2. \A t \in Threads : pc[t] \notin Pinning
    BY DEF Init, Pinning
  <2> QED
    BY <2>1, <2>2 DEF Init, Stage, Acquirers, Holders, Pinned
<1> QED
  BY <1>1 DEF Life!Init

(* The list, the counts, the owners, the status page and the collector     *)
(* keep the promise of SourceLife.                                         *)
THEOREM KeepsLifePromise == Spec => LifePromise
<1>1. IInv /\ [Next]_vars => [Life!Next]_(Life!lifeVars)
  BY LifeStep
<1> QED
  BY <1>1, LifeInit, Inductive, PTL DEF Spec, LifePromise, Life!Spec

----------------------------------------------------------------------------
(* Part three: the ring of pages.                                          *)
(*                                                                         *)
(* What follows numbers the pages of the stream from its start: Number(p)  *)
(* is the page of position p, and the ring's page is the remainder by      *)
(* Pages.  The invariant speaks of the number of the oldest page, f, and   *)
(* of those on which listeners stand.                                      *)

(* What the assumption says of the numbers.                                *)
LEMMA RingBounds ==
  /\ Pages \in Nat /\ Pages >= 2 /\ PageSize \in Nat /\ PageSize >= 1
  /\ Ring \in Nat /\ Reach \in Nat /\ Reach + PageSize = Ring /\ Ring >= 2
  /\ Width \in Nat /\ Ring < Width
  /\ Ring = PageSize * Pages /\ Reach = PageSize * (Pages - 1)
  /\ Writes \subseteq Nat \ {0} /\ ReadLen \in Nat /\ ReadLen >= 1
  /\ MaxUsed \in 0..Width-1 /\ MaxPos \in Nat
  /\ IsFiniteSet(Clients) /\ Cardinality(Clients) \in Nat /\ Cardinality(Clients) < Width
<1>1. /\ Pages \in Nat \ {0, 1} /\ PageSize \in Nat \ {0} /\ Width \in Nat /\ Width > Ring
      /\ Writes \subseteq Nat \ {0} /\ ReadLen \in Nat \ {0}
      /\ MaxUsed \in 0..Width-1 /\ MaxPos \in Nat
      /\ IsFiniteSet(Clients) /\ Cardinality(Clients) < Width
  BY BufRingAssumption
<1>2. Cardinality(Clients) \in Nat
  BY <1>1, FS_CardinalityType
<1>3. Pages * PageSize \in Nat /\ (Pages - 1) * PageSize \in Nat /\ Pages * PageSize >= 2
  <2>1. Pages >= 2 /\ PageSize >= 1
    BY <1>1
  <2>2. Pages * PageSize >= 2 * PageSize
    BY <1>1, <2>1
  <2> QED
    BY <1>1, <2>1, <2>2
<1>4. (Pages - 1) * PageSize + PageSize = Pages * PageSize
  BY <1>1
<1>5. Pages * PageSize = PageSize * Pages /\ (Pages - 1) * PageSize = PageSize * (Pages - 1)
  BY <1>1
<1> QED
  BY <1>1, <1>2, <1>3, <1>4, <1>5 DEF Ring, Reach

LEMMA DivMod ==
  ASSUME NEW a \in Int, NEW n \in Nat \ {0}
  PROVE  /\ a \div n \in Int /\ a % n \in 0..n-1
         /\ a = n * (a \div n) + (a % n)
OBVIOUS

LEMMA Multiple ==
  ASSUME NEW n \in Nat \ {0}, NEW q \in Int, NEW r \in Int, n * q = r, -n < r, r < n
  PROVE  q = 0
<1>1. CASE q >= 1
  <2>1. n * q >= n
    BY <1>1
  <2> QED
    BY <2>1
<1>2. CASE q <= -1
  <2>1. n * q <= -n
    BY <1>2
  <2> QED
    BY <2>1
<1> QED
  BY <1>1, <1>2

(* Quotient and remainder are determined by what they do.                  *)
LEMMA DivUnique ==
  ASSUME NEW n \in Nat \ {0}, NEW q \in Int, NEW r \in 0..n-1
  PROVE  (n * q + r) % n = r /\ (n * q + r) \div n = q
<1> DEFINE a == n * q + r
           p == a \div n
           s == a % n
<1>1. a \in Int /\ p \in Int /\ s \in 0..n-1 /\ a = n * p + s
  BY DivMod
<1>2. n * (p - q) = r - s
  BY <1>1
<1> HIDE DEF p, s
<1>3. p - q = 0
  BY <1>1, <1>2, Multiple
<1> QED
  BY <1>1, <1>2, <1>3 DEF p, s

(* Two numbers less than n apart have different remainders.                *)
LEMMA ModApart ==
  ASSUME NEW n \in Nat \ {0}, NEW a \in Int, NEW b \in Int, a <= b, b - a < n, a % n = b % n
  PROVE  a = b
<1> DEFINE p == a \div n
           q == b \div n
           r == a % n
<1>1. p \in Int /\ q \in Int /\ r \in 0..n-1 /\ a = n * p + r /\ b = n * q + r
  BY DivMod
<1> HIDE DEF p, q, r
<1>2. n * (q - p) = b - a
  BY <1>1
<1>3. q - p = 0
  BY <1>1, <1>2, Multiple
<1> QED
  BY <1>1, <1>3

LEMMA ModNext ==
  ASSUME NEW n \in Nat \ {0}, NEW a \in Int, NEW d \in Int
  PROVE  ((a % n) + d) % n = (a + d) % n
<1> DEFINE q == a \div n
           r == a % n
<1>1. q \in Int /\ r \in 0..n-1 /\ a = n * q + r
  BY DivMod
<1> HIDE DEF q
<1> DEFINE b == r + d
           p == b \div n
           s == b % n
<1>2. b \in Int
  BY <1>1
<1>3. p \in Int /\ s \in 0..n-1 /\ b = n * p + s
  BY <1>2, DivMod
<1> HIDE DEF p, s, r
<1>4. a + d = n * (q + p) + s
  BY <1>1, <1>3
<1>5. (n * (q + p) + s) % n = s
  BY <1>1, <1>3, DivUnique
<1> QED
  BY <1>4, <1>5 DEF s, r

LEMMA ModOf ==
  ASSUME NEW n \in Nat \ {0}, NEW a \in 0..n-1
  PROVE  a % n = a
<1>1. (n * 0 + a) % n = a
  BY DivUnique
<1> QED
  BY <1>1

(* The number of a page in the stream, and of the page of the last byte    *)
(* that was written.                                                       *)
Number(p) == p \div PageSize
Latest    == Number(ulBufPos - 1)

LEMMA NumberIs ==
  ASSUME NEW p \in Int
  PROVE  /\ Number(p) \in Int /\ p % PageSize \in 0..PageSize-1
         /\ p = PageSize * Number(p) + (p % PageSize)
  BY RingBounds, DivMod DEF Number

LEMMA NumberOf ==
  ASSUME NEW q \in Int, NEW r \in 0..PageSize-1
  PROVE  Number(PageSize * q + r) = q /\ (PageSize * q + r) % PageSize = r
  BY RingBounds, DivUnique DEF Number

(* A position is at most the start of a page if the byte before it is on   *)
(* a page before that one.                                                 *)
LEMMA BelowPage ==
  ASSUME NEW u \in Int, NEW k \in Int
  PROVE  u <= PageSize * k <=> Number(u - 1) < k
<1> DEFINE m == Number(u - 1)
           r == (u - 1) % PageSize
<1>1. m \in Int /\ r \in 0..PageSize-1 /\ u - 1 = PageSize * m + r /\ PageSize \in Nat
  <2> DEFINE v == u - 1
  <2>1. v \in Int
    OBVIOUS
  <2> HIDE DEF v
  <2>2. Number(v) \in Int /\ v % PageSize \in 0..PageSize-1 /\ v = PageSize * Number(v) + (v % PageSize)
    BY <2>1, NumberIs
  <2> QED
    BY <2>2, RingBounds DEF v
<1> HIDE DEF m, r
<1>2. CASE m < k
  <2>1. PageSize * (m + 1) <= PageSize * k
    BY <1>1, <1>2
  <2>2. PageSize * (m + 1) = PageSize * m + PageSize
    BY <1>1
  <2>3. PageSize * m \in Int /\ PageSize * k \in Int
    BY <1>1
  <2> QED
    BY <1>1, <1>2, <2>1, <2>2, <2>3 DEF m
<1>3. CASE ~(m < k)
  <2>1. PageSize * k <= PageSize * m
    BY <1>1, <1>3
  <2>3. PageSize * m \in Int /\ PageSize * k \in Int
    BY <1>1
  <2> QED
    BY <1>1, <1>3, <2>1, <2>3 DEF m
<1> QED
  BY <1>2, <1>3

LEMMA NumberMonotone ==
  ASSUME NEW p \in Int, NEW q \in Int, p <= q
  PROVE  Number(p) <= Number(q)
<1> DEFINE k == Number(q) + 1
<1>1. Number(p) \in Int /\ Number(q) \in Int
  BY NumberIs
<1>2. k \in Int /\ k = Number(q) + 1
  BY <1>1
<1> HIDE DEF k
<1>3. Number(q + 1 - 1) < k
  BY <1>1, <1>2
<1>4. q + 1 <= PageSize * k
  BY <1>2, <1>3, BelowPage
<1>5. PageSize * k \in Int
  BY <1>2, RingBounds
<1>6. p + 1 <= PageSize * k
  BY <1>4, <1>5
<1>7. Number(p + 1 - 1) < k
  BY <1>2, <1>6, BelowPage
<1> QED
  BY <1>1, <1>2, <1>7

LEMMA NumberShift ==
  ASSUME NEW p \in Int, NEW k \in Int
  PROVE  Number(p + PageSize * k) = Number(p) + k
<1> DEFINE m == Number(p)
           r == p % PageSize
<1>1. m \in Int /\ r \in 0..PageSize-1 /\ p = PageSize * m + r /\ PageSize \in Nat
  BY NumberIs, RingBounds
<1> HIDE DEF m, r
<1>2. p + PageSize * k = PageSize * (m + k) + r
  BY <1>1
<1> DEFINE q == m + k
<1>3. q \in Int
  BY <1>1
<1> HIDE DEF q
<1>4. Number(PageSize * q + r) = q
  BY <1>1, <1>3, NumberOf
<1> QED
  BY <1>2, <1>4 DEF m, q

(* The page of a position is its number's.                                 *)
LEMMA PageIs ==
  ASSUME NEW p \in Int
  PROVE  Page(p) = Number(p) % Pages /\ Page(p) \in PageNos
<1>1. PICK k \in Int : Width = PageSize * (Pages * k)
  <2> DEFINE k == Width \div Ring
  <2>1. Ring \in Nat \ {0} /\ Width \in Int /\ Width % Ring = 0
    BY RingBounds, BufRingAssumption
  <2>2. k \in Int /\ Width = Ring * k + 0
    BY <2>1, DivMod
  <2> HIDE DEF k
  <2>3. Ring * k = PageSize * (Pages * k)
    BY <2>2, RingBounds
  <2>4. PageSize * (Pages * k) \in Int
    BY <2>2, RingBounds
  <2> QED
    BY <2>2, <2>3, <2>4
<1> DEFINE a == p \div Width
           b == p % Width
           c == Number(b)
           d == b % PageSize
<1>2. a \in Int /\ b \in Int /\ p = Width * a + b
  <2>1. Width \in Nat \ {0}
    BY RingBounds
  <2>2. a \in Int /\ b \in 0..Width-1 /\ p = Width * a + b
    BY <2>1, DivMod
  <2> HIDE DEF a, b
  <2> QED
    BY <2>1, <2>2
<1>3. c \in Int /\ d \in 0..PageSize-1 /\ b = PageSize * c + d
  BY <1>2, NumberIs
<1>4. Page(p) = c % Pages
  BY DEF Page, Bits, Number
<1> HIDE DEF a, b, c, d
<1>5. Pages \in Nat \ {0} /\ PageSize \in Nat
  BY RingBounds
<1>6. Width * a = PageSize * (Pages * (k * a))
  BY <1>1, <1>2, <1>5
<1> DEFINE m == k * a
<1>7. m \in Int /\ Width * a = PageSize * (Pages * m)
  BY <1>6, <1>2
<1> HIDE DEF m
<1>8. p = PageSize * (Pages * m + c) + d
  <2>1. PageSize * (Pages * m + c) = PageSize * (Pages * m) + PageSize * c
    BY <1>3, <1>5, <1>7
  <2>2. Pages * m \in Int /\ PageSize * (Pages * m) \in Int /\ PageSize * c \in Int
    BY <1>3, <1>5, <1>7
  <2> QED
    BY <1>2, <1>3, <1>7, <2>1, <2>2
<1>9. Pages * m + c \in Int
  BY <1>3, <1>5, <1>7
<1>10. Number(p) = Pages * m + c
  BY <1>3, <1>8, <1>9, NumberOf
<1> DEFINE e == c \div Pages
           g == c % Pages
<1>11. e \in Int /\ g \in 0..Pages-1 /\ c = Pages * e + g
  BY <1>3, <1>5, DivMod
<1> HIDE DEF e, g
<1>12. Pages * m + c = Pages * (m + e) + g
  BY <1>5, <1>7, <1>11
<1>13. (Pages * (m + e) + g) % Pages = g
  BY <1>5, <1>7, <1>11, DivUnique
<1> QED
  BY <1>4, <1>10, <1>11, <1>12, <1>13 DEF g, PageNos

LEMMA ModShift ==
  ASSUME NEW n \in Nat \ {0}, NEW a \in Int
  PROVE  (a + n) % n = a % n
<1> DEFINE q == a \div n
           r == a % n
<1>1. q \in Int /\ r \in 0..n-1 /\ a = n * q + r
  BY DivMod
<1> HIDE DEF q, r
<1>2. a + n = n * (q + 1) + r
  BY <1>1
<1>3. (n * (q + 1) + r) % n = r
  BY <1>1, DivUnique
<1> QED
  BY <1>2, <1>3 DEF r

(* How far the writer, at u, is from a listener at p, in bytes and in      *)
(* pages.                                                                  *)
LEMMA Distances ==
  ASSUME NEW p \in Int, NEW u \in Int
  PROVE  /\ u <= p - (p % PageSize) + Ring <=> Number(u - 1) < Number(p) + Pages
         /\ u - p <= Reach => Number(u - 1) < Number(p) + Pages
         /\ u - p > Reach /\ Number(u - 1) < Number(p) + Pages => Number(u - 1) + 1 = Number(p) + Pages
         /\ Number(u - 1) < Number(p) + Pages => u - p <= Ring
<1> DEFINE n == Number(p)
           m == Number(u - 1)
           r == p % PageSize
           a == PageSize * n
<1>1. n \in Int /\ r \in 0..PageSize-1 /\ p = a + r /\ m \in Int
  <2>1. u - 1 \in Int
    OBVIOUS
  <2> QED
    BY <2>1, NumberIs
<1>2. a \in Int /\ PageSize \in Nat /\ Pages \in Nat /\ Ring \in Nat /\ Reach \in Nat /\ Reach + PageSize = Ring
  BY <1>1, RingBounds
<1>3. PageSize * (n + Pages) = a + Ring /\ PageSize * (n + Pages - 1) = a + Reach
  <2>1. PageSize * (n + Pages) = a + PageSize * Pages
    BY <1>1, <1>2
  <2>2. PageSize * (n + Pages - 1) = a + PageSize * (Pages - 1)
    BY <1>1, <1>2
  <2> QED
    BY <2>1, <2>2, RingBounds
<1>4. u <= a + Ring <=> m < n + Pages
  <2>1. n + Pages \in Int
    BY <1>1, <1>2
  <2>2. u <= PageSize * (n + Pages) <=> Number(u - 1) < n + Pages
    BY <2>1, BelowPage
  <2> QED
    BY <1>3, <2>2
<1>5. u <= a + Reach <=> m < n + Pages - 1
  <2>1. n + Pages - 1 \in Int
    BY <1>1, <1>2
  <2>2. u <= PageSize * (n + Pages - 1) <=> Number(u - 1) < n + Pages - 1
    BY <2>1, BelowPage
  <2> QED
    BY <1>3, <2>2
<1> HIDE DEF n, m, r, a
<1>6. /\ u <= p - r + Ring <=> m < n + Pages
      /\ u - p <= Reach => m < n + Pages
      /\ u - p > Reach /\ m < n + Pages => m + 1 = n + Pages
      /\ m < n + Pages => u - p <= Ring
  BY <1>1, <1>2, <1>4, <1>5
<1> QED
  BY <1>6 DEF n, m, r

LEMMA StartAfter ==
  ASSUME NEW u \in Int
  PROVE  Page(u + ((-u) % PageSize)) = (Number(u - 1) + 1) % Pages
<1> DEFINE a == (-u) \div PageSize
           b == (-u) % PageSize
<1>1. a \in Int /\ b \in 0..PageSize-1 /\ -u = PageSize * a + b
  <2>1. -u \in Int /\ PageSize \in Nat \ {0}
    BY RingBounds
  <2> QED
    BY <2>1, DivMod
<1>2. PageSize \in Nat
  BY RingBounds
<1> HIDE DEF a, b
<1> DEFINE c == -a
<1>3. c \in Int /\ u + b = PageSize * c
  BY <1>1, <1>2
<1> HIDE DEF c
<1>4. Number(u + b) = c
  <2>1. PageSize * c \in Int /\ 0 \in 0..PageSize-1
    BY <1>3, RingBounds
  <2>2. Number(PageSize * c + 0) = c
    BY <1>3, <2>1, NumberOf
  <2> QED
    BY <1>3, <2>1, <2>2
<1>5. Number(u - 1) = c - 1
  <2> DEFINE d == c - 1
             r == PageSize - b - 1
  <2>1. d \in Int /\ r \in 0..PageSize-1 /\ u - 1 = PageSize * d + r
    BY <1>1, <1>2, <1>3
  <2> HIDE DEF d, r
  <2>2. Number(PageSize * d + r) = d
    BY <2>1, NumberOf
  <2> QED
    BY <2>1, <2>2 DEF d
<1>6. u + b \in Int
  BY <1>1, <1>2
<1>7. Page(u + b) = Number(u + b) % Pages
  BY <1>6, PageIs
<1>8. c - 1 + 1 = c
  BY <1>3
<1> QED
  BY <1>4, <1>5, <1>7, <1>8 DEF b

LEMMA ComingIs ==
  ASSUME ulBufPos \in Int
  PROVE  Coming = (Latest + 1) % Pages
BY StartAfter DEF Coming, Latest

(* Where a step of the writer from u takes it: d bytes, within a page.     *)
LEMMA WithinPage ==
  ASSUME NEW u \in Int, NEW d \in 1..(PageSize - (u % PageSize))
  PROVE  /\ Number(u + d - 1) = Number(u)
         /\ u % PageSize = 0 => Number(u - 1) = Number(u) - 1
         /\ u % PageSize # 0 => Number(u - 1) = Number(u)
<1> DEFINE m == Number(u)
           r == u % PageSize
<1>1. m \in Int /\ r \in 0..PageSize-1 /\ u = PageSize * m + r /\ PageSize \in Nat /\ PageSize >= 1
  BY NumberIs, RingBounds
<1>2. d \in 1..(PageSize - r)
  OBVIOUS
<1> HIDE DEF m, r
<1>3. Number(u + d - 1) = m
  <2> DEFINE s == r + d - 1
  <2>1. s \in 0..PageSize-1 /\ u + d - 1 = PageSize * m + s
    BY <1>1, <1>2
  <2> HIDE DEF s
  <2> QED
    BY <2>1, <1>1, NumberOf
<1>4. ASSUME r = 0 PROVE Number(u - 1) = m - 1
  <2> DEFINE k == m - 1
             s == PageSize - 1
  <2>1. k \in Int /\ s \in 0..PageSize-1 /\ u - 1 = PageSize * k + s
    BY <1>1, <1>4
  <2> HIDE DEF k, s
  <2>2. Number(PageSize * k + s) = k
    BY <2>1, NumberOf
  <2> QED
    BY <2>1, <2>2 DEF k
<1>5. ASSUME r # 0 PROVE Number(u - 1) = m
  <2> DEFINE s == r - 1
  <2>1. s \in 0..PageSize-1 /\ u - 1 = PageSize * m + s
    BY <1>1, <1>5
  <2> HIDE DEF s
  <2> QED
    BY <2>1, <1>1, NumberOf
<1> QED
  BY <1>3, <1>4, <1>5 DEF m, r

(* The greatest of a set of naturals.                                      *)
LEMMA MaxIs ==
  ASSUME NEW n \in Nat, NEW S \in SUBSET (0..n), S # {}
  PROVE  Max(S) \in S
<1> DEFINE T == {n - x : x \in S}
           R == {ss \in Nat \X Nat : ss[1] < ss[2]}
<1>1. T \subseteq Nat /\ T # {}
  <2>1. ASSUME NEW x \in S PROVE n - x \in Nat
    <3>1. x \in 0..n
      OBVIOUS
    <3> QED
      BY <3>1
  <2>2. T # {}
    OBVIOUS
  <2> QED
    BY <2>1, <2>2
<1>2. IsWellFoundedOn(R, Nat)
  BY NatLessThanWellFounded DEF OpToRel
<1>3. PICK m \in T : \A k \in T : ~(<<k, m>> \in R)
  <2> HIDE DEF R, T
  <2> QED
    BY <1>1, <1>2, WFMin
<1>4. PICK x \in S : m = n - x
  OBVIOUS
<1>5. \A y \in S : x >= y
  <2> SUFFICES ASSUME NEW y \in S PROVE x >= y
    OBVIOUS
  <2>1. n - y \in T /\ n - y \in Nat /\ m \in Nat
    OBVIOUS
  <2>2. ~(n - y < m)
    BY <2>1, <1>3
  <2> QED
    BY <1>4, <2>2
<1> QED
  BY <1>5 DEF Max

LEMMA SpareIs ==
  ASSUME NEW last, NEW page, NEW sync, NEW used
  PROVE  LET k == Spare(last, page, sync, used)
         IN  /\ k \in 0..Pages-1
             /\ \A i \in 0..k-1 : LET p == (last + i) % Pages
                                  IN  /\ p # page /\ used[p] = 0
                                      /\ IsNone(sync) \/ Page(sync) # p
<1> DEFINE Q(i) == LET p == (last + i) % Pages
                   IN  /\ p # page /\ used[p] = 0
                       /\ IsNone(sync) \/ Page(sync) # p
           S == {k \in 0..Pages-1 : \A i \in 0..k-1 : Q(i)}
<1>1. Pages - 1 \in Nat /\ S \in SUBSET (0..(Pages-1))
  BY RingBounds
<1>2. 0 \in S
  <2> HIDE DEF Q
  <2> QED
    BY RingBounds
<1>3. Max(S) \in S
  <2> HIDE DEF S
  <2> QED
    BY <1>1, <1>2, MaxIs
<1>4. Spare(last, page, sync, used) = Max(S)
  BY DEF Spare
<1> QED
  BY <1>3, <1>4

(* The memory of the ring is the pages from number f to the latest one.    *)
Stretch(f) ==
  /\ f <= Latest + 1 /\ Latest < f + Pages
  /\ ulBufPos > 0 => f <= Latest
  /\ ulBufLastPage = f % Pages
  /\ present = {i % Pages : i \in f..Latest}
  /\ ~IsNone(ulSyncPos) => Number(ulSyncPos) >= f

(* A listener's data is kept if its page is.                               *)
LEMMA KeptIs ==
  ASSUME ulBufPos \in Int, NEW f \in Nat, Stretch(f), NEW p \in Int, Number(p) >= f
  PROVE  Kept(p, ulBufPos)
<1> SUFFICES ASSUME NEW i \in p..ulBufPos-1 PROVE Page(i) \in present
  BY DEF Kept
<1>1. i \in Int /\ ulBufPos - 1 \in Int /\ p <= i /\ i <= ulBufPos - 1
  OBVIOUS
<1>2. Number(p) <= Number(i) /\ Number(i) <= Latest
  BY <1>1, NumberMonotone DEF Latest
<1>3. Number(i) \in Int /\ Number(p) \in Int /\ Latest \in Int
  BY <1>1, NumberIs DEF Latest
<1>4. Number(i) \in f..Latest
  BY <1>2, <1>3
<1> QED
  BY <1>1, <1>4, PageIs DEF Stretch

(* The writer starts on a page: the pages it frees were nobody's, but for  *)
(* the one it takes over.                                                  *)
LEMMA PageBegins ==
  ASSUME RingTypeOK, NEW f \in Nat, Stretch(f),
         BeginPage, Latest' = Latest + 1, ulBufPos' \in Nat,
         Number(ulBufPos) = Latest + 1
  PROVE  \E g \in Nat : /\ f <= g /\ Stretch(g)'
                        /\ \A i \in f..g-1 : i + Pages = Latest + 1 \/ ulUsed[i % Pages] = 0
<1> DEFINE L == Latest
           page == Page(ulBufPos)
           again == page \in present
           last == IF again THEN (page + 1) % Pages ELSE ulBufLastPage
           k == Spare(last, page, ulSyncPos', ulUsed')
           h == IF again THEN f + 1 ELSE f
<1>a. Pages \in Nat \ {0} /\ Pages \in Nat /\ Pages >= 2
  BY RingBounds
<1>b. ulBufPos \in Int /\ ulBufPos - 1 \in Int /\ ulSyncPos \in Int /\ ulUsed \in [PageNos -> 0..Width-1]
  BY DEF RingTypeOK
<1>c. L \in Int
  BY <1>b, NumberIs DEF Latest
<1>1. page = (L + 1) % Pages /\ page \in PageNos
  BY <1>b, PageIs
<1>2. /\ f <= L + 1 /\ L < f + Pages /\ ulBufLastPage = f % Pages
      /\ present = {i % Pages : i \in f..L}
      /\ ~IsNone(ulSyncPos) => Number(ulSyncPos) >= f
  BY DEF Stretch
<1>3. /\ ulSyncPos' = IF again /\ ~IsNone(ulSyncPos) /\ Page(ulSyncPos) = page
                      THEN None ELSE ulSyncPos
      /\ ulUsed' = [ulUsed EXCEPT ![page] = 0]
      /\ ulBufLastPage' = (last + k) % Pages
      /\ present' = (present \cup {page}) \ {(last + i) % Pages : i \in 0..k-1}
  BY DEF BeginPage
<1>4. /\ k \in 0..Pages-1
      /\ \A i \in 0..k-1 : /\ (last + i) % Pages # page /\ ulUsed'[(last + i) % Pages] = 0
                           /\ IsNone(ulSyncPos') \/ Page(ulSyncPos') # (last + i) % Pages
  <2> HIDE DEF last, page
  <2> QED
    BY SpareIs DEF k
<1> HIDE DEF k, L, page
<1>5. ASSUME again PROVE f = L + 1 - Pages
  <2>1. PICK i \in f..L : i % Pages = (L + 1) % Pages
    BY <1>1, <1>2, <1>5
  <2> DEFINE j == L + 1 - Pages
  <2>2. j \in Int /\ i \in Int /\ (j + Pages) = L + 1
    BY <1>a, <1>c
  <2> HIDE DEF j
  <2>3. j % Pages = i % Pages
    BY <1>a, <2>1, <2>2, ModShift
  <2>4. j <= i /\ i - j < Pages
    BY <1>a, <1>c, <1>2, <2>1 DEF j
  <2>5. j = i
    BY <1>a, <2>2, <2>3, <2>4, ModApart
  <2>6. f <= L /\ f >= L + 1 - Pages
    BY <1>a, <1>c, <1>2, <2>1
  <2> QED
    BY <1>a, <1>c, <2>1, <2>5, <2>6, <1>2 DEF j
<1>6. h \in Nat /\ f <= h /\ h <= L + 1 /\ L + 1 < h + Pages /\ (~again => h = f)
  <2>1. CASE again
    BY <1>a, <1>c, <1>5, <2>1
  <2>2. CASE ~again
    <3>1. ASSUME f = L + 1 - Pages PROVE FALSE
      <4>1. f + Pages = L + 1 /\ f \in f..L /\ f \in Int
        BY <1>a, <1>c, <3>1
      <4>2. f % Pages = (L + 1) % Pages
        BY <1>a, <4>1, ModShift
      <4> QED
        BY <1>1, <1>2, <2>2, <4>1, <4>2
    <3> QED
      BY <1>a, <1>c, <1>2, <2>2, <3>1
  <2> QED
    BY <2>1, <2>2
<1>7. last = h % Pages
  <2>1. CASE again
    <3> DEFINE m == L + 1
    <3>1. m + 1 = h + Pages /\ m \in Int /\ page = m % Pages /\ last = (page + 1) % Pages
      BY <1>a, <1>c, <1>1, <1>5, <2>1
    <3> HIDE DEF m, h, last
    <3>a. m \in Int /\ h \in Int /\ 1 \in Int
      BY <1>6, <3>1
    <3>2. ((m % Pages) + 1) % Pages = (m + 1) % Pages
      BY <1>a, <3>a, ModNext
    <3>3. (h + Pages) % Pages = h % Pages
      BY <1>a, <3>a, ModShift
    <3> QED
      BY <3>1, <3>2, <3>3
  <2>2. CASE ~again
    BY <1>2, <1>6, <2>2
  <2> QED
    BY <2>1, <2>2
<1> HIDE DEF last
<1>8. ASSUME NEW i \in Int PROVE (last + i) % Pages = (h + i) % Pages
  <2> HIDE DEF h
  <2>1. h \in Int
    BY <1>6
  <2>2. ((h % Pages) + i) % Pages = (h + i) % Pages
    BY <1>a, <2>1, ModNext
  <2> QED
    BY <1>7, <2>2
<1>9. present \cup {page} = {i % Pages : i \in h..L+1}
  <2>1. CASE again
    <3>1. f % Pages = page /\ h = f + 1
      <4>1. f + Pages = L + 1 /\ f \in Int
        BY <1>a, <1>c, <1>5, <2>1
      <4> QED
        BY <1>a, <1>1, <2>1, <4>1, ModShift
    <3>2. f..L = (h..L) \cup {f} /\ h..L+1 = (h..L) \cup {L + 1}
      BY <1>c, <1>2, <1>6, <3>1, <1>a, <1>5, <2>1
    <3> HIDE DEF h
    <3> QED
      BY <1>1, <1>2, <3>1, <3>2
  <2>2. CASE ~again
    <3>1. h..L+1 = (f..L) \cup {L + 1} /\ h = f
      BY <1>c, <1>2, <1>6, <2>2
    <3> HIDE DEF h
    <3> QED
      BY <1>1, <1>2, <3>1
  <2> QED
    BY <2>1, <2>2
<1>f. ~IsNone(ulSyncPos') => ulSyncPos' = ulSyncPos /\ Number(ulSyncPos) >= h
  <2> SUFFICES ASSUME ~IsNone(ulSyncPos') PROVE ulSyncPos' = ulSyncPos /\ Number(ulSyncPos) >= h
    OBVIOUS
  <2>1. ulSyncPos' = ulSyncPos /\ ~IsNone(ulSyncPos) /\ (again => Page(ulSyncPos) # page)
    BY <1>3 DEF IsNone
  <2>2. Number(ulSyncPos) >= f /\ Number(ulSyncPos) \in Int
    BY <1>2, <1>b, <2>1, NumberIs
  <2>3. CASE again
    <3>1. f + Pages = L + 1 /\ f \in Int
      BY <1>a, <1>c, <1>5, <2>3
    <3>2. f % Pages = page
      BY <1>a, <1>1, <3>1, ModShift
    <3>3. Number(ulSyncPos) # f
      BY <1>b, <2>1, <2>3, <3>2, PageIs
    <3> QED
      BY <2>1, <2>2, <2>3, <3>3
  <2>4. CASE ~again
    BY <1>6, <2>1, <2>2, <2>4
  <2> QED
    BY <2>3, <2>4
<1>g. h = f \/ (again /\ h = f + 1)
  OBVIOUS
<1> HIDE DEF h
<1>10. h + k <= L + 1
  <2> SUFFICES ASSUME h + k > L + 1 PROVE FALSE
    BY <1>4, <1>6, <1>c, <1>a
  <2> DEFINE i == L + 1 - h
  <2>1. i \in 0..k-1 /\ i \in Int /\ h + i = L + 1
    BY <1>4, <1>6, <1>c, <1>a
  <2> HIDE DEF i
  <2> QED
    BY <1>1, <1>4, <1>8, <2>1
<1>11. PICK g \in Nat : g = h + k
  BY <1>4, <1>6
<1>12. present' = {i % Pages : i \in g..L+1}
  <2>1. ASSUME NEW x \in present' PROVE x \in {i % Pages : i \in g..L+1}
    <3>1. PICK i \in h..L+1 : x = i % Pages
      BY <1>3, <1>9, <2>1
    <3>2. ASSUME i < g PROVE FALSE
      <4> DEFINE j == i - h
      <4>1. j \in 0..k-1 /\ j \in Int /\ h + j = i
        BY <1>4, <1>6, <1>11, <1>c, <1>a, <3>1, <3>2
      <4> HIDE DEF j
      <4>2. (last + j) % Pages = x
        BY <1>8, <3>1, <4>1
      <4> QED
        BY <1>3, <2>1, <4>1, <4>2
    <3>3. i \in g..L+1
      BY <3>1, <3>2, <1>c, <1>6
    <3> QED
      BY <3>1, <3>3
  <2>2. ASSUME NEW i \in g..L+1 PROVE i % Pages \in present'
    <3>1. i \in h..L+1 /\ i \in Int
      BY <1>4, <1>6, <1>11, <1>c, <1>a
    <3>2. ASSUME NEW j \in 0..k-1, i % Pages = (last + j) % Pages PROVE FALSE
      <4> DEFINE y == h + j
      <4>1. y \in Int /\ y < i /\ y <= i /\ i - y < Pages /\ j \in Int
        BY <1>4, <1>6, <1>11, <1>c, <1>a, <3>2
      <4>2. y % Pages = i % Pages
        BY <1>8, <3>2, <4>1
      <4> HIDE DEF y
      <4>3. y = i
        <5>1. i \in Int
          BY <3>1
        <5> QED
          BY <1>a, <5>1, <4>1, <4>2, ModApart
      <4> QED
        BY <4>1, <4>3, <3>1
    <3> QED
      BY <1>3, <1>9, <3>1, <3>2
  <2> QED
    BY <2>1, <2>2
<1>13. ulBufLastPage' = g % Pages
  BY <1>3, <1>4, <1>8, <1>11
<1>14. ASSUME ~IsNone(ulSyncPos') PROVE Number(ulSyncPos') >= g
  <2>1. ulSyncPos' = ulSyncPos /\ Number(ulSyncPos) >= h
    BY <1>14, <1>f
  <2>2. Number(ulSyncPos) \in Int /\ Page(ulSyncPos) = Number(ulSyncPos) % Pages
    BY <1>b, NumberIs, PageIs
  <2>3. ASSUME Number(ulSyncPos) < g PROVE FALSE
    <3> DEFINE j == Number(ulSyncPos) - h
    <3>1. j \in 0..k-1 /\ j \in Int /\ h + j = Number(ulSyncPos)
      BY <1>4, <1>6, <1>11, <1>a, <2>1, <2>2, <2>3
    <3> HIDE DEF j
    <3> QED
      BY <1>4, <1>8, <1>14, <2>1, <2>2, <3>1
  <2> QED
    BY <2>1, <2>2, <2>3
<1>15. Stretch(g)'
  <2>1. g <= L + 1 /\ L + 1 < g + Pages
    BY <1>4, <1>6, <1>10, <1>11, <1>a, <1>c
  <2>2. Latest' = L + 1
    BY DEF L
  <2>3. g <= Latest' + 1 /\ Latest' < g + Pages /\ g <= Latest'
    BY <2>1, <2>2, <1>c, <1>11
  <2> QED
    BY <2>2, <2>3, <1>12, <1>13, <1>14 DEF Stretch
<1>16. ASSUME NEW i \in f..g-1 PROVE i + Pages = L + 1 \/ ulUsed[i % Pages] = 0
  <2>1. CASE i < h
    <3>1. again /\ i = f
      BY <1>g, <2>1
    <3> QED
      BY <1>5, <1>a, <1>c, <3>1
  <2>2. CASE i >= h
    <3> DEFINE j == i - h
    <3>1. j \in 0..k-1 /\ j \in Int /\ h + j = i /\ i \in Int
      BY <1>4, <1>6, <1>11, <1>a, <2>2
    <3> HIDE DEF j
    <3>2. i % Pages # page /\ ulUsed'[i % Pages] = 0
      BY <1>4, <1>8, <3>1
    <3>3. i % Pages \in PageNos
      BY <1>a, <3>1, DivMod DEF PageNos
    <3> QED
      BY <1>3, <1>b, <3>2, <3>3
  <2> QED
    BY <1>6, <1>11, <2>1, <2>2
<1> QED
  BY <1>4, <1>6, <1>11, <1>15, <1>16 DEF L

(* Where the read in progress began.                                       *)
Begun(c) == pos[c] + left[c] - ReadLen

(* Has the writer not come round to the page of p again?                   *)
OnRing(p) == Latest < Number(p) + Pages

Standing(p) == {c \in Clients : StandsOn(c, p)}

RingTyped ==
  /\ RingTypeOK /\ ulBufPos + todo <= MaxPos /\ ulSyncPos <= ulBufPos + todo

ReaderSound(c) ==
  /\ place[c] = "away" => pos[c] = None
  /\ place[c] = "dropped" => pos[c] # None
  /\ pos[c] <= ulBufPos
  /\ place[c] = "copy" => /\ Begun(c) >= 0 /\ from[c] = Page(Begun(c))
                          /\ pos[c] + left[c] < seen[c] /\ seen[c] <= ulBufPos
  /\ "wrapped" \notin edge =>
       /\ pos[c] # None => ulBufPos - pos[c] < Width
       /\ place[c] \in {"idle", "dropped"} /\ pos[c] # None => ~IsNone(pos[c])
       /\ place[c] = "copy" => seen[c] - Begun(c) <= Reach
       /\ place[c] = "dropped" => ulBufPos - pos[c] > Reach

(* A page on which a listener stands is no older than f.                   *)
HeldOf(c, f) ==
  /\ place[c] = "copy" => OnRing(Begun(c)) /\ Number(Begun(c)) >= f
  /\ place[c] \in {"idle", "dropped"} /\ pos[c] # None /\ OnRing(pos[c]) => Number(pos[c]) >= f

Held(f) == edge = {} => \A c \in Clients : HeldOf(c, f)

PageCounted(p) ==
  LET n == Cardinality(Standing(p))
  IN  /\ ulUsed[p] >= n /\ (p # Coming => ulUsed[p] = n)
      /\ ulUsed[p] <= MaxUsed \/ ulUsed[p] <= Cardinality(Clients)

Counted == edge = {} => \A p \in PageNos : PageCounted(p)

RingInv ==
  /\ RingTyped /\ \A c \in Clients : ReaderSound(c)
  /\ \E f \in Nat : Stretch(f) /\ Held(f)
  /\ Counted

LEMMA MinIs ==
  ASSUME NEW a \in Int, NEW b \in Int
  PROVE  Min({a, b}) \in {a, b} /\ Min({a, b}) <= a /\ Min({a, b}) <= b
<1>1. \E x \in {a, b} : \A y \in {a, b} : x <= y
  <2>1. CASE a <= b
    BY <2>1
  <2>2. CASE b <= a
    BY <2>2
  <2> QED
    BY <2>1, <2>2
<1> QED
  BY <1>1 DEF Min

LEMMA Remembered ==
  ASSUME NEW events, Record(events)
  PROVE  /\ edge \subseteq edge'
         /\ \A e \in DOMAIN events : events[e] => e \in edge'
         /\ \A e \in edge' : e \in edge \/ e \in DOMAIN events
  BY DEF Record

(* One turn of _BufWrite.                                                  *)
LEMMA PageWritten ==
  ASSUME RingTyped, WritePage
  PROVE  /\ ulBufPos' \in Nat /\ todo' \in Nat /\ ulBufPos' > ulBufPos /\ ulBufPos' <= ulBufPos + PageSize
         /\ ulBufPos' + todo' = ulBufPos + todo
         /\ Latest \in Int /\ Latest' = Number(ulBufPos)
         /\ ulBufPos % PageSize = 0 => Latest' = Latest + 1 /\ BeginPage
         /\ ulBufPos % PageSize # 0 => Latest' = Latest /\ UNCHANGED <<ulSyncPos, ulBufLastPage, present, ulUsed>>
         /\ edge \subseteq edge' /\ edge' \subseteq Edges
         /\ "overtaken" \notin edge' /\ ulBufPos % PageSize = 0
              => \A c \in Clients : place[c] = "copy" => from[c] # Page(ulBufPos)
         /\ "reset" \notin edge' /\ ulBufPos % PageSize = 0
              => \A c \in Clients : place[c] = "idle" => pos[c] # ulBufPos
         /\ "wrapped" \notin edge' => \A c \in Clients : pos[c] # None => ~(ulBufPos' - pos[c] >= Width)
         /\ UNCHANGED <<psMethods, reader>>
<1> DEFINE r == ulBufPos % PageSize
           n == Min({todo, PageSize - r})
           o == (r = 0) /\ \E c \in Clients : place[c] = "copy" /\ from[c] = Page(ulBufPos)
           s == (r = 0) /\ \E c \in Clients : place[c] = "idle" /\ pos[c] = ulBufPos
           w == \E c \in Clients : pos[c] # None /\ ulBufPos' - pos[c] >= Width
           events == [overtaken |-> o, reset |-> s, wrapped |-> w]
<1>1. ulBufPos \in Nat /\ ulBufPos \in Int /\ todo \in Nat /\ todo > 0 /\ edge \subseteq Edges
  <2>1. todo > 0
    BY DEF WritePage
  <2> QED
    BY <2>1, RingBounds DEF RingTyped, RingTypeOK
<1>2. r \in 0..PageSize-1 /\ PageSize \in Nat
  BY <1>1, NumberIs, RingBounds
<1>3. /\ todo' = todo - n /\ ulBufPos' = ulBufPos + n
      /\ r = 0 => BeginPage
      /\ r # 0 => UNCHANGED <<ulSyncPos, ulBufLastPage, present, ulUsed>>
      /\ Record(events)
      /\ UNCHANGED <<psMethods, reader>>
  BY DEF WritePage
<1>4. n \in 1..(PageSize - r) /\ n <= todo
  <2> DEFINE b == PageSize - r
  <2>1. b \in Int /\ b >= 1 /\ todo \in Int
    BY <1>1, <1>2
  <2>2. n = Min({todo, b})
    OBVIOUS
  <2> HIDE DEF b, n, r
  <2>3. n \in {todo, b} /\ n <= todo /\ n <= b
    BY <2>1, <2>2, MinIs
  <2> QED
    BY <1>1, <2>1, <2>3 DEF b
<1> HIDE DEF n
<1>5. /\ Number(ulBufPos + n - 1) = Number(ulBufPos)
      /\ r = 0 => Number(ulBufPos - 1) = Number(ulBufPos) - 1
      /\ r # 0 => Number(ulBufPos - 1) = Number(ulBufPos)
  BY <1>1, <1>4, WithinPage
<1>6. Number(ulBufPos) \in Int /\ Number(ulBufPos - 1) \in Int
  BY <1>1, NumberIs
<1>7. edge \subseteq edge' /\ (o => "overtaken" \in edge') /\ (s => "reset" \in edge') /\ (w => "wrapped" \in edge')
      /\ edge' \subseteq Edges
  <2> HIDE DEF o, s, w
  <2>1. DOMAIN events = {"overtaken", "reset", "wrapped"} /\ events["overtaken"] = o
        /\ events["reset"] = s /\ events["wrapped"] = w
    OBVIOUS
  <2> HIDE DEF events
  <2>2. edge \subseteq edge' /\ (\A e \in DOMAIN events : events[e] => e \in edge')
        /\ \A e \in edge' : e \in edge \/ e \in DOMAIN events
    BY <1>3, Remembered
  <2> QED
    BY <1>1, <2>1, <2>2, Zenon DEF Edges
<1>8. /\ ulBufPos' \in Nat /\ todo' \in Nat /\ ulBufPos' > ulBufPos /\ ulBufPos' <= ulBufPos + PageSize
      /\ ulBufPos' + todo' = ulBufPos + todo
  BY <1>1, <1>2, <1>3, <1>4
<1>9. /\ Latest \in Int /\ Latest' = Number(ulBufPos)
      /\ r = 0 => Latest' = Latest + 1
      /\ r # 0 => Latest' = Latest
  <2>0. ulBufPos' = ulBufPos + n
    BY <1>3
  <2>1. Latest' = Number(ulBufPos' - 1) /\ Latest = Number(ulBufPos - 1)
    BY DEF Latest, Number
  <2>2. ulBufPos' - 1 = ulBufPos + n - 1
    BY <2>0, <1>1, <1>4
  <2>3. Latest' = Number(ulBufPos + n - 1)
    BY <2>1, <2>2, Zenon
  <2> QED
    BY <1>5, <1>6, <2>1, <2>3
<1>10. "overtaken" \notin edge' /\ r = 0 => \A c \in Clients : place[c] = "copy" => from[c] # Page(ulBufPos)
  BY <1>7, Zenon
<1>11. "reset" \notin edge' /\ r = 0 => \A c \in Clients : place[c] = "idle" => pos[c] # ulBufPos
  BY <1>7, Zenon
<1>12. "wrapped" \notin edge' => \A c \in Clients : pos[c] # None => ~(ulBufPos' - pos[c] >= Width)
  BY <1>7, Zenon
<1> QED
  BY <1>3, <1>7, <1>8, <1>9, <1>10, <1>11, <1>12, Zenon

(* One turn of _BufRead.                                                   *)
LEMMA PageCopied ==
  ASSUME RingTyped, NEW c \in Clients, Copy(c)
  PROVE  /\ place[c] = "copy" /\ left[c] > 0
         /\ \E d \in 1..left[c] : /\ pos' = [pos EXCEPT ![c] = @ + d]
                                  /\ left' = [left EXCEPT ![c] = @ - d]
         /\ UNCHANGED <<psMethods, ring, place, from, seen, edge>>
<1> DEFINE b == PageSize - (Bits(pos[c]) % PageSize)
           n == Min({left[c], b})
<1>1. /\ place[c] = "copy" /\ left[c] > 0
      /\ pos' = [pos EXCEPT ![c] = @ + n] /\ left' = [left EXCEPT ![c] = @ - n]
      /\ UNCHANGED <<psMethods, ring, place, from, seen, edge>>
  BY DEF Copy
<1>2. left[c] \in Nat /\ pos[c] \in Int
  BY RingBounds DEF RingTyped, RingTypeOK
<1>3. b \in Int /\ b >= 1
  <2>1. Bits(pos[c]) \in Int
    <3> DEFINE x == pos[c]
    <3>1. Width \in Nat \ {0} /\ x \in Int
      BY <1>2, RingBounds
    <3> HIDE DEF x
    <3>2. x % Width \in 0..Width-1
      BY <3>1, DivMod
    <3>3. x % Width \in Int
      BY <3>1, <3>2
    <3> QED
      BY <3>3 DEF Bits, x
  <2>2. Bits(pos[c]) % PageSize \in 0..PageSize-1
    BY <2>1, NumberIs
  <2> QED
    BY <2>2, RingBounds
<1>4. n \in 1..left[c]
  <2> DEFINE a == left[c]
  <2>1. a \in Int /\ a > 0 /\ n = Min({a, b})
    BY <1>1, <1>2
  <2> HIDE DEF a, b, n
  <2>2. n \in {a, b} /\ n <= a
    BY <1>3, <2>1, MinIs
  <2> QED
    BY <1>3, <2>1, <2>2 DEF a
<1> HIDE DEF n
<1> QED
  BY <1>1, <1>4

LEMMA StandingIs ==
  ASSUME RingTyped, NEW c \in Clients, NEW p
  PROVE  /\ StandsOn(c, p) <=>
              \/ place[c] = "copy" /\ from[c] = p
              \/ /\ place[c] \in {"idle", "dropped"} /\ pos[c] # None
                 /\ Number(pos[c]) % Pages = p /\ OnRing(pos[c])
         /\ Latest \in Int /\ Number(pos[c]) \in Int
<1>1. pos[c] \in Int /\ ulBufPos \in Int
  BY DEF RingTyped, RingTypeOK
<1>2. Page(pos[c]) = Number(pos[c]) % Pages /\ Number(pos[c]) \in Int
  BY <1>1, PageIs, NumberIs
<1>3. ulBufPos <= pos[c] - (pos[c] % PageSize) + Ring <=> OnRing(pos[c])
  BY <1>1, Distances DEF OnRing, Latest
<1>4. ulBufPos - 1 \in Int
  BY <1>1
<1> QED
  BY <1>2, <1>3, <1>4, NumberIs DEF StandsOn, Latest

LEMMA StandingFinite ==
  ASSUME NEW p
  PROVE  /\ IsFiniteSet(Standing(p)) /\ Cardinality(Standing(p)) \in Nat
         /\ Cardinality(Standing(p)) <= Cardinality(Clients)
<1>1. Standing(p) \in SUBSET Clients
  BY DEF Standing
<1> QED
  BY <1>1, RingBounds, FS_Subset, FS_CardinalityType

(* What a step of listener c leaves alone.                                 *)
Apart(c) ==
  /\ \A d \in Clients \ {c} : /\ pos'[d] = pos[d] /\ place'[d] = place[d] /\ left'[d] = left[d]
                              /\ from'[d] = from[d] /\ seen'[d] = seen[d]
  /\ UNCHANGED <<psMethods, ulBufPos, todo, ulSyncPos, ulBufLastPage, present>>

LEMMA OthersStand ==
  ASSUME NEW c \in Clients, Apart(c), NEW d \in Clients \ {c}, NEW p
  PROVE  StandsOn(d, p)' <=> StandsOn(d, p)
BY DEF Apart, StandsOn, Page, Bits

(* A step of a listener keeps what holds of the ring and of the others.    *)
LEMMA ListenerSteps ==
  ASSUME RingInv, NEW c \in Clients, Apart(c), RingTypeOK', edge \subseteq edge',
         ReaderSound(c)',
         \A f \in Nat : Stretch(f) /\ Held(f) /\ edge' = {} => HeldOf(c, f)',
         edge' = {} => \A p \in PageNos : PageCounted(p)'
  PROVE  RingInv'
<1>1. RingTyped'
  BY DEF RingInv, RingTyped, Apart
<1>2. ASSUME NEW d \in Clients PROVE ReaderSound(d)'
  <2>1. CASE d = c
    BY <2>1
  <2>2. CASE d # c
    <3>1. "wrapped" \notin edge' => "wrapped" \notin edge
      OBVIOUS
    <3>2. ReaderSound(d)
      BY DEF RingInv
    <3>3. /\ pos'[d] = pos[d] /\ place'[d] = place[d] /\ left'[d] = left[d]
          /\ from'[d] = from[d] /\ seen'[d] = seen[d] /\ ulBufPos' = ulBufPos
      BY <2>2 DEF Apart
    <3> QED
      BY <3>1, <3>2, <3>3 DEF ReaderSound, Begun, IsNone, Bits, Page
  <2> QED
    BY <2>1, <2>2
<1>3. PICK f \in Nat : Stretch(f) /\ Held(f)
  BY DEF RingInv
<1>4. Stretch(f)'
  BY <1>3 DEF Stretch, Apart, Latest, Number, IsNone, Bits
<1>5. Held(f)'
  <2> SUFFICES ASSUME edge' = {}, NEW d \in Clients PROVE HeldOf(d, f)'
    BY DEF Held
  <2>1. CASE d = c
    BY <1>3, <2>1
  <2>2. CASE d # c
    <3>1. HeldOf(d, f)
      BY <1>3 DEF Held
    <3>2. /\ pos'[d] = pos[d] /\ place'[d] = place[d] /\ left'[d] = left[d] /\ ulBufPos' = ulBufPos
      BY <2>2 DEF Apart
    <3> QED
      BY <3>1, <3>2 DEF HeldOf, Begun, OnRing, Latest, Number
  <2> QED
    BY <2>1, <2>2
<1> QED
  BY <1>1, <1>2, <1>3, <1>4, <1>5 DEF RingInv, Counted

(* Counts stay right when the listener stands where it stood.              *)
LEMMA CountsStay ==
  ASSUME RingInv, NEW c \in Clients, Apart(c), UNCHANGED ulUsed, edge \subseteq edge', edge' = {},
         \A p \in PageNos : StandsOn(c, p)' <=> StandsOn(c, p)
  PROVE  \A p \in PageNos : PageCounted(p)'
<1> SUFFICES ASSUME NEW p \in PageNos PROVE PageCounted(p)'
  OBVIOUS
<1>1. PageCounted(p)
  BY DEF RingInv, Counted
<1>2. Standing(p)' = Standing(p)
  BY OthersStand DEF Standing
<1>3. Coming' = Coming /\ ulUsed' = ulUsed
  BY DEF Apart, Coming, Page, Bits
<1> QED
  BY <1>1, <1>2, <1>3 DEF PageCounted

LEMMA BehindIs ==
  ASSUME NEW p \in Int, ulBufPos \in Int, p <= ulBufPos
  PROVE  /\ Behind(p) \in Int /\ Behind(p) <= ulBufPos - p
         /\ ulBufPos - p < Width => Behind(p) = ulBufPos - p
<1> DEFINE a == ulBufPos - p
           q == a \div Width
           r == a % Width
<1>1. a \in Int /\ a >= 0 /\ Width \in Nat \ {0} /\ Behind(p) = r
  BY RingBounds DEF Behind, Bits
<1>2. q \in Int /\ r \in 0..Width-1 /\ a = Width * q + r
  BY <1>1, DivMod
<1>3. a < Width => r = a
  BY <1>1, ModOf
<1> HIDE DEF q, r
<1>4. r <= a
  <2>1. CASE q <= -1
    <3>1. Width * q <= -Width
      BY <1>1, <1>2, <2>1
    <3> HIDE DEF a
    <3> QED
      BY <3>1, <1>1, <1>2
  <2>2. CASE q >= 0
    <3>1. Width * q >= 0 /\ Width * q \in Int
      BY <1>1, <1>2, <2>2
    <3> HIDE DEF a
    <3> QED
      BY <3>1, <1>1, <1>2
  <2> QED
    BY <2>1, <2>2, <1>2
<1> QED
  BY <1>1, <1>2, <1>3, <1>4

(* The invariant for one listener, and what it is made of.                 *)
LEMMA OfListener ==
  ASSUME RingInv, NEW c \in Clients
  PROVE  /\ RingTyped /\ RingTypeOK /\ ReaderSound(c)
         /\ pos[c] \in Int /\ pos[c] >= -1 /\ pos[c] <= MaxPos /\ ulBufPos \in Nat /\ ulBufPos \in Int
         /\ left[c] \in 0..ReadLen /\ ReadLen \in Nat /\ seen[c] \in Nat /\ ulSyncPos \in Int
         /\ ulBufPos <= MaxPos /\ ulSyncPos <= MaxPos /\ MaxPos \in Nat
         /\ place[c] \in {"away", "idle", "copy", "dropped"}
<1>1. RingTyped /\ RingTypeOK /\ ReaderSound(c)
  BY DEF RingInv, RingTyped
<1>2. /\ pos[c] \in -1..MaxPos /\ left[c] \in 0..ReadLen /\ seen[c] \in 0..MaxPos
      /\ ulBufPos \in 0..MaxPos /\ ulSyncPos \in -1..MaxPos
      /\ place[c] \in {"away", "idle", "copy", "dropped"}
  BY <1>1 DEF RingTypeOK
<1>3. MaxPos \in Nat /\ ReadLen \in Nat
  BY RingBounds
<1> QED
  BY <1>1, <1>2, <1>3

LEMMA LeavesTooLate ==
  ASSUME RingInv, NEW c \in Clients, ReadTooLate(c)
  PROVE  RingInv'
<1>1. /\ place[c] = "idle" /\ ~IsNone(pos[c]) /\ Behind(pos[c]) > Reach
      /\ place' = [place EXCEPT ![c] = "dropped"]
      /\ UNCHANGED <<psMethods, ulBufPos, todo, ulSyncPos, ulBufLastPage, present, ulUsed>>
      /\ UNCHANGED <<pos, left, from, seen, edge>>
  BY DEF ReadTooLate, ring
<1>2. pos[c] # None
  BY <1>1 DEF IsNone
<1>3. RingTypeOK' /\ place'[c] = "dropped"
  BY <1>1, OfListener DEF RingTypeOK
<1>4. Apart(c)
  BY <1>1, OfListener DEF Apart, RingTypeOK
<1>5. ulBufPos - pos[c] > Reach
  <2>1. pos[c] <= ulBufPos
    BY OfListener DEF ReaderSound
  <2>2. Behind(pos[c]) \in Int /\ Behind(pos[c]) <= ulBufPos - pos[c]
    BY <2>1, OfListener, BehindIs
  <2>3. pos[c] \in Int /\ ulBufPos \in Int /\ Reach \in Int
    BY OfListener, RingBounds
  <2> QED
    BY <1>1, <2>2, <2>3
<1>6. ReaderSound(c)'
  <2>1. ReaderSound(c)
    BY OfListener
  <2> QED
    BY <1>1, <1>2, <1>3, <1>5, <2>1 DEF ReaderSound, IsNone, Bits
<1>7. ASSUME NEW f \in Nat, Held(f), edge' = {} PROVE HeldOf(c, f)'
  <2>1. HeldOf(c, f)
    BY <1>1, <1>7 DEF Held
  <2> QED
    BY <1>1, <1>2, <1>3, <2>1 DEF HeldOf, OnRing, Latest, Number
<1>8. ASSUME edge' = {} PROVE \A p \in PageNos : PageCounted(p)'
  <2>1. \A p \in PageNos : StandsOn(c, p)' <=> StandsOn(c, p)
    BY <1>1, <1>3 DEF StandsOn, Page, Bits
  <2>2. UNCHANGED ulUsed /\ edge \subseteq edge'
    BY <1>1
  <2> QED
    BY <1>4, <1>8, <2>1, <2>2, CountsStay
<1>9. edge \subseteq edge'
  BY <1>1
<1> QED
  BY <1>3, <1>4, <1>6, <1>7, <1>8, <1>9, ListenerSteps

LEMMA BeginsToRead ==
  ASSUME RingInv, NEW c \in Clients, ReadBegin(c)
  PROVE  RingInv'
<1>1. /\ place[c] = "idle" /\ ~IsNone(pos[c]) /\ Behind(pos[c]) <= Reach /\ Behind(pos[c]) > ReadLen
      /\ place' = [place EXCEPT ![c] = "copy"]
      /\ left' = [left EXCEPT ![c] = ReadLen]
      /\ from' = [from EXCEPT ![c] = Page(pos[c])]
      /\ seen' = [seen EXCEPT ![c] = ulBufPos]
      /\ UNCHANGED <<psMethods, ulBufPos, todo, ulSyncPos, ulBufLastPage, present, ulUsed>>
      /\ UNCHANGED <<pos, edge>>
  BY DEF ReadBegin, ring
<1>2. pos[c] # None /\ pos[c] \in Int
  BY <1>1, OfListener DEF IsNone
<1>3. Page(pos[c]) \in PageNos /\ Page(pos[c]) = Number(pos[c]) % Pages
  BY <1>2, PageIs
<1>4. /\ place'[c] = "copy" /\ left'[c] = ReadLen /\ from'[c] = Page(pos[c]) /\ seen'[c] = ulBufPos
      /\ pos'[c] = pos[c]
      /\ RingTypeOK'
  BY <1>1, <1>3, OfListener, RingBounds DEF RingTypeOK
<1>5. Apart(c)
  BY <1>1, OfListener DEF Apart, RingTypeOK
<1>6. /\ pos[c] <= ulBufPos /\ ulBufPos - pos[c] > ReadLen
      /\ "wrapped" \notin edge => ulBufPos - pos[c] <= Reach
  <2>1. pos[c] <= ulBufPos /\ ("wrapped" \notin edge => ulBufPos - pos[c] < Width)
    BY <1>2, OfListener DEF ReaderSound
  <2>2. /\ Behind(pos[c]) \in Int /\ Behind(pos[c]) <= ulBufPos - pos[c]
        /\ ulBufPos - pos[c] < Width => Behind(pos[c]) = ulBufPos - pos[c]
    BY <2>1, OfListener, BehindIs
  <2>3. pos[c] \in Int /\ ulBufPos \in Int /\ Reach \in Int /\ ReadLen \in Int
    BY OfListener, RingBounds
  <2> QED
    BY <1>1, <2>1, <2>2, <2>3
<1>7. Begun(c)' = pos[c] /\ pos[c] >= 0
  BY <1>2, <1>4, OfListener DEF Begun, None
<1>8. ReaderSound(c)'
  <2>1. ReaderSound(c)
    BY OfListener
  <2>2. /\ pos'[c] + left'[c] < seen'[c] /\ seen'[c] <= ulBufPos'
        /\ Begun(c)' >= 0 /\ from'[c] = Page(Begun(c)')
    BY <1>1, <1>2, <1>4, <1>6, <1>7, OfListener
  <2>3. "wrapped" \notin edge' => seen'[c] - Begun(c)' <= Reach /\ ulBufPos' - pos'[c] < Width
    BY <1>1, <1>2, <1>4, <1>6, <1>7, <2>1, OfListener DEF ReaderSound
  <2>4. from'[c] = Page(Begun(c))' /\ pos'[c] <= ulBufPos'
    BY <1>1, <1>4, <1>6, <1>7 DEF Page, Bits
  <2> QED
    BY <1>4, <2>2, <2>3, <2>4 DEF ReaderSound
<1>9. ASSUME edge' = {} PROVE OnRing(pos[c])
  <2>1. ulBufPos - pos[c] <= Reach
    BY <1>1, <1>6, <1>9
  <2> QED
    BY <2>1, OfListener, Distances DEF OnRing, Latest
<1>10. ASSUME NEW f \in Nat, Held(f), edge' = {} PROVE HeldOf(c, f)'
  <2>1. HeldOf(c, f) /\ OnRing(pos[c])
    BY <1>1, <1>9, <1>10 DEF Held
  <2>2. Number(pos[c]) >= f
    BY <1>1, <1>2, <2>1 DEF HeldOf
  <2>3. OnRing(Begun(c))' /\ Number(Begun(c))' >= f
    BY <1>1, <1>7, <2>1, <2>2 DEF OnRing, Latest, Number
  <2> QED
    BY <1>4, <2>3 DEF HeldOf
<1>11. ASSUME edge' = {} PROVE \A p \in PageNos : PageCounted(p)'
  <2>1. ASSUME NEW p \in PageNos PROVE StandsOn(c, p)' <=> StandsOn(c, p)
    <3>1. StandsOn(c, p) <=> Page(pos[c]) = p
      BY <1>1, <1>2, <1>3, <1>9, <1>11, OfListener, StandingIs
    <3>2. StandsOn(c, p)' <=> Page(pos[c]) = p
      BY <1>4 DEF StandsOn
    <3> QED
      BY <3>1, <3>2
  <2>2. UNCHANGED ulUsed /\ edge \subseteq edge'
    BY <1>1
  <2> QED
    BY <1>5, <1>11, <2>1, <2>2, CountsStay
<1>12. edge \subseteq edge'
  BY <1>1
<1> QED
  BY <1>4, <1>5, <1>8, <1>10, <1>11, <1>12, ListenerSteps

LEMMA CopiesPage ==
  ASSUME RingInv, NEW c \in Clients, Copy(c)
  PROVE  RingInv'
<1>0. RingTyped
  BY OfListener
<1>1. PICK d \in 1..left[c] : pos' = [pos EXCEPT ![c] = @ + d] /\ left' = [left EXCEPT ![c] = @ - d]
  BY <1>0, PageCopied
<1>2. /\ place[c] = "copy"
      /\ UNCHANGED <<psMethods, ulBufPos, todo, ulSyncPos, ulBufLastPage, present, ulUsed>>
      /\ UNCHANGED <<place, from, seen, edge>>
  BY <1>0, PageCopied DEF ring
<1>3. ReaderSound(c)
  BY OfListener
<1>4. /\ Begun(c) >= 0 /\ from[c] = Page(Begun(c))
      /\ pos[c] + left[c] < seen[c] /\ seen[c] <= ulBufPos
  BY <1>2, <1>3 DEF ReaderSound
<1>5. d \in Int /\ d >= 1 /\ d <= left[c] /\ pos[c] >= 0 /\ pos[c] # None
  BY <1>4, OfListener DEF Begun, None
<1>6. pos'[c] = pos[c] + d /\ left'[c] = left[c] - d
  BY <1>1, OfListener DEF RingTypeOK
<1>7. pos'[c] \in -1..MaxPos /\ left'[c] \in 0..ReadLen /\ pos'[c] <= ulBufPos
      /\ Begun(c)' = Begun(c) /\ pos'[c] + left'[c] = pos[c] + left[c]
  BY <1>4, <1>5, <1>6, OfListener DEF Begun
<1>8. RingTypeOK'
  <2>1. pos \in [Clients -> -1..MaxPos] /\ left \in [Clients -> 0..ReadLen]
    BY OfListener DEF RingTypeOK
  <2>2. pos' \in [Clients -> -1..MaxPos] /\ left' \in [Clients -> 0..ReadLen]
    BY <1>1, <1>6, <1>7, <2>1
  <2> QED
    BY <1>2, <2>2, OfListener DEF RingTypeOK
<1>9. Apart(c)
  BY <1>1, <1>2, OfListener DEF Apart, RingTypeOK
<1>10. ReaderSound(c)'
  <2>1. "wrapped" \notin edge => ulBufPos - pos[c] < Width /\ seen[c] - Begun(c) <= Reach
    BY <1>2, <1>3, <1>5 DEF ReaderSound
  <2>2. "wrapped" \notin edge' => ulBufPos' - pos'[c] < Width /\ seen'[c] - Begun(c)' <= Reach
    BY <1>2, <1>5, <1>6, <1>7, <2>1, OfListener, RingBounds
  <2>3. place'[c] = "copy" /\ from'[c] = Page(Begun(c))' /\ Begun(c)' >= 0
        /\ pos'[c] + left'[c] < seen'[c] /\ seen'[c] <= ulBufPos' /\ pos'[c] <= ulBufPos'
    BY <1>2, <1>4, <1>7 DEF Page, Bits
  <2> QED
    BY <2>2, <2>3 DEF ReaderSound
<1>11. ASSUME NEW f \in Nat, Held(f), edge' = {} PROVE HeldOf(c, f)'
  <2>1. HeldOf(c, f)
    BY <1>2, <1>11 DEF Held
  <2>2. OnRing(Begun(c))' /\ Number(Begun(c))' >= f
    BY <1>2, <1>7, <2>1 DEF HeldOf, OnRing, Latest, Number
  <2> QED
    BY <1>2, <2>2 DEF HeldOf
<1>12. ASSUME edge' = {} PROVE \A p \in PageNos : PageCounted(p)'
  <2>1. \A p \in PageNos : StandsOn(c, p)' <=> StandsOn(c, p)
    BY <1>2 DEF StandsOn
  <2>2. UNCHANGED ulUsed /\ edge \subseteq edge'
    BY <1>2
  <2> QED
    BY <1>9, <1>12, <2>1, <2>2, CountsStay
<1>13. edge \subseteq edge'
  BY <1>2
<1> QED
  BY <1>8, <1>9, <1>10, <1>11, <1>12, <1>13, ListenerSteps

LEMMA OneMore ==
  ASSUME NEW c \in Clients, Apart(c), NEW p, StandsOn(c, p)', ~StandsOn(c, p)
  PROVE  /\ Cardinality(Standing(p)') = Cardinality(Standing(p)) + 1
         /\ Cardinality(Standing(p)) + 1 <= Cardinality(Clients)
<1>1. Standing(p)' = Standing(p) \cup {c} /\ c \notin Standing(p)
  BY OthersStand DEF Standing
<1>2. Cardinality(Standing(p) \cup {c}) = Cardinality(Standing(p)) + 1
  BY <1>1, StandingFinite, FS_AddElement
<1>3. Standing(p) \cup {c} \in SUBSET Clients
  BY DEF Standing
<1>4. Cardinality(Standing(p) \cup {c}) <= Cardinality(Clients)
  BY <1>3, RingBounds, FS_Subset
<1> QED
  BY <1>1, <1>2, <1>4

LEMMA OneLess ==
  ASSUME NEW c \in Clients, Apart(c), NEW p, ~(StandsOn(c, p)'), StandsOn(c, p)
  PROVE  Cardinality(Standing(p)') = Cardinality(Standing(p)) - 1 /\ Cardinality(Standing(p)) >= 1
<1>1. Standing(p)' = Standing(p) \ {c} /\ c \in Standing(p)
  BY OthersStand DEF Standing
<1>2. Cardinality(Standing(p) \ {c}) = Cardinality(Standing(p)) - 1
  BY <1>1, StandingFinite, FS_RemoveElement
<1>3. Cardinality(Standing(p)) # 0 /\ Cardinality(Standing(p)) \in Nat
  BY <1>1, StandingFinite, FS_EmptySet
<1> QED
  BY <1>1, <1>2, <1>3

LEMMA CountStays ==
  ASSUME RingInv, edge = {}, NEW c \in Clients, Apart(c), NEW p \in PageNos, ulUsed'[p] = ulUsed[p],
         StandsOn(c, p)' <=> StandsOn(c, p)
  PROVE  PageCounted(p)'
<1>1. PageCounted(p)
  BY DEF RingInv, Counted
<1>2. Standing(p)' = Standing(p)
  BY OthersStand DEF Standing
<1>3. Coming' = Coming
  BY DEF Apart, Coming, Page, Bits
<1> QED
  BY <1>1, <1>2, <1>3 DEF PageCounted

(* What a count is, as far as arithmetic goes.                             *)
LEMMA CountIs ==
  ASSUME RingInv, edge = {}, NEW p \in PageNos
  PROVE  /\ ulUsed[p] \in Nat /\ ulUsed[p] <= Width - 1 /\ Width \in Nat \ {0}
         /\ Cardinality(Standing(p)) \in Nat /\ ulUsed[p] >= Cardinality(Standing(p))
         /\ p # Coming => ulUsed[p] = Cardinality(Standing(p))
         /\ ulUsed[p] <= MaxUsed \/ ulUsed[p] <= Cardinality(Clients)
         /\ MaxUsed \in Nat /\ MaxUsed <= Width - 1
         /\ Cardinality(Clients) \in Nat /\ Cardinality(Clients) <= Width - 1
<1>1. PageCounted(p) /\ ulUsed \in [PageNos -> 0..Width-1]
  BY DEF RingInv, Counted, RingTyped, RingTypeOK
<1>2. ulUsed[p] \in 0..Width-1
  BY <1>1
<1> QED
  BY <1>1, <1>2, RingBounds, StandingFinite DEF PageCounted

LEMMA CountGrows ==
  ASSUME RingInv, edge = {}, NEW c \in Clients, Apart(c), NEW p \in PageNos,
         StandsOn(c, p)', ~StandsOn(c, p), ulUsed'[p] = Bits(ulUsed[p] + 1),
         p # Coming \/ ulUsed[p] < MaxUsed
  PROVE  PageCounted(p)'
<1> DEFINE u == ulUsed[p]
           n == Cardinality(Standing(p))
<1>1. Coming' = Coming
  BY DEF Apart, Coming, Page, Bits
<1>2. Cardinality(Standing(p)') = n + 1 /\ n + 1 <= Cardinality(Clients)
  BY OneMore
<1>3. /\ u \in Nat /\ u <= Width - 1 /\ Width \in Nat \ {0} /\ n \in Nat /\ u >= n
      /\ p # Coming => u = n
      /\ MaxUsed \in Nat /\ MaxUsed <= Width - 1
      /\ Cardinality(Clients) \in Nat /\ Cardinality(Clients) <= Width - 1
      /\ p # Coming \/ u < MaxUsed
  BY CountIs
<1> HIDE DEF u, n
<1>4. u + 1 \in 0..Width-1 /\ (u + 1 <= MaxUsed \/ u + 1 <= Cardinality(Clients))
  BY <1>2, <1>3
<1>5. ulUsed'[p] = u + 1
  <2>1. (u + 1) % Width = u + 1
    BY <1>3, <1>4, ModOf
  <2> QED
    BY <2>1 DEF Bits, u
<1>6. /\ ulUsed'[p] >= Cardinality(Standing(p)')
      /\ p # Coming => ulUsed'[p] = Cardinality(Standing(p)')
      /\ ulUsed'[p] <= MaxUsed \/ ulUsed'[p] <= Cardinality(Clients)
  BY <1>2, <1>3, <1>4, <1>5
<1> QED
  BY <1>1, <1>6 DEF PageCounted

LEMMA CountFalls ==
  ASSUME RingInv, edge = {}, NEW c \in Clients, Apart(c), NEW p \in PageNos,
         ~(StandsOn(c, p)'), StandsOn(c, p),
         \/ ulUsed'[p] = Bits(ulUsed[p] - 1)
         \/ ulUsed'[p] = ulUsed[p] - 1
         \/ p = Coming /\ ulUsed'[p] = ulUsed[p]
  PROVE  PageCounted(p)'
<1> DEFINE u == ulUsed[p]
           n == Cardinality(Standing(p))
<1>1. Coming' = Coming
  BY DEF Apart, Coming, Page, Bits
<1>2. Cardinality(Standing(p)') = n - 1 /\ n >= 1
  BY OneLess
<1>3. /\ u \in Nat /\ u <= Width - 1 /\ Width \in Nat \ {0} /\ n \in Nat /\ u >= n
      /\ p # Coming => u = n
      /\ MaxUsed \in Nat /\ Cardinality(Clients) \in Nat
      /\ u <= MaxUsed \/ u <= Cardinality(Clients)
  BY CountIs
<1>4. \/ ulUsed'[p] = Bits(u - 1)
      \/ ulUsed'[p] = u - 1
      \/ p = Coming /\ ulUsed'[p] = u
  OBVIOUS
<1> HIDE DEF u, n
<1>5. ulUsed'[p] = u - 1 \/ (p = Coming /\ ulUsed'[p] = u)
  <2>1. u - 1 \in 0..Width-1
    BY <1>2, <1>3
  <2>2. (u - 1) % Width = u - 1
    BY <1>3, <2>1, ModOf
  <2> QED
    BY <1>4, <2>2 DEF Bits
<1>6. /\ ulUsed'[p] >= Cardinality(Standing(p)')
      /\ p # Coming => ulUsed'[p] = Cardinality(Standing(p)')
      /\ ulUsed'[p] <= MaxUsed \/ ulUsed'[p] <= Cardinality(Clients)
  BY <1>2, <1>3, <1>5
<1> QED
  BY <1>1, <1>6 DEF PageCounted

LEMMA TakesPosition ==
  ASSUME RingInv, NEW c \in Clients, UseSyncPos(c), place' = [place EXCEPT ![c] = "idle"],
         place[c] = "away" \/ (place[c] = "idle" /\ IsNone(pos[c]))
  PROVE  RingInv'
<1> DEFINE q == Page(ulSyncPos)
<1>1. /\ todo = 0 /\ ~IsNone(ulSyncPos) /\ ulUsed[q] < MaxUsed
      /\ pos' = [pos EXCEPT ![c] = ulSyncPos]
      /\ ulUsed' = [ulUsed EXCEPT ![q] = Bits(@ + 1)]
      /\ UNCHANGED <<psMethods, ulBufPos, todo, ulSyncPos, ulBufLastPage, present>>
      /\ UNCHANGED <<left, from, seen, edge>>
  BY DEF UseSyncPos, Unlocked, Countable, Count
<1>2. /\ RingTypeOK /\ ReaderSound(c) /\ ulSyncPos \in Int /\ ulSyncPos <= ulBufPos + todo
      /\ ulBufPos \in Int
  BY OfListener DEF RingTyped
<1>3. q \in PageNos /\ q = Number(ulSyncPos) % Pages
  BY <1>2, PageIs
<1>4. pos'[c] = ulSyncPos /\ place'[c] = "idle" /\ ulSyncPos # None
  BY <1>1, <1>2 DEF RingTypeOK, IsNone
<1> HIDE DEF q
<1>5. RingTypeOK'
  <2>1. ulUsed' \in [PageNos -> 0..Width-1]
    <3>1. ulUsed[q] \in Int /\ Width \in Nat \ {0}
      BY <1>2, <1>3, RingBounds DEF RingTypeOK
    <3>2. Bits(ulUsed[q] + 1) \in 0..Width-1
      <4>1. ulUsed[q] + 1 \in Int
        BY <3>1
      <4> QED
        BY <3>1, <4>1, DivMod DEF Bits
    <3> QED
      BY <1>1, <1>2, <3>2 DEF RingTypeOK
  <2>2. pos' \in [Clients -> -1..MaxPos] /\ place' \in [Clients -> {"away", "idle", "copy", "dropped"}]
    BY <1>1, <1>2 DEF RingTypeOK
  <2> QED
    BY <1>1, <1>2, <2>1, <2>2 DEF RingTypeOK
<1>6. Apart(c)
  BY <1>1, <1>2 DEF Apart, RingTypeOK
<1>7. /\ OnRing(ulSyncPos)
      /\ \A f \in Nat : Stretch(f) => Number(ulSyncPos) >= f
  <2>1. PICK f \in Nat : Stretch(f)
    BY DEF RingInv
  <2>2. Number(ulSyncPos) \in Int /\ Latest \in Int
    <3>1. ulBufPos - 1 \in Int
      BY <1>2
    <3> QED
      BY <3>1, <1>2, NumberIs DEF Latest
  <2>3. Latest < f + Pages /\ Number(ulSyncPos) >= f
    BY <1>1, <2>1 DEF Stretch
  <2>4. OnRing(ulSyncPos)
    BY <2>2, <2>3, RingBounds DEF OnRing
  <2> QED
    BY <1>1, <2>4 DEF Stretch
<1>8. ulBufPos - ulSyncPos < Width /\ ulSyncPos <= ulBufPos
  <2>1. ulBufPos - ulSyncPos <= Ring
    BY <1>2, <1>7, Distances DEF OnRing, Latest
  <2> QED
    BY <1>1, <1>2, <2>1, RingBounds
<1>9. ReaderSound(c)'
  <2>1. ~IsNone(pos'[c]) /\ pos'[c] # None /\ pos'[c] <= ulBufPos' /\ ulBufPos' - pos'[c] < Width
        /\ place'[c] = "idle"
    BY <1>1, <1>4, <1>8
  <2> QED
    BY <2>1 DEF ReaderSound, IsNone, Bits
<1>10. ASSUME NEW f \in Nat, Stretch(f) PROVE HeldOf(c, f)'
  <2>1. Number(pos'[c]) >= f /\ place'[c] = "idle"
    BY <1>4, <1>7, <1>10
  <2> QED
    BY <2>1 DEF HeldOf, Number
<1>11. ASSUME edge' = {}, NEW p \in PageNos PROVE PageCounted(p)'
  <2>1. edge = {}
    BY <1>1, <1>11
  <2>2. ~StandsOn(c, p)
    <3>1. place[c] = "away" \/ pos[c] = None
      BY <1>2, <2>1 DEF ReaderSound
    <3>2. place[c] # "copy"
      OBVIOUS
    <3> QED
      BY <3>1, <3>2 DEF StandsOn
  <2>3. StandsOn(c, p)' <=> p = q
    <3>1. ulBufPos <= ulSyncPos - (ulSyncPos % PageSize) + Ring
      BY <1>2, <1>7, Distances DEF OnRing, Latest
    <3> QED
      BY <1>1, <1>4, <3>1 DEF StandsOn, q, Page, Bits
  <2>4. CASE p = q
    <3>1. ulUsed'[p] = Bits(ulUsed[p] + 1) /\ ulUsed[p] < MaxUsed
      BY <1>1, <1>2, <1>3, <2>4 DEF RingTypeOK
    <3> QED
      BY <1>6, <2>1, <2>2, <2>3, <2>4, <3>1, CountGrows
  <2>5. CASE p # q
    <3>1. ulUsed'[p] = ulUsed[p]
      BY <1>1, <1>2, <2>5 DEF RingTypeOK
    <3> QED
      BY <1>6, <2>1, <2>2, <2>3, <2>5, <3>1, CountStays
  <2> QED
    BY <2>4, <2>5
<1>12. edge \subseteq edge'
  BY <1>1
<1> QED
  BY <1>5, <1>6, <1>9, <1>10, <1>11, <1>12, ListenerSteps

LEMMA Joins ==
  ASSUME RingInv, NEW c \in Clients, ClientNew(c)
  PROVE  RingInv'
<1>1. place[c] = "away" /\ place' = [place EXCEPT ![c] = "idle"]
  BY DEF ClientNew
<1>2. CASE UseSyncPos(c)
  BY <1>1, <1>2, TakesPosition
<1>3. CASE UNCHANGED <<psMethods, ring, pos, left, from, seen, edge>>
  <2>1. /\ UNCHANGED <<psMethods, ulBufPos, todo, ulSyncPos, ulBufLastPage, present, ulUsed>>
        /\ UNCHANGED <<pos, left, from, seen, edge>>
    BY <1>3 DEF ring
  <2>2. RingTypeOK' /\ place'[c] = "idle"
    BY <1>1, <2>1, OfListener DEF RingTypeOK
  <2>3. Apart(c)
    BY <1>1, <2>1, OfListener DEF Apart, RingTypeOK
  <2>4. pos[c] = None /\ pos'[c] = None /\ pos[c] <= ulBufPos
    BY <1>1, <2>1, OfListener DEF ReaderSound
  <2>5. ReaderSound(c)'
    BY <2>1, <2>2, <2>4 DEF ReaderSound
  <2>6. ASSUME NEW f \in Nat PROVE HeldOf(c, f)'
    BY <2>2, <2>4 DEF HeldOf
  <2>7. ASSUME edge' = {} PROVE \A p \in PageNos : PageCounted(p)'
    <3>1. \A p \in PageNos : StandsOn(c, p)' <=> StandsOn(c, p)
      BY <1>1, <2>2, <2>4 DEF StandsOn
    <3>2. UNCHANGED ulUsed /\ edge \subseteq edge'
      BY <2>1
    <3> QED
      BY <2>3, <2>7, <3>1, <3>2, CountsStay
  <2>8. edge \subseteq edge'
    BY <2>1
  <2> QED
    BY <2>2, <2>3, <2>5, <2>6, <2>7, <2>8, ListenerSteps
<1> QED
  BY <1>2, <1>3 DEF ClientNew

LEMMA Synchronizes ==
  ASSUME RingInv, NEW c \in Clients, ReadSync(c)
  PROVE  RingInv'
<1>1. place[c] = "idle" /\ IsNone(pos[c]) /\ UseSyncPos(c) /\ place' = place
  BY DEF ReadSync
<1>2. place' = [place EXCEPT ![c] = "idle"]
  BY <1>1, OfListener DEF RingTypeOK
<1> QED
  BY <1>1, <1>2, TakesPosition

(* A read ends between its page and the latest.                            *)
LEMMA ReadsOn ==
  ASSUME RingInv, NEW c \in Clients, place[c] = "copy"
  PROVE  /\ Number(Begun(c)) \in Int /\ Number(pos[c]) \in Int /\ Latest \in Int
         /\ Number(Begun(c)) <= Number(pos[c]) /\ Number(pos[c]) <= Latest
         /\ from[c] = Number(Begun(c)) % Pages
<1>1. ReaderSound(c) /\ pos[c] \in Int /\ left[c] \in 0..ReadLen /\ ReadLen \in Nat /\ ulBufPos \in Int
      /\ seen[c] \in Int
  BY OfListener
<1>2. /\ Begun(c) >= 0 /\ from[c] = Page(Begun(c))
      /\ pos[c] + left[c] < seen[c] /\ seen[c] <= ulBufPos
  BY <1>1 DEF ReaderSound
<1>3. Begun(c) \in Int /\ Begun(c) <= pos[c] /\ ulBufPos - 1 \in Int /\ pos[c] <= ulBufPos - 1
  BY <1>1, <1>2 DEF Begun
<1> QED
  BY <1>1, <1>2, <1>3, NumberMonotone, NumberIs, PageIs DEF Latest

LEMMA EndsReading ==
  ASSUME RingInv, NEW c \in Clients, ReadEnd(c)
  PROVE  RingInv'
<1> DEFINE to == Page(pos[c])
           events == [wrapped |-> IsNone(pos[c])]
<1>1. /\ place[c] = "copy" /\ left[c] = 0
      /\ place' = [place EXCEPT ![c] = "idle"]
      /\ ulUsed' = IF to = from[c] THEN ulUsed
                   ELSE [ulUsed EXCEPT ![from[c]] = Bits(@ - 1), ![to] = Bits(@ + 1)]
      /\ seen' = [seen EXCEPT ![c] = 0] /\ from' = [from EXCEPT ![c] = 0]
      /\ UNCHANGED <<psMethods, ulBufPos, todo, ulSyncPos, ulBufLastPage, present, pos, left>>
  BY DEF ReadEnd
<1>2. Record(events)
  BY DEF ReadEnd
<1>3. edge \subseteq edge' /\ (IsNone(pos[c]) => "wrapped" \in edge') /\ edge' \subseteq Edges
  <2>1. DOMAIN events = {"wrapped"} /\ events["wrapped"] = IsNone(pos[c])
    OBVIOUS
  <2> HIDE DEF events
  <2>2. edge \subseteq Edges
    BY OfListener DEF RingTypeOK
  <2>3. edge \subseteq edge' /\ (\A e \in DOMAIN events : events[e] => e \in edge')
        /\ \A e \in edge' : e \in edge \/ e \in DOMAIN events
    BY <1>2, Remembered
  <2> QED
    BY <2>1, <2>2, <2>3, Zenon DEF Edges
<1>4. to \in PageNos /\ to = Number(pos[c]) % Pages
  BY OfListener, PageIs
<1>5. /\ Number(Begun(c)) \in Int /\ Number(pos[c]) \in Int /\ Latest \in Int
      /\ Number(Begun(c)) <= Number(pos[c]) /\ Number(pos[c]) <= Latest
      /\ from[c] = Number(Begun(c)) % Pages /\ from[c] \in PageNos
  BY <1>1, ReadsOn, OfListener DEF RingTypeOK
<1> HIDE DEF to
<1>6. /\ place'[c] = "idle" /\ pos'[c] = pos[c] /\ left'[c] = 0
      /\ RingTypeOK'
  <2>1. RingTypeOK
    BY OfListener
  <2>2. place'[c] = "idle" /\ pos'[c] = pos[c] /\ left'[c] = 0
    BY <1>1, <2>1 DEF RingTypeOK
  <2>3. seen' \in [Clients -> 0..MaxPos] /\ from' \in [Clients -> PageNos]
        /\ place' \in [Clients -> {"away", "idle", "copy", "dropped"}]
    BY <1>1, <2>1, RingBounds DEF RingTypeOK, PageNos
  <2>4. ulUsed' \in [PageNos -> 0..Width-1]
    <3>1. \A p \in PageNos : Bits(ulUsed[p] - 1) \in 0..Width-1 /\ Bits(ulUsed[p] + 1) \in 0..Width-1
      <4> TAKE p \in PageNos
      <4>1. ulUsed[p] - 1 \in Int /\ ulUsed[p] + 1 \in Int /\ Width \in Nat \ {0}
        BY <2>1, RingBounds DEF RingTypeOK
      <4> QED
        BY <4>1, DivMod DEF Bits
    <3>2. ulUsed \in [PageNos -> 0..Width-1]
      BY <2>1 DEF RingTypeOK
    <3>3. CASE to = from[c]
      BY <1>1, <3>2, <3>3
    <3>4. CASE to # from[c]
      BY <1>1, <1>4, <1>5, <3>1, <3>2, <3>4
    <3> QED
      BY <3>3, <3>4
  <2> QED
    BY <1>1, <1>3, <2>1, <2>2, <2>3, <2>4 DEF RingTypeOK
<1>7. Apart(c)
  BY <1>1, OfListener DEF Apart, RingTypeOK
<1>8. pos[c] # None /\ pos[c] >= 0 /\ pos[c] < ulBufPos
  <2>1. ReaderSound(c) /\ pos[c] \in Int /\ left[c] = 0 /\ ReadLen \in Nat /\ seen[c] \in Int /\ ulBufPos \in Int
    BY <1>1, OfListener
  <2> QED
    BY <1>1, <2>1 DEF ReaderSound, Begun, None
<1>9. ReaderSound(c)'
  <2>1. ReaderSound(c)
    BY OfListener
  <2>2. "wrapped" \notin edge' => "wrapped" \notin edge /\ ~IsNone(pos[c])
    BY <1>3
  <2>3. pos[c] <= ulBufPos
    BY <2>1 DEF ReaderSound
  <2> QED
    BY <1>1, <1>6, <1>8, <2>1, <2>2, <2>3 DEF ReaderSound, IsNone, Bits
<1>10. ASSUME NEW f \in Nat, Held(f), edge' = {} PROVE HeldOf(c, f)'
  <2>1. edge = {}
    BY <1>3, <1>10
  <2>2. Number(Begun(c)) >= f
    BY <1>1, <1>10, <2>1 DEF Held, HeldOf
  <2>3. Number(pos'[c]) >= f
    BY <1>5, <1>6, <2>2
  <2> QED
    BY <1>6, <2>3 DEF HeldOf, Number
<1>11. ASSUME edge' = {}, NEW p \in PageNos PROVE PageCounted(p)'
  <2>1. edge = {}
    BY <1>3, <1>11
  <2>2. Latest < Number(Begun(c)) + Pages
    <3>1. \E f \in Nat : Held(f)
      BY DEF RingInv
    <3> QED
      BY <1>1, <2>1, <3>1 DEF Held, HeldOf, OnRing
  <2>3. OnRing(pos[c])
    BY <1>5, <2>2, RingBounds DEF OnRing
  <2>4. StandsOn(c, p) <=> p = from[c]
    BY <1>1 DEF StandsOn
  <2>5. StandsOn(c, p)' <=> p = to
    <3>1. ulBufPos <= pos[c] - (pos[c] % PageSize) + Ring
      BY <2>3, OfListener, Distances DEF OnRing, Latest
    <3> QED
      BY <1>1, <1>6, <1>8, <3>1 DEF StandsOn, to, Page, Bits
  <2>6. CASE to = from[c] \/ p \notin {to, from[c]}
    <3>1. ulUsed'[p] = ulUsed[p]
      BY <1>1, <2>6, OfListener DEF RingTypeOK
    <3> QED
      BY <1>7, <2>1, <2>4, <2>5, <2>6, <3>1, CountStays
  <2>7. CASE to # from[c] /\ p = from[c]
    <3>1. ulUsed'[p] = Bits(ulUsed[p] - 1)
      BY <1>1, <2>7, OfListener DEF RingTypeOK
    <3> QED
      BY <1>7, <2>1, <2>4, <2>5, <2>7, <3>1, CountFalls
  <2>8. CASE to # from[c] /\ p = to
    <3>1. ulUsed'[p] = Bits(ulUsed[p] + 1)
      BY <1>1, <2>8, OfListener DEF RingTypeOK
    <3>2. p # Coming
      <4>1. Coming = (Latest + 1) % Pages
        BY OfListener, ComingIs
      <4>2. Number(Begun(c)) # Number(pos[c])
        BY <1>4, <1>5, <2>8
      <4> DEFINE m == Latest + 1
                 b == Number(pos[c])
      <4>3. m \in Int /\ b \in Int /\ b <= m /\ m - b < Pages /\ b # m /\ Pages \in Nat \ {0}
        <5> DEFINE a == Number(Begun(c))
        <5>1. a \in Int /\ b \in Int /\ Latest \in Int /\ a <= b /\ b <= Latest /\ a # b /\ Latest < a + Pages
          BY <1>5, <2>2, <4>2
        <5>2. Pages \in Nat \ {0}
          BY RingBounds
        <5> HIDE DEF a, b
        <5> QED
          BY <5>1, <5>2
      <4> HIDE DEF m, b
      <4>4. b % Pages # m % Pages
        BY <4>3, ModApart
      <4> QED
        BY <1>4, <2>8, <4>1, <4>4 DEF m, b
    <3> QED
      BY <1>7, <2>1, <2>4, <2>5, <2>8, <3>1, <3>2, CountGrows
  <2> QED
    BY <2>6, <2>7, <2>8
<1> QED
  BY <1>3, <1>6, <1>7, <1>9, <1>10, <1>11, ListenerSteps

LEMMA Leaves ==
  ASSUME RingInv, NEW c \in Clients, ClientDestroy(c)
  PROVE  RingInv'
<1> DEFINE q == Page(pos[c])
           counted == Behind(pos[c]) <= Reach /\ ulUsed[q] > 0
           events == [wrapped |-> pos[c] = None /\ counted]
<1>1. /\ place[c] \in {"idle", "dropped"}
      /\ place' = [place EXCEPT ![c] = "away"]
      /\ pos' = [pos EXCEPT ![c] = None]
      /\ ulUsed' = IF counted THEN [ulUsed EXCEPT ![q] = @ - 1] ELSE ulUsed
      /\ UNCHANGED <<psMethods, ulBufPos, todo, ulSyncPos, ulBufLastPage, present, left, from, seen>>
  BY DEF ClientDestroy
<1>2. Record(events)
  BY DEF ClientDestroy
<1>3. edge \subseteq edge' /\ (pos[c] = None /\ counted => "wrapped" \in edge') /\ edge' \subseteq Edges
  <2> HIDE DEF counted
  <2>1. DOMAIN events = {"wrapped"} /\ events["wrapped"] = (pos[c] = None /\ counted)
    OBVIOUS
  <2> HIDE DEF events
  <2>2. edge \subseteq Edges
    BY OfListener DEF RingTypeOK
  <2>3. edge \subseteq edge' /\ (\A e \in DOMAIN events : events[e] => e \in edge')
        /\ \A e \in edge' : e \in edge \/ e \in DOMAIN events
    BY <1>2, Remembered
  <2> QED
    BY <2>1, <2>2, <2>3, Zenon DEF Edges
<1>4. q \in PageNos /\ q = Number(pos[c]) % Pages
  BY OfListener, PageIs
<1> HIDE DEF q
<1>5. place'[c] = "away" /\ pos'[c] = None /\ RingTypeOK'
  <2>1. RingTypeOK
    BY OfListener
  <2>2. place'[c] = "away" /\ pos'[c] = None
    BY <1>1, <2>1 DEF RingTypeOK
  <2>3. pos' \in [Clients -> -1..MaxPos] /\ place' \in [Clients -> {"away", "idle", "copy", "dropped"}]
    BY <1>1, <2>1, RingBounds DEF RingTypeOK, None
  <2>4. ulUsed' \in [PageNos -> 0..Width-1]
    <3>1. ulUsed \in [PageNos -> 0..Width-1] /\ Width \in Nat
      BY <2>1, RingBounds DEF RingTypeOK
    <3>2. ulUsed[q] \in 0..Width-1
      BY <1>4, <3>1
    <3>3. CASE counted
      <4>1. ulUsed[q] - 1 \in 0..Width-1
        BY <3>1, <3>2, <3>3
      <4> QED
        BY <1>1, <3>1, <3>3, <4>1
    <3>4. CASE ~counted
      BY <1>1, <3>1, <3>4
    <3> QED
      BY <3>3, <3>4
  <2> QED
    BY <1>1, <1>3, <2>1, <2>3, <2>4 DEF RingTypeOK
<1>6. Apart(c)
  BY <1>1, OfListener DEF Apart, RingTypeOK
<1>7. ReaderSound(c)'
  BY <1>1, <1>5, OfListener DEF ReaderSound, None
<1>8. ASSUME NEW f \in Nat PROVE HeldOf(c, f)'
  BY <1>5 DEF HeldOf
<1>9. ASSUME edge' = {}, NEW p \in PageNos PROVE PageCounted(p)'
  <2>1. edge = {} /\ ~(pos[c] = None /\ counted)
    BY <1>3, <1>9
  <2>2. ~(StandsOn(c, p)')
    BY <1>5 DEF StandsOn
  <2>3. CASE ~StandsOn(c, p)
    <3>1. ulUsed'[p] = ulUsed[p]
      <4>1. CASE counted /\ p = q
        <5>1. pos[c] # None
          BY <2>1, <4>1
        <5>2. ~OnRing(pos[c])
          BY <1>1, <1>4, <2>3, <4>1, <5>1, OfListener, StandingIs
        <5>3. ReaderSound(c) /\ pos[c] \in Int /\ ulBufPos \in Int
          BY OfListener
        <5>4. pos[c] <= ulBufPos /\ ulBufPos - pos[c] < Width
          BY <2>1, <5>1, <5>3 DEF ReaderSound
        <5>5. Behind(pos[c]) = ulBufPos - pos[c]
          BY <5>3, <5>4, BehindIs
        <5>6. ulBufPos - pos[c] <= Reach
          BY <4>1, <5>5
        <5> QED
          BY <5>2, <5>3, <5>6, Distances DEF OnRing, Latest
      <4>2. CASE ~(counted /\ p = q)
        <5> HIDE DEF counted
        <5> QED
          BY <1>1, <4>2, OfListener DEF RingTypeOK
      <4> QED
        BY <4>1, <4>2
    <3> QED
      BY <1>6, <2>1, <2>2, <2>3, <3>1, CountStays
  <2>4. CASE StandsOn(c, p)
    <3>1. pos[c] # None /\ p = q /\ OnRing(pos[c])
      BY <1>1, <1>4, <2>4, OfListener, StandingIs
    <3>2. ulUsed[p] > 0
      <4>1. Cardinality(Standing(p)) >= 1
        BY <1>6, <2>2, <2>4, OneLess
      <4> QED
        BY <2>1, <4>1, CountIs
    <3>3. CASE Behind(pos[c]) <= Reach
      <4>1. ulUsed'[p] = ulUsed[p] - 1
        BY <1>1, <3>1, <3>2, <3>3, OfListener DEF RingTypeOK
      <4> QED
        BY <1>6, <2>1, <2>2, <2>4, <4>1, CountFalls
    <3>4. CASE ~(Behind(pos[c]) <= Reach)
      <4>1. ulUsed'[p] = ulUsed[p]
        BY <1>1, <3>4
      <4>2. ReaderSound(c) /\ pos[c] \in Int /\ ulBufPos \in Int /\ Reach \in Int
        BY OfListener, RingBounds
      <4>3. pos[c] <= ulBufPos
        BY <4>2 DEF ReaderSound
      <4>4. Behind(pos[c]) \in Int /\ Behind(pos[c]) <= ulBufPos - pos[c]
        BY <4>2, <4>3, BehindIs
      <4>5. ulBufPos - pos[c] > Reach
        BY <3>4, <4>2, <4>4
      <4>6. Latest + 1 = Number(pos[c]) + Pages
        BY <3>1, <4>2, <4>5, Distances DEF OnRing, Latest
      <4>7. Coming = (Number(pos[c]) + Pages) % Pages
        BY <4>2, <4>6, ComingIs
      <4>8. Number(pos[c]) \in Int /\ Pages \in Nat \ {0}
        <5>1. pos[c] \in Int
          BY <4>2
        <5>2. Pages \in Nat \ {0}
          BY RingBounds
        <5> QED
          BY <5>1, <5>2, NumberIs
      <4>9. p = Coming
        BY <1>4, <3>1, <4>7, <4>8, ModShift
      <4> QED
        BY <1>6, <2>1, <2>2, <2>4, <4>1, <4>9, CountFalls
    <3> QED
      BY <3>3, <3>4
  <2> QED
    BY <2>3, <2>4
<1> QED
  BY <1>3, <1>5, <1>6, <1>7, <1>8, <1>9, ListenerSteps

LEMMA LatestIs ==
  ASSUME ulBufPos \in Nat
  PROVE  /\ Number(ulBufPos) \in Int /\ Latest \in Int
         /\ ulBufPos % PageSize = 0 => Number(ulBufPos) = Latest + 1
         /\ ulBufPos % PageSize # 0 => Number(ulBufPos) = Latest /\ ulBufPos > 0
<1>1. ulBufPos \in Int /\ ulBufPos - 1 \in Int /\ PageSize \in Nat \ {0}
  BY RingBounds
<1>2. ulBufPos % PageSize \in 0..PageSize-1
  BY <1>1, NumberIs
<1>3. 1 \in 1..(PageSize - (ulBufPos % PageSize))
  BY <1>1, <1>2
<1>4. /\ ulBufPos % PageSize = 0 => Number(ulBufPos - 1) = Number(ulBufPos) - 1
      /\ ulBufPos % PageSize # 0 => Number(ulBufPos - 1) = Number(ulBufPos)
  BY <1>1, <1>3, WithinPage
<1>5. Number(ulBufPos) \in Int /\ Number(ulBufPos - 1) \in Int
  BY <1>1, NumberIs
<1>6. ulBufPos % PageSize # 0 => ulBufPos > 0
  <2>1. 0 \in 0..PageSize-1
    BY <1>1
  <2>2. 0 % PageSize = 0
    BY <1>1, <2>1, ModOf
  <2> QED
    BY <2>2
<1> QED
  BY <1>4, <1>5, <1>6 DEF Latest

LEMMA BeginsToWrite ==
  ASSUME RingInv, NEW n \in Writes, NEW sync \in {ulBufPos, ulBufPos + n, ulSyncPos}, WriteBegin(n, sync)
  PROVE  RingInv'
<1>1. /\ todo = 0 /\ ulBufPos + n <= MaxPos /\ todo' = n /\ ulSyncPos' = sync
      /\ UNCHANGED <<psMethods, ulBufPos, ulBufLastPage, present, ulUsed>>
      /\ UNCHANGED <<pos, place, left, from, seen, edge>>
  BY DEF WriteBegin, Unlocked, reader
<1>2. RingTyped /\ RingTypeOK
  BY DEF RingInv, RingTyped
<1>3. /\ ulBufPos \in Nat /\ n \in Nat /\ n >= 1 /\ MaxPos \in Nat
      /\ ulSyncPos \in -1..MaxPos /\ ulSyncPos <= ulBufPos + todo
  BY <1>2, RingBounds DEF RingTyped, RingTypeOK
<1>4. RingTyped'
  <2>1. sync \in -1..MaxPos /\ sync <= ulBufPos + n /\ n \in 0..MaxPos
    BY <1>1, <1>3
  <2> QED
    BY <1>1, <1>2, <2>1 DEF RingTyped, RingTypeOK
<1>5. ASSUME NEW c \in Clients PROVE ReaderSound(c)'
  <2>1. ReaderSound(c)
    BY DEF RingInv
  <2> QED
    BY <1>1, <2>1 DEF ReaderSound, Begun, IsNone, Bits, Page
<1>6. PICK f \in Nat : Stretch(f) /\ Held(f)
  BY DEF RingInv
<1>7. Stretch(f)'
  <2>1. ASSUME ~IsNone(sync) PROVE Number(sync) >= f
    <3>1. Number(ulBufPos) >= f /\ Number(ulBufPos) \in Int
      <4>1. f <= Latest + 1 /\ (ulBufPos > 0 => f <= Latest)
        BY <1>6 DEF Stretch
      <4> QED
        BY <1>3, <4>1, LatestIs
    <3>2. CASE sync = ulSyncPos
      BY <1>6, <2>1, <3>2 DEF Stretch
    <3>3. CASE sync \in {ulBufPos, ulBufPos + n}
      <4>1. sync \in Int /\ ulBufPos \in Int /\ ulBufPos <= sync
        BY <1>3, <3>3
      <4>2. Number(ulBufPos) <= Number(sync) /\ Number(sync) \in Int
        BY <4>1, NumberMonotone, NumberIs
      <4> QED
        BY <3>1, <4>2
    <3> QED
      BY <3>2, <3>3
  <2>2. Latest' = Latest
    BY <1>1 DEF Latest, Number
  <2>3. ~IsNone(ulSyncPos') => Number(ulSyncPos') >= f
    BY <1>1, <2>1
  <2> QED
    BY <1>1, <1>6, <2>2, <2>3 DEF Stretch, IsNone, Bits, Number
<1>8. Held(f)'
  BY <1>1, <1>6 DEF Held, HeldOf, OnRing, Begun, Latest, Number
<1>9. Counted'
  <2>1. ASSUME NEW p \in PageNos PROVE Standing(p)' = Standing(p)
    BY <1>1 DEF Standing, StandsOn, Page, Bits
  <2>2. Coming' = Coming
    BY <1>1 DEF Coming, Page, Bits
  <2>3. Counted
    BY DEF RingInv
  <2>4. ASSUME edge = {}, NEW p \in PageNos PROVE PageCounted(p)'
    <3>1. PageCounted(p)
      BY <2>3, <2>4 DEF Counted
    <3> QED
      BY <1>1, <2>1, <2>2, <3>1 DEF PageCounted
  <2> QED
    BY <1>1, <2>4 DEF Counted
<1> QED
  BY <1>4, <1>5, <1>6, <1>7, <1>8, <1>9 DEF RingInv

(* Who stands on a page after a turn of _BufWrite.                         *)
LEMMA StandingThen ==
  ASSUME RingTyped, WritePage, NEW c \in Clients, NEW p
  PROVE  StandsOn(c, p)' <=>
              \/ place[c] = "copy" /\ from[c] = p
              \/ /\ place[c] \in {"idle", "dropped"} /\ pos[c] # None
                 /\ Number(pos[c]) % Pages = p /\ Latest' < Number(pos[c]) + Pages
<1>1. /\ UNCHANGED <<pos, place, from>> /\ ulBufPos' \in Nat
  BY PageWritten DEF reader
<1>2. pos[c] \in Int /\ ulBufPos' \in Int
  BY <1>1 DEF RingTyped, RingTypeOK
<1>3. Page(pos[c]) = Number(pos[c]) % Pages
  BY <1>2, PageIs
<1>4. ulBufPos' <= pos[c] - (pos[c] % PageSize) + Ring <=> Number(ulBufPos' - 1) < Number(pos[c]) + Pages
  BY <1>2, Distances
<1>5. Latest' = Number(ulBufPos' - 1)
  BY DEF Latest, Number
<1>6. StandsOn(c, p)' <=>
        \/ place[c] = "copy" /\ from[c] = p
        \/ /\ place[c] \in {"idle", "dropped"} /\ pos[c] # None /\ Page(pos[c]) = p
           /\ ulBufPos' <= pos[c] - (pos[c] % PageSize) + Ring
  BY <1>1 DEF StandsOn, Page, Bits
<1> QED
  BY <1>3, <1>4, <1>5, <1>6

LEMMA Within ==
  ASSUME NEW a \in Nat, NEW b \in Nat, NEW m \in Nat, NEW c \in Nat, NEW d \in Nat,
         a + b = c + d, c + d <= m
  PROVE  a \in 0..m /\ b \in 0..m /\ a + b <= m
OBVIOUS

LEMMA WriterTyped ==
  ASSUME RingInv, WritePage
  PROVE  RingTyped'
<1>1. RingTyped /\ RingTypeOK
  BY DEF RingInv, RingTyped
<1>2. /\ ulBufPos' \in Nat /\ todo' \in Nat /\ ulBufPos' + todo' = ulBufPos + todo
      /\ edge' \subseteq Edges
      /\ UNCHANGED <<psMethods, pos, place, left, from, seen>>
  BY <1>1, PageWritten DEF reader
<1>3. /\ ulBufPos \in Nat /\ todo \in Nat /\ MaxPos \in Nat /\ ulBufPos + todo <= MaxPos
      /\ ulSyncPos \in -1..MaxPos /\ ulSyncPos <= ulBufPos + todo
      /\ ulBufLastPage \in PageNos /\ present \subseteq PageNos /\ ulUsed \in [PageNos -> 0..Width-1]
  BY <1>1, RingBounds DEF RingTyped, RingTypeOK
<1>4. ulBufPos' \in 0..MaxPos /\ todo' \in 0..MaxPos /\ ulBufPos' + todo' <= MaxPos
  <2>1. /\ ulBufPos' \in Nat /\ todo' \in Nat /\ ulBufPos' + todo' = ulBufPos + todo
        /\ ulBufPos + todo <= MaxPos /\ MaxPos \in Nat /\ ulBufPos \in Nat /\ todo \in Nat
    BY <1>2, <1>3
  <2> DEFINE a == ulBufPos'
             b == todo'
             c == ulBufPos
             d == todo
  <2>2. a \in Nat /\ b \in Nat /\ a + b = c + d /\ c + d <= MaxPos /\ MaxPos \in Nat /\ c \in Nat /\ d \in Nat
    BY <2>1
  <2> HIDE DEF a, b, c, d
  <2>3. a \in 0..MaxPos /\ b \in 0..MaxPos /\ a + b <= MaxPos
    BY <2>2, Within
  <2> QED
    BY <2>3 DEF a, b
<1>5. /\ ulSyncPos' \in -1..MaxPos /\ ulSyncPos' <= ulBufPos' + todo'
      /\ ulBufLastPage' \in PageNos /\ present' \subseteq PageNos /\ ulUsed' \in [PageNos -> 0..Width-1]
  <2>1. CASE ulBufPos % PageSize = 0
    <3> DEFINE page == Page(ulBufPos)
               last == IF page \in present THEN (page + 1) % Pages ELSE ulBufLastPage
               k == Spare(last, page, ulSyncPos', ulUsed')
    <3>1. BeginPage
      BY <1>1, <2>1, PageWritten
    <3>2. /\ ulSyncPos' \in {None, ulSyncPos}
          /\ ulUsed' = [ulUsed EXCEPT ![page] = 0]
          /\ ulBufLastPage' = (last + k) % Pages
          /\ present' \subseteq present \cup {page}
      BY <3>1 DEF BeginPage
    <3>3. page \in PageNos /\ Pages \in Nat \ {0}
      BY <1>3, PageIs, RingBounds
    <3>4. last \in Int
      <4>1. page \in Int /\ ulBufLastPage \in Int
        BY <1>3, <3>3 DEF PageNos
      <4>2. page + 1 \in Int
        BY <4>1
      <4>3. (page + 1) % Pages \in 0..Pages-1
        BY <3>3, <4>2, DivMod
      <4> QED
        BY <4>1, <4>3
    <3> HIDE DEF last
    <3>5. k \in 0..Pages-1
      <4> HIDE DEF page
      <4> QED
        BY SpareIs
    <3> HIDE DEF k, page
    <3>6. (last + k) % Pages \in PageNos
      <4>1. last + k \in Int
        BY <3>4, <3>5
      <4> QED
        BY <3>3, <4>1, DivMod DEF PageNos
    <3>7. ulUsed' \in [PageNos -> 0..Width-1]
      <4>1. 0 \in 0..Width-1
        BY RingBounds
      <4> QED
        BY <1>3, <3>2, <4>1
    <3>8. ulSyncPos' \in -1..MaxPos /\ ulSyncPos' <= ulBufPos' + todo'
      <4>1. /\ ulBufPos' \in Nat /\ todo' \in Nat /\ ulBufPos' + todo' = ulBufPos + todo
            /\ ulBufPos \in Nat /\ todo \in Nat /\ MaxPos \in Nat
            /\ ulSyncPos \in -1..MaxPos /\ ulSyncPos <= ulBufPos + todo
        BY <1>2, <1>3
      <4>2. CASE ulSyncPos' = None
        <5> DEFINE a == ulBufPos'
                   b == todo'
        <5>1. a \in Nat /\ b \in Nat
          BY <1>2
        <5> HIDE DEF a, b
        <5>2. MaxPos \in Nat
          BY <1>3
        <5>3. -1 \in -1..MaxPos /\ -1 <= a + b
          BY <5>1, <5>2
        <5> QED
          BY <4>2, <5>3 DEF a, b, None
      <4>3. CASE ulSyncPos' = ulSyncPos
        <5>1. ulSyncPos <= ulBufPos' + todo'
          BY <4>1
        <5> QED
          BY <4>1, <4>3, <5>1
      <4> QED
        BY <3>2, <4>2, <4>3
    <3>9. present' \subseteq PageNos
      BY <1>3, <3>2, <3>3
    <3> QED
      BY <3>2, <3>6, <3>7, <3>8, <3>9
  <2>2. CASE ulBufPos % PageSize # 0
    BY <1>1, <1>2, <1>3, <2>2, PageWritten
  <2> QED
    BY <2>1, <2>2
<1> QED
  BY <1>1, <1>2, <1>4, <1>5 DEF RingTyped, RingTypeOK

LEMMA WriterReaders ==
  ASSUME RingInv, WritePage, NEW c \in Clients
  PROVE  ReaderSound(c)'
<1>1. RingTyped /\ ReaderSound(c) /\ pos[c] \in Int /\ ulBufPos \in Int /\ seen[c] \in Int
  BY OfListener
<1>2. /\ ulBufPos' \in Int /\ ulBufPos' > ulBufPos /\ edge \subseteq edge'
      /\ UNCHANGED <<pos, place, left, from, seen>>
      /\ "wrapped" \notin edge' => (pos[c] # None => ~(ulBufPos' - pos[c] >= Width))
  BY <1>1, PageWritten DEF reader
<1>3. /\ pos[c] <= ulBufPos' /\ (seen[c] <= ulBufPos => seen[c] <= ulBufPos')
      /\ "wrapped" \notin edge' => (pos[c] # None => ulBufPos' - pos[c] < Width)
      /\ ulBufPos - pos[c] > Reach => ulBufPos' - pos[c] > Reach
  BY <1>1, <1>2, RingBounds DEF ReaderSound
<1>4. "wrapped" \notin edge' => "wrapped" \notin edge
  BY <1>2
<1>5. Begun(c)' = Begun(c) /\ Page(Begun(c))' = Page(Begun(c)) /\ IsNone(pos[c])' = IsNone(pos[c])
  BY <1>2 DEF Begun, Page, IsNone, Bits
<1> QED
  BY <1>1, <1>2, <1>3, <1>4, <1>5 DEF ReaderSound

LEMMA WriterStretch ==
  ASSUME RingInv, WritePage
  PROVE  \E g \in Nat : Stretch(g)' /\ Held(g)'
<1>1. RingTyped /\ RingTypeOK /\ ulBufPos \in Nat /\ ulBufPos' \in Nat
  BY PageWritten, RingBounds DEF RingInv, RingTyped, RingTypeOK
<1>2. /\ edge \subseteq edge' /\ UNCHANGED <<pos, place, left, from>>
      /\ ulBufPos' > ulBufPos
  BY <1>1, PageWritten DEF reader
<1>3. PICK f \in Nat : Stretch(f) /\ Held(f)
  BY DEF RingInv
<1>4. Latest \in Int /\ Pages \in Nat \ {0}
  BY <1>1, LatestIs, RingBounds
<1>5. CASE ulBufPos % PageSize # 0
  <2>1. Latest' = Latest /\ UNCHANGED <<ulSyncPos, ulBufLastPage, present>>
    BY <1>1, <1>5, PageWritten
  <2>2. Stretch(f)'
    <3>1. f <= Latest
      BY <1>1, <1>3, <1>5, LatestIs DEF Stretch
    <3>2. ~IsNone(ulSyncPos') => Number(ulSyncPos') >= f
      BY <1>3, <2>1 DEF Stretch, IsNone
    <3> QED
      BY <1>3, <2>1, <3>1, <3>2 DEF Stretch
  <2>3. Held(f)'
    <3> SUFFICES ASSUME edge' = {}, NEW c \in Clients PROVE HeldOf(c, f)'
      BY DEF Held
    <3>1. HeldOf(c, f)
      BY <1>2, <1>3 DEF Held
    <3> QED
      BY <1>2, <2>1, <3>1 DEF HeldOf, OnRing, Begun, Number
  <2> QED
    BY <2>2, <2>3
<1>6. CASE ulBufPos % PageSize = 0
  <2>1. Latest' = Latest + 1 /\ BeginPage /\ Number(ulBufPos) = Latest + 1
    BY <1>1, <1>6, PageWritten, LatestIs
  <2>2. PICK g \in Nat : /\ f <= g /\ Stretch(g)'
                         /\ \A i \in f..g-1 : i + Pages = Latest + 1 \/ ulUsed[i % Pages] = 0
    BY <1>1, <1>3, <2>1, PageBegins
  <2>3. ASSUME edge' = {}, NEW c \in Clients, NEW i \in Int, StandsOn(c, i % Pages), i >= f, i + Pages # Latest + 1
        PROVE  i >= g
    <3>1. edge = {} /\ i % Pages \in PageNos
      BY <1>2, <1>4, <2>3, DivMod DEF PageNos
    <3>2. c \in Standing(i % Pages)
      BY <2>3 DEF Standing
    <3>3. Cardinality(Standing(i % Pages)) # 0
      BY <3>2, StandingFinite, FS_EmptySet
    <3>4. ulUsed[i % Pages] # 0
      BY <3>1, <3>3, CountIs
    <3> QED
      BY <2>2, <2>3, <3>4
  <2>4. Held(g)'
    <3> SUFFICES ASSUME edge' = {}, NEW c \in Clients PROVE HeldOf(c, g)'
      BY DEF Held
    <3>1. edge = {} /\ HeldOf(c, f)
      BY <1>2, <1>3 DEF Held
    <3>2. ASSUME place[c] = "copy"
          PROVE  Latest + 1 < Number(Begun(c)) + Pages /\ Number(Begun(c)) >= g
      <4> DEFINE a == Number(Begun(c))
      <4>1. a \in Int /\ from[c] = a % Pages /\ a >= f /\ Latest < a + Pages
        BY <3>1, <3>2, ReadsOn DEF HeldOf, OnRing
      <4>2. from[c] # Page(ulBufPos)
        <5>1. "overtaken" \notin edge'
          BY <3>1
        <5> QED
          BY <1>1, <1>6, <3>2, <5>1, PageWritten
      <4>3. Page(ulBufPos) = (Latest + 1) % Pages
        BY <1>1, <2>1, PageIs
      <4>4. a + Pages # Latest + 1
        <5> SUFFICES ASSUME a + Pages = Latest + 1 PROVE FALSE
          OBVIOUS
        <5> HIDE DEF a
        <5>1. (a + Pages) % Pages = a % Pages
          BY <1>4, <4>1, ModShift
        <5> QED
          BY <4>1, <4>2, <4>3, <5>1
      <4>5. StandsOn(c, a % Pages)
        BY <3>2, <4>1 DEF StandsOn
      <4> HIDE DEF a
      <4>6. a >= g
        BY <2>3, <4>1, <4>4, <4>5
      <4>7. Latest + 1 < a + Pages
        BY <1>4, <4>1, <4>4
      <4> QED
        BY <4>6, <4>7 DEF a
    <3>3. ASSUME place[c] \in {"idle", "dropped"}, pos[c] # None, Latest + 1 < Number(pos[c]) + Pages
          PROVE  Number(pos[c]) >= g
      <4> DEFINE b == Number(pos[c])
      <4>1. b \in Int /\ Latest < b + Pages /\ b + Pages # Latest + 1
        BY <1>4, <1>1, <3>3, StandingIs
      <4>2. OnRing(pos[c])
        BY <4>1 DEF OnRing
      <4>3. b >= f /\ StandsOn(c, b % Pages)
        BY <1>1, <3>1, <3>3, <4>2, StandingIs DEF HeldOf
      <4> HIDE DEF b
      <4>4. b >= g
        BY <2>3, <4>1, <4>3
      <4> QED
        BY <4>4 DEF b
    <3> QED
      BY <1>2, <2>1, <3>2, <3>3 DEF HeldOf, OnRing, Begun, Number
  <2> QED
    BY <2>2, <2>4
<1> QED
  BY <1>5, <1>6

LEMMA WriterCounted ==
  ASSUME RingInv, WritePage
  PROVE  Counted'
<1> SUFFICES ASSUME edge' = {}, NEW p \in PageNos
             PROVE  PageCounted(p)'
  BY DEF Counted
<1>1. RingTyped /\ RingTypeOK /\ ulBufPos \in Nat /\ ulBufPos' \in Nat
  BY PageWritten, RingBounds DEF RingInv, RingTyped, RingTypeOK
<1>2. edge = {} /\ UNCHANGED <<pos, place, left, from>>
  BY <1>1, PageWritten DEF reader
<1>3. PageCounted(p)
  BY <1>2 DEF RingInv, Counted
<1>4. Latest \in Int /\ Pages \in Nat \ {0}
  BY <1>1, LatestIs, RingBounds
<1>5. Coming = (Latest + 1) % Pages /\ Coming' = (Latest' + 1) % Pages
  <2>1. Page(ulBufPos' + ((-ulBufPos') % PageSize)) = (Number(ulBufPos' - 1) + 1) % Pages
    BY <1>1, StartAfter
  <2>2. Coming' = Page(ulBufPos' + ((-ulBufPos') % PageSize)) /\ Latest' = Number(ulBufPos' - 1)
    BY DEF Coming, Page, Bits, Latest, Number
  <2> QED
    BY <1>1, <2>1, <2>2, ComingIs
<1>6. CASE ulBufPos % PageSize # 0
  <2>1. Latest' = Latest /\ ulUsed' = ulUsed
    BY <1>1, <1>6, PageWritten
  <2>2. Standing(p)' = Standing(p)
    <3>1. ASSUME NEW c \in Clients PROVE StandsOn(c, p)' <=> StandsOn(c, p)
      BY <1>1, <2>1, StandingThen, StandingIs DEF OnRing
    <3> QED
      BY <3>1 DEF Standing
  <2> QED
    BY <1>3, <1>5, <2>1, <2>2 DEF PageCounted
<1>7. CASE ulBufPos % PageSize = 0
  <2> DEFINE q == Page(ulBufPos)
  <2>1. Latest' = Latest + 1 /\ Number(ulBufPos) = Latest + 1 /\ BeginPage
    BY <1>1, <1>7, PageWritten, LatestIs
  <2>2. q = (Latest + 1) % Pages
    BY <1>1, <2>1, PageIs
  <2>3. ulUsed' = [ulUsed EXCEPT ![q] = 0] /\ ulUsed \in [PageNos -> 0..Width-1]
    BY <1>1, <2>1 DEF BeginPage, RingTypeOK
  <2>4. CASE p = q
    <3>1. ASSUME NEW c \in Clients PROVE ~StandsOn(c, p)'
      <4> DEFINE b == Number(pos[c])
      <4>1. ASSUME place[c] = "copy", from[c] = p PROVE FALSE
        BY <1>1, <1>7, <2>4, <4>1, PageWritten
      <4>2. ASSUME place[c] \in {"idle", "dropped"}, pos[c] # None, b % Pages = p, Latest + 1 < b + Pages
            PROVE  FALSE
        <5>1. ReaderSound(c) /\ pos[c] \in Int /\ pos[c] <= ulBufPos
          BY OfListener DEF ReaderSound
        <5>2. b \in Int /\ b <= Latest + 1
          BY <1>1, <2>1, <5>1, NumberIs, NumberMonotone
        <5>3. b = Latest + 1
          <6> HIDE DEF b
          <6>1. Latest + 1 \in Int /\ (Latest + 1) - b < Pages
            BY <1>4, <4>2, <5>2
          <6>2. b % Pages = (Latest + 1) % Pages
            BY <2>2, <2>4, <4>2
          <6> QED
            BY <1>4, <5>2, <6>1, <6>2, ModApart
        <5>4. pos[c] = ulBufPos
          <6> DEFINE x == pos[c]
                     y == ulBufPos
          <6>1. /\ x = PageSize * Number(x) + (x % PageSize) /\ x % PageSize \in 0..PageSize-1
                /\ y = PageSize * Number(y) + (y % PageSize) /\ y % PageSize = 0
            BY <1>1, <1>7, <5>1, NumberIs
          <6>2. Number(x) = Number(y) /\ Number(x) \in Int /\ x \in Int /\ y \in Int /\ x <= y
            BY <1>1, <2>1, <5>1, <5>2, <5>3
          <6>3. PageSize * Number(x) \in Int
            BY <6>2, RingBounds
          <6> HIDE DEF x, y
          <6>4. x >= PageSize * Number(x)
            BY <6>1, <6>3
          <6>5. y = PageSize * Number(x)
            BY <6>1, <6>2, <6>3
          <6>6. x = y
            BY <6>2, <6>3, <6>4, <6>5
          <6> QED
            BY <6>6 DEF x, y
        <5>5. CASE place[c] = "idle"
          BY <1>1, <1>7, <5>4, <5>5, PageWritten
        <5>6. CASE place[c] = "dropped"
          <6>1. ulBufPos - pos[c] > Reach
            BY <1>2, <5>1, <5>6 DEF ReaderSound
          <6> QED
            BY <1>1, <5>4, <6>1, RingBounds
        <5> QED
          BY <4>2, <5>5, <5>6
      <4> QED
        BY <1>1, <2>1, <4>1, <4>2, StandingThen
    <3>2. Standing(p)' = {}
      BY <3>1 DEF Standing
    <3>3. Cardinality(Standing(p)') = 0
      BY <3>2, FS_EmptySet
    <3>4. ulUsed'[p] = 0
      BY <2>3, <2>4
    <3> QED
      BY <3>3, <3>4, RingBounds DEF PageCounted
  <2>5. CASE p # q
    <3>1. ulUsed'[p] = ulUsed[p] /\ ulUsed[p] = Cardinality(Standing(p))
      BY <1>3, <1>5, <2>2, <2>3, <2>5 DEF PageCounted
    <3>2. ASSUME NEW c \in Clients PROVE StandsOn(c, p)' <=> StandsOn(c, p)
      <4> DEFINE b == Number(pos[c])
      <4>1. b \in Int
        BY <1>1, StandingIs
      <4>2. ASSUME b % Pages = p PROVE Latest + 1 < b + Pages <=> Latest < b + Pages
        <5> HIDE DEF b
        <5>1. (b + Pages) % Pages = p
          BY <1>4, <4>1, <4>2, ModShift
        <5>2. b + Pages # Latest + 1
          BY <2>2, <2>5, <5>1
        <5> QED
          BY <1>4, <4>1, <5>2
      <4> QED
        BY <1>1, <2>1, <4>2, StandingThen, StandingIs DEF OnRing
    <3>3. Standing(p)' = Standing(p)
      BY <3>2 DEF Standing
    <3>4. ulUsed[p] \in Int
      BY <2>3
    <3> QED
      BY <1>3, <3>1, <3>3, <3>4 DEF PageCounted
  <2> QED
    BY <2>4, <2>5
<1> QED
  BY <1>6, <1>7

LEMMA WritesPage ==
  ASSUME RingInv, WritePage
  PROVE  RingInv'
BY WriterTyped, WriterReaders, WriterStretch, WriterCounted DEF RingInv

LEMMA InitRing == RingInit => RingInv
<1> SUFFICES ASSUME RingInit PROVE RingInv
  OBVIOUS
<1>1. RingTyped
  BY RingBounds DEF RingInit, RingTyped, RingTypeOK, None, PageNos
<1>2. \A c \in Clients : ReaderSound(c)
  BY RingBounds DEF RingInit, ReaderSound, None
<1>3. Latest = -1
  <2>1. -1 \in Int /\ PageSize - 1 \in 0..PageSize-1
    BY RingBounds
  <2>2. Number(PageSize * (-1) + (PageSize - 1)) = -1
    BY <2>1, NumberOf
  <2>3. PageSize * (-1) + (PageSize - 1) = -1 /\ ulBufPos - 1 = -1
    BY RingBounds DEF RingInit
  <2> QED
    BY <2>2, <2>3 DEF Latest
<1>4. Stretch(0) /\ Held(0)
  <2>1. 0 % Pages = 0
    BY RingBounds, ModOf
  <2>2. IsNone(ulSyncPos)
    BY DEF RingInit, IsNone
  <2>3. 0..(-1) = {}
    OBVIOUS
  <2> QED
    BY <1>3, <2>1, <2>2, <2>3, RingBounds DEF RingInit, Stretch, Held, HeldOf
<1>5. Counted
  <2> SUFFICES ASSUME NEW p \in PageNos PROVE PageCounted(p)
    BY DEF Counted
  <2>1. Standing(p) = {}
    BY DEF RingInit, Standing, StandsOn
  <2>2. Cardinality(Standing(p)) = 0
    BY <2>1, FS_EmptySet
  <2>3. ulUsed[p] = 0
    BY DEF RingInit
  <2> QED
    BY <2>2, <2>3, RingBounds DEF PageCounted
<1> QED
  BY <1>1, <1>2, <1>4, <1>5 DEF RingInv

LEMMA NextRing == RingInv /\ [RingNext]_ringvars => RingInv'
<1> SUFFICES ASSUME RingInv, [RingNext]_ringvars PROVE RingInv'
  OBVIOUS
<1>1. CASE MP3Write
  BY <1>1, BeginsToWrite DEF MP3Write
<1>2. CASE OGGStore
  BY <1>2, BeginsToWrite DEF OGGStore
<1>3. CASE OGGHeader
  BY <1>3, BeginsToWrite DEF OGGHeader
<1>4. CASE WritePage
  BY <1>4, WritesPage
<1>5. CASE \E c \in Clients : ClientNew(c) \/ Read(c) \/ ClientDestroy(c)
  <2> SUFFICES ASSUME NEW c \in Clients, ClientNew(c) \/ Read(c) \/ ClientDestroy(c) PROVE RingInv'
    BY <1>5
  <2>1. CASE ClientNew(c)
    BY <2>1, Joins
  <2>2. CASE ReadSync(c)
    BY <2>2, Synchronizes
  <2>3. CASE ReadTooLate(c)
    BY <2>3, LeavesTooLate
  <2>4. CASE ReadBegin(c)
    BY <2>4, BeginsToRead
  <2>5. CASE Copy(c)
    BY <2>5, CopiesPage
  <2>6. CASE ReadEnd(c)
    BY <2>6, EndsReading
  <2>7. CASE ClientDestroy(c)
    BY <2>7, Leaves
  <2> QED
    BY <2>1, <2>2, <2>3, <2>4, <2>5, <2>6, <2>7 DEF Read
<1>6. CASE UNCHANGED ringvars
  <2>1. UNCHANGED <<psMethods, ulBufPos, todo, ulSyncPos, ulBufLastPage, present, ulUsed,
                    pos, place, left, from, seen, edge>>
    BY <1>6 DEF ringvars, ring, reader
  <2>2. RingTyped'
    BY <2>1 DEF RingInv, RingTyped, RingTypeOK
  <2>3. \A c \in Clients : ReaderSound(c)'
    BY <2>1 DEF RingInv, ReaderSound, Begun, Page, IsNone, Bits
  <2>4. \E f \in Nat : Stretch(f)' /\ Held(f)'
    <3>1. PICK f \in Nat : Stretch(f) /\ Held(f)
      BY DEF RingInv
    <3>2. Stretch(f)'
      BY <2>1, <3>1 DEF Stretch, Latest, Number, IsNone, Bits
    <3>3. Held(f)'
      BY <2>1, <3>1 DEF Held, HeldOf, OnRing, Begun, Latest, Number
    <3> QED
      BY <3>2, <3>3
  <2>5. Counted'
    <3>1. ASSUME NEW p \in PageNos PROVE PageCounted(p)' <=> PageCounted(p)
      BY <2>1 DEF PageCounted, Standing, StandsOn, Coming, Page, Bits
    <3> QED
      BY <2>1, <3>1 DEF RingInv, Counted
  <2> QED
    BY <2>2, <2>3, <2>4, <2>5 DEF RingInv
<1> QED
  BY <1>1, <1>2, <1>3, <1>4, <1>5, <1>6 DEF RingNext, Write

LEMMA RingHolds == RingSpec => []RingInv
  BY InitRing, NextRing, PTL DEF RingSpec

(* The difference of two remainders, if it is that of the numbers.         *)
LEMMA ModMinus ==
  ASSUME NEW n \in Nat \ {0}, NEW a \in Int, NEW b \in Int, a - b \in 0..n-1
  PROVE  ((a % n) - (b % n)) % n = a - b
<1> DEFINE p == a \div n
           r == a % n
           q == b \div n
           s == b % n
           e == a - b
<1>1. p \in Int /\ r \in 0..n-1 /\ a = n * p + r /\ q \in Int /\ s \in 0..n-1 /\ b = n * q + s
  BY DivMod
<1>2. e \in 0..n-1 /\ e \in Int /\ e = a - b
  OBVIOUS
<1> HIDE DEF p, q, r, s, e
<1>3. r - s = n * (q - p) + e
  <2> DEFINE x == n * p
             y == n * q
  <2>1. n * (q - p) = y - x /\ x \in Int /\ y \in Int
    BY <1>1
  <2>2. a = x + r /\ b = y + s /\ r \in Int /\ s \in Int /\ e = a - b
    BY <1>1, <1>2
  <2> HIDE DEF x, y
  <2>3. r - s = (y - x) + e
    BY <2>1, <2>2
  <2> QED
    BY <2>1, <2>3
<1>4. (n * (q - p) + e) % n = e
  <2> DEFINE k == q - p
  <2>1. k \in Int
    BY <1>1
  <2> HIDE DEF k
  <2>2. (n * k + e) % n = e
    BY <1>2, <2>1, DivUnique
  <2> QED
    BY <2>2 DEF k
<1> QED
  BY <1>3, <1>4 DEF e, r, s

(* Every type and every bound of the ring holds: among them, that no count *)
(* of a page exceeds what a ULONG holds.                                   *)
THEOREM RingTypesHold == RingSpec => []RingTypeOK
<1>1. RingInv => RingTypeOK
  BY DEF RingInv, RingTyped
<1> QED
  BY <1>1, RingHolds, PTL

(* _BufWrite frees the pages of the ring from the oldest one on: its       *)
(* memory is always one stretch up to the page the writer is on, and a new *)
(* listener starts on data within it.                                      *)
THEOREM MemoryIsOneStretch == RingSpec => []OneStretch
<1>1. ASSUME RingInv PROVE OneStretch
  <2>1. ulBufPos \in Nat /\ ulBufPos \in Int /\ ulSyncPos \in Int /\ Pages \in Nat \ {0}
    BY <1>1, RingBounds DEF RingInv, RingTyped, RingTypeOK
  <2>2. PICK f \in Nat : Stretch(f)
    BY <1>1 DEF RingInv
  <2>3. Latest \in Int /\ f \in Int
    BY <2>1, LatestIs
  <2>4. ASSUME ulBufPos > 0
        PROVE  LET page == Page(ulBufPos - 1)
               IN  present = {(ulBufLastPage + i) % Pages : i \in 0..((page - ulBufLastPage) % Pages)}
    <3> DEFINE d == Latest - f
    <3>1. d \in 0..Pages-1
      BY <2>1, <2>2, <2>3, <2>4 DEF Stretch
    <3>2. Page(ulBufPos - 1) = Latest % Pages
      <4>1. ulBufPos - 1 \in Int
        BY <2>1
      <4> QED
        BY <4>1, PageIs DEF Latest
    <3>3. (Page(ulBufPos - 1) - ulBufLastPage) % Pages = d
      <4>1. ulBufLastPage = f % Pages
        BY <2>2 DEF Stretch
      <4>2. ((Latest % Pages) - (f % Pages)) % Pages = Latest - f
        BY <2>1, <2>3, <3>1, ModMinus
      <4> QED
        BY <3>2, <4>1, <4>2
    <3>4. ASSUME NEW i \in Int PROVE (ulBufLastPage + i) % Pages = (f + i) % Pages
      BY <2>1, <2>2, <2>3, ModNext DEF Stretch
    <3>5. present = {i % Pages : i \in f..Latest}
      BY <2>2 DEF Stretch
    <3>6. {i % Pages : i \in f..Latest} = {(f + i) % Pages : i \in 0..d}
      <4>1. ASSUME NEW i \in f..Latest PROVE i - f \in 0..d /\ f + (i - f) = i
        BY <2>3
      <4>2. ASSUME NEW i \in 0..d PROVE f + i \in f..Latest
        BY <2>3
      <4> QED
        BY <4>1, <4>2
    <3>7. {(f + i) % Pages : i \in 0..d} = {(ulBufLastPage + i) % Pages : i \in 0..d}
      BY <3>1, <3>4
    <3> HIDE DEF d
    <3> QED
      BY <3>3, <3>5, <3>6, <3>7
  <2>5. ASSUME ~IsNone(ulSyncPos)
        PROVE  ulBufPos - ulSyncPos <= Ring /\ Kept(ulSyncPos, ulBufPos)
    <3>1. Number(ulSyncPos) >= f /\ Latest < f + Pages
      BY <2>2, <2>5 DEF Stretch
    <3>2. Number(ulSyncPos) \in Int
      BY <2>1, NumberIs
    <3>3. Latest < Number(ulSyncPos) + Pages
      BY <2>1, <2>3, <3>1, <3>2
    <3>4. ulBufPos - ulSyncPos <= Ring
      BY <2>1, <3>3, Distances DEF Latest
    <3> QED
      BY <2>1, <2>2, <3>1, <3>4, KeptIs
  <2> QED
    BY <2>4, <2>5 DEF OneStretch
<1> QED
  BY <1>1, RingHolds, PTL

(* A page's count is the number of the listeners that stand on it, so      *)
(* _BufWrite frees no page that a listener which is not too late has still *)
(* to read: until one of the events in Edges happens.                      *)
THEOREM ReadersDataIsKept == RingSpec => []DataKept
<1>1. ASSUME RingInv PROVE DataKept
  <2> SUFFICES ASSUME edge = {}
               PROVE  /\ \A p \in PageNos :
                           /\ ulUsed[p] >= Cardinality(Standing(p))
                           /\ p # Coming => ulUsed[p] = Cardinality(Standing(p))
                      /\ \A c \in Clients :
                           place[c] \in {"idle", "copy"} /\ pos[c] # None /\ ulBufPos - pos[c] <= Reach
                             => Kept(pos[c], ulBufPos)
    BY DEF DataKept, Standing
  <2>1. PICK f \in Nat : Stretch(f) /\ Held(f)
    BY <1>1 DEF RingInv
  <2>2. \A p \in PageNos : PageCounted(p)
    BY <1>1 DEF RingInv, Counted
  <2>3. ASSUME NEW c \in Clients, place[c] \in {"idle", "copy"}, pos[c] # None, ulBufPos - pos[c] <= Reach
        PROVE  Kept(pos[c], ulBufPos)
    <3>1. RingTyped /\ pos[c] \in Int /\ ulBufPos \in Int
      BY <1>1, OfListener
    <3>2. HeldOf(c, f)
      BY <2>1 DEF Held
    <3>3. OnRing(pos[c])
      BY <2>3, <3>1, Distances DEF OnRing, Latest
    <3>4. Number(pos[c]) >= f
      <4>1. CASE place[c] = "idle"
        BY <2>3, <3>2, <3>3, <4>1 DEF HeldOf
      <4>2. CASE place[c] = "copy"
        <5> DEFINE a == Number(Begun(c))
                   b == Number(pos[c])
        <5>1. a \in Int /\ b \in Int /\ a <= b /\ a >= f
          BY <1>1, <3>2, <4>2, ReadsOn DEF HeldOf
        <5> HIDE DEF a, b
        <5>2. b >= f
          BY <5>1
        <5> QED
          BY <5>2 DEF b
      <4> QED
        BY <2>3, <4>1, <4>2
    <3> QED
      BY <2>1, <3>1, <3>4, KeptIs
  <2> QED
    BY <2>2, <2>3 DEF PageCounted
<1> QED
  BY <1>1, RingHolds, PTL

(* A page is margin enough for the copies that _BufRead makes without      *)
(* hmtxBuffers: what a read copies is the stream as it was written, unless *)
(* the writer has come more than a page further since the read began.      *)
THEOREM CopiesAreNotTorn == RingSpec => []NotTorn
<1>1. ASSUME RingInv PROVE NotTorn
  <2> SUFFICES ASSUME "wrapped" \notin edge, NEW c \in Clients, place[c] = "copy",
                      ulBufPos - seen[c] <= PageSize
               PROVE  ulBufPos - pos[c] <= Ring
    BY DEF NotTorn
  <2>1. /\ ReaderSound(c) /\ pos[c] \in Int /\ ulBufPos \in Int /\ left[c] \in 0..ReadLen
        /\ ReadLen \in Nat /\ seen[c] \in Nat
    BY <1>1, OfListener
  <2>2. seen[c] - Begun(c) <= Reach
    BY <2>1 DEF ReaderSound
  <2>3. Begun(c) \in Int /\ Begun(c) <= pos[c]
    BY <2>1 DEF Begun
  <2> QED
    BY <2>1, <2>2, <2>3, RingBounds
<1> QED
  BY <1>1, RingHolds, PTL

=============================================================================
