-------------------------- MODULE ListenersProofs --------------------------
(***************************************************************************)
(* Proofs about the listeners of a source, for any number of listeners, of *)
(* administrators and of visitors: the list holds while anybody may look   *)
(* at it, and a listener reads from what is there.                         *)
(***************************************************************************)
EXTENDS Listeners, FiniteSetTheorems, SequenceTheorems, TLAPS

Wipes(t) == pc[t] \in {"wipe", "wiped"}

(* Is the source being destroyed, or gone?                                 *)
Ending == freed \/ \E t \in Threads : Wipes(t)

(* Where the thread is, or will be once the source is destroyed.           *)
Place(t) == IF Wipes(t) THEN back[t] ELSE pc[t]

AtDetach == {"detaching", "unlink", "detached"}

(* The places before a listener is in the list.                            *)
Before == {"idle", "open", "limit", "append", "refused"}

Typed ==
  /\ linked \in BOOLEAN /\ freed \in BOOLEAN
  /\ psClientsList \in Seq(Clients)
  /\ hmtxClientsList \in Threads \cup {Nobody}
  /\ hmtxClient \in [Clients -> Threads \cup {Nobody}]
  /\ memory \in [Clients -> {"none", "live", "freed"}]
  /\ psSource \in [Clients -> BOOLEAN] /\ ppsSelf \in [Clients -> BOOLEAN]
  /\ format \in [Clients -> {"none", "live", "freed"}]
  /\ pc \in [Threads -> Places] /\ back \in [Threads -> Places]
  /\ psClient \in [Threads -> Clients \cup {Nobody}]
  /\ stopped \subseteq Clients /\ early \subseteq stopped

(* Where each kind of request can be.                                      *)
FlowSound ==
  /\ \A c \in Clients : pc[c] \notin {"result", "pick", "release"}
  /\ \A t \in Others : pc[t] \in {"idle", "pick", "release", "wipe", "wiped", "gone",
                                  "detach", "detaching", "unlink", "detached", "result"}
  /\ \A t \in Others \ Admins : pc[t] \notin AtDetach \cup {"detach", "result"}
  /\ \A c \in Clients : Wipes(c) => back[c] \in {"ready", "readend", "close", "gone"}
  /\ \A t \in Others : Wipes(t) => back[t] = "gone"
  /\ \A t \in Admins : pc[t] \in AtDetach \cup {"detach", "result"} => psClient[t] \in stopped

(* One thread at most destroys the source, when nobody has pinned it.      *)
EndSound ==
  /\ Ending => ~linked /\ ulQueryLocks = 0
  /\ \A t \in Threads : Wipes(t) => ~freed
  /\ \A t, u \in Threads : Wipes(t) /\ Wipes(u) => t = u

(* The pins: that of the request, and that of an attach or a detach.       *)
HasPin(t) ==
  pc[t] \in AtDetach \cup
    IF t \in Clients THEN {"open", "limit", "append", "attached", "create", "created", "refused", "reading"}
                     ELSE {"pick", "detach", "result", "release"}

HasSecond(t) == pc[t] \in IF t \in Clients THEN {"limit", "append", "attached"} ELSE AtDetach

Pinned == {t \in Threads : HasPin(t)}
Twice  == {t \in Threads : HasSecond(t)}

PinsCounted == ulQueryLocks = Cardinality(Pinned) + Cardinality(Twice)

(* Is the listener out of the list, and not unlinked yet?                  *)
Unlinking(c) == \E t \in Threads : pc[t] = "unlink" /\ Target(t) = c

Distinct(L) == \A i, j \in 1..Len(L) : L[i] = L[j] => i = j

ListSound ==
  /\ Distinct(psClientsList)
  /\ hmtxClientsList = Nobody => ulClientsCount = Len(psClientsList)
  /\ hmtxClientsList # Nobody => ulClientsCount = Len(psClientsList) + 1
  /\ \A t \in Threads : hmtxClientsList = t <=> pc[t] = "unlink"

(* What the code keeps of each listener.                                   *)
ClientSound(c) ==
  /\ Place(c) \in {"read", "reading", "readend"} => hmtxClient[c] = c
  /\ Place(c) \notin {"read", "reading", "readend"} => hmtxClient[c] = Nobody
  /\ Place(c) \notin {"idle", "gone"} => memory[c] = "live"
  /\ pc[c] \in {"read", "reading"} => psSource[c]

MemberSound(c) ==
  /\ ppsSelf[c] <=> c \in Listed
  /\ Place(c) \in Before =>
       c \notin Listed /\ format[c] = "none" /\ ~psSource[c] /\ c \notin stopped
  /\ Unlinking(c) => c \notin Listed /\ Place(c) \notin Before
  /\ linked /\ Place(c) \in {"close", "gone", "detached", "unlink"} => c \notin Listed
  /\ linked /\ c \in Listed /\ Place(c) \notin {"attached", "create"} => psSource[c]
  /\ c \notin stopped /\ Place(c) \in {"attached", "create", "created", "ready", "read", "reading",
                                       "readend", "detach", "detaching"} => c \in Listed

FormatSound(c) ==
  /\ c \in Listed /\ c \notin stopped /\ ~Ending => format[c] = "live"
  /\ pc[c] = "unlink" /\ c \notin stopped => format[c] = "live"
  /\ c \notin early /\ Place(c) \in {"attached", "create"} => format[c] = "live"
  /\ c \notin early /\ psSource[c] => format[c] = "live" /\ ~freed
  /\ format[c] = "live" => c \in Listed \/ Unlinking(c)

Unwiped(c) == c \notin stopped => format[c] = "live"

(* _SourceDestroy is at the k-th of the list: it has unlinked those before.*)
CursorAt(t, k) ==
  /\ psClientsList[k] = psClient[t]
  /\ \A j \in 1..Len(psClientsList) : j < k => ~psSource[psClientsList[j]]
  /\ \A j \in 1..Len(psClientsList) : j > k => Unwiped(psClientsList[j])
  /\ pc[t] = "wipe" => Unwiped(psClientsList[k])
  /\ pc[t] = "wiped" => ~psSource[psClientsList[k]]

CursorSound(t) ==
  Wipes(t) =>
    \/ /\ pc[t] = "wipe" /\ psClient[t] = Nobody
       /\ \A c \in Listed : ~psSource[c]
    \/ psClient[t] # Nobody /\ \E k \in 1..Len(psClientsList) : CursorAt(t, k)

ListenersInv ==
  /\ Typed /\ FlowSound /\ EndSound /\ PinsCounted /\ ListSound
  /\ \A c \in Clients : ClientSound(c) /\ MemberSound(c) /\ FormatSound(c)
  /\ \A t \in Threads : CursorSound(t)

----------------------------------------------------------------------------
(* The list *)

(* The elements of a list that has grown by one.                           *)
LEMMA Grown ==
  ASSUME NEW L \in Seq(Clients), NEW c \in Clients, Distinct(L), c \notin ToSet(L)
  PROVE  /\ Append(L, c) \in Seq(Clients) /\ Len(Append(L, c)) = Len(L) + 1
         /\ Distinct(Append(L, c)) /\ ToSet(Append(L, c)) = ToSet(L) \cup {c}
<1> DEFINE A == Append(L, c)
<1>1. /\ A \in Seq(Clients) /\ Len(A) = Len(L) + 1 /\ A[Len(L) + 1] = c /\ Len(L) \in Nat
      /\ \A k \in 1..Len(L) : A[k] = L[k]
  BY AppendProperties
<1>2. ToSet(L) = {L[k] : k \in 1..Len(L)} /\ ToSet(A) = {A[k] : k \in 1..Len(A)}
  BY <1>1 DEF ToSet
<1> HIDE DEF A
<1>3. \A k \in 1..Len(A) : k = Len(L) + 1 \/ k \in 1..Len(L)
  BY <1>1
<1>4. {A[k] : k \in 1..Len(A)} = {L[k] : k \in 1..Len(L)} \cup {c}
  BY <1>1, <1>3
<1>5. \A k \in 1..Len(L) : L[k] # c
  BY <1>2
<1>6. Distinct(A)
  BY <1>1, <1>3, <1>5 DEF Distinct
<1> QED
  BY <1>1, <1>2, <1>4, <1>6 DEF A

(* The elements of a list without one of them.                             *)
LEMMA Shrunk ==
  ASSUME NEW L \in Seq(Clients), NEW c, Distinct(L), c \in ToSet(L)
  PROVE  /\ RemoveFirst(L, c) \in Seq(Clients) /\ Len(RemoveFirst(L, c)) = Len(L) - 1
         /\ Distinct(RemoveFirst(L, c)) /\ ToSet(RemoveFirst(L, c)) = ToSet(L) \ {c}
<1>0. ToSet(L) = {L[k] : k \in 1..Len(L)} /\ Len(L) \in Nat
  BY DEF ToSet
<1>1. PICK m \in 1..Len(L) : L[m] = c
  BY <1>0
<1>2. \A k \in 1..Len(L) : L[k] = c <=> k = m
  BY <1>1 DEF Distinct
<1>3. SelectInSeq(L, LAMBDA v : v = c) = m
  <2> DEFINE I == {k \in 1..Len(L) : L[k] = c}
  <2>1. I = {m}
    BY <1>2
  <2>2. Min(I) = m
    BY <2>1 DEF Min
  <2>3. SelectInSeq(L, LAMBDA v : v = c) = IF I # {} THEN Min(I) ELSE 0
    BY DEF SelectInSeq
  <2> HIDE DEF I
  <2> QED
    BY <2>1, <2>2, <2>3
<1> DEFINE R == RemoveFirst(L, c)
           F == SubSeq(L, 1, m - 1)
           B == SubSeq(L, m + 1, Len(L))
<1>4. R = F \o B
  BY <1>1, <1>3 DEF RemoveFirst, RemoveAt
<1>5. /\ F \in Seq(Clients) /\ Len(F) = m - 1 /\ B \in Seq(Clients) /\ Len(B) = Len(L) - m
      /\ \A k \in 1..m - 1 : F[k] = L[k]
      /\ \A k \in 1..Len(L) - m : B[k] = L[m + k]
  BY <1>1, SubSeqProperties
<1> HIDE DEF R, F, B
<1>6. /\ R \in Seq(Clients) /\ Len(R) = Len(L) - 1
      /\ \A k \in 1..Len(R) : R[k] = IF k < m THEN L[k] ELSE L[k + 1]
  <2>1. /\ R \in Seq(Clients) /\ Len(R) = Len(F) + Len(B)
        /\ \A k \in 1..Len(F) + Len(B) : R[k] = IF k <= Len(F) THEN F[k] ELSE B[k - Len(F)]
    BY <1>4, <1>5, ConcatProperties
  <2>2. Len(F) = m - 1 /\ Len(B) = Len(L) - m /\ m \in 1..Len(L) /\ Len(L) \in Nat
    BY <1>0, <1>5
  <2>3. Len(R) = Len(L) - 1
    BY <2>1, <2>2
  <2>4. ASSUME NEW k \in 1..Len(R) PROVE R[k] = IF k < m THEN L[k] ELSE L[k + 1]
    <3>1. CASE k < m
      BY <3>1, <2>1, <2>2, <2>3, <1>5
    <3>2. CASE ~(k < m)
      <4>1. k - Len(F) \in 1..Len(L) - m /\ R[k] = B[k - Len(F)] /\ m + (k - Len(F)) = k + 1
        BY <3>2, <2>1, <2>2, <2>3
      <4> QED
        BY <3>2, <4>1, <1>5
    <3> QED
      BY <3>1, <3>2
  <2> QED
    BY <2>1, <2>3, <2>4
<1>7. Distinct(R)
  <2> SUFFICES ASSUME NEW i \in 1..Len(R), NEW j \in 1..Len(R), R[i] = R[j] PROVE i = j
    BY DEF Distinct
  <2> DEFINE f(k) == IF k < m THEN k ELSE k + 1
  <2>1. R[i] = L[f(i)] /\ R[j] = L[f(j)] /\ f(i) \in 1..Len(L) /\ f(j) \in 1..Len(L)
    BY <1>0, <1>1, <1>6
  <2>2. f(i) = f(j)
    BY <2>1 DEF Distinct
  <2> QED
    BY <2>2, <1>0, <1>1, <1>6
<1>8. ToSet(R) = {R[k] : k \in 1..Len(R)}
  BY <1>6 DEF ToSet
<1>9. ASSUME NEW x \in ToSet(R) PROVE x \in ToSet(L) /\ x # c
  <2>1. PICK k \in 1..Len(R) : x = R[k]
    BY <1>8
  <2>2. CASE k < m
    BY <2>1, <2>2, <1>0, <1>1, <1>2, <1>6
  <2>3. CASE ~(k < m)
    BY <2>1, <2>3, <1>0, <1>1, <1>2, <1>6
  <2> QED
    BY <2>2, <2>3
<1>10. ASSUME NEW x \in ToSet(L), x # c PROVE x \in ToSet(R)
  <2>1. PICK k \in 1..Len(L) : x = L[k]
    BY <1>0
  <2>2. CASE k < m
    <3>1. k \in 1..Len(R) /\ R[k] = x
      BY <2>1, <2>2, <1>0, <1>1, <1>6
    <3> QED
      BY <3>1, <1>8
  <2>3. CASE ~(k < m)
    <3>1. k - 1 \in 1..Len(R) /\ R[k - 1] = x
      BY <2>1, <2>3, <1>0, <1>1, <1>2, <1>6, <1>10
    <3> QED
      BY <3>1, <1>8
  <2> QED
    BY <2>2, <2>3
<1> QED
  BY <1>6, <1>7, <1>9, <1>10 DEF R

----------------------------------------------------------------------------
(* The steps: whose they are, and what they leave as it is                 *)

Step(t) == Opening(t) \/ Reading(t) \/ Leaving(t) \/ Detaching(t) \/ Wiping(t)
           \/ Asking(t) \/ SourceDestroy(t)

(* The step is that of one thread.                                         *)
Moves(t) ==
  \A u \in Threads : u # t => pc'[u] = pc[u] /\ back'[u] = back[u] /\ psClient'[u] = psClient[u]

(* A detach is of a listener.                                              *)
LEMMA TargetIs ==
  ASSUME Typed, FlowSound, NEW t \in Threads, pc[t] \in AtDetach \cup {"detach", "result"}
  PROVE  /\ Target(t) \in Clients /\ t \in Clients \cup Admins
         /\ t \in Admins => t \notin Clients /\ Target(t) = psClient[t] /\ psClient[t] \in stopped
BY ListenersAssumption DEF Threads, Others, Typed, FlowSound, Target

(* The list is of listeners.                                               *)
LEMMA ListedAreClients ==
  ASSUME Typed
  PROVE  Listed \subseteq Clients
BY DEF Typed, Listed, ToSet

(* Where a destruction starts.                                             *)
LEMMA FirstIs ==
  ASSUME Typed
  PROVE  /\ First \in Clients \cup {Nobody}
         /\ psClientsList = <<>> => First = Nobody /\ Listed = {}
         /\ psClientsList # <<>> => First = psClientsList[1] /\ 1 \in 1..Len(psClientsList)
<1>1. Len(psClientsList) \in Nat /\ \A k \in 1..Len(psClientsList) : psClientsList[k] \in Clients
  BY DEF Typed
<1>2. psClientsList # <<>> => 1 \in 1..Len(psClientsList) /\ Head(psClientsList) = psClientsList[1]
  BY <1>1 DEF Typed
<1>3. psClientsList = <<>> => Listed = {}
  BY DEF Listed, ToSet
<1> QED
  BY <1>1, <1>2, <1>3 DEF First

(* _SourceDestroy goes to the next of the list, if there is one.           *)
LEMMA AfterIs ==
  ASSUME Typed, Distinct(psClientsList), NEW k \in 1..Len(psClientsList), NEW c, psClientsList[k] = c
  PROVE  After(c) = IF k = Len(psClientsList) THEN Nobody ELSE psClientsList[k + 1]
<1>1. DOMAIN psClientsList = 1..Len(psClientsList)
  BY DEF Typed
<1>2. \A j \in DOMAIN psClientsList : psClientsList[j] = c <=> j = k
  BY <1>1 DEF Distinct
<1> DEFINE i == CHOOSE j \in DOMAIN psClientsList : psClientsList[j] = c
<1>3. i = k
  BY <1>1, <1>2
<1>4. After(c) = IF i = Len(psClientsList) THEN Nobody ELSE psClientsList[i + 1]
  BY DEF After
<1> HIDE DEF i
<1> QED
  BY <1>3, <1>4

(* The actions that pin the source or release it, and those that do not.   *)
Enters(t) == ClientOpen(t) \/ AttachQuery(t) \/ ReadQuery(t) \/ DetachQuery(t) \/ OtherQuery(t)
Leaves(t) == AttachTooMany(t) \/ AttachRelease(t) \/ OpenRelease(t) \/ OpenRefused(t)
             \/ ReadRelease(t) \/ DetachRelease(t) \/ OtherRelease(t)
Goes(t)   == AttachAllowed(t) \/ ReadBegin(t) \/ ReadEnd(t) \/ ClientDestroy(t) \/ ClientClose(t)
             \/ DetachNotFound(t) \/ DetachResult(t) \/ PickNobody(t) \/ StoreClients(t)
Joins(t)  == AttachAppend(t) \/ ClientCreate(t) \/ \E c \in Clients : PickClient(t, c)
Parts(t)  == DetachAgain(t) \/ DetachFound(t) \/ DetachUnlink(t)
Ends(t)   == WipeUnlink(t) \/ WipeNext(t) \/ WipeEnd(t) \/ SourceDestroy(t)

(* The kinds of step.                                                      *)
LEMMA StepIs ==
  ASSUME NEW t, Step(t)
  PROVE  Enters(t) \/ Leaves(t) \/ Goes(t) \/ Joins(t) \/ Parts(t) \/ Ends(t)
BY DEF Step, Opening, Reading, Leaving, Detaching, Wiping, Asking,
       Enters, Leaves, Goes, Joins, Parts, Ends

(* Only a listener is where a listener goes.                               *)
LEMMA StepOfClient ==
  ASSUME Typed, FlowSound, NEW t \in Threads,
         \/ AttachQuery(t) \/ AttachTooMany(t) \/ AttachAllowed(t) \/ AttachAppend(t) \/ AttachRelease(t)
         \/ ClientCreate(t) \/ OpenRelease(t) \/ OpenRefused(t)
         \/ ReadQuery(t) \/ ReadRelease(t) \/ ReadEnd(t) \/ ClientClose(t)
  PROVE  t \in Clients
<1>1. pc[t] \in {"open", "limit", "append", "attached", "create", "created", "refused",
                 "read", "reading", "readend", "close"}
  BY DEF AttachQuery, AttachTooMany, AttachAllowed, AttachAppend, AttachRelease, ClientCreate, OpenRelease,
         OpenRefused, ReadQuery, ReadRelease, ReadEnd, ClientClose, Query, Release, Goto
<1> QED
  BY <1>1 DEF FlowSound, Threads

(* A step keeps the types, and moves its own thread only.                  *)
LEMMA StepTyped ==
  ASSUME ListenersInv, NEW t \in Threads, Step(t)
  PROVE  Typed' /\ Moves(t)
<1>0. Typed /\ FlowSound /\ ListSound /\ \A c \in Clients : MemberSound(c)
  BY DEF ListenersInv
<1> USE DEF Typed, Moves, Places, Goto, source, clients, mutexes, objects, threads, history
<1>1. CASE Enters(t)
  BY <1>0, <1>1 DEF Enters, ClientOpen, AttachQuery, ReadQuery, DetachQuery, OtherQuery, Query, Done
<1>2. CASE Leaves(t)
  <2>1. First \in Clients \cup {Nobody}
    BY <1>0, FirstIs
  <2> QED
    BY <1>0, <1>2, <2>1 DEF Leaves, AttachTooMany, AttachRelease, OpenRelease, OpenRefused, ReadRelease,
       DetachRelease, OtherRelease, Release, WipeFromFirst
<1>3. CASE Goes(t)
  <2>1. ReadBegin(t) \/ ReadEnd(t) \/ ClientDestroy(t) \/ ClientClose(t) => t \in Clients
    BY <1>0, StepOfClient DEF ReadBegin, ClientDestroy
  <2>2. CASE AttachAllowed(t) \/ DetachNotFound(t) \/ DetachResult(t) \/ PickNobody(t) \/ StoreClients(t)
    BY <1>0, <2>2 DEF AttachAllowed, DetachNotFound, DetachResult, PickNobody, StoreClients
  <2>3. CASE ReadBegin(t)
    BY <1>0, <2>3 DEF ReadBegin
  <2>6. CASE ReadEnd(t)
    BY <1>0, <2>1, <2>6 DEF ReadEnd
  <2>4. CASE ClientDestroy(t)
    BY <1>0, <2>4 DEF ClientDestroy
  <2>5. CASE ClientClose(t)
    BY <1>0, <2>1, <2>5 DEF ClientClose, Freed
  <2> QED
    BY <1>3, <2>2, <2>3, <2>4, <2>5, <2>6 DEF Goes
<1>4. CASE Joins(t)
  <2>1. AttachAppend(t) => t \in Clients
    BY <1>0, StepOfClient
  <2>2. t \in Clients => Append(psClientsList, t) \in Seq(Clients)
    BY <1>0, AppendProperties
  <2>3. CASE AttachAppend(t)
    BY <1>0, <2>3, <2>1, <2>2 DEF AttachAppend
  <2>4. CASE ClientCreate(t)
    BY <1>0, <2>4 DEF ClientCreate
  <2>5. CASE \E c \in Clients : PickClient(t, c)
    BY <1>0, <2>5 DEF PickClient
  <2> QED
    BY <1>4, <2>3, <2>4, <2>5 DEF Joins
<1>5. CASE Parts(t)
  <2>1. /\ Target(t) \in Clients
        /\ t \in Admins => t \notin Clients /\ Target(t) = psClient[t] /\ psClient[t] \in stopped
    BY <1>0, <1>5, TargetIs DEF Parts, DetachAgain, DetachFound, DetachUnlink, AtDetach
  <2>2. DetachFound(t) => RemoveFirst(psClientsList, Target(t)) \in Seq(Clients)
    BY <1>0, <2>1, Shrunk DEF DetachFound, Contains, ListSound, ToSet
  <2>3. CASE DetachAgain(t)
    BY <1>0, <2>3, <2>1 DEF DetachAgain, ClientUnlinkSource, NoteEarly, Done
  <2>4. CASE DetachFound(t)
    BY <1>0, <2>4, <2>1, <2>2 DEF DetachFound, LockList
  <2>5. CASE DetachUnlink(t)
    BY <1>0, <2>5, <2>1 DEF DetachUnlink, ClientUnlinkSource, NoteEarly, UnlockList
  <2> QED
    BY <1>5, <2>3, <2>4, <2>5 DEF Parts
<1>6. CASE Ends(t)
  <2>1. First \in Clients \cup {Nobody}
    BY <1>0, FirstIs
  <2>2. CASE WipeUnlink(t)
    BY <1>0, <2>2 DEF WipeUnlink, ClientUnlinkSource
  <2>3. CASE WipeNext(t)
    <3>1. pc[t] = "wiped"
      BY <2>3 DEF WipeNext
    <3>2. PICK k \in 1..Len(psClientsList) : psClientsList[k] = psClient[t]
      BY <3>1 DEF ListenersInv, CursorSound, CursorAt, Wipes
    <3>3. After(psClient[t]) = IF k = Len(psClientsList) THEN Nobody ELSE psClientsList[k + 1]
      BY <1>0, <3>2, AfterIs DEF ListSound
    <3>4. After(psClient[t]) \in Clients \cup {Nobody}
      BY <1>0, <3>2, <3>3
    <3> QED
      BY <1>0, <2>3, <3>4 DEF WipeNext
  <2>4. CASE WipeEnd(t)
    BY <1>0, <2>4 DEF WipeEnd
  <2>5. CASE SourceDestroy(t)
    BY <1>0, <2>1, <2>5 DEF SourceDestroy, WipeFromFirst
  <2> QED
    BY <1>6, <2>2, <2>3, <2>4, <2>5 DEF Ends
<1> QED
  BY <1>1, <1>2, <1>3, <1>4, <1>5, <1>6, StepIs

(* Nobody takes back that a listener has been picked.                      *)
LEMMA StoppedGrows ==
  ASSUME NEW t, Step(t)
  PROVE  stopped \subseteq stopped'
<1> USE DEF history
<1>1. CASE Enters(t) \/ Leaves(t) \/ Goes(t)
  BY <1>1 DEF Enters, ClientOpen, AttachQuery, ReadQuery, DetachQuery, OtherQuery, Leaves, AttachTooMany,
     AttachRelease, OpenRelease, OpenRefused, ReadRelease, DetachRelease, OtherRelease, Goes, AttachAllowed,
     ReadBegin, ReadEnd, ClientDestroy, ClientClose, DetachNotFound, DetachResult, PickNobody, StoreClients
<1>2. CASE Joins(t) \/ Parts(t) \/ Ends(t)
  BY <1>2 DEF Joins, AttachAppend, ClientCreate, PickClient, Parts, DetachAgain, DetachFound, DetachUnlink,
     Ends, WipeUnlink, WipeNext, WipeEnd, SourceDestroy
<1> QED
  BY <1>1, <1>2, StepIs

----------------------------------------------------------------------------
(* The pins *)

Pins(t) == (IF HasPin(t) THEN 1 ELSE 0) + (IF HasSecond(t) THEN 1 ELSE 0)

(* What differs in one thread only differs by one at most.                 *)
LEMMA Recount ==
  ASSUME NEW t \in Threads, NEW A \in SUBSET Threads, NEW B \in SUBSET Threads, A \ {t} = B \ {t}
  PROVE  /\ Cardinality(A) \in Nat /\ Cardinality(B) \in Nat
         /\ t \in A /\ t \notin B => Cardinality(A) = Cardinality(B) + 1
         /\ t \in B /\ t \notin A => Cardinality(B) = Cardinality(A) + 1
         /\ (t \in A <=> t \in B) => A = B
<1>1. IsFiniteSet(A) /\ IsFiniteSet(B)
  BY ListenersAssumption, FS_Subset
<1>2. t \in A /\ t \notin B => A = B \cup {t}
  OBVIOUS
<1>3. t \in B /\ t \notin A => B = A \cup {t}
  OBVIOUS
<1>4. t \notin B => Cardinality(B \cup {t}) = Cardinality(B) + 1
  BY <1>1, FS_AddElement
<1>5. t \notin A => Cardinality(A \cup {t}) = Cardinality(A) + 1
  BY <1>1, FS_AddElement
<1>6. (t \in A <=> t \in B) => A = B
  OBVIOUS
<1>7. Cardinality(A) \in Nat /\ Cardinality(B) \in Nat
  BY <1>1, FS_CardinalityType
<1> QED
  BY <1>2, <1>3, <1>4, <1>5, <1>6, <1>7

(* The pins are counted as long as each step counts those of its thread.   *)
LEMMA PinsMove ==
  ASSUME PinsCounted, NEW t \in Threads, Moves(t), ulQueryLocks' = ulQueryLocks + Pins(t)' - Pins(t)
  PROVE  PinsCounted'
<1>1. Pinned \ {t} = Pinned' \ {t} /\ Twice \ {t} = Twice' \ {t}
  BY DEF Pinned, Twice, HasPin, HasSecond, Moves
<1>2. Pinned \in SUBSET Threads /\ Pinned' \in SUBSET Threads
      /\ Twice \in SUBSET Threads /\ Twice' \in SUBSET Threads
  BY DEF Pinned, Twice
<1>3. /\ t \in Pinned <=> HasPin(t)
      /\ t \in Pinned' <=> HasPin(t)'
      /\ t \in Twice <=> HasSecond(t)
      /\ t \in Twice' <=> HasSecond(t)'
  BY DEF Pinned, Twice
<1>4. /\ Cardinality(Pinned) \in Nat /\ Cardinality(Pinned') \in Nat
      /\ HasPin(t) /\ ~HasPin(t)' => Cardinality(Pinned) = Cardinality(Pinned') + 1
      /\ HasPin(t)' /\ ~HasPin(t) => Cardinality(Pinned') = Cardinality(Pinned) + 1
      /\ (HasPin(t) <=> HasPin(t)') => Cardinality(Pinned) = Cardinality(Pinned')
  BY <1>1, <1>2, <1>3, Recount
<1>5. /\ Cardinality(Twice) \in Nat /\ Cardinality(Twice') \in Nat
      /\ HasSecond(t) /\ ~HasSecond(t)' => Cardinality(Twice) = Cardinality(Twice') + 1
      /\ HasSecond(t)' /\ ~HasSecond(t) => Cardinality(Twice') = Cardinality(Twice) + 1
      /\ (HasSecond(t) <=> HasSecond(t)') => Cardinality(Twice) = Cardinality(Twice')
  BY <1>1, <1>2, <1>3, Recount
<1> QED
  BY <1>4, <1>5 DEF PinsCounted, Pins

(* Who holds all the pins there are is alone with the source.              *)
LEMMA PinsCount ==
  ASSUME PinsCounted
  PROVE  /\ ulQueryLocks \in Nat
         /\ \A t \in Threads : Pins(t) <= ulQueryLocks
         /\ \A t \in Threads : ulQueryLocks = Pins(t) => \A u \in Threads : u # t => ~HasPin(u) /\ ~HasSecond(u)
         /\ ulQueryLocks = 0 => \A u \in Threads : ~HasPin(u) /\ ~HasSecond(u)
<1>1. IsFiniteSet(Pinned) /\ IsFiniteSet(Twice)
  BY ListenersAssumption, FS_Subset DEF Pinned, Twice
<1>2. ulQueryLocks \in Nat
  BY <1>1, FS_CardinalityType DEF PinsCounted
<1>3. ASSUME NEW t \in Threads
      PROVE  /\ Pins(t) <= ulQueryLocks
             /\ ulQueryLocks = Pins(t) => \A u \in Threads : u # t => ~HasPin(u) /\ ~HasSecond(u)
  <2> DEFINE P == Pinned \ {t}
             S == Twice \ {t}
  <2>1. P \in SUBSET Threads /\ S \in SUBSET Threads /\ Pinned \in SUBSET Threads /\ Twice \in SUBSET Threads
        /\ P \ {t} = Pinned \ {t} /\ S \ {t} = Twice \ {t} /\ t \notin P /\ t \notin S
        /\ IsFiniteSet(P) /\ IsFiniteSet(S)
    BY <1>1, FS_Subset DEF Pinned, Twice
  <2>2. (t \in Pinned <=> HasPin(t)) /\ (t \in Twice <=> HasSecond(t))
    BY DEF Pinned, Twice
  <2>3. \A u \in Threads : u # t => (HasPin(u) <=> u \in P) /\ (HasSecond(u) <=> u \in S)
    BY DEF Pinned, Twice
  <2> HIDE DEF P, S
  <2>4. Cardinality(P) \in Nat /\ Cardinality(Pinned) = Cardinality(P) + IF HasPin(t) THEN 1 ELSE 0
    BY <2>1, <2>2, Recount
  <2>5. Cardinality(S) \in Nat /\ Cardinality(Twice) = Cardinality(S) + IF HasSecond(t) THEN 1 ELSE 0
    BY <2>1, <2>2, Recount
  <2>6. ulQueryLocks = Cardinality(P) + Cardinality(S) + Pins(t) /\ Pins(t) \in Nat
    BY <2>4, <2>5 DEF PinsCounted, Pins
  <2>7. Cardinality(P) = 0 /\ Cardinality(S) = 0 => P = {} /\ S = {}
    BY <2>1, FS_EmptySet
  <2> QED
    BY <2>3, <2>4, <2>5, <2>6, <2>7
<1>4. ulQueryLocks = 0 => \A u \in Threads : ~HasPin(u) /\ ~HasSecond(u)
  BY <1>2, <1>3 DEF Pins
<1> QED
  BY <1>2, <1>3, <1>4

(* How many pins a thread has where it is.                                 *)
PinsAre(t, p, n) ==
  /\ t \in Clients /\ p \in {"limit", "append", "attached"} => n = 2
  /\ t \in Clients /\ p \in {"open", "create", "created", "refused", "reading"} \cup AtDetach => n = 1
  /\ t \in Clients /\ p \in {"idle", "ready", "read", "readend", "detach", "close", "wipe", "wiped", "gone"} => n = 0
  /\ t \notin Clients /\ p \in AtDetach => n = 2
  /\ t \notin Clients /\ p \in {"pick", "detach", "result", "release"} => n = 1
  /\ t \notin Clients /\ p \in {"idle", "wipe", "wiped", "gone"} => n = 0

(* How many pins a thread has follows from where it is.                    *)
LEMMA PinsByPlace ==
  ASSUME NEW t
  PROVE  PinsAre(t, pc[t], Pins(t)) /\ PinsAre(t, pc'[t], Pins(t)')
BY DEF PinsAre, Pins, HasPin, HasSecond, AtDetach

(* Each step counts the pins that its thread takes and gives back.         *)
LEMMA StepCounts ==
  ASSUME ListenersInv, NEW t \in Threads, Step(t)
  PROVE  ulQueryLocks' = ulQueryLocks + Pins(t)' - Pins(t)
<1>0. Typed /\ FlowSound /\ ulQueryLocks \in Nat /\ Pins(t) <= ulQueryLocks
  BY PinsCount DEF ListenersInv
<1>1. pc = [u \in Threads |-> pc[u]]
  BY <1>0 DEF Typed
<1>2. PinsAre(t, pc[t], Pins(t)) /\ PinsAre(t, pc'[t], Pins(t)')
  BY PinsByPlace
<1>c. t \in Clients => t \notin Others
  BY ListenersAssumption
<1>o. t \in Clients \/ t \in Others
  BY DEF Threads
<1>r. pc[t] = "result" => t \notin Clients
  BY <1>0 DEF FlowSound
<1> USE DEF Goto, PinsAre, AtDetach, source, threads
<1>3. CASE Enters(t)
  <2>0. AttachQuery(t) \/ ReadQuery(t) => t \in Clients
    BY <1>0, StepOfClient
  <2>1. CASE ClientOpen(t)
    BY <1>0, <1>1, <1>2, <2>1 DEF ClientOpen, Query
  <2>2. CASE AttachQuery(t)
    BY <1>0, <1>1, <1>2, <2>2, <2>0 DEF AttachQuery, Query
  <2>3. CASE ReadQuery(t)
    BY <1>0, <1>1, <1>2, <2>3, <2>0 DEF ReadQuery, Query
  <2>4. CASE DetachQuery(t)
    BY <1>0, <1>1, <1>2, <2>4 DEF DetachQuery, Query, Done
  <2>5. CASE OtherQuery(t)
    BY <1>0, <1>1, <1>2, <2>5, <1>c DEF OtherQuery, Query, Others
  <2> QED
    BY <1>3, <2>1, <2>2, <2>3, <2>4, <2>5 DEF Enters
<1>4. CASE Leaves(t)
  <2>0. AttachTooMany(t) \/ AttachRelease(t) \/ OpenRelease(t) \/ OpenRefused(t) \/ ReadRelease(t) => t \in Clients
    BY <1>0, StepOfClient
  <2>1. CASE AttachTooMany(t)
    BY <1>0, <1>1, <1>2, <2>1, <2>0 DEF AttachTooMany, Release
  <2>2. CASE AttachRelease(t)
    BY <1>0, <1>1, <1>2, <2>2, <2>0 DEF AttachRelease, Release
  <2>3. CASE OpenRelease(t)
    BY <1>0, <1>1, <1>2, <2>3, <2>0 DEF OpenRelease, Release
  <2>4. CASE OpenRefused(t)
    BY <1>0, <1>1, <1>2, <2>4, <2>0 DEF OpenRefused, Release
  <2>5. CASE ReadRelease(t)
    BY <1>0, <1>1, <1>2, <2>5, <2>0 DEF ReadRelease, Release
  <2>6. CASE DetachRelease(t)
    BY <1>0, <1>1, <1>2, <2>6 DEF DetachRelease, Release
  <2>7. CASE OtherRelease(t)
    BY <1>0, <1>1, <1>2, <2>7, <1>c DEF OtherRelease, Release, Others
  <2> QED
    BY <1>4, <2>1, <2>2, <2>3, <2>4, <2>5, <2>6, <2>7 DEF Leaves
<1>5. CASE Goes(t)
  <2>0. AttachAllowed(t) \/ ReadEnd(t) \/ ClientClose(t) => t \in Clients
    BY <1>0, StepOfClient
  <2>1. CASE AttachAllowed(t)
    BY <1>0, <1>1, <1>2, <2>1, <2>0 DEF AttachAllowed
  <2>2. CASE ReadBegin(t)
    BY <1>0, <1>1, <1>2, <2>2 DEF ReadBegin
  <2>3. CASE ReadEnd(t)
    BY <1>0, <1>1, <1>2, <2>3, <2>0 DEF ReadEnd
  <2>4. CASE ClientDestroy(t)
    BY <1>0, <1>1, <1>2, <2>4 DEF ClientDestroy
  <2>5. CASE ClientClose(t)
    BY <1>0, <1>1, <1>2, <2>5, <2>0 DEF ClientClose
  <2>6. CASE DetachNotFound(t)
    BY <1>0, <1>1, <1>2, <2>6 DEF DetachNotFound
  <2>7. CASE DetachResult(t)
    BY <1>0, <1>1, <1>2, <2>7, <1>r DEF DetachResult
  <2>8. CASE PickNobody(t)
    BY <1>0, <1>1, <1>2, <2>8, <1>c DEF PickNobody, Others
  <2>9. CASE StoreClients(t)
    BY <1>0, <1>1, <1>2, <2>9, <1>c DEF StoreClients, Others
  <2> QED
    BY <1>5, <2>1, <2>2, <2>3, <2>4, <2>5, <2>6, <2>7, <2>8, <2>9 DEF Goes
<1>6. CASE Joins(t)
  <2>0. AttachAppend(t) \/ ClientCreate(t) => t \in Clients
    BY <1>0, StepOfClient
  <2>1. CASE AttachAppend(t)
    BY <1>0, <1>1, <1>2, <2>1, <2>0 DEF AttachAppend
  <2>2. CASE ClientCreate(t)
    BY <1>0, <1>1, <1>2, <2>2, <2>0 DEF ClientCreate
  <2>3. CASE \E c \in Clients : PickClient(t, c)
    BY <1>0, <1>1, <1>2, <2>3, <1>c DEF PickClient, Others
  <2> QED
    BY <1>6, <2>1, <2>2, <2>3 DEF Joins
<1>7. CASE Parts(t)
  <2>1. CASE DetachAgain(t)
    BY <1>0, <1>1, <1>2, <2>1 DEF DetachAgain, Done
  <2>2. CASE DetachFound(t)
    BY <1>0, <1>1, <1>2, <2>2 DEF DetachFound
  <2>3. CASE DetachUnlink(t)
    BY <1>0, <1>1, <1>2, <2>3 DEF DetachUnlink
  <2> QED
    BY <1>7, <2>1, <2>2, <2>3 DEF Parts
<1>8. CASE Ends(t)
  <2>1. CASE WipeUnlink(t)
    BY <1>0, <1>1, <1>2, <2>1 DEF WipeUnlink
  <2>2. CASE WipeNext(t)
    BY <1>0, <1>1, <1>2, <2>2 DEF WipeNext
  <2>3. CASE WipeEnd(t)
    BY <1>0, <1>1, <1>2, <2>3, <1>o DEF WipeEnd, FlowSound, Wipes
  <2>4. CASE SourceDestroy(t)
    BY <1>0, <1>1, <1>2, <2>4, <1>c DEF SourceDestroy, Others
  <2> QED
    BY <1>8, <2>1, <2>2, <2>3, <2>4 DEF Ends
<1> QED
  BY <1>3, <1>4, <1>5, <1>6, <1>7, <1>8, StepIs

(* The last of the pins is never one of two.                               *)
LEMMA StepFlows ==
  ASSUME ListenersInv, NEW t \in Threads, Step(t)
  PROVE  FlowSound'
<1>0. Typed /\ FlowSound /\ ulQueryLocks \in Nat /\ Pins(t) <= ulQueryLocks
  BY PinsCount DEF ListenersInv
<1>1. t \in Others <=> t \notin Clients
  BY ListenersAssumption DEF Threads
<1>2. Typed' /\ Moves(t) /\ stopped \subseteq stopped'
  BY StepTyped, StoppedGrows
<1> DEFINE Flows ==
      /\ t \in Clients => pc'[t] \notin {"result", "pick", "release"}
      /\ t \in Others => pc'[t] \in {"idle", "pick", "release", "wipe", "wiped", "gone",
                                       "detach", "detaching", "unlink", "detached", "result"}
      /\ t \in Others \ Admins => pc'[t] \notin AtDetach \cup {"detach", "result"}
      /\ t \in Clients /\ pc'[t] \in {"wipe", "wiped"} => back'[t] \in {"ready", "readend", "close", "gone"}
      /\ t \in Others /\ pc'[t] \in {"wipe", "wiped"} => back'[t] = "gone"
      /\ t \in Admins /\ pc'[t] \in AtDetach \cup {"detach", "result"} => psClient'[t] \in stopped'
<1>3. Flows => FlowSound'
  BY <1>0, <1>2 DEF FlowSound, Moves, Wipes, Threads, Others
<1> USE DEF Typed, FlowSound, Goto, AtDetach, threads, history
<1>4. CASE Enters(t)
  <2>1. AttachQuery(t) \/ ReadQuery(t) => t \in Clients
    BY <1>0, StepOfClient
  <2>2. Flows
    BY <1>0, <1>1, <1>4, <2>1 DEF Enters, ClientOpen, AttachQuery, ReadQuery, DetachQuery, OtherQuery, Query,
       Done, Others
  <2> QED
    BY <2>2, <1>3
<1>5. CASE Leaves(t)
  <2>1. ~DetachRelease(t) /\ ~OtherRelease(t) => t \in Clients
    BY <1>0, <1>5, StepOfClient DEF Leaves
  <2>2. Pins(t) # 1 => ulQueryLocks # 1 \/ Pins(t) = 0
    BY <1>0 DEF Pins
  <2>3. Flows
    BY <1>0, <1>1, <1>5, <2>1, <2>2 DEF Leaves, AttachTooMany, AttachRelease, OpenRelease, OpenRefused, ReadRelease,
       DetachRelease, OtherRelease, Release, Pins, HasPin, HasSecond, WipeFromFirst
  <2> QED
    BY <2>3, <1>3
<1>6. CASE Goes(t)
  <2>1. AttachAllowed(t) \/ ReadEnd(t) \/ ClientClose(t) => t \in Clients
    BY <1>0, StepOfClient
  <2>2. Flows
    BY <1>0, <1>1, <1>6, <2>1 DEF Goes, AttachAllowed, ReadBegin, ReadEnd, ClientDestroy, ClientClose,
       DetachNotFound, DetachResult, PickNobody, StoreClients, Others
  <2> QED
    BY <2>2, <1>3
<1>7. CASE Joins(t)
  <2>1. AttachAppend(t) \/ ClientCreate(t) => t \in Clients
    BY <1>0, StepOfClient
  <2>2. Flows
    BY <1>0, <1>1, <1>7, <2>1 DEF Joins, AttachAppend, ClientCreate, PickClient, Others
  <2> QED
    BY <2>2, <1>3
<1>8. CASE Parts(t)
  <2>1. Flows
    BY <1>0, <1>1, <1>2, <1>8 DEF Parts, DetachAgain, DetachFound, DetachUnlink, Done
  <2> QED
    BY <2>1, <1>3
<1>9. CASE Ends(t)
  <2>1. Flows
    <3>1. CASE WipeUnlink(t)
      BY <1>0, <1>1, <3>1 DEF WipeUnlink, Wipes, Others
    <3>2. CASE WipeNext(t)
      BY <1>0, <1>1, <3>2 DEF WipeNext, Wipes, Others
    <3>3. CASE WipeEnd(t)
      BY <1>0, <1>1, <3>3 DEF WipeEnd, Wipes, Others
    <3>4. CASE SourceDestroy(t)
      BY <1>0, <1>1, <3>4 DEF SourceDestroy, Wipes, Others
    <3> QED
      BY <1>9, <3>1, <3>2, <3>3, <3>4 DEF Ends
  <2> QED
    BY <2>1, <1>3
<1> QED
  BY <1>4, <1>5, <1>6, <1>7, <1>8, <1>9, StepIs

(* What the steps do to the end of the source.                             *)
LEMMA StepEnds ==
  ASSUME ListenersInv, NEW t \in Threads, Step(t)
  PROVE  EndSound' /\ (Ending => Ending') /\ (linked' => linked)
<1>0. Typed /\ FlowSound /\ EndSound /\ ulQueryLocks \in Nat /\ Pins(t) <= ulQueryLocks
  BY PinsCount DEF ListenersInv
<1>1. Typed' /\ Moves(t)
  BY StepTyped
<1>2. \A u \in Threads : u # t => (Wipes(u) <=> Wipes(u)')
  BY <1>1 DEF Moves, Wipes
<1> USE DEF Typed, Goto, source
<1>3. CASE Enters(t)
  <2>1. ~Wipes(t) /\ ~Wipes(t)' /\ freed' = freed /\ linked' = linked /\ (~linked => ulQueryLocks' = ulQueryLocks)
    BY <1>0, <1>3 DEF Enters, ClientOpen, AttachQuery, ReadQuery, DetachQuery, OtherQuery, Query, Done, Wipes
  <2> QED
    BY <1>0, <1>2, <2>1 DEF EndSound, Ending
<1>4. CASE Leaves(t)
  <2>1. ~Wipes(t) /\ ulQueryLocks # 0
    <3>1. ~DetachRelease(t) /\ ~OtherRelease(t) => t \in Clients
      BY <1>0, <1>4, StepOfClient DEF Leaves
    <3>2. OtherRelease(t) => t \notin Clients
      BY ListenersAssumption DEF OtherRelease
    <3>3. ~Wipes(t) /\ HasPin(t)
      BY <1>4, <3>1, <3>2 DEF Leaves, AttachTooMany, AttachRelease, OpenRelease, OpenRefused, ReadRelease,
         DetachRelease, OtherRelease, Release, Wipes, HasPin, AtDetach
    <3> QED
      BY <1>0, <3>3 DEF Pins
  <2>2. freed' = freed /\ linked' = linked /\ (Wipes(t)' => ~linked /\ ulQueryLocks = 1) /\ ulQueryLocks' = ulQueryLocks - 1
    BY <1>0, <1>4 DEF Leaves, AttachTooMany, AttachRelease, OpenRelease, OpenRefused, ReadRelease,
       DetachRelease, OtherRelease, Release, Wipes
  <2> QED
    BY <1>0, <1>2, <2>1, <2>2 DEF EndSound, Ending
<1>5. CASE Goes(t)
  <2>1. ~Wipes(t) /\ ~Wipes(t)' /\ UNCHANGED <<freed, linked, ulQueryLocks>>
    BY <1>0, <1>5 DEF Goes, AttachAllowed, ReadBegin, ReadEnd, ClientDestroy, ClientClose,
       DetachNotFound, DetachResult, PickNobody, StoreClients, Wipes
  <2> QED
    BY <1>0, <1>2, <2>1 DEF EndSound, Ending
<1>6. CASE Joins(t)
  <2>1. ~Wipes(t) /\ ~Wipes(t)' /\ UNCHANGED <<freed, linked, ulQueryLocks>>
    BY <1>0, <1>6 DEF Joins, AttachAppend, ClientCreate, PickClient, Wipes
  <2> QED
    BY <1>0, <1>2, <2>1 DEF EndSound, Ending
<1>7. CASE Parts(t)
  <2>1. ~Wipes(t) /\ ~Wipes(t)' /\ UNCHANGED <<freed, linked, ulQueryLocks>>
    BY <1>0, <1>7 DEF Parts, DetachAgain, DetachFound, DetachUnlink, Done, Wipes
  <2> QED
    BY <1>0, <1>2, <2>1 DEF EndSound, Ending
<1>8. CASE Ends(t)
  <2>1. CASE WipeUnlink(t) \/ WipeNext(t)
    <3>1. Wipes(t) /\ Wipes(t)' /\ UNCHANGED <<freed, linked, ulQueryLocks>>
      BY <1>0, <2>1 DEF WipeUnlink, WipeNext, Wipes
    <3> QED
      BY <1>0, <1>2, <3>1 DEF EndSound, Ending
  <2>2. CASE WipeEnd(t)
    <3>1. Wipes(t) /\ ~Wipes(t)' /\ freed' /\ UNCHANGED <<linked, ulQueryLocks>>
      BY <1>0, <2>2, ListenersAssumption DEF WipeEnd, Wipes, FlowSound, Threads
    <3> QED
      BY <1>0, <1>2, <3>1 DEF EndSound, Ending
  <2>3. CASE SourceDestroy(t)
    <3>1. ~Wipes(t) /\ linked /\ ~linked' /\ (Wipes(t)' => ulQueryLocks = 0) /\ UNCHANGED <<freed, ulQueryLocks>>
      BY <1>0, <2>3 DEF SourceDestroy, Wipes
    <3> QED
      BY <1>0, <1>2, <3>1 DEF EndSound, Ending
  <2> QED
    BY <1>8, <2>1, <2>2, <2>3 DEF Ends
<1> QED
  BY <1>3, <1>4, <1>5, <1>6, <1>7, <1>8, StepIs

----------------------------------------------------------------------------
(* The steps that leave the list alone, and the format and the source of   *)
(* every listener                                                          *)

Quiet(t) ==
  /\ UNCHANGED <<psClientsList, ulClientsCount, hmtxClientsList, psSource, ppsSelf, format, stopped, early>>
  /\ pc[t] # "unlink" /\ pc'[t] # "unlink"

(* What is another listener's stays as it is.                              *)
OnlyIts(t) ==
  \A c \in Clients : c # t => hmtxClient'[c] = hmtxClient[c] /\ memory'[c] = memory[c]

(* Which steps are quiet.                                                  *)
LEMMA StepIsQuiet ==
  ASSUME ListenersInv, NEW t \in Threads,
         Enters(t) \/ Leaves(t) \/ Goes(t) \/ WipeNext(t) \/ WipeEnd(t) \/ SourceDestroy(t)
  PROVE  Quiet(t)
<1>0. Typed /\ FlowSound
  BY DEF ListenersInv
<1> USE DEF Typed, Quiet, Goto, clients, mutexes, objects, history
<1>1. CASE Enters(t)
  BY <1>0, <1>1 DEF Enters, ClientOpen, AttachQuery, ReadQuery, DetachQuery, OtherQuery, Query, Done
<1>2. CASE Leaves(t)
  BY <1>0, <1>2 DEF Leaves, AttachTooMany, AttachRelease, OpenRelease, OpenRefused, ReadRelease,
     DetachRelease, OtherRelease, Release
<1>3. CASE Goes(t)
  BY <1>0, <1>3 DEF Goes, AttachAllowed, ReadBegin, ReadEnd, ClientDestroy, ClientClose,
     DetachNotFound, DetachResult, PickNobody, StoreClients, Freed
<1>4. CASE WipeNext(t)
  BY <1>0, <1>4 DEF WipeNext
<1>5. CASE WipeEnd(t)
  <2>1. back[t] # "unlink"
    BY <1>0, <1>5 DEF WipeEnd, FlowSound, Wipes, Threads
  <2> QED
    BY <1>0, <1>5, <2>1 DEF WipeEnd
<1>6. CASE SourceDestroy(t)
  BY <1>0, <1>6 DEF SourceDestroy
<1> QED
  BY <1>1, <1>2, <1>3, <1>4, <1>5, <1>6

(* A step has no say in the mutex and the memory of another listener.      *)
LEMMA StepIsIts ==
  ASSUME ListenersInv, NEW t \in Threads, Step(t)
  PROVE  OnlyIts(t)
<1>0. Typed
  BY DEF ListenersInv
<1> USE DEF Typed, OnlyIts, mutexes, objects
<1>1. CASE Enters(t) \/ Leaves(t)
  BY <1>0, <1>1 DEF Enters, ClientOpen, AttachQuery, ReadQuery, DetachQuery, OtherQuery,
     Leaves, AttachTooMany, AttachRelease, OpenRelease, OpenRefused, ReadRelease, DetachRelease, OtherRelease
<1>2. CASE Goes(t)
  BY <1>0, <1>2 DEF Goes, AttachAllowed, ReadBegin, ReadEnd, ClientDestroy, ClientClose,
     DetachNotFound, DetachResult, PickNobody, StoreClients, Freed
<1>3. CASE Joins(t) \/ Parts(t) \/ Ends(t)
  BY <1>0, <1>3 DEF Joins, AttachAppend, ClientCreate, PickClient, Parts, DetachAgain, DetachFound, DetachUnlink,
     Ends, WipeUnlink, WipeNext, WipeEnd, SourceDestroy, LockList, UnlockList
<1> QED
  BY <1>1, <1>2, <1>3, StepIs

(* The list and its count.                                                 *)
LEMMA StepKeepsList ==
  ASSUME ListenersInv, NEW t \in Threads, Step(t)
  PROVE  ListSound'
<1>0. Typed /\ FlowSound /\ ListSound /\ Len(psClientsList) \in Nat /\ Nobody \notin Threads
  BY ListenersAssumption DEF ListenersInv, Typed
<1>1. Moves(t)
  BY StepTyped
<1>2. ASSUME UNCHANGED <<psClientsList, ulClientsCount, hmtxClientsList>>, pc[t] # "unlink", pc'[t] # "unlink"
      PROVE  ListSound'
  BY <1>0, <1>1, <1>2 DEF ListSound, Moves, Distinct
<1>3. CASE Enters(t) \/ Leaves(t) \/ Goes(t) \/ WipeNext(t) \/ WipeEnd(t) \/ SourceDestroy(t)
  BY <1>2, <1>3, StepIsQuiet DEF Quiet
<1>4. CASE ClientCreate(t) \/ (\E c \in Clients : PickClient(t, c)) \/ DetachAgain(t) \/ WipeUnlink(t)
  BY <1>0, <1>2, <1>4 DEF ClientCreate, PickClient, DetachAgain, WipeUnlink, Goto, Done, Typed, clients, mutexes
<1>5. CASE AttachAppend(t)
  <2>1. t \in Clients /\ pc[t] = "append" /\ pc'[t] = "attached" /\ hmtxClientsList = Nobody
    BY <1>0, <1>5, StepOfClient DEF AttachAppend, Goto, Typed
  <2>2. t \notin ToSet(psClientsList)
    BY <2>1 DEF ListenersInv, MemberSound, Place, Wipes, Before, Listed
  <2>3. /\ Len(Append(psClientsList, t)) = Len(psClientsList) + 1
        /\ Distinct(Append(psClientsList, t))
    BY <1>0, <2>1, <2>2, Grown DEF ListSound, Typed
  <2>4. /\ psClientsList' = Append(psClientsList, t) /\ ulClientsCount' = ulClientsCount + 1
        /\ hmtxClientsList' = Nobody
    BY <1>5, <2>1 DEF AttachAppend, mutexes
  <2> QED
    BY <1>0, <1>1, <2>1, <2>3, <2>4 DEF ListSound, Moves, Distinct
<1>6. CASE DetachFound(t)
  <2>1. pc[t] = "detaching" /\ pc'[t] = "unlink" /\ hmtxClientsList = Nobody /\ hmtxClientsList' = t
    BY <1>0, <1>6 DEF DetachFound, Goto, LockList, Typed
  <2>2. Target(t) \in ToSet(psClientsList)
    BY <1>0, <1>6 DEF DetachFound, Contains, ToSet, Typed
  <2>3. /\ Len(RemoveFirst(psClientsList, Target(t))) = Len(psClientsList) - 1
        /\ Distinct(RemoveFirst(psClientsList, Target(t)))
    BY <1>0, <2>2, Shrunk DEF ListSound, Typed
  <2>4. psClientsList' = RemoveFirst(psClientsList, Target(t)) /\ ulClientsCount' = ulClientsCount
    BY <1>6 DEF DetachFound
  <2> QED
    BY <1>0, <1>1, <2>1, <2>3, <2>4 DEF ListSound, Moves, Distinct
<1>7. CASE DetachUnlink(t)
  <2>1. /\ pc[t] = "unlink" /\ pc'[t] = "detached" /\ hmtxClientsList' = Nobody /\ psClientsList' = psClientsList
        /\ ulClientsCount' = ulClientsCount - 1 /\ hmtxClientsList = t
    BY <1>0, <1>7 DEF DetachUnlink, Goto, UnlockList, Typed, ListSound
  <2> QED
    BY <1>0, <1>1, <2>1 DEF ListSound, Moves, Distinct
<1> QED
  BY <1>3, <1>4, <1>5, <1>6, <1>7, StepIs DEF Joins, Parts, Ends

(* What a listener's request holds, and what it reads.                     *)
LEMMA StepKeepsClients ==
  ASSUME ListenersInv, NEW t \in Threads, Step(t), NEW c \in Clients
  PROVE  ClientSound(c)'
<1>0. Typed /\ FlowSound /\ ClientSound(c)
  BY DEF ListenersInv
<1>1. Moves(t) /\ OnlyIts(t) /\ c \in Threads
  BY StepTyped, StepIsIts DEF Threads
<1>2. psSource'[c] = psSource[c] \/ hmtxClient[c] \in {Nobody, t} \/ pc[c] = "create"
  <2>1. CASE Enters(t) \/ Leaves(t) \/ Goes(t) \/ WipeNext(t) \/ WipeEnd(t) \/ SourceDestroy(t)
    BY <2>1, StepIsQuiet DEF Quiet
  <2>2. CASE Joins(t) \/ Parts(t) \/ WipeUnlink(t)
    BY <1>0, <2>2 DEF Joins, AttachAppend, ClientCreate, PickClient, Parts, DetachAgain, DetachFound, DetachUnlink,
       WipeUnlink, ClientUnlinkSource, Open, Goto, Typed, objects
  <2> QED
    BY <2>1, <2>2, StepIs DEF Ends
<1>3. CASE c # t
  <2>1. /\ pc'[c] = pc[c] /\ back'[c] = back[c] /\ hmtxClient'[c] = hmtxClient[c] /\ memory'[c] = memory[c]
        /\ c # Nobody
    BY <1>1, <1>3, ListenersAssumption DEF Moves, OnlyIts
  <2> QED
    BY <1>0, <1>2, <1>3, <2>1 DEF ClientSound, Place, Wipes
<1>4. CASE c = t
  <2> USE DEF Typed, ClientSound, Place, Wipes, Goto, mutexes, objects
  <2>1. CASE Enters(t)
    <3>1. CASE ClientOpen(t)
      BY <1>0, <1>1, <1>4, <3>1 DEF ClientOpen, Query
    <3>2. CASE AttachQuery(t)
      BY <1>0, <1>1, <1>4, <3>2 DEF AttachQuery, Query
    <3>3. CASE ReadQuery(t)
      BY <1>0, <1>1, <1>4, <3>3 DEF ReadQuery, Query
    <3>4. CASE DetachQuery(t)
      BY <1>0, <1>1, <1>4, <3>4 DEF DetachQuery, Query, Done
    <3>5. CASE OtherQuery(t)
      BY <1>0, <1>1, <1>4, <3>5, ListenersAssumption DEF OtherQuery, Query, Others
    <3> QED
      BY <2>1, <3>1, <3>2, <3>3, <3>4, <3>5 DEF Enters
  <2>2. CASE Leaves(t)
    <3>1. CASE AttachTooMany(t)
      BY <1>0, <1>1, <1>4, <3>1 DEF AttachTooMany, Release
    <3>2. CASE AttachRelease(t)
      BY <1>0, <1>1, <1>4, <3>2 DEF AttachRelease, Release
    <3>3. CASE OpenRelease(t)
      BY <1>0, <1>1, <1>4, <3>3 DEF OpenRelease, Release
    <3>4. CASE OpenRefused(t)
      BY <1>0, <1>1, <1>4, <3>4 DEF OpenRefused, Release
    <3>5. CASE ReadRelease(t)
      BY <1>0, <1>1, <1>4, <3>5 DEF ReadRelease, Release
    <3>6. CASE DetachRelease(t)
      BY <1>0, <1>1, <1>4, <3>6 DEF DetachRelease, Release
    <3>7. CASE OtherRelease(t)
      BY <1>0, <1>1, <1>4, <3>7, ListenersAssumption DEF OtherRelease, Release, Others
    <3> QED
      BY <2>2, <3>1, <3>2, <3>3, <3>4, <3>5, <3>6, <3>7 DEF Leaves
  <2>3. CASE Goes(t)
    <3>1. CASE AttachAllowed(t)
      BY <1>0, <1>1, <1>4, <3>1 DEF AttachAllowed, Freed
    <3>2. CASE ReadBegin(t)
      BY <1>0, <1>1, <1>4, <3>2 DEF ReadBegin, Freed
    <3>3. CASE ReadEnd(t)
      BY <1>0, <1>1, <1>4, <3>3 DEF ReadEnd, Freed
    <3>4. CASE ClientDestroy(t)
      BY <1>0, <1>1, <1>4, <3>4 DEF ClientDestroy, Freed
    <3>5. CASE ClientClose(t)
      BY <1>0, <1>1, <1>4, <3>5 DEF ClientClose, Freed
    <3>6. CASE DetachNotFound(t)
      BY <1>0, <1>1, <1>4, <3>6 DEF DetachNotFound, Freed
    <3>7. CASE DetachResult(t)
      BY <1>0, <1>1, <1>4, <3>7 DEF DetachResult, Freed
    <3>8. CASE PickNobody(t)
      BY <1>0, <1>1, <1>4, <3>8, ListenersAssumption DEF PickNobody, Freed, Others
    <3>9. CASE StoreClients(t)
      BY <1>0, <1>1, <1>4, <3>9, ListenersAssumption DEF StoreClients, Freed, Others
    <3> QED
      BY <2>3, <3>1, <3>2, <3>3, <3>4, <3>5, <3>6, <3>7, <3>8, <3>9 DEF Goes
  <2>4. CASE Joins(t)
    <3>1. CASE AttachAppend(t)
      BY <1>0, <1>1, <1>4, <3>1 DEF AttachAppend
    <3>2. CASE ClientCreate(t)
      BY <1>0, <1>1, <1>4, <3>2 DEF ClientCreate
    <3>3. CASE \E d \in Clients : PickClient(t, d)
      BY <1>0, <1>1, <1>4, <3>3, ListenersAssumption DEF PickClient, Others
    <3> QED
      BY <2>4, <3>1, <3>2, <3>3 DEF Joins
  <2>5. CASE Parts(t)
    <3>1. CASE DetachAgain(t)
      BY <1>0, <1>1, <1>4, <3>1 DEF DetachAgain, Done, ClientUnlinkSource, LockList, UnlockList
    <3>2. CASE DetachFound(t)
      BY <1>0, <1>1, <1>4, <3>2 DEF DetachFound, ClientUnlinkSource, LockList, UnlockList
    <3>3. CASE DetachUnlink(t)
      BY <1>0, <1>1, <1>4, <3>3 DEF DetachUnlink, ClientUnlinkSource, LockList, UnlockList
    <3> QED
      BY <2>5, <3>1, <3>2, <3>3 DEF Parts
  <2>6. CASE Ends(t)
    <3>1. CASE WipeUnlink(t)
      BY <1>0, <1>1, <1>4, <3>1 DEF WipeUnlink, ClientUnlinkSource
    <3>2. CASE WipeNext(t)
      BY <1>0, <1>1, <1>4, <3>2 DEF WipeNext
    <3>3. CASE WipeEnd(t)
      BY <1>0, <1>1, <1>4, <3>3 DEF WipeEnd, FlowSound
    <3>4. CASE SourceDestroy(t)
      BY <1>0, <1>1, <1>4, <3>4, ListenersAssumption DEF SourceDestroy, FlowSound, Others
    <3> QED
      BY <2>6, <3>1, <3>2, <3>3, <3>4 DEF Ends
  <2> QED
    BY <2>1, <2>2, <2>3, <2>4, <2>5, <2>6, StepIs
<1> QED
  BY <1>3, <1>4

----------------------------------------------------------------------------
(* Who is in the list, and what the format keeps of it                     *)

(* Whoever is pinned, nobody destroys the source.                          *)
LEMMA PinnedIsThere ==
  ASSUME ListenersInv, NEW t \in Threads, HasPin(t)
  PROVE  ~Ending
BY PinsCount DEF ListenersInv, EndSound

(* Whatever is unlinked by anyone but a listener itself has been picked.   *)
LEMMA UnlinkingIs ==
  ASSUME Typed, FlowSound, NEW t \in Threads, pc[t] \in AtDetach \cup {"detach"}, Target(t) \notin stopped
  PROVE  Target(t) = t
BY TargetIs DEF Target

(* Nothing that is still listed when the source goes has a source.         *)
LEMMA WipedHaveNoSource ==
  ASSUME ListenersInv, NEW t \in Threads, WipeEnd(t), NEW c \in Clients, c \notin early
  PROVE  ~psSource[c]
<1>0. Wipes(t) /\ CursorSound(t) /\ pc[t] = "wipe" /\ psClient[t] = Nobody
  BY DEF ListenersInv, WipeEnd, Wipes
<1>1. \A d \in Listed : ~psSource[d]
  BY <1>0 DEF CursorSound
<1>2. ~Unlinking(c)
  <2>1. ulQueryLocks = 0
    BY <1>0 DEF ListenersInv, EndSound, Ending
  <2> QED
    BY <2>1, PinsCount DEF ListenersInv, Unlinking, HasPin, AtDetach
<1> QED
  BY <1>1, <1>2 DEF ListenersInv, FormatSound

(* The source is freed once nobody but an early one has it.                *)
LEMMA SourceIsThere ==
  ASSUME ListenersInv, NEW t \in Threads, Step(t), NEW c \in Clients, c \notin early, psSource[c]
  PROVE  ~freed'
<1>0. FormatSound(c)
  BY DEF ListenersInv
<1>1. CASE WipeEnd(t)
  BY <1>1, WipedHaveNoSource
<1>2. CASE ~WipeEnd(t)
  <2>1. freed' = freed
    BY <1>2 DEF Step, Opening, Reading, Leaving, Detaching, Wiping, Asking,
       ClientOpen, AttachQuery, ReadQuery, DetachQuery, OtherQuery, Query, AttachTooMany,
       AttachRelease, OpenRelease, OpenRefused, ReadRelease, DetachRelease, OtherRelease, Release, AttachAllowed,
       ReadBegin, ReadEnd, ClientDestroy, ClientClose, DetachNotFound, DetachResult, PickNobody, StoreClients,
       AttachAppend, ClientCreate, PickClient, DetachAgain, DetachFound, DetachUnlink,
       WipeUnlink, WipeNext, SourceDestroy, source
  <2> QED
    BY <1>0, <2>1 DEF FormatSound
<1> QED
  BY <1>1, <1>2

(* The quiet steps of others.                                              *)
LEMMA QuietKeepsOthers ==
  ASSUME ListenersInv, NEW t \in Threads, Step(t), Quiet(t), NEW c \in Clients, c # t
  PROVE  MemberSound(c)' /\ FormatSound(c)'
<1>0. MemberSound(c) /\ FormatSound(c)
  BY DEF ListenersInv
<1>1. pc'[c] = pc[c] /\ back'[c] = back[c]
  BY StepTyped DEF Moves, Threads
<1>2. (Ending => Ending') /\ (linked' => linked)
  BY StepEnds
<1>3. Unlinking(c)' <=> Unlinking(c)
  BY StepTyped DEF Unlinking, Quiet, Moves, Target
<1>4. Listed' = Listed
  BY DEF Listed, Quiet
<1>5. c \notin early /\ psSource[c] => ~freed'
  BY SourceIsThere
<1>6. Place(c)' = Place(c)
  BY <1>1 DEF Place, Wipes
<1>7. MemberSound(c)'
  BY <1>0, <1>2, <1>3, <1>4, <1>6 DEF MemberSound, Quiet
<1>8. FormatSound(c)'
  BY <1>0, <1>1, <1>2, <1>3, <1>4, <1>5, <1>6 DEF FormatSound, Quiet
<1> QED
  BY <1>7, <1>8

(* A quiet step of a listener's own is sound where it takes the listener.  *)
Arrives(c, q) ==
  /\ q \in Before => Place(c) \in Before
  /\ Place(c) \in Before => q \in Before \cup {"gone"}
  /\ linked /\ q \in {"close", "gone", "detached", "unlink"} => c \notin Listed
  /\ linked /\ c \in Listed /\ q \notin {"attached", "create"} => psSource[c]
  /\ q \in {"attached", "create"} => Place(c) \in {"attached", "create"}
  /\ c \notin stopped /\ q \in {"attached", "create", "created", "ready", "read", "reading",
                               "readend", "detach", "detaching"} => c \in Listed

(* So the listener that makes such a step stays sound.                     *)
LEMMA QuietKeepsItself ==
  ASSUME ListenersInv, NEW t \in Threads, Step(t), Quiet(t), t \in Clients, NEW q, Place(t)' = q, Arrives(t, q)
  PROVE  MemberSound(t)' /\ FormatSound(t)'
<1>0. MemberSound(t) /\ FormatSound(t)
  BY DEF ListenersInv
<1>2. (Ending => Ending') /\ (linked' => linked)
  BY StepEnds
<1>3. Unlinking(t)' <=> Unlinking(t)
  BY StepTyped DEF Unlinking, Quiet, Moves, Target
<1>4. Listed' = Listed
  BY DEF Listed, Quiet
<1>5. t \notin early /\ psSource[t] => ~freed'
  BY SourceIsThere
<1>6. MemberSound(t)'
  BY <1>0, <1>2, <1>3, <1>4 DEF MemberSound, Quiet, Arrives, Before
<1>7. FormatSound(t)'
  BY <1>0, <1>2, <1>3, <1>4, <1>5 DEF FormatSound, Quiet, Arrives
<1> QED
  BY <1>6, <1>7

(* The quiet steps a listener's request takes from and to.                 *)
LEMMA QuietArrives ==
  ASSUME ListenersInv, NEW t \in Clients, Enters(t) \/ Leaves(t) \/ Goes(t)
  PROVE  Arrives(t, Place(t)')
<1>0. Typed /\ FlowSound /\ MemberSound(t) /\ t \in Threads /\ t \notin Others
  BY ListenersAssumption DEF ListenersInv, Threads
<1>1. Target(t) = t /\ Done(t) = "close"
  BY DEF Target, Done
<1> USE DEF Typed, Goto
<1>2. CASE Enters(t)
  <2>1. CASE ClientOpen(t)
    <3>1. pc[t] = "idle" /\ Place(t) = "idle" /\ Place(t)' = "open"
      BY <1>0, <1>1, <2>1 DEF ClientOpen, Query, Place, Wipes
    <3> QED
      BY <1>0, <1>1, <2>1, <3>1 DEF MemberSound, Arrives, Before
  <2>2. CASE AttachQuery(t)
    <3>1. pc[t] = "open" /\ Place(t) = "open" /\ Place(t)' = IF linked THEN "limit" ELSE "refused"
      BY <1>0, <1>1, <2>2 DEF AttachQuery, Query, Place, Wipes
    <3> QED
      BY <1>0, <1>1, <2>2, <3>1 DEF MemberSound, Arrives, Before
  <2>3. CASE ReadQuery(t)
    <3>1. pc[t] = "read" /\ Place(t) = "read" /\ Place(t)' = IF linked THEN "reading" ELSE "readend"
      BY <1>0, <1>1, <2>3 DEF ReadQuery, Query, Place, Wipes
    <3> QED
      BY <1>0, <1>1, <2>3, <3>1 DEF MemberSound, Arrives, Before
  <2>4. CASE DetachQuery(t)
    <3>1. pc[t] = "detach" /\ Place(t) = "detach" /\ Place(t)' = IF linked THEN "detaching" ELSE "close"
      BY <1>0, <1>1, <2>4 DEF DetachQuery, Query, Place, Wipes
    <3> QED
      BY <1>0, <1>1, <2>4, <3>1 DEF MemberSound, Arrives, Before
  <2>5. ~(OtherQuery(t))
    BY <1>0 DEF OtherQuery, FlowSound, Others
  <2> QED
    BY <1>2, <2>1, <2>2, <2>3, <2>4, <2>5 DEF Enters
<1>3. CASE Leaves(t)
  <2>1. CASE AttachTooMany(t)
    <3>1. pc[t] = "limit" /\ Place(t) = "limit" /\ Place(t)' = "refused"
      BY <1>0, <1>1, <2>1 DEF AttachTooMany, Release, Place, Wipes
    <3> QED
      BY <1>0, <1>1, <2>1, <3>1 DEF MemberSound, Arrives, Before
  <2>2. CASE AttachRelease(t)
    <3>1. pc[t] = "attached" /\ Place(t) = "attached" /\ Place(t)' = "create"
      BY <1>0, <1>1, <2>2 DEF AttachRelease, Release, Place, Wipes
    <3> QED
      BY <1>0, <1>1, <2>2, <3>1 DEF MemberSound, Arrives, Before
  <2>3. CASE OpenRelease(t)
    <3>1. pc[t] = "created" /\ Place(t) = "created" /\ Place(t)' = "ready"
      BY <1>0, <1>1, <2>3 DEF OpenRelease, Release, Place, Wipes
    <3> QED
      BY <1>0, <1>1, <2>3, <3>1 DEF MemberSound, Arrives, Before
  <2>4. CASE OpenRefused(t)
    <3>1. pc[t] = "refused" /\ Place(t) = "refused" /\ Place(t)' = "gone"
      BY <1>0, <1>1, <2>4 DEF OpenRefused, Release, Place, Wipes
    <3> QED
      BY <1>0, <1>1, <2>4, <3>1 DEF MemberSound, Arrives, Before
  <2>5. CASE ReadRelease(t)
    <3>1. pc[t] = "reading" /\ Place(t) = "reading" /\ Place(t)' = "readend"
      BY <1>0, <1>1, <2>5 DEF ReadRelease, Release, Place, Wipes
    <3> QED
      BY <1>0, <1>1, <2>5, <3>1 DEF MemberSound, Arrives, Before
  <2>6. CASE DetachRelease(t)
    <3>1. pc[t] = "detached" /\ Place(t) = "detached" /\ Place(t)' = "close"
      BY <1>0, <1>1, <2>6 DEF DetachRelease, Release, Place, Wipes
    <3> QED
      BY <1>0, <1>1, <2>6, <3>1 DEF MemberSound, Arrives, Before
  <2>7. ~(OtherRelease(t))
    BY <1>0 DEF OtherRelease, FlowSound, Others
  <2> QED
    BY <1>3, <2>1, <2>2, <2>3, <2>4, <2>5, <2>6, <2>7 DEF Leaves
<1>4. CASE Goes(t)
  <2>1. CASE AttachAllowed(t)
    <3>1. pc[t] = "limit" /\ Place(t) = "limit" /\ Place(t)' = "append"
      BY <1>0, <1>1, <2>1 DEF AttachAllowed, Place, Wipes
    <3> QED
      BY <1>0, <1>1, <2>1, <3>1 DEF MemberSound, Arrives, Before
  <2>2. CASE ReadBegin(t)
    <3>1. pc[t] = "ready" /\ Place(t) = "ready" /\ Place(t)' = "read"
      BY <1>0, <1>1, <2>2 DEF ReadBegin, Place, Wipes
    <3> QED
      BY <1>0, <1>1, <2>2, <3>1 DEF MemberSound, Arrives, Before
  <2>3. CASE ReadEnd(t)
    <3>1. pc[t] = "readend" /\ Place(t) = "readend" /\ Place(t)' = "ready"
      BY <1>0, <1>1, <2>3 DEF ReadEnd, Place, Wipes
    <3> QED
      BY <1>0, <1>1, <2>3, <3>1 DEF MemberSound, Arrives, Before
  <2>4. CASE ClientDestroy(t)
    <3>1. pc[t] = "ready" /\ Place(t) = "ready" /\ Place(t)' = IF psSource[t] THEN "detach" ELSE "close"
      BY <1>0, <1>1, <2>4 DEF ClientDestroy, Place, Wipes
    <3> QED
      BY <1>0, <1>1, <2>4, <3>1 DEF MemberSound, Arrives, Before
  <2>5. CASE ClientClose(t)
    <3>1. pc[t] = "close" /\ Place(t) = "close" /\ Place(t)' = "gone"
      BY <1>0, <1>1, <2>5 DEF ClientClose, Place, Wipes
    <3> QED
      BY <1>0, <1>1, <2>5, <3>1 DEF MemberSound, Arrives, Before
  <2>6. CASE DetachNotFound(t)
    <3>1. pc[t] = "detaching" /\ Place(t) = "detaching" /\ Place(t)' = "detached"
      BY <1>0, <1>1, <2>6 DEF DetachNotFound, Place, Wipes
    <3> QED
      BY <1>0, <1>1, <2>6, <3>1 DEF MemberSound, Arrives, Before, DetachNotFound, Contains, Listed, ToSet
  <2>7. ~(DetachResult(t) \/ PickNobody(t) \/ StoreClients(t))
    BY <1>0 DEF DetachResult, PickNobody, StoreClients, FlowSound, Others
  <2> QED
    BY <1>4, <2>1, <2>2, <2>3, <2>4, <2>5, <2>6, <2>7 DEF Goes
<1> QED
  BY <1>2, <1>3, <1>4

(* A quiet step leaves every listener sound.                               *)
LEMMA QuietKeepsMembers ==
  ASSUME ListenersInv, NEW t \in Threads, Step(t), NEW c \in Clients,
         Enters(t) \/ Leaves(t) \/ Goes(t) \/ WipeNext(t) \/ WipeEnd(t) \/ SourceDestroy(t)
  PROVE  MemberSound(c)' /\ FormatSound(c)'
<1>1. Quiet(t)
  BY StepIsQuiet
<1>2. CASE c # t
  BY <1>1, <1>2, QuietKeepsOthers
<1>3. CASE c = t
  <2>1. t \in Clients /\ t \notin Others
    BY <1>3, ListenersAssumption
  <2>2. Arrives(t, Place(t)')
    <3>1. CASE Enters(t) \/ Leaves(t) \/ Goes(t)
      BY <2>1, <3>1, QuietArrives
    <3>2. CASE WipeNext(t) \/ WipeEnd(t)
      <4>1. Typed /\ FlowSound /\ MemberSound(t)
        BY <2>1 DEF ListenersInv
      <4>2. Place(t)' = Place(t)
        <5>1. CASE WipeNext(t)
          BY <4>1, <5>1 DEF WipeNext, Goto, Place, Wipes, Typed
        <5>2. CASE WipeEnd(t)
          <6>1. pc'[t] = back[t] /\ pc[t] = "wipe"
            BY <4>1, <5>2 DEF WipeEnd, Typed
          <6>2. back[t] \notin {"wipe", "wiped"}
            BY <2>1, <4>1, <6>1 DEF FlowSound, Wipes
          <6> QED
            BY <6>1, <6>2 DEF Place, Wipes
        <5> QED
          BY <3>2, <5>1, <5>2
      <4> QED
        BY <4>1, <4>2 DEF MemberSound, Arrives, Before
    <3>3. ~SourceDestroy(t)
      BY <2>1 DEF SourceDestroy, Others
    <3> QED
      BY <3>1, <3>2, <3>3
  <2>3. Place(t)' = Place(t)'
    OBVIOUS
  <2> QED
    BY <1>1, <1>3, <2>1, <2>2, <2>3, QuietKeepsItself
<1> QED
  BY <1>2, <1>3

(* A step of a thread that is not destroying the source, nor about to.     *)
LEMMA OthersPlaces ==
  ASSUME ListenersInv, NEW t \in Threads, Step(t), ~Wipes(t), ~Wipes(t)', NEW c \in Clients
  PROVE  /\ c # t => pc'[c] = pc[c] /\ Place(c)' = Place(c)
         /\ c = t => Place(c) = pc[c] /\ Place(c)' = pc'[c]
         /\ Place(c) \in {"attached", "create"} => pc[c] = Place(c)
BY StepTyped DEF ListenersInv, Moves, Place, Wipes, FlowSound, Threads

(* A listener that is appended is linked and has its format.               *)
LEMMA AppendKeepsMembers ==
  ASSUME ListenersInv, NEW t \in Threads, Step(t), NEW c \in Clients, AttachAppend(t)
  PROVE  MemberSound(c)' /\ FormatSound(c)'
<1>0. Typed /\ FlowSound /\ t \in Clients /\ MemberSound(c) /\ FormatSound(c) /\ MemberSound(t) /\ ListSound
  BY StepOfClient DEF ListenersInv
<1>1. /\ pc[t] = "append" /\ pc'[t] = "attached" /\ ~Wipes(t) /\ ~Wipes(t)'
      /\ psClientsList' = Append(psClientsList, t) /\ format' = [format EXCEPT ![t] = "live"]
      /\ ppsSelf' = [ppsSelf EXCEPT ![t] = TRUE]
      /\ UNCHANGED <<linked, freed, psSource, psClient, stopped, early>>
  BY <1>0 DEF AttachAppend, Goto, Wipes, Typed, source, history
<1>2. /\ c # t => pc'[c] = pc[c] /\ Place(c)' = Place(c)
      /\ c = t => Place(c) = pc[c] /\ Place(c)' = pc'[c]
  BY <1>1, OthersPlaces
<1>3. t \notin Listed /\ ~Unlinking(t)
  BY <1>0, <1>1 DEF MemberSound, Place, Wipes, Before
<1>4. Listed' = Listed \cup {t}
  BY <1>0, <1>1, <1>3, Grown DEF Listed, ListSound, Typed
<1>5. Unlinking(c)' <=> Unlinking(c)
  BY <1>1, StepTyped DEF Unlinking, Moves, Target
<1>6. Ending => Ending'
  BY StepEnds
<1>7. format'[t] = "live" /\ ppsSelf'[t] /\ (c # t => format'[c] = format[c] /\ ppsSelf'[c] = ppsSelf[c])
  BY <1>0, <1>1 DEF Typed
<1>8. MemberSound(c)'
  BY <1>0, <1>1, <1>2, <1>3, <1>4, <1>5, <1>7 DEF MemberSound, Before
<1>9. FormatSound(c)'
  <2>1. t \notin early /\ ~psSource[t]
    BY <1>0, <1>1 DEF MemberSound, Place, Wipes, Before, Typed
  <2> QED
    BY <1>0, <1>1, <1>2, <1>4, <1>5, <1>6, <1>7, <2>1 DEF FormatSound
<1> QED
  BY <1>8, <1>9

(* A listener that is created gets its source while that is linked, or is  *)
(* unlinked already.                                                       *)
LEMMA CreateKeepsMembers ==
  ASSUME ListenersInv, NEW t \in Threads, Step(t), NEW c \in Clients, ClientCreate(t)
  PROVE  MemberSound(c)' /\ FormatSound(c)'
<1>0. Typed /\ FlowSound /\ t \in Clients /\ MemberSound(c) /\ FormatSound(c)
  BY StepOfClient DEF ListenersInv
<1>1. /\ pc[t] = "create" /\ pc'[t] = "created" /\ ~Wipes(t) /\ ~Wipes(t)'
      /\ psSource' = [psSource EXCEPT ![t] = TRUE]
      /\ UNCHANGED <<linked, freed, psClientsList, format, ppsSelf, psClient, stopped, early>>
  BY <1>0 DEF ClientCreate, Goto, Wipes, Typed, source, clients, history
<1>2. /\ c # t => pc'[c] = pc[c] /\ Place(c)' = Place(c)
      /\ c = t => Place(c) = pc[c] /\ Place(c)' = pc'[c]
  BY <1>1, OthersPlaces
<1>3. Unlinking(c)' <=> Unlinking(c)
  BY <1>1, StepTyped DEF Unlinking, Moves, Target
<1>4. (Ending => Ending') /\ Listed' = Listed /\ ~freed
  BY <1>0, <1>1, StepEnds, PinnedIsThere DEF Listed, Ending, HasPin
<1>5. psSource'[t] /\ (c # t => psSource'[c] = psSource[c])
  BY <1>0, <1>1 DEF Typed
<1>6. MemberSound(c)'
  BY <1>0, <1>1, <1>2, <1>3, <1>4, <1>5 DEF MemberSound, Before
<1>7. FormatSound(c)'
  BY <1>0, <1>1, <1>2, <1>3, <1>4, <1>5 DEF FormatSound
<1> QED
  BY <1>6, <1>7

(* An administrator picks a listener that is listed.                       *)
LEMMA PickKeepsMembers ==
  ASSUME ListenersInv, NEW t \in Threads, Step(t), NEW c \in Clients, NEW d \in Clients, PickClient(t, d)
  PROVE  MemberSound(c)' /\ FormatSound(c)'
<1>0. Typed /\ MemberSound(c) /\ FormatSound(c)
  BY DEF ListenersInv
<1>1. /\ pc[t] = "pick" /\ pc'[t] = "detach" /\ ~Wipes(t) /\ ~Wipes(t)' /\ d \in Listed
      /\ stopped' = stopped \cup {d} /\ t \in Admins
      /\ UNCHANGED <<linked, freed, psClientsList, psSource, format, ppsSelf, early>>
  BY <1>0 DEF PickClient, Goto, Wipes, Typed, source, clients, objects
<1>2. c # t /\ pc'[c] = pc[c] /\ Place(c)' = Place(c)
  BY <1>1, OthersPlaces, ListenersAssumption DEF Others
<1>3. Unlinking(c)' <=> Unlinking(c)
  BY <1>1, StepTyped DEF Unlinking, Moves, Target
<1>4. (Ending => Ending') /\ Listed' = Listed
  BY <1>1, StepEnds DEF Listed
<1>5. MemberSound(c)'
  BY <1>0, <1>1, <1>2, <1>3, <1>4 DEF MemberSound
<1>6. FormatSound(c)'
  BY <1>0, <1>1, <1>2, <1>3, <1>4 DEF FormatSound
<1> QED
  BY <1>5, <1>6

(* A listener that somebody else has unlinked is left alone.               *)
LEMMA AgainKeepsMembers ==
  ASSUME ListenersInv, NEW t \in Threads, Step(t), NEW c \in Clients, DetachAgain(t)
  PROVE  MemberSound(c)' /\ FormatSound(c)'
<1> DEFINE x == Target(t)
<1>0. Typed /\ FlowSound /\ MemberSound(c) /\ FormatSound(c)
  BY DEF ListenersInv
<1>1. /\ pc[t] = "detach" /\ pc'[t] = Done(t) /\ ~ppsSelf[x] /\ format[x] = "live"
      /\ psSource' = [psSource EXCEPT ![x] = FALSE] /\ format' = [format EXCEPT ![x] = "freed"]
      /\ early' = IF t \in Admins /\ pc[x] \in {"attached", "create"} THEN early \cup {x} ELSE early
      /\ UNCHANGED <<linked, freed, psClientsList, ppsSelf, psClient, stopped>>
  BY <1>0 DEF DetachAgain, ClientUnlinkSource, NoteEarly, Goto, Typed, source, clients
<1>2. x \in Clients /\ t \in Clients \cup Admins /\ (t \in Admins => x \in stopped) /\ (t \in Clients => x = t)
      /\ (t \in Clients => t \notin Admins)
  BY <1>0, <1>1, TargetIs DEF Target
<1>3. ~Wipes(t) /\ ~Wipes(t)' /\ pc'[t] # "unlink" /\ (t \in Clients => pc'[t] = "close")
  BY <1>1 DEF Done, Wipes
<1>4. /\ c # t => pc'[c] = pc[c] /\ Place(c)' = Place(c)
      /\ c = t => Place(c) = pc[c] /\ Place(c)' = pc'[c]
      /\ Place(c) \in {"attached", "create"} => pc[c] = Place(c)
  BY <1>3, OthersPlaces
<1>5. Unlinking(c)' <=> Unlinking(c)
  BY <1>1, <1>3, StepTyped DEF Unlinking, Moves, Target
<1>6. (Ending => Ending') /\ Listed' = Listed
  BY <1>1, StepEnds DEF Listed
<1>7. format'[x] = "freed" /\ ~psSource'[x] /\ (c # x => format'[c] = format[c] /\ psSource'[c] = psSource[c])
  BY <1>0, <1>1, <1>2 DEF Typed
<1>8. c = x => c \notin Listed /\ Place(c) \notin Before
  BY <1>0, <1>1 DEF MemberSound
<1> HIDE DEF x
<1>9. MemberSound(c)'
  BY <1>0, <1>1, <1>2, <1>3, <1>4, <1>5, <1>6, <1>7, <1>8 DEF MemberSound, Before
<1>10. FormatSound(c)'
  BY <1>0, <1>1, <1>2, <1>3, <1>4, <1>5, <1>6, <1>7, <1>8 DEF FormatSound
<1> QED
  BY <1>9, <1>10

(* A listener is taken off the list before its format is freed.            *)
LEMMA FoundKeepsMembers ==
  ASSUME ListenersInv, NEW t \in Threads, Step(t), NEW c \in Clients, DetachFound(t)
  PROVE  MemberSound(c)' /\ FormatSound(c)'
<1> DEFINE x == Target(t)
<1>0. Typed /\ FlowSound /\ MemberSound(c) /\ FormatSound(c) /\ ListSound
  BY DEF ListenersInv
<1>1. /\ pc[t] = "detaching" /\ pc'[t] = "unlink" /\ x \in Listed /\ hmtxClientsList = Nobody
      /\ psClientsList' = RemoveFirst(psClientsList, x) /\ ppsSelf' = [ppsSelf EXCEPT ![x] = FALSE]
      /\ UNCHANGED <<linked, freed, psSource, format, psClient, stopped, early>>
  BY <1>0 DEF DetachFound, LockList, Contains, Listed, ToSet, Goto, Typed, source, history
<1>2. x \in Clients /\ t \in Clients \cup Admins /\ (t \in Admins => x \in stopped) /\ (t \in Clients => x = t)
      /\ (t \in Clients => t \notin Admins)
  BY <1>0, <1>1, TargetIs DEF Target, AtDetach
<1>3. ~Wipes(t) /\ ~Wipes(t)' /\ HasPin(t)
  BY <1>1 DEF Wipes, HasPin, AtDetach
<1>4. /\ c # t => pc'[c] = pc[c] /\ Place(c)' = Place(c)
      /\ c = t => Place(c) = pc[c] /\ Place(c)' = pc'[c]
  BY <1>3, OthersPlaces
<1>5. ~Unlinking(c) /\ (Unlinking(c)' <=> c = x)
  <2>1. \A u \in Threads : pc[u] # "unlink"
    BY <1>0, <1>1, ListenersAssumption DEF ListSound
  <2> QED
    BY <1>1, <2>1, StepTyped DEF Unlinking, Moves, Target
<1>6. (Ending => Ending') /\ ~Ending /\ Listed' = Listed \ {x}
  <2>1. Listed' = Listed \ {x}
    BY <1>0, <1>1, Shrunk DEF Listed, ListSound, Typed
  <2> QED
    BY <1>3, <2>1, StepEnds, PinnedIsThere
<1>7. ~ppsSelf'[x] /\ (c # x => ppsSelf'[c] = ppsSelf[c])
  BY <1>0, <1>1, <1>2 DEF Typed
<1>8. c = x => c \in Listed /\ Place(c) \notin Before
  BY <1>0, <1>1 DEF MemberSound
<1> HIDE DEF x
<1>9. MemberSound(c)'
  BY <1>0, <1>1, <1>2, <1>3, <1>4, <1>5, <1>6, <1>7, <1>8 DEF MemberSound, Before
<1>10. FormatSound(c)'
  BY <1>0, <1>1, <1>2, <1>3, <1>4, <1>5, <1>6, <1>7, <1>8 DEF FormatSound
<1> QED
  BY <1>9, <1>10

(* Only one thread unlinks at a time: the format it frees is live.         *)
LEMMA UnlinkKeepsMembers ==
  ASSUME ListenersInv, NEW t \in Threads, Step(t), NEW c \in Clients, DetachUnlink(t)
  PROVE  MemberSound(c)' /\ FormatSound(c)'
<1> DEFINE x == Target(t)
<1>0. Typed /\ FlowSound /\ MemberSound(c) /\ FormatSound(c) /\ ListSound
  BY DEF ListenersInv
<1>1. /\ pc[t] = "unlink" /\ pc'[t] = "detached" /\ format[x] = "live" /\ hmtxClientsList = t
      /\ psSource' = [psSource EXCEPT ![x] = FALSE] /\ format' = [format EXCEPT ![x] = "freed"]
      /\ early' = IF t \in Admins /\ pc[x] \in {"attached", "create"} THEN early \cup {x} ELSE early
      /\ UNCHANGED <<linked, freed, psClientsList, ppsSelf, psClient, stopped>>
  BY <1>0 DEF DetachUnlink, ClientUnlinkSource, NoteEarly, Goto, Typed, source, ListSound
<1>2. x \in Clients /\ t \in Clients \cup Admins /\ (t \in Admins => x \in stopped) /\ (t \in Clients => x = t)
      /\ (t \in Clients => t \notin Admins)
  BY <1>0, <1>1, TargetIs DEF Target, AtDetach
<1>3. ~Wipes(t) /\ ~Wipes(t)'
  BY <1>1 DEF Wipes
<1>4. /\ c # t => pc'[c] = pc[c] /\ Place(c)' = Place(c)
      /\ c = t => Place(c) = pc[c] /\ Place(c)' = pc'[c]
      /\ Place(c) \in {"attached", "create"} => pc[c] = Place(c)
  BY <1>3, OthersPlaces
<1>5. ~Unlinking(c)' /\ (Unlinking(c) <=> c = x)
  <2>1. \A u \in Threads : u # t => pc[u] # "unlink"
    BY <1>0, <1>1 DEF ListSound
  <2>2. \A u \in Threads : pc'[u] # "unlink"
    BY <1>1, <2>1, StepTyped DEF Moves
  <2> QED
    BY <1>1, <2>1, <2>2 DEF Unlinking
<1>6. (Ending => Ending') /\ Listed' = Listed
  BY <1>1, StepEnds DEF Listed
<1>7. format'[x] = "freed" /\ ~psSource'[x] /\ (c # x => format'[c] = format[c] /\ psSource'[c] = psSource[c])
  BY <1>0, <1>1, <1>2 DEF Typed
<1>8. c = x => c \notin Listed /\ Place(c) \notin Before
  BY <1>0, <1>5 DEF MemberSound
<1> HIDE DEF x
<1>9. MemberSound(c)'
  BY <1>0, <1>1, <1>2, <1>3, <1>4, <1>5, <1>6, <1>7, <1>8 DEF MemberSound, Before
<1>10. FormatSound(c)'
  <2>1. pc'[c] = "unlink" => c # x /\ pc[c] = "unlink"
    <3>1. pc'[c] # "unlink" \/ c # t
      BY <1>1
    <3>2. pc[c] = "unlink" => hmtxClientsList = c
      BY <1>0 DEF ListSound, Threads
    <3> QED
      BY <1>1, <1>4, <3>1, <3>2
  <2> QED
    BY <1>0, <1>1, <1>2, <1>3, <1>4, <1>5, <1>6, <1>7, <1>8, <2>1 DEF FormatSound
<1> QED
  BY <1>9, <1>10

(* The end of the source unlinks the listeners one after the other, each   *)
(* once.                                                                   *)
LEMMA WipeKeepsMembers ==
  ASSUME ListenersInv, NEW t \in Threads, Step(t), NEW c \in Clients, WipeUnlink(t)
  PROVE  MemberSound(c)' /\ FormatSound(c)'
<1> DEFINE x == psClient[t]
<1>0. Typed /\ FlowSound /\ EndSound /\ MemberSound(c) /\ FormatSound(c) /\ CursorSound(t)
  BY DEF ListenersInv
<1>1. /\ pc[t] = "wipe" /\ pc'[t] = "wiped" /\ x # Nobody /\ format[x] = "live" /\ back'[t] = back[t]
      /\ psSource' = [psSource EXCEPT ![x] = FALSE] /\ format' = [format EXCEPT ![x] = "freed"]
      /\ UNCHANGED <<linked, freed, psClientsList, ppsSelf, psClient, stopped, early>>
  BY <1>0 DEF WipeUnlink, ClientUnlinkSource, Goto, Typed, source, clients, history
<1>2. x \in Listed /\ x \in Clients
  BY <1>0, <1>1 DEF CursorSound, CursorAt, Wipes, Listed, ToSet, Typed
<1>3. Ending /\ Ending' /\ ~linked /\ ulQueryLocks = 0
  BY <1>0, <1>1, StepEnds DEF Ending, EndSound, Wipes
<1>4. Place(c)' = Place(c) /\ pc[c] # "unlink" /\ pc'[c] # "unlink" /\ Place(c) \notin {"attached", "create"}
  <2>1. c \in Threads /\ ~HasPin(c)
    BY <1>3, PinsCount DEF ListenersInv, Threads
  <2>2. c # t => pc'[c] = pc[c] /\ back'[c] = back[c]
    BY <2>1, StepTyped DEF Moves
  <2> QED
    BY <1>0, <1>1, <2>1, <2>2 DEF Place, Wipes, HasPin, AtDetach, FlowSound
<1>5. ~Unlinking(c)' /\ ~Unlinking(c)
  <2>1. \A u \in Threads : ~HasPin(u)
    BY <1>3, PinsCount DEF ListenersInv
  <2>2. \A u \in Threads : pc[u] # "unlink"
    BY <2>1 DEF HasPin, AtDetach
  <2>3. \A u \in Threads : pc'[u] # "unlink"
    BY <1>1, <2>2, StepTyped DEF Moves
  <2> QED
    BY <2>2, <2>3 DEF Unlinking
<1>6. Listed' = Listed
  BY <1>1 DEF Listed
<1>7. format'[x] = "freed" /\ ~psSource'[x] /\ (c # x => format'[c] = format[c] /\ psSource'[c] = psSource[c])
  BY <1>0, <1>1, <1>2 DEF Typed
<1>8. c = x => Place(c) \notin Before
  BY <1>0, <1>2 DEF MemberSound
<1> HIDE DEF x
<1>9. MemberSound(c)'
  BY <1>0, <1>1, <1>3, <1>4, <1>5, <1>6, <1>7, <1>8 DEF MemberSound
<1>10. FormatSound(c)'
  BY <1>0, <1>1, <1>3, <1>4, <1>5, <1>6, <1>7 DEF FormatSound
<1> QED
  BY <1>9, <1>10

(* Every step leaves every listener sound.                                 *)
LEMMA StepKeepsMembers ==
  ASSUME ListenersInv, NEW t \in Threads, Step(t), NEW c \in Clients
  PROVE  MemberSound(c)' /\ FormatSound(c)'
BY StepIs, QuietKeepsMembers, AppendKeepsMembers, CreateKeepsMembers, PickKeepsMembers, AgainKeepsMembers,
   FoundKeepsMembers, UnlinkKeepsMembers, WipeKeepsMembers DEF Joins, Parts, Ends

----------------------------------------------------------------------------
(* How far _SourceDestroy is                                               *)

(* A destruction that nobody disturbs.                                     *)
LEMMA CursorStays ==
  ASSUME ListenersInv, NEW t \in Threads, Step(t), NEW u \in Threads, u # t,
         psClientsList' = psClientsList, stopped' = stopped,
         \A c \in Listed : psSource'[c] = psSource[c] /\ format'[c] = format[c]
  PROVE  CursorSound(u)'
<1>0. Typed /\ CursorSound(u)
  BY DEF ListenersInv
<1>1. pc'[u] = pc[u] /\ psClient'[u] = psClient[u] /\ (Wipes(u)' <=> Wipes(u)) /\ Listed' = Listed
  BY StepTyped DEF Moves, Wipes, Listed
<1>2. \A k \in 1..Len(psClientsList) :
        /\ psClientsList[k] \in Listed
        /\ psSource'[psClientsList[k]] = psSource[psClientsList[k]]
        /\ Unwiped(psClientsList[k])' <=> Unwiped(psClientsList[k])
  BY <1>0 DEF Listed, ToSet, Typed, Unwiped
<1>3. \A k \in 1..Len(psClientsList) : CursorAt(u, k) => CursorAt(u, k)'
  BY <1>1, <1>2 DEF CursorAt
<1> QED
  BY <1>0, <1>1, <1>3 DEF CursorSound

(* Who destroys the source starts at the head of the list.                 *)
LEMMA CursorStarts ==
  ASSUME ListenersInv, NEW t \in Threads, Step(t), Quiet(t), ~Ending, WipeFromFirst(t), pc'[t] # "wiped"
  PROVE  \A u \in Threads : CursorSound(u)'
<1>0. Typed /\ Typed' /\ \A c \in Clients : FormatSound(c)
  BY StepTyped DEF ListenersInv
<1>1. \A u \in Threads : u # t => ~Wipes(u)'
  BY StepTyped DEF Ending, Moves, Wipes
<1>2. CASE ~Wipes(t)'
  BY <1>1, <1>2 DEF CursorSound
<1>3. CASE Wipes(t)'
  <2>1. pc'[t] = "wipe" /\ psClient'[t] = First
    BY <1>0, <1>3 DEF Wipes, WipeFromFirst, Typed
  <2>2. /\ First \in Clients \cup {Nobody}
        /\ psClientsList = <<>> => First = Nobody /\ Listed = {}
        /\ psClientsList # <<>> => First = psClientsList[1] /\ 1 \in 1..Len(psClientsList)
    BY <1>0, FirstIs
  <2>3. CASE psClientsList = <<>>
    <3>1. Listed' = {} /\ psClient'[t] = Nobody
      BY <2>1, <2>2, <2>3 DEF Listed, Quiet
    <3> QED
      BY <1>1, <2>1, <3>1 DEF CursorSound
  <2>4. CASE psClientsList # <<>>
    <3>1. psClientsList' = psClientsList /\ 1 \in 1..Len(psClientsList) /\ psClient'[t] = psClientsList[1]
      BY <2>1, <2>2, <2>4 DEF Quiet
    <3>2. ASSUME NEW j \in 1..Len(psClientsList) PROVE Unwiped(psClientsList[j])' /\ psClientsList[j] # Nobody
      <4>1. psClientsList[j] \in Listed /\ psClientsList[j] \in Clients
        BY <1>0 DEF Listed, ToSet, Typed
      <4> QED
        BY <1>0, <4>1, ListenersAssumption DEF FormatSound, Unwiped, Quiet, Threads
    <3>3. CursorAt(t, 1)'
      BY <2>1, <3>1, <3>2 DEF CursorAt
    <3> QED
      BY <1>1, <2>1, <3>1, <3>2, <3>3 DEF CursorSound
  <2> QED
    BY <2>3, <2>4
<1> QED
  BY <1>2, <1>3

(* It unlinks the listener it is at.                                       *)
LEMMA CursorUnlinks ==
  ASSUME ListenersInv, NEW t \in Threads, Step(t), WipeUnlink(t)
  PROVE  \A u \in Threads : CursorSound(u)'
<1>0. Typed /\ EndSound /\ ListSound /\ CursorSound(t)
  BY DEF ListenersInv
<1>1. /\ pc[t] = "wipe" /\ pc'[t] = "wiped" /\ psClient[t] # Nobody
      /\ psSource' = [psSource EXCEPT ![psClient[t]] = FALSE] /\ format' = [format EXCEPT ![psClient[t]] = "freed"]
      /\ UNCHANGED <<psClientsList, psClient, stopped>>
  BY <1>0 DEF WipeUnlink, ClientUnlinkSource, Goto, Typed, clients, history
<1>2. \A u \in Threads : u # t => ~Wipes(u)'
  BY <1>0, <1>1, StepTyped DEF EndSound, Moves, Wipes
<1>3. PICK k \in 1..Len(psClientsList) : CursorAt(t, k)
  BY <1>0, <1>1 DEF CursorSound, Wipes
<1>4. /\ psClientsList[k] = psClient[t]
      /\ \A j \in 1..Len(psClientsList) : psClientsList[j] \in Clients /\ (psClientsList[j] = psClient[t] <=> j = k)
  BY <1>0, <1>3 DEF CursorAt, Typed, ListSound, Distinct
<1>5. \A j \in 1..Len(psClientsList) :
        /\ ~psSource'[psClientsList[j]] <=> j = k \/ ~psSource[psClientsList[j]]
        /\ j # k => (Unwiped(psClientsList[j])' <=> Unwiped(psClientsList[j]))
  BY <1>0, <1>1, <1>4 DEF Typed, Unwiped
<1>6. CursorAt(t, k)'
  BY <1>0, <1>1, <1>3, <1>4, <1>5 DEF CursorAt, Typed
<1> QED
  BY <1>1, <1>2, <1>6 DEF CursorSound

(* It goes to the next one.                                                *)
LEMMA CursorAdvances ==
  ASSUME ListenersInv, NEW t \in Threads, Step(t), WipeNext(t)
  PROVE  \A u \in Threads : CursorSound(u)'
<1>0. Typed /\ Typed' /\ EndSound /\ ListSound /\ CursorSound(t) /\ Len(psClientsList) \in Nat
  BY StepTyped DEF ListenersInv, Typed
<1>1. /\ pc[t] = "wiped" /\ pc'[t] = "wipe" /\ psClient'[t] = After(psClient[t])
      /\ UNCHANGED <<psClientsList, psSource, format, stopped>>
  BY <1>0 DEF WipeNext, Goto, Typed, clients, objects, history
<1>2. \A u \in Threads : u # t => ~Wipes(u)'
  BY <1>0, <1>1, StepTyped DEF EndSound, Moves, Wipes
<1>3. PICK k \in 1..Len(psClientsList) : CursorAt(t, k)
  BY <1>0, <1>1 DEF CursorSound, Wipes
<1>4. psClient'[t] = IF k = Len(psClientsList) THEN Nobody ELSE psClientsList[k + 1]
  BY <1>0, <1>1, <1>3, AfterIs DEF CursorAt, ListSound
<1>5. \A j \in 1..Len(psClientsList) : j <= k => ~psSource'[psClientsList[j]]
  BY <1>1, <1>3 DEF CursorAt
<1>6. \A j \in 1..Len(psClientsList) : j > k => Unwiped(psClientsList[j])'
  BY <1>1, <1>3 DEF CursorAt, Unwiped
<1>7. CASE k = Len(psClientsList)
  <2>1. \A c \in Listed' : ~psSource'[c]
    BY <1>0, <1>1, <1>5, <1>7 DEF Listed, ToSet, Typed
  <2> QED
    BY <1>1, <1>2, <1>4, <1>7, <2>1 DEF CursorSound
<1>8. CASE k # Len(psClientsList)
  <2>1. k + 1 \in 1..Len(psClientsList)
    BY <1>0, <1>8
  <2>2. psClient'[t] = psClientsList[k + 1] /\ psClientsList[k + 1] # Nobody
    BY <1>0, <1>4, <1>8, <2>1, ListenersAssumption DEF Typed, Threads
  <2>3. CursorAt(t, k + 1)'
    BY <1>0, <1>1, <1>5, <1>6, <2>1, <2>2 DEF CursorAt
  <2> QED
    BY <1>1, <1>2, <2>1, <2>2, <2>3 DEF CursorSound
<1> QED
  BY <1>7, <1>8

(* Whoever walks the list of listeners stands on one that is in it.        *)
LEMMA StepKeepsCursors ==
  ASSUME ListenersInv, NEW t \in Threads, Step(t)
  PROVE  \A u \in Threads : CursorSound(u)'
<1>0. Typed /\ FlowSound /\ EndSound /\ ulQueryLocks \in Nat /\ Pins(t) <= ulQueryLocks
  BY PinsCount DEF ListenersInv
<1>1. ASSUME Quiet(t), ~Wipes(t)' PROVE \A u \in Threads : CursorSound(u)'
  <2>1. CursorSound(t)'
    BY <1>1 DEF CursorSound
  <2>2. \A u \in Threads : u # t => CursorSound(u)'
    BY <1>1, CursorStays DEF Quiet
  <2> QED
    BY <2>1, <2>2
<1>2. ASSUME ~Ending, ~Wipes(t)' PROVE \A u \in Threads : CursorSound(u)'
  <2>1. \A u \in Threads : ~Wipes(u)'
    BY <1>2, StepTyped DEF Ending, Moves, Wipes
  <2> QED
    BY <2>1 DEF CursorSound
<1>3. CASE Enters(t)
  <2>1. ~Wipes(t)'
    BY <1>0, <1>3 DEF Enters, ClientOpen, AttachQuery, ReadQuery, DetachQuery, OtherQuery, Query, Done, Wipes,
       Goto, Typed
  <2> QED
    BY <1>1, <1>3, <2>1, StepIsQuiet
<1>4. CASE Leaves(t)
  <2>1. HasPin(t)
    <3>1. ~DetachRelease(t) /\ ~OtherRelease(t) => t \in Clients
      BY <1>0, <1>4, StepOfClient DEF Leaves
    <3>2. OtherRelease(t) => t \notin Clients
      BY ListenersAssumption DEF OtherRelease
    <3> QED
      BY <1>4, <3>1, <3>2 DEF Leaves, AttachTooMany, AttachRelease, OpenRelease, OpenRefused, ReadRelease,
         DetachRelease, OtherRelease, Release, HasPin, AtDetach
  <2>2. WipeFromFirst(t) /\ pc'[t] # "wiped"
    BY <1>0, <1>4 DEF Leaves, AttachTooMany, AttachRelease, OpenRelease, OpenRefused, ReadRelease,
         DetachRelease, OtherRelease, Release, Typed
  <2> QED
    BY <1>4, <2>1, <2>2, PinnedIsThere, StepIsQuiet, CursorStarts
<1>5. CASE Goes(t)
  <2>1. ~Wipes(t)'
    BY <1>0, <1>5 DEF Goes, AttachAllowed, ReadBegin, ReadEnd, ClientDestroy, ClientClose,
       DetachNotFound, DetachResult, PickNobody, StoreClients, Wipes, Goto, Typed
  <2> QED
    BY <1>1, <1>5, <2>1, StepIsQuiet
<1>6. CASE Joins(t)
  <2>1. AttachAppend(t) \/ ClientCreate(t) => t \in Clients
    BY <1>0, StepOfClient
  <2>2. ~Wipes(t)' /\ HasPin(t)
    BY <1>0, <1>6, <2>1, ListenersAssumption DEF Joins, AttachAppend, ClientCreate, PickClient, Goto, Typed, Wipes,
       HasPin, Others
  <2> QED
    BY <1>2, <2>2, PinnedIsThere
<1>7. CASE DetachFound(t) \/ DetachUnlink(t)
  <2>1. ~Wipes(t)' /\ HasPin(t)
    BY <1>0, <1>7 DEF DetachFound, DetachUnlink, Goto, Typed, Wipes, HasPin, AtDetach
  <2> QED
    BY <1>2, <2>1, PinnedIsThere
<1>8. CASE DetachAgain(t)
  <2> DEFINE x == Target(t)
  <2>1. /\ pc[t] = "detach" /\ ~Wipes(t)' /\ ~ppsSelf[x]
        /\ psSource' = [psSource EXCEPT ![x] = FALSE] /\ format' = [format EXCEPT ![x] = "freed"]
        /\ UNCHANGED <<psClientsList, stopped>>
    BY <1>0, <1>8 DEF DetachAgain, ClientUnlinkSource, Done, Goto, Typed, Wipes, clients
  <2>2. x \in Clients
    BY <1>0, <2>1, TargetIs
  <2>3. x \notin Listed
    BY <2>1, <2>2 DEF ListenersInv, MemberSound
  <2> HIDE DEF x
  <2>4. \A c \in Listed : psSource'[c] = psSource[c] /\ format'[c] = format[c]
    BY <1>0, <2>1, <2>3, ListedAreClients DEF Typed
  <2>5. CursorSound(t)'
    BY <2>1 DEF CursorSound
  <2>6. \A u \in Threads : u # t => CursorSound(u)'
    BY <2>1, <2>4, CursorStays
  <2> QED
    BY <2>5, <2>6
<1>9. CASE Ends(t)
  <2>1. CASE WipeEnd(t)
    <3>1. ~Wipes(t)'
      BY <1>0, <2>1 DEF WipeEnd, FlowSound, Wipes, Threads, Typed
    <3> QED
      BY <1>1, <2>1, <3>1, StepIsQuiet
  <2>2. CASE SourceDestroy(t)
    <3>1. ~Ending /\ WipeFromFirst(t) /\ pc'[t] # "wiped"
      BY <1>0, <2>2 DEF SourceDestroy, EndSound, Typed
    <3> QED
      BY <2>2, <3>1, StepIsQuiet, CursorStarts
  <2> QED
    BY <1>9, <2>1, <2>2, CursorUnlinks, CursorAdvances DEF Ends
<1> QED
  BY <1>3, <1>4, <1>5, <1>6, <1>7, <1>8, <1>9, StepIs DEF Parts

----------------------------------------------------------------------------
(* The theorems *)

(* The invariant holds at first: nobody listens.                           *)
LEMMA InitInv == Init => ListenersInv
<1> SUFFICES ASSUME Init PROVE ListenersInv
  OBVIOUS
<1>0. \A t \in Threads : pc[t] = "idle"
  BY DEF Init
<1>1. Typed
  <2>1. psClientsList \in Seq(Clients) /\ "idle" \in Places
    BY DEF Init, Places
  <2> QED
    BY <2>1 DEF Init, Typed
<1>2. FlowSound /\ EndSound
  <2>1. FlowSound
    BY <1>0 DEF FlowSound, Wipes, AtDetach, Threads, Others
  <2>2. EndSound
    BY <1>0 DEF Init, EndSound, Ending, Wipes
  <2> QED
    BY <2>1, <2>2
<1>3. PinsCounted
  <2>1. Pinned = {} /\ Twice = {}
    BY <1>0 DEF Pinned, Twice, HasPin, HasSecond, AtDetach
  <2> QED
    BY <2>1, FS_EmptySet DEF Init, PinsCounted
<1>4. ListSound
  BY <1>0, ListenersAssumption DEF Init, ListSound, Distinct
<1>5. Listed = {}
  BY DEF Init, Listed, ToSet
<1>6. ASSUME NEW c \in Clients PROVE ClientSound(c) /\ MemberSound(c) /\ FormatSound(c)
  <2>1. pc[c] = "idle" /\ Place(c) = "idle" /\ ~Unlinking(c)
    BY <1>0 DEF Place, Wipes, Unlinking, Threads
  <2> QED
    BY <1>5, <2>1 DEF Init, ClientSound, MemberSound, FormatSound
<1>7. ASSUME NEW t \in Threads PROVE CursorSound(t)
  BY <1>0 DEF CursorSound, Wipes
<1> QED
  BY <1>1, <1>2, <1>3, <1>4, <1>6, <1>7 DEF ListenersInv

(* Every step keeps the invariant, by the lemmas on its parts.             *)
LEMMA NextKeepsInv == ListenersInv /\ [Next]_vars => ListenersInv'
<1> SUFFICES ASSUME ListenersInv, [Next]_vars PROVE ListenersInv'
  OBVIOUS
<1>1. ASSUME NEW t \in Threads, Step(t) PROVE ListenersInv'
  <2>1. PinsCounted'
    BY <1>1, StepTyped, StepCounts, PinsMove DEF ListenersInv
  <2> QED
    BY <1>1, <2>1, StepTyped, StepFlows, StepEnds, StepKeepsList, StepKeepsClients, StepKeepsMembers, StepKeepsCursors
       DEF ListenersInv
<1>2. CASE UNCHANGED vars
  <2> USE <1>2 DEF vars, source, clients, mutexes, objects, threads, history
  <2>1. Typed' /\ FlowSound' /\ EndSound'
    BY DEF ListenersInv, Typed, FlowSound, EndSound, Ending, Wipes
  <2>2. PinsCounted' /\ ListSound'
    BY DEF ListenersInv, PinsCounted, Pinned, Twice, HasPin, HasSecond, ListSound
  <2>3. \A c \in Clients : ClientSound(c)'
    BY DEF ListenersInv, ClientSound, Place, Wipes
  <2>4. \A c \in Clients : MemberSound(c)'
    BY DEF ListenersInv, MemberSound, Place, Wipes, Unlinking, Target, Listed
  <2>5. \A c \in Clients : FormatSound(c)'
    BY DEF ListenersInv, FormatSound, Place, Wipes, Unlinking, Target, Listed, Ending
  <2>6. \A t \in Threads : CursorSound(t)'
    BY DEF ListenersInv, CursorSound, CursorAt, Unwiped, Wipes, Listed
  <2> QED
    BY <2>1, <2>2, <2>3, <2>4, <2>5, <2>6 DEF ListenersInv
<1> QED
  BY <1>1, <1>2 DEF Next, Step

(* So it holds in every state.                                             *)
LEMMA InvHolds == Spec => []ListenersInv
BY InitInv, NextKeepsInv, PTL DEF Spec

(* ReadsAreSafe: a listener that no administrator has unlinked while it was*)
(* being created reads from a source and a format that are there.          *)
THEOREM ReadersAreSafe == Spec => []ReadsAreSafe
<1>1. ListenersInv => ReadsAreSafe
  <2> SUFFICES ASSUME ListenersInv, NEW c \in Clients \ early
               PROVE  /\ pc[c] = "read" => ~freed /\ format[c] = "live"
                      /\ pc[c] = "reading" => ulQueryLocks > 0 /\ ~freed /\ format[c] = "live"
    BY DEF ReadsAreSafe
  <2>1. c \in Threads /\ ClientSound(c) /\ FormatSound(c)
    BY DEF ListenersInv, Threads
  <2>2. pc[c] = "reading" => ulQueryLocks > 0
    <3>1. pc[c] = "reading" => HasPin(c)
      BY DEF HasPin
    <3>2. ulQueryLocks \in Nat /\ Pins(c) <= ulQueryLocks
      BY <2>1, PinsCount DEF ListenersInv
    <3> QED
      BY <3>1, <3>2 DEF Pins
  <2> QED
    BY <2>1, <2>2 DEF ClientSound, FormatSound
<1> QED
  BY <1>1, InvHolds, PTL

(* ListHolds: while the list is not locked the count is its length; while  *)
(* the source is linked the list is of listeners that are there; and who   *)
(* unlinks one that no administrator has picked finds its format's part.   *)
THEOREM ListOfTheLiving == Spec => []ListHolds
<1>1. ListenersInv => CountExact
  BY DEF ListenersInv, ListSound, CountExact
<1>2. ASSUME ListenersInv, linked, NEW c \in Listed PROVE memory[c] = "live"
  <2>1. c \in Clients
    BY <1>2, ListedAreClients DEF ListenersInv
  <2>2. ClientSound(c) /\ MemberSound(c)
    BY <2>1, <1>2 DEF ListenersInv
  <2> QED
    BY <1>2, <2>2 DEF ClientSound, MemberSound, Before
<1>3. ASSUME ListenersInv, NEW t \in Threads, NEW c \in Unlinks(t) \ stopped PROVE format[c] = "live"
  <2>0. Typed /\ FlowSound
    BY <1>3 DEF ListenersInv
  <2>1. CASE pc[t] = "unlink"
    <3>1. c = Target(t) /\ Target(t) \in Clients /\ Target(t) = t
      BY <2>0, <2>1, TargetIs, UnlinkingIs DEF Unlinks, AtDetach
    <3> QED
      BY <1>3, <2>1, <3>1 DEF ListenersInv, FormatSound
  <2>2. CASE pc[t] = "wipe"
    <3>1. c = psClient[t] /\ c # Nobody
      BY <2>2 DEF Unlinks
    <3>2. CursorSound(t)
      BY <1>3 DEF ListenersInv
    <3> QED
      BY <2>2, <3>1, <3>2 DEF CursorSound, CursorAt, Wipes, Unwiped
  <2>3. CASE pc[t] = "detach"
    <3>1. c = Target(t) /\ ~ppsSelf[c] /\ c \in Clients /\ c = t
      BY <2>0, <2>3, TargetIs, UnlinkingIs DEF Unlinks
    <3>2. MemberSound(c) /\ Place(c) = "detach"
      BY <1>3, <2>3, <3>1 DEF ListenersInv, Place, Wipes
    <3> QED
      BY <3>1, <3>2 DEF MemberSound
  <2>4. CASE pc[t] \notin {"unlink", "wipe", "detach"}
    BY <2>4 DEF Unlinks
  <2> QED
    BY <2>1, <2>2, <2>3, <2>4
<1>4. ListenersInv => ListHolds
  BY <1>1, <1>2, <1>3 DEF ListHolds, FoundAlive
<1> QED
  BY <1>4, InvHolds, PTL

(* TypeOK: no more listeners are listed or counted than there are, and no  *)
(* more pins taken than two for each request.                              *)
THEOREM ListenersTyped == Spec => []TypeOK
<1>1. ASSUME ListenersInv PROVE ulQueryLocks \in 0..2 * Cardinality(Threads)
  <2>1. /\ Cardinality(Pinned) \in Nat /\ Cardinality(Pinned) <= Cardinality(Threads)
        /\ Cardinality(Twice) \in Nat /\ Cardinality(Twice) <= Cardinality(Threads)
        /\ Cardinality(Threads) \in Nat
    BY ListenersAssumption, FS_Subset, FS_CardinalityType DEF Pinned, Twice
  <2> QED
    BY <1>1, <2>1 DEF ListenersInv, PinsCounted
<1>2. ASSUME ListenersInv
      PROVE  psClientsList \in BoundedSeq(Clients, Cardinality(Clients)) /\ ulClientsCount \in 0..Cardinality(Clients)
  <2> DEFINE L == psClientsList
             n == Len(L)
  <2>0. Typed /\ FlowSound /\ ListSound /\ n \in Nat /\ Listed \subseteq Clients
    BY <1>2, ListedAreClients DEF ListenersInv, Typed
  <2>1. IsFiniteSet(Clients) /\ IsFiniteSet(Listed)
    BY <2>0, ListenersAssumption, FS_Subset DEF Threads
  <2>2. L \in Bijection(1..n, Listed)
    <3>1. L \in [1..n -> Listed] /\ Listed = {L[k] : k \in 1..n}
      BY <2>0 DEF Typed, Listed, ToSet
    <3>2. \A x \in Listed : \E k \in 1..n : L[k] = x
      BY <3>1
    <3> HIDE DEF L, n
    <3> QED
      BY <2>0, <3>1, <3>2 DEF Bijection, Injection, Surjection, IsInjective, ListSound, Distinct, L, n
  <2>3. Cardinality(Listed) = n /\ n <= Cardinality(Clients) /\ Cardinality(Clients) \in Nat
    <3>1. IsFiniteSet(1..n) /\ Cardinality(1..n) = n
      <4>1. n \in Nat
        BY <2>0
      <4> HIDE DEF n
      <4>2. /\ IsFiniteSet(1..n)
            /\ Cardinality(1..n) = IF 1 > n THEN 0 ELSE n - 1 + 1
        BY <4>1, FS_Interval
      <4> QED
        BY <4>1, <4>2
    <3>2. Cardinality(Listed) = Cardinality(1..n)
      BY <2>2, <3>1, FS_Bijection DEF ExistsBijection
    <3> QED
      BY <2>0, <2>1, <3>1, <3>2, FS_Subset, FS_CardinalityType
  <2>4. hmtxClientsList # Nobody => n < Cardinality(Clients)
    <3>1. SUFFICES ASSUME hmtxClientsList # Nobody PROVE n # Cardinality(Clients)
      BY <2>3
    <3>2. PICK t \in Threads : pc[t] = "unlink"
      BY <2>0, <3>1 DEF Typed, ListSound
    <3>3. Target(t) \in Clients /\ Unlinking(Target(t))
      BY <2>0, <3>2, TargetIs DEF Unlinking, AtDetach
    <3>4. Target(t) \notin Listed
      BY <1>2, <3>3 DEF ListenersInv, MemberSound
    <3> QED
      BY <2>0, <2>1, <2>3, <3>3, <3>4, FS_Subset
  <2>5. L \in UNION {[1..m -> Clients] : m \in 0..Cardinality(Clients)}
    <3>1. L \in [1..n -> Clients] /\ n \in 0..Cardinality(Clients)
      BY <2>0, <2>3 DEF Typed
    <3> HIDE DEF L, n
    <3> QED
      BY <3>1
  <2> QED
    BY <2>0, <2>3, <2>4, <2>5 DEF BoundedSeq, SeqOf, ListSound
<1>3. ListenersInv => TypeOK
  BY <1>1, <1>2 DEF ListenersInv, Typed, TypeOK
<1> QED
  BY <1>3, InvHolds, PTL
=============================================================================
