------------------------- MODULE ConfigurationProofs -------------------------
(***************************************************************************)
(* Proofs about the configuration, for any number of changes, of           *)
(* administrators and of users of templates.                               *)
(***************************************************************************)
EXTENDS Configuration, FiniteSetTheorems, SequenceTheorems, WellFoundedInduction, TLAPS

Names   == {"templates", "relays"}
Configs == [Names -> Seq(Items)]

(* What a caller may have to do: no change removes a single template.      *)
Edits ==
  {Clear(s) : s \in Names} \cup {Add(s, i) : s \in Names, i \in Items}
    \cup {Del("relays", i) : i \in Items}

Storing == {"reading", "writing", "written", "unlinked", "renamed"}

(* The shapes of the variables, as exactly as the steps need them.  That   *)
(* a pin is never given back twice is part of HeldTemplates.               *)
ListShapes ==
  memory \in Configs /\ pins \in [Items -> Int] /\ freed \subseteq Items

CountShapes ==
  /\ status \in {"down", "loading", "up", "stopping"}
  /\ left \in [changes : 0..MaxChanges, starts : Nat, lookups : Nat]
  /\ changes \in Nat /\ changes + left.changes <= MaxChanges
  /\ excuses \subseteq Excuses

CallShapes ==
  /\ doing \in [Callers -> {"idle", "editing", "loading"} \cup Storing]
  /\ todo \in [Callers -> Seq(Edits)]
  /\ snapshot \in [Callers -> Seq(Seq(Items))]
  /\ \A c \in Callers : doing[c] = "writing" => Len(snapshot[c]) = 2

UserShapes ==
  /\ own \in [Users -> Items \cup {Nothing}] /\ src \in [Users -> Items \cup {Nothing}]
  /\ leaked \subseteq Items

FileShapes ==
  /\ disk \in [Files -> Configs \cup {Nothing, Torn}]
  /\ wish \in Configs \cup {Nothing} /\ latest \in Configs \cup {Nothing}

Shapes == ListShapes /\ CountShapes /\ CallShapes /\ UserShapes /\ FileShapes

----------------------------------------------------------------------------
(* The operators *)

(* The two sections are what Sections lists.                               *)
LEMMA SectionNames == Range(Sections) = Names /\ DOMAIN Sections = 1..2
BY DEF Range, Sections, Names

(* A set of naturals that is not empty has a least element.                *)
LEMMA Least ==
  ASSUME NEW S \in SUBSET Nat, S # {}
  PROVE  \E m \in S : \A k \in S : m <= k
<1> DEFINE T == {0..n : n \in S}
<1>1. T \subseteq FiniteSubsetsOf(Nat)
  <2>1. ASSUME NEW n \in S PROVE 0..n \in SUBSET Nat /\ IsFiniteSet(0..n)
    BY FS_Interval
  <2> QED
    BY <2>1 DEF FiniteSubsetsOf
<1>0. T # {}
  OBVIOUS
<1>2. PICK X \in T : \A Y \in T : <<Y, X>> \notin StrictSubsetOrdering(Nat)
  <2> HIDE DEF T
  <2> QED
    BY <1>0, <1>1, FS_StrictSubsetOrderingWellFounded, WFMin
<1>3. PICK m \in S : X = 0..m
  OBVIOUS
<1>4. ASSUME NEW k \in S, k < m PROVE FALSE
  <2> DEFINE A == 0..k
             B == 0..m
  <2>1. A \in SUBSET Nat /\ B \in SUBSET Nat /\ A \subseteq B /\ A # B
    <3>1. m \in B /\ m \notin A
      BY <1>4
    <3> QED
      BY <1>4, <3>1
  <2>2. A \in T /\ B = X
    BY <1>3
  <2> HIDE DEF A, B, T
  <2>3. <<A, B>> \in StrictSubsetOrdering(Nat)
    BY <2>1 DEF StrictSubsetOrdering
  <2> QED
    BY <1>2, <2>2, <2>3
<1> QED
  BY <1>4

(* What an append adds to the items of a list is the item appended.        *)
LEMMA ElementsOfAppend ==
  ASSUME NEW S, NEW L \in Seq(S), NEW i \in S
  PROVE  {Append(L, i)[k] : k \in 1..Len(Append(L, i))} = {L[k] : k \in 1..Len(L)} \cup {i}
<1> DEFINE A == Append(L, i)
<1>1. /\ Len(A) = Len(L) + 1 /\ A[Len(L) + 1] = i /\ Len(L) \in Nat
      /\ \A k \in 1..Len(L) : A[k] = L[k]
  BY AppendProperties
<1> HIDE DEF A
<1>2. \A k \in 1..Len(A) : k = Len(L) + 1 \/ k \in 1..Len(L)
  BY <1>1
<1>3. {A[k] : k \in 1..Len(A)} = {L[k] : k \in 1..Len(L)} \cup {i}
  BY <1>1, <1>2
<1> QED
  BY <1>3 DEF A

(* What the fields of an edit are, by its operation.                       *)
LEMMA AnEdit ==
  ASSUME NEW e \in Edits
  PROVE  /\ e.op \in {"clear", "add", "del"} /\ e.section \in Names
         /\ e.op = "clear" => e = Clear(e.section)
         /\ e.op = "add" => e = Add(e.section, e.item) /\ e.item \in Items
         /\ e.op = "del" => e.section = "relays"
BY DEF Edits, Clear, Add, Del, Names

(* Without its first i a list is a list.                                   *)
LEMMA RemovedFrom ==
  ASSUME NEW S, NEW L \in Seq(S), NEW i
  PROVE  RemoveFirst(L, i) \in Seq(S)
<1> DEFINE I == {k \in 1..Len(L) : L[k] = i}
<1>1. CASE I = {}
  BY <1>1 DEF RemoveFirst
<1>2. CASE I # {}
  <2>1. \E m \in I : \A k \in I : m <= k
    <3>1. I \in SUBSET Nat
      OBVIOUS
    <3> HIDE DEF I
    <3> QED
      BY <1>2, <3>1, Least
  <2> DEFINE m == SelectInSeq(L, LAMBDA v : v = i)
  <2>2. m \in 1..Len(L)
    BY <1>2, <2>1 DEF SelectInSeq, Min
  <2>3. RemoveFirst(L, i) = SubSeq(L, 1, m - 1) \o SubSeq(L, m + 1, Len(L))
    BY <1>2 DEF RemoveFirst, RemoveAt
  <2> HIDE DEF m
  <2>4. SubSeq(L, 1, m - 1) \in Seq(S) /\ SubSeq(L, m + 1, Len(L)) \in Seq(S)
    BY <2>2, SubSeqProperties
  <2> QED
    BY <2>3, <2>4
<1> QED
  BY <1>1, <1>2

(* An edit makes a list of items of a list of items.                       *)
LEMMA EditedIsList ==
  ASSUME memory \in Configs, NEW e \in Edits
  PROVE  Edited(e) \in Seq(Items)
<1>1. e.op \in {"clear", "add", "del"} /\ e.section \in Names /\ (e.op = "add" => e.item \in Items)
  BY AnEdit
<1>2. memory[e.section] \in Seq(Items)
  BY <1>1 DEF Configs
<1> QED
  BY <1>1, <1>2, RemovedFrom DEF Edited

(* What replaces a section: the section is cleared and filled again.       *)
LEMMA Replacing ==
  ASSUME NEW s \in Names, NEW L \in Seq(Items)
  PROVE  /\ Replace(s, L) \in Seq(Edits)
         /\ Len(Replace(s, L)) = Len(L) + 1
         /\ Replace(s, L)[1] = Clear(s)
         /\ \A k \in 1..Len(L) : Replace(s, L)[k + 1] = Add(s, L[k])
<1> DEFINE A == [k \in DOMAIN L |-> Add(s, L[k])]
<1>1. A \in Seq(Edits) /\ Len(A) = Len(L) /\ \A k \in 1..Len(L) : A[k] = Add(s, L[k])
  <2>1. \A k \in 1..Len(L) : Add(s, L[k]) \in Edits
    BY DEF Edits
  <2> QED
    BY <2>1
<1>2. <<Clear(s)>> \in Seq(Edits)
  BY DEF Edits
<1> HIDE DEF A
<1>3. /\ <<Clear(s)>> \o A \in Seq(Edits)
      /\ Len(<<Clear(s)>> \o A) = Len(L) + 1
      /\ (<<Clear(s)>> \o A)[1] = Clear(s)
      /\ \A k \in 1..Len(L) : (<<Clear(s)>> \o A)[k + 1] = A[k]
  BY <1>1, <1>2
<1> QED
  BY <1>1, <1>3 DEF Replace, A

(* A configuration gives each section a list of items.                     *)
LEMMA AConfig == [Range(Sections) -> Seq(Items)] = Configs
BY SectionNames DEF Configs

(* What a caller has read is a configuration once both sections are there. *)
LEMMA ReadIsConfig ==
  ASSUME Shapes, NEW c \in Callers, Len(snapshot[c]) = 2
  PROVE  /\ Read(c) \in Configs
         /\ Read(c)["templates"] = snapshot[c][1] /\ Read(c)["relays"] = snapshot[c][2]
<1>1. snapshot[c][1] \in Seq(Items) /\ snapshot[c][2] \in Seq(Items)
  <2>1. snapshot[c] \in Seq(Seq(Items)) /\ 1 \in 1..Len(snapshot[c]) /\ 2 \in 1..Len(snapshot[c])
    BY DEF Shapes, CallShapes
  <2> QED
    BY <2>1, ElementOfSeq
<1>2. (CHOOSE j \in DOMAIN Sections : Sections[j] = "templates") = 1
  BY SectionNames DEF Sections
<1>3. (CHOOSE j \in DOMAIN Sections : Sections[j] = "relays") = 2
  BY SectionNames DEF Sections
<1>4. Read(c) = [s \in Names |->
                   snapshot[c][CHOOSE j \in DOMAIN Sections : Sections[j] = s]]
  BY SectionNames DEF Read
<1>5. Read(c)["templates"] = snapshot[c][1]
  BY <1>2, <1>4 DEF Names
<1>6. Read(c)["relays"] = snapshot[c][2]
  BY <1>3, <1>4 DEF Names
<1>7. Read(c) = [s \in Names |-> Read(c)[s]]
  BY <1>4
<1> HIDE DEF Read
<1> QED
  BY <1>1, <1>5, <1>6, <1>7 DEF Configs, Names

(* TemplQuery finds the first template that matches, if there is one.      *)
LEMMA DecisionIsFirst ==
  ASSUME NEW L \in Seq(Items), NEW m \in Mounts
  PROVE  \/ Decision(L, m) = Nothing /\ \A k \in 1..Len(L) : ~Matches(L[k], m)
         \/ \E k \in 1..Len(L) :
              /\ Decision(L, m) = L[k] /\ Matches(L[k], m)
              /\ \A j \in 1..(k - 1) : ~Matches(L[j], m)
<1> DEFINE hits == {k \in DOMAIN L : Matches(L[k], m)}
<1>1. Decision(L, m) = IF hits = {} THEN Nothing ELSE L[CHOOSE k \in hits : \A j \in hits : k <= j]
  BY DEF Decision
<1>2. CASE hits = {}
  BY <1>1, <1>2
<1>3. CASE hits # {}
  <2>1. hits \in SUBSET Nat
    OBVIOUS
  <2>2. \E k \in hits : \A j \in hits : k <= j
    <3> HIDE DEF hits
    <3> QED
      BY <1>3, <2>1, Least
  <2>3. PICK k \in hits : k = (CHOOSE n \in hits : \A j \in hits : n <= j) /\ \A j \in hits : k <= j
    <3> HIDE DEF hits
    <3> QED
      BY <2>2
  <2>4. Decision(L, m) = L[k]
    BY <1>1, <1>3, <2>3
  <2>5. \A j \in 1..(k - 1) : ~Matches(L[j], m)
    BY <2>3
  <2> QED
    BY <2>3, <2>4, <2>5
<1> QED
  BY <1>2, <1>3

----------------------------------------------------------------------------
(* The shapes *)

(* In an initial state everything has its shape.                           *)
LEMMA InitShapes == Init => Shapes
<1> SUFFICES ASSUME Init PROVE Shapes
  OBVIOUS
<1>1. Nowhere \in Configs
  <2>1. Nowhere = [s \in Names |-> << >>]
    BY SectionNames DEF Nowhere
  <2> QED
    BY <2>1 DEF Configs
<1>2. ListShapes
  BY <1>1 DEF Init, Fresh, ListShapes
<1>3. CountShapes
  <2>1. left \in [changes : 0..MaxChanges, starts : Nat, lookups : Nat]
    BY ConfigurationAssumption DEF Init
  <2> QED
    BY <2>1, ConfigurationAssumption DEF Init, CountShapes, Excuses
<1>4. CallShapes
  BY DEF Init, Fresh, CallShapes
<1>5. UserShapes /\ FileShapes
  BY DEF Init, Fresh, UserShapes, FileShapes
<1> QED
  BY <1>2, <1>3, <1>4, <1>5 DEF Shapes

(* A request, relay or source that takes or gives back a template changes  *)
(* the shape of nothing.                                                   *)
LEMMA UserKeepsShapes ==
  ASSUME Shapes, NEW u \in Users, UserStep(u)
  PROVE  Shapes'
<1>1. Templates \subseteq Items
  BY RangeOfSeq DEF Templates, Shapes, ListShapes, Configs, Names
<1>2. CallShapes' /\ FileShapes'
  BY DEF UserStep, Query, Create, Release, EndSource, TemplRelease, calls, Shapes, CallShapes,
         FileShapes
<1>3. CASE Query(u)
  <2>1. PICK m \in Mounts :
          LET i == Decision(memory["templates"], m) IN
          /\ i # Nothing
          /\ pins' = [pins EXCEPT ![i] = @ + 1]
          /\ own' = [own EXCEPT ![u] = i]
    BY <1>3 DEF Query
  <2> DEFINE i == Decision(memory["templates"], m)
  <2>2. i \in Items
    <3>1. memory["templates"] \in Seq(Items)
      BY DEF Shapes, ListShapes, Configs, Names
    <3> QED
      BY <2>1, <3>1, DecisionIsFirst
  <2>3. pins' = [pins EXCEPT ![i] = @ + 1] /\ own' = [own EXCEPT ![u] = i]
    BY <2>1
  <2> HIDE DEF i
  <2>4. CountShapes'
    BY <1>3 DEF Query, Shapes, CountShapes
  <2>5. ListShapes' /\ UserShapes'
    BY <1>3, <2>2, <2>3 DEF Query, Shapes, ListShapes, UserShapes
  <2> QED
    BY <1>2, <2>4, <2>5 DEF Shapes
<1>4. CASE Create(u)
  BY <1>1, <1>2, <1>4 DEF Create, Shapes, ListShapes, CountShapes, UserShapes
<1>5. CASE Release(u)
  BY <1>1, <1>2, <1>5
     DEF Release, TemplRelease, Free, Shapes, ListShapes, CountShapes, UserShapes
<1>6. CASE EndSource(u)
  BY <1>1, <1>2, <1>6
     DEF EndSource, TemplRelease, Free, Shapes, ListShapes, CountShapes, UserShapes
<1> QED
  BY <1>3, <1>4, <1>5, <1>6 DEF UserStep

(* What a step of a caller leaves: what it has to do gets no longer, and   *)
(* what it brings is as it should be.                                      *)
LEMMA EditKeepsShapes ==
  ASSUME Shapes, NEW c \in Callers, Edit(c)
  PROVE  Shapes'
<1> DEFINE e == Head(todo[c])
<1>1. todo[c] \in Seq(Edits) /\ todo[c] # << >>
  BY DEF Edit, Shapes, CallShapes
<1>2. e \in Edits /\ Tail(todo[c]) \in Seq(Edits)
  BY <1>1
<1>3. Edited(e) \in Seq(Items)
  BY <1>2, EditedIsList DEF Shapes, ListShapes
<1>4. memory' = [memory EXCEPT ![e.section] = Edited(e)] /\ todo' = [todo EXCEPT ![c] = Tail(@)]
  BY DEF Edit
<1>5. freed' = freed \/ freed' = freed \cup {i \in Templates : pins[i] = 0}
  BY DEF Edit, TemplRemoveAll, Free
<1> HIDE DEF e
<1>6. Templates \subseteq Items
  BY RangeOfSeq DEF Templates, Shapes, ListShapes, Configs, Names
<1>7. ListShapes'
  <2>1. memory' \in Configs
    BY <1>3, <1>4 DEF Shapes, ListShapes, Configs
  <2>2. freed' \subseteq Items
    BY <1>5, <1>6 DEF Shapes, ListShapes
  <2> QED
    BY <2>1, <2>2 DEF Edit, Shapes, ListShapes
<1>8. CallShapes'
  BY <1>2, <1>4 DEF Edit, Shapes, CallShapes
<1> QED
  BY <1>7, <1>8 DEF Edit, Shapes, CountShapes, UserShapes, FileShapes, users

(* Nor does any step of a store: what is written is what was read.         *)
LEMMA StoreKeepsShapes ==
  ASSUME Shapes, NEW c \in Callers,
         Store(c) \/ ReadSection(c) \/ OpenTemporary(c) \/ WriteTemporary(c)
           \/ WriteFails(c) \/ UnlinkBackup(c) \/ Backup(c) \/ BackupFails(c)
           \/ Replaced(c) \/ ReplaceFails(c)
  PROVE  Shapes'
<1> USE DEF Shapes, lists, users, Goto, Storing
<1>1. CASE Store(c)
  BY <1>1 DEF Store, ListShapes, CountShapes, CallShapes, UserShapes, FileShapes
<1>2. CASE ReadSection(c)
  <2>1. /\ snapshot[c] \in Seq(Seq(Items)) /\ Len(snapshot[c]) < 2
        /\ snapshot' = [snapshot EXCEPT ![c] = Append(@, memory[Sections[Len(@) + 1]])]
        /\ doing[c] = "reading"
    BY <1>2 DEF ReadSection, CallShapes, Sections
  <2>2. Sections[Len(snapshot[c]) + 1] \in Names
    BY <2>1 DEF Sections, Names
  <2>3. memory[Sections[Len(snapshot[c]) + 1]] \in Seq(Items)
    BY <2>2 DEF ListShapes, Configs
  <2>4. Append(snapshot[c], memory[Sections[Len(snapshot[c]) + 1]]) \in Seq(Seq(Items))
    BY <2>1, <2>3, AppendProperties
  <2>5. CallShapes'
    BY <1>2, <2>1, <2>4 DEF ReadSection, CallShapes
  <2> QED
    BY <1>2, <2>5 DEF ReadSection, ListShapes, CountShapes, UserShapes, FileShapes
<1>3. CASE OpenTemporary(c)
  <2>1. Len(snapshot[c]) = 2
    BY <1>3 DEF OpenTemporary, Sections
  <2>2. CallShapes'
    BY <1>3, <2>1 DEF OpenTemporary, CallShapes
  <2> QED
    BY <1>3, <2>2 DEF OpenTemporary, ListShapes, CountShapes, UserShapes, FileShapes, Files
<1>4. CASE WriteTemporary(c)
  <2>1. Read(c) \in Configs
    BY <1>4, ReadIsConfig DEF WriteTemporary, CallShapes
  <2>2. CallShapes'
    BY <1>4 DEF WriteTemporary, CallShapes
  <2>3. FileShapes'
    BY <1>4, <2>1 DEF WriteTemporary, FileShapes, Files
  <2> QED
    BY <1>4, <2>2, <2>3 DEF WriteTemporary, ListShapes, CountShapes, UserShapes
<1>5. CASE WriteFails(c)
  BY <1>5 DEF WriteFails, Finish, Note, Excuses, ListShapes, CountShapes, CallShapes, UserShapes,
              FileShapes
<1>6. CASE UnlinkBackup(c)
  BY <1>6 DEF UnlinkBackup, ListShapes, CountShapes, CallShapes, UserShapes, FileShapes, Files
<1>7. CASE Backup(c)
  BY <1>7 DEF Backup, Renamed, ListShapes, CountShapes, CallShapes, UserShapes, FileShapes, Files
<1>8. CASE Replaced(c)
  BY <1>8 DEF Replaced, Finish, Renamed, ListShapes, CountShapes, CallShapes, UserShapes,
              FileShapes, Files
<1>9. CASE BackupFails(c)
  BY <1>9 DEF BackupFails, Note, Excuses, ListShapes, CountShapes, CallShapes, UserShapes,
              FileShapes, Files
<1>10. CASE ReplaceFails(c)
  BY <1>10 DEF ReplaceFails, Finish, Note, Excuses, ListShapes, CountShapes, CallShapes, UserShapes,
               FileShapes
<1> QED
  BY <1>1, <1>2, <1>3, <1>4, <1>5, <1>6, <1>7, <1>8, <1>9, <1>10

(* A call that begins has a list of edits before it.                       *)
LEMMA BeginKeepsShapes ==
  ASSUME Shapes, NEW c \in Callers, NEW q \in Seq(Edits), Begin(c, q)
  PROVE  CallShapes'
BY DEF Begin, Shapes, CallShapes

(* An administrator gives whole sections of items that are new.            *)
LEMMA ChangeKeepsShapes ==
  ASSUME Shapes, NEW a \in Admins, Change(a)
  PROVE  Shapes'
<1> DEFINE n == changes + 1
<1>0. /\ left.changes > 0 /\ changes' = n /\ status' = status
      /\ left' = [left EXCEPT !.changes = @ - 1]
      /\ excuses' \subseteq excuses \cup {"overlap", "stopped"}
  BY DEF Change
<1>00. /\ left \in [changes : 0..MaxChanges, starts : Nat, lookups : Nat]
       /\ changes \in Nat /\ changes + left.changes <= MaxChanges
  BY DEF Shapes, CountShapes
<1>1. left.changes \in Nat /\ n \in 0..MaxChanges /\ a \in Callers
  BY <1>0, <1>00, ConfigurationAssumption DEF Callers
<1>2. <<<<n, 1>>, <<n, 2>>>> \in Seq(Items) /\ <<n, 1>> \in Items
  BY <1>1 DEF Items
<1>3. \A s \in Names : Replace(s, <<<<n, 1>>, <<n, 2>>>>) \in Seq(Edits)
  BY <1>2, Replacing
<1>4. <<Add("relays", <<n, 1>>)>> \in Seq(Edits)
  BY <1>2 DEF Edits, Names
<1>5. Range(memory["relays"]) \subseteq Items
  BY RangeOfSeq DEF Shapes, ListShapes, Configs, Names
<1>6. \A i \in Range(memory["relays"]) : <<Del("relays", i)>> \in Seq(Edits)
  BY <1>5 DEF Edits
<1>7. \E q \in Seq(Edits) : Begin(a, q)
  BY <1>3, <1>4, <1>6, SectionNames DEF Change
<1>8. CallShapes'
  BY <1>1, <1>7, BeginKeepsShapes
<1>9. CountShapes'
  <2>1. left' \in [changes : 0..MaxChanges, starts : Nat, lookups : Nat]
        /\ left'.changes = left.changes - 1
    BY <1>0, <1>00, ConfigurationAssumption
  <2>2. changes' \in Nat /\ changes' + left'.changes <= MaxChanges
    BY <1>0, <1>00, <2>1, ConfigurationAssumption
  <2> QED
    BY <1>0, <2>1, <2>2 DEF Shapes, CountShapes, Excuses
<1> QED
  BY <1>8, <1>9 DEF Change, lists, users, Shapes, ListShapes, UserShapes, FileShapes

(* Start, stop and a crash keep the shapes: what is loaded is a            *)
(* configuration.                                                          *)
LEMMA ProgramKeepsShapes ==
  ASSUME Shapes, Start \/ Loaded \/ Stop \/ Exit \/ Crash
  PROVE  Shapes'
<1> USE DEF Shapes, lists, calls, users
<1>0. Main \in Callers
  BY DEF Callers
<1>1. CASE Start
  <2> DEFINE file == disk["config"]
  <2>1. \E q \in Seq(Edits) :
          \/ Begin(Main, q)
          \/ /\ doing' = [doing EXCEPT ![Main] = "loading"]
             /\ todo' = [todo EXCEPT ![Main] = q] /\ UNCHANGED snapshot
    <3>1. CASE file \in {Nothing, Torn}
      <4>1. <<<<0, 2>>>> \in Seq(Items)
        BY ConfigurationAssumption DEF Items
      <4>2. Replace("templates", <<<<0, 2>>>>) \in Seq(Edits)
        BY <4>1, Replacing DEF Names
      <4> QED
        BY <1>1, <3>1, <4>2 DEF Start
    <3>2. CASE file \notin {Nothing, Torn}
      <4>1. file["templates"] \in Seq(Items) /\ file["relays"] \in Seq(Items)
        BY <3>2 DEF FileShapes, Files, Configs, Names
      <4>2. Replace("templates", file["templates"]) \in Seq(Edits)
            /\ Replace("relays", file["relays"]) \in Seq(Edits)
        BY <4>1, Replacing DEF Names
      <4>3. Replace("templates", file["templates"]) \o Replace("relays", file["relays"]) \in Seq(Edits)
        BY <4>2
      <4> QED
        BY <1>1, <3>2, <4>3 DEF Start
    <3> QED
      BY <3>1, <3>2
  <2>2. CallShapes'
    BY <1>0, <2>1, BeginKeepsShapes DEF CallShapes
  <2>3. CountShapes'
    BY <1>1 DEF Start, Note, CountShapes, Excuses
  <2> QED
    BY <1>1, <2>2, <2>3 DEF Start, ListShapes, UserShapes, FileShapes
<1>2. CASE Loaded
  BY <1>0, <1>2 DEF Loaded, Finish, Goto, ListShapes, CountShapes, CallShapes, UserShapes, FileShapes
<1>3. CASE Stop
  <2>1. memory' \in Configs
    BY <1>3 DEF Stop, ListShapes, Configs, Names
  <2>2. excuses' \subseteq Excuses
    BY <1>3 DEF Stop, Note, Excuses, CountShapes
  <2> QED
    BY <1>3, <2>1, <2>2 DEF Stop, ListShapes, CountShapes, CallShapes, UserShapes, FileShapes
<1>4. CASE Gone
  <2>1. Nowhere \in Configs
    <3>1. Nowhere = [s \in Names |-> << >>]
      BY SectionNames DEF Nowhere
    <3> QED
      BY <3>1 DEF Configs
  <2> QED
    BY <1>4, <2>1 DEF Gone, ListShapes, CountShapes, CallShapes, UserShapes, FileShapes
<1> QED
  BY <1>1, <1>2, <1>3, <1>4 DEF Exit, Crash

(* Every step keeps the shapes, by the lemmas on its kinds.                *)
LEMMA NextKeepsShapes == Shapes /\ [Next]_vars => Shapes'
<1> SUFFICES ASSUME Shapes, [Next]_vars PROVE Shapes'
  OBVIOUS
<1>1. CASE UNCHANGED vars
  BY <1>1 DEF vars, lists, calls, users, Shapes, ListShapes, CountShapes, CallShapes, UserShapes,
              FileShapes
<1> QED
  BY <1>1, EditKeepsShapes, StoreKeepsShapes, ChangeKeepsShapes, UserKeepsShapes,
     ProgramKeepsShapes DEF Next, CallerStep

(* So everything has its shape in every state.                             *)
LEMMA ShapesHold == Spec => []Shapes
BY InitShapes, NextKeepsShapes, PTL DEF Spec

----------------------------------------------------------------------------
(* Templates that are held: a template is added once *)

Configuration(f) == disk[f] \notin {Nothing, Torn}

(* No template twice, and none of a change still to come.                  *)
Old(L, n) ==
  /\ \A j, k \in 1..Len(L) : L[j] = L[k] => j = k
  /\ \A k \in 1..Len(L) : L[k][1] <= n

OldLists ==
  /\ Old(memory["templates"], changes)
  /\ \A c \in Callers : Len(snapshot[c]) > 0 => Old(snapshot[c][1], changes)
  /\ \A f \in Files : Configuration(f) => Old(disk[f]["templates"], changes)

(* The templates this run of the program knows or has known.               *)
Known == Templates \cup freed \cup {own[u] : u \in Users} \cup {src[u] : u \in Users}

(* The k-th thing caller c has to do is to add a template.                 *)
Adds(c, k) ==
  k \in 1..Len(todo[c]) /\ todo[c][k].op = "add" /\ todo[c][k].section = "templates"

(* What is still to be added is not known, and nobody else adds it.        *)
AddedOnce ==
  /\ \A i \in Known : i # Nothing => i[1] <= changes
  /\ \A c \in Callers : \A k \in 1..Len(todo[c]) : Adds(c, k) =>
       /\ todo[c][k].item[1] <= changes
       /\ todo[c][k].item \notin Known
       /\ \A d \in Callers : \A j \in 1..Len(todo[d]) :
            Adds(d, j) /\ todo[d][j].item = todo[c][k].item => c = d /\ j = k

(* A program that does not run has nothing in memory.                      *)
DownIsEmpty == status = "down" => Fresh

PinsCounted ==
  \A i \in Items : IF i \in leaked THEN pins[i] >= Holds(i) ELSE pins[i] = Holds(i)

HeldAreKept ==
  /\ \A u \in Users : own[u] \notin freed /\ src[u] \notin freed
  /\ Templates \cap freed = {}

HeldInv == Shapes /\ OldLists /\ AddedOnce /\ DownIsEmpty /\ PinsCounted /\ HeldAreKept

(* What an edit that is still to be done adds is an item.                  *)
LEMMA AddsAnItem ==
  ASSUME Shapes, NEW c \in Callers, NEW k \in 1..Len(todo[c]), Adds(c, k)
  PROVE  todo[c][k].item \in Items /\ todo[c][k].item # Nothing
<1>1. todo[c] \in Seq(Edits)
  BY DEF Shapes, CallShapes
<1>2. todo[c][k] \in Edits
  BY <1>1
<1> QED
  BY <1>2, AnEdit, ValuesAssumption DEF Adds

(* One caller adds a template, once.                                       *)
LEMMA OneAdds ==
  ASSUME AddedOnce, NEW c \in Callers, NEW k \in 1..Len(todo[c]), Adds(c, k),
         NEW d \in Callers, NEW j \in 1..Len(todo[d]), Adds(d, j),
         todo[d][j].item = todo[c][k].item
  PROVE  c = d /\ k = j
BY DEF AddedOnce

(* A step that knows no item more adds none twice.                         *)
LEMMA NothingAdded ==
  ASSUME Shapes, AddedOnce, todo' = todo, changes' = changes, Known' \subseteq Known \cup {Nothing}
  PROVE  AddedOnce'
<1>1. \A c \in Callers : \A k \in 1..Len(todo[c]) : Adds(c, k) => todo[c][k].item # Nothing
  BY AddsAnItem
<1>2. \A c, k : Adds(c, k)' <=> Adds(c, k)
  BY DEF Adds
<1> HIDE DEF Known, Adds
<1> QED
  BY <1>1, <1>2 DEF AddedOnce

(* An edit of the templates, and any other.                                *)
LEMMA EditOfTemplates ==
  ASSUME Shapes, NEW c \in Callers, Edit(c)
  PROVE  LET e == Head(todo[c]) IN
         /\ e = todo[c][1] /\ 1 \in 1..Len(todo[c]) /\ e \in Edits
         /\ todo' = [todo EXCEPT ![c] = Tail(@)]
         /\ \/ /\ e = Clear("templates") /\ memory'["templates"] = << >>
               /\ freed' = freed \cup {i \in Templates : pins[i] = 0}
            \/ /\ e.op = "add" /\ e.section = "templates" /\ e.item \in Items
               /\ memory'["templates"] = Append(memory["templates"], e.item)
               /\ freed' = freed
            \/ /\ e.section = "relays" /\ memory'["templates"] = memory["templates"]
               /\ freed' = freed
<1> DEFINE e == Head(todo[c])
<1>1. todo[c] \in Seq(Edits) /\ todo[c] # << >>
  BY DEF Edit, Shapes, CallShapes
<1>2. e = todo[c][1] /\ 1 \in 1..Len(todo[c]) /\ e \in Edits
  BY <1>1
<1>3. /\ memory' = [memory EXCEPT ![e.section] = Edited(e)]
      /\ todo' = [todo EXCEPT ![c] = Tail(@)]
      /\ IF e = Clear("templates") THEN TemplRemoveAll ELSE UNCHANGED freed
  BY DEF Edit
<1> HIDE DEF e
<1>4. memory \in [Names -> Seq(Items)]
  BY DEF Shapes, ListShapes, Configs
<1>5. /\ e.op \in {"clear", "add", "del"} /\ e.section \in Names
      /\ e.op = "clear" => e = Clear(e.section)
      /\ e.op = "add" => e.item \in Items
      /\ e.op = "del" => e.section = "relays"
  BY <1>2, AnEdit
<1>6. CASE e.section = "relays"
  <2>1. e # Clear("templates")
    BY <1>6 DEF Clear
  <2>2. memory'["templates"] = memory["templates"]
    BY <1>3, <1>4, <1>6 DEF Names
  <2> QED
    BY <1>2, <1>3, <1>6, <2>1, <2>2 DEF e
<1>7. CASE e.section = "templates" /\ e.op = "clear"
  <2>1. e = Clear("templates")
    BY <1>5, <1>7
  <2>2. memory'["templates"] = << >>
    BY <1>3, <1>4, <1>7 DEF Names, Edited
  <2>3. freed' = freed \cup {i \in Templates : pins[i] = 0}
    BY <1>3, <2>1 DEF TemplRemoveAll, Free
  <2> QED
    BY <1>2, <1>3, <2>1, <2>2, <2>3 DEF e
<1>8. CASE e.section = "templates" /\ e.op = "add"
  <2>1. e # Clear("templates")
    BY <1>8 DEF Clear
  <2>2. memory'["templates"] = Append(memory["templates"], e.item)
    BY <1>3, <1>4, <1>8 DEF Names, Edited
  <2> QED
    BY <1>2, <1>3, <1>5, <1>8, <2>1, <2>2 DEF e
<1> QED
  BY <1>5, <1>6, <1>7, <1>8 DEF Names

(* Who holds a template counts in its pins.                                *)
LEMMA HoldersPin ==
  ASSUME Shapes, PinsCounted, NEW u \in Users
  PROVE  /\ own[u] # Nothing => pins[own[u]] >= 1
         /\ src[u] # Nothing => pins[src[u]] >= 1
<1>1. ASSUME NEW i \in Items, own[u] = i \/ src[u] = i PROVE pins[i] >= 1
  <2> DEFINE O == {v \in Users : own[v] = i}
             S == {v \in Users : src[v] = i}
  <2>1. IsFiniteSet(O) /\ IsFiniteSet(S)
    BY ValuesAssumption, FS_Subset
  <2>2. O # {} \/ S # {}
    BY <1>1
  <2>3. Holds(i) = Cardinality(O) + Cardinality(S)
    BY DEF Holds
  <2> HIDE DEF O, S
  <2>4. Cardinality(O) \in Nat /\ Cardinality(S) \in Nat /\ (Cardinality(O) # 0 \/ Cardinality(S) # 0)
    BY <2>1, <2>2, FS_CardinalityType, FS_EmptySet
  <2>5. pins[i] >= Holds(i) /\ pins[i] \in Int
    BY <2>3, <2>4 DEF PinsCounted, Shapes, ListShapes
  <2> QED
    BY <2>3, <2>4, <2>5
<1> QED
  BY <1>1 DEF Shapes, UserShapes

(* The first thing a caller has to do is done; it adds no template.        *)
LEMMA AddsShift ==
  ASSUME Shapes, AddedOnce, changes' = changes, Known' \subseteq Known, NEW c \in Callers,
         \A d \in Callers : d # c => todo'[d] = todo[d],
         Len(todo'[c]) = Len(todo[c]) - 1,
         \A k \in 1..Len(todo'[c]) : todo'[c][k] = todo[c][k + 1] /\ k + 1 \in 1..Len(todo[c])
  PROVE  AddedOnce'
<1> USE DEF AddedOnce, Adds
<1> HIDE DEF Known
<1>1. \A i \in Known' : i # Nothing => i[1] <= changes'
  OBVIOUS
<1>2. ASSUME NEW d \in Callers, NEW k \in 1..Len(todo'[d]), Adds(d, k)'
      PROVE  \E j \in 1..Len(todo[d]) :
               /\ Adds(d, j) /\ todo[d][j] = todo'[d][k]
               /\ j = (IF d = c THEN k + 1 ELSE k)
  BY <1>2
<1>3. ASSUME NEW d \in Callers, NEW k \in 1..Len(todo'[d]), Adds(d, k)'
      PROVE  todo'[d][k].item[1] <= changes' /\ todo'[d][k].item \notin Known'
  BY <1>2, <1>3
<1>4. ASSUME NEW d \in Callers, NEW k \in 1..Len(todo'[d]), Adds(d, k)',
             NEW b \in Callers, NEW j \in 1..Len(todo'[b]), Adds(b, j)',
             todo'[b][j].item = todo'[d][k].item
      PROVE  d = b /\ j = k
  <2> HIDE DEF Adds, AddedOnce
  <2>1. PICK m \in 1..Len(todo[d]) :
          /\ Adds(d, m) /\ todo[d][m] = todo'[d][k] /\ m = (IF d = c THEN k + 1 ELSE k)
    BY <1>2, <1>4
  <2>2. PICK n \in 1..Len(todo[b]) :
          /\ Adds(b, n) /\ todo[b][n] = todo'[b][j] /\ n = (IF b = c THEN j + 1 ELSE j)
    BY <1>2, <1>4
  <2>3. d = b /\ m = n
    <3>1. todo[b][n].item = todo[d][m].item
      BY <1>4, <2>1, <2>2
    <3> QED
      BY <2>1, <2>2, <3>1, OneAdds
  <2> QED
    BY <2>1, <2>2, <2>3
<1> QED
  BY <1>1, <1>3, <1>4

(* One edit of memory keeps the invariant of the held templates.           *)
LEMMA EditKeepsHeld ==
  ASSUME HeldInv, NEW c \in Callers, Edit(c)
  PROVE  HeldInv'
<1> DEFINE e == Head(todo[c])
<1>0. Shapes'
  BY EditKeepsShapes DEF HeldInv
<1>1. /\ e = todo[c][1] /\ 1 \in 1..Len(todo[c]) /\ e \in Edits
      /\ todo' = [todo EXCEPT ![c] = Tail(@)]
      /\ \/ /\ e = Clear("templates") /\ memory'["templates"] = << >>
            /\ freed' = freed \cup {i \in Templates : pins[i] = 0}
         \/ /\ e.op = "add" /\ e.section = "templates" /\ e.item \in Items
            /\ memory'["templates"] = Append(memory["templates"], e.item)
            /\ freed' = freed
         \/ /\ e.section = "relays" /\ memory'["templates"] = memory["templates"]
            /\ freed' = freed
  BY EditOfTemplates DEF HeldInv
<1> HIDE DEF e
<1>2. /\ UNCHANGED <<pins, disk, status, left, changes, doing, snapshot>>
      /\ UNCHANGED <<own, src, leaked, wish, latest, excuses>>
  BY DEF Edit, users
<1>3. /\ memory["templates"] \in Seq(Items) /\ memory'["templates"] \in Seq(Items)
      /\ pins \in [Items -> Int] /\ freed \subseteq Items
      /\ own \in [Users -> Items \cup {Nothing}] /\ src \in [Users -> Items \cup {Nothing}]
      /\ todo[c] \in Seq(Edits) /\ todo \in [Callers -> Seq(Edits)]
  BY <1>0 DEF HeldInv, Shapes, ListShapes, CallShapes, UserShapes, Configs, Names
<1>4. /\ Templates = {memory["templates"][k] : k \in 1..Len(memory["templates"])}
      /\ Templates' = {memory'["templates"][k] : k \in 1..Len(memory'["templates"])}
  BY <1>3, RangeEquality DEF Templates
<1>5. status # "down"
  BY <1>2 DEF Edit, HeldInv, DownIsEmpty, Fresh
<1>6. PinsCounted'
  BY <1>2 DEF HeldInv, PinsCounted, Holds
<1>7. DownIsEmpty'
  BY <1>2, <1>5 DEF DownIsEmpty
<1>8. (\A d \in Callers : Len(snapshot[d]) > 0 => Old(snapshot[d][1], changes))'
      /\ (\A f \in Files : Configuration(f) => Old(disk[f]["templates"], changes))'
  BY <1>2 DEF HeldInv, OldLists, Old, Configuration
(* The other adds, one place further on                                    *)
<1>9. /\ \A d \in Callers : d # c => todo'[d] = todo[d]
      /\ Len(todo'[c]) = Len(todo[c]) - 1
      /\ \A k \in 1..Len(todo'[c]) : todo'[c][k] = todo[c][k + 1] /\ k + 1 \in 1..Len(todo[c])
  BY <1>1, <1>3
<1>10. CASE e = Clear("templates")
  <2>1. memory'["templates"] = << >> /\ freed' = freed \cup {i \in Templates : pins[i] = 0}
    BY <1>1, <1>10 DEF Clear
  <2>2. Templates' = {} /\ Known' \subseteq Known
    BY <1>2, <1>4, <2>1 DEF Known
  <2>3. HeldAreKept'
    <3>1. \A u \in Users : own[u] # Nothing => pins[own[u]] >= 1
      BY <1>3, HoldersPin DEF HeldInv
    <3>2. \A u \in Users : src[u] # Nothing => pins[src[u]] >= 1
      BY <1>3, HoldersPin DEF HeldInv
    <3>3. Nothing \notin Templates
      BY <1>3, <1>4, ValuesAssumption
    <3> QED
      BY <1>2, <2>1, <2>2, <3>1, <3>2, <3>3 DEF HeldInv, HeldAreKept
  <2>4. Old(memory["templates"], changes)'
    BY <1>2, <2>1 DEF Old
  <2>5. AddedOnce'
    BY <1>2, <1>9, <2>2, AddsShift DEF HeldInv
  <2> QED
    BY <1>0, <1>6, <1>7, <1>8, <2>3, <2>4, <2>5 DEF HeldInv, OldLists
<1>11. CASE e.op = "add" /\ e.section = "templates"
  <2>1. /\ memory'["templates"] = Append(memory["templates"], e.item) /\ freed' = freed
        /\ e.item \in Items
    BY <1>1, <1>11 DEF Clear
  <2>2. Templates' = Templates \cup {e.item}
    <3> DEFINE L == memory["templates"]
    <3>1. {Append(L, e.item)[k] : k \in 1..Len(Append(L, e.item))} = {L[k] : k \in 1..Len(L)} \cup {e.item}
      <4>1. L \in Seq(Items)
        BY <1>3
      <4> HIDE DEF L
      <4> QED
        BY <2>1, <4>1, ElementsOfAppend
    <3> QED
      BY <1>4, <2>1, <3>1
  <2>3. Known' = Known \cup {e.item}
    BY <1>2, <2>1, <2>2 DEF Known
  <2>4. /\ e.item[1] <= changes /\ e.item \notin Known
        /\ \A d \in Callers : \A j \in 1..Len(todo[d]) :
            Adds(d, j) /\ todo[d][j].item = e.item => c = d /\ 1 = j
    BY <1>1, <1>11 DEF HeldInv, AddedOnce, Adds
  <2>5. HeldAreKept'
    BY <1>2, <2>1, <2>2, <2>4 DEF HeldInv, HeldAreKept, Known
  <2>6. Old(memory["templates"], changes)'
    <3>1. Old(memory["templates"], changes) /\ e.item \notin Templates
      BY <2>4 DEF HeldInv, OldLists, Known
    <3>2. \A k \in 1..Len(memory["templates"]) : memory["templates"][k] # e.item
      BY <1>4, <3>1
    <3>3. Old(memory'["templates"], changes)
      BY <1>3, <2>1, <2>4, <3>1, <3>2 DEF Old
    <3> QED
      BY <1>2, <3>3 DEF Old
  <2>7. AddedOnce'
    <3> USE DEF AddedOnce, Adds
    <3> HIDE DEF Known
    <3>1. \A i \in Known' : i # Nothing => i[1] <= changes'
      BY <1>2, <2>3, <2>4 DEF HeldInv
    <3>2. ASSUME NEW d \in Callers, NEW k \in 1..Len(todo'[d]), Adds(d, k)'
          PROVE  \E j \in 1..Len(todo[d]) :
                   /\ Adds(d, j) /\ todo[d][j] = todo'[d][k]
                   /\ j = (IF d = c THEN k + 1 ELSE k) /\ ~(d = c /\ j = 1)
      BY <1>9, <3>2
    <3>3. ASSUME NEW d \in Callers, NEW k \in 1..Len(todo'[d]), Adds(d, k)'
          PROVE  /\ todo'[d][k].item[1] <= changes'
                 /\ todo'[d][k].item \notin Known'
      <4>1. PICK j \in 1..Len(todo[d]) :
              Adds(d, j) /\ todo[d][j] = todo'[d][k] /\ ~(d = c /\ j = 1)
        BY <3>2, <3>3
      <4>2. todo[d][j].item[1] <= changes /\ todo[d][j].item \notin Known
        BY <4>1 DEF HeldInv
      <4> QED
        BY <1>2, <2>3, <2>4, <4>1, <4>2
    <3>4. ASSUME NEW d \in Callers, NEW k \in 1..Len(todo'[d]), Adds(d, k)',
                 NEW b \in Callers, NEW j \in 1..Len(todo'[b]), Adds(b, j)',
                 todo'[b][j].item = todo'[d][k].item
          PROVE  d = b /\ j = k
      <4>1. PICK m \in 1..Len(todo[d]) :
              /\ Adds(d, m) /\ todo[d][m] = todo'[d][k] /\ m = (IF d = c THEN k + 1 ELSE k)
        BY <3>2, <3>4
      <4>2. PICK n \in 1..Len(todo[b]) :
              /\ Adds(b, n) /\ todo[b][n] = todo'[b][j] /\ n = (IF b = c THEN j + 1 ELSE j)
        BY <3>2, <3>4
      <4>3. d = b /\ m = n
        <5> HIDE DEF Adds, AddedOnce
        <5>1. AddedOnce
          BY DEF HeldInv
        <5>2. todo[b][n].item = todo[d][m].item
          BY <3>4, <4>1, <4>2
        <5> QED
          BY <4>1, <4>2, <5>1, <5>2, OneAdds
      <4> QED
        BY <4>1, <4>2, <4>3
    <3> QED
      BY <3>1, <3>3, <3>4
  <2> QED
    BY <1>0, <1>6, <1>7, <1>8, <2>5, <2>6, <2>7 DEF HeldInv, OldLists
<1>12. CASE e.section = "relays"
  <2>1. memory'["templates"] = memory["templates"] /\ freed' = freed
    BY <1>1, <1>12 DEF Clear
  <2>2. Templates' = Templates /\ Known' = Known
    BY <1>2, <2>1 DEF Known, Templates
  <2>3. HeldAreKept'
    BY <1>2, <2>1, <2>2 DEF HeldInv, HeldAreKept
  <2>4. Old(memory["templates"], changes)'
    BY <1>2, <2>1 DEF HeldInv, OldLists, Old
  <2>5. AddedOnce'
    BY <1>2, <1>9, <2>2, AddsShift DEF HeldInv
  <2> QED
    BY <1>0, <1>6, <1>7, <1>8, <2>3, <2>4, <2>5 DEF HeldInv, OldLists
<1> QED
  BY <1>1, <1>10, <1>11, <1>12

(* Which lists are in the files and in the snapshots after a step of       *)
(* CtrlStoreConfig, or after nothing.                                      *)
LEMMA OldListsKept ==
  ASSUME Shapes, OldLists, changes <= changes', memory'["templates"] = memory["templates"],
         \A c \in Callers : Len(snapshot'[c]) > 0 =>
            \/ Len(snapshot[c]) > 0 /\ snapshot'[c][1] = snapshot[c][1]
            \/ snapshot'[c][1] = memory["templates"],
         \A f \in Files :
            \/ disk'[f] \in {Nothing, Torn}
            \/ \E g \in Files : disk'[f] = disk[g]
            \/ \E c \in Callers : Len(snapshot[c]) > 0 /\ disk'[f]["templates"] = snapshot[c][1],
         changes' \in Int
  PROVE  OldLists'
<1>1. \A L \in Seq(Items) : Old(L, changes) => Old(L, changes')
  <2> SUFFICES ASSUME NEW L \in Seq(Items), Old(L, changes) PROVE Old(L, changes')
    OBVIOUS
  <2>1. \A k \in 1..Len(L) : L[k] \in Items /\ L[k][1] \in Nat
    BY DEF Items
  <2> QED
    BY <2>1 DEF Old, Shapes, CountShapes
<1>2. memory["templates"] \in Seq(Items)
  BY DEF Shapes, ListShapes, Configs, Names
<1>3. Old(memory'["templates"], changes')
  BY <1>1, <1>2 DEF OldLists
<1>4. \A c \in Callers : Len(snapshot[c]) > 0 => snapshot[c][1] \in Seq(Items) /\ Old(snapshot[c][1], changes)
  <2> SUFFICES ASSUME NEW c \in Callers, Len(snapshot[c]) > 0
               PROVE  snapshot[c][1] \in Seq(Items) /\ Old(snapshot[c][1], changes)
    OBVIOUS
  <2>1. snapshot[c] \in Seq(Seq(Items)) /\ 1 \in 1..Len(snapshot[c])
    BY DEF Shapes, CallShapes
  <2> QED
    BY <2>1, ElementOfSeq DEF OldLists
<1>5. \A c \in Callers : Len(snapshot'[c]) > 0 => Old(snapshot'[c][1], changes')
  <2> SUFFICES ASSUME NEW c \in Callers, Len(snapshot'[c]) > 0 PROVE Old(snapshot'[c][1], changes')
    OBVIOUS
  <2>1. snapshot'[c][1] \in Seq(Items) /\ Old(snapshot'[c][1], changes)
    BY <1>2, <1>4 DEF OldLists
  <2> QED
    BY <1>1, <2>1
<1>6. \A f \in Files : Configuration(f)' => Old(disk'[f]["templates"], changes')
  <2> SUFFICES ASSUME NEW f \in Files, Configuration(f)' PROVE Old(disk'[f]["templates"], changes')
    OBVIOUS
  <2>1. disk'[f]["templates"] \in Seq(Items) /\ Old(disk'[f]["templates"], changes)
    <3>1. CASE \E g \in Files : disk'[f] = disk[g]
      <4>1. PICK g \in Files : disk'[f] = disk[g]
        BY <3>1
      <4>2. disk[g] \in Configs /\ Configuration(g)
        BY <4>1 DEF Configuration, Shapes, FileShapes
      <4> QED
        BY <4>1, <4>2 DEF OldLists, Configs, Names
    <3>2. CASE \E c \in Callers : Len(snapshot[c]) > 0 /\ disk'[f]["templates"] = snapshot[c][1]
      BY <1>4, <3>2
    <3> QED
      BY <3>1, <3>2 DEF Configuration
  <2> QED
    BY <1>1, <2>1
<1> QED
  BY <1>3, <1>5, <1>6 DEF OldLists

(* The first list of a snapshot is the templates as they were.             *)
LEMMA SnapshotsOfTemplates ==
  ASSUME Shapes, NEW c \in Callers,
         Store(c) \/ ReadSection(c) \/ OpenTemporary(c) \/ WriteTemporary(c)
           \/ WriteFails(c) \/ UnlinkBackup(c) \/ Backup(c) \/ BackupFails(c)
           \/ Replaced(c) \/ ReplaceFails(c)
  PROVE  \A d \in Callers : Len(snapshot'[d]) > 0 =>
         \/ Len(snapshot[d]) > 0 /\ snapshot'[d][1] = snapshot[d][1]
         \/ snapshot'[d][1] = memory["templates"]
<1>1. CASE ReadSection(c)
  <2>1. /\ snapshot[c] \in Seq(Seq(Items)) /\ snapshot \in [Callers -> Seq(Seq(Items))]
        /\ Len(snapshot[c]) < 2
        /\ snapshot' = [snapshot EXCEPT ![c] = Append(@, memory[Sections[Len(@) + 1]])]
    BY <1>1 DEF ReadSection, Shapes, CallShapes, Sections
  <2>2. memory[Sections[Len(snapshot[c]) + 1]] \in Seq(Items)
    <3>1. Sections[Len(snapshot[c]) + 1] \in Names
      BY <2>1 DEF Sections, Names
    <3> QED
      BY <3>1 DEF Shapes, ListShapes, Configs
  <2> DEFINE M == memory[Sections[Len(snapshot[c]) + 1]]
  <2>3. Len(snapshot[c]) = 0 => M = memory["templates"]
    BY DEF Sections
  <2>4. snapshot'[c] = Append(snapshot[c], M) /\ \A d \in Callers : d # c => snapshot'[d] = snapshot[d]
    BY <2>1
  <2> HIDE DEF M
  <2>5. \/ Len(snapshot[c]) > 0 /\ Append(snapshot[c], M)[1] = snapshot[c][1]
        \/ Len(snapshot[c]) = 0 /\ Append(snapshot[c], M)[1] = M
    <3> DEFINE S == snapshot[c]
    <3>1. S \in Seq(Seq(Items))
      BY <2>1
    <3>2. M \in Seq(Items)
      BY <2>2 DEF M
    <3> HIDE DEF S
    <3>3. /\ Len(S) \in Nat /\ \A k \in 1..Len(S) : Append(S, M)[k] = S[k]
          /\ Append(S, M)[Len(S) + 1] = M
      BY <3>1, <3>2, AppendProperties
    <3>4. \/ Len(S) > 0 /\ Append(S, M)[1] = S[1]
          \/ Len(S) = 0 /\ Append(S, M)[1] = M
      BY <3>3
    <3> QED
      BY <3>4 DEF S
  <2> QED
    BY <2>3, <2>4, <2>5
<1>2. CASE WriteFails(c) \/ Replaced(c) \/ ReplaceFails(c)
  <2>1. snapshot' = [snapshot EXCEPT ![c] = << >>] /\ snapshot \in [Callers -> Seq(Seq(Items))]
    BY <1>2 DEF WriteFails, Replaced, ReplaceFails, Finish, Shapes, CallShapes
  <2>2. \A d \in Callers : snapshot'[d] = IF d = c THEN << >> ELSE snapshot[d]
    BY <2>1
  <2> QED
    BY <2>2
<1>3. CASE ~ReadSection(c) /\ ~(WriteFails(c) \/ Replaced(c) \/ ReplaceFails(c))
  BY <1>3 DEF Store, OpenTemporary, WriteTemporary, UnlinkBackup, Backup, BackupFails
<1> QED
  BY <1>1, <1>2, <1>3

(* The templates in a file come from another file or from a snapshot.      *)
LEMMA FilesOfTemplates ==
  ASSUME Shapes, NEW c \in Callers,
         Store(c) \/ ReadSection(c) \/ OpenTemporary(c) \/ WriteTemporary(c)
           \/ WriteFails(c) \/ UnlinkBackup(c) \/ Backup(c) \/ BackupFails(c)
           \/ Replaced(c) \/ ReplaceFails(c)
  PROVE  \A f \in Files :
         \/ disk'[f] \in {Nothing, Torn}
         \/ \E g \in Files : disk'[f] = disk[g]
         \/ \E d \in Callers : Len(snapshot[d]) > 0 /\ disk'[f]["templates"] = snapshot[d][1]
<1>1. disk \in [Files -> Configs \cup {Nothing, Torn}]
  BY DEF Shapes, FileShapes
<1>2. CASE WriteTemporary(c)
  <2>1. CASE disk' = [disk EXCEPT !["TMP"] = Read(c)]
    <3>1. Len(snapshot[c]) = 2
      BY <1>2 DEF WriteTemporary, Shapes, CallShapes
    <3>2. Read(c)["templates"] = snapshot[c][1]
      BY <3>1, ReadIsConfig
    <3> QED
      BY <1>1, <2>1, <3>1, <3>2
  <2> QED
    BY <1>2, <2>1 DEF WriteTemporary
<1>3. CASE ~WriteTemporary(c)
  <2>1. \A f \in Files : disk'[f] \in {Nothing, Torn} \/ \E g \in Files : disk'[f] = disk[g]
    BY <1>1, <1>3 DEF Store, ReadSection, OpenTemporary, WriteFails, UnlinkBackup, Backup,
                      BackupFails, Replaced, ReplaceFails, Renamed, Files
  <2> QED
    BY <2>1
<1> QED
  BY <1>2, <1>3

(* A store only copies lists that are in memory to the disk.               *)
LEMMA StoreKeepsHeld ==
  ASSUME HeldInv, NEW c \in Callers,
         Store(c) \/ ReadSection(c) \/ OpenTemporary(c) \/ WriteTemporary(c)
           \/ WriteFails(c) \/ UnlinkBackup(c) \/ Backup(c) \/ BackupFails(c)
           \/ Replaced(c) \/ ReplaceFails(c)
  PROVE  HeldInv'
<1>0. Shapes /\ Shapes'
  BY StoreKeepsShapes DEF HeldInv
<1>1. /\ UNCHANGED <<memory, pins, freed, left, changes, todo, own, src, leaked>>
      /\ doing[c] # "idle" /\ status' \in {status, "up"}
  BY DEF Store, ReadSection, OpenTemporary, WriteTemporary, WriteFails, UnlinkBackup, Backup,
         BackupFails, Replaced, ReplaceFails, lists, users, Finish
<1>2. PinsCounted'
  BY <1>1 DEF HeldInv, PinsCounted, Holds
<1>3. HeldAreKept'
  BY <1>1 DEF HeldInv, HeldAreKept, Templates
<1>4. AddedOnce'
  <2>1. Known' = Known
    BY <1>1 DEF Known, Templates
  <2> QED
    BY <1>0, <1>1, <2>1, NothingAdded DEF HeldInv
<1>5. DownIsEmpty'
  BY <1>1 DEF HeldInv, DownIsEmpty, Fresh
<1>6. \A d \in Callers : Len(snapshot'[d]) > 0 =>
         \/ Len(snapshot[d]) > 0 /\ snapshot'[d][1] = snapshot[d][1]
         \/ snapshot'[d][1] = memory["templates"]
  BY <1>0, SnapshotsOfTemplates
<1>7. \A f \in Files :
         \/ disk'[f] \in {Nothing, Torn}
         \/ \E g \in Files : disk'[f] = disk[g]
         \/ \E d \in Callers : Len(snapshot[d]) > 0 /\ disk'[f]["templates"] = snapshot[d][1]
  BY <1>0, FilesOfTemplates
<1>8. OldLists'
  <2>1. changes <= changes' /\ changes' \in Int
    BY <1>0, <1>1 DEF Shapes, CountShapes
  <2> QED
    BY <1>0, <1>1, <1>6, <1>7, <2>1, OldListsKept DEF HeldInv
<1> QED
  BY <1>0, <1>2, <1>3, <1>4, <1>5, <1>8 DEF HeldInv

(* What replaces a list of templates adds each of them, in its place.      *)
LEMMA ReplacingAdds ==
  ASSUME NEW s \in Names, NEW L \in Seq(Items), NEW k \in 1..Len(Replace(s, L)),
         Replace(s, L)[k].op = "add", Replace(s, L)[k].section = "templates"
  PROVE  /\ s = "templates" /\ k - 1 \in 1..Len(L)
         /\ Replace(s, L)[k].item = L[k - 1]
<1> DEFINE R == Replace(s, L)
<1>1. /\ Len(R) = Len(L) + 1 /\ R[1] = Clear(s)
      /\ \A j \in 1..Len(L) : R[j + 1] = Add(s, L[j])
  BY Replacing
<1> HIDE DEF R
<1>2. k \in 1..Len(R) /\ R[k].op = "add" /\ R[k].section = "templates" /\ Len(L) \in Nat
  BY DEF R
<1>3. k # 1
  BY <1>1, <1>2 DEF Clear
<1>4. k - 1 \in 1..Len(L) /\ R[k] = Add(s, L[k - 1])
  <2>1. k - 1 \in 1..Len(L) /\ (k - 1) + 1 = k
    BY <1>1, <1>2, <1>3
  <2> QED
    BY <1>1, <2>1
<1>5. s = "templates" /\ R[k].item = L[k - 1]
  BY <1>2, <1>4 DEF Add
<1> QED
  BY <1>4, <1>5 DEF R

(* One caller gets things to do; the templates they add are those of a     *)
(* list, each once, and nobody knows them.                                 *)
LEMMA NewAdds ==
  ASSUME Shapes, AddedOnce, NEW c \in Callers, NEW L \in Seq(Items), NEW q \in Seq(Edits),
         todo' = [todo EXCEPT ![c] = q], changes' \in Int, changes <= changes',
         Known' \subseteq Known,
         Old(L, changes'),
         \A k \in 1..Len(q) : q[k].op = "add" /\ q[k].section = "templates" =>
            k - 1 \in 1..Len(L) /\ q[k].item = L[k - 1],
         \A k \in 1..Len(L) : L[k] \notin Known,
         \A d \in Callers : \A j \in 1..Len(todo[d]), k \in 1..Len(L) :
            d # c /\ Adds(d, j) => todo[d][j].item # L[k]
  PROVE  AddedOnce'
<1>1. /\ todo \in [Callers -> Seq(Edits)] /\ todo'[c] = q /\ changes \in Nat
      /\ \A d \in Callers : d # c => todo'[d] = todo[d]
  BY DEF Shapes, CallShapes, CountShapes
<1>2. \A i \in Known' : i # Nothing => i[1] <= changes'
  <2>1. \A i \in Known : i # Nothing => i \in Items /\ i[1] \in Nat
    <3>1. Templates \subseteq Items
      BY RangeOfSeq DEF Templates, Shapes, ListShapes, Configs, Names
    <3> QED
      BY <3>1 DEF Known, Items, Shapes, ListShapes, UserShapes
  <2> HIDE DEF Known
  <2> QED
    BY <1>1, <2>1 DEF AddedOnce
<1>3. \A k \in 1..Len(q) : Adds(c, k)' => k - 1 \in 1..Len(L) /\ q[k].item = L[k - 1]
  BY <1>1 DEF Adds
<1>4. \A d \in Callers : d # c => \A k \in 1..Len(todo'[d]) :
         Adds(d, k)' => Adds(d, k) /\ todo'[d][k] = todo[d][k] /\ k \in 1..Len(todo[d])
  BY <1>1 DEF Adds
<1>5. \A d \in Callers : \A k \in 1..Len(todo[d]) : Adds(d, k) =>
         /\ todo[d][k].item[1] <= changes' /\ todo[d][k].item \notin Known
  <2> SUFFICES ASSUME NEW d \in Callers, NEW k \in 1..Len(todo[d]), Adds(d, k)
               PROVE  todo[d][k].item[1] <= changes' /\ todo[d][k].item \notin Known
    OBVIOUS
  <2>1. todo[d][k].item \in Items
    BY AddsAnItem
  <2>2. todo[d][k].item[1] \in Nat
    BY <2>1 DEF Items
  <2> HIDE DEF Known, Adds
  <2>3. todo[d][k].item[1] <= changes /\ todo[d][k].item \notin Known
    BY DEF AddedOnce
  <2> QED
    BY <1>1, <2>2, <2>3
<1>6. ASSUME NEW d \in Callers, NEW k \in 1..Len(todo'[d]), Adds(d, k)'
      PROVE  todo'[d][k].item[1] <= changes' /\ todo'[d][k].item \notin Known'
  <2> HIDE DEF Known, Adds
  <2>1. CASE d = c
    BY <1>1, <1>3, <1>6, <2>1 DEF Old
  <2>2. CASE d # c
    BY <1>4, <1>5, <1>6, <2>2
  <2> QED
    BY <2>1, <2>2
<1>7. ASSUME NEW d \in Callers, NEW k \in 1..Len(todo'[d]), Adds(d, k)',
             NEW b \in Callers, NEW j \in 1..Len(todo'[b]), Adds(b, j)',
             todo'[b][j].item = todo'[d][k].item
      PROVE  d = b /\ k = j
  <2> HIDE DEF Known, Adds
  <2>1. CASE d = c /\ b = c
    <3>1. /\ k - 1 \in 1..Len(L) /\ j - 1 \in 1..Len(L)
          /\ q[k].item = L[k - 1] /\ q[j].item = L[j - 1]
      BY <1>1, <1>3, <1>7, <2>1
    <3>2. L[k - 1] = L[j - 1]
      BY <1>1, <1>7, <2>1, <3>1
    <3>3. k - 1 = j - 1
      BY <3>1, <3>2 DEF Old
    <3> QED
      BY <2>1, <3>3
  <2>2. CASE d # c /\ b # c
    <3>1. Adds(d, k) /\ Adds(b, j) /\ todo[b][j].item = todo[d][k].item
      BY <1>4, <1>7, <2>2
    <3> QED
      BY <1>4, <1>7, <2>2, <3>1, OneAdds
  <2>3. CASE d = c /\ b # c
    BY <1>1, <1>3, <1>4, <1>7, <2>3
  <2>4. CASE d # c /\ b = c
    BY <1>1, <1>3, <1>4, <1>7, <2>4
  <2> QED
    BY <2>1, <2>2, <2>3, <2>4
<1> HIDE DEF Known, Adds
<1> QED
  BY <1>2, <1>6, <1>7 DEF AddedOnce

(* What an administrator gives has never been known: it is numbered by the *)
(* change.                                                                 *)
LEMMA ChangeKeepsHeld ==
  ASSUME HeldInv, NEW a \in Admins, Change(a)
  PROVE  HeldInv'
<1> DEFINE n == changes + 1
           L == <<<<n, 1>>, <<n, 2>>>>
<1>0. Shapes /\ Shapes'
  BY ChangeKeepsShapes DEF HeldInv
<1>1. /\ UNCHANGED <<memory, pins, freed, disk, status, own, src, leaked>>
      /\ status # "down" /\ changes' = n
      /\ a \in Callers
  BY DEF Change, lists, users, Running, Callers
<1>2. n \in 0..MaxChanges /\ changes \in Nat
  BY <1>0, <1>1, ConfigurationAssumption DEF Shapes, CountShapes
<1>3. L \in Seq(Items) /\ <<n, 1>> \in Items /\ Len(L) = 2 /\ L[1] = <<n, 1>> /\ L[2] = <<n, 2>>
  BY <1>2 DEF Items
<1>4. PinsCounted' /\ HeldAreKept' /\ DownIsEmpty'
  BY <1>1 DEF HeldInv, PinsCounted, Holds, HeldAreKept, Templates, DownIsEmpty
<1>5. Known' = Known
  BY <1>1 DEF Known, Templates
<1> DEFINE Given(q) ==
             /\ todo' = [todo EXCEPT ![a] = q]
             /\ snapshot' = [snapshot EXCEPT ![a] = << >>]
             /\ \A k \in 1..Len(q) : q[k].op = "add" /\ q[k].section = "templates" =>
                   k - 1 \in 1..Len(L) /\ q[k].item = L[k - 1]
<1>6. \E q \in Seq(Edits) : Given(q)
  <2>1. ASSUME NEW s \in Names, Begin(a, Replace(s, L)) PROVE \E q \in Seq(Edits) : Given(q)
    <3> DEFINE q == Replace(s, L)
    <3> HIDE DEF L
    <3>1. q \in Seq(Edits)
      BY <1>3, Replacing
    <3>2. \A k \in 1..Len(q) : q[k].op = "add" /\ q[k].section = "templates" =>
              k - 1 \in 1..Len(L) /\ q[k].item = L[k - 1]
      BY <1>3, ReplacingAdds
    <3> QED
      BY <2>1, <3>1, <3>2 DEF Begin
  <2>2. ASSUME NEW e \in Edits, Begin(a, <<e>>), e.section = "relays"
        PROVE  \E q \in Seq(Edits) : Given(q)
    <3>1. <<e>> \in Seq(Edits) /\ Len(<<e>>) = 1 /\ <<e>>[1].section = "relays"
      BY <2>2
    <3>2. Given(<<e>>)
      BY <2>2, <3>1 DEF Begin
    <3> QED
      BY <3>1, <3>2
  <2> HIDE DEF Given
  <2>3. CASE \E s \in Range(Sections) : Begin(a, Replace(s, L))
    BY <2>1, <2>3, SectionNames
  <2>4. CASE Begin(a, <<Add("relays", <<n, 1>>)>>)
    <3>1. Add("relays", <<n, 1>>) \in Edits
      BY <1>3 DEF Edits, Names
    <3>2. Add("relays", <<n, 1>>).section = "relays"
      BY DEF Add
    <3> QED
      BY <2>2, <2>4, <3>1, <3>2
  <2>5. CASE \E i \in Range(memory["relays"]) : Begin(a, <<Del("relays", i)>>)
    <3>1. Range(memory["relays"]) \subseteq Items
      BY <1>0, RangeOfSeq DEF Shapes, ListShapes, Configs, Names
    <3>2. PICK i \in Items : Begin(a, <<Del("relays", i)>>)
      BY <2>5, <3>1
    <3>3. Del("relays", i) \in Edits
      BY DEF Edits
    <3>4. Del("relays", i).section = "relays"
      BY DEF Del
    <3> QED
      BY <2>2, <3>2, <3>3, <3>4
  <2> QED
    BY <2>3, <2>4, <2>5 DEF Change
<1>7. PICK q \in Seq(Edits) : Given(q)
  BY <1>6
<1>8. AddedOnce'
  <2>1. Old(L, changes')
    BY <1>1, <1>2, <1>3 DEF Old
  <2>2. \A k \in 1..Len(L) : L[k] \in Items /\ L[k][1] = n
    <3>1. <<n, 1>>[1] = n /\ <<n, 2>>[1] = n /\ <<n, 2>> \in Items
      BY <1>2 DEF Items
    <3> HIDE DEF L
    <3>2. \A k \in 1..Len(L) : k = 1 \/ k = 2
      BY <1>3
    <3> QED
      BY <1>3, <3>1, <3>2
  <2> HIDE DEF L
  <2>3. \A k \in 1..Len(L) : L[k] \notin Known
    <3> HIDE DEF Known
    <3> QED
      BY <1>2, <2>2, ValuesAssumption DEF HeldInv, AddedOnce
  <2>4. \A d \in Callers : \A j \in 1..Len(todo[d]), k \in 1..Len(L) :
           d # a /\ Adds(d, j) => todo[d][j].item # L[k]
    <3> HIDE DEF Known
    <3> QED
      BY <1>2, <2>2 DEF HeldInv, AddedOnce
  <2> QED
    <3>1. /\ todo' = [todo EXCEPT ![a] = q]
          /\ \A k \in 1..Len(q) : q[k].op = "add" /\ q[k].section = "templates" =>
                k - 1 \in 1..Len(L) /\ q[k].item = L[k - 1]
      BY <1>7
    <3>2. changes' \in Int /\ changes <= changes' /\ Known' \subseteq Known
      BY <1>1, <1>2, <1>5
    <3> HIDE DEF Given, Known, Adds
    <3>3. Shapes /\ AddedOnce /\ L \in Seq(Items) /\ a \in Callers
      BY <1>0, <1>1, <1>3 DEF HeldInv
    <3> QED
      BY <2>1, <2>3, <2>4, <3>1, <3>2, <3>3, NewAdds
<1>9. OldLists'
  <2>1. \A d \in Callers : Len(snapshot'[d]) > 0 => Len(snapshot[d]) > 0 /\ snapshot'[d][1] = snapshot[d][1]
    <3>1. snapshot \in [Callers -> Seq(Seq(Items))] /\ snapshot' = [snapshot EXCEPT ![a] = << >>]
      BY <1>0, <1>7 DEF Shapes, CallShapes
    <3>2. \A d \in Callers : snapshot'[d] = IF d = a THEN << >> ELSE snapshot[d]
      BY <3>1
    <3> QED
      BY <3>2
  <2>2. \A f \in Files : disk'[f] = disk[f]
    BY <1>1
  <2> QED
    BY <1>0, <1>1, <1>2, <2>1, <2>2, OldListsKept DEF HeldInv
<1> QED
  BY <1>0, <1>4, <1>8, <1>9 DEF HeldInv

(* How many of the users have i.                                           *)
Count(f, i) == Cardinality({u \in Users : f[u] = i})

(* How many users have an item is a number, and not zero if one has.       *)
LEMMA Counted ==
  ASSUME NEW f, NEW i
  PROVE  Count(f, i) \in Nat /\ \A u \in Users : f[u] = i => Count(f, i) # 0
<1> DEFINE A == {w \in Users : f[w] = i}
<1>1. IsFiniteSet(A) /\ \A u \in Users : f[u] = i => A # {}
  BY ValuesAssumption, FS_Subset
<1> HIDE DEF A
<1>2. Cardinality(A) \in Nat /\ (A # {} => Cardinality(A) # 0)
  BY <1>1, FS_CardinalityType, FS_EmptySet
<1> QED
  BY <1>1, <1>2 DEF A, Count

(* One of them gets something else.                                        *)
OnlyFor(u, f, g) == \A w \in Users : w # u => g[w] = f[w]

(* How the number changes when one user takes, gives back or keeps.        *)
LEMMA Recount ==
  ASSUME NEW f, NEW g, NEW u \in Users, NEW i, OnlyFor(u, f, g)
  PROVE  /\ Count(f, i) \in Nat /\ Count(g, i) \in Nat
         /\ f[u] # i /\ g[u] = i => Count(g, i) = Count(f, i) + 1
         /\ f[u] = i /\ g[u] # i => Count(f, i) = Count(g, i) + 1
         /\ (f[u] = i <=> g[u] = i) => Count(g, i) = Count(f, i)
<1> DEFINE R == {w \in Users : w # u /\ f[w] = i}
           B == {w \in Users : f[w] = i}
           A == {w \in Users : g[w] = i}
<1>1. IsFiniteSet(R) /\ u \notin R
  BY ValuesAssumption, FS_Subset
<1>2. B = IF f[u] = i THEN R \cup {u} ELSE R
  OBVIOUS
<1>3. A = IF g[u] = i THEN R \cup {u} ELSE R
  BY DEF OnlyFor
<1>4. Count(g, i) = Cardinality(A) /\ Count(f, i) = Cardinality(B)
  BY DEF Count
<1> HIDE DEF R, A, B
<1>5. Cardinality(R) \in Nat /\ Cardinality(R \cup {u}) = Cardinality(R) + 1
  BY <1>1, FS_AddElement, FS_CardinalityType
<1> QED
  BY <1>2, <1>3, <1>4, <1>5

(* The holders of a template are counted in the two places a user may have *)
(* it.                                                                     *)
LEMMA HoldsCounts ==
  \A i : Holds(i) = Count(own, i) + Count(src, i) /\ Holds(i)' = Count(own', i) + Count(src', i)
BY DEF Holds, Count

(* A pin is given back, by who had it: what is freed is held by nobody.    *)
LEMMA Released ==
  ASSUME HeldInv, Shapes', NEW i \in Items, TemplRelease(i), leaked' = leaked,
         changes' = changes, todo' = todo, snapshot' = snapshot, disk' = disk, status' = status,
         status # "down", Known' \subseteq Known \cup {Nothing},
         \A u \in Users : own'[u] \in {own[u], Nothing} /\ src'[u] \in {src[u], Nothing},
         \A j \in Items : Holds(j)' = Holds(j) - (IF j = i THEN 1 ELSE 0) /\ Holds(j) \in Int
  PROVE  HeldInv'
<1>1. /\ pins' = [pins EXCEPT ![i] = @ - 1] /\ memory' = memory
      /\ freed' = freed \cup {j \in {i} \ Templates : pins'[j] = 0}
  BY DEF TemplRelease, Free
<1>2. pins \in [Items -> Int]
  BY DEF HeldInv, Shapes, ListShapes
<1>3. PinsCounted'
  <2> HIDE DEF Holds
  <2>1. \A j \in Items : pins'[j] = pins[j] - (IF j = i THEN 1 ELSE 0) /\ pins[j] \in Int
    BY <1>1, <1>2
  <2> QED
    BY <2>1 DEF HeldInv, PinsCounted
<1>4. HeldAreKept'
  <2>1. ASSUME NEW u \in Users, NEW j \in Items, own'[u] = j \/ src'[u] = j
        PROVE  pins'[j] # 0
    <3>1. /\ Count(own', j) \in Nat /\ Count(src', j) \in Nat
          /\ (Count(own', j) # 0 \/ Count(src', j) # 0)
      BY <2>1, Counted
    <3>4. Holds(j)' = Count(own', j) + Count(src', j)
      BY HoldsCounts
    <3>5. Holds(j)' >= 1
      BY <3>1, <3>4
    <3>6. pins'[j] >= Holds(j)' /\ pins'[j] \in Int /\ Holds(j)' \in Int
      BY <1>2, <1>3, <3>1, <3>4 DEF PinsCounted, Shapes, ListShapes
    <3> QED
      BY <3>5, <3>6
  <2>2. \A u \in Users : own'[u] \notin freed /\ src'[u] \notin freed
    <3>1. Nothing \notin freed
      BY ValuesAssumption DEF HeldInv, Shapes, ListShapes
    <3> QED
      BY <3>1 DEF HeldInv, HeldAreKept
  <2>3. Templates' = Templates
    BY <1>1 DEF Templates
  <2>4. \A u \in Users : own'[u] \notin freed' /\ src'[u] \notin freed'
    BY <1>1, <2>1, <2>2
  <2>5. Templates' \cap freed' = {}
    BY <1>1, <2>3 DEF HeldInv, HeldAreKept
  <2> QED
    BY <2>4, <2>5 DEF HeldAreKept
<1>5. AddedOnce'
  BY NothingAdded DEF HeldInv
<1>6. OldLists'
  BY <1>1 DEF HeldInv, OldLists, Configuration
<1> QED
  BY <1>3, <1>4, <1>5, <1>6 DEF HeldInv, DownIsEmpty

(* A user that takes or gives back a template keeps the invariant.         *)
LEMMA UserKeepsHeld ==
  ASSUME HeldInv, NEW u \in Users, UserStep(u)
  PROVE  HeldInv'
<1>0. Shapes /\ Shapes'
  BY UserKeepsShapes DEF HeldInv
<1>1. /\ UNCHANGED <<memory, disk, status, changes, doing, todo, snapshot>>
  BY DEF UserStep, Query, Create, Release, EndSource, TemplRelease, calls
<1>2. status # "down"
  <2>1. status = "down" => own[u] = Nothing /\ src[u] = Nothing
    BY DEF HeldInv, DownIsEmpty, Fresh
  <2> QED
    BY <2>1 DEF UserStep, Query, Create, Release, EndSource, Running
<1>3. /\ own \in [Users -> Items \cup {Nothing}] /\ src \in [Users -> Items \cup {Nothing}]
      /\ pins \in [Items -> Int] /\ Nothing \notin Items /\ leaked \subseteq Items
  BY <1>0, ValuesAssumption DEF Shapes, UserShapes, ListShapes
<1>4. OldLists' /\ DownIsEmpty'
  BY <1>1, <1>2 DEF HeldInv, OldLists, Configuration, DownIsEmpty
<1>5. Templates' = Templates /\ Templates \subseteq Items
  BY <1>0, <1>1, RangeOfSeq DEF Templates, Shapes, ListShapes, Configs, Names
<1>6. CASE Release(u) \/ EndSource(u)
  <2>1. CASE Release(u)
    <3> DEFINE i == own[u]
    <3>1. /\ i \in Items /\ TemplRelease(i) /\ leaked' = leaked /\ src' = src
          /\ own' = [own EXCEPT ![u] = Nothing]
      BY <1>3, <2>1 DEF Release
    <3>2. \A j \in Items : Holds(j)' = Holds(j) - (IF j = i THEN 1 ELSE 0) /\ Holds(j) \in Int
      <4>1. own'[u] = Nothing /\ OnlyFor(u, own, own')
        BY <1>3, <3>1 DEF OnlyFor
      <4>2. \A j \in Items : Count(own', j) = Count(own, j) - (IF j = i THEN 1 ELSE 0)
        <5> SUFFICES ASSUME NEW j \in Items
                     PROVE  Count(own', j) = Count(own, j) - (IF j = i THEN 1 ELSE 0)
          OBVIOUS
        <5>1. /\ Count(own, j) \in Nat /\ Count(own', j) \in Nat
              /\ own[u] # j /\ own'[u] = j => Count(own', j) = Count(own, j) + 1
              /\ own[u] = j /\ own'[u] # j => Count(own, j) = Count(own', j) + 1
              /\ (own[u] = j <=> own'[u] = j) => Count(own', j) = Count(own, j)
          BY <4>1, Recount
        <5> QED
          BY <1>3, <4>1, <5>1
      <4>3. \A j : Count(own, j) \in Nat /\ Count(src, j) \in Nat
        BY Counted
      <4>5. \A j : Holds(j) = Count(own, j) + Count(src, j) /\ Holds(j)' = Count(own', j) + Count(src, j)
        BY <3>1, <4>3, HoldsCounts, Counted
      <4> QED
        BY <4>2, <4>3, <4>5
    <3>3. Known' \subseteq Known \cup {Nothing}
      BY <1>3, <1>5, <3>1 DEF Known, TemplRelease, Free
    <3>4. \A w \in Users : own'[w] \in {own[w], Nothing} /\ src'[w] \in {src[w], Nothing}
      BY <1>3, <3>1
    <3> HIDE DEF i, Known, Holds
    <3> QED
      BY <1>0, <1>1, <1>2, <3>1, <3>2, <3>3, <3>4, Released
  <2>2. CASE EndSource(u)
    <3> DEFINE i == src[u]
    <3>1. /\ i \in Items /\ TemplRelease(i) /\ leaked' = leaked /\ own' = own
          /\ src' = [src EXCEPT ![u] = Nothing]
      BY <1>3, <2>2 DEF EndSource
    <3>2. \A j \in Items : Holds(j)' = Holds(j) - (IF j = i THEN 1 ELSE 0) /\ Holds(j) \in Int
      <4>1. src'[u] = Nothing /\ OnlyFor(u, src, src')
        BY <1>3, <3>1 DEF OnlyFor
      <4>2. \A j \in Items : Count(src', j) = Count(src, j) - (IF j = i THEN 1 ELSE 0)
        <5> SUFFICES ASSUME NEW j \in Items
                     PROVE  Count(src', j) = Count(src, j) - (IF j = i THEN 1 ELSE 0)
          OBVIOUS
        <5>1. /\ Count(src, j) \in Nat /\ Count(src', j) \in Nat
              /\ src[u] # j /\ src'[u] = j => Count(src', j) = Count(src, j) + 1
              /\ src[u] = j /\ src'[u] # j => Count(src, j) = Count(src', j) + 1
              /\ (src[u] = j <=> src'[u] = j) => Count(src', j) = Count(src, j)
          BY <4>1, Recount
        <5> QED
          BY <1>3, <4>1, <5>1
      <4>3. \A j : Count(src, j) \in Nat /\ Count(own, j) \in Nat
        BY Counted
      <4>5. \A j : Holds(j) = Count(own, j) + Count(src, j) /\ Holds(j)' = Count(own, j) + Count(src', j)
        BY <3>1, <4>3, HoldsCounts, Counted
      <4> QED
        BY <4>2, <4>3, <4>5
    <3>3. Known' \subseteq Known \cup {Nothing}
      BY <1>3, <1>5, <3>1 DEF Known, TemplRelease, Free
    <3>4. \A w \in Users : own'[w] \in {own[w], Nothing} /\ src'[w] \in {src[w], Nothing}
      BY <1>3, <3>1
    <3> HIDE DEF i, Known, Holds
    <3> QED
      BY <1>0, <1>1, <1>2, <3>1, <3>2, <3>3, <3>4, Released
  <2> QED
    BY <1>6, <2>1, <2>2
<1>7. CASE Query(u)
  <2>1. PICK m \in Mounts :
          LET i == Decision(memory["templates"], m) IN
          /\ i # Nothing
          /\ pins' = [pins EXCEPT ![i] = @ + 1]
          /\ own' = [own EXCEPT ![u] = i]
    BY <1>7 DEF Query
  <2> DEFINE i == Decision(memory["templates"], m)
  <2>2. i \in Templates
    <3>1. memory["templates"] \in Seq(Items)
      BY <1>0 DEF Shapes, ListShapes, Configs, Names
    <3>2. Templates = {memory["templates"][k] : k \in 1..Len(memory["templates"])}
      BY <3>1, RangeEquality DEF Templates
    <3> QED
      BY <2>1, <3>1, <3>2, DecisionIsFirst
  <2>3. /\ pins' = [pins EXCEPT ![i] = @ + 1] /\ own' = [own EXCEPT ![u] = i]
        /\ UNCHANGED <<freed, src>> /\ leaked' = leaked \cup ({own[u]} \ {Nothing})
    BY <1>7, <2>1 DEF Query
  <2> HIDE DEF i
  <2>4. HeldAreKept'
    BY <1>3, <1>5, <2>2, <2>3 DEF HeldInv, HeldAreKept
  <2>5. AddedOnce'
    <3>1. Known' \subseteq Known
      BY <1>3, <1>5, <2>2, <2>3 DEF Known
    <3> QED
      BY <1>0, <1>1, <3>1, NothingAdded DEF HeldInv
  <2>6. PinsCounted'
    <3> SUFFICES ASSUME NEW j \in Items
                 PROVE  IF j \in leaked' THEN pins'[j] >= Holds(j)' ELSE pins'[j] = Holds(j)'
      BY DEF PinsCounted
    <3>1. /\ Holds(j) = Count(own, j) + Count(src, j) /\ Holds(j)' = Count(own', j) + Count(src, j)
          /\ Count(own, j) \in Nat /\ Count(src, j) \in Nat
      BY <2>3, HoldsCounts, Counted
    <3>2. Count(own', j) = Count(own, j) - (IF own[u] = j THEN 1 ELSE 0) + (IF i = j THEN 1 ELSE 0)
      <4>0. OnlyFor(u, own, own')
        BY <1>3, <1>5, <2>2, <2>3 DEF OnlyFor
      <4>1. own'[u] = i
        BY <1>3, <1>5, <2>2, <2>3
      <4>2. /\ Count(own, j) \in Nat /\ Count(own', j) \in Nat
            /\ own[u] # j /\ own'[u] = j => Count(own', j) = Count(own, j) + 1
            /\ own[u] = j /\ own'[u] # j => Count(own, j) = Count(own', j) + 1
            /\ (own[u] = j <=> own'[u] = j) => Count(own', j) = Count(own, j)
        BY <4>0, Recount
      <4> QED
        BY <4>1, <4>2
    <3>3. pins'[j] = pins[j] + (IF i = j THEN 1 ELSE 0) /\ pins[j] \in Int
      BY <1>3, <1>5, <2>2, <2>3
    <3>4. IF j \in leaked THEN pins[j] >= Holds(j) ELSE pins[j] = Holds(j)
      BY DEF HeldInv, PinsCounted
    <3>5. j \in leaked' <=> j \in leaked \/ own[u] = j
      BY <1>3, <2>3
    <3> QED
      BY <3>1, <3>2, <3>3, <3>4, <3>5
  <2> QED
    BY <1>0, <1>4, <2>4, <2>5, <2>6 DEF HeldInv
<1>8. CASE Create(u)
  <2> DEFINE i == own[u]
  <2>1. /\ i \in Items /\ src[u] = Nothing /\ i \notin freed
        /\ pins' = [pins EXCEPT ![i] = @ + 1] /\ src' = [src EXCEPT ![u] = i]
        /\ UNCHANGED <<freed, own, leaked>>
    BY <1>3, <1>8 DEF Create, HeldInv, HeldAreKept
  <2>2. HeldAreKept'
    BY <1>3, <1>5, <2>1 DEF HeldInv, HeldAreKept
  <2>3. AddedOnce'
    <3>1. Known' \subseteq Known
      BY <1>3, <1>5, <2>1 DEF Known
    <3> QED
      BY <1>0, <1>1, <3>1, NothingAdded DEF HeldInv
  <2>4. PinsCounted'
    <3> SUFFICES ASSUME NEW j \in Items
                 PROVE  IF j \in leaked' THEN pins'[j] >= Holds(j)' ELSE pins'[j] = Holds(j)'
      BY DEF PinsCounted
    <3>1. /\ Holds(j) = Count(own, j) + Count(src, j) /\ Holds(j)' = Count(own, j) + Count(src', j)
          /\ Count(own, j) \in Nat /\ Count(src, j) \in Nat
      BY <2>1, HoldsCounts, Counted
    <3>2. Count(src', j) = Count(src, j) + (IF i = j THEN 1 ELSE 0)
      <4>0. OnlyFor(u, src, src')
        BY <1>3, <2>1 DEF OnlyFor
      <4>1. src'[u] = i
        BY <1>3, <2>1
      <4>2. /\ src[u] # j /\ src'[u] = j => Count(src', j) = Count(src, j) + 1
            /\ src[u] = j /\ src'[u] # j => Count(src, j) = Count(src', j) + 1
            /\ (src[u] = j <=> src'[u] = j) => Count(src', j) = Count(src, j)
        BY <4>0, Recount
      <4> QED
        BY <1>3, <2>1, <3>1, <4>1, <4>2
    <3>3. pins'[j] = pins[j] + (IF i = j THEN 1 ELSE 0) /\ pins[j] \in Int
      BY <1>3, <2>1
    <3>4. IF j \in leaked THEN pins[j] >= Holds(j) ELSE pins[j] = Holds(j)
      BY DEF HeldInv, PinsCounted
    <3> QED
      BY <2>1, <3>1, <3>2, <3>3, <3>4
  <2> QED
    BY <1>0, <1>4, <2>2, <2>3, <2>4 DEF HeldInv
<1> QED
  BY <1>6, <1>7, <1>8 DEF UserStep

(* Nobody knows a template in a program that has just started.             *)
NothingKnown ==
  /\ Known \subseteq {Nothing} /\ PinsCounted /\ HeldAreKept /\ AddedOnce
  /\ \A c \in Callers : todo[c] = << >> /\ snapshot[c] = << >>
  /\ memory["templates"] = << >>

(* Of a program that has not begun to run nobody knows any item.           *)
LEMMA FreshHolds == Shapes /\ Fresh => NothingKnown
<1> SUFFICES ASSUME Shapes, Fresh PROVE NothingKnown
  OBVIOUS
<1>1. /\ memory["templates"] = << >> /\ freed = {} /\ leaked = {}
      /\ \A c \in Callers : todo[c] = << >> /\ snapshot[c] = << >>
      /\ \A u \in Users : own[u] = Nothing /\ src[u] = Nothing
      /\ \A i \in Items : pins[i] = 0
  BY SectionNames DEF Fresh, Nowhere, Names
<1>2. Templates = {}
  BY <1>1 DEF Templates, Range
<1>3. Known \subseteq {Nothing}
  BY <1>1, <1>2 DEF Known
<1>4. \A i \in Items : Holds(i) = 0
  <2> SUFFICES ASSUME NEW i \in Items PROVE Holds(i) = 0
    OBVIOUS
  <2>1. {u \in Users : own[u] = i} = {} /\ {u \in Users : src[u] = i} = {}
    BY <1>1, ValuesAssumption
  <2> QED
    BY <2>1, FS_EmptySet DEF Holds
<1>5. PinsCounted /\ HeldAreKept
  BY <1>1, <1>2, <1>4 DEF PinsCounted, HeldAreKept
<1>6. AddedOnce
  BY <1>1, <1>3 DEF AddedOnce
<1> QED
  BY <1>1, <1>3, <1>5, <1>6 DEF NothingKnown

(* Start, stop and a crash keep the invariant: nothing outlives the        *)
(* program but its files.                                                  *)
LEMMA ProgramKeepsHeld ==
  ASSUME HeldInv, Start \/ Loaded \/ Stop \/ Exit \/ Crash
  PROVE  HeldInv'
<1>0. Shapes /\ Shapes' /\ Main \in Callers
  BY ProgramKeepsShapes DEF HeldInv, Callers
<1>1. CASE Loaded \/ Stop
  <2>1. /\ memory'["templates"] = memory["templates"]
        /\ UNCHANGED <<pins, freed, disk, todo, own, src, leaked, changes>>
        /\ status' # "down"
        /\ snapshot' = snapshot \/ snapshot' = [snapshot EXCEPT ![Main] = << >>]
    BY <1>0, <1>1 DEF Loaded, Stop, Finish, lists, users, calls, Shapes, ListShapes, Configs, Names
  <2>2. PinsCounted' /\ HeldAreKept' /\ DownIsEmpty'
    BY <2>1 DEF HeldInv, PinsCounted, Holds, HeldAreKept, Templates, DownIsEmpty
  <2>3. AddedOnce'
    <3>1. Known' = Known
      BY <2>1 DEF Known, Templates
    <3> QED
      BY <1>0, <2>1, <3>1, NothingAdded DEF HeldInv
  <2>4. OldLists'
    <3>1. \A d \in Callers : Len(snapshot'[d]) > 0 => Len(snapshot[d]) > 0 /\ snapshot'[d][1] = snapshot[d][1]
      <4>1. snapshot \in [Callers -> Seq(Seq(Items))]
        BY <1>0 DEF Shapes, CallShapes
      <4>2. \A d \in Callers : snapshot'[d] = << >> \/ snapshot'[d] = snapshot[d]
        BY <2>1, <4>1
      <4> QED
        BY <4>2
    <3>2. \A f \in Files : disk'[f] = disk[f]
      BY <2>1
    <3>3. changes \in Int
      BY <1>0 DEF Shapes, CountShapes
    <3> QED
      BY <1>0, <2>1, <3>1, <3>2, <3>3, OldListsKept DEF HeldInv
  <2> QED
    BY <1>0, <2>2, <2>3, <2>4 DEF HeldInv
<1>2. CASE Gone
  <2>1. Fresh' /\ disk' = disk /\ changes' = changes
    BY <1>2 DEF Gone, Fresh
  <2>2. /\ PinsCounted' /\ HeldAreKept' /\ AddedOnce'
        /\ (\A c \in Callers : todo[c] = << >> /\ snapshot[c] = << >>)'
        /\ memory'["templates"] = << >>
    <3>1. NothingKnown'
      BY <1>0, <2>1, FreshHolds, PTL
    <3> QED
      BY <3>1 DEF NothingKnown
  <2>3. OldLists'
    <3>1. \A f \in Files : Configuration(f)' => Old(disk'[f]["templates"], changes')
      BY <2>1 DEF HeldInv, OldLists, Configuration
    <3>2. Old(memory'["templates"], changes')
      BY <2>2 DEF Old
    <3>3. \A c \in Callers : Len(snapshot'[c]) = 0
      BY <2>2
    <3> QED
      BY <3>1, <3>2, <3>3 DEF OldLists
  <2> QED
    BY <1>0, <2>1, <2>2, <2>3 DEF HeldInv, DownIsEmpty
<1>3. CASE Start
  <2>1. /\ UNCHANGED <<memory, pins, freed, disk, changes, own, src, leaked>>
        /\ status = "down" /\ status' = "loading"
    BY <1>3 DEF Start, lists, users
  <2>2. Fresh
    BY <2>1 DEF HeldInv, DownIsEmpty
  <2>3. /\ Known \subseteq {Nothing} /\ PinsCounted /\ HeldAreKept /\ AddedOnce
        /\ \A c \in Callers : todo[c] = << >> /\ snapshot[c] = << >>
        /\ memory["templates"] = << >>
    BY <1>0, <2>2, FreshHolds DEF NothingKnown
  <2>4. PinsCounted' /\ HeldAreKept' /\ DownIsEmpty'
    BY <2>1, <2>3 DEF PinsCounted, Holds, HeldAreKept, Templates, DownIsEmpty
  <2>5. changes \in Nat
    BY <1>0 DEF Shapes, CountShapes
  <2>6. OldLists'
    <3>1. \A d \in Callers : snapshot'[d] = << >>
      BY <1>0, <1>3, <2>3 DEF Start, Begin, Shapes, CallShapes
    <3>2. \A d \in Callers : Len(snapshot'[d]) = 0
      BY <3>1
    <3> QED
      BY <2>1, <3>2 DEF HeldInv, OldLists, Configuration
  <2>7. \E L \in Seq(Items) : \E q \in Seq(Edits) :
           /\ Old(L, changes)
           /\ todo' = [todo EXCEPT ![Main] = q]
           /\ \A k \in 1..Len(q) : q[k].op = "add" /\ q[k].section = "templates" =>
                  k - 1 \in 1..Len(L) /\ q[k].item = L[k - 1]
    <3>1. CASE disk["config"] \in {Nothing, Torn}
      <4> DEFINE L == <<<<0, 2>>>>
                 q == Replace("templates", L)
      <4>1. L \in Seq(Items) /\ Len(L) = 1 /\ L[1] = <<0, 2>>
        BY ConfigurationAssumption DEF Items
      <4>2. Old(L, changes)
        BY <2>5, <4>1 DEF Old
      <4>3. todo' = [todo EXCEPT ![Main] = q]
        BY <1>3, <3>1 DEF Start, Begin
      <4> HIDE DEF L
      <4>4. q \in Seq(Edits)
        BY <4>1, Replacing DEF Names
      <4>5. \A k \in 1..Len(q) : q[k].op = "add" /\ q[k].section = "templates" =>
               k - 1 \in 1..Len(L) /\ q[k].item = L[k - 1]
        BY <4>1, ReplacingAdds DEF Names
      <4> HIDE DEF q
      <4> QED
        BY <4>1, <4>2, <4>3, <4>4, <4>5
    <3>2. CASE disk["config"] \notin {Nothing, Torn}
      <4> DEFINE F == disk["config"]
                 L == F["templates"]
                 r == Replace("templates", L)
                 p == Replace("relays", F["relays"])
      <4>1. F \in Configs /\ Configuration("config") /\ "config" \in Files
        BY <1>0, <3>2 DEF Shapes, FileShapes, Configuration, Files
      <4>2. L \in Seq(Items) /\ F["relays"] \in Seq(Items) /\ Old(L, changes)
        BY <4>1 DEF Configs, Names, HeldInv, OldLists
      <4>3. todo' = [todo EXCEPT ![Main] = r \o p]
        BY <1>3, <3>2 DEF Start
      <4>4. r \in Seq(Edits) /\ p \in Seq(Edits)
        BY <4>2, Replacing DEF Names
      <4>5. \A k \in 1..Len(r) : r[k].op = "add" /\ r[k].section = "templates" =>
               k - 1 \in 1..Len(L) /\ r[k].item = L[k - 1]
        <5> HIDE DEF L
        <5> QED
          BY <4>2, ReplacingAdds DEF Names
      <4>6. \A k \in 1..Len(p) : ~(p[k].op = "add" /\ p[k].section = "templates")
        <5> DEFINE G == F["relays"]
        <5>1. G \in Seq(Items)
          BY <4>2
        <5> HIDE DEF G
        <5>2. \A k \in 1..Len(Replace("relays", G)) :
                 ~(Replace("relays", G)[k].op = "add" /\ Replace("relays", G)[k].section = "templates")
          BY <5>1, ReplacingAdds DEF Names
        <5> QED
          BY <5>2 DEF G
      <4> HIDE DEF F, L, r, p
      <4>7. /\ r \o p \in Seq(Edits) /\ Len(r \o p) = Len(r) + Len(p) /\ Len(r) \in Nat /\ Len(p) \in Nat
            /\ \A k \in 1..(Len(r) + Len(p)) : (r \o p)[k] = IF k <= Len(r) THEN r[k] ELSE p[k - Len(r)]
        BY <4>4
      <4>8. \A k \in 1..Len(r \o p) :
               (r \o p)[k].op = "add" /\ (r \o p)[k].section = "templates" =>
               k - 1 \in 1..Len(L) /\ (r \o p)[k].item = L[k - 1]
        <5> SUFFICES ASSUME NEW k \in 1..Len(r \o p), (r \o p)[k].op = "add",
                            (r \o p)[k].section = "templates"
                     PROVE  k - 1 \in 1..Len(L) /\ (r \o p)[k].item = L[k - 1]
          OBVIOUS
        <5>1. CASE k <= Len(r)
          BY <4>5, <4>7, <5>1
        <5>2. CASE k > Len(r)
          <6>1. k - Len(r) \in 1..Len(p) /\ (r \o p)[k] = p[k - Len(r)]
            BY <4>7, <5>2
          <6> QED
            BY <4>6, <6>1
        <5> QED
          BY <4>7, <5>1, <5>2
      <4> QED
        BY <4>2, <4>3, <4>7, <4>8
    <3> QED
      BY <3>1, <3>2
  <2>8. PICK L \in Seq(Items) : \E q \in Seq(Edits) :
           /\ Old(L, changes)
           /\ todo' = [todo EXCEPT ![Main] = q]
           /\ \A k \in 1..Len(q) : q[k].op = "add" /\ q[k].section = "templates" =>
                  k - 1 \in 1..Len(L) /\ q[k].item = L[k - 1]
    BY <2>7
  <2>9. PICK q \in Seq(Edits) :
           /\ Old(L, changes)
           /\ todo' = [todo EXCEPT ![Main] = q]
           /\ \A k \in 1..Len(q) : q[k].op = "add" /\ q[k].section = "templates" =>
                  k - 1 \in 1..Len(L) /\ q[k].item = L[k - 1]
    BY <2>8
  <2>10. AddedOnce'
    <3>1. /\ changes' \in Int /\ changes <= changes' /\ Known' \subseteq Known /\ Old(L, changes')
      BY <2>1, <2>5, <2>9 DEF Known, Templates
    <3>2. \A k \in 1..Len(L) : L[k] \in Items /\ L[k] # Nothing
      BY ValuesAssumption
    <3> HIDE DEF Known, Adds
    <3>3. \A k \in 1..Len(L) : L[k] \notin Known
      BY <2>3, <3>2
    <3>4. \A d \in Callers : \A j \in 1..Len(todo[d]), k \in 1..Len(L) :
             d # Main /\ Adds(d, j) => todo[d][j].item # L[k]
      BY <2>3
    <3> QED
      BY <1>0, <2>3, <2>9, <3>1, <3>3, <3>4, NewAdds
  <2> QED
    BY <1>0, <2>4, <2>6, <2>10 DEF HeldInv
<1> QED
  BY <1>1, <1>2, <1>3 DEF Exit, Crash

(* The invariant of the held templates holds at first.                     *)
LEMMA InitHeld == Init => HeldInv
<1> SUFFICES ASSUME Init PROVE HeldInv
  OBVIOUS
<1>1. Shapes /\ Fresh
  BY InitShapes DEF Init
<1>2. /\ PinsCounted /\ HeldAreKept /\ AddedOnce
      /\ \A c \in Callers : snapshot[c] = << >>
      /\ memory["templates"] = << >>
  BY <1>1, FreshHolds DEF NothingKnown
<1>3. \A c \in Callers : Len(snapshot[c]) = 0
  BY <1>2
<1>4. OldLists
  BY <1>2, <1>3 DEF Init, OldLists, Old, Configuration
<1> QED
  BY <1>1, <1>2, <1>4 DEF HeldInv, DownIsEmpty

(* Every step keeps it, by the lemmas on its kinds.                        *)
LEMMA NextKeepsHeld == HeldInv /\ [Next]_vars => HeldInv'
<1> SUFFICES ASSUME HeldInv, [Next]_vars PROVE HeldInv'
  OBVIOUS
<1>1. CASE UNCHANGED vars
  <2>1. Shapes'
    BY <1>1, NextKeepsShapes DEF HeldInv
  <2>2. /\ UNCHANGED <<memory, pins, freed, disk, status, changes, doing, todo, snapshot>>
        /\ UNCHANGED <<own, src, leaked>>
    BY <1>1 DEF vars, lists, calls, users
  <2>3. AddedOnce'
    <3>1. Known' = Known
      BY <2>2 DEF Known, Templates
    <3> QED
      BY <2>2, <3>1, NothingAdded DEF HeldInv
  <2>4. OldLists' /\ DownIsEmpty' /\ PinsCounted' /\ HeldAreKept'
    BY <2>2 DEF HeldInv, OldLists, Configuration, DownIsEmpty, Fresh, PinsCounted, Holds,
                HeldAreKept, Templates
  <2> QED
    BY <2>1, <2>3, <2>4 DEF HeldInv
<1> QED
  BY <1>1, EditKeepsHeld, StoreKeepsHeld, ChangeKeepsHeld, UserKeepsHeld, ProgramKeepsHeld
     DEF Next, CallerStep

(* So it holds in every state.                                             *)
LEMMA HeldInvHolds == Spec => []HeldInv
BY InitHeld, NextKeepsHeld, PTL DEF Spec

(* A template outlives its removal as long as a source, a relay or a       *)
(* request has it; and its count is that of those who have it, unless a    *)
(* relay has forgotten it (TemplRelease, TemplRemoveAll, relays.c 368).    *)
THEOREM HeldTemplatesLive == Spec => []HeldTemplates
<1>1. HeldInv => HeldTemplates
  BY DEF HeldInv, HeldAreKept, PinsCounted, HeldTemplates
<1> QED
  BY <1>1, HeldInvHolds, PTL

(* The variables have their types; above all no pin is given back that was *)
(* not taken.                                                              *)
THEOREM ConfigurationTyped == Spec => []TypeOK
<1>1. HeldInv => TypeOK
  <2> SUFFICES ASSUME HeldInv PROVE TypeOK
    OBVIOUS
  <2>1. Shapes
    BY DEF HeldInv
  <2>2. pins \in [Items -> Nat]
    <3>1. pins \in [Items -> Int]
      BY <2>1 DEF Shapes, ListShapes
    <3>2. ASSUME NEW i \in Items PROVE pins[i] \in Nat
      <4>1. Holds(i) = Count(own, i) + Count(src, i) /\ Count(own, i) \in Nat /\ Count(src, i) \in Nat
        BY HoldsCounts, Counted
      <4>2. pins[i] >= Holds(i) \/ pins[i] = Holds(i)
        BY DEF HeldInv, PinsCounted
      <4> QED
        BY <3>1, <4>1, <4>2
    <3> QED
      BY <3>1, <3>2
  <2>3. changes \in 0..MaxChanges
    BY <2>1, ConfigurationAssumption DEF Shapes, CountShapes
  <2> QED
    BY <2>1, <2>2, <2>3, AConfig DEF Shapes, ListShapes, CountShapes, CallShapes, UserShapes,
       FileShapes, Storing, TypeOK
<1> QED
  BY <1>1, HeldInvHolds, PTL

----------------------------------------------------------------------------
(* The lists of templates that decide *)

(* The lists of templates that were given, and the beginnings of one.      *)
Complete == {Whole(n) : n \in 0..MaxChanges}

Begun(L, W) == Len(L) <= Len(W) /\ \A j \in 1..Len(L) : L[j] = W[j]

(* What is to be done makes W of L, and leaves it; or it begins with       *)
(* making the list empty.                                                  *)
Filling(L, q, W) ==
  /\ Begun(L, W) /\ Len(q) >= Len(W) - Len(L)
  /\ \A j \in 1..Len(q) : IF j <= Len(W) - Len(L) THEN q[j] = Add("templates", W[Len(L) + j])
                                                ELSE q[j].section # "templates"

Clearing(q, W) == q # << >> /\ q[1] = Clear("templates") /\ Filling(<< >>, Tail(q), W)

(* One caller at a time changes or stores the configuration.               *)
Alone == \A c, d \in Callers : Busy(c) /\ Busy(d) => c = d

ListBegun == \E W \in Complete : Begun(memory["templates"], W)

ToDo(c) ==
  /\ \E W \in Complete : Filling(memory["templates"], todo[c], W) \/ Clearing(todo[c], W)
  /\ doing[c] \in Storing => todo[c] = << >>

FilesComplete ==
  /\ \A c \in Callers : Len(snapshot[c]) > 0 => snapshot[c][1] \in Complete
  /\ \A f \in Files : Configuration(f) => disk[f]["templates"] \in Complete

Unmixed ==
  /\ Alone /\ FilesComplete
  /\ \A c \in Callers : Busy(c) => ToDo(c)
  /\ Running => ListBegun
  /\ Quiet /\ Running => memory["templates"] \in Complete

DecideInv == HeldInv /\ ("overlap" \notin excuses => Unmixed)

(* A whole list is a list of items, all of its own change.                 *)
LEMMA Wholes ==
  /\ Complete \subseteq Seq(Items)
  /\ \A n \in 0..MaxChanges : \A k \in 1..Len(Whole(n)) : Whole(n)[k][1] = n
<1> SUFFICES ASSUME NEW n \in 0..MaxChanges
             PROVE  Whole(n) \in Seq(Items) /\ \A k \in 1..Len(Whole(n)) : Whole(n)[k][1] = n
  BY DEF Complete
<1>1. CASE n = 0
  <2>1. Whole(n) = <<<<0, 2>>>>
    BY <1>1 DEF Whole
  <2> QED
    BY <1>1, <2>1 DEF Items
<1>2. CASE n # 0
  <2>1. Whole(n) = <<<<n, 1>>, <<n, 2>>>>
    BY <1>2 DEF Whole
  <2>2. \A k \in 1..2 : k = 1 \/ k = 2
    OBVIOUS
  <2> QED
    BY <1>2, <2>1, <2>2 DEF Items
<1> QED
  BY <1>1, <1>2

(* Nothing is left to be done: the list is there.                          *)
LEMMA Filled ==
  ASSUME NEW L \in Seq(Items), NEW W \in Seq(Items), Filling(L, << >>, W)
  PROVE  L = W
BY DEF Filling, Begun

(* The next thing is done.                                                 *)
LEMMA FillingOn ==
  ASSUME NEW L \in Seq(Items), NEW W \in Seq(Items), NEW q \in Seq(Edits), q # << >>,
         Filling(L, q, W)
  PROVE  \/ /\ Len(L) < Len(W) /\ q[1] = Add("templates", W[Len(L) + 1])
            /\ Filling(Append(L, W[Len(L) + 1]), Tail(q), W)
         \/ /\ L = W /\ q[1].section # "templates"
            /\ Filling(L, Tail(q), W)
<1> DEFINE t == Tail(q)
<1>1. /\ Len(q) \in Nat \ {0} /\ Len(t) = Len(q) - 1
      /\ \A j \in 1..Len(t) : t[j] = q[j + 1] /\ j + 1 \in 1..Len(q)
  OBVIOUS
<1>2. Len(L) \in Nat /\ Len(W) \in Nat /\ Len(L) <= Len(W) /\ \A j \in 1..Len(L) : L[j] = W[j]
  BY DEF Filling, Begun
<1> HIDE DEF t
<1>3. CASE Len(L) < Len(W)
  <2> DEFINE A == Append(L, W[Len(L) + 1])
  <2>1. q[1] = Add("templates", W[Len(L) + 1])
    BY <1>1, <1>2, <1>3 DEF Filling
  <2>2. W[Len(L) + 1] \in Items
    BY <1>2, <1>3
  <2>3. Len(A) = Len(L) + 1 /\ A[Len(L) + 1] = W[Len(L) + 1] /\ \A j \in 1..Len(L) : A[j] = L[j]
    BY <2>2, AppendProperties
  <2> HIDE DEF A
  <2>4. Begun(A, W)
    BY <1>2, <1>3, <2>3 DEF Begun
  <2>5. Len(t) >= Len(W) - Len(A)
    BY <1>1, <1>2, <2>3 DEF Filling
  <2>6. ASSUME NEW j \in 1..Len(t)
        PROVE  IF j <= Len(W) - Len(A) THEN t[j] = Add("templates", W[Len(A) + j])
                                       ELSE t[j].section # "templates"
    <3>1. IF j + 1 <= Len(W) - Len(L) THEN q[j + 1] = Add("templates", W[Len(L) + (j + 1)])
                                       ELSE q[j + 1].section # "templates"
      BY <1>1 DEF Filling
    <3>2. Len(L) + (j + 1) = Len(A) + j
      BY <1>2, <2>3
    <3> QED
      BY <1>1, <1>2, <2>3, <3>1, <3>2
  <2>7. Filling(A, t, W)
    BY <2>4, <2>5, <2>6 DEF Filling
  <2> QED
    BY <1>3, <2>1, <2>7 DEF A, t
<1>4. CASE Len(L) = Len(W)
  <2>1. L = W
    BY <1>2, <1>4
  <2>2. q[1].section # "templates"
    BY <1>1, <1>2, <1>4 DEF Filling
  <2>3. ASSUME NEW j \in 1..Len(t)
        PROVE  IF j <= Len(W) - Len(L) THEN t[j] = Add("templates", W[Len(L) + j])
                                       ELSE t[j].section # "templates"
    BY <1>1, <1>2, <1>4, <2>3 DEF Filling
  <2>4. Filling(L, t, W)
    BY <1>1, <1>2, <1>4, <2>3 DEF Filling
  <2> QED
    BY <2>1, <2>2, <2>4 DEF t
<1> QED
  BY <1>2, <1>3, <1>4

(* What stands where in two sequences put together.                        *)
LEMMA Joined ==
  ASSUME NEW S, NEW r \in Seq(S), NEW p \in Seq(S)
  PROVE  /\ r \o p \in Seq(S) /\ Len(r \o p) = Len(r) + Len(p)
         /\ \A k \in 1..Len(r \o p) : (r \o p)[k] = IF k <= Len(r) THEN r[k] ELSE p[k - Len(r)]
OBVIOUS

(* What stands where in the rest of a sequence.                            *)
LEMMA RestOf ==
  ASSUME NEW S, NEW q \in Seq(S), Len(q) # 0
  PROVE  /\ q # << >> /\ Len(Tail(q)) = Len(q) - 1
         /\ \A j \in 1..Len(Tail(q)) : Tail(q)[j] = q[j + 1] /\ j + 1 \in 1..Len(q)
OBVIOUS

(* What replaces the templates, and what follows it.                       *)
LEMMA ReplacingClears ==
  ASSUME NEW W \in Seq(Items), NEW p \in Seq(Edits),
         \A j \in 1..Len(p) : p[j].section # "templates"
  PROVE  Clearing(Replace("templates", W) \o p, W)
<1> DEFINE r == Replace("templates", W)
           q == r \o p
           t == Tail(q)
<1>1. /\ r \in Seq(Edits) /\ Len(r) = Len(W) + 1 /\ Len(W) \in Nat /\ r[1] = Clear("templates")
      /\ \A j \in 1..Len(W) : r[j + 1] = Add("templates", W[j])
  BY Replacing DEF Names
<1> HIDE DEF r
<1>2. /\ q \in Seq(Edits) /\ Len(q) = Len(W) + 1 + Len(p) /\ Len(p) \in Nat
      /\ \A k \in 1..Len(q) : q[k] = IF k <= Len(W) + 1 THEN r[k] ELSE p[k - (Len(W) + 1)]
  <2>1. /\ q \in Seq(Edits) /\ Len(q) = Len(r) + Len(p)
        /\ \A k \in 1..Len(q) : q[k] = IF k <= Len(r) THEN r[k] ELSE p[k - Len(r)]
    BY <1>1, Joined
  <2>2. Len(p) \in Nat
    OBVIOUS
  <2> QED
    BY <1>1, <2>1, <2>2
<1> HIDE DEF q
<1>3. q # << >> /\ Len(t) = Len(q) - 1 /\ \A j \in 1..Len(t) : t[j] = q[j + 1] /\ j + 1 \in 1..Len(q)
  <2>1. Len(q) # 0
    BY <1>1, <1>2
  <2> QED
    BY <1>2, <2>1, RestOf
<1>4. q[1] = Clear("templates")
  BY <1>1, <1>2
<1> HIDE DEF t
<1>5. ASSUME NEW j \in 1..Len(t)
      PROVE  IF j <= Len(W) - Len(<< >>) THEN t[j] = Add("templates", W[Len(<< >>) + j])
                                         ELSE t[j].section # "templates"
  <2>1. CASE j <= Len(W)
    BY <1>1, <1>2, <1>3, <2>1
  <2>2. CASE j > Len(W)
    <3>1. t[j] = p[j - Len(W)] /\ j - Len(W) \in 1..Len(p)
      BY <1>1, <1>2, <1>3, <2>2
    <3> QED
      BY <1>1, <2>2, <3>1
  <2> QED
    BY <1>1, <2>1, <2>2
<1>6. Filling(<< >>, t, W)
  BY <1>1, <1>2, <1>3, <1>5 DEF Filling, Begun
<1> QED
  BY <1>3, <1>4, <1>6 DEF Clearing, q, r, t

(* What replaces the templates clears them first and then adds the list in *)
(* its order.                                                              *)
LEMMA ReplacingOnlyClears ==
  ASSUME NEW W \in Seq(Items)
  PROVE  Replace("templates", W) \in Seq(Edits) /\ Clearing(Replace("templates", W), W)
<1> DEFINE r == Replace("templates", W)
           p == << >>
<1>1. r \in Seq(Edits) /\ p \in Seq(Edits) /\ r \o p = r
  <2>1. r \in Seq(Edits)
    BY Replacing DEF Names
  <2> HIDE DEF r
  <2> QED
    BY <2>1
<1>2. \A j \in 1..Len(p) : p[j].section # "templates"
  OBVIOUS
<1>3. Clearing(Replace("templates", W) \o p, W)
  <2> HIDE DEF p
  <2> QED
    BY <1>1, <1>2, ReplacingClears
<1> QED
  BY <1>1, <1>3

(* A caller that has nothing more to do has made a list that was given.    *)
LEMMA NothingToDo ==
  ASSUME Shapes, NEW c \in Callers, ToDo(c), todo[c] = << >>
  PROVE  memory["templates"] \in Complete
<1>1. memory["templates"] \in Seq(Items)
  BY DEF Shapes, ListShapes, Configs, Names
<1>2. PICK W \in Complete : Filling(memory["templates"], << >>, W)
  BY DEF ToDo, Clearing
<1> QED
  BY <1>1, <1>2, Wholes, Filled

(* What users do does not concern the lists.                               *)
LEMMA UserKeepsUnmixed ==
  ASSUME Unmixed, NEW u \in Users, UserStep(u)
  PROVE  Unmixed'
<1>1. UNCHANGED <<memory, disk, status, doing, todo, snapshot>>
  BY DEF UserStep, Query, Create, Release, EndSource, TemplRelease, calls
<1> QED
  BY <1>1 DEF Unmixed, Alone, FilesComplete, Configuration, ToDo, ListBegun, Running, Quiet, Busy

(* A caller that is alone goes on: only it has anything to do.             *)
LEMMA OneGoesOn ==
  ASSUME Alone, NEW c \in Callers, Busy(c), \A d \in Callers : d # c => doing'[d] = doing[d]
  PROVE  /\ Alone' /\ \A d \in Callers : Busy(d)' => d = c
         /\ Quiet' <=> ~Busy(c)'
BY DEF Alone, Busy, Quiet

(* An edit leaves the templates a beginning of the one list that is being  *)
(* given.                                                                  *)
LEMMA EditKeepsUnmixed ==
  ASSUME HeldInv, Unmixed, NEW c \in Callers, Edit(c)
  PROVE  Unmixed'
<1> DEFINE e == Head(todo[c])
<1>1. /\ e = todo[c][1] /\ 1 \in 1..Len(todo[c]) /\ e \in Edits
      /\ todo' = [todo EXCEPT ![c] = Tail(@)]
      /\ \/ e = Clear("templates") /\ memory'["templates"] = << >>
         \/ /\ e.op = "add" /\ e.section = "templates" /\ e.item \in Items
            /\ memory'["templates"] = Append(memory["templates"], e.item)
         \/ e.section = "relays" /\ memory'["templates"] = memory["templates"]
  BY EditOfTemplates DEF HeldInv
<1> HIDE DEF e
<1>2. /\ UNCHANGED <<disk, status, doing, snapshot>>
      /\ doing[c] \in {"editing", "loading"} /\ todo[c] # << >>
  BY DEF Edit, users
<1>3. /\ memory["templates"] \in Seq(Items)
      /\ todo[c] \in Seq(Edits) /\ todo \in [Callers -> Seq(Edits)]
  BY DEF HeldInv, Shapes, ListShapes, CallShapes, Configs, Names
<1>4. Busy(c) /\ doing[c] \notin Storing
  BY <1>2 DEF Busy, Storing
<1>5. Alone' /\ (\A d \in Callers : Busy(d)' => d = c) /\ ~Quiet'
  BY <1>2, <1>4, OneGoesOn DEF Unmixed, Busy
<1>6. PICK W \in Complete : Filling(memory["templates"], todo[c], W) \/ Clearing(todo[c], W)
  BY <1>4 DEF Unmixed, ToDo
<1>7. W \in Seq(Items) /\ todo'[c] = Tail(todo[c])
  BY <1>1, <1>3, <1>6, Wholes
<1>8. Filling(memory'["templates"], todo'[c], W)
  <2>1. CASE Filling(memory["templates"], todo[c], W)
    <3>1. CASE /\ Len(memory["templates"]) < Len(W)
               /\ e = Add("templates", W[Len(memory["templates"]) + 1])
               /\ Filling(Append(memory["templates"], W[Len(memory["templates"]) + 1]), Tail(todo[c]), W)
      <4>1. e.op = "add" /\ e.section = "templates" /\ e.item = W[Len(memory["templates"]) + 1]
        BY <3>1 DEF Add
      <4>2. memory'["templates"] = Append(memory["templates"], e.item)
        BY <1>1, <4>1 DEF Clear
      <4> QED
        BY <1>7, <3>1, <4>1, <4>2
    <3>2. CASE e.section # "templates" /\ Filling(memory["templates"], Tail(todo[c]), W)
      <4>1. memory'["templates"] = memory["templates"]
        BY <1>1, <3>2 DEF Clear
      <4> QED
        BY <1>7, <3>2, <4>1
    <3> QED
      BY <1>1, <1>2, <1>3, <1>7, <2>1, <3>1, <3>2, FillingOn
  <2>2. CASE Clearing(todo[c], W)
    <3>1. e = Clear("templates") /\ Filling(<< >>, Tail(todo[c]), W)
      BY <1>1, <2>2 DEF Clearing
    <3>2. memory'["templates"] = << >>
      BY <1>1, <3>1 DEF Clear
    <3> QED
      BY <1>7, <3>1, <3>2
  <2> QED
    BY <1>6, <2>1, <2>2
<1>9. ToDo(c)' /\ ListBegun'
  BY <1>2, <1>4, <1>6, <1>8 DEF ToDo, ListBegun, Filling
<1>10. FilesComplete'
  BY <1>2 DEF Unmixed, FilesComplete, Configuration
<1> QED
  BY <1>5, <1>9, <1>10 DEF Unmixed

(* A store puts a complete list on the disk.                               *)
LEMMA StoreKeepsUnmixed ==
  ASSUME HeldInv, Unmixed, NEW c \in Callers,
         Store(c) \/ ReadSection(c) \/ OpenTemporary(c) \/ WriteTemporary(c)
           \/ WriteFails(c) \/ UnlinkBackup(c) \/ Backup(c) \/ BackupFails(c)
           \/ Replaced(c) \/ ReplaceFails(c)
  PROVE  Unmixed'
<1>0. Shapes /\ doing \in [Callers -> {"idle", "editing", "loading"} \cup Storing]
      /\ disk \in [Files -> Configs \cup {Nothing, Torn}] /\ snapshot \in [Callers -> Seq(Seq(Items))]
  BY DEF HeldInv, Shapes, CallShapes, FileShapes
<1>1. /\ UNCHANGED <<memory, todo>>
      /\ doing[c] # "idle" /\ todo[c] = << >>
      /\ \E to \in {"idle"} \cup Storing : doing' = [doing EXCEPT ![c] = to]
  <2>1. UNCHANGED <<memory, todo>>
    BY DEF Store, ReadSection, OpenTemporary, WriteTemporary, WriteFails, UnlinkBackup, Backup,
           BackupFails, Replaced, ReplaceFails, lists, users, Finish
  <2>2. \/ doing[c] = "editing" /\ todo[c] = << >>
        \/ doing[c] \in Storing
    BY DEF Store, ReadSection, OpenTemporary, WriteTemporary, WriteFails, UnlinkBackup, Backup,
           BackupFails, Replaced, ReplaceFails, Storing
  <2>3. doing[c] # "idle" /\ todo[c] = << >>
    BY <2>2 DEF Unmixed, Busy, ToDo, Storing
  <2>4. \E to \in {"idle"} \cup Storing : doing' = [doing EXCEPT ![c] = to]
    <3>1. doing[c] = "reading" => doing = [doing EXCEPT ![c] = "reading"]
      BY <1>0
    <3>2. Storing = {"reading", "writing", "written", "unlinked", "renamed"}
      BY DEF Storing
    <3> QED
      BY <3>1, <3>2 DEF Store, ReadSection, OpenTemporary, WriteTemporary, WriteFails, UnlinkBackup,
           Backup, BackupFails, Replaced, ReplaceFails, Finish, Goto
  <2> QED
    BY <2>1, <2>3, <2>4
<1>2. Busy(c) /\ ToDo(c) /\ memory["templates"] \in Complete
  BY <1>0, <1>1, NothingToDo DEF Busy, Unmixed
<1>3. /\ Alone' /\ \A d \in Callers : Busy(d)' => d = c
  BY <1>0, <1>1, <1>2, OneGoesOn DEF Unmixed
<1>4. ToDo(c)'
  BY <1>1, <1>2 DEF ToDo
<1>5. ListBegun'
  <2>1. Begun(memory["templates"], memory["templates"])
    <3>1. memory["templates"] \in Seq(Items)
      BY <1>2, Wholes
    <3> QED
      BY <3>1 DEF Begun
  <2> QED
    BY <1>1, <1>2, <2>1 DEF ListBegun
<1>6. \A d \in Callers : Len(snapshot'[d]) > 0 => snapshot'[d][1] \in Complete
  <2>1. \A d \in Callers : Len(snapshot'[d]) > 0 =>
         \/ Len(snapshot[d]) > 0 /\ snapshot'[d][1] = snapshot[d][1]
         \/ snapshot'[d][1] = memory["templates"]
    BY <1>0, SnapshotsOfTemplates
  <2> QED
    BY <1>2, <2>1 DEF Unmixed, FilesComplete
<1>7. \A f \in Files : Configuration(f)' => disk'[f]["templates"] \in Complete
  <2>1. \A f \in Files :
         \/ disk'[f] \in {Nothing, Torn}
         \/ \E g \in Files : disk'[f] = disk[g]
         \/ \E d \in Callers : Len(snapshot[d]) > 0 /\ disk'[f]["templates"] = snapshot[d][1]
    BY <1>0, FilesOfTemplates
  <2> QED
    BY <2>1 DEF Unmixed, FilesComplete, Configuration
<1> QED
  BY <1>1, <1>2, <1>3, <1>4, <1>5, <1>6, <1>7 DEF Unmixed, FilesComplete

(* A change begins, unless another is under way, with complete lists.      *)
LEMMA ChangeKeepsUnmixed ==
  ASSUME HeldInv, Unmixed, NEW a \in Admins, Change(a), "overlap" \notin excuses'
  PROVE  Unmixed'
<1> DEFINE n == changes + 1
           L == <<<<n, 1>>, <<n, 2>>>>
           M == memory["templates"]
<1>1. /\ UNCHANGED <<memory, disk, status>>
      /\ Running /\ a \in Callers /\ changes' = n /\ left.changes > 0
  BY DEF Change, lists, Callers
<1>2. Quiet /\ M \in Complete
  <2>1. Quiet
    BY DEF Change, Quiet
  <2> QED
    BY <1>1, <2>1 DEF Unmixed
<1>3. n \in 1..MaxChanges
  BY <1>1, ConfigurationAssumption DEF HeldInv, Shapes, CountShapes
<1>4. L \in Complete /\ L \in Seq(Items) /\ <<n, 1>> \in Items
  <2>1. L = Whole(n) /\ n \in 0..MaxChanges
    BY <1>3 DEF Whole
  <2> QED
    BY <2>1, Wholes DEF Complete, Items
<1>5. M \in Seq(Items) /\ Len(M) \in Nat
  BY <1>2, Wholes
<1> DEFINE Given(q) == \E W \in Complete : Filling(M, q, W) \/ Clearing(q, W)
<1>6. ASSUME NEW q \in Seq(Edits), \A j \in 1..Len(q) : q[j].section # "templates"
      PROVE  Given(q)
  <2>1. Begun(M, M)
    BY <1>5 DEF Begun
  <2>2. Filling(M, q, M)
    BY <1>5, <1>6, <2>1 DEF Filling
  <2> QED
    BY <1>2, <2>2
<1>7. \E q \in Seq(Edits) : Begin(a, q) /\ Given(q)
  <2>1. CASE Begin(a, Replace("templates", L))
    <3> DEFINE r == Replace("templates", L)
    <3> HIDE DEF L
    <3>1. r \in Seq(Edits) /\ Clearing(r, L)
      BY <1>4, ReplacingOnlyClears
    <3> HIDE DEF r
    <3> QED
      BY <1>4, <2>1, <3>1 DEF r
  <2>2. CASE Begin(a, Replace("relays", L))
    <3> DEFINE r == Replace("relays", L)
    <3> HIDE DEF L, Given
    <3>1. /\ r \in Seq(Edits) /\ Len(r) = Len(L) + 1 /\ r[1] = Clear("relays") /\ Len(L) \in Nat
          /\ \A k \in 1..Len(L) : r[k + 1] = Add("relays", L[k])
      BY <1>4, Replacing DEF Names
    <3> HIDE DEF r
    <3>2. ASSUME NEW j \in 1..Len(r) PROVE r[j].section # "templates"
      <4>1. CASE j = 1
        BY <3>1, <4>1 DEF Clear
      <4>2. CASE j # 1
        <5>1. j - 1 \in 1..Len(L) /\ (j - 1) + 1 = j
          BY <3>1, <4>2
        <5>2. r[j] = Add("relays", L[j - 1])
          BY <3>1, <5>1
        <5> QED
          BY <5>2 DEF Add
      <4> QED
        BY <4>1, <4>2
    <3> QED
      BY <1>6, <2>2, <3>1, <3>2 DEF r
  <2>3. ASSUME NEW e \in Edits, Begin(a, <<e>>), e.section # "templates"
        PROVE  \E q \in Seq(Edits) : Begin(a, q) /\ Given(q)
    <3>1. <<e>> \in Seq(Edits) /\ \A j \in 1..Len(<<e>>) : <<e>>[j].section # "templates"
      BY <2>3
    <3> HIDE DEF Given
    <3> QED
      BY <1>6, <2>3, <3>1
  <2>4. CASE Begin(a, <<Add("relays", <<n, 1>>)>>)
    <3>1. Add("relays", <<n, 1>>) \in Edits
      BY <1>4 DEF Edits, Names
    <3>2. Add("relays", <<n, 1>>).section # "templates"
      BY DEF Add
    <3> QED
      BY <2>3, <2>4, <3>1, <3>2
  <2>5. CASE \E i \in Range(memory["relays"]) : Begin(a, <<Del("relays", i)>>)
    <3>1. Range(memory["relays"]) \subseteq Items
      BY RangeOfSeq DEF HeldInv, Shapes, ListShapes, Configs, Names
    <3>2. PICK i \in Items : Begin(a, <<Del("relays", i)>>)
      BY <2>5, <3>1
    <3>3. Del("relays", i) \in Edits
      BY DEF Edits
    <3>4. Del("relays", i).section # "templates"
      BY DEF Del
    <3> QED
      BY <2>3, <3>2, <3>3, <3>4
  <2>6. CASE \E s \in Range(Sections) : Begin(a, Replace(s, L))
    <3>1. Begin(a, Replace("templates", L)) \/ Begin(a, Replace("relays", L))
      BY <2>6, SectionNames DEF Names
    <3> QED
      BY <2>1, <2>2, <3>1
  <2> QED
    BY <2>4, <2>5, <2>6 DEF Change
<1>8. PICK q \in Seq(Edits) : Begin(a, q) /\ Given(q)
  BY <1>7
<1>9. /\ doing' = [doing EXCEPT ![a] = "editing"] /\ todo' = [todo EXCEPT ![a] = q]
      /\ snapshot' = [snapshot EXCEPT ![a] = << >>]
      /\ doing \in [Callers -> {"idle", "editing", "loading"} \cup Storing]
      /\ todo \in [Callers -> Seq(Edits)] /\ snapshot \in [Callers -> Seq(Seq(Items))]
  BY <1>8 DEF Begin, HeldInv, Shapes, CallShapes
<1>10. Busy(a)' /\ \A d \in Callers : Busy(d)' => d = a
  BY <1>1, <1>2, <1>9 DEF Quiet, Busy
<1>11. ToDo(a)'
  BY <1>1, <1>8, <1>9 DEF ToDo, Storing
<1>12. FilesComplete'
  <2>1. \A d \in Callers : snapshot'[d] = IF d = a THEN << >> ELSE snapshot[d]
    BY <1>9
  <2>2. \A d \in Callers : Len(snapshot'[d]) > 0 => Len(snapshot[d]) > 0 /\ snapshot'[d] = snapshot[d]
    BY <2>1
  <2> QED
    BY <1>1, <2>2 DEF Unmixed, FilesComplete, Configuration
<1> QED
  BY <1>1, <1>10, <1>11, <1>12 DEF Unmixed, Alone, ListBegun, Running, Quiet

(* A restart begins with a complete list from the disk.                    *)
LEMMA ProgramKeepsUnmixed ==
  ASSUME HeldInv, Unmixed, Start \/ Loaded \/ Stop \/ Exit \/ Crash
  PROVE  Unmixed'
<1>0. /\ Shapes /\ Main \in Callers /\ memory \in [Names -> Seq(Items)]
      /\ doing \in [Callers -> {"idle", "editing", "loading"} \cup Storing]
      /\ todo \in [Callers -> Seq(Edits)] /\ snapshot \in [Callers -> Seq(Seq(Items))]
  BY DEF HeldInv, Shapes, ListShapes, CallShapes, Callers, Configs
<1>1. CASE Stop
  BY <1>0, <1>1 DEF Stop, calls, Unmixed, Alone, FilesComplete, Configuration, ToDo, ListBegun, Running, Quiet, Busy,
     Names
<1>2. CASE Gone
  <2>1. (\A c \in Callers : ~Busy(c) /\ Len(snapshot[c]) = 0)' /\ ~Running' /\ disk' = disk
    BY <1>2 DEF Gone, Busy, Running
  <2> QED
    BY <2>1 DEF Unmixed, Alone, FilesComplete, Configuration
<1>3. CASE Loaded
  <2>1. /\ UNCHANGED <<memory, disk, todo>> /\ doing[Main] = "loading" /\ todo[Main] = << >>
        /\ doing' = [doing EXCEPT ![Main] = "idle"] /\ snapshot' = [snapshot EXCEPT ![Main] = << >>]
    BY <1>3 DEF Loaded, Finish, Goto, lists
  <2>2. Busy(Main) /\ ToDo(Main) /\ memory["templates"] \in Complete
    BY <1>0, <2>1, NothingToDo DEF Busy, Unmixed
  <2>3. Alone' /\ \A d \in Callers : ~Busy(d)'
    BY <1>0, <2>1, <2>2, OneGoesOn DEF Unmixed, Busy
  <2>4. ListBegun'
    <3>1. Begun(memory["templates"], memory["templates"])
      <4>1. memory["templates"] \in Seq(Items)
        BY <2>2, Wholes
      <4> QED
        BY <4>1 DEF Begun
    <3> QED
      BY <2>1, <2>2, <3>1 DEF ListBegun
  <2>5. FilesComplete'
    <3>1. \A d \in Callers : snapshot'[d] = IF d = Main THEN << >> ELSE snapshot[d]
      BY <1>0, <2>1
    <3>2. \A d \in Callers : Len(snapshot'[d]) > 0 => Len(snapshot[d]) > 0 /\ snapshot'[d] = snapshot[d]
      BY <3>1
    <3> QED
      BY <2>1, <3>2 DEF Unmixed, FilesComplete, Configuration
  <2> QED
    BY <2>1, <2>2, <2>3, <2>4, <2>5 DEF Unmixed
<1>4. CASE Start
  <2>1. /\ UNCHANGED <<memory, disk>> /\ status = "down" /\ status' = "loading"
    BY <1>4 DEF Start, lists
  <2>2. Fresh
    BY <2>1 DEF HeldInv, DownIsEmpty
  <2>3. (\A c \in Callers : ~Busy(c) /\ snapshot[c] = << >>) /\ memory["templates"] = << >>
    <3>1. NothingKnown
      BY <1>0, <2>2, FreshHolds
    <3> QED
      BY <2>2, <3>1 DEF NothingKnown, Fresh, Busy
  <2>4. /\ \E to \in {"editing", "loading"} : doing' = [doing EXCEPT ![Main] = to]
        /\ snapshot' = snapshot \/ snapshot' = [snapshot EXCEPT ![Main] = << >>]
    BY <1>4 DEF Start, Begin
  <2>5. \E q \in Seq(Edits) : \E W \in Complete : todo' = [todo EXCEPT ![Main] = q] /\ Clearing(q, W)
    <3>1. CASE disk["config"] \in {Nothing, Torn}
      <4> DEFINE W == <<<<0, 2>>>>
                 r == Replace("templates", W)
      <4>1. W \in Complete
        BY ConfigurationAssumption DEF Complete, Whole
      <4>2. todo' = [todo EXCEPT ![Main] = r]
        BY <1>4, <3>1 DEF Start, Begin
      <4> HIDE DEF W
      <4>3. r \in Seq(Edits) /\ Clearing(r, W)
        BY <4>1, Wholes, ReplacingOnlyClears
      <4> HIDE DEF r
      <4> QED
        BY <4>1, <4>2, <4>3
    <3>2. CASE disk["config"] \notin {Nothing, Torn}
      <4> DEFINE F == disk["config"]
                 W == F["templates"]
                 R == F["relays"]
                 r == Replace("templates", W)
                 p == Replace("relays", R)
      <4>1. F \in Configs /\ Configuration("config") /\ "config" \in Files
        BY <3>2 DEF HeldInv, Shapes, FileShapes, Configuration, Files
      <4>2. W \in Seq(Items) /\ R \in Seq(Items) /\ W \in Complete
        BY <4>1 DEF Configs, Names, Unmixed, FilesComplete
      <4>3. todo' = [todo EXCEPT ![Main] = r \o p]
        BY <1>4, <3>2 DEF Start
      <4> HIDE DEF F, W, R
      <4>4. r \in Seq(Edits) /\ p \in Seq(Edits)
        BY <4>2, Replacing DEF Names
      <4>5. /\ Len(p) = Len(R) + 1 /\ p[1] = Clear("relays") /\ Len(R) \in Nat
            /\ \A k \in 1..Len(R) : p[k + 1] = Add("relays", R[k])
        BY <4>2, Replacing DEF Names
      <4> HIDE DEF p
      <4>6. ASSUME NEW j \in 1..Len(p) PROVE p[j].section # "templates"
        <5>1. CASE j = 1
          BY <4>5, <5>1 DEF Clear
        <5>2. CASE j # 1
          <6>1. j - 1 \in 1..Len(R) /\ (j - 1) + 1 = j
            BY <4>5, <5>2
          <6>2. p[j] = Add("relays", R[j - 1])
            BY <4>5, <6>1
          <6> QED
            BY <6>2 DEF Add
        <5> QED
          BY <5>1, <5>2
      <4>7. Clearing(r \o p, W)
        BY <4>2, <4>4, <4>6, ReplacingClears
      <4>8. r \o p \in Seq(Edits)
        BY <4>4, Joined
      <4> QED
        BY <4>2, <4>3, <4>7, <4>8
    <3> QED
      BY <3>1, <3>2
  <2>6. Busy(Main)' /\ \A d \in Callers : Busy(d)' => d = Main
    BY <1>0, <2>3, <2>4 DEF Busy
  <2>7. ToDo(Main)'
    BY <1>0, <2>4, <2>5 DEF ToDo, Storing
  <2>8. FilesComplete'
    <3>1. \A d \in Callers : snapshot'[d] = << >>
      BY <1>0, <2>3, <2>4
    <3>2. \A d \in Callers : Len(snapshot'[d]) = 0
      BY <3>1
    <3> QED
      BY <2>1, <3>2 DEF Unmixed, FilesComplete, Configuration
  <2>9. ListBegun'
    <3>1. Whole(0) \in Complete /\ Whole(0) \in Seq(Items)
      BY ConfigurationAssumption, Wholes DEF Complete
    <3>2. Begun(<< >>, Whole(0))
      BY <3>1 DEF Begun
    <3> QED
      BY <2>1, <2>3, <3>1, <3>2 DEF ListBegun
  <2> QED
    BY <1>0, <2>6, <2>7, <2>8, <2>9 DEF Unmixed, Alone, Quiet
<1> QED
  BY <1>1, <1>2, <1>3, <1>4 DEF Exit, Crash

(* Every step keeps the templates unmixed as long as no two changes        *)
(* overlap.                                                                *)
LEMMA NextKeepsDecide == DecideInv /\ [Next]_vars => DecideInv'
<1> SUFFICES ASSUME DecideInv, [Next]_vars PROVE DecideInv'
  OBVIOUS
<1>1. HeldInv /\ HeldInv'
  BY NextKeepsHeld DEF DecideInv
<1>2. ASSUME "overlap" \notin excuses' PROVE "overlap" \notin excuses
  BY <1>2 DEF Next, CallerStep, UserStep, Edit, Store, ReadSection, OpenTemporary, WriteTemporary,
              WriteFails, UnlinkBackup, Backup, BackupFails, Replaced, ReplaceFails, Change, Query,
              Create, Release, EndSource,
              Start, Loaded, Stop, Exit, Crash, Gone, Note, vars
<1>3. CASE UNCHANGED vars
  BY <1>1, <1>3 DEF vars, lists, calls, DecideInv, Unmixed, Alone, FilesComplete, Configuration, ToDo, ListBegun,
     Running, Quiet, Busy
<1>4. CASE "overlap" \in excuses'
  BY <1>1, <1>4 DEF DecideInv
<1>5. CASE "overlap" \notin excuses' /\ Next
  <2>1. Unmixed
    BY <1>2, <1>5 DEF DecideInv
  <2>2. Unmixed'
    BY <1>1, <1>5, <2>1, EditKeepsUnmixed, StoreKeepsUnmixed, ChangeKeepsUnmixed, UserKeepsUnmixed,
       ProgramKeepsUnmixed DEF Next, CallerStep
  <2> QED
    BY <1>1, <2>2 DEF DecideInv
<1> QED
  BY <1>3, <1>4, <1>5

(* At first there is only the list of the first start.                     *)
LEMMA InitDecide == Init => DecideInv
<1> SUFFICES ASSUME Init PROVE DecideInv
  OBVIOUS
<1>1. HeldInv
  BY InitHeld
<1>2. \A c \in Callers : ~Busy(c) /\ Len(snapshot[c]) = 0
  BY DEF Init, Fresh, Busy
<1>3. Unmixed
  BY <1>2 DEF Init, Unmixed, Alone, FilesComplete, Configuration, Running
<1> QED
  BY <1>1, <1>3 DEF DecideInv

(* So the templates are unmixed in every such state.                       *)
LEMMA DecideInvHolds == Spec => []DecideInv
BY InitDecide, NextKeepsDecide, PTL DEF Spec

(* The beginning of a list decides as the whole list does, if it does.     *)
LEMMA BegunDecides ==
  ASSUME NEW L \in Seq(Items), NEW n \in 0..MaxChanges, Begun(L, Whole(n)), NEW m \in Mounts,
         Decision(L, m) # Nothing
  PROVE  Decision(L, m) = Decision(Whole(Decision(L, m)[1]), m)
<1> DEFINE W == Whole(n)
<1>1. W \in Seq(Items) /\ \A k \in 1..Len(W) : W[k][1] = n
  BY Wholes DEF Complete
<1>2. PICK k \in 1..Len(L) :
        /\ Decision(L, m) = L[k] /\ Matches(L[k], m)
        /\ \A j \in 1..(k - 1) : ~Matches(L[j], m)
  BY DecisionIsFirst
<1>3. Len(L) <= Len(W) /\ \A j \in 1..Len(L) : L[j] = W[j]
  BY DEF Begun
<1> HIDE DEF W
<1>4. k \in 1..Len(W) /\ L[k] = W[k] /\ \A j \in 1..(k - 1) : j \in 1..Len(W) /\ L[j] = W[j]
  <2>1. Len(L) \in Nat /\ Len(W) \in Nat
    BY <1>1
  <2> QED
    BY <1>3, <2>1
<1>5. Decision(W, m) = W[k]
  <2>1. \/ Decision(W, m) = Nothing /\ \A i \in 1..Len(W) : ~Matches(W[i], m)
        \/ \E i \in 1..Len(W) :
              /\ Decision(W, m) = W[i] /\ Matches(W[i], m)
              /\ \A j \in 1..(i - 1) : ~Matches(W[j], m)
    BY <1>1, DecisionIsFirst
  <2>2. PICK i \in 1..Len(W) :
              /\ Decision(W, m) = W[i] /\ Matches(W[i], m)
              /\ \A j \in 1..(i - 1) : ~Matches(W[j], m)
    BY <1>2, <1>4, <2>1
  <2>3. i = k
    BY <1>2, <1>4, <2>2
  <2> QED
    BY <2>2, <2>3
<1>6. Decision(L, m)[1] = n
  BY <1>1, <1>2, <1>4
<1> QED
  BY <1>2, <1>4, <1>5, <1>6 DEF W

(* A source is never admitted by a template that would not decide about it *)
(* in a configuration that was given, not even while the templates are     *)
(* replaced: they are put in one by one, in their order (TemplReady,       *)
(* _ApplyXMLNodeTemplates), and nobody else changes them meanwhile.        *)
THEOREM TemplatesDecide == Spec => []Decides
<1>1. DecideInv => Decides
  <2> SUFFICES ASSUME DecideInv, "overlap" \notin excuses, NEW m \in Mounts,
                      Decision(memory["templates"], m) # Nothing
               PROVE  Decision(memory["templates"], m) =
                        Decision(Whole(Decision(memory["templates"], m)[1]), m)
    BY DEF Decides
  <2>1. memory["templates"] \in Seq(Items) /\ Unmixed /\ Shapes
    BY DEF DecideInv, HeldInv, Shapes, ListShapes, Configs, Names
  <2>2. Running
    <3> SUFFICES ASSUME status = "down" PROVE FALSE
      BY DEF Running
    <3>1. memory["templates"] = << >>
      <4>1. NothingKnown
        BY <2>1, FreshHolds DEF DecideInv, HeldInv, DownIsEmpty
      <4> QED
        BY <4>1 DEF NothingKnown
    <3> QED
      <4> DEFINE L == memory["templates"]
      <4>1. L \in Seq(Items) /\ Len(L) = 0 /\ Decision(L, m) # Nothing
        BY <2>1, <3>1
      <4> HIDE DEF L
      <4>2. \E k \in 1..Len(L) : Decision(L, m) = L[k]
        BY <4>1, DecisionIsFirst
      <4> QED
        BY <4>1, <4>2
  <2>3. PICK n \in 0..MaxChanges : Begun(memory["templates"], Whole(n))
    BY <2>1, <2>2 DEF Unmixed, ListBegun, Complete
  <2> QED
    BY <2>1, <2>3, BegunDecides
<1> QED
  BY <1>1, DecideInvHolds, PTL

----------------------------------------------------------------------------
(* What is stored lasts *)

(* What loading the templates T and the relays R does, in its order.       *)
Order(T, R, k) ==
  IF k = 1 THEN Clear("templates")
  ELSE IF k <= Len(T) + 1 THEN Add("templates", T[k - 1])
  ELSE IF k = Len(T) + 2 THEN Clear("relays")
  ELSE Add("relays", R[k - Len(T) - 2])

Orders(T, R) == Len(T) + Len(R) + 2

(* The lists X and Y after d of the orders.                                *)
LoadedBy(X, Y, d, T, R) ==
  /\ d >= 1 => Begun(X, T) /\ Len(X) = IF d <= Len(T) + 1 THEN d - 1 ELSE Len(T)
  /\ d >= Len(T) + 2 => Begun(Y, R) /\ Len(Y) = d - Len(T) - 2

Loading(X, Y, q, T, R) ==
  /\ Len(q) <= Orders(T, R) /\ LoadedBy(X, Y, Orders(T, R) - Len(q), T, R)
  /\ \A j \in 1..Len(q) : q[j] = Order(T, R, Orders(T, R) - Len(q) + j)

Stored  == disk["config"] = wish
Between == ~Has("config") /\ disk["BAK"] = wish /\ disk["TMP"] = latest

(* Where caller c is with the file.                                        *)
Phase(c) ==
  /\ doing[c] # "renamed" => Stored
  /\ doing[c] \in {"editing", "loading"} => snapshot[c] = << >>
  /\ doing[c] \in Storing => latest = memory
  /\ doing[c] \in {"reading", "writing"} =>
        Len(snapshot[c]) <= 2 /\ \A k \in 1..Len(snapshot[c]) : snapshot[c][k] = memory[Sections[k]]
  /\ doing[c] \in {"written", "unlinked", "renamed"} => disk["TMP"] = latest
  /\ doing[c] = "unlinked" => disk["BAK"] = Nothing
  /\ doing[c] = "renamed" => disk["config"] = Nothing /\ disk["BAK"] = wish
  /\ doing[c] = "loading" => 
        /\ wish \in Configs
        /\ Loading(memory["templates"], memory["relays"], todo[c], wish["templates"], wish["relays"])

Lasting ==
  /\ Alone /\ (Stored \/ Between)
  /\ \A c \in Callers : Busy(c) => Phase(c)
  /\ Quiet /\ Running => Stored
  /\ Quiet /\ status = "up" /\ excuses = {} => memory = wish

DurableInv == HeldInv /\ (excuses \subseteq {"failed"} => Lasting)

(* A beginning of a list and its next item is a longer beginning.          *)
LEMMA BegunOn ==
  ASSUME NEW L \in Seq(Items), NEW W \in Seq(Items), Begun(L, W), Len(L) < Len(W)
  PROVE  /\ Begun(Append(L, W[Len(L) + 1]), W) /\ Len(Append(L, W[Len(L) + 1])) = Len(L) + 1
         /\ W[Len(L) + 1] \in Items
<1> DEFINE n == Len(L) + 1
           A == Append(L, W[n])
<1>1. Len(L) \in Nat /\ Len(W) \in Nat /\ W[n] \in Items /\ \A j \in 1..Len(L) : L[j] = W[j]
  BY DEF Begun
<1>2. Len(A) = n /\ A[n] = W[n] /\ \A j \in 1..Len(L) : A[j] = L[j]
  BY <1>1, AppendProperties
<1> HIDE DEF A
<1>3. \A j \in 1..n : j = n \/ j \in 1..Len(L)
  BY <1>1
<1>4. Begun(A, W)
  BY <1>1, <1>2, <1>3 DEF Begun
<1> QED
  BY <1>1, <1>2, <1>4 DEF A

(* Where the items of the relays stand in the edits of a start.            *)
LEMMA RelaysOrder ==
  ASSUME NEW T \in Seq(Items), NEW R \in Seq(Items), NEW k \in Nat, k >= Len(T) + 3
  PROVE  Order(T, R, k) = Add("relays", R[k - Len(T) - 2])
<1>1. Len(T) \in Nat
  OBVIOUS
<1>2. k # 1 /\ ~(k <= Len(T) + 1) /\ k # Len(T) + 2
  BY <1>1
<1> QED
  BY <1>2 DEF Order

(* The next order is obeyed.                                               *)
LEMMA LoadingOn ==
  ASSUME NEW X \in Seq(Items), NEW Y \in Seq(Items), NEW T \in Seq(Items), NEW R \in Seq(Items),
         NEW q \in Seq(Edits), q # << >>, Loading(X, Y, q, T, R),
         NEW V \in Seq(Items), NEW W \in Seq(Items),
         q[1].section = "relays" => V = X,
         q[1].section = "templates" => W = Y,
         q[1] = Clear("templates") => V = << >>,
         q[1] = Clear("relays") => W = << >>,
         q[1].op = "add" /\ q[1].section = "templates" => V = Append(X, q[1].item),
         q[1].op = "add" /\ q[1].section = "relays" => W = Append(Y, q[1].item)
  PROVE  Loading(V, W, Tail(q), T, R)
<1> DEFINE d == Orders(T, R) - Len(q)
           t == Tail(q)
<1>1. Len(T) \in Nat /\ Len(R) \in Nat /\ Orders(T, R) = Len(T) + Len(R) + 2
  BY DEF Orders
<1>2. /\ Len(q) \in Nat /\ Len(q) # 0 /\ Len(t) = Len(q) - 1
      /\ \A j \in 1..Len(t) : t[j] = q[j + 1] /\ j + 1 \in 1..Len(q)
  BY RestOf
<1>3. d \in Nat /\ d + Len(q) = Len(T) + Len(R) + 2 /\ Orders(T, R) - Len(t) = d + 1 /\ Len(t) <= Orders(T, R)
  BY <1>1, <1>2 DEF Loading
<1>4. q[1] = Order(T, R, d + 1) /\ \A j \in 1..Len(t) : t[j] = Order(T, R, d + 1 + j)
  <2>1. \A j \in 1..Len(q) : q[j] = Order(T, R, d + j)
    BY DEF Loading
  <2>2. \A j \in 1..Len(t) : d + (j + 1) = d + 1 + j
    BY <1>3
  <2> HIDE DEF d
  <2>3. \A j \in 1..Len(t) : t[j] = Order(T, R, d + (j + 1))
    BY <1>2, <2>1
  <2> QED
    BY <1>2, <2>1, <2>2, <2>3
<1>5. LoadedBy(X, Y, d, T, R)
  BY DEF Loading
<1> HIDE DEF t, d
<1>6. LoadedBy(V, W, d + 1, T, R)
  <2>1. CASE d = 0
    <3>1. q[1] = Clear("templates")
      BY <1>4, <2>1 DEF Order
    <3>2. V = << >>
      BY <3>1
    <3> QED
      BY <1>1, <2>1, <3>2 DEF LoadedBy, Begun
  <2>2. CASE d >= 1 /\ d <= Len(T)
    <3>1. q[1] = Add("templates", T[d])
      BY <1>1, <1>3, <1>4, <2>2 DEF Order
    <3>2. Begun(X, T) /\ Len(X) = d - 1
      BY <1>1, <1>3, <1>5, <2>2 DEF LoadedBy
    <3>3. V = Append(X, T[d]) /\ T[d] \in Items
      BY <1>1, <1>3, <2>2, <3>1 DEF Add
    <3>4. Begun(V, T) /\ Len(V) = d
      <4>1. Len(X) + 1 = d /\ Len(X) < Len(T)
        BY <1>1, <1>3, <2>2, <3>2
      <4> QED
        BY <3>2, <3>3, <4>1, BegunOn
    <3> QED
      BY <1>1, <1>3, <2>2, <3>4 DEF LoadedBy
  <2>3. CASE d = Len(T) + 1
    <3>1. q[1] = Clear("relays")
      BY <1>1, <1>4, <2>3 DEF Order
    <3>2. W = << >> /\ V = X
      BY <3>1 DEF Clear
    <3> QED
      BY <1>1, <1>5, <2>3, <3>2 DEF LoadedBy, Begun
  <2>4. CASE d >= Len(T) + 2
    <3> DEFINE b == d - Len(T) - 1
    <3>1. q[1] = Add("relays", R[b])
      <4> DEFINE k == d + 1
      <4>1. k \in Nat /\ k >= Len(T) + 3
        BY <1>1, <1>3, <2>4
      <4>2. q[1] = Order(T, R, k)
        BY <1>4
      <4>3. b = k - Len(T) - 2
        BY <1>1, <1>3
      <4> HIDE DEF k, b
      <4>4. Order(T, R, k) = Add("relays", R[k - Len(T) - 2])
        BY <4>1, RelaysOrder
      <4> QED
        BY <4>2, <4>3, <4>4
    <3>2. Begun(Y, R) /\ Len(Y) = b - 1
      BY <1>1, <1>3, <1>5, <2>4 DEF LoadedBy
    <3>3. b \in 1..Len(R)
      BY <1>1, <1>2, <1>3, <2>4
    <3> HIDE DEF b
    <3>4. W = Append(Y, R[b]) /\ R[b] \in Items /\ V = X
      BY <1>1, <3>1, <3>3 DEF Add
    <3>5. Begun(W, R) /\ Len(W) = b
      <4>1. Len(Y) + 1 = b /\ Len(Y) < Len(R)
        BY <1>1, <3>2, <3>3
      <4> QED
        BY <3>2, <3>4, <4>1, BegunOn
    <3> QED
      BY <1>1, <1>3, <1>5, <2>4, <3>4, <3>5 DEF LoadedBy, b
  <2>5. d = 0 \/ (d >= 1 /\ d <= Len(T)) \/ d = Len(T) + 1 \/ d >= Len(T) + 2
    BY <1>1, <1>3
  <2> QED
    BY <2>1, <2>2, <2>3, <2>4, <2>5
<1> QED
  BY <1>3, <1>4, <1>6 DEF Loading, t

(* All orders are obeyed.                                                  *)
LEMMA LoadedIsThere ==
  ASSUME NEW X \in Seq(Items), NEW Y \in Seq(Items), NEW T \in Seq(Items), NEW R \in Seq(Items),
         Loading(X, Y, << >>, T, R)
  PROVE  X = T /\ Y = R
<1>1. Len(T) \in Nat /\ Len(R) \in Nat /\ Orders(T, R) = Len(T) + Len(R) + 2
  BY DEF Orders
<1>2. Orders(T, R) - Len(<< >>) = Len(T) + Len(R) + 2
  BY <1>1
<1>3. LoadedBy(X, Y, Len(T) + Len(R) + 2, T, R)
  BY <1>2 DEF Loading
<1>4. Begun(X, T) /\ Len(X) = Len(T)
  BY <1>1, <1>3 DEF LoadedBy
<1>5. Begun(Y, R) /\ Len(Y) = Len(R)
  BY <1>1, <1>3 DEF LoadedBy
<1> QED
  BY <1>4, <1>5 DEF Begun

(* Start gives these orders (_LoadFile).                                   *)
LEMMA OrdersGiven ==
  ASSUME NEW X, NEW Y, NEW T \in Seq(Items), NEW R \in Seq(Items)
  PROVE  /\ Replace("templates", T) \o Replace("relays", R) \in Seq(Edits)
         /\ Loading(X, Y, Replace("templates", T) \o Replace("relays", R), T, R)
<1> DEFINE r == Replace("templates", T)
           p == Replace("relays", R)
           q == r \o p
<1>1. Len(T) \in Nat /\ Len(R) \in Nat
  OBVIOUS
<1>2. /\ r \in Seq(Edits) /\ Len(r) = Len(T) + 1 /\ r[1] = Clear("templates")
      /\ \A k \in 1..Len(T) : r[k + 1] = Add("templates", T[k])
  BY <1>1, Replacing DEF Names
<1>3. /\ p \in Seq(Edits) /\ Len(p) = Len(R) + 1 /\ p[1] = Clear("relays")
      /\ \A k \in 1..Len(R) : p[k + 1] = Add("relays", R[k])
  BY <1>1, Replacing DEF Names
<1> HIDE DEF r, p
<1>4. /\ q \in Seq(Edits) /\ Len(q) = Len(r) + Len(p)
      /\ \A k \in 1..Len(q) : q[k] = IF k <= Len(r) THEN r[k] ELSE p[k - Len(r)]
  BY <1>2, <1>3, Joined
<1> HIDE DEF q
<1>5. Orders(T, R) = Len(T) + Len(R) + 2 /\ Len(q) = Orders(T, R)
  BY <1>1, <1>2, <1>3, <1>4 DEF Orders
<1>6. ASSUME NEW k \in 1..Len(q) PROVE q[k] = Order(T, R, k)
  <2>1. CASE k = 1
    BY <1>1, <1>2, <1>4, <2>1 DEF Order
  <2>2. CASE k >= 2 /\ k <= Len(T) + 1
    <3>1. k - 1 \in 1..Len(T) /\ (k - 1) + 1 = k
      BY <1>1, <2>2
    <3>2. r[k] = Add("templates", T[k - 1])
      BY <1>2, <3>1
    <3> QED
      BY <1>1, <1>2, <1>4, <2>2, <3>2 DEF Order
  <2>3. CASE k = Len(T) + 2
    BY <1>1, <1>2, <1>3, <1>4, <2>3 DEF Order
  <2>4. CASE k >= Len(T) + 3
    <3> DEFINE b == k - Len(T) - 2
    <3>1. b \in 1..Len(R) /\ b + 1 = k - Len(r)
      BY <1>1, <1>2, <1>5, <2>4
    <3>2. p[k - Len(r)] = Add("relays", R[b])
      BY <1>3, <3>1
    <3> QED
      BY <1>1, <1>2, <1>4, <2>4, <3>2 DEF Order
  <2> QED
    BY <1>1, <2>1, <2>2, <2>3, <2>4
<1>7. LoadedBy(X, Y, 0, T, R)
  BY <1>1 DEF LoadedBy
<1>8. Loading(X, Y, q, T, R)
  BY <1>1, <1>5, <1>6, <1>7 DEF Loading
<1> QED
  BY <1>4, <1>8 DEF q, r, p

(* What users do concerns neither lists nor files.                         *)
LEMMA UserKeepsLasting ==
  ASSUME Lasting, NEW u \in Users, UserStep(u)
  PROVE  Lasting'
<1>1. UNCHANGED <<memory, disk, status, doing, todo, snapshot, wish, latest, excuses>>
  BY DEF UserStep, Query, Create, Release, EndSource, TemplRelease, calls
<1> QED
  BY <1>1 DEF Lasting, Alone, Stored, Between, Has, Phase, Running, Quiet, Busy

(* An edit brings memory one step nearer to what was asked for.            *)
LEMMA EditKeepsLasting ==
  ASSUME HeldInv, Shapes', Lasting, NEW c \in Callers, Edit(c)
  PROVE  Lasting'
<1> DEFINE e == Head(todo[c])
<1>1. /\ UNCHANGED <<disk, status, doing, snapshot, wish, latest, excuses>>
      /\ doing[c] \in {"editing", "loading"} /\ todo[c] # << >>
      /\ memory' = [memory EXCEPT ![e.section] = Edited(e)]
      /\ todo' = [todo EXCEPT ![c] = Tail(@)]
  BY DEF Edit, users
<1>2. /\ memory \in [Names -> Seq(Items)] /\ memory' \in [Names -> Seq(Items)]
      /\ todo[c] \in Seq(Edits) /\ todo \in [Callers -> Seq(Edits)]
  BY DEF HeldInv, Shapes, ListShapes, CallShapes, Configs
<1>3. e = todo[c][1] /\ e \in Edits
  BY <1>1, <1>2
<1> HIDE DEF e
<1>4. Busy(c) /\ doing[c] \notin Storing
  BY <1>1 DEF Busy, Storing
<1>5. Alone' /\ (\A d \in Callers : Busy(d)' => d = c) /\ ~Quiet'
  BY <1>1, <1>4, OneGoesOn DEF Lasting, Busy
<1>6. Stored /\ Stored'
  BY <1>1, <1>4 DEF Lasting, Phase, Stored
<1>7. doing[c] = "loading" => Loading(memory'["templates"], memory'["relays"], todo'[c], wish["templates"], wish["relays"])
  <2> SUFFICES ASSUME doing[c] = "loading"
               PROVE  Loading(memory'["templates"], memory'["relays"], Tail(todo[c]), wish["templates"], wish["relays"])
    BY <1>1, <1>2
  <2> DEFINE X == memory["templates"]
             Y == memory["relays"]
             V == memory'["templates"]
             W == memory'["relays"]
             T == wish["templates"]
             R == wish["relays"]
             q == todo[c]
  <2>1. wish \in Configs /\ Loading(X, Y, q, T, R)
    BY <1>4 DEF Lasting, Phase
  <2>2. /\ X \in Seq(Items) /\ Y \in Seq(Items) /\ V \in Seq(Items) /\ W \in Seq(Items)
        /\ T \in Seq(Items) /\ R \in Seq(Items) /\ q \in Seq(Edits) /\ q # << >>
    BY <1>1, <1>2, <2>1 DEF Configs, Names
  <2>3. q[1] = e
    BY <1>3
  <2>4. (e.section = "relays" => V = X) /\ (e.section = "templates" => W = Y)
    BY <1>1, <1>2 DEF Names
  <2>5. (e = Clear("templates") => V = << >>) /\ (e = Clear("relays") => W = << >>)
    BY <1>1, <1>2 DEF Names, Edited, Clear
  <2>6. e.op = "add" /\ e.section = "templates" => V = Append(X, e.item)
    BY <1>1, <1>2 DEF Names, Edited
  <2>7. e.op = "add" /\ e.section = "relays" => W = Append(Y, e.item)
    BY <1>1, <1>2 DEF Names, Edited
  <2> HIDE DEF X, Y, V, W, T, R, q
  <2>8. /\ q[1].section = "relays" => V = X
        /\ q[1].section = "templates" => W = Y
        /\ q[1] = Clear("templates") => V = << >>
        /\ q[1] = Clear("relays") => W = << >>
        /\ q[1].op = "add" /\ q[1].section = "templates" => V = Append(X, q[1].item)
        /\ q[1].op = "add" /\ q[1].section = "relays" => W = Append(Y, q[1].item)
    BY <2>3, <2>4, <2>5, <2>6, <2>7
  <2>9. Loading(V, W, Tail(q), T, R)
    BY <2>1, <2>2, <2>8, LoadingOn
  <2> QED
    BY <2>9 DEF X, Y, V, W, T, R, q
<1>8. Phase(c)'
  BY <1>1, <1>4, <1>6, <1>7 DEF Lasting, Phase, Storing
<1> QED
  BY <1>5, <1>6, <1>8 DEF Lasting

(* At every step of a store there is a file with the last configuration,   *)
(* or with the one before while the call has not returned.                 *)
LEMMA StoreKeepsLasting ==
  ASSUME HeldInv, Shapes', Lasting, NEW c \in Callers,
         Store(c) \/ ReadSection(c) \/ OpenTemporary(c) \/ WriteTemporary(c)
           \/ WriteFails(c) \/ UnlinkBackup(c) \/ Backup(c) \/ BackupFails(c)
           \/ Replaced(c) \/ ReplaceFails(c),
         excuses' \subseteq {"failed"}
  PROVE  Lasting'
<1>0. /\ Shapes /\ doing \in [Callers -> {"idle", "editing", "loading"} \cup Storing]
      /\ disk \in [Files -> Configs \cup {Nothing, Torn}] /\ snapshot \in [Callers -> Seq(Seq(Items))]
      /\ memory \in [Names -> Seq(Items)]
  BY DEF HeldInv, Shapes, CallShapes, FileShapes, ListShapes, Configs
<1>1. memory' = memory /\ todo' = todo /\ doing[c] # "idle" /\ \A d \in Callers : d # c => doing'[d] = doing[d]
  BY <1>0 DEF Store, ReadSection, OpenTemporary, WriteTemporary, WriteFails, UnlinkBackup, Backup,
         BackupFails, Replaced, ReplaceFails, lists, users, Finish, Goto
<1>2. Busy(c) /\ Phase(c)
  BY <1>1 DEF Busy, Lasting
<1>3. /\ Alone' /\ (\A d \in Callers : Busy(d)' => d = c) /\ (Quiet' <=> ~Busy(c)')
  BY <1>1, <1>2, OneGoesOn DEF Lasting
<1>4. SUFFICES /\ (Stored \/ Between)' /\ (Busy(c)' => Phase(c)')
               /\ ~Busy(c)' => Stored' /\ (excuses' = {} => memory' = wish')
  BY <1>3 DEF Lasting
<1> USE DEF Goto, Storing
<1>5. CASE Store(c)
  <2>1. doing' = [doing EXCEPT ![c] = "reading"] /\ latest' = memory /\ UNCHANGED <<disk, wish, snapshot>>
        /\ doing[c] = "editing"
    BY <1>5 DEF Store, users
  <2>2. doing'[c] = "reading"
    BY <1>0, <2>1
  <2>3. snapshot[c] = << >> /\ Stored
    BY <1>2, <2>1 DEF Phase
  <2>4. Len(snapshot'[c]) = 0 /\ Stored'
    BY <2>1, <2>3 DEF Stored
  <2>5. Phase(c)'
    BY <1>1, <2>1, <2>2, <2>4 DEF Phase
  <2> QED
    BY <2>2, <2>4, <2>5 DEF Busy
<1>6. CASE ReadSection(c)
  <2> DEFINE n == Len(snapshot[c])
  <2>1. doing[c] = "reading" /\ n < 2 /\ n \in Nat /\ UNCHANGED <<disk, wish, latest, doing>>
        /\ snapshot'[c] = Append(snapshot[c], memory[Sections[n + 1]])
    BY <1>0, <1>6 DEF ReadSection, users, Sections
  <2>2. latest = memory /\ Stored /\ \A k \in 1..n : snapshot[c][k] = memory[Sections[k]]
    BY <1>2, <2>1 DEF Phase
  <2>3. Sections[n + 1] \in Names
    BY <2>1 DEF Sections, Names
  <2>4. memory[Sections[n + 1]] \in Seq(Items) /\ snapshot[c] \in Seq(Seq(Items))
    BY <1>0, <2>3
  <2>5. /\ Len(snapshot'[c]) = n + 1 /\ snapshot'[c][n + 1] = memory[Sections[n + 1]]
        /\ \A k \in 1..n : snapshot'[c][k] = snapshot[c][k]
    BY <2>1, <2>4, AppendProperties
  <2>6. ASSUME NEW k \in 1..Len(snapshot'[c]) PROVE snapshot'[c][k] = memory[Sections[k]]
    BY <2>1, <2>2, <2>5, <2>6
  <2>7. Phase(c)'
    BY <1>1, <2>1, <2>2, <2>5, <2>6 DEF Phase, Stored
  <2> QED
    BY <1>1, <2>1, <2>2, <2>7 DEF Busy, Stored
<1>7. CASE OpenTemporary(c)
  <2>1. /\ doing[c] = "reading" /\ doing'[c] = "writing" /\ UNCHANGED <<wish, latest, snapshot>>
        /\ disk'["config"] = disk["config"]
    BY <1>0, <1>7 DEF OpenTemporary, users, Files
  <2>2. Phase(c)' /\ Stored'
    BY <1>1, <1>2, <2>1 DEF Phase, Stored
  <2> QED
    BY <2>1, <2>2 DEF Busy
<1>8. CASE WriteTemporary(c)
  <2>1. /\ doing[c] = "writing" /\ doing'[c] = "written" /\ UNCHANGED <<wish, latest, snapshot>>
        /\ disk' = [disk EXCEPT !["TMP"] = Read(c)]
    BY <1>0, <1>2, <1>8 DEF WriteTemporary, users, Lasting, Alone, Busy
  <2>2. Len(snapshot[c]) = 2
    BY <1>0, <2>1 DEF Shapes, CallShapes
  <2>3. snapshot[c][1] = memory["templates"] /\ snapshot[c][2] = memory["relays"] /\ Stored /\ latest = memory
    BY <1>2, <2>1, <2>2 DEF Phase, Sections
  <2>4. Read(c) = memory
    <3>1. /\ Read(c) \in [Names -> Seq(Items)]
          /\ Read(c)["templates"] = memory["templates"] /\ Read(c)["relays"] = memory["relays"]
      BY <1>0, <2>2, <2>3, ReadIsConfig DEF Configs
    <3>2. \A s \in Names : Read(c)[s] = memory[s]
      BY <3>1 DEF Names
    <3> QED
      BY <1>0, <3>1, <3>2
  <2>5. disk'["TMP"] = latest' /\ disk'["config"] = disk["config"]
    BY <1>0, <2>1, <2>3, <2>4 DEF Files
  <2>6. Phase(c)' /\ Stored'
    BY <1>1, <2>1, <2>3, <2>5 DEF Phase, Stored
  <2> QED
    BY <2>1, <2>6 DEF Busy
<1>9. CASE WriteFails(c)
  <2>1. doing[c] = "writing" /\ doing'[c] = "idle" /\ excuses' # {} /\ UNCHANGED <<wish, latest, disk>>
    BY <1>0, <1>9 DEF WriteFails, Finish, Note, users
  <2>2. Stored'
    BY <1>2, <2>1 DEF Phase, Stored
  <2> QED
    BY <2>1, <2>2 DEF Busy
<1>10. CASE UnlinkBackup(c)
  <2>1. /\ doing[c] = "written" /\ doing'[c] = "unlinked" /\ UNCHANGED <<wish, latest, snapshot>>
        /\ disk'["config"] = disk["config"] /\ disk'["BAK"] = Nothing /\ disk'["TMP"] = disk["TMP"]
    BY <1>0, <1>10 DEF UnlinkBackup, users, Files
  <2>2. Phase(c)' /\ Stored'
    BY <1>1, <1>2, <2>1 DEF Phase, Stored
  <2> QED
    BY <2>1, <2>2 DEF Busy
<1>11. CASE Backup(c)
  <2>1. /\ doing[c] = "unlinked" /\ doing'[c] = "renamed" /\ UNCHANGED <<wish, latest, snapshot>>
        /\ disk' = [Renamed("config", "BAK") EXCEPT !["config"] = Nothing]
    BY <1>0, <1>11 DEF Backup, users
  <2>2. disk["BAK"] = Nothing /\ disk["config"] = wish /\ disk["TMP"] = latest /\ latest = memory
    BY <1>2, <2>1 DEF Phase, Stored
  <2>3. disk'["config"] = Nothing /\ disk'["BAK"] = wish /\ disk'["TMP"] = latest
    BY <1>0, <2>1, <2>2 DEF Renamed, Has, Files
  <2>4. Phase(c)' /\ Between'
    BY <1>1, <2>1, <2>2, <2>3 DEF Phase, Between, Has
  <2> QED
    BY <2>1, <2>4 DEF Busy
<1>12. CASE Replaced(c)
  <2>1. /\ doing[c] = "renamed" /\ doing'[c] = "idle" /\ wish' = latest
        /\ disk' = Renamed("TMP", "config")
    BY <1>0, <1>12 DEF Replaced, users, Finish
  <2>2. disk["config"] = Nothing /\ disk["TMP"] = memory /\ latest = memory
    BY <1>2, <2>1 DEF Phase
  <2>3. memory # Nothing
    BY <1>0, AConfig, ValuesAssumption DEF Configs
  <2>4. disk'["config"] = memory
    BY <1>0, <2>1, <2>2, <2>3 DEF Renamed, Has, Files
  <2>5. Stored' /\ memory' = wish'
    BY <1>1, <2>1, <2>2, <2>4 DEF Stored
  <2> QED
    BY <2>1, <2>5 DEF Busy
<1>13. ~BackupFails(c) /\ ~ReplaceFails(c)
  <2>1. "unnamed" \notin excuses'
    BY <1>0
  <2> QED
    BY <2>1 DEF BackupFails, ReplaceFails, Note
<1> QED
  BY <1>5, <1>6, <1>7, <1>8, <1>9, <1>10, <1>11, <1>12, <1>13

(* A change begins with the files as the last one left them.               *)
LEMMA ChangeKeepsLasting ==
  ASSUME HeldInv, Lasting, NEW a \in Admins, Change(a), excuses' \subseteq {"failed"}
  PROVE  Lasting'
<1>1. /\ UNCHANGED <<memory, disk, status, wish, latest>> /\ Running /\ a \in Callers
      /\ doing \in [Callers -> {"idle", "editing", "loading"} \cup Storing]
      /\ snapshot \in [Callers -> Seq(Seq(Items))]
      /\ doing' = [doing EXCEPT ![a] = "editing"] /\ snapshot' = [snapshot EXCEPT ![a] = << >>]
  BY DEF Change, Begin, lists, Callers, HeldInv, Shapes, CallShapes
<1>2. Quiet
  BY DEF Change, Quiet
<1>3. Stored /\ Stored'
  BY <1>1, <1>2 DEF Lasting, Stored
<1>4. doing'[a] = "editing" /\ snapshot'[a] = << >> /\ \A d \in Callers : d # a => ~Busy(d)'
  BY <1>1, <1>2 DEF Quiet, Busy
<1>5. Phase(a)' /\ Busy(a)'
  BY <1>3, <1>4 DEF Phase, Storing, Busy
<1> QED
  BY <1>1, <1>3, <1>4, <1>5 DEF Lasting, Alone, Quiet

(* A start reads the file that is there and asks for what it says.         *)
LEMMA StartKeepsLasting ==
  ASSUME HeldInv, Lasting, Start, excuses' \subseteq {"failed"}
  PROVE  Lasting'
<1> DEFINE file == disk["config"]
           T == file["templates"]
           R == file["relays"]
           q == Replace("templates", T) \o Replace("relays", R)
<1>1. /\ UNCHANGED <<memory, disk, wish, latest>> /\ Fresh /\ Main \in Callers
      /\ disk \in [Files -> Configs \cup {Nothing, Torn}]
      /\ status = "down" /\ status' = "loading"
  BY DEF Start, lists, HeldInv, DownIsEmpty, Callers, Shapes, FileShapes
<1>2. CASE file \in {Nothing, Torn}
  <2>1. /\ doing' = [doing EXCEPT ![Main] = "editing"]
        /\ snapshot' = [snapshot EXCEPT ![Main] = << >>] /\ wish = Nothing
    BY <1>2 DEF Start, Begin, Note
  <2>2. Stored'
    BY <1>1, <1>2, <2>1, ValuesAssumption DEF Lasting, Stored, Between, Has
  <2>3. /\ doing'[Main] = "editing" /\ snapshot'[Main] = << >>
        /\ \A d \in Callers : d # Main => ~Busy(d)'
    BY <1>1, <2>1 DEF Fresh, Busy
  <2>4. Phase(Main)' /\ Busy(Main)'
    BY <2>2, <2>3 DEF Phase, Storing, Busy
  <2> QED
    BY <1>1, <2>2, <2>3, <2>4 DEF Lasting, Alone, Quiet
<1>3. CASE file \notin {Nothing, Torn}
  <2>1. doing' = [doing EXCEPT ![Main] = "loading"] /\ todo' = [todo EXCEPT ![Main] = q]
        /\ UNCHANGED snapshot
    BY <1>3 DEF Start
  <2>2. file \in Configs /\ file = wish /\ Stored'
    BY <1>1, <1>3 DEF Lasting, Stored, Between, Has, Files
  <2>3. T \in Seq(Items) /\ R \in Seq(Items)
    BY <2>2 DEF Configs, Names
  <2> HIDE DEF T, R
  <2>4. Loading(memory["templates"], memory["relays"], q, T, R)
    BY <2>3, OrdersGiven
  <2> HIDE DEF q
  <2>5. /\ doing'[Main] = "loading" /\ snapshot'[Main] = << >> /\ todo'[Main] = q
        /\ \A d \in Callers : d # Main => ~Busy(d)'
    BY <1>1, <2>1 DEF Fresh, Busy
  <2>6. Phase(Main)' /\ Busy(Main)'
    BY <1>1, <2>2, <2>4, <2>5 DEF Phase, Storing, Busy, T, R
  <2> QED
    BY <1>1, <2>2, <2>5, <2>6 DEF Lasting, Alone, Quiet
<1> QED
  BY <1>2, <1>3

(* The program may stop or crash in any of these states without loss.      *)
LEMMA ProgramKeepsLasting ==
  ASSUME HeldInv, Lasting, Start \/ Loaded \/ Stop \/ Exit \/ Crash, excuses' \subseteq {"failed"}
  PROVE  Lasting'
<1>0. /\ Main \in Callers /\ memory \in [Names -> Seq(Items)]
      /\ doing \in [Callers -> {"idle", "editing", "loading"} \cup Storing]
  BY DEF HeldInv, Shapes, ListShapes, CallShapes, Callers, Configs
<1>1. CASE Stop
  <2>1. Quiet /\ Running /\ UNCHANGED <<disk, wish, doing>> /\ status' = "stopping"
    BY <1>1 DEF Stop, Note, calls, Quiet, Running
  <2> QED
    BY <2>1 DEF Lasting, Quiet, Alone, Busy, Stored
<1>2. CASE Gone
  <2>1. (\A c \in Callers : ~Busy(c))' /\ ~Running' /\ status' = "down" /\ UNCHANGED <<disk, wish, latest>>
    BY <1>2 DEF Gone, Busy, Running
  <2> QED
    BY <2>1 DEF Lasting, Alone, Stored, Between, Has
<1>3. CASE Loaded
  <2>1. /\ UNCHANGED <<memory, disk, wish>> /\ doing[Main] = "loading" /\ todo[Main] = << >>
        /\ doing' = [doing EXCEPT ![Main] = "idle"]
    BY <1>3 DEF Loaded, Finish, Goto, lists
  <2>2. Busy(Main) /\ Phase(Main)
    BY <1>0, <2>1 DEF Busy, Lasting
  <2>3. Alone' /\ \A d \in Callers : ~Busy(d)'
    BY <1>0, <2>1, <2>2, OneGoesOn DEF Lasting, Busy
  <2>4. /\ Stored /\ wish \in [Names -> Seq(Items)]
        /\ Loading(memory["templates"], memory["relays"], << >>, wish["templates"], wish["relays"])
    BY <2>1, <2>2 DEF Phase, Configs
  <2>5. memory["templates"] = wish["templates"] /\ memory["relays"] = wish["relays"]
    BY <1>0, <2>4, LoadedIsThere DEF Names
  <2>6. memory = wish
    BY <1>0, <2>4, <2>5 DEF Names
  <2> QED
    BY <2>1, <2>3, <2>4, <2>6 DEF Lasting, Stored
<1> QED
  BY <1>1, <1>2, <1>3, StartKeepsLasting DEF Exit, Crash

(* Every step keeps the files as good as the last store that returned,     *)
(* unless one of the excuses has happened.                                 *)
LEMMA NextKeepsDurable == DurableInv /\ [Next]_vars => DurableInv'
<1> SUFFICES ASSUME DurableInv, [Next]_vars PROVE DurableInv'
  OBVIOUS
<1>1. HeldInv /\ HeldInv' /\ Shapes'
  BY NextKeepsHeld DEF DurableInv, HeldInv
<1>2. ASSUME excuses' \subseteq {"failed"} PROVE excuses \subseteq {"failed"}
  BY <1>2 DEF Next, CallerStep, UserStep, Edit, Store, ReadSection, OpenTemporary, WriteTemporary,
              WriteFails, UnlinkBackup, Backup, BackupFails, Replaced, ReplaceFails, Change, Query,
              Create, Release, EndSource,
              Start, Loaded, Stop, Exit, Crash, Gone, Note, vars
<1>3. CASE UNCHANGED vars
  BY <1>1, <1>3 DEF vars, lists, calls, DurableInv, Lasting, Alone, Stored, Between, Has, Phase,
     Running, Quiet, Busy
<1>4. CASE ~(excuses' \subseteq {"failed"})
  BY <1>1, <1>4 DEF DurableInv
<1>5. CASE excuses' \subseteq {"failed"} /\ Next
  <2>1. Lasting
    BY <1>2, <1>5 DEF DurableInv
  <2>2. Lasting'
    BY <1>1, <1>5, <2>1, EditKeepsLasting, StoreKeepsLasting, ChangeKeepsLasting, UserKeepsLasting,
       ProgramKeepsLasting DEF Next, CallerStep
  <2> QED
    BY <1>1, <2>2 DEF DurableInv
<1> QED
  BY <1>3, <1>4, <1>5

(* At first there is the file the program was installed with.              *)
LEMMA InitDurable == Init => DurableInv
<1> SUFFICES ASSUME Init PROVE DurableInv
  OBVIOUS
<1>1. HeldInv
  BY InitHeld
<1>2. \A c \in Callers : ~Busy(c)
  BY DEF Init, Fresh, Busy
<1>3. Lasting
  BY <1>2 DEF Init, Lasting, Alone, Stored, Running, Files
<1> QED
  BY <1>1, <1>3 DEF DurableInv

(* What an administrator has changed survives: at every moment the file is *)
(* the configuration as the last change left it, or, between the renames,  *)
(* both it and the new one are there under other names; and a start brings *)
(* it back (CtrlStoreConfig, _LoadFile).                                   *)
THEOREM ChangesLast == Spec => []Durable
<1>1. DurableInv => Durable
  BY DEF DurableInv, Lasting, Stored, Between, Durable
<1> QED
  BY <1>1, InitDurable, NextKeepsDurable, PTL DEF Spec
=============================================================================
