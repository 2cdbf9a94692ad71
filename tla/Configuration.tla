---------------------------- MODULE Configuration ----------------------------
(***************************************************************************)
(* The configuration in memory and on disk: administrators change a        *)
(* section (src/src/control.c 823-935, 1263-1286, 1468-1490), the program  *)
(* stores all of it after every change (1065-1124), loads it when it       *)
(* starts (937-1056), and may stop or crash at any moment.  The sources    *)
(* that come meanwhile are admitted by the templates (templates.c).        *)
(*                                                                         *)
(* Of the sections the lists of templates and of relays are here.  An      *)
(* element of either is named by the change that brought it and its place: *)
(* <<change, i>>.  The first template of a change is for one mount point,  *)
(* the second for all.  Change 0 is the default configuration.             *)
(*                                                                         *)
(* A step is one stretch of code under the lock of one list, or one call   *)
(* of the file system.                                                     *)
(***************************************************************************)
EXTENDS Naturals, Sequences, SequencesExt, FiniteSets

CONSTANTS
  MaxChanges,  (* bound: the changes made in a behaviour *)
  Bounds,      (* bounds: changes, starts of the program, look-ups of templates *)
  Admins,      (* the request threads that serve an administrator *)
  Main,        (* the main thread *)
  Users,       (* what looks templates up: connections of sources, relays *)
  Retriers,    (* those of them that are relays *)
  Nothing,     (* no template, no file *)
  Torn         (* a file that is no configuration *)

ASSUME ConfigurationAssumption ==
  /\ MaxChanges \in Nat /\ Bounds \subseteq [changes : 0..MaxChanges, starts : Nat, lookups : Nat]
  /\ Main \notin Admins /\ Retriers \subseteq Users

Callers  == Admins \cup {Main}
Sections == <<"templates", "relays">>     \* in the order they are stored
Mounts   == {"special", "any"}
Items    == (0..MaxChanges) \X (1..2)

ASSUME ValuesAssumption ==
  /\ IsFiniteSet(Users)
  /\ Nothing \notin Items /\ Nothing # Torn
  /\ Nothing \notin [Range(Sections) -> Seq(Items)]
  /\ Torn \notin [Range(Sections) -> Seq(Items)]

VARIABLES
  memory,    (* the lists as they are *)
  pins,      (* ulQueryLocks of each template *)
  freed,     (* the templates given back to the heap *)
  disk,      (* what is in the files: nothing, something torn or a configuration *)
  status,    (* of the program *)
  left,      (* one of Bounds, less what has happened *)
  changes,   (* how many changes were made *)
  doing,     (* where each caller is *)
  todo,      (* the changes a caller has still to make *)
  snapshot,  (* the sections a caller has read for the file *)
  own,       (* the template each user has looked up *)
  src,       (* the template its source has *)
  wish,      (* history: the configuration as the last change, or start, left it *)
  latest,    (* history: what was last to be stored *)
  leaked,    (* history: the templates a relay has pinned and forgotten *)
  excuses    (* history: which of the events below has happened *)

lists == <<memory, pins, freed>>
calls == <<doing, todo, snapshot>>
users == <<own, src, leaked>>
vars  == <<lists, disk, status, left, changes, calls, users, wish, latest, excuses>>

(* "overlap"  two threads changed or stored the configuration at once;     *)
(* "failed"   the temporary file could not be written;                     *)
(* "unnamed"  a written file could not be renamed;                         *)
(* "stopped"  the program was stopped while a change was going on;         *)
(* "crashed"  the program started without the configuration it had: it     *)
(*            died between the two renames, or the second of them failed.  *)
Excuses == {"overlap", "failed", "unnamed", "stopped", "crashed"}

Nowhere == [s \in Range(Sections) |-> << >>]
Files   == {"config", "BAK", "TMP"}

TypeOK ==
  /\ memory \in [Range(Sections) -> Seq(Items)]
  /\ pins \in [Items -> Nat] /\ freed \subseteq Items
  /\ DOMAIN disk = Files
  /\ status \in {"down", "loading", "up", "stopping"}
  /\ left \in [changes : 0..MaxChanges, starts : Nat, lookups : Nat] /\ changes \in 0..MaxChanges
  /\ doing \in [Callers -> {"idle", "editing", "loading", "reading", "writing",
                            "written", "unlinked", "renamed"}]
  /\ own \in [Users -> Items \cup {Nothing}] /\ src \in [Users -> Items \cup {Nothing}]
  /\ leaked \subseteq Items /\ excuses \subseteq Excuses

Fresh ==
  /\ memory = Nowhere
  /\ pins = [i \in Items |-> 0] /\ freed = {}
  /\ doing = [c \in Callers |-> "idle"]
  /\ todo = [c \in Callers |-> << >>]
  /\ snapshot = [c \in Callers |-> << >>]
  /\ own = [u \in Users |-> Nothing] /\ src = [u \in Users |-> Nothing]
  /\ leaked = {}

Init ==
  /\ Fresh
  /\ disk = [f \in Files |-> Nothing]
  /\ status = "down" /\ left \in Bounds /\ changes = 0
  /\ wish = Nothing /\ latest = Nothing
  /\ excuses = {}

----------------------------------------------------------------------------
(* Templates *)

Templates == Range(memory["templates"])

Free(unlinked, count) == freed \cup {i \in unlinked : count[i] = 0}

(* TemplRelease: the last pin of an unlinked template frees it.            *)
TemplRelease(i) ==
  /\ pins' = [pins EXCEPT ![i] = @ - 1]
  /\ freed' = Free({i} \ Templates, pins')
  /\ UNCHANGED memory

(* mutant: the template goes although a source has it *)
RemoveAllPinned ==
  freed' = freed \cup Templates

(* TemplRemoveAll frees the templates nobody has pinned.                   *)
TemplRemoveAll == freed' = Free(Templates, pins)

Matches(i, m) == i[2] = 2 \/ m = "special"

(* TemplQuery goes by the first template that matches.                     *)
Decision(L, m) ==
  LET hits == {k \in DOMAIN L : Matches(L[k], m)} IN
  IF hits = {} THEN Nothing ELSE L[CHOOSE k \in hits : \A j \in hits : k <= j]

Running == status # "down"

(* TemplQuery.  A relay looks its template up at every attempt, and forgets *)
(* the one it had (relays.c 368).                                          *)
Query(u) ==
  /\ Running /\ left.lookups > 0
  /\ left' = [left EXCEPT !.lookups = @ - 1]
  /\ (u \in Retriers \/ (own[u] = Nothing /\ src[u] = Nothing))
  /\ \E m \in Mounts :
       LET i == Decision(memory["templates"], m) IN
       /\ i # Nothing
       /\ pins' = [pins EXCEPT ![i] = @ + 1]
       /\ own' = [own EXCEPT ![u] = i]
  /\ leaked' = leaked \cup ({own[u]} \ {Nothing})
  /\ UNCHANGED <<memory, freed, disk, status, changes, calls, src, wish, latest, excuses>>

(* SourceCreate pins the template for the source, or gives up because it   *)
(* has been replaced (sources.c 277).                                      *)
Create(u) ==
  /\ own[u] # Nothing /\ src[u] = Nothing /\ own[u] \in Templates
  /\ pins' = [pins EXCEPT ![own[u]] = @ + 1]
  /\ src' = [src EXCEPT ![u] = own[u]]
  /\ UNCHANGED <<memory, freed, disk, status, left, changes, calls, own, leaked, wish, latest, excuses>>

(* The connection is done with the template; the relay is removed.         *)
Release(u) ==
  /\ own[u] # Nothing
  /\ TemplRelease(own[u])
  /\ own' = [own EXCEPT ![u] = Nothing]
  /\ UNCHANGED <<disk, status, left, changes, calls, src, leaked, wish, latest, excuses>>

(* _SourceDestroy *)
EndSource(u) ==
  /\ src[u] # Nothing
  /\ TemplRelease(src[u])
  /\ src' = [src EXCEPT ![u] = Nothing]
  /\ UNCHANGED <<disk, status, left, changes, calls, own, leaked, wish, latest, excuses>>

----------------------------------------------------------------------------
(* Changes *)

Clear(s)  == [op |-> "clear", section |-> s]
Add(s, i) == [op |-> "add", section |-> s, item |-> i]
Del(s, i) == [op |-> "del", section |-> s, item |-> i]

(* _ApplyXMLNodeTemplates and _ApplyXMLNodeRelays: everything is removed,  *)
(* and one by one the new elements are added.                              *)
Replace(s, L) == <<Clear(s)>> \o [k \in DOMAIN L |-> Add(s, L[k])]

Busy(c) == doing[c] # "idle"

Note(e, happened) == excuses' = IF happened THEN excuses \cup {e} ELSE excuses

(* The start of a call that changes the configuration.                     *)
Begin(c, edits) ==
  /\ doing' = [doing EXCEPT ![c] = "editing"]
  /\ todo' = [todo EXCEPT ![c] = edits]
  /\ snapshot' = [snapshot EXCEPT ![c] = << >>]

(* CtrlInputApply with a section of templates, of relays, or with one      *)
(* relay; CtrlQueryTextRemoveRelay.                                        *)
Change(a) ==
  LET n == changes + 1 IN
  /\ Running /\ doing[a] = "idle" /\ left.changes > 0
  /\ \/ \E s \in Range(Sections) : Begin(a, Replace(s, <<<<n, 1>>, <<n, 2>>>>))
     \/ Begin(a, <<Add("relays", <<n, 1>>)>>)
     \/ \E i \in Range(memory["relays"]) : Begin(a, <<Del("relays", i)>>)
  /\ changes' = n
  /\ left' = [left EXCEPT !.changes = @ - 1]
  /\ excuses' = excuses \cup {e \in {"overlap", "stopped"} :
                   IF e = "overlap" THEN \E c \in Callers : Busy(c) ELSE status = "stopping"}
  /\ UNCHANGED <<lists, disk, status, users, wish, latest>>

(* mutant: TemplReady and RelayReady put the new one before the others *)
EditedAtHead(e) ==
  CASE e.op = "clear" -> << >>
    [] e.op = "add"   -> <<e.item>> \o memory[e.section]
    [] e.op = "del"   -> RemoveFirst(memory[e.section], e.item)

Edited(e) ==
  CASE e.op = "clear" -> << >>
    [] e.op = "add"   -> Append(memory[e.section], e.item)
    [] e.op = "del"   -> RemoveFirst(memory[e.section], e.item)

(* The next stretch of the change.                                         *)
Edit(c) ==
  LET e == Head(todo[c]) IN
  /\ doing[c] \in {"editing", "loading"} /\ todo[c] # << >>
  /\ memory' = [memory EXCEPT ![e.section] = Edited(e)]
  /\ IF e = Clear("templates") THEN TemplRemoveAll ELSE UNCHANGED freed
  /\ todo' = [todo EXCEPT ![c] = Tail(@)]
  /\ UNCHANGED <<pins, disk, status, left, changes, doing, snapshot, users, wish, latest, excuses>>

----------------------------------------------------------------------------
(* CtrlStoreConfig *)

Goto(c, to) == doing' = [doing EXCEPT ![c] = to]

Store(c) ==
  /\ doing[c] = "editing" /\ todo[c] = << >>
  /\ latest' = memory
  /\ Goto(c, "reading")
  /\ UNCHANGED <<lists, disk, status, left, changes, todo, snapshot, users, wish, excuses>>

(* _StoreTemplates, _StoreRelays: one list after the other is read.        *)
ReadSection(c) ==
  /\ doing[c] = "reading" /\ Len(snapshot[c]) < Len(Sections)
  /\ snapshot' = [snapshot EXCEPT ![c] = Append(@, memory[Sections[Len(@) + 1]])]
  /\ UNCHANGED <<lists, disk, status, left, changes, doing, todo, users, wish, latest, excuses>>

(* The configuration a caller has read.                                    *)
Read(c) == [s \in Range(Sections) |->
              LET k == CHOOSE j \in DOMAIN Sections : Sections[j] = s IN snapshot[c][k]]

(* The end of a change, or of the start.                                   *)
Finish(c) ==
  /\ Goto(c, "idle")
  /\ snapshot' = [snapshot EXCEPT ![c] = << >>]
  /\ status' = IF c = Main THEN "up" ELSE status

(* xmlSaveFormatFileEnc opens the temporary file, and writes it.  It may   *)
(* fail, and two threads may write into each other's file.                 *)
OpenTemporary(c) ==
  /\ doing[c] = "reading" /\ Len(snapshot[c]) = Len(Sections)
  /\ disk' = [disk EXCEPT !["TMP"] = Torn]
  /\ Goto(c, "writing")
  /\ UNCHANGED <<lists, status, left, changes, todo, snapshot, users, wish, latest, excuses>>

WriteTemporary(c) ==
  /\ doing[c] = "writing"
  /\ \/ /\ disk' = [disk EXCEPT !["TMP"] = Read(c)]
        /\ Goto(c, "written")
        /\ UNCHANGED excuses
     \/ /\ \E d \in Callers \ {c} : doing[d] = "writing"
        /\ Goto(c, "written")
        /\ UNCHANGED <<disk, excuses>>
  /\ UNCHANGED <<lists, status, left, changes, todo, snapshot, users, wish, latest>>

WriteFails(c) ==
  /\ doing[c] = "writing"
  /\ Finish(c)
  /\ Note("failed", TRUE)
  /\ UNCHANGED <<lists, disk, left, changes, todo, users, wish, latest>>

Has(f) == disk[f] # Nothing

UnlinkBackup(c) ==
  /\ doing[c] = "written"
  /\ disk' = [disk EXCEPT !["BAK"] = Nothing]
  /\ Goto(c, "unlinked")
  /\ UNCHANGED <<lists, status, left, changes, todo, snapshot, users, wish, latest, excuses>>

(* rename does not replace a file that is there.                           *)
Renamed(old, new) ==
  IF Has(old) /\ ~Has(new) THEN [disk EXCEPT ![new] = disk[old], ![old] = Nothing] ELSE disk

(* mutant: the old configuration is not kept *)
BackupUnlinks(c) ==
  /\ doing[c] = "unlinked"
  /\ disk' = [disk EXCEPT !["config"] = Nothing]
  /\ Goto(c, "renamed")
  /\ UNCHANGED <<lists, status, left, changes, todo, snapshot, users, wish, latest, excuses>>

(* What cannot be renamed is unlinked.                                     *)
Backup(c) ==
  /\ doing[c] = "unlinked"
  /\ disk' = [Renamed("config", "BAK") EXCEPT !["config"] = Nothing]
  /\ Goto(c, "renamed")
  /\ UNCHANGED <<lists, status, left, changes, todo, snapshot, users, wish, latest, excuses>>

(* That may be because rename fails, while the file is there.              *)
BackupFails(c) ==
  /\ doing[c] = "unlinked" /\ Has("config")
  /\ disk' = [disk EXCEPT !["config"] = Nothing]
  /\ Goto(c, "renamed")
  /\ Note("unnamed", TRUE)
  /\ UNCHANGED <<lists, status, left, changes, todo, snapshot, users, wish, latest>>

Replaced(c) ==
  /\ doing[c] = "renamed"
  /\ disk' = Renamed("TMP", "config")
  /\ wish' = latest
  /\ Finish(c)
  /\ UNCHANGED <<lists, left, changes, todo, users, latest, excuses>>

(* What the last rename returns is not looked at: the call has succeeded,  *)
(* and there is no configuration.                                          *)
ReplaceFails(c) ==
  /\ doing[c] = "renamed"
  /\ wish' = latest
  /\ Finish(c)
  /\ Note("unnamed", TRUE)
  /\ UNCHANGED <<lists, disk, left, changes, todo, users, latest>>

----------------------------------------------------------------------------
(* The program starts, stops and crashes *)

(* _LoadFile applies the sections of the file; if there is none, or it is  *)
(* no configuration, _DefaultConfig has one template, which is stored.     *)
(* Requests are served from the beginning.                                 *)
Start ==
  LET file == disk["config"] IN
  /\ status = "down" /\ left.starts > 0
  /\ left' = [left EXCEPT !.starts = @ - 1]
  /\ status' = "loading"
  /\ IF file \in {Nothing, Torn}
       THEN /\ Begin(Main, Replace("templates", <<<<0, 2>>>>))
            /\ Note("crashed", wish # Nothing)
       ELSE /\ doing' = [doing EXCEPT ![Main] = "loading"]
            /\ todo' = [todo EXCEPT ![Main] = Replace("templates", file["templates"])
                                              \o Replace("relays", file["relays"])]
            /\ UNCHANGED <<snapshot, excuses>>
  /\ UNCHANGED <<lists, disk, changes, users, wish, latest>>

Loaded ==
  /\ doing[Main] = "loading" /\ todo[Main] = << >>
  /\ Finish(Main)
  /\ UNCHANGED <<lists, disk, left, changes, todo, users, wish, latest, excuses>>

(* _Done: the name of the file is given back, the relays are removed, and  *)
(* the requests that are served end (main.c 112-114).                      *)
Stop ==
  /\ status = "up" /\ doing[Main] = "idle"
  /\ status' = "stopping"
  /\ memory' = [memory EXCEPT !["relays"] = << >>]
  /\ Note("stopped", \E c \in Callers : Busy(c))
  /\ UNCHANGED <<pins, freed, disk, left, changes, calls, users, wish, latest>>

Gone ==
  /\ status' = "down"
  /\ memory' = Nowhere
  /\ pins' = [i \in Items |-> 0] /\ freed' = {}
  /\ doing' = [c \in Callers |-> "idle"]
  /\ todo' = [c \in Callers |-> << >>]
  /\ snapshot' = [c \in Callers |-> << >>]
  /\ own' = [u \in Users |-> Nothing] /\ src' = [u \in Users |-> Nothing]
  /\ leaked' = {}
  /\ UNCHANGED <<disk, left, changes, wish, latest, excuses>>

Exit == status = "stopping" /\ (\A c \in Callers : ~Busy(c)) /\ Gone

Crash == Running /\ Gone
CallerStep(c) ==
  \/ Edit(c) \/ Store(c) \/ ReadSection(c) \/ OpenTemporary(c) \/ WriteTemporary(c)
  \/ WriteFails(c) \/ UnlinkBackup(c) \/ Backup(c) \/ BackupFails(c)
  \/ Replaced(c) \/ ReplaceFails(c)

UserStep(u) == Query(u) \/ Create(u) \/ Release(u) \/ EndSource(u)

Next ==
  \/ \E c \in Callers : CallerStep(c)
  \/ \E a \in Admins : Change(a)
  \/ \E u \in Users : UserStep(u)
  \/ Start \/ Loaded \/ Stop \/ Exit \/ Crash

Spec == Init /\ [][Next]_vars

----------------------------------------------------------------------------

Quiet == \A c \in Callers : ~Busy(c)

(* What an administrator has changed survives: at every moment the file is *)
(* the configuration as the last change left it, or, between the renames,  *)
(* both it and the new one are there under other names; and a start brings *)
(* it back.  Two changes at once, a file that cannot be renamed, a stop    *)
(* during a change and a crash between the renames are excused (Excuses).  *)
Durable ==
  excuses \subseteq {"failed"} =>
    /\ \/ disk["config"] = wish
       \/ ~Has("config") /\ disk["BAK"] = wish /\ disk["TMP"] = latest
    /\ Quiet /\ status = "up" /\ excuses = {} => memory = wish

Whole(n) == IF n = 0 THEN <<<<0, 2>>>> ELSE <<<<n, 1>>, <<n, 2>>>>

(* A source is never admitted by a template that would not decide about it *)
(* in a configuration an administrator, or the file, has given: not even   *)
(* while the templates are replaced.                                       *)
Decides ==
  "overlap" \notin excuses =>
    \A m \in Mounts :
      LET i == Decision(memory["templates"], m) IN i # Nothing => i = Decision(Whole(i[1]), m)

Holds(i) == Cardinality({u \in Users : own[u] = i}) + Cardinality({u \in Users : src[u] = i})

(* A template outlives its removal as long as a source, a relay or a       *)
(* request has it; and its count is that of those who have it, so that the *)
(* last of them frees it, unless a relay has forgotten it.                 *)
HeldTemplates ==
  /\ \A u \in Users : own[u] \notin freed /\ src[u] \notin freed
  /\ Templates \cap freed = {}
  /\ \A i \in Items : IF i \in leaked THEN pins[i] >= Holds(i) ELSE pins[i] = Holds(i)
=============================================================================
