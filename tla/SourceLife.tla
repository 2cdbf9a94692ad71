----------------------------- MODULE SourceLife -----------------------------
(***************************************************************************)
(* What the registry of sources promises about the life of a source, with  *)
(* no list, no reference count and no owners: a source can be acquired     *)
(* while it is open, what is acquired stays in memory, and it is gone as   *)
(* soon as it is closed and released by everybody.  An agent may leave     *)
(* what it acquired to Nobody, who never releases it; and the promise may  *)
(* be void for a source, for good.  Sources says when either happens.      *)
(***************************************************************************)
CONSTANTS
  Objects,   (* the sources *)
  Agents,    (* the threads that acquire them *)
  Nobody     (* the holder that is left with what was not released *)

VARIABLES
  life,      (* the stage of life of each source *)
  holders    (* the threads that have acquired each source *)

lifeVars == <<life, holders>>

Stages == {"absent", "open", "closing", "gone", "void"}

Init ==
  /\ life = [s \in Objects |-> "absent"]
  /\ holders = [s \in Objects |-> {}]

Open(s) ==
  /\ life[s] = "absent"
  /\ life' = [life EXCEPT ![s] = "open"]
  /\ UNCHANGED holders

Acquire(a, s) ==
  /\ life[s] = "open" /\ a \notin holders[s]
  /\ holders' = [holders EXCEPT ![s] = @ \cup {a}]
  /\ UNCHANGED life

(* The last one to leave a closed source takes it out of memory.           *)
Release(a, s) ==
  /\ a \in holders[s]
  /\ holders' = [holders EXCEPT ![s] = @ \ {a}]
  /\ life' = [life EXCEPT ![s] =
       IF @ = "closing" /\ holders[s] = {a} THEN "gone" ELSE @]

(* An agent goes without releasing what it acquired.                       *)
Leave(a, s) ==
  /\ a \in holders[s]
  /\ holders' = [holders EXCEPT ![s] = (@ \ {a}) \cup {Nobody}]
  /\ UNCHANGED life

(* The promise is given up for one source.                                 *)
Void(s) ==
  /\ life[s] \in {"open", "closing"}
  /\ life' = [life EXCEPT ![s] = "void"]
  /\ holders' = [holders EXCEPT ![s] = {}]

Close(s) ==
  /\ life[s] = "open"
  /\ life' = [life EXCEPT ![s] = IF holders[s] = {} THEN "gone" ELSE "closing"]
  /\ UNCHANGED holders

Next ==
  \E s \in Objects :
    \/ Open(s) \/ Close(s) \/ Void(s)
    \/ \E a \in Agents \cup {Nobody} : Acquire(a, s)
    \/ \E a \in holders[s] \ {Nobody} : Release(a, s) \/ Leave(a, s)

Spec == Init /\ [][Next]_lifeVars
=============================================================================
