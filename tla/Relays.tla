------------------------------- MODULE Relays -------------------------------
(***************************************************************************)
(* A relay reads a stream from another server and feeds a mount point of   *)
(* this one (src/src/relays.c).  A relay thread calls _RelayProcess for    *)
(* each relay of the list again and again; the HTTP client inside it       *)
(* (src/httpserv/httpclnt.c) calls back with the header and the data, and  *)
(* looks names up through a thread of its own (src/httpserv/netresolv.c).  *)
(*                                                                         *)
(* One relay is a record; _RelayProcess maps it to the set of records it   *)
(* may leave, one for each way the network may answer.  What else touches  *)
(* a relay meanwhile is a step of its own: the resolver, listeners, the    *)
(* administrator who stops its source, resets or removes it, and time.     *)
(* ulLockFlag of a relay lets one thread at a time process it, so which    *)
(* thread that is does not matter here (RelayPool has the threads).        *)
(***************************************************************************)
EXTENDS Naturals, FiniteSets

CONSTANTS
  Relays,        (* the RELAY objects *)
  NoRelay,       (* no relay *)
  NailedUp,      (* those that read all the time *)
  Playlists,     (* those whose location may be an m3u file *)
  Numeric,       (* those whose location has a numeric address *)
  Stopped,       (* those whose source an administrator may stop *)
  Reset,         (* those an administrator may reset, *)
  Removed,       (* or remove *)
  Admins,        (* the threads that reset a relay *)
  MaxListeners,  (* bound: how many listeners a source has at most *)
  MaxLinked      (* bound: how many relays there are at once *)

ASSUME RelaysAssumption ==
  /\ NoRelay \notin Relays
  /\ NailedUp \cup Playlists \cup Numeric \cup Stopped \cup Reset \cup Removed \subseteq Relays
  /\ MaxListeners \in Nat /\ MaxLinked \in Nat

VARIABLES
  rel,         (* the relays *)
  resolving,   (* whose name ResolvThread looks up *)
  resetting    (* the relay an administrator has found in an error state *)

vars == <<rel, resolving, resetting>>

(* RELAY_STATE_*: "ERROR" stands for all the errors after which            *)
(* _RelayProcess tries again; the other two are LOCATION_FAILED and        *)
(* NO_TEMPLATE.                                                            *)
Errors == {"ERROR", "LOCATION_FAILED", "NO_TEMPLATE"}
RelayStates == {"IDLE", "WAIT_CLIENTS", "TRANSMIT", "URL_RECEIVED", "CONNECT"} \cup Errors

(* HTTPCLNT_STATE_*, the errors as one; "NULL" is psHTTPClnt == NULL.      *)
ClientStates == {"NULL", "SEARCH_NAME", "CONNECTING", "SEND_HEADER",
                 "READ_HEADER", "READ_BODY", "DONE", "ERROR"}

(* psURLFile: NULL, or how full its 256 bytes are.                         *)
FileStates == {"NULL", "empty", "part", "full"}

RelayRecords == [
  ulState : RelayStates,
  due     : BOOLEAN,             (* a time-out has passed since ulTimeStamp *)
  source  : BOOLEAN,             (* psSource # NULL, *)
  bStop   : BOOLEAN,             (* its bStop, *)
  clients : 0..MaxListeners,     (* and its ulClientsCount *)
  psHTTPClnt : ClientStates,
  psURLFile  : FileStates,
  lookup  : {"none", "queued", "taken"},  (* the item of the client's name *)
  late    : BOOLEAN,             (* one is taken whose client is freed *)
  orphans : BOOLEAN,             (* history: a client was overwritten *)
  linked  : BOOLEAN,             (* ppsSelf # NULL *)
  freed   : BOOLEAN]

TypeOK ==
  /\ rel \in [Relays -> RelayRecords]
  /\ resolving \in Relays \cup {NoRelay}
  /\ resetting \in [Admins -> Relays \cup {NoRelay}]

(* A relay as RelayNew and RelayReady leave it                             *)
RelayNew ==
  [ulState |-> "IDLE", due |-> FALSE, source |-> FALSE, bStop |-> FALSE,
   clients |-> 0, psHTTPClnt |-> "NULL", psURLFile |-> "NULL",
   lookup |-> "none", late |-> FALSE, orphans |-> FALSE,
   linked |-> TRUE, freed |-> FALSE]

(* The place of a relay that is gone, or not there yet                     *)
NoRelayHere == [RelayNew EXCEPT !.linked = FALSE, !.freed = TRUE]

Init ==
  /\ rel = [r \in Relays |-> NoRelayHere]
  /\ resolving = NoRelay
  /\ resetting = [a \in Admins |-> NoRelay]

(* What F makes of any of the outcomes S.                                  *)
Then(S, F(_)) == UNION {F(x) : x \in S}

----------------------------------------------------------------------------
(* The source *)

SourceCreated(x) == [x EXCEPT !.source = TRUE, !.bStop = FALSE, !.clients = 0]

(* Its listeners are sent away with it.                                    *)
SourceDestroyed(x) == [x EXCEPT !.source = FALSE, !.bStop = FALSE, !.clients = 0]

----------------------------------------------------------------------------
(* The HTTP client *)

(* _CloseConnection with an error, and HTTPClntProcess returns it          *)
Closed(x) == [x EXCEPT !.psHTTPClnt = "ERROR"]

(* HTTPClntDestroy: the name's item is found only if nobody has taken it.  *)
HTTPClntDestroy(x) ==
  [x EXCEPT !.psHTTPClnt = "NULL", !.lookup = "none",
            !.late = @ \/ (x.psHTTPClnt = "SEARCH_NAME" /\ x.lookup = "taken")]

(* HTTPClntCreate, its result in psHTTPClnt                                *)
HTTPClntCreate(x) ==
  [x EXCEPT !.psHTTPClnt = "DONE", !.lookup = "none",
            !.orphans = @ \/ x.psHTTPClnt # "NULL"]

(* What HTTPClntCBResolv, given the address, leaves as the state.          *)
Connected == {"SEND_HEADER", "CONNECTING", "ERROR"}

(* HTTPClntRequest: an invalid URL; an address: the connection is begun;   *)
(* a name: it is queued, and may be answered before the state says so.     *)
Request(r, x) ==
  LET byAddress == {[x EXCEPT !.psHTTPClnt = c] : c \in Connected}
      byName == {[x EXCEPT !.psHTTPClnt = "SEARCH_NAME", !.lookup = l] : l \in {"queued", "none"}}
  IN  {x} \cup (IF r \in Numeric \/ x.psURLFile # "NULL" THEN byAddress ELSE {})
          \cup (IF r \notin Numeric \/ x.psURLFile # "NULL" THEN byName ELSE {})

RequestOK(x) == x.psHTTPClnt \notin {"DONE", "ERROR"}

(* _HTTPHeader, and what HTTPClntProcess does with its answer              *)
HeaderPlaylist(r, x) ==
  IF r \in Playlists THEN {[x EXCEPT !.psURLFile = "empty", !.psHTTPClnt = "READ_BODY"]} ELSE {}

HeaderStream(r, x) ==
  IF x.source
  THEN {[x EXCEPT !.ulState = "TRANSMIT", !.psHTTPClnt = "READ_BODY"]}
  ELSE {IF r \in NailedUp
        THEN [SourceCreated(x) EXCEPT !.ulState = "TRANSMIT", !.psHTTPClnt = "READ_BODY"]
        ELSE [SourceCreated(x) EXCEPT !.ulState = "WAIT_CLIENTS", !.psHTTPClnt = "DONE"],
        [x EXCEPT !.ulState = "ERROR", !.psHTTPClnt = "DONE"]}

HeaderRefused(x) ==
  {[x EXCEPT !.ulState = e, !.psHTTPClnt = "DONE"] : e \in {"ERROR", "LOCATION_FAILED"}}

HTTPHeader(r, x) == HeaderPlaylist(r, x) \cup HeaderStream(r, x) \cup HeaderRefused(x)

(* _HTTPWrite into psURLFile; nothing fits: that was the last of it        *)
FileWrite(x, last) ==
  IF last \/ x.psURLFile = "full"
  THEN {[x EXCEPT !.ulState = "URL_RECEIVED"]}
  ELSE {[x EXCEPT !.psURLFile = f] : f \in IF x.psURLFile = "empty" THEN {"part", "full"} ELSE {"full"}}

(* _HTTPWrite into the source, after SourceWrite has taken the data: the   *)
(* last listener has left, or not.                                         *)
Written(r, x) ==
  IF r \notin NailedUp /\ x.clients = 0
  THEN [x EXCEPT !.ulState = "WAIT_CLIENTS", !.psHTTPClnt = "DONE"]
  ELSE x

(* A stopped source refuses the data; a format may find it invalid.        *)
StreamWrite(r, x, last) ==
  IF last THEN {Written(r, x)}
  ELSE IF x.bStop THEN {[x EXCEPT !.ulState = "IDLE", !.psHTTPClnt = "DONE"]}
  ELSE {Written(r, x), [x EXCEPT !.psHTTPClnt = "DONE"]}

HTTPWrite(r, x, last) ==
  LET y == [x EXCEPT !.due = FALSE]
  IN  IF y.psURLFile # "NULL" THEN FileWrite(y, last) ELSE StreamWrite(r, y, last)

(* HTTPClntProcess: as far as the network lets it go, stage by stage.  It  *)
(* returns an error exactly when it leaves the client in one.              *)
Connecting(x) ==
  IF x.psHTTPClnt = "CONNECTING"
  THEN {x, Closed(x), [x EXCEPT !.psHTTPClnt = "SEND_HEADER"]}
  ELSE {x}

SendHeader(x) ==
  IF x.psHTTPClnt = "SEND_HEADER"
  THEN {x, Closed(x), [x EXCEPT !.psHTTPClnt = "READ_HEADER"]}
  ELSE {x}

ReadHeader(r, x) ==
  IF x.psHTTPClnt = "READ_HEADER" THEN {x, Closed(x)} \cup HTTPHeader(r, x) ELSE {x}

(* The end of the connection is told to _HTTPWrite; the end of a body      *)
(* whose length the header gave is not.                                    *)
Done(S) == {[y EXCEPT !.psHTTPClnt = "DONE"] : y \in S}

ConnectionEnds(r, x) ==
  IF x.psHTTPClnt = "READ_BODY" THEN Done(HTTPWrite(r, x, TRUE)) ELSE {}

ReadBody(r, x) ==
  IF x.psHTTPClnt = "READ_BODY"
  THEN LET data == HTTPWrite(r, x, FALSE)
       IN  {x, Closed(x)} \cup data \cup Done(data)
             \cup Then({x} \cup data, LAMBDA y : ConnectionEnds(r, y))
  ELSE {x}

HTTPClntProcess(r, x) ==
  Then(Then(Then(Connecting(x), SendHeader), LAMBDA y : ReadHeader(r, y)),
       LAMBDA y : ReadBody(r, y))

----------------------------------------------------------------------------
(* _RelayProcess *)

(* In an error state: only time helps, and only after some errors.         *)
AfterError(x) == IF x.ulState = "ERROR" /\ x.due THEN [x EXCEPT !.ulState = "IDLE"] ELSE x

WantsConnection(x) ==
  \/ x.ulState \in {"IDLE", "URL_RECEIVED"}
  \/ x.ulState = "WAIT_CLIENTS" /\ x.clients # 0

(* TemplQuery, HTTPClntCreate, HTTPClntRequest, and what follows a failure *)
Requested(r, x) ==
  {[y EXCEPT !.psURLFile = "NULL",
             !.ulState = IF RequestOK(y) THEN "CONNECT" ELSE "LOCATION_FAILED",
             !.due = @ /\ ~RequestOK(y)]
    : y \in Request(r, HTTPClntCreate(x))}

(* Mutant: the source stays when the connection cannot even be begun.      *)
ConnectKeepsSource(r, x) ==
  Requested(r, x) \cup {[x EXCEPT !.ulState = "NO_TEMPLATE"]}

Connect(r, x) ==
  {IF y.ulState = "CONNECT" THEN y ELSE SourceDestroyed(y)
    : y \in Requested(r, x) \cup {[x EXCEPT !.ulState = "NO_TEMPLATE"]}}

(* bStop of the source: the relay starts again.                            *)
ObeyStop(x) ==
  IF x.ulState \in {"WAIT_CLIENTS", "TRANSMIT"} /\ x.bStop
  THEN [SourceDestroyed(x) EXCEPT !.ulState = "IDLE"]
  ELSE x

Live == {"TRANSMIT", "CONNECT"}

(* Mutant: only TRANSMIT has a time-out.                                   *)
TimedOutReading(x) ==
  IF x.due /\ x.psHTTPClnt # "ERROR" /\ x.ulState = "TRANSMIT"
  THEN [x EXCEPT !.ulState = "ERROR"]
  ELSE x

TimedOut(x) ==
  IF x.due /\ x.psHTTPClnt # "ERROR"
  THEN CASE x.ulState = "TRANSMIT" -> [x EXCEPT !.ulState = "ERROR"]
         [] x.ulState = "CONNECT"  -> [x EXCEPT !.ulState = "IDLE"]
         [] OTHER -> x
  ELSE x

Failed(x) ==
  IF \/ x.psHTTPClnt = "ERROR" /\ x.ulState \notin Errors
     \/ x.psHTTPClnt = "DONE" /\ x.ulState = "TRANSMIT"
  THEN [x EXCEPT !.ulState = "ERROR"]
  ELSE x

(* Left TRANSMIT and CONNECT: the source goes unless it waits for clients, *)
(* or psURLFile is there; psURLFile goes unless it was wanted; and the     *)
(* client goes.                                                            *)
(* Mutant of the next: WAIT_CLIENTS is forgotten.                          *)
DropSourceAlways(x) == IF x.psURLFile = "NULL" THEN SourceDestroyed(x) ELSE x

DropSource(x) ==
  IF x.ulState # "WAIT_CLIENTS" /\ x.psURLFile = "NULL" THEN SourceDestroyed(x) ELSE x

DropFile(x) == IF x.ulState # "URL_RECEIVED" THEN [x EXCEPT !.psURLFile = "NULL"] ELSE x

Finish(x) ==
  IF x.ulState \in Live THEN x
  ELSE [HTTPClntDestroy(DropFile(DropSource(x))) EXCEPT !.due = FALSE]

Transfer(r, x) ==
  IF x.ulState \in Live
  THEN {Finish(Failed(TimedOut(y))) : y \in HTTPClntProcess(r, x)}
  ELSE {x}

RelayProcess(r, x) ==
  IF x.ulState \in Errors THEN {AfterError(x)}
  ELSE Then(IF WantsConnection(x) THEN Connect(r, x) ELSE {x},
            LAMBDA y : Transfer(r, ObeyStop(y)))

Process(r) ==
  /\ rel[r].linked
  /\ \E x \in RelayProcess(r, rel[r]) : rel' = [rel EXCEPT ![r] = x]
  /\ UNCHANGED <<resolving, resetting>>

----------------------------------------------------------------------------
(* ResolvThread: it takes an item, and answers when the name is found out. *)

TakeItem(r) ==
  /\ resolving = NoRelay /\ rel[r].lookup = "queued"
  /\ resolving' = r
  /\ rel' = [rel EXCEPT ![r].lookup = "taken"]
  /\ UNCHANGED resetting

(* HTTPClntCBResolv; for a client that is gone it writes to freed memory,  *)
(* which is left out here.                                                 *)
HTTPClntCBResolv(r) ==
  /\ resolving = r
  /\ resolving' = NoRelay
  /\ IF rel[r].late
     THEN rel' = [rel EXCEPT ![r].late = FALSE]
     ELSE IF rel[r].lookup = "taken"
     THEN \E c \in Connected :
            rel' = [rel EXCEPT ![r].lookup = "none", ![r].psHTTPClnt = c]
     ELSE UNCHANGED rel
  /\ UNCHANGED resetting

----------------------------------------------------------------------------
(* Listeners, and time *)

Attach(r) ==
  /\ rel[r].source /\ ~rel[r].bStop /\ rel[r].clients < MaxListeners
  /\ rel' = [rel EXCEPT ![r].clients = @ + 1]
  /\ UNCHANGED <<resolving, resetting>>

Leave(r) ==
  /\ rel[r].clients > 0
  /\ rel' = [rel EXCEPT ![r].clients = @ - 1]
  /\ UNCHANGED <<resolving, resetting>>

Elapse(r) ==
  /\ rel[r].linked /\ ~rel[r].due
  /\ rel' = [rel EXCEPT ![r].due = TRUE]
  /\ UNCHANGED <<resolving, resetting>>

----------------------------------------------------------------------------
(* The administrator *)

SourceStop(r) ==
  /\ r \in Stopped /\ rel[r].source
  /\ rel' = [rel EXCEPT ![r].bStop = TRUE]
  /\ UNCHANGED <<resolving, resetting>>

(* _RelayDestroy                                                           *)
Freed(x) ==
  LET y == IF x.psHTTPClnt = "NULL" THEN x ELSE HTTPClntDestroy(x)
  IN  [NoRelayHere EXCEPT !.late = y.late]

(* RelayReset asks for the state, and writes it without looking again.     *)
ResetFound(a, r) ==
  /\ r \in Reset /\ resetting[a] = NoRelay
  /\ rel[r].linked /\ rel[r].ulState \in Errors
  /\ resetting' = [resetting EXCEPT ![a] = r]
  /\ UNCHANGED <<rel, resolving>>

ResetDone(a) ==
  /\ resetting[a] # NoRelay
  /\ resetting' = [resetting EXCEPT ![a] = NoRelay]
  /\ LET r == resetting[a]
         x == [rel[r] EXCEPT !.ulState = "IDLE"]
         last == ~x.linked /\ \A b \in Admins \ {a} : resetting[b] # r
     IN  rel' = [rel EXCEPT ![r] = IF last THEN Freed(x) ELSE x]
  /\ UNCHANGED resolving

(* CtrlQueryTextRemoveRelay, RelayDestroy: freed once nobody holds it.     *)
RelayDestroy(r) ==
  /\ r \in Removed /\ rel[r].linked
  /\ LET x == [rel[r] EXCEPT !.linked = FALSE]
     IN  rel' = [rel EXCEPT ![r] = IF \E a \in Admins : resetting[a] = r THEN x ELSE Freed(x)]
  /\ UNCHANGED <<resolving, resetting>>

(* _ApplyXMLNodeRelay: a relay is added.                                   *)
RelayReady(r) ==
  /\ rel[r].freed
  /\ Cardinality({q \in Relays : ~rel[q].freed}) < MaxLinked
  /\ rel' = [rel EXCEPT ![r] = [RelayNew EXCEPT !.late = rel[r].late]]
  /\ UNCHANGED <<resolving, resetting>>

----------------------------------------------------------------------------

Administrator ==
  \/ \E r \in Relays : SourceStop(r) \/ RelayDestroy(r) \/ RelayReady(r)
  \/ \E a \in Admins : ResetDone(a) \/ \E r \in Relays : ResetFound(a, r)

Next ==
  \/ \E r \in Relays : Process(r) \/ Attach(r) \/ Leave(r) \/ Elapse(r)
  \/ \E r \in Relays : TakeItem(r) \/ HTTPClntCBResolv(r)
  \/ Administrator

Spec == Init /\ [][Next]_vars

(* A relay thread visits each relay again and again, and time passes.      *)
(* Nothing is assumed of the network, of the resolver or of listeners.     *)
FairSpec == Spec /\ \A r \in Relays : WF_vars(Process(r)) /\ WF_vars(Elapse(r))

----------------------------------------------------------------------------
(* Properties *)

(* _RelayProcess follows psSource in WAIT_CLIENTS and TRANSMIT and         *)
(* psHTTPClnt in TRANSMIT and CONNECT without a test: they are there,      *)
(* whatever the network, the administrator and the clock have done.  The   *)
(* one connection of a relay that nobody stops or resets is never          *)
(* overwritten by another; and a relay an administrator has found is not   *)
(* freed under his hands.                                                  *)
PointersAreSet ==
  /\ \A r \in Relays : rel[r].linked =>
       /\ rel[r].ulState \in {"WAIT_CLIENTS", "TRANSMIT"} => rel[r].source
       /\ rel[r].ulState \in Live => rel[r].psHTTPClnt # "NULL"
  /\ \A r \in Relays \ (Stopped \cup Reset) : ~rel[r].orphans
  /\ \A a \in Admins : resetting[a] # NoRelay => ~rel[resetting[a]].freed

(* No mount point without a feeder: in an error state there is no source,  *)
(* so no listener hangs on one, unless the location sent an m3u file.      *)
ErrorsDropListeners ==
  \A r \in Relays \ Playlists : rel[r].ulState \in Errors => ~rel[r].source

(* No attempt to connect, no error that may pass and no restart lasts for  *)
(* ever, whatever was lost on the way; nor does a relay that is not        *)
(* nailed-up go on reading once nobody listens.                            *)
MovesOn ==
  /\ \A r \in Relays, s \in {"IDLE", "CONNECT", "ERROR"} :
       rel[r].ulState = s ~> rel[r].ulState # s \/ ~rel[r].linked
  /\ \A r \in Relays \ NailedUp :
       rel[r].ulState = "TRANSMIT" /\ rel[r].clients = 0
         ~> rel[r].ulState # "TRANSMIT" \/ rel[r].clients > 0 \/ ~rel[r].linked

(* The server sends the connection of a relay away with its last use: none *)
(* is left open behind the relay's back.                                   *)
NoneLeftOpen == \A r \in Relays : ~rel[r].orphans

(* A location may be an m3u file: once it is there, its address is used.   *)
PlaylistTaken ==
  \A r \in Relays : rel[r].psHTTPClnt = "DONE" => rel[r].ulState # "CONNECT"

(* A name is never answered to a client that is gone.                      *)
AnswersTheLiving == \A r \in Relays : ~rel[r].late
=============================================================================
