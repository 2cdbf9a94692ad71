-------------------------------- MODULE Ports --------------------------------
(***************************************************************************)
(* The listening sockets (src/httpserv/netserv.c), the thread that finds   *)
(* the addresses of names (netresolv.c) and the SHOUTcast ports            *)
(* (src/src/shoutserv.c).  Administrators replace the section general of   *)
(* the configuration, request threads accept connections, and the main     *)
(* thread takes over those that came to a SHOUTcast port.                  *)
(*                                                                         *)
(* A step is what is done under hmtxBindList, hmtxShoutMountPointsList or  *)
(* hmtxResolvList, except that every accept is a step of its own: it may   *)
(* wait, with hmtxBindList locked.                                         *)
(*                                                                         *)
(* The bytes of a connection and its address are left out, and so are the  *)
(* ports that other programs use.                                          *)
(***************************************************************************)
EXTENDS Naturals, Sequences, SequencesExt, FiniteSets

CONSTANTS
  Configs,      (* what an administrator may give: sequences of Entry *)
  Addresses,    (* the interfaces *)
  AnyAddr,          (* no interface in particular: pszAddr is NULL *)
  Names,        (* the interfaces given by a name *)
  Handles,      (* the numbers of listening sockets *)
  Guests,       (* the connections that come *)
  Threads,      (* the request threads that accept *)
  Admins,       (* the request threads that serve an administrator *)
  Clients,      (* the HTTP clients of relays *)
  Server,       (* sNetHTTPServ *)
  None,         (* nothing, NULL *)
  MaxApplies    (* bound: how often the section is replaced *)

Entry  == [addr : Addresses, port : Nat, shout : BOOLEAN]
NoSock == 0

ASSUME PortsAssumption ==
  /\ Configs \subseteq Seq(Entry) /\ AnyAddr \in Addresses /\ Names \subseteq Addresses \ {AnyAddr}
  /\ Handles \subseteq Nat \ {NoSock}
  /\ None \notin Guests \cup Clients \cup Configs /\ Server \notin Clients \cup {None}
  /\ None \notin [obj : Clients \cup {Server, None}, name : Names]
  /\ MaxApplies \in Nat

VARIABLES
  shares,     (* does the system let two sockets listen on one port? *)
  binds,      (* sBindList: interface, port, and the socket if bReady *)
  port,       (* of each listening socket that is open *)
  backlog,    (* the connections that wait at each *)
  slots,      (* sShoutMountPointsList: the connection that waits at each port *)
  guest,      (* where each connection is *)
  pc, ready,  (* of each accepting thread: where it is, its fd_set *)
  giving,     (* the configuration an administrator is applying *)
  applies, inForce,         (* history: how many were applied, the last one *)
  queue, looking, client,   (* pasResolvList, the item taken out, who asks *)
  excuses     (* history: which of the events below has happened *)

sockets  == <<shares, binds, port>>
doors    == <<backlog, slots, guest>>
threads  == <<pc, ready>>
admins   == <<giving, applies, inForce>>
resolver == <<queue, looking, client>>
vars     == <<sockets, doors, threads, admins, resolver, excuses>>

(* "inuse"    a socket could not listen: another one did on that port;     *)
(* "doubled"  an item was kept that had no socket and waited for no name:  *)
(*            its port was given twice, or could not be had before;        *)
(* "unknown"  a name was not found;                                        *)
(* "reused"   a socket got the number of one that a thread saw ready;      *)
(* "left"     a connection a thread saw was given up;                      *)
(* "overlap"  two administrators replaced the section at once;             *)
(* "taken"    a connection came to a SHOUTcast port before the last one    *)
(*            was taken over;                                              *)
(* "dying"    a client was destroyed while its name was looked up.         *)
Excuses == {"inuse", "doubled", "unknown", "reused", "left", "overlap", "taken", "dying"}

TypeOK ==
  /\ shares \in BOOLEAN
  /\ binds \in Seq([addr : Addresses, port : Nat, sock : Handles \cup {NoSock}])
  /\ DOMAIN port \subseteq Handles /\ DOMAIN backlog = DOMAIN port
  /\ \A h \in DOMAIN port : backlog[h] \in Seq(Guests)
  /\ \A p \in DOMAIN slots : slots[p] \in Guests \cup {None}
  /\ guest \in [Guests -> {"away", "waiting", "http", "slot", "auth", "source", "closed", "lost"}]
  /\ pc \in [Threads -> {"idle", "selecting", "selected", "accepting"}]
  /\ ready \in [Threads -> SUBSET Handles]
  /\ giving \in [Admins -> Configs \cup {None}] /\ inForce \in Configs \cup {None}
  /\ applies \in 0..MaxApplies
  /\ queue \in Seq([obj : Clients \cup {Server, None}, name : Names])
  /\ client \in [Clients -> {"none", "asking", "answered", "gone"}]
  /\ excuses \subseteq Excuses

Init ==
  /\ shares \in BOOLEAN
  /\ binds = << >> /\ port = << >> /\ backlog = << >> /\ slots = << >>
  /\ guest = [g \in Guests |-> "away"]
  /\ pc = [t \in Threads |-> "idle"] /\ ready = [t \in Threads |-> {}]
  /\ giving = [a \in Admins |-> None] /\ applies = 0 /\ inForce = None
  /\ queue = << >> /\ looking = None /\ client = [c \in Clients |-> "none"]
  /\ excuses = {}

----------------------------------------------------------------------------
(* Sockets *)

First(S) == CHOOSE k \in S : \A j \in S : k <= j

(* hmtxBindList is free: nobody is accepting.                              *)
Unlocked == \A t \in Threads : pc[t] # "accepting"

(* A state of the list while it is rebuilt: the sockets that are open, the *)
(* items made so far, and what goes with them.                             *)
Work == [new |-> << >>, old |-> binds, port |-> port, queue |-> queue, notes |-> {}]

Unready(it) == [addr |-> it.addr, port |-> it.port, sock |-> NoSock]

(* _MakeServSock: the interface is not used, a socket listens on all; or   *)
(* none can be made, or bound.                                             *)
_MakeServSock(w, it) ==
  LET used == \E h \in DOMAIN w.port : w.port[h] = it.port
      free == Handles \ DOMAIN w.port
      h    == First(free)
  IN IF (used /\ ~shares) \/ free = {}
     THEN [w EXCEPT !.new = Append(@, Unready(it)), !.notes = @ \cup {"inuse"}]
     ELSE [w EXCEPT !.new = Append(@, [Unready(it) EXCEPT !.sock = h]),
                    !.port = [x \in DOMAIN @ \cup {h} |-> IF x = h THEN it.port ELSE @[x]],
                    !.notes = @ \cup {e \in {"reused"} : \E t \in Threads :
                                        pc[t] = "selected" /\ h \in ready[t]}]

(* An item of the new list takes the socket of an old one for the same     *)
(* interface and port, which is left without interface and socket; or it   *)
(* gets a new socket, at once or when the name is found.                   *)
Rebuilt(w, it) ==
  LET same == {k \in DOMAIN w.old : w.old[k].addr = it.addr /\ w.old[k].port = it.port}
      k    == First(same)
  IN CASE same # {} ->
            [w EXCEPT !.new = Append(@, w.old[k]),
                      !.old = [@ EXCEPT ![k] = [addr |-> AnyAddr, port |-> it.port, sock |-> NoSock]],
                      !.notes = @ \cup {e \in {"doubled"} : w.old[k].sock = NoSock /\ it.addr \notin Names}]
       [] same = {} /\ it.addr \in Names ->
            [w EXCEPT !.new = Append(@, Unready(it)),
                      !.queue = <<[obj |-> Server, name |-> it.addr]>> \o @]
       [] OTHER -> _MakeServSock(w, it)

(* The list gone through, an item after the other.                         *)
Through(Make(_, _), items) ==
  LET w[k \in 0..Len(items)] == IF k = 0 THEN Work ELSE Make(w[k - 1], items[k])
  IN  w[Len(items)]

(* mutant: a socket that is kept is closed with the old list *)
LeftOverAll(w) == {binds[k].sock : k \in DOMAIN binds} \ {NoSock}

(* The sockets that are closed with the old list.                          *)
LeftOver(w) == {w.old[k].sock : k \in DOMAIN w.old} \ {NoSock}

(* What the sockets that are closed and opened do to those who wait there. *)
Listen(open) ==
  /\ port' = open
  /\ backlog' = [h \in DOMAIN open |-> IF h \in DOMAIN port THEN backlog[h] ELSE << >>]
  /\ guest' = [g \in Guests |-> IF \E h \in DOMAIN port \ DOMAIN open : g \in Range(backlog[h])
                                THEN "closed" ELSE guest[g]]

(* The list of an entry: with a SHOUTcast mount point, the next port too.  *)
BindsOf(cfg) ==
  FlattenSeq([k \in DOMAIN cfg |->
    <<[addr |-> cfg[k].addr, port |-> cfg[k].port]>> \o
    IF cfg[k].shout THEN <<[addr |-> cfg[k].addr, port |-> cfg[k].port + 1]>> ELSE << >>])

ShoutPorts(cfg) == {cfg[k].port + 1 : k \in {j \in DOMAIN cfg : cfg[j].shout}}

(* _ApplyXMLNodeGeneral: first the sockets, then the mount points.         *)
Give(a) ==
  /\ giving[a] = None /\ applies < MaxApplies /\ Unlocked
  /\ \E cfg \in Configs :
       LET w    == Through(Rebuilt, BindsOf(cfg))
           open == [h \in DOMAIN w.port \ LeftOver(w) |-> w.port[h]]
       IN /\ binds' = w.new /\ queue' = w.queue /\ Listen(open)
          /\ giving' = [giving EXCEPT ![a] = cfg] /\ inForce' = cfg
          /\ excuses' = excuses \cup w.notes \cup
                        {e \in {"overlap"} : \E b \in Admins : giving[b] # None}
  /\ applies' = applies + 1
  /\ UNCHANGED <<shares, slots, threads, looking, client>>

(* ShoutServMountPointsListApply closes the connections that wait.         *)
GiveMounts(a) ==
  /\ giving[a] # None
  /\ slots' = [p \in ShoutPorts(giving[a]) |-> None]
  /\ guest' = [g \in Guests |-> IF guest[g] = "slot" THEN "closed" ELSE guest[g]]
  /\ giving' = [giving EXCEPT ![a] = None]
  /\ UNCHANGED <<sockets, backlog, threads, applies, inForce, resolver, excuses>>
----------------------------------------------------------------------------
(* Connections: NetServGetClientSockets and _AcceptSocketCB *)

Arrive(g) ==
  /\ guest[g] = "away"
  /\ \E h \in DOMAIN port : backlog' = [backlog EXCEPT ![h] = Append(@, g)]
  /\ guest' = [guest EXCEPT ![g] = "waiting"]
  /\ UNCHANGED <<sockets, slots, threads, admins, resolver, excuses>>

GiveUp(g) ==
  /\ guest[g] = "waiting"
  /\ \E h \in DOMAIN port :
       /\ g \in Range(backlog[h])
       /\ backlog' = [backlog EXCEPT ![h] = RemoveFirst(@, g)]
       /\ excuses' = excuses \cup {e \in {"left"} : \E t \in Threads :
                        pc[t] \in {"selected", "accepting"} /\ h \in ready[t]}
  /\ guest' = [guest EXCEPT ![g] = "closed"]
  /\ UNCHANGED <<sockets, slots, threads, admins, resolver>>

(* mutant: ulGetClientSocketsLock is not looked at *)
GetSocketsUnlocked(t) ==
  /\ pc[t] = "idle" /\ Unlocked
  /\ ready' = [ready EXCEPT ![t] = DOMAIN port]
  /\ pc' = [pc EXCEPT ![t] = "selecting"]
  /\ UNCHANGED <<sockets, doors, admins, resolver, excuses>>

(* One thread at a time (ulGetClientSocketsLock of requests.c) takes down  *)
(* which sockets there are, ...                                            *)
GetSockets(t) ==
  /\ pc[t] = "idle" /\ Unlocked /\ \A u \in Threads : pc[u] = "idle"
  /\ ready' = [ready EXCEPT ![t] = DOMAIN port]
  /\ pc' = [pc EXCEPT ![t] = "selecting"]
  /\ UNCHANGED <<sockets, doors, admins, resolver, excuses>>

(* ... waits without the lock until one is ready (or time is up, or one of *)
(* them is closed) ...                                                     *)
SysSelect(t) ==
  LET hits == {h \in ready[t] \cap DOMAIN port : backlog[h] # << >>} IN
  /\ pc[t] = "selecting"
  /\ IF hits = {} \/ ~(ready[t] \subseteq DOMAIN port)
       THEN pc' = [pc EXCEPT ![t] = "idle"] /\ ready' = [ready EXCEPT ![t] = {}]
       ELSE pc' = [pc EXCEPT ![t] = "selected"] /\ ready' = [ready EXCEPT ![t] = hits]
  /\ UNCHANGED <<sockets, doors, admins, resolver, excuses>>

GoAccept(t) ==
  /\ pc[t] = "selected" /\ Unlocked
  /\ pc' = [pc EXCEPT ![t] = "accepting"]
  /\ UNCHANGED <<sockets, doors, ready, admins, resolver, excuses>>

(* The sockets a thread has still to accept on.                            *)
Todo(t) == {k \in DOMAIN binds : binds[k].sock \in ready[t] \ {NoSock}}

(* mutant: a mount point that is taken is taken over by the next one *)
AcceptSocketTakesOver(g, p) ==
  IF p \in DOMAIN slots
    THEN /\ slots' = [slots EXCEPT ![p] = g]
         /\ guest' = [guest EXCEPT ![g] = "slot"]
         /\ UNCHANGED excuses
    ELSE guest' = [guest EXCEPT ![g] = "http"] /\ UNCHANGED <<slots, excuses>>

(* The connection of a SHOUTcast port waits for the main thread; if one    *)
(* waits already, nobody has the new one any more.                         *)
_AcceptSocketCB(g, p) ==
  IF p \in DOMAIN slots
    THEN IF slots[p] = None
           THEN /\ slots' = [slots EXCEPT ![p] = g]
                /\ guest' = [guest EXCEPT ![g] = "slot"]
                /\ UNCHANGED excuses
           ELSE /\ guest' = [guest EXCEPT ![g] = "lost"]
                /\ excuses' = excuses \cup {"taken"}
                /\ UNCHANGED slots
    ELSE guest' = [guest EXCEPT ![g] = "http"] /\ UNCHANGED <<slots, excuses>>

(* ... and accepts one connection on each of those that are in the list.   *)
Accept(t) ==
  LET h == binds[First(Todo(t))].sock IN
  /\ pc[t] = "accepting" /\ Todo(t) # {} /\ backlog[h] # << >>
  /\ backlog' = [backlog EXCEPT ![h] = Tail(@)]
  /\ _AcceptSocketCB(Head(backlog[h]), port[h])
  /\ ready' = [ready EXCEPT ![t] = @ \ {h}]
  /\ UNCHANGED <<sockets, pc, admins, resolver>>

Accepted(t) ==
  /\ pc[t] = "accepting" /\ Todo(t) = {}
  /\ pc' = [pc EXCEPT ![t] = "idle"]
  /\ ready' = [ready EXCEPT ![t] = {}]
  /\ UNCHANGED <<sockets, doors, admins, resolver, excuses>>

(* ShoutLoop takes over the connections that wait, ...                     *)
ShoutLoop ==
  /\ \E p \in DOMAIN slots : slots[p] # None
  /\ slots' = [p \in DOMAIN slots |-> None]
  /\ guest' = [g \in Guests |-> IF guest[g] = "slot" THEN "auth" ELSE guest[g]]
  /\ UNCHANGED <<sockets, backlog, threads, admins, resolver, excuses>>

(* ... which become sources, or are closed: refused, broken, or late.      *)
_AuthSourceReadAuth(g) ==
  /\ guest[g] = "auth"
  /\ \E to \in {"source", "closed"} : guest' = [guest EXCEPT ![g] = to]
  /\ UNCHANGED <<sockets, backlog, slots, threads, admins, resolver, excuses>>

_AuthSourceDestroy(g) ==
  /\ guest[g] = "source"
  /\ guest' = [guest EXCEPT ![g] = "closed"]
  /\ UNCHANGED <<sockets, backlog, slots, threads, admins, resolver, excuses>>

----------------------------------------------------------------------------
(* Names: NetResolv, NetRemoveObject, ResolvThread *)

Ask(c) ==
  /\ client[c] = "none"
  /\ \E n \in Names : queue' = <<[obj |-> c, name |-> n]>> \o queue
  /\ client' = [client EXCEPT ![c] = "asking"]
  /\ UNCHANGED <<sockets, doors, threads, admins, looking, excuses>>

(* mutant: only the newest item forgets the object *)
RemoveFromHead(obj) ==
  queue' = [k \in DOMAIN queue |->
              IF k = 1 /\ queue[k].obj = obj THEN [queue[k] EXCEPT !.obj = None] ELSE queue[k]]

(* The items that wait forget the object; the one that was taken out does  *)
(* not.                                                                    *)
NetRemoveObject(obj) ==
  queue' = [k \in DOMAIN queue |->
              IF queue[k].obj = obj THEN [queue[k] EXCEPT !.obj = None] ELSE queue[k]]

Leave(c) ==
  /\ client[c] \in {"asking", "answered"}
  /\ NetRemoveObject(c)
  /\ client' = [client EXCEPT ![c] = "gone"]
  /\ excuses' = excuses \cup {e \in {"dying"} : looking # None /\ looking.obj = c}
  /\ UNCHANGED <<sockets, doors, threads, admins, looking>>

TakeItem ==
  /\ looking = None /\ queue # << >>
  /\ looking' = IF Head(queue).obj = None THEN None ELSE Head(queue)
  /\ queue' = Tail(queue)
  /\ UNCHANGED <<sockets, doors, threads, admins, client, excuses>>

(* CBResolv: all that wait for the name get their sockets.                 *)
Remade(w, it) ==
  IF it.addr = looking.name /\ it.sock = NoSock
    THEN _MakeServSock(w, it) ELSE [w EXCEPT !.new = Append(@, it)]

CBResolv ==
  LET w == Through(Remade, binds)
  IN /\ Unlocked
     /\ binds' = w.new
     /\ Listen(w.port)
     /\ excuses' = excuses \cup w.notes
     /\ UNCHANGED <<shares, slots, client>>

HTTPClntCBResolv ==
  /\ client' = [client EXCEPT ![looking.obj] = IF @ = "asking" THEN "answered" ELSE @]
  /\ UNCHANGED <<sockets, doors, excuses>>

Found ==
  /\ looking # None
  /\ IF looking.obj = Server THEN CBResolv ELSE HTTPClntCBResolv
  /\ looking' = None
  /\ UNCHANGED <<threads, admins, queue>>

NotFound ==
  /\ looking # None
  /\ IF looking.obj = Server
       THEN excuses' = excuses \cup {"unknown"} /\ UNCHANGED <<sockets, doors, client>>
       ELSE HTTPClntCBResolv
  /\ looking' = None
  /\ UNCHANGED <<threads, admins, queue>>

ThreadStep(t) == GetSockets(t) \/ SysSelect(t) \/ GoAccept(t) \/ Accept(t) \/ Accepted(t)

Next ==
  \/ \E a \in Admins : Give(a) \/ GiveMounts(a)
  \/ \E g \in Guests : Arrive(g) \/ GiveUp(g) \/ _AuthSourceReadAuth(g) \/ _AuthSourceDestroy(g)
  \/ \E t \in Threads : ThreadStep(t)
  \/ \E c \in Clients : Ask(c) \/ Leave(c)
  \/ ShoutLoop \/ TakeItem \/ Found \/ NotFound

Spec == Init /\ [][Next]_vars

----------------------------------------------------------------------------

Quiet == \A a \in Admins : giving[a] = None

Pending == looking # None \/ queue # << >>

(* The sockets that are open are those of the list, each once and on its   *)
(* port, whatever was kept, closed and opened; and the list is the         *)
(* configuration: when all names are known the server listens wherever it  *)
(* says, unless a port was not free in time.                               *)
Listening ==
  /\ {binds[k].sock : k \in DOMAIN binds} \ {NoSock} = DOMAIN port
  /\ \A k, j \in DOMAIN binds : k # j /\ binds[k].sock # NoSock => binds[k].sock # binds[j].sock
  /\ \A k \in DOMAIN binds : binds[k].sock # NoSock => port[binds[k].sock] = binds[k].port
  /\ inForce # None =>
       [k \in DOMAIN binds |-> [addr |-> binds[k].addr, port |-> binds[k].port]] = BindsOf(inForce)
  /\ ~Pending /\ excuses \cap {"inuse", "doubled", "unknown"} = {} =>
       \A k \in DOMAIN binds : binds[k].sock # NoSock

(* No thread waits for a connection with the list locked: what it saw      *)
(* ready still is, since nobody else accepts, unless the socket is not the *)
(* one it saw or the connection was given up.                              *)
AcceptReturns ==
  \A t \in Threads : pc[t] = "accepting" /\ Todo(t) # {} =>
    backlog[binds[First(Todo(t))].sock] # << >> \/ excuses \cap {"reused", "left"} # {}

(* Who comes to a SHOUTcast port is received there: the mount points are   *)
(* those of the configuration, and a connection is in one place only.      *)
Doors ==
  /\ Quiet /\ inForce # None /\ "overlap" \notin excuses => DOMAIN slots = ShoutPorts(inForce)
  /\ \A g \in Guests :
       /\ (guest[g] = "slot") = (Cardinality({p \in DOMAIN slots : slots[p] = g}) = 1)
       /\ (guest[g] = "waiting") = (\E h \in DOMAIN port : g \in Range(backlog[h]))
       /\ guest[g] = "lost" => "taken" \in excuses

(* A client is called back only as long as it is there, unless it was      *)
(* destroyed while its name was looked up.                                 *)
CallsTheLiving ==
  looking # None /\ looking.obj \in Clients =>
    client[looking.obj] # "gone" \/ "dying" \in excuses
=============================================================================
