---------------------------- MODULE Connections ----------------------------
(***************************************************************************)
(* The HTTP connections: src/httpserv/requests.c, with what its call-backs *)
(* (httpserv.c) and the objects behind them (ssfileres.c, fileres.c) tell  *)
(* it.                                                                     *)
(*                                                                         *)
(* The request threads share a list of connections.  One of them at a time *)
(* destroys what is dead or too old and takes in new ones, under the write *)
(* lock; all of them walk the list under the read lock and serve, for one  *)
(* read or one write, each connection nobody else is serving.  A walk      *)
(* looks at bDead, then takes the connection's lock flag, then serves it:  *)
(* three steps, as others may come in between.                             *)
(*                                                                         *)
(* A connection is a record with the fields of the code, and               *)
(*   timed     ulTimeout # 0: a sweep may find its time over               *)
(*   more      llLength > 0                                                *)
(*   pending   ulBufPos > ulTransmitPos: bytes to hand on or to send       *)
(*   head      of the answer only the head has gone to the buffer: it has  *)
(*             room for more, later it may be full                         *)
(*   asked     how the request says where its body ends                    *)
(*   applied   history: has the configuration of a POST been applied?      *)
(*   open      history: request objects made for it and not destroyed      *)
(* pRequest is the kind of object, or "NULL"; a response code is its class.*)
(***************************************************************************)
EXTENDS Integers, FiniteSets, SequencesExt

CONSTANTS
  Threads,     (* the request threads *)
  Conns,       (* the CONNECTIONs there is memory for *)
  Requests,    (* the kinds of request that lead to an object *)
  Nothing      (* no connection *)

ASSUME ConnectionsAssumption ==
  /\ IsFiniteSet(Threads) /\ IsFiniteSet(Conns) /\ Nothing \notin Conns
  /\ Requests \subseteq {"source", "post", "page", "file", "stream", "log", "meta"}

VARIABLES
  conn, psConnList,        (* the CONNECTIONs; the list of those in use *)
  ulGetClientSocketsLock,  (* some thread sweeps and accepts *)
  pc, psConnection,        (* where each thread is, and its place in the list *)
  accepted,                (* of each thread: sockets accepted, not in the list yet *)
  sockets,                 (* history: sockets accepted and not closed *)
  bReqStop, finished       (* ReqDone has begun, has ended *)

conns   == <<conn, psConnList>>
threads == <<pc, psConnection>>
accepts == <<ulGetClientSocketsLock, accepted, sockets>>
vars    == <<conns, threads, accepts, bReqStop, finished>>

Codes    == {"NULL", "100", "200", "err"}
Framings == {"none", "zero", "some", "chunked"}

Connection ==
  [ulLockFlag : BOOLEAN, bDead : BOOLEAN, timed : BOOLEAN,
   pRequest : Requests \cup {"NULL"}, rcRespCode : Codes, bSendEOF : BOOLEAN,
   bKeepAlive : BOOLEAN, bChunked : BOOLEAN, bClient11 : BOOLEAN, bLength : BOOLEAN,
   more : BOOLEAN, pending : BOOLEAN, head : BOOLEAN, asked : Framings,
   applied : {"no", "whole", "part", "twice"}, open : 0..1]

TypeOK ==
  /\ conn \in [Conns -> Connection] /\ psConnList \in BoundedSeq(Conns, Cardinality(Conns))
  /\ ulGetClientSocketsLock \in BOOLEAN
  /\ pc \in [Threads -> {"top", "sweep", "accept", "insert", "enter", "look", "try",
                         "serve", "exit", "gone"}]
  /\ psConnection \in [Threads -> Conns \cup {Nothing}]
  /\ accepted \in [Threads -> 0..1] /\ sockets \in 0..Cardinality(Conns) + 1
  /\ bReqStop \in BOOLEAN /\ finished \in BOOLEAN

(* Memory from malloc: what _ConnectionNew does not set may be anything.   *)
Junk(b) ==
  [ulLockFlag |-> FALSE, bDead |-> FALSE, timed |-> FALSE, pRequest |-> "NULL",
   rcRespCode |-> "NULL", bSendEOF |-> b, bKeepAlive |-> b, bChunked |-> b,
   bClient11 |-> b, bLength |-> b, more |-> b, pending |-> FALSE, head |-> FALSE,
   asked |-> "none", applied |-> "no", open |-> 0]

(* ReqInit is over and its threads have counted themselves in.             *)
Init ==
  /\ \E b \in BOOLEAN : conn = [c \in Conns |-> Junk(b)]
  /\ psConnList = <<>> /\ ulGetClientSocketsLock = FALSE
  /\ pc = [t \in Threads |-> "top"] /\ psConnection = [t \in Threads |-> Nothing]
  /\ accepted = [t \in Threads |-> 0] /\ sockets = 0
  /\ bReqStop = FALSE /\ finished = FALSE

----------------------------------------------------------------------------
(* What the objects answer                                                 *)

Dead(c) == [c EXCEPT !.bDead = TRUE]

(* CBReqNew: the code for each kind of object that FileResOpen makes.  A   *)
(* page may be an error's; SOURCE answers "200 ICES", which _ConnectionRead*)
(* sends and takes for a 100.                                              *)
CbNew(kind) == CASE kind = "source" -> {"100"}
                 [] kind = "post"   -> {"NULL"}
                 [] kind = "page"   -> {"200", "err"}
                 [] OTHER           -> {"200"}

(* Does the object know its length, for the answer's Content-Length?       *)
SizeKnown(kind) == kind \in {"post", "page", "file"}

(* CBReqWrite with bytes.  The page's POST wants more, or has an error or  *)
(* finds no '=' yet, which both end it; a source ends when it is stopped.  *)
CbWrite(c) ==
  {[c EXCEPT !.rcRespCode = r] : r \in CASE c.pRequest = "source" -> {"NULL", "err"}
                                         [] c.pRequest = "post"   -> {"NULL", "200"}
                                         [] OTHER                 -> {"err"}}

(* CBReqWrite without any: a POST is applied, the "whole" of it or a "part".*)
CbEnd(c, what) ==
  IF c.pRequest = "post"
    THEN {[c EXCEPT !.rcRespCode = "200", !.applied = IF @ # "no" THEN "twice" ELSE what]}
    ELSE CbWrite(c)

(* May the object give bytes?  None beyond the length.                     *)
Room(c) == c.bLength => c.more

(* CBReqRead with room for some bytes or, if ~room, for none: how it ends, *)
(* whether it gives any, and whether the object has more.  An object       *)
(* without FmRead, and a stream that has ended, leave the count as it was. *)
CbRead(c) ==
  LET room == Room(c) IN
  CASE c.pRequest \in {"source", "meta"} -> [eof : {TRUE}, some : {room}, left : {FALSE}]
    [] c.pRequest \in {"post", "page"} ->
         IF room THEN {[eof |-> ~l, some |-> TRUE, left |-> l] : l \in BOOLEAN}
                 ELSE [eof : {TRUE}, some : {FALSE}, left : {FALSE}]
    [] c.pRequest = "file" ->
         [eof : {FALSE}, some : {room}, left : BOOLEAN]
           \cup IF room THEN [eof : {TRUE}, some : BOOLEAN, left : BOOLEAN] ELSE {}
    [] c.pRequest = "stream" ->
         [eof : {FALSE}, some : {room, FALSE}, left : BOOLEAN]
           \cup [eof : {TRUE}, some : {room}, left : BOOLEAN]
    [] OTHER ->
         [eof : {FALSE}, some : {room}, left : BOOLEAN]
           \cup IF room THEN [eof : {TRUE}, some : BOOLEAN, left : BOOLEAN] ELSE {}

----------------------------------------------------------------------------
(* _ConnectionRead.  A service of a connection leads to an outcome: the    *)
(* connection as it is then, and whether the walk stays with it.           *)

Goes(S)  == {[c |-> x, stays |-> FALSE] : x \in S}
Stays(S) == {[c |-> x, stays |-> TRUE] : x \in S}

(* What has come of a body, as far as anyone can tell, when the client goes.*)
Come(c) == IF c.asked = "none" THEN "whole" ELSE "part"

(* mutant: tells every object that the client has left, whatever it sent *)
LostAlways(c) ==
  IF c.pRequest # "NULL"
    THEN {Dead([x EXCEPT !.rcRespCode = c.rcRespCode]) : x \in CbEnd(c, Come(c))}
    ELSE {Dead(c)}

(* The client has closed, or the connection is broken: the end of a body   *)
(* that says nothing of its end.                                           *)
Lost(c) ==
  IF c.pRequest # "NULL" /\ ~c.bChunked /\ ~c.bLength
    THEN {Dead([x EXCEPT !.rcRespCode = c.rcRespCode]) : x \in CbEnd(c, Come(c))}
    ELSE {Dead(c)}

(* _ChunkedRead: malformed; or some chunks, the last one perhaps.  One     *)
(* whose header ends the buffer is lost.                                   *)
Chunks(c) ==
  {Dead(c)} \cup
  {[x EXCEPT !.pending = p] : x \in {c} \cup CbWrite(c) \cup CbEnd(c, "whole"), p \in BOOLEAN}

(* The body of known length, or of a client that sends until it closes.    *)
Body(c) ==
  LET none == IF c.pending THEN {} ELSE {c}
      all  == {[x EXCEPT !.pending = FALSE] : x \in CbWrite(c)}
      over == {[x EXCEPT !.pending = TRUE] : x \in CbEnd(c, "whole")}
      last == UNION {IF x.rcRespCode = "NULL" THEN CbEnd(x, "whole") ELSE {x} :
                     x \in CbWrite([c EXCEPT !.more = FALSE])}
  IN  none \cup
      CASE ~c.bLength           -> all
        [] c.bLength /\ ~c.more -> over
        [] c.bLength /\ c.more  -> all \cup {[x EXCEPT !.pending = p] : x \in last, p \in BOOLEAN}

(* mutant: the time-out goes on while a request is served *)
TimedFor(c, kind) == c.timed

(* Once there is a request, or a code to answer, nothing times it.         *)
Timed(c, kind) == FALSE

(* What a request says ("denied": CBReqNew makes no object, but a code).   *)
Asks ==
  [kind : Requests \cup {"denied"}, client11 : BOOLEAN, framing : Framings, keep : BOOLEAN]

(* CBReqNew has been asked for an object.                                  *)
Opened(c, ask) ==
  {[c EXCEPT !.pRequest = IF ask.kind = "denied" THEN "NULL" ELSE ask.kind,
             !.open = IF ask.kind = "denied" THEN @ ELSE @ + 1,
             !.rcRespCode = a.code, !.pending = a.rest,
             !.asked = ask.framing, !.bChunked = (ask.framing = "chunked"),
             !.bLength = ask.framing \in {"zero", "some"},
             !.more = IF ask.framing \in {"zero", "some"} THEN ask.framing = "some" ELSE @,
             !.bClient11 = ask.client11, !.bKeepAlive = ask.keep,
             !.timed = Timed(c, ask.kind)] :
   a \in IF ask.kind = "denied" THEN [code : {"err"}, rest : {FALSE}]
         ELSE {b \in [code : CbNew(ask.kind), rest : BOOLEAN] : b.rest => b.code = "NULL"}}

(* The bytes so far are no request, a bad one, one for a host we are not   *)
(* (no object, no code), or a good one.                                    *)
Header(c) ==
  {Dead(c)}
  \cup {[c EXCEPT !.rcRespCode = "err", !.bClient11 = v] : v \in BOOLEAN}
  \cup {Dead([c EXCEPT !.bClient11 = v]) : v \in BOOLEAN}
  \cup UNION {Opened(c, ask) : ask \in Asks}

(* The head of the answer goes to the buffer.                              *)
Answer(c) ==
  IF c.pRequest = "NULL"
    THEN {[c EXCEPT !.bKeepAlive = FALSE, !.bSendEOF = TRUE, !.pending = TRUE]}
    ELSE {[c EXCEPT !.bKeepAlive = @ /\ c.rcRespCode = "200",
                    !.bSendEOF = (c.rcRespCode = "100"),
                    !.bLength = @ \/ SizeKnown(c.pRequest), !.more = m,
                    !.bChunked = c.bClient11, !.pending = TRUE, !.head = (c.rcRespCode # "100")] :
          m \in IF SizeKnown(c.pRequest) THEN BOOLEAN ELSE {c.more}}

Received(c) ==
  IF c.pRequest = "NULL" THEN Goes({c} \cup Header(c))
  ELSE LET S == IF c.bChunked THEN Chunks(c) ELSE Body(c)
       IN  Goes(S) \cup Stays({x \in S : ~x.bDead /\ ~x.pending /\ x.rcRespCode = "NULL"})

ConnectionRead(c) ==
  Goes(Lost(c)) \cup
  UNION {IF o.c.bDead \/ o.c.rcRespCode = "NULL" THEN {o} ELSE Stays(Answer(o.c)) :
         o \in Received(c)}

----------------------------------------------------------------------------
(* _ConnectionWrite                                                        *)

(* mutant: an answer that ends without bytes gets no last chunk *)
FilledUnended(c, r) ==
  LET left == IF r.some THEN c.more /\ r.left ELSE c.more
      eof  == r.eof \/ (c.bLength /\ ~left)
  IN  [c EXCEPT !.bSendEOF = eof, !.head = FALSE, !.more = IF c.bLength THEN left ELSE @,
                !.bKeepAlive = @ /\ ~(r.eof /\ ~c.bLength /\ ~c.bChunked),
                !.pending = @ \/ r.some]

(* mutant: keeps a connection whose answer only its end would have ended *)
FilledKept(c, r) ==
  LET left == IF r.some THEN c.more /\ r.left ELSE c.more
      eof  == r.eof \/ (c.bLength /\ ~left)
  IN  [c EXCEPT !.bSendEOF = eof, !.head = FALSE, !.more = IF c.bLength THEN left ELSE @,
                !.pending = @ \/ r.some \/ (c.bChunked /\ eof)]

(* The object has given what r says: the end, and the last chunk.          *)
Filled(c, r) ==
  LET left == IF r.some THEN c.more /\ r.left ELSE c.more
      eof  == r.eof \/ (c.bLength /\ ~left)
  IN  [c EXCEPT !.bSendEOF = eof, !.head = FALSE, !.more = IF c.bLength THEN left ELSE @,
                !.bKeepAlive = @ /\ ~(r.eof /\ ~c.bLength /\ ~c.bChunked),
                !.pending = @ \/ r.some \/ (c.bChunked /\ eof)]

(* More of the answer, unless the buffer is full.  A disk may fail.        *)
Fill(c) ==
  IF c.bSendEOF THEN {c}
  ELSE (IF c.pending /\ ~c.head THEN {c} ELSE {})
       \cup (IF c.pRequest = "file" THEN {Dead(c)} ELSE {})
       \cup {Filled(c, r) : r \in CbRead(c)}

(* All has been sent: the body is read next, the next request, or nothing. *)
Ended(c) ==
  CASE c.rcRespCode = "100" -> [c EXCEPT !.rcRespCode = "NULL"]
    [] c.rcRespCode # "100" /\ c.bKeepAlive ->
         [c EXCEPT !.pRequest = "NULL", !.open = @ - 1, !.rcRespCode = "NULL",
                   !.timed = TRUE, !.asked = "none", !.applied = "no"]
    [] OTHER -> Dead(c)

(* The socket takes nothing, some, or all of it, or fails.                 *)
Send(c) ==
  LET sent == [c EXCEPT !.pending = FALSE]
  IN  CASE c.bDead    -> Goes({c})
        [] ~c.bDead /\ c.pending ->
             Goes({Dead(c), c}) \cup Stays({c})
               \cup IF c.bSendEOF THEN Goes({Ended(sent)}) ELSE Stays({sent})
        [] OTHER -> Goes({c, Dead(c)})

ConnectionWrite(c) == UNION {Send(x) : x \in Fill(c)}

----------------------------------------------------------------------------
(* The threads                                                             *)

Listed    == ToSet(psConnList)
NoWalker  == \A t \in Threads : pc[t] \notin {"look", "try", "serve"}
Goto(t, p) == pc' = [pc EXCEPT ![t] = p] /\ UNCHANGED psConnection

(* The thread goes on to psNext, or leaves the list.                       *)
NextOf(c) ==
  LET i == SelectInSeq(psConnList, LAMBDA x : x = c)
  IN  IF i \in 1..Len(psConnList) - 1 THEN psConnList[i + 1] ELSE Nothing
WalkTo(t, c) ==
  /\ psConnection' = [psConnection EXCEPT ![t] = c]
  /\ pc' = [pc EXCEPT ![t] = IF c = Nothing THEN "top" ELSE "look"]

(* The list without the connections of D, those that stay in their order.  *)
Without(D) ==
  LET kept    == {k \in DOMAIN psConnList : psConnList[k] \notin D}
      rank(k) == Cardinality({j \in kept : j <= k})
  IN  [r \in 1..Cardinality(kept) |-> psConnList[CHOOSE k \in kept : rank(k) = r]]

(* _ConnectionDestroy                                                      *)
Destroy(D) ==
  /\ psConnList' = Without(D)
  /\ conn' = [c \in Conns |-> IF c \in D /\ conn[c].pRequest # "NULL"
                                THEN [conn[c] EXCEPT !.open = @ - 1] ELSE conn[c]]
  /\ sockets' = sockets - Cardinality(D)

Begin(t) ==
  /\ pc[t] = "top" /\ ~bReqStop
  /\ Goto(t, IF ulGetClientSocketsLock THEN "enter" ELSE "sweep")
  /\ ulGetClientSocketsLock' = TRUE
  /\ UNCHANGED <<conns, accepted, sockets, bReqStop, finished>>

(* mutant: sweeps under the read lock *)
SweepBeside(t) ==
  /\ pc[t] = "sweep"
  /\ LET free == {c \in Listed : ~conn[c].ulLockFlag}
         dead == {c \in free : conn[c].bDead}
         old  == {c \in free : conn[c].timed}
     IN  \E D \in SUBSET old : Destroy(dead \cup D)
  /\ Goto(t, "accept")
  /\ UNCHANGED <<ulGetClientSocketsLock, accepted, bReqStop, finished>>

(* Destroys the dead and those whose time is over.                         *)
Sweep(t) ==
  /\ pc[t] = "sweep" /\ NoWalker
  /\ LET free == {c \in Listed : ~conn[c].ulLockFlag}
         dead == {c \in free : conn[c].bDead}
         old  == {c \in free : conn[c].timed}
     IN  \E D \in SUBSET old : Destroy(dead \cup D)
  /\ Goto(t, "accept")
  /\ UNCHANGED <<ulGetClientSocketsLock, accepted, bReqStop, finished>>

(* NetServGetClientSockets: none, or one.                                  *)
Accept(t) ==
  /\ pc[t] = "accept"
  /\ \E n \in 0..1 :
       /\ n = 1 => Listed # Conns
       /\ accepted' = [accepted EXCEPT ![t] = n] /\ sockets' = sockets + n
       /\ Goto(t, IF n = 0 THEN "enter" ELSE "insert")
       /\ ulGetClientSocketsLock' = (n # 0)
  /\ UNCHANGED <<conns, bReqStop, finished>>

(* _ConnectionNew; without memory the socket is closed again.              *)
ConnectionNew(c) ==
  /\ psConnList' = <<c>> \o psConnList
  /\ conn' = [conn EXCEPT ![c] = [@ EXCEPT !.pRequest = "NULL", !.rcRespCode = "NULL",
                !.ulLockFlag = FALSE, !.bDead = FALSE, !.timed = TRUE, !.pending = FALSE,
                !.asked = "none", !.applied = "no"]]

Insert(t) ==
  /\ pc[t] = "insert" /\ NoWalker
  /\ \/ \E c \in Conns \ Listed : ConnectionNew(c) /\ UNCHANGED sockets
     \/ UNCHANGED conns /\ sockets' = sockets - 1
  /\ accepted' = [accepted EXCEPT ![t] = 0]
  /\ ulGetClientSocketsLock' = FALSE /\ Goto(t, "enter")
  /\ UNCHANGED <<bReqStop, finished>>

Enter(t) ==
  /\ pc[t] = "enter"
  /\ WalkTo(t, IF psConnList = <<>> THEN Nothing ELSE Head(psConnList))
  /\ UNCHANGED <<conns, accepts, bReqStop, finished>>

Look(t) ==
  /\ pc[t] = "look"
  /\ IF conn[psConnection[t]].bDead THEN WalkTo(t, NextOf(psConnection[t])) ELSE Goto(t, "try")
  /\ UNCHANGED <<conns, accepts, bReqStop, finished>>

Try(t) ==
  LET c == psConnection[t]
  IN  /\ pc[t] = "try"
      /\ IF conn[c].ulLockFlag THEN WalkTo(t, NextOf(c)) ELSE Goto(t, "serve")
      /\ conn' = [conn EXCEPT ![c].ulLockFlag = TRUE]
      /\ UNCHANGED <<psConnList, accepts, bReqStop, finished>>

(* A read or a write, then clearFlag; "stays": the same connection again.  *)
Serve(t, stays) ==
  LET c == psConnection[t]
  IN  /\ pc[t] = "serve" /\ WalkTo(t, IF stays THEN c ELSE NextOf(c))
      /\ UNCHANGED <<psConnList, accepts, bReqStop, finished>>
      /\ \E o \in IF conn[c].rcRespCode = "NULL"
                    THEN ConnectionRead(conn[c]) ELSE ConnectionWrite(conn[c]) :
           o.stays = stays /\ conn' = [conn EXCEPT ![c] = [o.c EXCEPT !.ulLockFlag = FALSE]]

SeesStop(t) ==
  /\ pc[t] = "top" /\ bReqStop /\ Goto(t, "exit")
  /\ UNCHANGED <<conns, accepts, bReqStop, finished>>

(* The last thread destroys all connections.                               *)
Exit(t) ==
  /\ pc[t] = "exit" /\ NoWalker /\ Goto(t, "gone")
  /\ IF \A u \in Threads \ {t} : pc[u] = "gone"
       THEN Destroy(Listed) ELSE UNCHANGED <<conns, sockets>>
  /\ UNCHANGED <<ulGetClientSocketsLock, accepted, bReqStop, finished>>

(* ReqDone                                                                 *)
Stop ==
  /\ ~bReqStop /\ bReqStop' = TRUE
  /\ UNCHANGED <<conns, threads, accepts, finished>>

Finish ==
  /\ bReqStop /\ ~finished /\ \A t \in Threads : pc[t] = "gone"
  /\ Destroy(Listed) /\ finished' = TRUE
  /\ UNCHANGED <<threads, ulGetClientSocketsLock, accepted, bReqStop>>

Step(t) ==
  \/ Begin(t) \/ Sweep(t) \/ Accept(t) \/ Insert(t)
  \/ Enter(t) \/ Look(t) \/ Try(t) \/ (\E stays \in BOOLEAN : Serve(t, stays))
  \/ SeesStop(t) \/ Exit(t)

Next == (\E t \in Threads : Step(t)) \/ Stop \/ Finish

Spec == Init /\ [][Next]_vars

----------------------------------------------------------------------------
(* A thread in the list stands on a connection that is in the list, however*)
(* others sweep and end meanwhile; and each request object is destroyed    *)
(* once, and each accepted socket closed once: what is open is what the    *)
(* connections in the list hold, and what is on its way into it.           *)
Balanced ==
  /\ \A t \in Threads : pc[t] \in {"look", "try", "serve"} => psConnection[t] \in Listed
  /\ \A c \in Conns : (conn[c].open = 1) <=> (c \in Listed /\ conn[c].pRequest # "NULL")
  /\ sockets = Len(psConnList) + Cardinality({t \in Threads : accepted[t] = 1})

(* While the server runs, a connection that goes is dead or has no request:*)
(* the time-outs never cut off a long answer or a source.                  *)
ServedToTheEnd ==
  [][~bReqStop => \A c \in Listed \ ToSet(psConnList') :
       conn[c].bDead \/ conn[c].pRequest = "NULL"]_vars

(* A configuration that is posted with a length or in chunks is applied at *)
(* most once, and only when all of it has come.                            *)
AppliedWhole ==
  \A c \in Listed : conn[c].asked # "none" => conn[c].applied \in {"no", "whole"}

(* Where an answer's end cannot show: an unchunked one of a log, of a file *)
(* that has shrunk, or under the length of the request's own body.         *)
Unmarked(c) ==
  ~c.bChunked /\ (c.pRequest \in {"log", "file"} \/ (c.asked # "none" /\ ~SizeKnown(c.pRequest)))

(* An answer that has ended still has bytes to send, whose sending ends it:*)
(* no connection waits for ever after the last of them.                    *)
EndsSeen ==
  \A c \in Listed :
    LET k == conn[c]
    IN  k.rcRespCode # "NULL" /\ k.bSendEOF /\ ~k.bDead /\ ~Unmarked(k) => k.pending

(* A connection is kept for a next request only if the client could tell   *)
(* where the answer ended: by chunks, or by a length that has been sent.   *)
KeptIsDelimited ==
  [][\A c \in Listed \cap ToSet(psConnList') :
       conn[c].open = 1 /\ conn'[c].open = 0 =>
         \/ conn[c].bClient11 \/ Unmarked(conn[c])
         \/ SizeKnown(conn[c].pRequest) /\ ~conn'[c].more]_vars
=============================================================================
